------------------------------- MODULE Billing -------------------------------
(***************************************************************************)
(* The subscription of one workspace: checkout and the Stripe webhooks of  *)
(* StripeService, the rows workspace_subscriptions and workspaces, and the *)
(* PlanGuard that answers requests from a Redis copy of the row.           *)
(*                                                                         *)
(* Stripe and Redis are modelled from how the code uses them.  A webhook   *)
(* is acknowledged before it is processed (setImmediate), so Stripe never  *)
(* sends it again, its effects may be lost, and two of them may interleave *)
(* at every await.                                                         *)
(***************************************************************************)
EXTENDS Naturals, SequencesExt

CONSTANTS
    Checkouts,    \* calls of POST /api/billing/checkout at the same time
    Hooks,        \* webhook events processed at the same time
    Guards,       \* guarded requests at the same time
    TTL,          \* life of a Redis entry, in clock ticks (EX 300)
    MaxCustomers, \* bound: customers created at Stripe
    MaxChanges,   \* bound: changes of the subscription at Stripe
    MaxLost       \* bound: webhook events whose processing fails

ASSUME BillingAssumption ==
    TTL \in Nat \ {0} /\ MaxCustomers \in Nat /\ MaxChanges \in Nat
      /\ MaxLost \in Nat

Plans == {"starter", "pro"}
StripeStatuses == {"active", "past_due", "unpaid", "canceled"}
Statuses == {"active", "trialing", "past_due", "cancelled"}
\* Requests that read, and those with a method that writes.
Kinds == {"read", "write"}

NoCustomer == 0
Customers == 0..MaxCustomers

VARIABLES
    stripe,    \* Stripe's subscription: customer, plan and status
    created,   \* customers created at Stripe so far
    sessions,  \* customers with an open checkout session
    mail,      \* webhook events on their way, in the order Stripe sent them
    row,       \* the workspace_subscriptions row
    plan,      \* workspaces.plan
    cache,     \* the Redis entry sub:{workspaceId}
    checkout,  \* checkout[k]: createCheckoutSession
    hook,      \* hook[h]: processEvent
    guard,     \* guard[g]: PlanGuard.canActivate
    barred,    \* barred[w]: ticks since the row stopped to allow such requests
    changes,   \* changes of the subscription so far
    lost,      \* events whose processing failed
    order      \* lost once an event was processed ahead of, or with, an older one

vars == <<stripe, created, sessions, mail, row, plan, cache, checkout, hook,
          guard, barred, changes, lost, order>>

NoRow == [customer |-> NoCustomer, plan |-> "starter", status |-> "none"]
Rows == [customer : Customers, plan : Plans, status : Statuses \cup {"none"}]
NoSubscription == [customer |-> NoCustomer, plan |-> "starter",
                   status |-> "none"]

Events == [type : {"checkout", "updated", "deleted", "payment_failed"},
           customer : Customers, plan : Plans, status : StripeStatuses]

Entries == [plan : Plans, status : Statuses]
Miss == [plan |-> "starter", status |-> "miss", left |-> 0]
CacheStates == [plan : Plans, status : Statuses, left : 1..TTL] \cup {Miss}

IdleCheckout == [pc |-> "idle", customer |-> NoCustomer]
NoEvent == [type |-> "none"]
IdleHook == [pc |-> "idle", event |-> NoEvent, plan |-> "starter"]
NoEntry == [plan |-> "starter", status |-> "active"]
IdleGuard == [pc |-> "idle", kind |-> "read", entry |-> NoEntry]

\* PLAN_FEATURES for a feature of the pro plan, such as inbox or alerts.
PlanAllows(p) == p = "pro"

\* canActivate once it has a plan and a status.
Allows(p, status, kind) ==
    CASE status = "cancelled" -> PlanAllows("starter")
      [] status = "past_due" /\ kind = "write" -> FALSE
      [] OTHER -> PlanAllows(p)

\* The row as PlanGuard reads it; a workspace without a row counts as starter.
Entry(r) == IF r.status = "none"
            THEN [plan |-> "starter", status |-> "active"]
            ELSE [plan |-> r.plan, status |-> r.status]
RowAllows(r, kind) == Allows(Entry(r).plan, Entry(r).status, kind)

Subscriptions == [customer : Customers, plan : Plans,
                  status : StripeStatuses \cup {"none"}]
CheckoutStates == [pc : {"idle", "create", "insert", "open"}, customer : Customers]
HookStates == [pc : {"idle", "retrieve", "find", "upsert", "mark", "plan", "evict"},
               event : Events \cup {NoEvent}, plan : Plans]
GuardStates == [pc : {"idle", "read", "fill", "granted"}, kind : Kinds,
                entry : Entries]

TypeOK ==
    /\ stripe \in Subscriptions /\ created \in Customers
    /\ sessions \subseteq Customers
    /\ mail \in Seq(Events)
    /\ row \in Rows /\ plan \in Plans /\ cache \in CacheStates
    /\ checkout \in [Checkouts -> CheckoutStates]
    /\ hook \in [Hooks -> HookStates]
    /\ guard \in [Guards -> GuardStates]
    /\ barred \in [Kinds -> 0..TTL]
    /\ changes \in 0..MaxChanges /\ lost \in 0..MaxLost
    /\ order \in {"kept", "lost"}

\* createWorkspaceWithOwner inserts a row without a customer; a workspace made
\* before billing existed has no row.
Init ==
    /\ stripe = NoSubscription
    /\ created = 0
    /\ sessions = {}
    /\ mail = <<>>
    /\ row \in {NoRow, [NoRow EXCEPT !.status = "active"]}
    /\ plan = "starter"
    /\ cache = Miss
    /\ checkout = [k \in Checkouts |-> IdleCheckout]
    /\ hook = [h \in Hooks |-> IdleHook]
    /\ guard = [g \in Guards |-> IdleGuard]
    /\ barred = [w \in Kinds |-> TTL]
    /\ changes = 0
    /\ lost = 0
    /\ order = "kept"

\* A row that allows a request ends the count of barred ticks.
WriteRow(new) ==
    /\ row' = new
    /\ barred' = [w \in Kinds |-> IF RowAllows(new, w) THEN 0 ELSE barred[w]]

-----------------------------------------------------------------------------
(* createCheckoutSession and getOrCreateCustomer *)

checkoutFrame == <<mail, plan, cache, hook, guard, changes, lost, order>>
SetCheckout(k, pc, customer) ==
    checkout' = [checkout EXCEPT ![k] = [pc |-> pc, customer |-> customer]]

FindCustomer(k) ==
    /\ checkout[k].pc = "idle"
    /\ \/ row.customer # NoCustomer /\ SetCheckout(k, "open", row.customer)
       \/ /\ row.customer = NoCustomer /\ created < MaxCustomers
          /\ SetCheckout(k, "create", NoCustomer)
    /\ UNCHANGED <<checkoutFrame, stripe, created, sessions, row, barred>>

\* stripe.customers.create.  Bound: no customer beyond MaxCustomers.
CreateCustomer(k) ==
    /\ checkout[k].pc = "create" /\ created < MaxCustomers
    /\ created' = created + 1
    /\ SetCheckout(k, "insert", created + 1)
    /\ UNCHANGED <<checkoutFrame, stripe, sessions, row, barred>>

\* INSERT ... ON CONFLICT DO NOTHING: an existing row keeps its customer.
InsertSubscription(k) ==
    /\ checkout[k].pc = "insert"
    /\ IF row.status = "none"
       THEN WriteRow([customer |-> checkout[k].customer, plan |-> "starter",
                      status |-> "trialing"])
       ELSE UNCHANGED <<row, barred>>
    /\ SetCheckout(k, "open", checkout[k].customer)
    /\ UNCHANGED <<checkoutFrame, stripe, created, sessions>>

OpenSession(k) ==
    /\ checkout[k].pc = "open"
    /\ sessions' = sessions \cup {checkout[k].customer}
    /\ SetCheckout(k, "idle", NoCustomer)
    /\ UNCHANGED <<checkoutFrame, stripe, created, row, barred>>

Checkout(k) == CreateCustomer(k) \/ InsertSubscription(k) \/ OpenSession(k)

-----------------------------------------------------------------------------
(* Stripe: one subscription, whose changes are sent as events in order *)

stripeFrame == <<created, row, plan, cache, checkout, hook, guard, barred,
                 lost, order>>
Event(type, sub) == [type |-> type, customer |-> sub.customer,
                     plan |-> sub.plan, status |-> sub.status]
Send(sub, events) ==
    /\ changes < MaxChanges
    /\ changes' = changes + 1
    /\ stripe' = sub
    /\ mail' = mail \o events
    /\ UNCHANGED stripeFrame
Change(type, sub) == Send(sub, <<Event(type, sub)>>)

CompleteSession ==
    /\ stripe.status = "none"
    /\ \E c \in sessions :
          /\ sessions' = sessions \ {c}
          /\ \E p \in Plans :
                Change("checkout", [customer |-> c, plan |-> p, status |-> "active"])

ChangeSubscription ==
    /\ stripe.status \notin {"none", "canceled"}
    /\ \/ \E p \in Plans \ {stripe.plan} :
            Change("updated", [stripe EXCEPT !.plan = p])
       \/ LET overdue == [stripe EXCEPT !.status = "past_due"]
          IN  Send(overdue, <<Event("payment_failed", overdue),
                              Event("updated", overdue)>>)
       \/ \E s \in {"active", "unpaid"} \ {stripe.status} :
            Change("updated", [stripe EXCEPT !.status = s])
       \/ Change("deleted", [stripe EXCEPT !.status = "canceled"])
    /\ UNCHANGED sessions

-----------------------------------------------------------------------------
(* handleWebhook and processEvent *)

hookFrame == <<stripe, created, sessions, checkout, guard, changes>>
SetHook(h, pc) == hook' = [hook EXCEPT ![h].pc = pc]
\* The event is not looked at any more.
SetTail(h, pc) == hook' = [hook EXCEPT ![h].pc = pc, ![h].event = NoEvent]
HookEnds(h) == hook' = [hook EXCEPT ![h] = IdleHook]

\* Any event on its way may arrive next; processing starts at once.
ReceiveEvent(h) ==
    /\ hook[h].pc = "idle"
    /\ \E i \in DOMAIN mail :
          /\ hook' = [hook EXCEPT ![h] =
                [pc |-> IF mail[i].type = "checkout" THEN "retrieve" ELSE "find",
                 event |-> mail[i], plan |-> "starter"]]
          /\ mail' = RemoveAt(mail, i)
          /\ order' = IF i # 1 \/ \E other \in Hooks : hook[other].pc # "idle"
                      THEN "lost" ELSE order
    /\ UNCHANGED <<hookFrame, row, plan, cache, barred, lost>>

\* onCheckoutCompleted asks Stripe for the subscription as it is now.
RetrieveSubscription(h) ==
    /\ hook[h].pc = "retrieve"
    /\ hook' = [hook EXCEPT ![h].pc = "upsert", ![h].plan = stripe.plan]
    /\ UNCHANGED <<hookFrame, mail, row, plan, cache, barred, lost, order>>

\* workspaceIdByCustomer; an event of an unknown customer is dropped.
FindWorkspace(h) ==
    LET event == hook[h].event
    IN  /\ hook[h].pc = "find"
        /\ IF row.customer # event.customer THEN HookEnds(h)
           ELSE IF event.type = "updated"
           THEN hook' = [hook EXCEPT ![h].pc = "upsert", ![h].plan = event.plan]
           ELSE SetHook(h, "mark")
        /\ UNCHANGED <<hookFrame, mail, row, plan, cache, barred, lost,
                       order>>

\* Mutant: a status the service does not know is passed on.
MapStripeStatusRaw(status) == status

MapStripeStatus(status) ==
    IF status \in {"active", "trialing", "past_due"} THEN status
    ELSE "cancelled"

\* Mutant: every upsert writes the status of a checkout.
EventStatusActive(event) == IF event.type = "none" THEN "trialing" ELSE "active"

\* The status the upsert writes: a completed checkout is always active.
EventStatus(event) ==
    IF event.type = "checkout" THEN "active" ELSE MapStripeStatus(event.status)

\* upsertSubscription of a completed checkout or an update.
UpsertSubscription(h) ==
    LET event == hook[h].event
    IN  /\ hook[h].pc = "upsert"
        /\ WriteRow([customer |-> event.customer, plan |-> hook[h].plan,
                     status |-> EventStatus(event)])
        /\ SetTail(h, "plan")
        /\ UNCHANGED <<hookFrame, mail, plan, cache, lost, order>>

\* The updates of a deletion and of a failed payment.
MarkSubscription(h) ==
    /\ hook[h].pc = "mark"
    /\ IF hook[h].event.type = "deleted"
       THEN /\ WriteRow([row EXCEPT !.status = "cancelled", !.plan = "starter"])
            /\ SetTail(h, "plan")
       ELSE /\ WriteRow([row EXCEPT !.status = "past_due"])
            /\ SetTail(h, "evict")
    /\ UNCHANGED <<hookFrame, mail, plan, cache, lost, order>>

\* The plan that goes to the workspace: a deletion's IdleHook plan is starter.
UpdateWorkspacePlan(h) ==
    /\ hook[h].pc = "plan"
    /\ plan' = hook[h].plan
    /\ hook' = [hook EXCEPT ![h] = [IdleHook EXCEPT !.pc = "evict"]]
    /\ UNCHANGED <<hookFrame, mail, row, cache, barred, lost, order>>

\* redis.del, whose failure is only logged.
EvictEntry(h) ==
    /\ hook[h].pc = "evict"
    /\ cache' \in {Miss, cache}
    /\ HookEnds(h)
    /\ UNCHANGED <<hookFrame, mail, row, plan, barred, lost, order>>

\* A query fails: the error is logged, and the rest of the event is lost.
HookFails(h) ==
    /\ hook[h].pc \in {"retrieve", "find", "upsert", "mark", "plan"}
    /\ lost < MaxLost
    /\ lost' = lost + 1
    /\ HookEnds(h)
    /\ UNCHANGED <<hookFrame, mail, row, plan, cache, barred, order>>

ProcessEvent(h) ==
    \/ RetrieveSubscription(h) \/ FindWorkspace(h) \/ UpsertSubscription(h)
    \/ MarkSubscription(h) \/ UpdateWorkspacePlan(h) \/ EvictEntry(h)

-----------------------------------------------------------------------------
(* PlanGuard.canActivate, and the Redis entry it fills *)

guardFrame == <<stripe, created, sessions, mail, row, plan, checkout, hook,
                changes, lost, order>>
\* canActivate with the plan and the status at hand: grant or throw.
Decide(g, entry, kind) ==
    guard' = [guard EXCEPT ![g] =
        IF Allows(entry.plan, entry.status, kind)
        THEN [pc |-> "granted", kind |-> kind, entry |-> NoEntry]
        ELSE IdleGuard]

\* redis.get: a hit decides; a miss or an error goes to the database.
LookupEntry(g) ==
    /\ guard[g].pc = "idle"
    /\ \E kind \in Kinds :
          \/ cache # Miss /\ Decide(g, cache, kind)
          \/ guard' = [guard EXCEPT ![g].pc = "read", ![g].kind = kind]
    /\ UNCHANGED <<guardFrame, cache, barred>>

ReadRow(g) ==
    /\ guard[g].pc = "read"
    /\ guard' = [guard EXCEPT ![g].pc = "fill", ![g].entry = Entry(row)]
    /\ UNCHANGED <<guardFrame, cache, barred>>

\* Mutant: the option EX is left out.
StoredForever(entry) ==
    [plan |-> entry.plan, status |-> entry.status, left |-> 0]

\* Redis keeps what redis.set stores for the seconds EX names.
Stored(entry) == [plan |-> entry.plan, status |-> entry.status, left |-> TTL]

\* redis.set, whose error is ignored; the guard decides in the same turn.
FillEntry(g) ==
    /\ guard[g].pc = "fill"
    /\ cache' \in {cache, Stored(guard[g].entry)}
    /\ Decide(g, guard[g].entry, guard[g].kind)
    /\ UNCHANGED <<guardFrame, barred>>

Leave(g) ==
    /\ guard[g].pc = "granted"
    /\ guard' = [guard EXCEPT ![g] = IdleGuard]
    /\ UNCHANGED <<guardFrame, cache, barred>>

CanActivate(g) == ReadRow(g) \/ FillEntry(g) \/ Leave(g)

\* What a tick leaves of an entry; one without EX (left = 0) stays.
Age(entry) ==
    CASE entry.left = 0 -> entry
      [] entry.left = 1 -> Miss
      [] OTHER -> [entry EXCEPT !.left = @ - 1]

\* The clock: a guard takes less than a tick, so none is under way at a tick.
Tick ==
    /\ \A g \in Guards : guard[g].pc = "idle"
    /\ cache' = Age(cache)
    /\ barred' = [w \in Kinds |->
          IF RowAllows(row, w) THEN 0
          ELSE IF barred[w] < TTL THEN barred[w] + 1 ELSE TTL]
    /\ UNCHANGED <<guardFrame, guard>>

Next ==
    \/ \E k \in Checkouts : FindCustomer(k) \/ Checkout(k)
    \/ CompleteSession \/ ChangeSubscription
    \/ \E h \in Hooks : ReceiveEvent(h) \/ ProcessEvent(h) \/ HookFails(h)
    \/ \E g \in Guards : LookupEntry(g) \/ CanActivate(g)
    \/ Tick

Spec == Init /\ [][Next]_vars

\* Stripe delivers what it sent, started handlers run on, time passes.
Fairness ==
    /\ \A k \in Checkouts : WF_vars(Checkout(k))
    /\ \A h \in Hooks : WF_vars(ReceiveEvent(h)) /\ WF_vars(ProcessEvent(h))
    /\ \A g \in Guards : WF_vars(CanActivate(g))
    /\ SF_vars(Tick)

FairSpec == Spec /\ Fairness

-----------------------------------------------------------------------------
(* Properties *)

\* What the rows should say of the subscription.
View == IF stripe.status = "canceled"
        THEN [plan |-> "starter", status |-> "cancelled"]
        ELSE [plan |-> stripe.plan, status |-> MapStripeStatus(stripe.status)]
Settled == mail = <<>> /\ \A h \in Hooks : hook[h].pc = "idle"

\* Once every event was processed, in order and without a loss, the
\* subscription row and the workspace's plan are what Stripe has.
MatchesStripe ==
    Settled /\ stripe.status # "none" /\ lost = 0 /\ order = "kept" =>
        /\ row.plan = View.plan /\ row.status = View.status
        /\ plan = View.plan

\* A guard grants no request that the row has barred for the life of an entry,
\* whatever evictions failed and whatever late fills undid them.
NoLateGrant ==
    \A g \in Guards :
        guard[g].pc = "granted" => barred[guard[g].kind] < TTL

\* When the subscription rests, the guards end up reading the row's values:
\* no stale entry stays in Redis.
CacheConverges ==
    <>[](cache # Miss =>
           [plan |-> cache.plan, status |-> cache.status] = Entry(row))
=============================================================================
