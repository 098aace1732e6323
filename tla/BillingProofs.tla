---------------------------- MODULE BillingProofs ----------------------------
(***************************************************************************)
(* Proofs, for any checkouts, webhooks, guards and bounds, that Billing is *)
(* well typed, that its guards grant nothing that the row has barred for   *)
(* the life of a Redis entry, and that the rows follow the subscription    *)
(* once its events were processed in order.                                *)
(***************************************************************************)
EXTENDS Billing, SequenceTheorems, TLAPS

-----------------------------------------------------------------------------
(* The inductive invariant *)

\* An event that is being processed is still known until its row was written.
HookInv ==
    \A h \in Hooks : hook[h].pc \in {"retrieve", "find", "upsert", "mark"}
                        => hook[h].event \in Events

\* A request that the row allows is not barred.
RowInv == \A w \in Kinds : RowAllows(row, w) => barred[w] = 0

\* An entry that allows a request is younger than the row that bars it: with what
\* is left of its life, it ends within the TTL.
CacheInv ==
    \A w \in Kinds : cache.left # 0 /\ Allows(cache.plan, cache.status, w)
                        => barred[w] + cache.left <= TTL

\* What a guard read it read since the last tick: no row of an older tick gets
\* into Redis.
FillInv ==
    \A g \in Guards, w \in Kinds :
        guard[g].pc = "fill" /\ Allows(guard[g].entry.plan, guard[g].entry.status, w)
            => barred[w] = 0

IInv ==
    /\ TypeOK /\ HookInv /\ RowInv /\ CacheInv /\ FillInv /\ NoLateGrant

-----------------------------------------------------------------------------
(* Facts the steps share *)

LEMMA Numbers ==
    /\ TTL \in Nat /\ TTL # 0 /\ MaxCustomers \in Nat /\ MaxChanges \in Nat
    /\ MaxLost \in Nat /\ 0 \in Customers /\ Customers \subseteq Nat
    /\ 0 \in 0..TTL /\ TTL \in 0..TTL /\ TTL \in 1..TTL
  BY BillingAssumption DEF Customers

LEMMA Records ==
    /\ NoSubscription \in Subscriptions /\ NoRow \in Rows
    /\ IdleCheckout \in CheckoutStates /\ IdleHook \in HookStates
    /\ IdleGuard \in GuardStates /\ NoEntry \in Entries /\ Miss \in CacheStates
    /\ [NoRow EXCEPT !.status = "active"] \in Rows
  BY Numbers DEF NoSubscription, Subscriptions, NoRow, Rows, IdleCheckout,
     CheckoutStates, IdleHook, HookStates, NoEvent, IdleGuard, GuardStates, NoEntry,
     Entries, Miss, CacheStates, Plans, StripeStatuses, Statuses, Kinds, NoCustomer

\* What is read from a row, and what an upsert makes of an event.
LEMMA EntryIsTyped ==
  ASSUME NEW r \in Rows
  PROVE  Entry(r) \in Entries
BY DEF Entry, Entries, Rows, Plans, Statuses

LEMMA EventStatusIsTyped ==
  ASSUME NEW event \in Events
  PROVE  EventStatus(event) \in Statuses
BY DEF EventStatus, MapStripeStatus, Events, Statuses, StripeStatuses

LEMMA EventIsTyped ==
  ASSUME NEW type \in {"checkout", "updated", "deleted", "payment_failed"},
         NEW sub \in Subscriptions, sub.status # "none"
  PROVE  Event(type, sub) \in Events
BY DEF Event, Events, Subscriptions

LEMMA WriteRowIsTyped ==
  ASSUME TypeOK, NEW new \in Rows, WriteRow(new)
  PROVE  /\ row' \in Rows /\ barred' \in [Kinds -> 0..TTL]
         /\ \A w \in Kinds : barred'[w] \in {0, barred[w]}
         /\ RowInv => RowInv'
BY Numbers DEF TypeOK, WriteRow, RowInv, RowAllows, Entry

\* An event taken from the middle of the mail leaves mail.
LEMMA TakenFromMail ==
  ASSUME NEW i \in DOMAIN mail, mail \in Seq(Events)
  PROVE  mail[i] \in Events /\ RemoveAt(mail, i) \in Seq(Events)
<1>1. Len(mail) \in Nat /\ i \in 1..Len(mail) /\ \A j \in 1..Len(mail) : mail[j] \in Events
  BY LenProperties, ElementOfSeq
<1>2. SubSeq(mail, 1, i - 1) \in Seq(Events)
  <2>1. \A j \in 1..(i - 1) : mail[j] \in Events
    BY <1>1
  <2> QED
    BY <1>1, <2>1, SubSeqProperties
<1>3. SubSeq(mail, i + 1, Len(mail)) \in Seq(Events)
  <2>1. \A j \in (i + 1)..Len(mail) : mail[j] \in Events
    BY <1>1
  <2> QED
    BY <1>1, <2>1, SubSeqProperties
<1> QED
  BY <1>1, <1>2, <1>3, ConcatProperties DEF RemoveAt

\* A change at Stripe whose events are added to the mail.
LEMMA SendIsTyped ==
  ASSUME TypeOK, NEW sub \in Subscriptions, NEW events \in Seq(Events),
         Send(sub, events), sessions' \subseteq Customers
  PROVE  TypeOK'
<1>1. mail' \in Seq(Events)
  BY ConcatProperties DEF TypeOK, Send
<1>2. stripe' \in Subscriptions /\ changes' \in 0..MaxChanges
  BY Numbers DEF TypeOK, Send
<1> QED
  BY <1>1, <1>2 DEF TypeOK, Send, stripeFrame

LEMMA ChangeIsTyped ==
  ASSUME TypeOK, NEW sub \in Subscriptions, sub.status # "none",
         NEW type \in {"checkout", "updated", "deleted", "payment_failed"},
         Change(type, sub), sessions' \subseteq Customers
  PROVE  TypeOK'
<1>1. Event(type, sub) \in Events
  BY EventIsTyped
<1>2. <<Event(type, sub)>> \in Seq(Events)
  BY <1>1
<1> QED
  BY <1>2, SendIsTyped DEF Change

LEMMA LifeOfEntry ==
  ASSUME TypeOK
  PROVE  cache.left \in 0..TTL /\ \A w \in Kinds : barred[w] \in 0..TTL
BY Numbers DEF TypeOK, CacheStates, Miss

\* Where a webhook goes from its look at the workspace, and from its update.
LEMMA FindLeads ==
  ASSUME NEW h \in Hooks, FindWorkspace(h)
  PROVE  \/ hook' = [hook EXCEPT ![h] = IdleHook]
         \/ hook' = [hook EXCEPT ![h].pc = "upsert", ![h].plan = hook[h].event.plan]
         \/ hook' = [hook EXCEPT ![h].pc = "mark"]
BY DEF FindWorkspace, HookEnds, SetHook

LEMMA MarkLeads ==
  ASSUME NEW h \in Hooks, MarkSubscription(h)
  PROVE  \E pc \in {"plan", "evict"} :
            hook' = [hook EXCEPT ![h].pc = pc, ![h].event = NoEvent]
BY DEF MarkSubscription, SetTail

\* A guard that asks Redis grants, refuses or goes to the database; it grants on an
\* entry that is younger than what bars its request.
LEMMA LookupLeads ==
  ASSUME IInv, NEW g \in Guards, LookupEntry(g)
  PROVE  /\ UNCHANGED <<guardFrame, cache, barred>>
         /\ guard[g].pc = "idle"
         /\ \E k \in Kinds :
               \/ guard' = [guard EXCEPT ![g] = IdleGuard]
               \/ guard' = [guard EXCEPT ![g].pc = "read", ![g].kind = k]
               \/ /\ guard' = [guard EXCEPT ![g] =
                        [pc |-> "granted", kind |-> k, entry |-> NoEntry]]
                  /\ barred[k] < TTL
<1>1. PICK k \in Kinds :
         \/ cache # Miss /\ Decide(g, cache, k)
         \/ guard' = [guard EXCEPT ![g].pc = "read", ![g].kind = k]
  BY DEF LookupEntry
<1>2. UNCHANGED <<guardFrame, cache, barred>> /\ guard[g].pc = "idle"
  BY DEF LookupEntry
<1>3. CASE cache # Miss /\ Decide(g, cache, k) /\ Allows(cache.plan, cache.status, k)
  <2>1. cache.left \in 1..TTL
    BY <1>3 DEF IInv, TypeOK, CacheStates
  <2>2. barred[k] + cache.left <= TTL
    BY <1>3, <2>1 DEF IInv, CacheInv
  <2>3. barred[k] < TTL
    BY <2>1, <2>2, LifeOfEntry, Numbers DEF IInv
  <2> QED
    BY <1>2, <1>3, <2>3 DEF Decide
<1>4. CASE cache # Miss /\ Decide(g, cache, k) /\ ~Allows(cache.plan, cache.status, k)
  BY <1>2, <1>4 DEF Decide
<1> QED
  BY <1>1, <1>2, <1>3, <1>4

LEMMA InitIInv == Init => IInv
<1> SUFFICES ASSUME Init PROVE IInv
  OBVIOUS
<1>1. TypeOK
  BY Numbers, Records, EmptySeq DEF Init, TypeOK, Plans
<1>2. HookInv /\ CacheInv /\ FillInv /\ NoLateGrant
  BY DEF Init, HookInv, CacheInv, FillInv, NoLateGrant, IdleHook, IdleGuard, Miss
<1>3. RowInv
  BY DEF Init, RowInv, RowAllows, Allows, PlanAllows, Entry, NoRow
<1> QED
  BY <1>1, <1>2, <1>3 DEF IInv

-----------------------------------------------------------------------------
(* Each part of the invariant survives each step *)

LEMMA TypeStep == IInv /\ [Next]_vars => TypeOK'
<1> SUFFICES ASSUME IInv, [Next]_vars PROVE TypeOK'
  OBVIOUS
<1> USE Numbers, Records DEF IInv, TypeOK
<1>1. ASSUME NEW k \in Checkouts, FindCustomer(k) PROVE TypeOK'
  <2>1. \E pc \in {"open", "create"}, c \in Customers : SetCheckout(k, pc, c)
    BY <1>1 DEF FindCustomer, Rows, NoCustomer
  <2>2. checkout' \in [Checkouts -> CheckoutStates]
    BY <2>1 DEF SetCheckout, CheckoutStates
  <2> QED
    BY <1>1, <2>2 DEF FindCustomer, checkoutFrame
<1>2. ASSUME NEW k \in Checkouts, CreateCustomer(k) PROVE TypeOK'
  BY <1>2 DEF CreateCustomer, checkoutFrame, SetCheckout, CheckoutStates, Customers
<1>3. ASSUME NEW k \in Checkouts, OpenSession(k) PROVE TypeOK'
  BY <1>3 DEF OpenSession, checkoutFrame, SetCheckout, CheckoutStates, NoCustomer
<1>4. ASSUME NEW k \in Checkouts, InsertSubscription(k) PROVE TypeOK'
  <2>1. \/ UNCHANGED <<row, barred>>
        \/ \E new \in Rows : WriteRow(new)
    BY <1>4 DEF InsertSubscription, Rows, CheckoutStates, Statuses, Plans
  <2>2. row' \in Rows /\ barred' \in [Kinds -> 0..TTL]
    BY <2>1, WriteRowIsTyped
  <2> QED
    BY <1>4, <2>2 DEF InsertSubscription, SetCheckout, checkoutFrame, CheckoutStates
<1>5. ASSUME CompleteSession PROVE TypeOK'
  <2>1. PICK c \in sessions, p \in Plans :
          /\ sessions' = sessions \ {c}
          /\ Change("checkout", [customer |-> c, plan |-> p, status |-> "active"])
    BY <1>5 DEF CompleteSession
  <2>2. [customer |-> c, plan |-> p, status |-> "active"] \in Subscriptions
    BY DEF Subscriptions, StripeStatuses
  <2> QED
    BY <2>1, <2>2, ChangeIsTyped
<1>6. ASSUME ChangeSubscription PROVE TypeOK'
  <2>1. /\ stripe.status # "none" /\ sessions' \subseteq Customers
        /\ \A p \in Plans : [stripe EXCEPT !.plan = p] \in Subscriptions
        /\ \A s \in StripeStatuses : [stripe EXCEPT !.status = s] \in Subscriptions
        /\ \A p \in Plans : [stripe EXCEPT !.plan = p].status # "none"
        /\ \A s \in StripeStatuses : [stripe EXCEPT !.status = s].status # "none"
    BY <1>6 DEF ChangeSubscription, Subscriptions, StripeStatuses
  <2>2. ASSUME NEW p \in Plans, Change("updated", [stripe EXCEPT !.plan = p])
        PROVE  TypeOK'
    BY <2>1, <2>2, ChangeIsTyped
  <2>3. ASSUME NEW s \in {"active", "unpaid"},
               Change("updated", [stripe EXCEPT !.status = s])
        PROVE  TypeOK'
    <3>1. s \in StripeStatuses
      BY DEF StripeStatuses
    <3> QED
      BY <2>1, <2>3, <3>1, ChangeIsTyped
  <2>4. ASSUME Change("deleted", [stripe EXCEPT !.status = "canceled"])
        PROVE  TypeOK'
    <3>1. "canceled" \in StripeStatuses
      BY DEF StripeStatuses
    <3> QED
      BY <2>1, <2>4, <3>1, ChangeIsTyped
  <2>5. ASSUME NEW overdue, overdue = [stripe EXCEPT !.status = "past_due"],
               Send(overdue, <<Event("payment_failed", overdue),
                               Event("updated", overdue)>>)
        PROVE  TypeOK'
    <3>1. overdue \in Subscriptions /\ overdue.status # "none"
      BY <2>1, <2>5 DEF StripeStatuses
    <3>2. Event("payment_failed", overdue) \in Events /\ Event("updated", overdue) \in Events
      BY <3>1, EventIsTyped
    <3>3. <<Event("payment_failed", overdue), Event("updated", overdue)>> \in Seq(Events)
      BY <3>2
    <3> QED
      BY <2>1, <2>5, <3>1, <3>3, SendIsTyped
  <2> QED
    BY <1>6, <2>2, <2>3, <2>4, <2>5 DEF ChangeSubscription
<1>7. ASSUME NEW h \in Hooks, ReceiveEvent(h) PROVE TypeOK'
  <2>1. PICK i \in DOMAIN mail :
          /\ hook' = [hook EXCEPT ![h] =
                [pc |-> IF mail[i].type = "checkout" THEN "retrieve" ELSE "find",
                 event |-> mail[i], plan |-> "starter"]]
          /\ mail' = RemoveAt(mail, i)
    BY <1>7 DEF ReceiveEvent
  <2>2. mail[i] \in Events /\ mail' \in Seq(Events)
    BY <2>1, TakenFromMail
  <2>3. hook' \in [Hooks -> HookStates]
    BY <2>1, <2>2 DEF HookStates, Plans
  <2> QED
    BY <1>7, <2>2, <2>3 DEF ReceiveEvent, hookFrame
<1>8. ASSUME NEW h \in Hooks, RetrieveSubscription(h) PROVE TypeOK'
  BY <1>8 DEF RetrieveSubscription, hookFrame, HookStates, Subscriptions
<1>9. ASSUME NEW h \in Hooks, FindWorkspace(h) PROVE TypeOK'
  <2>1. hook[h].event \in Events
    BY <1>9 DEF HookInv, FindWorkspace
  <2>3. hook[h].event.plan \in Plans
    BY <2>1 DEF Events
  <2>2. hook' \in [Hooks -> HookStates]
    <3>2. PICK p : p = hook[h].event.plan
      OBVIOUS
    <3>1. \/ hook' = [hook EXCEPT ![h] = IdleHook]
          \/ hook' = [hook EXCEPT ![h].pc = "upsert", ![h].plan = p]
          \/ hook' = [hook EXCEPT ![h].pc = "mark"]
      BY <1>9, <3>2, FindLeads
    <3>3. [hook[h] EXCEPT !.pc = "upsert", !.plan = p] \in HookStates
      BY <2>3, <3>2 DEF HookStates
    <3>4. [hook[h] EXCEPT !.pc = "mark"] \in HookStates
      BY DEF HookStates
    <3> QED
      BY <3>1, <3>3, <3>4
  <2> QED
    BY <1>9, <2>2 DEF FindWorkspace, hookFrame
<1>10. ASSUME NEW h \in Hooks, UpsertSubscription(h) PROVE TypeOK'
  <2>1. hook[h].event \in Events /\ hook[h].plan \in Plans
    BY <1>10 DEF HookInv, UpsertSubscription, HookStates
  <2>2. PICK new : /\ new = [customer |-> hook[h].event.customer, plan |-> hook[h].plan,
                              status |-> EventStatus(hook[h].event)]
                   /\ WriteRow(new)
    BY <1>10 DEF UpsertSubscription
  <2>3. new \in Rows
    BY <2>1, <2>2, EventStatusIsTyped DEF Rows, Events
  <2>4. row' \in Rows /\ barred' \in [Kinds -> 0..TTL]
    BY <2>2, <2>3, WriteRowIsTyped
  <2>5. hook' \in [Hooks -> HookStates]
    BY <1>10 DEF UpsertSubscription, SetTail, HookStates
  <2> QED
    BY <1>10, <2>4, <2>5 DEF UpsertSubscription, hookFrame
<1>11. ASSUME NEW h \in Hooks, MarkSubscription(h) PROVE TypeOK'
  <2>1. PICK new \in Rows : WriteRow(new)
    BY <1>11 DEF MarkSubscription, Rows, Statuses, Plans
  <2>2. row' \in Rows /\ barred' \in [Kinds -> 0..TTL]
    BY <2>1, WriteRowIsTyped
  <2>3. hook' \in [Hooks -> HookStates]
    <3>1. PICK pc \in {"plan", "evict"} :
             hook' = [hook EXCEPT ![h].pc = pc, ![h].event = NoEvent]
      BY <1>11, MarkLeads
    <3> QED
      BY <3>1 DEF HookStates
  <2> QED
    BY <1>11, <2>2, <2>3 DEF MarkSubscription, hookFrame
<1>12. ASSUME NEW h \in Hooks, UpdateWorkspacePlan(h) PROVE TypeOK'
  BY <1>12 DEF UpdateWorkspacePlan, hookFrame, IdleHook, HookStates, Plans, NoEvent
<1>13. ASSUME NEW h \in Hooks, EvictEntry(h) PROVE TypeOK'
  BY <1>13 DEF EvictEntry, hookFrame, HookEnds, IdleHook
<1>14. ASSUME NEW h \in Hooks, HookFails(h) PROVE TypeOK'
  BY <1>14 DEF HookFails, hookFrame, HookEnds, IdleHook
<1>15. ASSUME NEW g \in Guards, LookupEntry(g) PROVE TypeOK'
  <2>1. /\ UNCHANGED <<guardFrame, cache, barred>> /\ guard[g].pc = "idle"
        /\ \E k \in Kinds :
              \/ guard' = [guard EXCEPT ![g] = IdleGuard]
              \/ guard' = [guard EXCEPT ![g].pc = "read", ![g].kind = k]
              \/ /\ guard' = [guard EXCEPT ![g] =
                       [pc |-> "granted", kind |-> k, entry |-> NoEntry]]
                 /\ barred[k] < TTL
    <3> HIDE DEF IInv, TypeOK
    <3> QED
      BY <1>15, LookupLeads
  <2>2. guard' \in [Guards -> GuardStates]
    <3>1. ASSUME NEW k \in Kinds
          PROVE  /\ [guard[g] EXCEPT !.pc = "read", !.kind = k] \in GuardStates
                 /\ [pc |-> "granted", kind |-> k, entry |-> NoEntry] \in GuardStates
      BY DEF GuardStates
    <3> QED
      BY <2>1, <3>1
  <2> QED
    BY <2>1, <2>2 DEF guardFrame
<1>16. ASSUME NEW g \in Guards, ReadRow(g) PROVE TypeOK'
  <2>1. Entry(row) \in Entries
    BY EntryIsTyped
  <2> QED
    BY <1>16, <2>1 DEF ReadRow, guardFrame, GuardStates
<1>17. ASSUME NEW g \in Guards, FillEntry(g) PROVE TypeOK'
  <2>1. guard[g].entry \in Entries
    BY DEF GuardStates
  <2>2. Stored(guard[g].entry) \in CacheStates
    BY <2>1, Numbers DEF Stored, CacheStates, Entries
  <2>3. guard' \in [Guards -> GuardStates]
    BY <1>17, Records DEF FillEntry, Decide, GuardStates
  <2> QED
    BY <1>17, <2>2, <2>3 DEF FillEntry, guardFrame
<1>18. ASSUME NEW g \in Guards, Leave(g) PROVE TypeOK'
  BY <1>18 DEF Leave, guardFrame, IdleGuard
<1>19. ASSUME Tick PROVE TypeOK'
  <2>1. cache' \in CacheStates
    <3>1. CASE cache = Miss
      BY <1>19, <3>1 DEF Tick, Age, Miss
    <3>2. CASE cache \in [plan : Plans, status : Statuses, left : 1..TTL]
      <4>1. cache.left \in Nat /\ cache.left # 0
        BY <3>2
      <4>2. CASE cache.left = 1
        BY <1>19, <4>2 DEF Tick, Age
      <4>3. CASE cache.left # 1
        <5>1. cache' = [cache EXCEPT !.left = cache.left - 1]
          BY <1>19, <4>1, <4>3 DEF Tick, Age
        <5>2. cache.left - 1 \in 1..TTL
          BY <3>2, <4>3
        <5> QED
          BY <3>2, <5>1, <5>2 DEF CacheStates
      <4> QED
        BY <4>2, <4>3
    <3> QED
      BY <3>1, <3>2 DEF CacheStates
  <2>2. barred' \in [Kinds -> 0..TTL]
    BY <1>19, Numbers DEF Tick
  <2> QED
    BY <1>19, <2>1, <2>2 DEF Tick, guardFrame
<1>20. CASE UNCHANGED vars
  BY <1>20 DEF vars
<1> QED
  BY <1>1, <1>2, <1>3, <1>4, <1>5, <1>6, <1>7, <1>8, <1>9, <1>10, <1>11, <1>12,
     <1>13, <1>14, <1>15, <1>16, <1>17, <1>18, <1>19, <1>20
  DEF Next, Checkout, ProcessEvent, CanActivate

LEMMA HookStep == IInv /\ [Next]_vars => HookInv'
<1> SUFFICES ASSUME IInv, [Next]_vars PROVE HookInv'
  OBVIOUS
<1> USE Numbers, Records DEF IInv, TypeOK, HookInv
<1>1. ASSUME NEW h \in Hooks, ReceiveEvent(h) PROVE HookInv'
  <2>1. PICK i \in DOMAIN mail :
          hook' = [hook EXCEPT ![h] =
                [pc |-> IF mail[i].type = "checkout" THEN "retrieve" ELSE "find",
                 event |-> mail[i], plan |-> "starter"]]
    BY <1>1 DEF ReceiveEvent
  <2>2. mail[i] \in Events
    BY TakenFromMail
  <2> QED
    BY <2>1, <2>2
<1>2. ASSUME NEW h \in Hooks, RetrieveSubscription(h) PROVE HookInv'
  BY <1>2 DEF RetrieveSubscription, hookFrame, HookInv, HookStates
<1>3. ASSUME NEW h \in Hooks, FindWorkspace(h) PROVE HookInv'
  <2>1. hook[h].event \in Events
    BY <1>3 DEF HookInv, FindWorkspace
  <2> QED
    <3>2. PICK p : p = hook[h].event.plan
      OBVIOUS
    <3>1. \/ hook' = [hook EXCEPT ![h] = IdleHook]
          \/ hook' = [hook EXCEPT ![h].pc = "upsert", ![h].plan = p]
          \/ hook' = [hook EXCEPT ![h].pc = "mark"]
      BY <1>3, <3>2, FindLeads
    <3>3. hook'[h].pc = "idle" \/ hook'[h].event = hook[h].event
      BY <3>1 DEF HookStates, IdleHook
    <3>4. \A f \in Hooks \ {h} : hook'[f] = hook[f]
      BY <3>1
    <3> QED
      BY <2>1, <3>3, <3>4
<1>4. ASSUME NEW h \in Hooks, UpsertSubscription(h) PROVE HookInv'
  BY <1>4 DEF UpsertSubscription, hookFrame, SetTail, WriteRow, HookInv, HookStates
<1>5. ASSUME NEW h \in Hooks, MarkSubscription(h) PROVE HookInv'
  <2>1. PICK pc \in {"plan", "evict"} :
             hook' = [hook EXCEPT ![h].pc = pc, ![h].event = NoEvent]
    BY <1>5, MarkLeads
  <2> QED
    BY <2>1 DEF HookStates
<1>6. ASSUME NEW h \in Hooks, UpdateWorkspacePlan(h) PROVE HookInv'
  BY <1>6 DEF UpdateWorkspacePlan, hookFrame, IdleHook, HookInv
<1>7. ASSUME NEW h \in Hooks, EvictEntry(h) PROVE HookInv'
  BY <1>7 DEF EvictEntry, hookFrame, HookEnds, IdleHook, HookInv
<1>8. ASSUME NEW h \in Hooks, HookFails(h) PROVE HookInv'
  BY <1>8 DEF HookFails, hookFrame, HookEnds, IdleHook, HookInv
<1>9. CASE UNCHANGED vars
  BY <1>9 DEF vars, HookInv
<1>10. ASSUME \/ (\E k \in Checkouts : FindCustomer(k))
              \/ (\E k \in Checkouts : CreateCustomer(k))
              \/ (\E k \in Checkouts : OpenSession(k))
              \/ (\E k \in Checkouts : InsertSubscription(k))
              \/ CompleteSession \/ ChangeSubscription
              \/ (\E g \in Guards : LookupEntry(g))
              \/ (\E g \in Guards : ReadRow(g))
              \/ (\E g \in Guards : FillEntry(g))
       PROVE  HookInv'
  <2>1. UNCHANGED hook
    BY <1>10 DEF FindCustomer, checkoutFrame, SetCheckout, CreateCustomer,
       OpenSession, InsertSubscription, CompleteSession, Change, Send, stripeFrame,
       Event, ChangeSubscription, LookupEntry, guardFrame, Decide, ReadRow, FillEntry,
       Stored
  <2> QED
    BY <2>1 DEF HookInv
<1>11. ASSUME \/ (\E g \in Guards : Leave(g)) \/ Tick
       PROVE  HookInv'
  <2>1. UNCHANGED hook
    BY <1>11 DEF Leave, guardFrame, Tick, Age
  <2> QED
    BY <2>1 DEF HookInv
<1> QED
  BY <1>1, <1>2, <1>3, <1>4, <1>5, <1>6, <1>7, <1>8, <1>9, <1>10, <1>11
  DEF Next, Checkout, ProcessEvent, CanActivate

LEMMA RowStep == IInv /\ [Next]_vars => RowInv'
<1> SUFFICES ASSUME IInv, [Next]_vars PROVE RowInv'
  OBVIOUS
<1> USE Numbers DEF IInv, TypeOK
<1>1. ASSUME NEW k \in Checkouts, InsertSubscription(k) PROVE RowInv'
  <2>1. \/ UNCHANGED <<row, barred>>
        \/ \E new \in Rows : WriteRow(new)
    BY <1>1 DEF InsertSubscription, Rows, CheckoutStates, Statuses, Plans
  <2> QED
    BY <2>1, WriteRowIsTyped DEF RowInv
<1>2. ASSUME NEW h \in Hooks, UpsertSubscription(h) PROVE RowInv'
  <2>1. hook[h].event \in Events /\ hook[h].plan \in Plans
    BY <1>2 DEF HookInv, UpsertSubscription, HookStates
  <2>2. PICK new : /\ new = [customer |-> hook[h].event.customer, plan |-> hook[h].plan,
                              status |-> EventStatus(hook[h].event)]
                   /\ WriteRow(new)
    BY <1>2 DEF UpsertSubscription
  <2>3. new \in Rows
    BY <2>1, <2>2, EventStatusIsTyped DEF Rows, Events
  <2> QED
    BY <2>2, <2>3, WriteRowIsTyped
<1>3. ASSUME NEW h \in Hooks, MarkSubscription(h) PROVE RowInv'
  <2>1. PICK new \in Rows : WriteRow(new)
    BY <1>3 DEF MarkSubscription, Rows, Statuses, Plans
  <2> QED
    BY <2>1, WriteRowIsTyped
<1>4. ASSUME Tick PROVE RowInv'
  BY <1>4 DEF Tick, guardFrame, Age, RowInv
<1>5. CASE UNCHANGED vars
  BY <1>5 DEF vars, RowInv
<1>6. ASSUME \/ (\E k \in Checkouts : FindCustomer(k))
              \/ (\E k \in Checkouts : CreateCustomer(k))
              \/ (\E k \in Checkouts : OpenSession(k)) \/ CompleteSession
              \/ ChangeSubscription \/ (\E h \in Hooks : ReceiveEvent(h))
              \/ (\E h \in Hooks : RetrieveSubscription(h))
              \/ (\E h \in Hooks : FindWorkspace(h))
              \/ (\E h \in Hooks : UpdateWorkspacePlan(h))
       PROVE  RowInv'
  <2>1. UNCHANGED <<row, barred>>
    BY <1>6 DEF FindCustomer, checkoutFrame, SetCheckout, CreateCustomer,
       OpenSession, CompleteSession, Change, Send, stripeFrame, Event,
       ChangeSubscription, ReceiveEvent, hookFrame, RetrieveSubscription,
       FindWorkspace, HookEnds, SetHook, UpdateWorkspacePlan
  <2> QED
    BY <2>1 DEF RowInv
<1>7. ASSUME \/ (\E h \in Hooks : EvictEntry(h))
              \/ (\E h \in Hooks : HookFails(h))
              \/ (\E g \in Guards : LookupEntry(g))
              \/ (\E g \in Guards : ReadRow(g))
              \/ (\E g \in Guards : FillEntry(g))
              \/ (\E g \in Guards : Leave(g))
       PROVE  RowInv'
  <2>1. UNCHANGED <<row, barred>>
    BY <1>7 DEF EvictEntry, hookFrame, HookEnds, HookFails, LookupEntry, guardFrame,
       Decide, ReadRow, FillEntry, Stored, Leave
  <2> QED
    BY <2>1 DEF RowInv
<1> QED
  BY <1>1, <1>2, <1>3, <1>4, <1>5, <1>6, <1>7
  DEF Next, Checkout, ProcessEvent, CanActivate

LEMMA CacheStep == IInv /\ [Next]_vars => CacheInv'
<1> SUFFICES ASSUME IInv, [Next]_vars PROVE CacheInv'
  OBVIOUS
<1> USE Numbers DEF IInv, TypeOK
<1>1. ASSUME NEW k \in Checkouts, InsertSubscription(k) PROVE CacheInv'
  <2>1. \/ UNCHANGED <<row, barred>>
        \/ \E new \in Rows : WriteRow(new)
    BY <1>1 DEF InsertSubscription, Rows, CheckoutStates, Statuses, Plans
  <2>2. \A w \in Kinds : barred'[w] \in {0, barred[w]}
    BY <2>1, WriteRowIsTyped
  <2>3. UNCHANGED <<cache, guard>>
    BY <1>1 DEF InsertSubscription, checkoutFrame
  <2>4. /\ \A g \in Guards : guard[g].kind \in Kinds
        /\ cache.left \in Nat /\ \A w \in Kinds : barred[w] \in Nat
    BY LifeOfEntry, Numbers DEF GuardStates
  <2> QED
    <3> HIDE DEF IInv, TypeOK
    <3> QED
      BY <2>2, <2>3, <2>4, Numbers DEF CacheInv, IInv
<1>2. ASSUME NEW h \in Hooks, UpsertSubscription(h) PROVE CacheInv'
  <2>1. hook[h].event \in Events /\ hook[h].plan \in Plans
    BY <1>2 DEF HookInv, UpsertSubscription, HookStates
  <2>2. PICK new : /\ new = [customer |-> hook[h].event.customer, plan |-> hook[h].plan,
                              status |-> EventStatus(hook[h].event)]
                   /\ WriteRow(new)
    BY <1>2 DEF UpsertSubscription
  <2>3. new \in Rows
    BY <2>1, <2>2, EventStatusIsTyped DEF Rows, Events
  <2>4. \A w \in Kinds : barred'[w] \in {0, barred[w]}
    BY <2>2, <2>3, WriteRowIsTyped
  <2>5. UNCHANGED <<cache, guard>>
    BY <1>2 DEF UpsertSubscription, hookFrame
  <2>6. /\ \A g \in Guards : guard[g].kind \in Kinds
        /\ cache.left \in Nat /\ \A w \in Kinds : barred[w] \in Nat
    BY LifeOfEntry, Numbers DEF GuardStates
  <2> QED
    <3> HIDE DEF IInv, TypeOK
    <3> QED
      BY <2>4, <2>5, <2>6, Numbers DEF CacheInv, IInv
<1>3. ASSUME NEW h \in Hooks, MarkSubscription(h) PROVE CacheInv'
  <2>1. PICK new \in Rows : WriteRow(new)
    BY <1>3 DEF MarkSubscription, Rows, Statuses, Plans
  <2>2. \A w \in Kinds : barred'[w] \in {0, barred[w]}
    BY <2>1, WriteRowIsTyped
  <2>3. UNCHANGED <<cache, guard>>
    BY <1>3 DEF MarkSubscription, hookFrame
  <2>4. /\ \A g \in Guards : guard[g].kind \in Kinds
        /\ cache.left \in Nat /\ \A w \in Kinds : barred[w] \in Nat
    BY LifeOfEntry, Numbers DEF GuardStates
  <2> QED
    <3> HIDE DEF IInv, TypeOK
    <3> QED
      BY <2>2, <2>3, <2>4, Numbers DEF CacheInv, IInv
<1>4. ASSUME NEW h \in Hooks, EvictEntry(h) PROVE CacheInv'
  BY <1>4 DEF EvictEntry, hookFrame, HookEnds, IdleHook, CacheInv, Miss
<1>5. ASSUME NEW g \in Guards, FillEntry(g) PROVE CacheInv'
  BY <1>5 DEF FillEntry, guardFrame, Decide, Stored, NoEntry, IdleGuard, CacheInv,
     FillInv
<1>6. ASSUME Tick PROVE CacheInv'
  BY <1>6 DEF Tick, guardFrame, Age, CacheInv, CacheStates, Miss, RowInv
<1>7. CASE UNCHANGED vars
  BY <1>7 DEF vars, CacheInv
<1>8. ASSUME \/ (\E k \in Checkouts : FindCustomer(k))
              \/ (\E k \in Checkouts : CreateCustomer(k))
              \/ (\E k \in Checkouts : OpenSession(k)) \/ CompleteSession
              \/ ChangeSubscription \/ (\E h \in Hooks : ReceiveEvent(h))
              \/ (\E h \in Hooks : RetrieveSubscription(h))
              \/ (\E h \in Hooks : FindWorkspace(h))
              \/ (\E h \in Hooks : UpdateWorkspacePlan(h))
       PROVE  CacheInv'
  <2>1. UNCHANGED <<cache, barred>>
    BY <1>8 DEF FindCustomer, checkoutFrame, SetCheckout, CreateCustomer,
       OpenSession, CompleteSession, Change, Send, stripeFrame, Event,
       ChangeSubscription, ReceiveEvent, hookFrame, RetrieveSubscription,
       FindWorkspace, HookEnds, SetHook, UpdateWorkspacePlan
  <2> QED
    BY <2>1 DEF CacheInv
<1>9. ASSUME \/ (\E h \in Hooks : HookFails(h))
              \/ (\E g \in Guards : LookupEntry(g))
              \/ (\E g \in Guards : ReadRow(g))
              \/ (\E g \in Guards : Leave(g))
       PROVE  CacheInv'
  <2>1. UNCHANGED <<cache, barred>>
    BY <1>9 DEF HookFails, hookFrame, HookEnds, LookupEntry, guardFrame, Decide,
       ReadRow, Leave
  <2> QED
    BY <2>1 DEF CacheInv
<1> QED
  BY <1>1, <1>2, <1>3, <1>4, <1>5, <1>6, <1>7, <1>8, <1>9
  DEF Next, Checkout, ProcessEvent, CanActivate

LEMMA FillStep == IInv /\ [Next]_vars => FillInv'
<1> SUFFICES ASSUME IInv, [Next]_vars PROVE FillInv'
  OBVIOUS
<1> USE Numbers DEF IInv, TypeOK
<1>1. ASSUME NEW k \in Checkouts, InsertSubscription(k) PROVE FillInv'
  <2>1. \/ UNCHANGED <<row, barred>>
        \/ \E new \in Rows : WriteRow(new)
    BY <1>1 DEF InsertSubscription, Rows, CheckoutStates, Statuses, Plans
  <2>2. \A w \in Kinds : barred'[w] \in {0, barred[w]}
    BY <2>1, WriteRowIsTyped
  <2>3. UNCHANGED <<cache, guard>>
    BY <1>1 DEF InsertSubscription, checkoutFrame
  <2>4. /\ \A g \in Guards : guard[g].kind \in Kinds
        /\ cache.left \in Nat /\ \A w \in Kinds : barred[w] \in Nat
    BY LifeOfEntry, Numbers DEF GuardStates
  <2> QED
    <3> HIDE DEF IInv, TypeOK
    <3> QED
      BY <2>2, <2>3, <2>4, Numbers DEF FillInv, IInv
<1>2. ASSUME NEW h \in Hooks, UpsertSubscription(h) PROVE FillInv'
  <2>1. hook[h].event \in Events /\ hook[h].plan \in Plans
    BY <1>2 DEF HookInv, UpsertSubscription, HookStates
  <2>2. PICK new : /\ new = [customer |-> hook[h].event.customer, plan |-> hook[h].plan,
                              status |-> EventStatus(hook[h].event)]
                   /\ WriteRow(new)
    BY <1>2 DEF UpsertSubscription
  <2>3. new \in Rows
    BY <2>1, <2>2, EventStatusIsTyped DEF Rows, Events
  <2>4. \A w \in Kinds : barred'[w] \in {0, barred[w]}
    BY <2>2, <2>3, WriteRowIsTyped
  <2>5. UNCHANGED <<cache, guard>>
    BY <1>2 DEF UpsertSubscription, hookFrame
  <2>6. /\ \A g \in Guards : guard[g].kind \in Kinds
        /\ cache.left \in Nat /\ \A w \in Kinds : barred[w] \in Nat
    BY LifeOfEntry, Numbers DEF GuardStates
  <2> QED
    <3> HIDE DEF IInv, TypeOK
    <3> QED
      BY <2>4, <2>5, <2>6, Numbers DEF FillInv, IInv
<1>3. ASSUME NEW h \in Hooks, MarkSubscription(h) PROVE FillInv'
  <2>1. PICK new \in Rows : WriteRow(new)
    BY <1>3 DEF MarkSubscription, Rows, Statuses, Plans
  <2>2. \A w \in Kinds : barred'[w] \in {0, barred[w]}
    BY <2>1, WriteRowIsTyped
  <2>3. UNCHANGED <<cache, guard>>
    BY <1>3 DEF MarkSubscription, hookFrame
  <2>4. /\ \A g \in Guards : guard[g].kind \in Kinds
        /\ cache.left \in Nat /\ \A w \in Kinds : barred[w] \in Nat
    BY LifeOfEntry, Numbers DEF GuardStates
  <2> QED
    <3> HIDE DEF IInv, TypeOK
    <3> QED
      BY <2>2, <2>3, <2>4, Numbers DEF FillInv, IInv
<1>4. ASSUME NEW g \in Guards, LookupEntry(g) PROVE FillInv'
  <2>1. /\ UNCHANGED <<guardFrame, cache, barred>> /\ guard[g].pc = "idle"
        /\ \E k \in Kinds :
              \/ guard' = [guard EXCEPT ![g] = IdleGuard]
              \/ guard' = [guard EXCEPT ![g].pc = "read", ![g].kind = k]
              \/ /\ guard' = [guard EXCEPT ![g] =
                       [pc |-> "granted", kind |-> k, entry |-> NoEntry]]
                 /\ barred[k] < TTL
    <3> HIDE DEF IInv, TypeOK
    <3> QED
      BY <1>4, LookupLeads
  <2>2. \A f \in Guards : guard'[f].pc = "fill" => f # g /\ guard'[f] = guard[f]
    BY <2>1 DEF IdleGuard, GuardStates
  <2> QED
    BY <2>1, <2>2 DEF FillInv
<1>5. ASSUME NEW g \in Guards, ReadRow(g) PROVE FillInv'
  BY <1>5 DEF ReadRow, guardFrame, FillInv, RowInv, RowAllows, GuardStates
<1>6. ASSUME NEW g \in Guards, FillEntry(g) PROVE FillInv'
  BY <1>6 DEF FillEntry, guardFrame, Decide, Stored, NoEntry, IdleGuard, FillInv,
     GuardStates
<1>7. ASSUME NEW g \in Guards, Leave(g) PROVE FillInv'
  BY <1>7 DEF Leave, guardFrame, IdleGuard, FillInv, GuardStates
<1>8. ASSUME Tick PROVE FillInv'
  BY <1>8 DEF Tick, guardFrame, Age, FillInv
<1>9. CASE UNCHANGED vars
  BY <1>9 DEF vars, FillInv
<1>10. ASSUME \/ (\E k \in Checkouts : FindCustomer(k))
              \/ (\E k \in Checkouts : CreateCustomer(k))
              \/ (\E k \in Checkouts : OpenSession(k)) \/ CompleteSession
              \/ ChangeSubscription \/ (\E h \in Hooks : ReceiveEvent(h))
              \/ (\E h \in Hooks : RetrieveSubscription(h))
              \/ (\E h \in Hooks : FindWorkspace(h))
              \/ (\E h \in Hooks : UpdateWorkspacePlan(h))
       PROVE  FillInv'
  <2>1. UNCHANGED <<guard, barred>>
    BY <1>10 DEF FindCustomer, checkoutFrame, SetCheckout, CreateCustomer,
       OpenSession, CompleteSession, Change, Send, stripeFrame, Event,
       ChangeSubscription, ReceiveEvent, hookFrame, RetrieveSubscription,
       FindWorkspace, HookEnds, SetHook, UpdateWorkspacePlan
  <2> QED
    BY <2>1 DEF FillInv
<1>11. ASSUME \/ (\E h \in Hooks : EvictEntry(h))
              \/ (\E h \in Hooks : HookFails(h))
       PROVE  FillInv'
  <2>1. UNCHANGED <<guard, barred>>
    BY <1>11 DEF EvictEntry, hookFrame, HookEnds, HookFails
  <2> QED
    BY <2>1 DEF FillInv
<1> QED
  BY <1>1, <1>2, <1>3, <1>4, <1>5, <1>6, <1>7, <1>8, <1>9, <1>10, <1>11
  DEF Next, Checkout, ProcessEvent, CanActivate

LEMMA GrantStep == IInv /\ [Next]_vars => NoLateGrant'
<1> SUFFICES ASSUME IInv, [Next]_vars PROVE NoLateGrant'
  OBVIOUS
<1> USE Numbers DEF IInv, TypeOK
<1>1. ASSUME NEW k \in Checkouts, InsertSubscription(k) PROVE NoLateGrant'
  <2>1. \/ UNCHANGED <<row, barred>>
        \/ \E new \in Rows : WriteRow(new)
    BY <1>1 DEF InsertSubscription, Rows, CheckoutStates, Statuses, Plans
  <2>2. \A w \in Kinds : barred'[w] \in {0, barred[w]}
    BY <2>1, WriteRowIsTyped
  <2>3. UNCHANGED <<cache, guard>>
    BY <1>1 DEF InsertSubscription, checkoutFrame
  <2>4. /\ \A g \in Guards : guard[g].kind \in Kinds
        /\ cache.left \in Nat /\ \A w \in Kinds : barred[w] \in Nat
    BY LifeOfEntry, Numbers DEF GuardStates
  <2> QED
    <3> HIDE DEF IInv, TypeOK
    <3> QED
      BY <2>2, <2>3, <2>4, Numbers DEF NoLateGrant, IInv
<1>2. ASSUME NEW h \in Hooks, UpsertSubscription(h) PROVE NoLateGrant'
  <2>1. hook[h].event \in Events /\ hook[h].plan \in Plans
    BY <1>2 DEF HookInv, UpsertSubscription, HookStates
  <2>2. PICK new : /\ new = [customer |-> hook[h].event.customer, plan |-> hook[h].plan,
                              status |-> EventStatus(hook[h].event)]
                   /\ WriteRow(new)
    BY <1>2 DEF UpsertSubscription
  <2>3. new \in Rows
    BY <2>1, <2>2, EventStatusIsTyped DEF Rows, Events
  <2>4. \A w \in Kinds : barred'[w] \in {0, barred[w]}
    BY <2>2, <2>3, WriteRowIsTyped
  <2>5. UNCHANGED <<cache, guard>>
    BY <1>2 DEF UpsertSubscription, hookFrame
  <2>6. /\ \A g \in Guards : guard[g].kind \in Kinds
        /\ cache.left \in Nat /\ \A w \in Kinds : barred[w] \in Nat
    BY LifeOfEntry, Numbers DEF GuardStates
  <2> QED
    <3> HIDE DEF IInv, TypeOK
    <3> QED
      BY <2>4, <2>5, <2>6, Numbers DEF NoLateGrant, IInv
<1>3. ASSUME NEW h \in Hooks, MarkSubscription(h) PROVE NoLateGrant'
  <2>1. PICK new \in Rows : WriteRow(new)
    BY <1>3 DEF MarkSubscription, Rows, Statuses, Plans
  <2>2. \A w \in Kinds : barred'[w] \in {0, barred[w]}
    BY <2>1, WriteRowIsTyped
  <2>3. UNCHANGED <<cache, guard>>
    BY <1>3 DEF MarkSubscription, hookFrame
  <2>4. /\ \A g \in Guards : guard[g].kind \in Kinds
        /\ cache.left \in Nat /\ \A w \in Kinds : barred[w] \in Nat
    BY LifeOfEntry, Numbers DEF GuardStates
  <2> QED
    <3> HIDE DEF IInv, TypeOK
    <3> QED
      BY <2>2, <2>3, <2>4, Numbers DEF NoLateGrant, IInv
<1>4. ASSUME NEW g \in Guards, LookupEntry(g) PROVE NoLateGrant'
  <2>1. /\ UNCHANGED <<guardFrame, cache, barred>> /\ guard[g].pc = "idle"
        /\ \E k \in Kinds :
              \/ guard' = [guard EXCEPT ![g] = IdleGuard]
              \/ guard' = [guard EXCEPT ![g].pc = "read", ![g].kind = k]
              \/ /\ guard' = [guard EXCEPT ![g] =
                       [pc |-> "granted", kind |-> k, entry |-> NoEntry]]
                 /\ barred[k] < TTL
    <3> HIDE DEF IInv, TypeOK
    <3> QED
      BY <1>4, LookupLeads
  <2>2. \A f \in Guards : guard'[f].pc = "granted" =>
           \/ guard'[f] = guard[f]
           \/ barred[guard'[f].kind] < TTL
    BY <2>1 DEF IdleGuard, GuardStates
  <2> QED
    BY <2>1, <2>2 DEF NoLateGrant
<1>5. ASSUME NEW g \in Guards, ReadRow(g) PROVE NoLateGrant'
  BY <1>5 DEF ReadRow, guardFrame, NoLateGrant, GuardStates
<1>6. ASSUME NEW g \in Guards, FillEntry(g) PROVE NoLateGrant'
  BY <1>6 DEF FillEntry, guardFrame, Decide, Stored, NoEntry, IdleGuard,
     NoLateGrant, FillInv, GuardStates
<1>7. ASSUME NEW g \in Guards, Leave(g) PROVE NoLateGrant'
  BY <1>7 DEF Leave, guardFrame, IdleGuard, NoLateGrant, GuardStates
<1>8. ASSUME Tick PROVE NoLateGrant'
  BY <1>8 DEF Tick, guardFrame, Age, NoLateGrant
<1>9. CASE UNCHANGED vars
  BY <1>9 DEF vars, NoLateGrant
<1>10. ASSUME \/ (\E k \in Checkouts : FindCustomer(k))
              \/ (\E k \in Checkouts : CreateCustomer(k))
              \/ (\E k \in Checkouts : OpenSession(k)) \/ CompleteSession
              \/ ChangeSubscription \/ (\E h \in Hooks : ReceiveEvent(h))
              \/ (\E h \in Hooks : RetrieveSubscription(h))
              \/ (\E h \in Hooks : FindWorkspace(h))
              \/ (\E h \in Hooks : UpdateWorkspacePlan(h))
       PROVE  NoLateGrant'
  <2>1. UNCHANGED <<guard, barred>>
    BY <1>10 DEF FindCustomer, checkoutFrame, SetCheckout, CreateCustomer,
       OpenSession, CompleteSession, Change, Send, stripeFrame, Event,
       ChangeSubscription, ReceiveEvent, hookFrame, RetrieveSubscription,
       FindWorkspace, HookEnds, SetHook, UpdateWorkspacePlan
  <2> QED
    BY <2>1 DEF NoLateGrant
<1>11. ASSUME \/ (\E h \in Hooks : EvictEntry(h))
              \/ (\E h \in Hooks : HookFails(h))
       PROVE  NoLateGrant'
  <2>1. UNCHANGED <<guard, barred>>
    BY <1>11 DEF EvictEntry, hookFrame, HookEnds, HookFails
  <2> QED
    BY <2>1 DEF NoLateGrant
<1> QED
  BY <1>1, <1>2, <1>3, <1>4, <1>5, <1>6, <1>7, <1>8, <1>9, <1>10, <1>11
  DEF Next, Checkout, ProcessEvent, CanActivate

LEMMA StepIInv == IInv /\ [Next]_vars => IInv'
  BY TypeStep, HookStep, RowStep, CacheStep, FillStep, GrantStep DEF IInv

-----------------------------------------------------------------------------
(* The theorems *)

\* The inductive invariant of the rows, the Redis entry and the guards.
THEOREM BillingInvariant == Spec => []IInv
<1>1. Init => IInv
  BY InitIInv
<1>2. IInv /\ [Next]_vars => IInv'
  BY StepIInv
<1> QED
  BY <1>1, <1>2, PTL DEF Spec

\* Every reachable state is well typed.
THEOREM BillingTypeCorrect == Spec => []TypeOK
<1>1. IInv => TypeOK
  BY DEF IInv
<1> QED
  BY <1>1, BillingInvariant, PTL

\* No guard grants a request the row has barred for the life of a Redis entry.
THEOREM BillingGrantsInTime == Spec => []NoLateGrant
<1>1. IInv => NoLateGrant
  BY DEF IInv
<1> QED
  BY <1>1, BillingInvariant, PTL

-----------------------------------------------------------------------------
(* What the rows say of the subscription once its events were processed *)

\* Every event was processed, none together with another, in the order sent.
Intact == lost = 0 /\ order = "kept"
Ahead == {"retrieve", "find", "upsert", "mark"}
Quiet == \A h \in Hooks : hook[h].pc = "idle"

\* The event tells what the subscription is now.
Reflects(event) ==
    /\ event.customer = stripe.customer
    /\ event.plan = stripe.plan /\ event.status = stripe.status
    /\ event.type \in {"checkout", "updated", "deleted"}
    /\ event.type = "checkout" => stripe.status = "active"
    /\ (event.type = "deleted") <=> (stripe.status = "canceled")

\* The row is found by the customer of the subscription, and says what it is.
Known == row.customer = stripe.customer /\ row.status # "none"
RowMatches == row.plan = View.plan /\ row.status = View.status

\* Which events a stage of processEvent handles; the plan of an event that is
\* looked up, or marked, is still the one it began with.
StageInv ==
    \A h \in Hooks :
      /\ hook[h].pc = "retrieve" => hook[h].event.type = "checkout"
      /\ hook[h].pc = "find" => hook[h].event.type # "checkout"
      /\ hook[h].pc = "upsert" => hook[h].event.type \in {"checkout", "updated"}
      /\ hook[h].pc = "mark" => hook[h].event.type \in {"deleted", "payment_failed"}
      /\ hook[h].pc \in {"find", "mark"} => hook[h].plan = "starter"

\* One event at a time, and none before there is a subscription.
AloneInv ==
    /\ \A h \in Hooks, i \in Hooks :
          hook[h].pc # "idle" /\ hook[i].pc # "idle" => h = i
    /\ stripe.status = "none" => mail = <<>> /\ Quiet

\* The events are those of one customer, whom the row has or the event of the
\* checkout brings, which is ahead of all others.
CustomerInv ==
    /\ \A i \in DOMAIN mail : mail[i].customer = stripe.customer
    /\ \A h \in Hooks :
          hook[h].pc \in Ahead => hook[h].event.customer = stripe.customer
    /\ stripe.status # "none" =>
          \/ Known
          \/ \E h \in Hooks : /\ hook[h].pc \in {"retrieve", "upsert"}
                              /\ hook[h].event.type = "checkout"
          \/ Quiet /\ mail # <<>> /\ mail[1].type = "checkout"

\* The last event tells what the subscription is, on its way, in process, or in
\* the rows.
NewsInv ==
    /\ mail # <<>> => Reflects(mail[Len(mail)])
    /\ mail = <<>> /\ stripe.status # "none" =>
         /\ \A h \in Hooks :
              /\ hook[h].pc \in Ahead => Reflects(hook[h].event)
              /\ hook[h].pc = "upsert" => hook[h].plan = stripe.plan
              /\ hook[h].pc = "plan" => RowMatches /\ hook[h].plan = View.plan
              /\ hook[h].pc = "evict" => RowMatches /\ plan = View.plan
         /\ Quiet => RowMatches /\ plan = View.plan

OrderInv == Intact => AloneInv /\ CustomerInv /\ NewsInv

\* The mail without its first event, and with the events of a change.
LEMMA FirstTaken ==
    ASSUME mail \in Seq(Events), mail # <<>>, NEW rest, rest = RemoveAt(mail, 1)
    PROVE  /\ Len(mail) \in Nat \ {0} /\ 1 \in DOMAIN mail
           /\ rest \in Seq(Events) /\ Len(rest) = Len(mail) - 1
           /\ \A i \in 1..Len(rest) : rest[i] = mail[i + 1] /\ i + 1 \in DOMAIN mail
<1>1. Len(mail) \in Nat \ {0} /\ DOMAIN mail = 1..Len(mail)
  BY EmptySeq, LenProperties
<1>2. SubSeq(mail, 1, 0) = <<>>
  BY <1>1, SubSeqProperties
<1>3. SubSeq(mail, 2, Len(mail)) \in Seq(Events)
  <2>1. \A j \in 2..Len(mail) : mail[j] \in Events
    BY <1>1, ElementOfSeq
  <2> QED
    BY <1>1, <2>1, SubSeqProperties
<1>4. rest = SubSeq(mail, 2, Len(mail))
  <2>1. rest = SubSeq(mail, 1, 0) \o SubSeq(mail, 2, Len(mail))
    BY <1>1 DEF RemoveAt
  <2> QED
    BY <1>2, <1>3, <2>1, ConcatEmptySeq
<1>5. Len(rest) = Len(mail) - 1
  <2>1. Len(SubSeq(mail, 2, Len(mail))) =
          IF 2 <= Len(mail) THEN Len(mail) - 2 + 1 ELSE 0
    BY <1>1, SubSeqProperties
  <2>2. Len(rest) = IF 2 <= Len(mail) THEN Len(mail) - 2 + 1 ELSE 0
    BY <1>4, <2>1, Zenon
  <2>3. \A n \in Nat \ {0} : (IF 2 <= n THEN n - 2 + 1 ELSE 0) = n - 1
    OBVIOUS
  <2> QED
    BY <1>1, <2>2, <2>3
<1>6. \A i \in 1..Len(rest) : rest[i] = mail[i + 1]
  BY <1>1, <1>4, <1>5, SubSeqProperties
<1>7. \A i \in 1..Len(rest) : i + 1 \in DOMAIN mail
  BY <1>1, <1>5
<1>8. rest \in Seq(Events)
  BY <1>3, <1>4, Zenon
<1>9. 1 \in DOMAIN mail
  BY <1>1
<1> QED
  BY <1>1, <1>5, <1>6, <1>7, <1>8, <1>9, Zenon

\* The mail once the events of a change were added.
LEMMA Appended ==
    ASSUME NEW s \in Seq(Events), NEW t \in Seq(Events), t # <<>>
    PROVE  /\ s \o t # <<>> /\ Len(t) \in Nat \ {0} /\ 1 \in DOMAIN t
           /\ (s \o t)[Len(s \o t)] = t[Len(t)]
           /\ s # <<>> => (s \o t)[1] = s[1]
           /\ s = <<>> => (s \o t)[1] = t[1]
           /\ \A i \in DOMAIN (s \o t) : (\E j \in DOMAIN s : (s \o t)[i] = s[j])
                                      \/ (\E j \in DOMAIN t : (s \o t)[i] = t[j])
<1>1. /\ Len(s) \in Nat /\ Len(t) \in Nat \ {0}
      /\ DOMAIN s = 1..Len(s) /\ DOMAIN t = 1..Len(t)
      /\ s # <<>> <=> Len(s) # 0
  BY EmptySeq, LenProperties
<1>2. /\ s \o t \in Seq(Events) /\ Len(s \o t) = Len(s) + Len(t)
      /\ \A i \in 1..(Len(s) + Len(t)) :
            (s \o t)[i] = IF i <= Len(s) THEN s[i] ELSE t[i - Len(s)]
  BY ConcatProperties
<1>3. DOMAIN (s \o t) = 1..(Len(s) + Len(t))
  BY <1>2, LenProperties
<1>4. s \o t # <<>>
  BY <1>1, <1>2, EmptySeq
<1>5. (s \o t)[Len(s \o t)] = t[Len(t)]
  BY <1>1, <1>2
<1>6. (s # <<>> => (s \o t)[1] = s[1]) /\ (s = <<>> => (s \o t)[1] = t[1])
  BY <1>1, <1>2
<1>7. \A i \in DOMAIN (s \o t) : (\E j \in DOMAIN s : (s \o t)[i] = s[j])
                              \/ (\E j \in DOMAIN t : (s \o t)[i] = t[j])
  <2> TAKE i \in DOMAIN (s \o t)
  <2>1. CASE i <= Len(s)
    BY <1>1, <1>2, <1>3, <2>1
  <2>2. CASE ~(i <= Len(s))
    <3>1. i - Len(s) \in 1..Len(t)
      BY <1>1, <1>3, <2>2
    <3> QED
      BY <1>1, <1>2, <1>3, <2>2, <3>1
  <2> QED
    BY <2>1, <2>2
<1> QED
  BY <1>1, <1>4, <1>5, <1>6, <1>7

\* Between the events of a subscription the row is known.
LEMMA KnownThen ==
    ASSUME AloneInv, CustomerInv, stripe.status # "none",
           \/ \E h \in Hooks : /\ hook[h].pc # "idle"
                               /\ \/ hook[h].pc \notin {"retrieve", "upsert"}
                                  \/ hook[h].event.type # "checkout"
           \/ Quiet /\ mail = <<>>
    PROVE  Known
BY DEF AloneInv, CustomerInv, Quiet

\* What was lost stays lost.
LEMMA IntactBefore == IInv /\ [Next]_vars /\ Intact' => Intact
<1> SUFFICES ASSUME IInv, [Next]_vars, Intact' PROVE Intact
  OBVIOUS
<1> USE Numbers DEF IInv, TypeOK, Intact
<1>1. ASSUME NEW h \in Hooks, ReceiveEvent(h) PROVE Intact
  BY <1>1 DEF ReceiveEvent
<1>2. ASSUME NEW h \in Hooks, HookFails(h) PROVE Intact
  BY <1>2 DEF HookFails
<1>3. ASSUME NEW h \in Hooks, ProcessEvent(h) PROVE Intact
  BY <1>3 DEF ProcessEvent, RetrieveSubscription, FindWorkspace, UpsertSubscription,
     MarkSubscription, UpdateWorkspacePlan, EvictEntry
<1>4. ASSUME NEW k \in Checkouts, FindCustomer(k) \/ Checkout(k) PROVE Intact
  BY <1>4 DEF FindCustomer, Checkout, CreateCustomer, InsertSubscription, OpenSession,
     checkoutFrame
<1>5. CASE CompleteSession \/ ChangeSubscription
  BY <1>5 DEF CompleteSession, ChangeSubscription, Change, Send, stripeFrame
<1>6. ASSUME NEW g \in Guards, LookupEntry(g) \/ CanActivate(g) PROVE Intact
  BY <1>6 DEF LookupEntry, CanActivate, ReadRow, FillEntry, Leave, guardFrame
<1>7. CASE Tick \/ UNCHANGED vars
  BY <1>7 DEF Tick, guardFrame, vars
<1> QED
  BY <1>1, <1>2, <1>3, <1>4, <1>5, <1>6, <1>7 DEF Next

\* An event keeps its type from stage to stage.
LEMMA StageStep == IInv /\ StageInv /\ [Next]_vars => StageInv'
<1> SUFFICES ASSUME IInv, StageInv, [Next]_vars PROVE StageInv'
  OBVIOUS
<1> USE DEF IInv, TypeOK, StageInv
<1>0. hook \in [Hooks -> HookStates]
  OBVIOUS
<1>1. ASSUME NEW h \in Hooks, ReceiveEvent(h) PROVE StageInv'
  <2>1. PICK i \in DOMAIN mail :
          hook' = [hook EXCEPT ![h] =
                [pc |-> IF mail[i].type = "checkout" THEN "retrieve" ELSE "find",
                 event |-> mail[i], plan |-> "starter"]]
    BY <1>1 DEF ReceiveEvent
  <2> QED
    BY <2>1
<1>2. ASSUME NEW h \in Hooks, RetrieveSubscription(h) PROVE StageInv'
  BY <1>0, <1>2 DEF RetrieveSubscription, HookStates
<1>3. ASSUME NEW h \in Hooks, FindWorkspace(h) PROVE StageInv'
  <2>1. hook[h].event \in Events /\ hook[h].event.type # "checkout"
    BY <1>3 DEF HookInv, FindWorkspace
  <2>2. \/ hook' = [hook EXCEPT ![h] = IdleHook]
        \/ /\ hook[h].event.type = "updated"
           /\ hook'[h].pc = "upsert" /\ hook'[h].event = hook[h].event
        \/ /\ hook[h].event.type # "updated"
           /\ hook'[h].pc = "mark" /\ hook'[h].event = hook[h].event
           /\ hook'[h].plan = hook[h].plan
    BY <1>0, <1>3 DEF FindWorkspace, HookEnds, SetHook, HookStates
  <2>3. \A f \in Hooks : f # h => hook'[f] = hook[f]
    BY <1>3 DEF FindWorkspace, HookEnds, SetHook
  <2>4. hook[h].pc = "find"
    BY <1>3 DEF FindWorkspace
  <2> QED
    BY <1>0, <2>1, <2>2, <2>3, <2>4 DEF Events, IdleHook
<1>4. ASSUME NEW h \in Hooks,
             \/ UpsertSubscription(h) \/ MarkSubscription(h)
             \/ UpdateWorkspacePlan(h) \/ EvictEntry(h) \/ HookFails(h)
      PROVE  StageInv'
  <2>1. /\ hook'[h].pc \in {"plan", "evict", "idle"}
        /\ \A f \in Hooks : f # h => hook'[f] = hook[f]
    BY <1>0, <1>4 DEF UpsertSubscription, MarkSubscription, UpdateWorkspacePlan,
       EvictEntry, HookFails, SetTail, HookEnds, IdleHook, HookStates
  <2> QED
    BY <2>1
<1>5. CASE UNCHANGED hook
  BY <1>5
<1>6. ASSUME NEW k \in Checkouts, FindCustomer(k) \/ Checkout(k) PROVE StageInv'
  BY <1>5, <1>6 DEF FindCustomer, Checkout, CreateCustomer, InsertSubscription,
     OpenSession, checkoutFrame
<1>7. CASE CompleteSession \/ ChangeSubscription
  BY <1>5, <1>7 DEF CompleteSession, ChangeSubscription, Change, Send, stripeFrame
<1>8. ASSUME NEW g \in Guards, LookupEntry(g) \/ CanActivate(g) PROVE StageInv'
  BY <1>5, <1>8 DEF LookupEntry, CanActivate, ReadRow, FillEntry, Leave, guardFrame
<1>9. CASE Tick \/ UNCHANGED vars
  BY <1>5, <1>9 DEF Tick, guardFrame, vars
<1> QED
  BY <1>1, <1>2, <1>3, <1>4, <1>6, <1>7, <1>8, <1>9 DEF Next, ProcessEvent

\* A change at Stripe whose last event tells what the subscription is now.
LEMMA ChangeIsSent ==
    ASSUME IInv, AloneInv, CustomerInv, NEW sub \in Subscriptions,
           NEW events \in Seq(Events), Send(sub, events), events # <<>>,
           \A i \in DOMAIN events : events[i].customer = sub.customer,
           IF stripe.status = "none" THEN events[1].type = "checkout"
           ELSE sub.customer = stripe.customer,
           sub.status # "none", Reflects(events[Len(events)])'
    PROVE  AloneInv' /\ CustomerInv' /\ NewsInv'
<1>1. /\ stripe' = sub /\ mail' = mail \o events
      /\ UNCHANGED <<row, hook>> /\ mail \in Seq(Events)
  BY DEF Send, stripeFrame, IInv, TypeOK
<1>2. /\ mail' # <<>> /\ mail'[Len(mail')] = events[Len(events)]
      /\ mail # <<>> => mail'[1] = mail[1]
      /\ mail = <<>> => mail'[1] = events[1]
      /\ \A i \in DOMAIN mail' : (\E j \in DOMAIN mail : mail'[i] = mail[j])
                              \/ (\E j \in DOMAIN events : mail'[i] = events[j])
  BY <1>1, Appended
<1>3. AloneInv'
  BY <1>1 DEF AloneInv
<1>4. stripe.status = "none" => mail = <<>> /\ Quiet /\ DOMAIN mail = {}
  BY EmptySeq DEF AloneInv
<1>5. \A i \in DOMAIN mail' : mail'[i].customer = stripe'.customer
  BY <1>1, <1>2, <1>4 DEF CustomerInv
<1>6. \A h \in Hooks :
          hook'[h].pc \in Ahead => hook'[h].event.customer = stripe'.customer
  BY <1>1, <1>4 DEF CustomerInv, Quiet, Ahead
<1>7. CustomerInv'
  <2>1. CASE stripe.status = "none"
    BY <1>1, <1>2, <1>4, <1>5, <1>6, <2>1 DEF CustomerInv, Quiet
  <2>2. CASE stripe.status # "none"
    BY <1>1, <1>2, <1>5, <1>6, <2>2 DEF CustomerInv, Quiet, Known
  <2> QED
    BY <2>1, <2>2
<1>8. NewsInv'
  BY <1>2 DEF NewsInv, Reflects
<1> QED
  BY <1>3, <1>7, <1>8

\* A change that is sent as one event.
LEMMA OneChange ==
    ASSUME IInv, AloneInv, CustomerInv, NEW sub \in Subscriptions, sub.status # "none",
           NEW type \in {"checkout", "updated", "deleted"}, Change(type, sub),
           IF stripe.status = "none" THEN type = "checkout"
           ELSE sub.customer = stripe.customer,
           type = "checkout" => sub.status = "active",
           (type = "deleted") <=> (sub.status = "canceled")
    PROVE  AloneInv' /\ CustomerInv' /\ NewsInv'
<1>1. PICK e : e = Event(type, sub)
  OBVIOUS
<1>2. /\ e \in Events /\ e.type = type /\ e.customer = sub.customer
      /\ e.plan = sub.plan /\ e.status = sub.status
  BY <1>1, EventIsTyped DEF Event
<1>3. PICK s : s = <<e>>
  OBVIOUS
<1>4. s \in Seq(Events) /\ s # <<>> /\ Len(s) = 1 /\ s[1] = e /\ DOMAIN s = {1}
  BY <1>2, <1>3
<1>5. Send(sub, s) /\ stripe' = sub
  BY <1>1, <1>3 DEF Change, Send
<1>6. Reflects(s[Len(s)])'
  BY <1>2, <1>4, <1>5 DEF Reflects
<1> QED
  BY <1>2, <1>4, <1>5, <1>6, ChangeIsSent

\* Every change of Stripe sends an event that tells what it led to.
LEMMA OrderOfChanges ==
    ASSUME IInv, AloneInv, CustomerInv, CompleteSession \/ ChangeSubscription
    PROVE  AloneInv' /\ CustomerInv' /\ NewsInv'
<1> USE DEF IInv, TypeOK
<1>1. CASE CompleteSession
  <2>1. PICK c \in sessions, p \in Plans :
          Change("checkout", [customer |-> c, plan |-> p, status |-> "active"])
    BY <1>1 DEF CompleteSession
  <2>2. PICK sub : sub = [customer |-> c, plan |-> p, status |-> "active"]
    OBVIOUS
  <2>3. sub \in Subscriptions /\ sub.status = "active" /\ Change("checkout", sub)
    BY <2>1, <2>2 DEF Subscriptions, StripeStatuses
  <2>4. stripe.status = "none"
    BY <1>1 DEF CompleteSession
  <2> QED
    BY <2>3, <2>4, OneChange
<1>2. CASE ChangeSubscription
  <2>0. /\ stripe.status \notin {"none", "canceled"} /\ stripe \in Subscriptions
        /\ stripe.customer \in Customers /\ stripe.plan \in Plans
        /\ stripe.status \in StripeStatuses
    BY <1>2 DEF ChangeSubscription, Subscriptions
  <2>1. ASSUME NEW p \in Plans, Change("updated", [stripe EXCEPT !.plan = p])
        PROVE  AloneInv' /\ CustomerInv' /\ NewsInv'
    <3>1. PICK sub : sub = [stripe EXCEPT !.plan = p]
      OBVIOUS
    <3>2. /\ sub \in Subscriptions /\ sub.customer = stripe.customer
          /\ sub.status = stripe.status /\ Change("updated", sub)
      BY <2>0, <2>1, <3>1 DEF Subscriptions
    <3> QED
      BY <2>0, <3>2, OneChange
  <2>2. ASSUME NEW s \in {"active", "unpaid"},
               Change("updated", [stripe EXCEPT !.status = s])
        PROVE  AloneInv' /\ CustomerInv' /\ NewsInv'
    <3>1. PICK sub : sub = [stripe EXCEPT !.status = s]
      OBVIOUS
    <3>2. /\ sub \in Subscriptions /\ sub.customer = stripe.customer
          /\ sub.status = s /\ Change("updated", sub)
      BY <2>0, <2>2, <3>1 DEF Subscriptions, StripeStatuses
    <3> QED
      BY <2>0, <3>2, OneChange
  <2>3. ASSUME Change("deleted", [stripe EXCEPT !.status = "canceled"])
        PROVE  AloneInv' /\ CustomerInv' /\ NewsInv'
    <3>1. PICK sub : sub = [stripe EXCEPT !.status = "canceled"]
      OBVIOUS
    <3>2. /\ sub \in Subscriptions /\ sub.customer = stripe.customer
          /\ sub.status = "canceled" /\ Change("deleted", sub)
      BY <2>0, <2>3, <3>1 DEF Subscriptions, StripeStatuses
    <3> QED
      BY <2>0, <3>2, OneChange
  <2>4. ASSUME LET overdue == [stripe EXCEPT !.status = "past_due"]
               IN  Send(overdue, <<Event("payment_failed", overdue),
                                   Event("updated", overdue)>>)
        PROVE  AloneInv' /\ CustomerInv' /\ NewsInv'
    <3>1. PICK sub : sub = [stripe EXCEPT !.status = "past_due"]
      OBVIOUS
    <3>2. /\ sub \in Subscriptions /\ sub.customer = stripe.customer
          /\ sub.status = "past_due"
          /\ Send(sub, <<Event("payment_failed", sub), Event("updated", sub)>>)
      BY <2>0, <2>4, <3>1 DEF Subscriptions, StripeStatuses
    <3>3. PICK e, f : e = Event("payment_failed", sub) /\ f = Event("updated", sub)
      OBVIOUS
    <3>4. /\ e \in Events /\ f \in Events /\ e.customer = sub.customer
          /\ f.type = "updated" /\ f.customer = sub.customer /\ f.plan = sub.plan
          /\ f.status = sub.status
      BY <3>2, <3>3, EventIsTyped DEF Event
    <3>5. PICK s : s = <<e, f>>
      OBVIOUS
    <3>6. /\ s \in Seq(Events) /\ s # <<>> /\ Len(s) = 2 /\ DOMAIN s = {1, 2}
          /\ s[1] = e /\ s[2] = f
      BY <3>4, <3>5
    <3>7. Send(sub, s) /\ stripe' = sub
      BY <3>2, <3>3, <3>5 DEF Send
    <3>8. Reflects(s[Len(s)])'
      BY <3>2, <3>4, <3>6, <3>7 DEF Reflects
    <3> QED
      BY <2>0, <3>2, <3>4, <3>6, <3>7, <3>8, ChangeIsSent
  <2> QED
    BY <1>2, <2>1, <2>2, <2>3, <2>4 DEF ChangeSubscription
<1> QED
  BY <1>1, <1>2

\* The first event of the mail goes into process.
LEMMA OrderOfReceipt ==
    ASSUME IInv, AloneInv, CustomerInv, NewsInv, NEW h \in Hooks, ReceiveEvent(h),
           order' = "kept"
    PROVE  AloneInv' /\ CustomerInv' /\ NewsInv'
<1> USE DEF IInv, TypeOK
<1>1. PICK i \in DOMAIN mail :
         /\ hook' = [hook EXCEPT ![h] =
                [pc |-> IF mail[i].type = "checkout" THEN "retrieve" ELSE "find",
                 event |-> mail[i], plan |-> "starter"]]
         /\ mail' = RemoveAt(mail, i)
         /\ i = 1 /\ \A other \in Hooks : hook[other].pc = "idle"
  BY DEF ReceiveEvent
<1>2. UNCHANGED <<stripe, row, plan>> /\ mail # <<>>
  BY <1>1, EmptySeq DEF ReceiveEvent, hookFrame
<1>3. PICK rest : rest = RemoveAt(mail, 1)
  OBVIOUS
<1>4. /\ Len(mail) \in Nat \ {0} /\ 1 \in DOMAIN mail
      /\ rest \in Seq(Events) /\ Len(rest) = Len(mail) - 1
      /\ \A j \in 1..Len(rest) : rest[j] = mail[j + 1] /\ j + 1 \in DOMAIN mail
  BY <1>2, <1>3, FirstTaken
<1>5. mail' = rest
  BY <1>1, <1>3
<1>6. PICK e : e = mail[1]
  OBVIOUS
<1>7. /\ hook'[h].pc = IF e.type = "checkout" THEN "retrieve" ELSE "find"
      /\ hook'[h].event = e
      /\ \A f \in Hooks : f # h => hook'[f] = hook[f] /\ hook[f].pc = "idle"
  BY <1>1, <1>6
<1>8. e.customer = stripe.customer
  BY <1>4, <1>6 DEF CustomerInv
<1>9. stripe.status # "none"
  BY <1>2 DEF AloneInv
<1>10. AloneInv'
  BY <1>2, <1>7, <1>9 DEF AloneInv
<1>11. CustomerInv'
  <2>1. DOMAIN rest = 1..Len(rest)
    BY <1>4, LenProperties
  <2>2. \A j \in DOMAIN rest : rest[j].customer = stripe.customer
    BY <1>4, <2>1 DEF CustomerInv
  <2>3. Known \/ e.type = "checkout"
    BY <1>6, <1>7, <1>9, <1>1 DEF CustomerInv
  <2> QED
    BY <1>2, <1>5, <1>7, <1>8, <2>2, <2>3 DEF CustomerInv, Known, Ahead
<1>12. NewsInv'
  <2>1. CASE rest # <<>>
    <3>1. Len(rest) \in Nat \ {0}
      BY <1>4, <2>1, EmptySeq, LenProperties
    <3>2. rest[Len(rest)] = mail[Len(mail)]
      BY <1>4, <3>1
    <3> QED
      BY <1>2, <1>5, <2>1, <3>2 DEF NewsInv, Reflects
  <2>2. CASE rest = <<>>
    <3>1. Len(mail) = 1
      BY <1>4, <2>2, EmptySeq
    <3>2. Reflects(e)
      BY <1>2, <1>6, <3>1 DEF NewsInv
    <3> QED
      BY <1>2, <1>5, <1>7, <2>2, <3>2 DEF NewsInv, Reflects, Quiet, Ahead
  <2> QED
    BY <2>1, <2>2
<1> QED
  BY <1>10, <1>11, <1>12

\* A stage of processEvent finds the row, and brings it what the event tells.
LEMMA OrderOfProcess ==
    ASSUME IInv, StageInv, AloneInv, CustomerInv, NewsInv,
           NEW h \in Hooks, ProcessEvent(h)
    PROVE  AloneInv' /\ CustomerInv' /\ NewsInv'
<1> USE DEF IInv, TypeOK
<1>0. hook \in [Hooks -> HookStates] /\ row \in Rows /\ UNCHANGED <<stripe, mail>>
  BY DEF ProcessEvent, RetrieveSubscription, FindWorkspace, UpsertSubscription,
     MarkSubscription, UpdateWorkspacePlan, EvictEntry, hookFrame
<1>1. /\ hook[h].pc # "idle" /\ stripe.status # "none"
      /\ \A f \in Hooks : f # h => hook'[f] = hook[f] /\ hook[f].pc = "idle"
  <2>1. hook[h].pc # "idle" /\ \A f \in Hooks : f # h => hook'[f] = hook[f]
    BY DEF ProcessEvent, RetrieveSubscription, FindWorkspace, UpsertSubscription,
       MarkSubscription, UpdateWorkspacePlan, EvictEntry, SetHook, SetTail, HookEnds
  <2> QED
    BY <2>1 DEF AloneInv, Quiet
<1>2. AloneInv'
  BY <1>0, <1>1 DEF AloneInv
<1>3. CASE RetrieveSubscription(h)
  <2>1. /\ hook[h].pc = "retrieve" /\ hook'[h].pc = "upsert"
        /\ hook'[h].event = hook[h].event /\ hook'[h].plan = stripe.plan
        /\ UNCHANGED <<row, plan>>
    BY <1>0, <1>3 DEF RetrieveSubscription, HookStates
  <2>2. hook[h].event.type = "checkout"
    BY <2>1 DEF StageInv
  <2>3. CustomerInv'
    BY <1>0, <1>1, <2>1, <2>2 DEF CustomerInv, Ahead
  <2>4. NewsInv'
    BY <1>0, <1>1, <2>1 DEF NewsInv, Reflects, Quiet, Ahead
  <2> QED
    BY <1>2, <2>3, <2>4
<1>4. CASE FindWorkspace(h)
  <2>1. /\ hook[h].pc = "find" /\ UNCHANGED <<row, plan>>
        /\ hook[h].event.type # "checkout" /\ hook[h].plan = "starter"
        /\ hook[h].event.customer = stripe.customer
    BY <1>4 DEF FindWorkspace, StageInv, CustomerInv, Ahead
  <2>2. Known
    BY <1>1, <2>1, KnownThen
  <2>3. \/ /\ hook'[h].pc = "upsert" /\ hook'[h].event = hook[h].event
           /\ hook'[h].plan = hook[h].event.plan
        \/ /\ hook'[h].pc = "mark" /\ hook'[h].event = hook[h].event
    BY <1>0, <1>4, <2>1, <2>2 DEF FindWorkspace, Known, SetHook, HookStates
  <2>4. CustomerInv'
    BY <1>0, <1>1, <2>1, <2>2, <2>3 DEF CustomerInv, Ahead, Known
  <2>5. NewsInv'
    BY <1>0, <1>1, <2>1, <2>3 DEF NewsInv, Reflects, Quiet, Ahead
  <2> QED
    BY <1>2, <2>4, <2>5
<1>5. CASE UpsertSubscription(h)
  <2>1. PICK e : e = hook[h].event
    OBVIOUS
  <2>2. /\ hook[h].pc = "upsert" /\ plan' = plan
        /\ row' = [customer |-> e.customer, plan |-> hook[h].plan,
                   status |-> EventStatus(e)]
        /\ hook'[h].pc = "plan" /\ hook'[h].plan = hook[h].plan
    BY <1>0, <1>5, <2>1 DEF UpsertSubscription, WriteRow, SetTail, HookStates
  <2>3. /\ e.type \in {"checkout", "updated"} /\ e.customer = stripe.customer
        /\ e \in Events
    BY <2>1, <2>2 DEF StageInv, CustomerInv, Ahead, HookInv
  <2>4. EventStatus(e) # "none"
    BY <2>3, EventStatusIsTyped DEF Statuses
  <2>5. Known'
    BY <1>0, <2>2, <2>3, <2>4 DEF Known
  <2>6. CustomerInv'
    BY <1>0, <1>1, <2>2, <2>5 DEF CustomerInv, Ahead
  <2>7. ASSUME mail = <<>> PROVE RowMatches' /\ hook'[h].plan = View'.plan
    <3>1. Reflects(e) /\ hook[h].plan = stripe.plan
      BY <1>1, <2>1, <2>2, <2>7 DEF NewsInv, Ahead
    <3>2. View' = [plan |-> stripe.plan, status |-> MapStripeStatus(stripe.status)]
      BY <1>0, <2>3, <3>1 DEF View, Reflects
    <3>3. EventStatus(e) = MapStripeStatus(stripe.status)
      BY <2>3, <3>1 DEF EventStatus, Reflects, MapStripeStatus
    <3> QED
      BY <2>2, <3>1, <3>2, <3>3 DEF RowMatches
  <2>8. NewsInv'
    BY <1>0, <1>1, <2>2, <2>7 DEF NewsInv, Reflects, Quiet, Ahead
  <2> QED
    BY <1>2, <2>6, <2>8
<1>6. CASE MarkSubscription(h)
  <2>1. PICK e : e = hook[h].event
    OBVIOUS
  <2>2. /\ hook[h].pc = "mark" /\ plan' = plan /\ row'.customer = row.customer
        /\ row'.status \in {"cancelled", "past_due"}
        /\ hook'[h].pc \in {"plan", "evict"} /\ hook'[h].plan = hook[h].plan
        /\ e.type = "deleted" =>
              /\ row'.status = "cancelled" /\ row'.plan = "starter"
              /\ hook'[h].pc = "plan"
    <3>1. /\ hook[h].pc = "mark" /\ plan' = plan
          /\ \/ /\ e.type = "deleted"
                /\ row' = [row EXCEPT !.status = "cancelled", !.plan = "starter"]
                /\ hook' = [hook EXCEPT ![h].pc = "plan", ![h].event = NoEvent]
             \/ /\ e.type # "deleted" /\ row' = [row EXCEPT !.status = "past_due"]
                /\ hook' = [hook EXCEPT ![h].pc = "evict", ![h].event = NoEvent]
      BY <1>6, <2>1 DEF MarkSubscription, WriteRow, SetTail
    <3>2. hook[h] \in HookStates
      BY <1>0
    <3>3. CASE e.type = "deleted"
      <4>1. hook'[h].pc = "plan" /\ hook'[h].plan = hook[h].plan
        BY <1>0, <3>1, <3>2, <3>3 DEF HookStates
      <4>2. /\ row'.customer = row.customer /\ row'.status = "cancelled"
            /\ row'.plan = "starter"
        BY <1>0, <3>1, <3>3 DEF Rows
      <4> QED
        BY <3>1, <4>1, <4>2
    <3>4. CASE e.type # "deleted"
      <4>1. hook'[h].pc = "evict" /\ hook'[h].plan = hook[h].plan
        BY <1>0, <3>1, <3>2, <3>4 DEF HookStates
      <4>2. row'.customer = row.customer /\ row'.status = "past_due"
        BY <1>0, <3>1, <3>4 DEF Rows
      <4> QED
        BY <3>1, <3>4, <4>1, <4>2
    <3> QED
      BY <3>3, <3>4
  <2>3. e.type \in {"deleted", "payment_failed"} /\ hook[h].plan = "starter"
    BY <2>1, <2>2 DEF StageInv
  <2>4. Known
    BY <1>1, <2>2, KnownThen
  <2>5. CustomerInv'
    BY <1>0, <1>1, <2>2, <2>4 DEF CustomerInv, Ahead, Known
  <2>6. ASSUME mail = <<>>
        PROVE  RowMatches' /\ hook'[h].plan = View'.plan /\ hook'[h].pc = "plan"
    <3>1. Reflects(e)
      BY <1>1, <2>1, <2>2, <2>6 DEF NewsInv, Ahead
    <3>2. e.type = "deleted" /\ stripe.status = "canceled"
      BY <2>3, <3>1 DEF Reflects
    <3> QED
      BY <1>0, <2>2, <2>3, <3>2 DEF RowMatches, View
  <2>7. NewsInv'
    BY <1>0, <1>1, <2>2, <2>6 DEF NewsInv, Reflects, Quiet, Ahead
  <2> QED
    BY <1>2, <2>5, <2>7
<1>7. CASE UpdateWorkspacePlan(h)
  <2>1. /\ hook[h].pc = "plan" /\ plan' = hook[h].plan /\ row' = row
        /\ hook'[h].pc = "evict"
    BY <1>0, <1>7 DEF UpdateWorkspacePlan, IdleHook, HookStates
  <2>2. Known
    BY <1>1, <2>1, KnownThen
  <2>3. CustomerInv'
    BY <1>0, <1>1, <2>1, <2>2 DEF CustomerInv, Ahead, Known
  <2>4. NewsInv'
    BY <1>0, <1>1, <2>1 DEF NewsInv, Reflects, Quiet, Ahead, RowMatches, View
  <2> QED
    BY <1>2, <2>3, <2>4
<1>8. CASE EvictEntry(h)
  <2>1. hook[h].pc = "evict" /\ hook'[h].pc = "idle" /\ UNCHANGED <<row, plan>>
    BY <1>0, <1>8 DEF EvictEntry, HookEnds, IdleHook, HookStates
  <2>2. Known
    BY <1>1, <2>1, KnownThen
  <2>3. CustomerInv'
    BY <1>0, <1>1, <2>1, <2>2 DEF CustomerInv, Ahead, Known
  <2>4. NewsInv'
    BY <1>0, <1>1, <2>1 DEF NewsInv, Reflects, Quiet, Ahead, RowMatches, View
  <2> QED
    BY <1>2, <2>3, <2>4
<1> QED
  BY <1>3, <1>4, <1>5, <1>6, <1>7, <1>8 DEF ProcessEvent

\* The three parts hold while nothing is lost or overtaken.
LEMMA OrderStep == IInv /\ StageInv /\ OrderInv /\ [Next]_vars => OrderInv'
<1> SUFFICES ASSUME IInv, StageInv, OrderInv, [Next]_vars, Intact'
             PROVE  AloneInv' /\ CustomerInv' /\ NewsInv'
  BY DEF OrderInv
<1>0. AloneInv /\ CustomerInv /\ NewsInv /\ lost' = 0 /\ order' = "kept"
  BY IntactBefore DEF OrderInv, Intact
<1>1. ASSUME NEW h \in Hooks, ReceiveEvent(h)
      PROVE  AloneInv' /\ CustomerInv' /\ NewsInv'
  BY <1>0, <1>1, OrderOfReceipt
<1>2. ASSUME NEW h \in Hooks, ProcessEvent(h)
      PROVE  AloneInv' /\ CustomerInv' /\ NewsInv'
  BY <1>0, <1>2, OrderOfProcess
<1>3. ASSUME NEW h \in Hooks, HookFails(h) PROVE FALSE
  BY <1>0, <1>3, Numbers DEF HookFails, IInv, TypeOK
<1>4. CASE CompleteSession \/ ChangeSubscription
  BY <1>0, <1>4, OrderOfChanges
<1>5. CASE UNCHANGED <<stripe, mail, row, plan, hook>>
  BY <1>0, <1>5 DEF AloneInv, CustomerInv, NewsInv, Quiet, Ahead, Known, Reflects,
     RowMatches, View
<1>6. ASSUME NEW k \in Checkouts, InsertSubscription(k)
      PROVE  AloneInv' /\ CustomerInv' /\ NewsInv'
  <2>1. UNCHANGED <<stripe, mail, plan, hook>> /\ (row.status # "none" => row' = row)
    BY <1>6 DEF InsertSubscription, checkoutFrame
  <2>2. CASE row.status # "none"
    BY <1>5, <2>1, <2>2
  <2>3. CASE row.status = "none"
    <3>1. ~Known
      BY <2>3 DEF Known
    <3>2. AloneInv'
      BY <1>0, <2>1 DEF AloneInv, Quiet
    <3>3. CustomerInv'
      BY <1>0, <2>1, <3>1 DEF CustomerInv, Quiet, Ahead
    <3>4. NewsInv'
      <4>1. mail = <<>> /\ stripe.status # "none" =>
               ~Quiet /\ \A h \in Hooks : hook[h].pc \notin {"plan", "evict"}
        BY <1>0, <3>1, KnownThen
      <4> QED
        BY <1>0, <2>1, <4>1 DEF NewsInv, Quiet, Ahead, Reflects
    <3> QED
      BY <3>2, <3>3, <3>4
  <2> QED
    BY <2>2, <2>3
<1>7. ASSUME NEW k \in Checkouts, FindCustomer(k) \/ CreateCustomer(k) \/ OpenSession(k)
      PROVE  AloneInv' /\ CustomerInv' /\ NewsInv'
  BY <1>5, <1>7 DEF FindCustomer, CreateCustomer, OpenSession, checkoutFrame
<1>8. ASSUME NEW g \in Guards, LookupEntry(g) \/ CanActivate(g)
      PROVE  AloneInv' /\ CustomerInv' /\ NewsInv'
  BY <1>5, <1>8 DEF LookupEntry, CanActivate, ReadRow, FillEntry, Leave, guardFrame
<1>9. CASE Tick \/ UNCHANGED vars
  BY <1>5, <1>9 DEF Tick, guardFrame, vars
<1> QED
  BY <1>1, <1>2, <1>3, <1>4, <1>6, <1>7, <1>8, <1>9 DEF Next, Checkout

\* The webhooks of Stripe: once every event was processed in the order sent, and
\* none was lost, row and workspace say what the subscription is, however many
\* checkouts made customers meanwhile.
THEOREM BillingMatchesStripe == Spec => []MatchesStripe
<1>1. Init => StageInv /\ OrderInv
  BY EmptySeq DEF Init, StageInv, OrderInv, AloneInv, CustomerInv, NewsInv, Quiet, Ahead,
     IdleHook, NoSubscription
<1>2. IInv /\ StageInv /\ OrderInv /\ [Next]_vars => StageInv' /\ OrderInv'
  BY StageStep, OrderStep
<1>3. OrderInv => MatchesStripe
  BY DEF OrderInv, Intact, NewsInv, Quiet, RowMatches, MatchesStripe, Settled
<1> QED
  BY <1>1, <1>2, <1>3, BillingInvariant, PTL DEF Spec
=============================================================================
