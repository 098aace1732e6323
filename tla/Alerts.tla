------------------------------- MODULE Alerts -------------------------------
(***************************************************************************)
(* The alert rules of one workspace: PostStatusChangedListener, which a    *)
(* change of status starts, AlertEngineService, which it calls, and the    *)
(* requests of OpsAlertsController that edit or delete a rule.  Nothing    *)
(* else evaluates rules: no job or cron calls evaluateAll.                 *)
(*                                                                         *)
(* A rule is in the table from the start: createRule passes the DTO's      *)
(* metric_family and time_window to an entity that calls them metricFamily *)
(* and timeWindow, and the INSERT breaks the NOT NULL of both columns.     *)
(***************************************************************************)
EXTENDS Integers, FiniteSets

CONSTANTS
    Rules,       \* rows of alert_rules
    Events,      \* status changes, each of them emitted at most once
    Requests,    \* requests to edit or delete a rule, each served once
    NoRule,      \* a handler that is at no rule
    Settings,    \* Settings[r]: operator, threshold and channel of rule r
    Values,      \* sums of a metric over a window
    MaxFaults    \* bound: failed awaits and crashes, together

Operators == {"gt", "lt", "pct_drop", "pct_rise"}

ASSUME RulesAssumption == NoRule \notin Rules
ASSUME SettingsAssumption ==
    Settings \in [Rules -> [op : Operators, threshold : Int,
                           channel : {"in_app", "email"}]]
ASSUME ValuesAssumption == 0 \in Values /\ Values \subseteq Nat
ASSUME BoundsAssumption == MaxFaults \in Nat

VARIABLES
    rule,        \* rule[r]: the alert_rules row
    handler,     \* handler[e]: the listener's run for event e
    request,     \* request[q]: an edit or a deletion
    cards,       \* insight_cards
    notices,     \* in_app_notifications, by event and rule
    pushes,      \* what went out to the sockets, by event and rule
    broken,      \* evaluations, by event and rule, that threw half way
    stale,       \* rules that an edit wrote back as they had been before
    faults       \* faults so far (see MaxFaults)

vars == <<rule, handler, request, cards, notices, pushes, broken, stale, faults>>
out == <<cards, notices, pushes>>

Firings == Events \X (Rules \cup {NoRule})
Severities == {"positive", "warning", "critical", "neutral"}
RuleRows == [state : {"on", "off", "gone"},
             evaluated : {"never", "stamped"}, triggered : {"never", "stamped"}]
Cards == [event : Events, rule : Rules, op : Operators,
          trend : {"halved", "fell", "same", "rose"}, severity : Severities]
HandlerPcs == {"none", "next", "prev", "card", "notice", "mail",
               "push", "trigger", "stamp", "restamp", "tell", "over", "dead"}
HandlerStates == [pc : HandlerPcs, left : SUBSET Rules,
                  at : Rules \cup {NoRule}, current : Values, prev : Values]
RequestStates == [pc : {"none", "save", "remove", "over"},
                  at : Rules \cup {NoRule}, copy : RuleRows]

TypeOK ==
    /\ rule \in [Rules -> RuleRows]
    /\ handler \in [Events -> HandlerStates]
    /\ request \in [Requests -> RequestStates]
    /\ cards \subseteq Cards
    /\ notices \subseteq Firings /\ pushes \subseteq Firings
    /\ broken \subseteq Firings /\ stale \subseteq Rules
    /\ faults \in 0..MaxFaults
FreshRow == [state |-> "on", evaluated |-> "never", triggered |-> "never"]
NewHandler ==
    [pc |-> "none", left |-> {}, at |-> NoRule, current |-> 0, prev |-> 0]
NewRequest == [pc |-> "none", at |-> NoRule, copy |-> FreshRow]

Init ==
    /\ rule = [r \in Rules |-> FreshRow]
    /\ handler = [e \in Events |-> NewHandler]
    /\ request = [q \in Requests |-> NewRequest]
    /\ cards = {} /\ notices = {} /\ pushes = {}
    /\ broken = {} /\ stale = {}
    /\ faults = 0

-----------------------------------------------------------------------------
(* Pure parts of AlertEngineService *)

\* change / base * 100 > threshold, in floating point: where the quotient is
\* exactly the threshold it may come out a little above it.
Beyond(change, base, threshold) ==
    {100 * change > threshold * base}
    \cup {b \in {TRUE} : change # 0 /\ 100 * change = threshold * base}

\* Mutant: a rise from zero divides as any other.
EvaluateNoZero(s, current, prev) ==
    CASE s.op = "gt" -> {current > s.threshold}
      [] s.op = "lt" -> {current < s.threshold}
      [] s.op = "pct_drop" -> Beyond(prev - current, prev, s.threshold)
      [] s.op = "pct_rise" -> {prev = 0} \cup Beyond(current - prev, prev, s.threshold)

\* The answers evaluate may give.
Evaluate(s, current, prev) ==
    CASE s.op = "gt" -> {current > s.threshold}
      [] s.op = "lt" -> {current < s.threshold}
      [] s.op = "pct_drop" ->
            IF prev = 0 THEN {FALSE} ELSE Beyond(prev - current, prev, s.threshold)
      [] s.op = "pct_rise" ->
            IF prev = 0 THEN {current > 0} ELSE Beyond(current - prev, prev, s.threshold)

\* drop > 50, where drop is 0 unless prev > 0; half is a quotient without error.
DeriveSeverity(s, current, prev) ==
    CASE s.op = "pct_drop" /\ prev > 0 /\ 2 * (prev - current) > prev -> "critical"
      [] s.op = "lt" /\ s.threshold <= 0 -> "critical"
      [] s.op \in {"pct_rise", "gt"} -> "positive"
      [] OTHER -> "warning"

-----------------------------------------------------------------------------
(* A handler between its awaits *)

Fault == faults < MaxFaults /\ faults' = faults + 1
At(e, pc) == handler[e].pc = pc
Goto(e, pc) == handler' = [handler EXCEPT ![e].pc = pc]
Firing(e) == <<e, handler[e].at>>
Setting(e) == Settings[handler[e].at]
rest == <<request, stale>>
InFlight(e) == handler[e].pc \notin {"none", "over", "dead"}

\* post.status.changed, and the rules that are enabled when the query runs.
LoadRules(e) ==
    /\ At(e, "none")
    /\ handler' = [handler EXCEPT ![e] =
          [@ EXCEPT !.pc = "next", !.left = {r \in Rules : rule[r].state = "on"}]]
    /\ UNCHANGED <<rest, out, rule, broken, faults>>

\* The error is caught in handle, which goes on to its own notification.
LoadFails(e) ==
    /\ Fault
    /\ At(e, "none")
    /\ Goto(e, "next")
    /\ UNCHANGED <<rest, out, rule, broken>>

\* The order of the rows is the database's.  The two windows are summed by two
\* queries, and imports write what they sum at any time.
ReadCurrent(e, r) ==
    /\ At(e, "next") /\ r \in handler[e].left
    /\ \E sum \in Values :
          handler' = [handler EXCEPT ![e] =
            [@ EXCEPT !.pc = "prev", !.left = handler[e].left \ {r}, !.at = r, !.current = sum]]
    /\ UNCHANGED <<rest, out, rule, broken, faults>>

ReadPrev(e) ==
    /\ At(e, "prev")
    /\ \E sum \in Values :
          \E fired \in Evaluate(Setting(e), handler[e].current, sum) :
            handler' = [handler EXCEPT ![e] =
              IF fired THEN [@ EXCEPT !.pc = "card", !.prev = sum]
              ELSE [@ EXCEPT !.pc = "stamp", !.current = 0]]
    /\ UNCHANGED <<rest, out, rule, broken, faults>>

\* What really happened from prev to current, which no code computes.
Trend(current, prev) ==
    CASE 2 * current < prev -> "halved"
      [] current < prev /\ prev <= 2 * current -> "fell"
      [] current = prev -> "same"
      [] prev < current -> "rose"

\* The card; its numbers go by way of the summary, kept here as their trend.
SaveCard(e) ==
    LET current == handler[e].current
        prev == handler[e].prev
    IN  /\ At(e, "card")
        /\ cards' = cards \cup
              {[event |-> e, rule |-> handler[e].at, op |-> Setting(e).op,
                trend |-> Trend(current, prev),
                severity |-> DeriveSeverity(Setting(e), current, prev)]}
        /\ handler' = [handler EXCEPT ![e] =
              [@ EXCEPT !.pc = "notice", !.current = 0, !.prev = 0]]
        /\ UNCHANGED <<rest, notices, pushes, rule, broken, faults>>

\* Mutant: the notification is for rules with the channel in_app only.
SaveNoticeInApp(e) ==
    /\ At(e, "notice")
    /\ notices' = IF Setting(e).channel = "in_app" THEN notices \cup {Firing(e)}
                  ELSE notices
    /\ Goto(e, IF Setting(e).channel = "email" THEN "mail" ELSE "push")
    /\ UNCHANGED <<rest, cards, pushes, rule, broken, faults>>

SaveNotice(e) ==
    /\ At(e, "notice")
    /\ notices' = notices \cup {Firing(e)}
    /\ Goto(e, IF Setting(e).channel = "email" THEN "mail" ELSE "push")
    /\ UNCHANGED <<rest, cards, pushes, rule, broken, faults>>

\* To every admin; a mail that fails is logged and forgotten.
SendMails(e) ==
    /\ At(e, "mail")
    /\ Goto(e, "push")
    /\ UNCHANGED <<rest, out, rule, broken, faults>>

Push(e) ==
    /\ At(e, "push")
    /\ pushes' = pushes \cup {Firing(e)}
    /\ Goto(e, "trigger")
    /\ UNCHANGED <<rest, cards, notices, rule, broken, faults>>

\* UPDATE alert_rules: nothing happens to a row that is gone.
StampTriggered(e) ==
    /\ At(e, "trigger")
    /\ rule' = [rule EXCEPT ![handler[e].at].triggered =
          IF rule[handler[e].at].state = "gone" THEN @ ELSE "stamped"]
    /\ Goto(e, "stamp")
    /\ UNCHANGED <<rest, out, broken, faults>>

\* On to the next rule; after the last one nothing that was read is used again.
Following(h) ==
    IF h.left = {} THEN [NewHandler EXCEPT !.pc = "next"]
    ELSE [h EXCEPT !.pc = "next", !.at = NoRule]

\* After an evaluation, or after one that threw.
StampEvaluated(e) ==
    /\ handler[e].pc \in {"stamp", "restamp"}
    /\ rule' = [rule EXCEPT ![handler[e].at].evaluated =
          IF rule[handler[e].at].state = "gone" THEN @ ELSE "stamped"]
    /\ handler' = [handler EXCEPT ![e] = Following(@)]
    /\ UNCHANGED <<rest, out, broken, faults>>

\* Mutant: the error of one rule ends the loop.
AfterErrorStop == "tell"

\* An error in evaluateRule, or in the stamp after it, ends this rule only.
AfterError == "restamp"

EvaluationThrows(e) ==
    /\ Fault
    /\ handler[e].pc \in {"prev", "card", "notice", "mail", "push", "trigger",
                          "stamp"}
    /\ handler' = [handler EXCEPT ![e] =
          [@ EXCEPT !.pc = AfterError, !.current = 0, !.prev = 0]]
    /\ broken' = broken \cup {Firing(e)}
    /\ UNCHANGED <<rest, out, rule>>

\* A second failure, of the same outage, is ignored.
RestampFails(e) ==
    /\ At(e, "restamp")
    /\ handler' = [handler EXCEPT ![e] = Following(@)]
    /\ UNCHANGED <<rest, out, rule, broken, faults>>

Evaluated(e) == At(e, "next") /\ handler[e].left = {}

\* The notification of the event itself, and its push.
StoreNotice(e) ==
    /\ Evaluated(e)
    /\ notices' = notices \cup {<<e, NoRule>>}
    /\ Goto(e, "tell")
    /\ UNCHANGED <<rest, cards, pushes, rule, broken, faults>>

Tell(e) ==
    /\ At(e, "tell")
    /\ pushes' = pushes \cup {<<e, NoRule>>}
    /\ Goto(e, "over")
    /\ UNCHANGED <<rest, cards, notices, rule, broken, faults>>

\* Each of the two has a catch of its own.
TellingFails(e) ==
    /\ Fault
    /\ \/ Evaluated(e) /\ Goto(e, "tell")
       \/ At(e, "tell") /\ Goto(e, "over")
    /\ broken' = broken \cup {<<e, NoRule>>}
    /\ UNCHANGED <<rest, out, rule>>

Handle(e) ==
    \/ \E r \in Rules : ReadCurrent(e, r)
    \/ ReadPrev(e) \/ SaveCard(e) \/ SaveNotice(e) \/ SendMails(e) \/ Push(e) \/ StampTriggered(e)
    \/ StampEvaluated(e) \/ StoreNotice(e) \/ Tell(e)
    \/ EvaluationThrows(e) \/ RestampFails(e) \/ TellingFails(e)

-----------------------------------------------------------------------------
(* Requests and crashes *)

\* updateRule reads the row and assigns the body over its copy.  A handler has
\* the other columns a body may change from its load; the models keep them.
BeginEdit(q, r) ==
    /\ request[q].pc = "none" /\ rule[r].state # "gone"
    /\ \E state \in {"on", "off"} :
          request' = [request EXCEPT ![q] =
            [pc |-> "save", at |-> r, copy |-> [rule[r] EXCEPT !.state = state]]]
    /\ UNCHANGED <<out, rule, handler, broken, stale, faults>>

\* The save writes the copy, its two stamps included, and inserts a row that
\* was deleted meanwhile.
SaveEdit(q) ==
    LET r == request[q].at
        copy == request[q].copy
    IN  /\ request[q].pc = "save"
        /\ rule' = [rule EXCEPT ![r] = copy]
        /\ stale' = IF \/ rule[r].state = "gone"
                       \/ copy.evaluated # rule[r].evaluated
                       \/ copy.triggered # rule[r].triggered
                    THEN stale \cup {r} ELSE stale
        /\ request' = [request EXCEPT ![q] = [NewRequest EXCEPT !.pc = "over"]]
        /\ UNCHANGED <<out, handler, broken, faults>>

BeginDelete(q, r) ==
    /\ request[q].pc = "none" /\ rule[r].state # "gone"
    /\ request' = [request EXCEPT ![q].pc = "remove", ![q].at = r]
    /\ UNCHANGED <<out, rule, handler, broken, stale, faults>>

RemoveRule(q) ==
    /\ request[q].pc = "remove"
    /\ rule' = [rule EXCEPT ![request[q].at] =
                   [FreshRow EXCEPT !.state = "gone"]]
    /\ request' = [request EXCEPT ![q] = [NewRequest EXCEPT !.pc = "over"]]
    /\ UNCHANGED <<out, handler, broken, stale, faults>>

Serve(q) ==
    \/ \E r \in Rules : BeginEdit(q, r) \/ BeginDelete(q, r)
    \/ SaveEdit(q) \/ RemoveRule(q)

\* Events live in the process; one that dies with it is not emitted again.
Crash ==
    /\ Fault
    /\ handler' = [e \in Events |->
          IF InFlight(e) THEN [NewHandler EXCEPT !.pc = "dead"] ELSE handler[e]]
    /\ request' = [q \in Requests |->
          IF request[q].pc = "none" THEN request[q]
          ELSE [NewRequest EXCEPT !.pc = "over"]]
    /\ UNCHANGED <<out, rule, broken, stale>>

Next ==
    \/ \E e \in Events : LoadRules(e) \/ LoadFails(e) \/ Handle(e)
    \/ \E q \in Requests : Serve(q)
    \/ Crash

Spec == Init /\ [][Next]_vars

-----------------------------------------------------------------------------
(* Properties *)

Carded(f) == \E c \in cards : c.event = f[1] /\ c.rule = f[2]
Unfinished(f) ==
    f \in broken \/ handler[f[1]].pc = "dead" \/ handler[f[1]].at = f[2]

\* The five effects of a rule that fires belong together, whatever else runs:
\* what is pushed can be listed, what is listed has its card, one card a rule
\* and event; and none of them is missing, the stamps on the rule included,
\* unless an await between them threw, the process died, or (the stamps) a rule
\* was deleted or an edit that had read it before wrote it back.
FiringLeavesAll ==
    \A e \in Events, r \in Rules :
      LET f == <<e, r>>
      IN  /\ f \in pushes => f \in notices
          /\ f \in notices => Carded(f)
          /\ Carded(f) => f \in pushes \/ Unfinished(f)
          /\ f \in pushes => \/ Unfinished(f)
                            \/ r \in stale \/ rule[r].state = "gone"
                            \/ /\ rule[r].triggered = "stamped"
                               /\ rule[r].evaluated = "stamped"
          /\ Cardinality({c \in cards : c.event = e /\ c.rule = r}) <= 1

\* A percentage below zero, which the DTOs admit, asks for less than no change.
AsksForChange(r) == Settings[r].threshold >= 0

\* What a card says is so: a rule about a drop never reports a rise, nor one
\* about a rise a drop, be the sums torn by an import or zero, unless its own
\* threshold is below zero; and a card is critical when, and only when, the
\* metric lost more than half, whatever the threshold.
CardsTellTheTruth ==
    \A c \in cards :
      /\ AsksForChange(c.rule) =>
            /\ c.op = "pct_drop" => c.trend \in {"fell", "halved"}
            /\ c.op = "pct_rise" => c.trend = "rose"
      /\ c.severity = "critical" <=> c.op = "pct_drop" /\ c.trend = "halved"

\* A failure stops neither the other rules of its event nor the event's own
\* notification and push: a handler that is over has been at every rule that was
\* on, and each of the two went out or threw itself.
EveryEventIsHandled ==
    \A e \in Events :
      handler[e].pc = "over" =>
        /\ handler[e].left = {}
        /\ {<<e, NoRule>>} \subseteq (notices \cap pushes) \cup broken
=============================================================================
