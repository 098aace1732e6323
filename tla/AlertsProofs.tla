----------------------------- MODULE AlertsProofs -----------------------------
(***************************************************************************)
(* Proofs of what Alerts promises, for any rules, events, requests and     *)
(* sums, and any number of failures and crashes.                           *)
(***************************************************************************)
EXTENDS Alerts, FiniteSetTheorems, TLAPS

-----------------------------------------------------------------------------
(* The pure parts *)

SettingRecords == [op : Operators, threshold : Int, channel : {"in_app", "email"}]

\* What is so of the two sums when a rule fires.
Justified(s, current, prev) ==
    /\ s.op = "pct_drop" /\ s.threshold >= 0 => current < prev
    /\ s.op = "pct_rise" /\ s.threshold >= 0 => prev < current
    /\ s.op = "lt" => 0 < s.threshold

LEMMA Products == \A x, y \in Nat : x * y \in Nat /\ x * y >= 0
  OBVIOUS

LEMMA BeyondIsMore ==
  ASSUME NEW change \in Int, NEW base \in Nat, NEW threshold \in Nat,
         NEW fired \in Beyond(change, base, threshold), fired
  PROVE  change > 0
<1>1. threshold * base \in Nat /\ threshold * base >= 0
  BY Products
<1>2. 100 * change > threshold * base \/ (change # 0 /\ 100 * change = threshold * base)
  BY Zenon DEF Beyond
<1> QED
  BY <1>1, <1>2

LEMMA FiresWhenJustified ==
  ASSUME NEW s \in SettingRecords, NEW current \in Nat, NEW prev \in Nat,
         NEW fired \in Evaluate(s, current, prev), fired
  PROVE  Justified(s, current, prev)
<1>1. CASE s.op = "gt"
  BY <1>1 DEF Justified
<1>2. CASE s.op = "lt"
  <2>1. fired \in {current < s.threshold}
    BY <1>2 DEF Evaluate
  <2>2. current < s.threshold
    BY <2>1, Zenon
  <2> QED
    BY <1>2, <2>2 DEF Justified, SettingRecords
<1>3. CASE s.op = "pct_drop" /\ s.threshold >= 0
  <2>1. fired \in IF prev = 0 THEN {FALSE} ELSE Beyond(prev - current, prev, s.threshold)
    BY <1>3 DEF Evaluate
  <2>2. fired \in Beyond(prev - current, prev, s.threshold)
    BY <2>1, Zenon
  <2>3. prev - current \in Int /\ s.threshold \in Nat
    BY <1>3 DEF SettingRecords
  <2>4. prev - current > 0
    BY <2>2, <2>3, BeyondIsMore, Zenon
  <2> QED
    BY <1>3, <2>4 DEF Justified
<1>4. CASE s.op = "pct_rise" /\ s.threshold >= 0
  <2>1. fired \in IF prev = 0 THEN {current > 0} ELSE Beyond(current - prev, prev, s.threshold)
    BY <1>4 DEF Evaluate
  <2>2. CASE prev = 0
    <3>1. current > 0
      BY <2>1, <2>2, Zenon
    <3> QED
      BY <1>4, <2>2, <3>1 DEF Justified
  <2>3. CASE prev # 0
    <3>1. fired \in Beyond(current - prev, prev, s.threshold)
      BY <2>1, <2>3, Zenon
    <3>2. current - prev \in Int /\ s.threshold \in Nat
      BY <1>4 DEF SettingRecords
    <3>3. current - prev > 0
      BY <3>1, <3>2, BeyondIsMore, Zenon
    <3> QED
      BY <1>4, <3>3 DEF Justified
  <2> QED
    BY <2>2, <2>3
<1>5. CASE s.op \in {"pct_drop", "pct_rise"} /\ ~(s.threshold >= 0)
  BY <1>5 DEF Justified
<1> QED
  BY <1>1, <1>2, <1>3, <1>4, <1>5 DEF SettingRecords, Operators

LEMMA CardFields ==
  ASSUME NEW s \in SettingRecords, NEW current \in Nat, NEW prev \in Nat
  PROVE  /\ DeriveSeverity(s, current, prev) \in Severities
         /\ Trend(current, prev) \in {"halved", "fell", "same", "rose"}
         /\ current < prev => Trend(current, prev) \in {"halved", "fell"}
         /\ prev < current => Trend(current, prev) = "rose"
         /\ Trend(current, prev) = "halved" <=> 2 * current < prev
         /\ Justified(s, current, prev) =>
              (DeriveSeverity(s, current, prev) = "critical"
                 <=> s.op = "pct_drop" /\ Trend(current, prev) = "halved")
<1>1. /\ Trend(current, prev) \in {"halved", "fell", "same", "rose"}
      /\ current < prev => Trend(current, prev) \in {"halved", "fell"}
      /\ prev < current => Trend(current, prev) = "rose"
      /\ Trend(current, prev) = "halved" <=> 2 * current < prev
  BY DEF Trend
<1>2. DeriveSeverity(s, current, prev) \in Severities
  BY DEF DeriveSeverity, Severities, SettingRecords
<1>3. ASSUME Justified(s, current, prev)
      PROVE  DeriveSeverity(s, current, prev) = "critical"
               <=> s.op = "pct_drop" /\ 2 * current < prev
  BY <1>3 DEF DeriveSeverity, SettingRecords, Justified
<1> QED
  BY <1>1, <1>2, <1>3

-----------------------------------------------------------------------------
(* The inductive invariant *)

Working == {"prev", "card", "notice", "mail", "push", "trigger", "stamp", "restamp"}
CardsOf(e, r) == {c \in cards : c.event = e /\ c.rule = r}

\* A rule that was deleted, or that an edit wrote back, has the stamps it has.
Marked(r) == r \in stale \/ rule[r].state = "gone"
TriggerKept(r) == Marked(r) \/ rule[r].triggered = "stamped"
StampKept(r) == Marked(r) \/ rule[r].evaluated = "stamped"

\* The event has not been at the rule, or not fired it yet.
ToCome(e, r) ==
    \/ handler[e].pc = "none" \/ r \in handler[e].left
    \/ handler[e].at = r /\ handler[e].pc \in {"prev", "card"}

\* How far the effects of a rule have come.
Progress(e, r) ==
    /\ handler[e].pc = "card" => Justified(Settings[r], handler[e].current, handler[e].prev)
    /\ handler[e].pc = "notice" => CardsOf(e, r) # {}
    /\ handler[e].pc \in {"mail", "push"} => <<e, r>> \in notices
    /\ handler[e].pc = "trigger" => <<e, r>> \in pushes
    /\ handler[e].pc = "stamp" =>
          /\ CardsOf(e, r) # {} => <<e, r>> \in pushes
          /\ <<e, r>> \in pushes => TriggerKept(r)
    /\ handler[e].pc = "restamp" => <<e, r>> \in broken

Good(e, r) ==
    LET f == <<e, r>>
    IN  /\ f \in pushes => f \in notices
        /\ f \in notices => CardsOf(e, r) # {}
        /\ CardsOf(e, r) # {} => f \in pushes \/ Unfinished(f)
        /\ f \in pushes => Unfinished(f) \/ (TriggerKept(r) /\ StampKept(r))
        /\ \A c \in CardsOf(e, r), d \in CardsOf(e, r) : c = d
        /\ ToCome(e, r) => CardsOf(e, r) = {}
        /\ handler[e].at = r => Progress(e, r)

\* A handler works on one rule, which it has taken off its list; when it tells
\* of its event the list is empty, and when it is over it has told.
HandlerRight(e) ==
    /\ handler[e].pc \in Working =>
         handler[e].at \in Rules /\ handler[e].at \notin handler[e].left
    /\ handler[e].pc \notin Working => handler[e].at = NoRule
    /\ handler[e].pc \in {"none", "tell", "over", "dead"} => handler[e].left = {}
    /\ handler[e].pc = "tell" => <<e, NoRule>> \in notices \cup broken
    /\ handler[e].pc = "over" => <<e, NoRule>> \in (notices \cap pushes) \cup broken

RequestRight(q) == request[q].pc \in {"save", "remove"} => request[q].at \in Rules

IInv ==
    /\ TypeOK
    /\ \A e \in Events : HandlerRight(e) /\ \A r \in Rules : Good(e, r)
    /\ \A q \in Requests : RequestRight(q)
    /\ CardsTellTheTruth

LEMMA Settling == \A r \in Rules : Settings[r] \in SettingRecords
  BY SettingsAssumption DEF SettingRecords

LEMMA Records ==
    /\ FreshRow \in RuleRows /\ [FreshRow EXCEPT !.state = "gone"] \in RuleRows
    /\ NewHandler \in HandlerStates
    /\ \A pc \in HandlerPcs :
         LET h == [NewHandler EXCEPT !.pc = pc]
         IN  h \in HandlerStates /\ h.pc = pc /\ h.at = NoRule /\ h.left = {}
    /\ NewRequest \in RequestStates /\ [NewRequest EXCEPT !.pc = "over"] \in RequestStates
  BY ValuesAssumption DEF FreshRow, RuleRows, NewHandler, HandlerStates, HandlerPcs,
     NewRequest, RequestStates

LEMMA InitIInv == Init => IInv
<1> SUFFICES ASSUME Init PROVE IInv
  OBVIOUS
<1>1. TypeOK
  BY Records, BoundsAssumption DEF Init, TypeOK, Cards, Firings
<1>2. ASSUME NEW e \in Events PROVE HandlerRight(e)
  BY DEF Init, NewHandler, HandlerRight, Working
<1>3. ASSUME NEW e \in Events, NEW r \in Rules PROVE Good(e, r)
  BY RulesAssumption DEF Init, NewHandler, Good, CardsOf, Unfinished
<1>4. ASSUME NEW q \in Requests PROVE RequestRight(q)
  BY DEF Init, NewRequest, RequestRight
<1> QED
  BY <1>1, <1>2, <1>3, <1>4 DEF IInv, Init, CardsTellTheTruth

-----------------------------------------------------------------------------
(* What a step does to the stamps and to other events *)

StampsKept ==
    \A r \in Rules : /\ TriggerKept(r) => TriggerKept(r)'
                     /\ StampKept(r) => StampKept(r)'

\* Nothing of event e changes but what is common to all.
SameEvent(e) ==
    /\ handler'[e] = handler[e]
    /\ \A r \in Rules : CardsOf(e, r)' = CardsOf(e, r)
    /\ \A r \in Rules \cup {NoRule} :
         /\ <<e, r>> \in notices' <=> <<e, r>> \in notices
         /\ <<e, r>> \in pushes' <=> <<e, r>> \in pushes
         /\ <<e, r>> \in broken' <=> <<e, r>> \in broken

LEMMA SameIsGood ==
  ASSUME NEW e \in Events, SameEvent(e), StampsKept,
         HandlerRight(e), \A r \in Rules : Good(e, r)
  PROVE  HandlerRight(e)' /\ \A r \in Rules : Good(e, r)'
<1>1. HandlerRight(e)'
  BY DEF SameEvent, HandlerRight
<1>2. ASSUME NEW r \in Rules PROVE Good(e, r)'
  <2>1. Unfinished(<<e, r>>)' <=> Unfinished(<<e, r>>)
    BY DEF SameEvent, Unfinished
  <2>2. ToCome(e, r)' <=> ToCome(e, r)
    BY DEF SameEvent, ToCome
  <2>3. Progress(e, r) => Progress(e, r)'
    BY DEF SameEvent, Progress, StampsKept
  <2> QED
    BY <2>1, <2>2, <2>3 DEF Good, SameEvent, StampsKept
<1> QED
  BY <1>1, <1>2

\* What a step of handler e has to keep.
Kept(e) ==
    /\ TypeOK' /\ StampsKept /\ UNCHANGED request /\ CardsTellTheTruth'
    /\ \A g \in Events \ {e} : SameEvent(g)
    /\ HandlerRight(e)' /\ \A r \in Rules : Good(e, r)'

\* The state handler e goes to, and the bound on failures.
HandlerGoes(e) ==
    /\ handler' = [handler EXCEPT ![e] = handler'[e]] /\ handler'[e] \in HandlerStates
    /\ UNCHANGED faults \/ Fault
    /\ UNCHANGED <<request, stale>>

\* A step that leaves all but the handler alone.
QuietStep(e) == HandlerGoes(e) /\ UNCHANGED <<out, rule, broken>>

LEMMA FaultBound == faults \in 0..MaxFaults /\ (UNCHANGED faults \/ Fault) => faults' \in 0..MaxFaults
  BY BoundsAssumption DEF Fault

LEMMA QuietKeeps ==
  ASSUME IInv, NEW e \in Events, QuietStep(e),
         HandlerRight(e)', \A r \in Rules : Good(e, r)'
  PROVE  Kept(e)
<1>1. handler \in [Events -> HandlerStates] /\ UNCHANGED <<cards, notices, pushes>>
  BY DEF IInv, TypeOK, QuietStep, out
<1>2. TypeOK'
  BY <1>1, FaultBound DEF IInv, TypeOK, QuietStep, HandlerGoes
<1>3. StampsKept
  BY DEF StampsKept, QuietStep, HandlerGoes, TriggerKept, StampKept, Marked
<1>4. ASSUME NEW g \in Events \ {e} PROVE SameEvent(g)
  BY <1>1 DEF SameEvent, QuietStep, HandlerGoes, CardsOf
<1>5. CardsTellTheTruth'
  BY <1>1 DEF IInv, CardsTellTheTruth
<1> QED
  BY <1>2, <1>3, <1>4, <1>5 DEF Kept, QuietStep, HandlerGoes

\* The effects of a quiet step on the rules of its event.
LEMMA QuietIsGood ==
  ASSUME IInv, NEW e \in Events, QuietStep(e), NEW r \in Rules,
         ToCome(e, r)' => CardsOf(e, r) = {},
         handler'[e].at = r => Progress(e, r)',
         handler[e].at = r /\ handler'[e].at # r =>
            \/ <<e, r>> \in broken
            \/ /\ CardsOf(e, r) # {} => <<e, r>> \in pushes
               /\ <<e, r>> \in pushes => TriggerKept(r) /\ StampKept(r),
         handler[e].pc # "dead"
  PROVE  Good(e, r)'
<1>1. /\ UNCHANGED <<cards, notices, pushes, broken, rule, stale>> /\ Good(e, r)
      /\ CardsOf(e, r)' = CardsOf(e, r)
      /\ TriggerKept(r)' = TriggerKept(r) /\ StampKept(r)' = StampKept(r)
  BY DEF IInv, QuietStep, HandlerGoes, out, CardsOf, TriggerKept, StampKept, Marked
<1>2. /\ Unfinished(<<e, r>>) <=> <<e, r>> \in broken \/ handler[e].at = r
      /\ handler'[e].at = r \/ <<e, r>> \in broken => Unfinished(<<e, r>>)'
  BY <1>1 DEF Unfinished
<1>3. CardsOf(e, r) # {} => <<e, r>> \in pushes \/ Unfinished(<<e, r>>)'
  BY <1>1, <1>2 DEF Good
<1>4. <<e, r>> \in pushes => Unfinished(<<e, r>>)' \/ (TriggerKept(r) /\ StampKept(r))
  BY <1>1, <1>2 DEF Good
<1> QED
  BY <1>1, <1>3, <1>4 DEF Good

LEMMA LoadRulesKeeps ==
  ASSUME IInv, NEW e \in Events, LoadRules(e)
  PROVE  Kept(e)
<1>1. /\ handler \in [Events -> HandlerStates] /\ HandlerRight(e)
      /\ handler[e].pc = "none" /\ handler[e].at = NoRule
  BY DEF IInv, TypeOK, LoadRules, At, HandlerRight, Working
<1>2. PICK on \in SUBSET Rules :
        handler' = [handler EXCEPT ![e] = [@ EXCEPT !.pc = "next", !.left = on]]
  BY DEF LoadRules
<1>3. handler'[e] = [handler[e] EXCEPT !.pc = "next", !.left = on]
  BY <1>1, <1>2
<1>4. /\ handler'[e] \in HandlerStates /\ handler'[e].pc = "next"
      /\ handler'[e].at = NoRule
  BY <1>1, <1>3 DEF HandlerStates, HandlerPcs
<1>5. QuietStep(e)
  BY <1>2, <1>4 DEF LoadRules, QuietStep, HandlerGoes, rest
<1>6. HandlerRight(e)'
  BY <1>4 DEF HandlerRight, Working
<1>7. ASSUME NEW r \in Rules PROVE Good(e, r)'
  <2>1. CardsOf(e, r) = {}
    BY <1>1 DEF IInv, Good, ToCome
  <2> QED
    BY <1>1, <1>4, <1>5, <2>1, RulesAssumption, QuietIsGood
<1> QED
  BY <1>5, <1>6, <1>7, QuietKeeps

LEMMA LoadFailsKeeps ==
  ASSUME IInv, NEW e \in Events, LoadFails(e)
  PROVE  Kept(e)
<1>1. /\ handler \in [Events -> HandlerStates] /\ HandlerRight(e)
      /\ handler[e].pc = "none" /\ handler[e].at = NoRule
  BY DEF IInv, TypeOK, LoadFails, At, HandlerRight, Working
<1>2. handler'[e] = [handler[e] EXCEPT !.pc = "next"]
  BY <1>1 DEF LoadFails, Goto
<1>3. /\ handler'[e] \in HandlerStates /\ handler'[e].pc = "next"
      /\ handler'[e].at = NoRule
  BY <1>1, <1>2 DEF HandlerStates, HandlerPcs
<1>4. QuietStep(e)
  BY <1>3 DEF LoadFails, Goto, QuietStep, HandlerGoes, rest
<1>5. HandlerRight(e)'
  BY <1>3 DEF HandlerRight, Working
<1>6. ASSUME NEW r \in Rules PROVE Good(e, r)'
  <2>1. CardsOf(e, r) = {}
    BY <1>1 DEF IInv, Good, ToCome
  <2> QED
    BY <1>1, <1>3, <1>4, <2>1, RulesAssumption, QuietIsGood
<1> QED
  BY <1>4, <1>5, <1>6, QuietKeeps

LEMMA ReadCurrentKeeps ==
  ASSUME IInv, NEW e \in Events, NEW r \in Rules, ReadCurrent(e, r)
  PROVE  Kept(e)
<1>1. /\ handler \in [Events -> HandlerStates] /\ HandlerRight(e)
      /\ handler[e].pc = "next" /\ handler[e].at = NoRule /\ r \in handler[e].left
  BY DEF IInv, TypeOK, ReadCurrent, At, HandlerRight, Working
<1> DEFINE left == handler[e].left \ {r}
<1>2. PICK sum \in Values :
        handler' = [handler EXCEPT ![e] =
            [@ EXCEPT !.pc = "prev", !.left = left, !.at = r, !.current = sum]]
  BY DEF ReadCurrent
<1>3. handler'[e] = [handler[e] EXCEPT !.pc = "prev", !.left = left, !.at = r,
                                       !.current = sum]
  <2> HIDE DEF left
  <2> QED
    BY <1>1, <1>2
<1>4. /\ handler'[e] \in HandlerStates /\ handler'[e].pc = "prev"
      /\ handler'[e].at = r /\ handler'[e].left = handler[e].left \ {r}
  BY <1>1, <1>3 DEF HandlerStates, HandlerPcs
<1>5. QuietStep(e)
  BY <1>2, <1>4 DEF ReadCurrent, QuietStep, HandlerGoes, rest
<1>6. HandlerRight(e)'
  BY <1>4 DEF HandlerRight, Working
<1>7. ASSUME NEW s \in Rules PROVE Good(e, s)'
  <2>1. ToCome(e, s)' => CardsOf(e, s) = {}
    BY <1>1, <1>4 DEF IInv, Good, ToCome
  <2>2. Progress(e, s)'
    BY <1>4 DEF Progress
  <2> QED
    BY <1>1, <1>4, <1>5, <2>1, <2>2, RulesAssumption, QuietIsGood
<1> QED
  BY <1>5, <1>6, <1>7, QuietKeeps

LEMMA ReadPrevKeeps ==
  ASSUME IInv, NEW e \in Events, ReadPrev(e)
  PROVE  Kept(e)
<1> DEFINE r == handler[e].at
<1>1. /\ handler \in [Events -> HandlerStates] /\ HandlerRight(e)
      /\ handler[e].pc = "prev" /\ r \in Rules /\ r \notin handler[e].left
  BY DEF IInv, TypeOK, ReadPrev, At, HandlerRight, Working
<1>2a. PICK sum \in Values :
         \E fired \in Evaluate(Settings[r], handler[e].current, sum) :
           handler' = [handler EXCEPT ![e] =
             IF fired THEN [@ EXCEPT !.pc = "card", !.prev = sum]
             ELSE [@ EXCEPT !.pc = "stamp", !.current = 0]]
  BY DEF ReadPrev, Setting
<1>2. PICK fired \in Evaluate(Settings[r], handler[e].current, sum) :
        handler' = [handler EXCEPT ![e] =
              IF fired THEN [@ EXCEPT !.pc = "card", !.prev = sum]
              ELSE [@ EXCEPT !.pc = "stamp", !.current = 0]]
  BY <1>2a
<1>3. IF fired THEN handler'[e] = [handler[e] EXCEPT !.pc = "card", !.prev = sum]
      ELSE handler'[e] = [handler[e] EXCEPT !.pc = "stamp", !.current = 0]
  BY <1>1, <1>2
<1>4. /\ handler'[e] \in HandlerStates /\ handler'[e].at = r
      /\ handler'[e].left = handler[e].left /\ handler'[e].pc \in {"card", "stamp"}
  <2>1. CASE fired
    BY <1>1, <1>3, <2>1 DEF HandlerStates, HandlerPcs
  <2>2. CASE ~fired
    BY <1>1, <1>3, <2>2, ValuesAssumption DEF HandlerStates, HandlerPcs
  <2> QED
    BY <2>1, <2>2
<1>5. handler'[e].pc = "card" =>
        Justified(Settings[r], handler'[e].current, handler'[e].prev)
  <2>1. CASE fired
    <3>1. handler'[e].current = handler[e].current /\ handler'[e].prev = sum
      BY <1>1, <1>3, <2>1 DEF HandlerStates
    <3>2. handler[e].current \in Nat /\ sum \in Nat /\ Settings[r] \in SettingRecords
      BY <1>1, ValuesAssumption, Settling DEF HandlerStates
    <3>3. Justified(Settings[r], handler[e].current, sum)
      BY <2>1, <3>2, FiresWhenJustified, Zenon
    <3> QED
      BY <3>1, <3>3
  <2>2. CASE ~fired
    BY <1>1, <1>3, <2>2 DEF HandlerStates
  <2> QED
    BY <2>1, <2>2
<1>6. QuietStep(e)
  <2>1. handler' = [handler EXCEPT ![e] = handler'[e]]
    BY <1>2, <1>3
  <2> QED
    BY <1>4, <2>1 DEF ReadPrev, QuietStep, HandlerGoes, rest
<1>7. HandlerRight(e)'
  BY <1>1, <1>4 DEF HandlerRight, Working
<1>8. ASSUME NEW s \in Rules PROVE Good(e, s)'
  <2>1. ToCome(e, s)' => CardsOf(e, s) = {}
    BY <1>1, <1>4 DEF IInv, Good, ToCome
  <2>2. handler'[e].at = s => Progress(e, s)'
    <3>1. SUFFICES ASSUME r = s PROVE Progress(e, r)'
      BY <1>4
    <3>2. CardsOf(e, r) = {} /\ <<e, r>> \notin pushes
      BY <1>1 DEF IInv, Good, ToCome
    <3>3. UNCHANGED <<cards, pushes>>
      BY <1>6 DEF QuietStep, out
    <3>4. CardsOf(e, r)' = {} /\ <<e, r>> \notin pushes'
      BY <1>4, <3>2, <3>3 DEF CardsOf
    <3> QED
      BY <1>4, <1>5, <3>4 DEF Progress
  <2> QED
    BY <1>1, <1>4, <1>6, <2>1, <2>2, QuietIsGood
<1> QED
  BY <1>6, <1>7, <1>8, QuietKeeps

LEMMA FollowingFields ==
  ASSUME NEW h \in HandlerStates
  PROVE  /\ Following(h) \in HandlerStates /\ Following(h).pc = "next"
         /\ Following(h).at = NoRule /\ Following(h).left = h.left
<1>1. CASE h.left = {}
  BY <1>1, Records DEF Following, HandlerPcs
<1>2. CASE h.left # {}
  <2>1. Following(h) = [h EXCEPT !.pc = "next", !.at = NoRule]
    BY <1>2 DEF Following
  <2> QED
    BY <2>1 DEF HandlerStates, HandlerPcs
<1> QED
  BY <1>1, <1>2

LEMMA GotoFields ==
  ASSUME IInv, NEW e \in Events, NEW pc \in HandlerPcs, Goto(e, pc)
  PROVE  /\ handler' = [handler EXCEPT ![e] = handler'[e]] /\ handler'[e] \in HandlerStates
         /\ handler'[e].pc = pc /\ handler'[e].at = handler[e].at
         /\ handler'[e].left = handler[e].left
<1>1. handler \in [Events -> HandlerStates]
  BY DEF IInv, TypeOK
<1>2. handler'[e] = [handler[e] EXCEPT !.pc = pc]
  BY <1>1 DEF Goto
<1>3. handler' = [handler EXCEPT ![e] = handler'[e]]
  BY <1>1 DEF Goto
<1> QED
  BY <1>1, <1>2, <1>3 DEF HandlerStates

LEMMA SendMailsKeeps ==
  ASSUME IInv, NEW e \in Events, SendMails(e)
  PROVE  Kept(e)
<1>1. HandlerRight(e) /\ handler[e].pc = "mail" /\ handler[e].at \in Rules
  BY DEF IInv, SendMails, At, HandlerRight, Working
<1>2. /\ handler'[e] \in HandlerStates /\ handler'[e].pc = "push"
      /\ handler'[e].at = handler[e].at /\ handler'[e].left = handler[e].left
      /\ QuietStep(e)
  BY GotoFields DEF SendMails, HandlerPcs, QuietStep, HandlerGoes, rest
<1>3. HandlerRight(e)'
  BY <1>1, <1>2 DEF HandlerRight, Working
<1>4. ASSUME NEW r \in Rules PROVE Good(e, r)'
  <2>1. ToCome(e, r)' => CardsOf(e, r) = {}
    BY <1>1, <1>2 DEF IInv, Good, ToCome
  <2>2. handler'[e].at = r => Progress(e, r)'
    BY <1>1, <1>2 DEF IInv, Good, Progress, QuietStep, out
  <2> QED
    BY <1>1, <1>2, <2>1, <2>2, QuietIsGood
<1> QED
  BY <1>2, <1>3, <1>4, QuietKeeps

LEMMA RestampFailsKeeps ==
  ASSUME IInv, NEW e \in Events, RestampFails(e)
  PROVE  Kept(e)
<1>1. /\ HandlerRight(e) /\ handler[e].pc = "restamp" /\ handler[e].at \in Rules
      /\ handler \in [Events -> HandlerStates]
  BY DEF IInv, TypeOK, RestampFails, At, HandlerRight, Working
<1>2. handler'[e] = Following(handler[e])
  BY <1>1 DEF RestampFails
<1>3. /\ handler'[e] \in HandlerStates /\ handler'[e].pc = "next"
      /\ handler'[e].at = NoRule /\ handler'[e].left = handler[e].left
  BY <1>1, <1>2, FollowingFields
<1>4. QuietStep(e)
  BY <1>2, <1>3 DEF RestampFails, QuietStep, HandlerGoes, rest
<1>5. HandlerRight(e)'
  BY <1>3 DEF HandlerRight, Working
<1>6. ASSUME NEW r \in Rules PROVE Good(e, r)'
  <2>1. ToCome(e, r)' => CardsOf(e, r) = {}
    BY <1>1, <1>3 DEF IInv, Good, ToCome
  <2>2. handler[e].at = r => <<e, r>> \in broken
    BY <1>1 DEF IInv, Good, Progress
  <2> QED
    BY <1>1, <1>3, <1>4, <2>1, <2>2, RulesAssumption, QuietIsGood
<1> QED
  BY <1>4, <1>5, <1>6, QuietKeeps

\* Steps that have an effect.
Effects(e) ==
    /\ cards' \subseteq Cards /\ notices' \subseteq Firings /\ pushes' \subseteq Firings
    /\ broken' \subseteq Firings /\ rule' \in [Rules -> RuleRows]
    /\ StampsKept /\ CardsTellTheTruth'
    /\ \A g \in Events \ {e}, r \in Rules \cup {NoRule} :
         /\ CardsOf(g, r)' = CardsOf(g, r)
         /\ <<g, r>> \in notices' <=> <<g, r>> \in notices
         /\ <<g, r>> \in pushes' <=> <<g, r>> \in pushes
         /\ <<g, r>> \in broken' <=> <<g, r>> \in broken

LEMMA EffectKeeps ==
  ASSUME IInv, NEW e \in Events, HandlerGoes(e), Effects(e),
         HandlerRight(e)', \A r \in Rules : Good(e, r)'
  PROVE  Kept(e)
<1>1. handler \in [Events -> HandlerStates]
  BY DEF IInv, TypeOK
<1>2. TypeOK'
  BY <1>1, FaultBound DEF IInv, TypeOK, Effects, HandlerGoes
<1>3. ASSUME NEW g \in Events \ {e} PROVE SameEvent(g)
  BY <1>1 DEF SameEvent, Effects, HandlerGoes
<1> QED
  BY <1>2, <1>3 DEF Kept, Effects, HandlerGoes

SameOut(e, r) ==
    /\ CardsOf(e, r)' = CardsOf(e, r)
    /\ <<e, r>> \in notices' <=> <<e, r>> \in notices
    /\ <<e, r>> \in pushes' <=> <<e, r>> \in pushes
    /\ <<e, r>> \in broken' <=> <<e, r>> \in broken

\* A rule the handler is not at.
LEMMA OtherRule ==
  ASSUME IInv, NEW e \in Events, NEW r \in Rules, StampsKept, SameOut(e, r),
         handler[e].at # r, handler'[e].at # r, handler[e].pc # "dead",
         ToCome(e, r)' => ToCome(e, r)
  PROVE  Good(e, r)'
<1>1. Good(e, r) /\ (Unfinished(<<e, r>>) => Unfinished(<<e, r>>)')
  BY DEF IInv, Unfinished, SameOut
<1> QED
  BY <1>1 DEF Good, SameOut, StampsKept

\* What no step but SaveCard changes.
LEMMA SameCards ==
  ASSUME IInv, UNCHANGED cards
  PROVE  /\ CardsTellTheTruth' /\ cards' \subseteq Cards
         /\ \A g, r : CardsOf(g, r)' = CardsOf(g, r)
  BY DEF IInv, TypeOK, CardsTellTheTruth, CardsOf

LEMMA SameRule ==
  ASSUME IInv, UNCHANGED <<rule, stale>>
  PROVE  StampsKept /\ rule' \in [Rules -> RuleRows]
  BY DEF IInv, TypeOK, StampsKept, TriggerKept, StampKept, Marked

LEMMA SaveCardKeeps ==
  ASSUME IInv, NEW e \in Events, SaveCard(e)
  PROVE  Kept(e)
<1>0. PICK r \in Rules : handler[e].at = r
  BY DEF IInv, SaveCard, At, HandlerRight, Working
<1> DEFINE s == Settings[r]
           current == handler[e].current
           prev == handler[e].prev
           card == [event |-> e, rule |-> r, op |-> s.op, trend |-> Trend(current, prev),
                    severity |-> DeriveSeverity(s, current, prev)]
<1>1. /\ HandlerRight(e) /\ handler[e].pc = "card" /\ handler[e].at = r
      /\ handler \in [Events -> HandlerStates] /\ r \notin handler[e].left
  BY <1>0 DEF IInv, TypeOK, SaveCard, At, HandlerRight, Working
<1>2. /\ cards' = cards \cup {card} /\ UNCHANGED <<notices, pushes, rule, broken>>
      /\ UNCHANGED <<request, stale, faults>>
  BY <1>0 DEF SaveCard, Setting, rest
<1>3. s \in SettingRecords /\ current \in Nat /\ prev \in Nat /\ Justified(s, current, prev)
  BY <1>1, Settling, ValuesAssumption DEF HandlerStates, IInv, Good, Progress
<1>4. handler'[e] = [handler[e] EXCEPT !.pc = "notice", !.current = 0, !.prev = 0]
  BY <1>1 DEF SaveCard
<1>5. /\ handler'[e] \in HandlerStates /\ handler'[e].pc = "notice"
      /\ handler'[e].at = r /\ handler'[e].left = handler[e].left
  BY <1>1, <1>4, ValuesAssumption DEF HandlerStates, HandlerPcs
<1>6. card \in Cards
  BY <1>1, <1>3, CardFields DEF Cards, SettingRecords
<1>7. /\ card.event = e /\ card.rule = r /\ card.op = s.op
      /\ card.trend = Trend(current, prev)
      /\ card.severity = DeriveSeverity(s, current, prev)
  OBVIOUS
<1> HIDE DEF card
<1>8. HandlerGoes(e)
  BY <1>2, <1>4, <1>5 DEF SaveCard, HandlerGoes
<1>9. CardsTellTheTruth'
  <2>1. /\ AsksForChange(card.rule) =>
              /\ card.op = "pct_drop" => card.trend \in {"fell", "halved"}
              /\ card.op = "pct_rise" => card.trend = "rose"
        /\ card.severity = "critical" <=> card.op = "pct_drop" /\ card.trend = "halved"
    BY <1>3, <1>7, CardFields DEF Justified, AsksForChange
  <2> QED
    BY <1>2, <2>1 DEF IInv, CardsTellTheTruth
<1>10. ASSUME NEW g, NEW p, g # e \/ p # r PROVE CardsOf(g, p)' = CardsOf(g, p)
  BY <1>2, <1>7, <1>10 DEF CardsOf
<1>11. Effects(e)
  <2>1. /\ cards \subseteq Cards /\ notices \subseteq Firings /\ pushes \subseteq Firings
        /\ broken \subseteq Firings
    BY DEF IInv, TypeOK
  <2> QED
    BY <1>2, <1>6, <1>9, <1>10, <2>1, SameRule DEF Effects
<1>12. CardsOf(e, r) = {}
  BY <1>1 DEF IInv, Good, ToCome
<1>13. CardsOf(e, r)' = {card}
  BY <1>2, <1>7, <1>12 DEF CardsOf
<1>14. HandlerRight(e)'
  BY <1>1, <1>5 DEF HandlerRight, Working
<1>15. ASSUME NEW p \in Rules PROVE Good(e, p)'
  <2>1. CASE p = r
    <3>1. <<e, r>> \notin notices' /\ <<e, r>> \notin pushes'
      BY <1>1, <1>2, <1>12 DEF IInv, Good
    <3>2. Unfinished(<<e, r>>)' /\ ~ToCome(e, r)'
      BY <1>1, <1>5 DEF Unfinished, ToCome
    <3>3. Progress(e, r)'
      BY <1>5, <1>13 DEF Progress
    <3> QED
      BY <1>13, <2>1, <3>1, <3>2, <3>3 DEF Good
  <2>2. CASE p # r
    <3>1. SameOut(e, p)
      BY <1>2, <1>10, <2>2 DEF SameOut
    <3>2. ToCome(e, p)' => ToCome(e, p)
      BY <1>5, <2>2 DEF ToCome
    <3> QED
      BY <1>1, <1>2, <1>5, <2>2, <3>1, <3>2, SameRule, OtherRule
  <2> QED
    BY <2>1, <2>2
<1> QED
  BY <1>8, <1>11, <1>14, <1>15, EffectKeeps

\* The rule a working handler is at, and its part of the invariant.
LEMMA AtRule ==
  ASSUME IInv, NEW e \in Events, handler[e].pc \in Working
  PROVE  \E r \in Rules : /\ handler[e].at = r /\ r \notin handler[e].left
                          /\ Good(e, r) /\ Progress(e, r)
  BY DEF IInv, HandlerRight, Good

LEMMA SaveNoticeKeeps ==
  ASSUME IInv, NEW e \in Events, SaveNotice(e)
  PROVE  Kept(e)
<1>1. handler[e].pc = "notice"
  BY DEF SaveNotice, At
<1>2. PICK r \in Rules : /\ handler[e].at = r /\ r \notin handler[e].left
                         /\ Good(e, r) /\ Progress(e, r)
  BY <1>1, AtRule DEF Working
<1>3. /\ notices' = notices \cup {<<e, r>>}
      /\ UNCHANGED <<cards, pushes, rule, broken, request, stale, faults>>
  BY <1>2 DEF SaveNotice, Firing, rest
<1>4. PICK pc \in {"mail", "push"} : Goto(e, pc)
  BY DEF SaveNotice
<1>5. /\ handler'[e] \in HandlerStates /\ handler'[e].pc \in {"mail", "push"}
      /\ handler'[e].at = r /\ handler'[e].left = handler[e].left
      /\ HandlerGoes(e)
  BY <1>2, <1>3, <1>4, GotoFields DEF HandlerPcs, HandlerGoes
<1>6. Effects(e)
  <2>1. notices' \subseteq Firings
    BY <1>3 DEF IInv, TypeOK, Firings
  <2> QED
    BY <1>3, <2>1, SameCards, SameRule DEF Effects, IInv, TypeOK
<1>7. HandlerRight(e)'
  BY <1>2, <1>5 DEF HandlerRight, Working
<1>8. ASSUME NEW p \in Rules PROVE Good(e, p)'
  <2>1. CASE p = r
    <3>1. CardsOf(e, r)' = CardsOf(e, r) /\ CardsOf(e, r) # {}
      BY <1>1, <1>2, <1>3, SameCards DEF Progress
    <3>2. Unfinished(<<e, r>>)' /\ ~ToCome(e, r)'
      BY <1>2, <1>5 DEF Unfinished, ToCome
    <3>3. <<e, r>> \in notices' /\ Progress(e, r)'
      BY <1>3, <1>5 DEF Progress
    <3> QED
      BY <1>2, <2>1, <3>1, <3>2, <3>3 DEF Good
  <2>2. CASE p # r
    <3>1. SameOut(e, p)
      BY <1>3, <2>2, SameCards DEF SameOut
    <3>2. ToCome(e, p)' => ToCome(e, p)
      BY <1>5, <2>2 DEF ToCome
    <3> QED
      BY <1>1, <1>2, <1>3, <1>5, <2>2, <3>1, <3>2, SameRule, OtherRule
  <2> QED
    BY <2>1, <2>2
<1> QED
  BY <1>5, <1>6, <1>7, <1>8, EffectKeeps

LEMMA PushKeeps ==
  ASSUME IInv, NEW e \in Events, Push(e)
  PROVE  Kept(e)
<1>1. handler[e].pc = "push"
  BY DEF Push, At
<1>2. PICK r \in Rules : /\ handler[e].at = r /\ r \notin handler[e].left
                         /\ Good(e, r) /\ Progress(e, r)
  BY <1>1, AtRule DEF Working
<1>3. /\ pushes' = pushes \cup {<<e, r>>} /\ Goto(e, "trigger")
      /\ UNCHANGED <<cards, notices, rule, broken, request, stale, faults>>
  BY <1>2 DEF Push, Firing, rest
<1>4. /\ handler'[e] \in HandlerStates /\ handler'[e].pc = "trigger"
      /\ handler'[e].at = r /\ handler'[e].left = handler[e].left
      /\ HandlerGoes(e)
  BY <1>2, <1>3, GotoFields DEF HandlerPcs, HandlerGoes
<1>5. Effects(e)
  <2>1. pushes' \subseteq Firings
    BY <1>3 DEF IInv, TypeOK, Firings
  <2> QED
    BY <1>3, <2>1, SameCards, SameRule DEF Effects, IInv, TypeOK
<1>6. HandlerRight(e)'
  BY <1>2, <1>4 DEF HandlerRight, Working
<1>7. ASSUME NEW p \in Rules PROVE Good(e, p)'
  <2>1. CASE p = r
    <3>1. CardsOf(e, r)' = CardsOf(e, r) /\ <<e, r>> \in notices'
      BY <1>1, <1>2, <1>3, SameCards DEF Progress
    <3>2. Unfinished(<<e, r>>)' /\ ~ToCome(e, r)'
      BY <1>2, <1>4 DEF Unfinished, ToCome
    <3>3. <<e, r>> \in pushes' /\ Progress(e, r)'
      BY <1>3, <1>4 DEF Progress
    <3> QED
      BY <1>2, <1>3, <2>1, <3>1, <3>2, <3>3 DEF Good
  <2>2. CASE p # r
    <3>1. SameOut(e, p)
      BY <1>3, <2>2, SameCards DEF SameOut
    <3>2. ToCome(e, p)' => ToCome(e, p)
      BY <1>4, <2>2 DEF ToCome
    <3> QED
      BY <1>1, <1>2, <1>3, <1>4, <2>2, <3>1, <3>2, SameRule, OtherRule
  <2> QED
    BY <2>1, <2>2
<1> QED
  BY <1>4, <1>5, <1>6, <1>7, EffectKeeps

\* The stamps.  A row that is gone keeps what it has.
LEMMA StampTriggeredKeeps ==
  ASSUME IInv, NEW e \in Events, StampTriggered(e)
  PROVE  Kept(e)
<1>1. handler[e].pc = "trigger"
  BY DEF StampTriggered, At
<1>2. PICK r \in Rules : /\ handler[e].at = r /\ r \notin handler[e].left
                         /\ Good(e, r) /\ Progress(e, r)
  BY <1>1, AtRule DEF Working
<1>3. /\ rule' = [rule EXCEPT ![r].triggered =
                   IF rule[r].state = "gone" THEN @ ELSE "stamped"]
      /\ Goto(e, "stamp") /\ rule \in [Rules -> RuleRows]
      /\ UNCHANGED <<cards, notices, pushes, broken, request, stale, faults>>
  BY <1>2 DEF StampTriggered, rest, out, IInv, TypeOK
<1>4. /\ handler'[e] \in HandlerStates /\ handler'[e].pc = "stamp"
      /\ handler'[e].at = r /\ handler'[e].left = handler[e].left
      /\ HandlerGoes(e)
  BY <1>2, <1>3, GotoFields DEF HandlerPcs, HandlerGoes
<1>5. rule' \in [Rules -> RuleRows] /\ StampsKept /\ TriggerKept(r)'
  <2>1. /\ rule'[r] \in RuleRows /\ rule'[r].state = rule[r].state
        /\ rule'[r].evaluated = rule[r].evaluated
        /\ rule'[r].state = "gone" \/ rule'[r].triggered = "stamped"
        /\ \A p \in Rules \ {r} : rule'[p] = rule[p]
    BY <1>3 DEF RuleRows
  <2>2. rule' \in [Rules -> RuleRows]
    BY <1>3, <2>1
  <2> QED
    BY <1>3, <2>1, <2>2 DEF StampsKept, TriggerKept, StampKept, Marked
<1>6. Effects(e)
  BY <1>3, <1>5, SameCards DEF Effects, IInv, TypeOK
<1>7. HandlerRight(e)'
  BY <1>2, <1>4 DEF HandlerRight, Working
<1>8. ASSUME NEW p \in Rules PROVE Good(e, p)'
  <2>1. CASE p = r
    <3>1. CardsOf(e, r)' = CardsOf(e, r) /\ <<e, r>> \in pushes'
      BY <1>1, <1>2, <1>3, SameCards DEF Progress
    <3>2. Unfinished(<<e, r>>)' /\ ~ToCome(e, r)'
      BY <1>2, <1>4 DEF Unfinished, ToCome
    <3>3. Progress(e, r)'
      BY <1>4, <1>5, <3>1 DEF Progress
    <3> QED
      BY <1>2, <1>3, <2>1, <3>1, <3>2, <3>3 DEF Good
  <2>2. CASE p # r
    <3>1. SameOut(e, p)
      BY <1>3, <2>2, SameCards DEF SameOut
    <3>2. ToCome(e, p)' => ToCome(e, p)
      BY <1>4, <2>2 DEF ToCome
    <3> QED
      BY <1>1, <1>2, <1>4, <1>5, <2>2, <3>1, <3>2, OtherRule
  <2> QED
    BY <2>1, <2>2
<1> QED
  BY <1>4, <1>6, <1>7, <1>8, EffectKeeps

LEMMA StampEvaluatedKeeps ==
  ASSUME IInv, NEW e \in Events, StampEvaluated(e)
  PROVE  Kept(e)
<1>1. handler[e].pc \in {"stamp", "restamp"}
  BY DEF StampEvaluated
<1>2. PICK r \in Rules : /\ handler[e].at = r /\ r \notin handler[e].left
                         /\ Good(e, r) /\ Progress(e, r)
  BY <1>1, AtRule DEF Working
<1>3. /\ rule' = [rule EXCEPT ![r].evaluated =
                   IF rule[r].state = "gone" THEN @ ELSE "stamped"]
      /\ rule \in [Rules -> RuleRows] /\ handler \in [Events -> HandlerStates]
      /\ UNCHANGED <<cards, notices, pushes, broken, request, stale, faults>>
  BY <1>2 DEF StampEvaluated, rest, out, IInv, TypeOK
<1>4. handler'[e] = Following(handler[e]) /\ handler' = [handler EXCEPT ![e] = handler'[e]]
  BY <1>3 DEF StampEvaluated
<1>5. /\ handler'[e] \in HandlerStates /\ handler'[e].pc = "next"
      /\ handler'[e].at = NoRule /\ handler'[e].left = handler[e].left
      /\ HandlerGoes(e)
  BY <1>3, <1>4, FollowingFields DEF HandlerGoes
<1>6. rule' \in [Rules -> RuleRows] /\ StampsKept /\ StampKept(r)'
  <2>1. /\ rule'[r] \in RuleRows /\ rule'[r].state = rule[r].state
        /\ rule'[r].triggered = rule[r].triggered
        /\ rule'[r].state = "gone" \/ rule'[r].evaluated = "stamped"
        /\ \A p \in Rules \ {r} : rule'[p] = rule[p]
    BY <1>3 DEF RuleRows
  <2>2. rule' \in [Rules -> RuleRows]
    BY <1>3, <2>1
  <2> QED
    BY <1>3, <2>1, <2>2 DEF StampsKept, TriggerKept, StampKept, Marked
<1>7. Effects(e)
  BY <1>3, <1>6, SameCards DEF Effects, IInv, TypeOK
<1>8. HandlerRight(e)'
  BY <1>5 DEF HandlerRight, Working
<1>9. ASSUME NEW p \in Rules PROVE Good(e, p)'
  <2>1. CASE p = r
    <3>1. CardsOf(e, r)' = CardsOf(e, r)
      BY <1>3, SameCards
    <3>2. ~ToCome(e, r)' /\ handler'[e].at # r
      BY <1>2, <1>5, RulesAssumption DEF ToCome
    <3>3. CASE <<e, r>> \in broken
      <4>1. Unfinished(<<e, r>>)'
        BY <1>3, <3>3 DEF Unfinished
      <4> QED
        BY <1>2, <1>3, <2>1, <3>1, <3>2, <4>1 DEF Good
    <3>4. CASE <<e, r>> \notin broken
      <4>1. /\ CardsOf(e, r) # {} => <<e, r>> \in pushes
            /\ <<e, r>> \in pushes => TriggerKept(r)
        BY <1>1, <1>2, <3>4 DEF Progress
      <4>2. <<e, r>> \in pushes => TriggerKept(r)'
        BY <1>6, <4>1 DEF StampsKept
      <4> QED
        BY <1>2, <1>3, <1>6, <2>1, <3>1, <3>2, <4>1, <4>2 DEF Good
    <3> QED
      BY <3>3, <3>4
  <2>2. CASE p # r
    <3>1. SameOut(e, p)
      BY <1>3, <2>2, SameCards DEF SameOut
    <3>2. ToCome(e, p)' => ToCome(e, p)
      BY <1>5, <2>2 DEF ToCome
    <3> QED
      BY <1>1, <1>2, <1>5, <1>6, <2>2, <3>1, <3>2, RulesAssumption, OtherRule
  <2> QED
    BY <2>1, <2>2
<1> QED
  BY <1>5, <1>7, <1>8, <1>9, EffectKeeps

LEMMA EvaluationThrowsKeeps ==
  ASSUME IInv, NEW e \in Events, EvaluationThrows(e)
  PROVE  Kept(e)
<1>1. handler[e].pc \in Working
  BY DEF EvaluationThrows, Working
<1>2. PICK r \in Rules : /\ handler[e].at = r /\ r \notin handler[e].left
                         /\ Good(e, r) /\ Progress(e, r)
  BY <1>1, AtRule
<1>3. /\ broken' = broken \cup {<<e, r>>} /\ Fault
      /\ UNCHANGED <<cards, notices, pushes, rule, request, stale>>
      /\ handler \in [Events -> HandlerStates]
  BY <1>2 DEF EvaluationThrows, Firing, rest, out, IInv, TypeOK
<1>4. /\ handler'[e] = [handler[e] EXCEPT !.pc = "restamp", !.current = 0, !.prev = 0]
      /\ handler' = [handler EXCEPT ![e] = handler'[e]]
  BY <1>3 DEF EvaluationThrows, AfterError
<1>5. /\ handler'[e] \in HandlerStates /\ handler'[e].pc = "restamp"
      /\ handler'[e].at = r /\ handler'[e].left = handler[e].left
      /\ HandlerGoes(e)
  <2>1. handler[e] \in HandlerStates
    BY <1>3
  <2>2. handler'[e] = [handler[e] EXCEPT !.pc = "restamp", !.current = 0, !.prev = 0]
    BY <1>4
  <2>3. /\ handler'[e] \in HandlerStates /\ handler'[e].pc = "restamp"
        /\ handler'[e].at = handler[e].at /\ handler'[e].left = handler[e].left
    BY <2>1, <2>2, ValuesAssumption DEF HandlerStates, HandlerPcs
  <2> QED
    BY <1>2, <1>3, <1>4, <2>3 DEF HandlerGoes
<1>6. Effects(e)
  <2>1. broken' \subseteq Firings
    BY <1>3 DEF IInv, TypeOK, Firings
  <2> QED
    BY <1>3, <2>1, SameCards, SameRule DEF Effects, IInv, TypeOK
<1>7. HandlerRight(e)'
  BY <1>2, <1>5 DEF HandlerRight, Working
<1>8. ASSUME NEW p \in Rules PROVE Good(e, p)'
  <2>1. CASE p = r
    <3>1. CardsOf(e, r)' = CardsOf(e, r) /\ <<e, r>> \in broken'
      BY <1>3, SameCards
    <3>2. Unfinished(<<e, r>>)' /\ ~ToCome(e, r)'
      BY <1>2, <1>5 DEF Unfinished, ToCome
    <3>3. Progress(e, r)'
      BY <1>5, <3>1 DEF Progress
    <3> QED
      BY <1>2, <1>3, <2>1, <3>1, <3>2, <3>3 DEF Good
  <2>2. CASE p # r
    <3>1. SameOut(e, p)
      BY <1>3, <2>2, SameCards DEF SameOut
    <3>2. ToCome(e, p)' => ToCome(e, p)
      BY <1>5, <2>2 DEF ToCome
    <3> QED
      BY <1>1, <1>2, <1>3, <1>5, <2>2, <3>1, <3>2, SameRule, OtherRule DEF Working
  <2> QED
    BY <2>1, <2>2
<1> QED
  BY <1>5, <1>6, <1>7, <1>8, EffectKeeps

\* After the last rule: what is about the event itself concerns no rule.
LEMMA OwnKeeps ==
  ASSUME IInv, NEW e \in Events, handler[e].pc \in {"next", "tell"},
         handler[e].left = {}, NEW pc \in {"tell", "over"}, Goto(e, pc),
         UNCHANGED faults \/ Fault,
         UNCHANGED <<request, stale, cards, rule>>,
         notices' \in {notices, notices \cup {<<e, NoRule>>}},
         pushes' \in {pushes, pushes \cup {<<e, NoRule>>}},
         broken' \in {broken, broken \cup {<<e, NoRule>>}},
         HandlerRight(e)'
  PROVE  Kept(e)
<1>1. handler[e].at = NoRule
  BY DEF IInv, HandlerRight, Working
<1>2. /\ handler'[e] \in HandlerStates /\ handler'[e].pc = pc
      /\ handler'[e].at = NoRule /\ handler'[e].left = {}
      /\ HandlerGoes(e)
  BY <1>1, GotoFields DEF HandlerPcs, HandlerGoes
<1>3. Effects(e)
  <2>1. notices' \subseteq Firings /\ pushes' \subseteq Firings /\ broken' \subseteq Firings
    BY DEF IInv, TypeOK, Firings
  <2>2. \A g \in Events \ {e}, r \in Rules \cup {NoRule} :
           /\ <<g, r>> \in notices' <=> <<g, r>> \in notices
           /\ <<g, r>> \in pushes' <=> <<g, r>> \in pushes
           /\ <<g, r>> \in broken' <=> <<g, r>> \in broken
    OBVIOUS
  <2> QED
    BY <2>1, <2>2, SameCards, SameRule DEF Effects
<1>4. ASSUME NEW p \in Rules PROVE Good(e, p)'
  <2>1. p # NoRule
    BY RulesAssumption
  <2>2. SameOut(e, p)
    BY <2>1, SameCards DEF SameOut
  <2>3. ~ToCome(e, p)'
    BY <1>2, <2>1 DEF ToCome
  <2> QED
    BY <1>1, <1>2, <2>1, <2>2, <2>3, SameRule, OtherRule
<1> QED
  BY <1>2, <1>3, <1>4, EffectKeeps

LEMMA TellsKeep ==
  ASSUME IInv, NEW e \in Events, StoreNotice(e) \/ Tell(e) \/ TellingFails(e)
  PROVE  Kept(e)
<1>1. handler[e].pc \in {"next", "tell"} /\ handler[e].left = {} /\ HandlerRight(e)
  BY DEF StoreNotice, Tell, TellingFails, Evaluated, At, IInv, HandlerRight
<1>2. handler[e].at = NoRule
  BY <1>1 DEF HandlerRight, Working
<1>3. ASSUME NEW pc \in {"tell", "over"}, Goto(e, pc)
      PROVE  handler'[e].pc = pc /\ handler'[e].at = NoRule /\ handler'[e].left = {}
  BY <1>1, <1>2, <1>3, GotoFields DEF HandlerPcs
<1>4. CASE StoreNotice(e)
  <2>1. /\ notices' = notices \cup {<<e, NoRule>>} /\ Goto(e, "tell")
        /\ UNCHANGED <<request, stale, cards, pushes, rule, broken, faults>>
    BY <1>4 DEF StoreNotice, rest
  <2>2. HandlerRight(e)'
    BY <1>3, <2>1 DEF HandlerRight, Working
  <2> QED
    BY <1>1, <2>1, <2>2, OwnKeeps
<1>5. CASE Tell(e)
  <2>1. /\ pushes' = pushes \cup {<<e, NoRule>>} /\ Goto(e, "over")
        /\ UNCHANGED <<request, stale, cards, notices, rule, broken, faults>>
        /\ handler[e].pc = "tell"
    BY <1>5 DEF Tell, rest, At
  <2>2. HandlerRight(e)'
    BY <1>1, <1>3, <2>1 DEF HandlerRight, Working
  <2> QED
    BY <1>1, <2>1, <2>2, OwnKeeps
<1>6. CASE TellingFails(e)
  <2>1. /\ broken' = broken \cup {<<e, NoRule>>} /\ Fault
        /\ UNCHANGED <<request, stale, cards, notices, pushes, rule>>
    BY <1>6 DEF TellingFails, rest, out
  <2>2. PICK pc \in {"tell", "over"} : Goto(e, pc)
    BY <1>6 DEF TellingFails
  <2>3. HandlerRight(e)'
    BY <1>3, <2>1, <2>2 DEF HandlerRight, Working
  <2> QED
    BY <1>1, <2>1, <2>2, <2>3, OwnKeeps
<1> QED
  BY <1>4, <1>5, <1>6

-----------------------------------------------------------------------------
(* Requests and crashes *)

LEMMA ServeKeeps ==
  ASSUME IInv, NEW q \in Requests, Serve(q)
  PROVE  IInv'
<1>1. /\ request \in [Requests -> RequestStates] /\ rule \in [Rules -> RuleRows]
      /\ RequestRight(q)
  BY DEF IInv, TypeOK
<1>2. UNCHANGED <<handler, cards, notices, pushes, broken, faults>>
  BY DEF Serve, BeginEdit, SaveEdit, BeginDelete, RemoveRule, out
<1> DEFINE RequestsOK == /\ request' \in [Requests -> RequestStates]
                         /\ \A p \in Requests : RequestRight(p)'
           RulesOK == rule' \in [Rules -> RuleRows] /\ stale' \subseteq Rules /\ StampsKept
<1>3. ASSUME NEW state \in RequestStates, request' = [request EXCEPT ![q] = state],
             state.pc \in {"save", "remove"} => state.at \in Rules
      PROVE  RequestsOK
  BY <1>1, <1>3 DEF IInv, RequestRight
<1>4. UNCHANGED <<rule, stale>> => RulesOK
  BY SameRule DEF IInv, TypeOK
<1>5. ASSUME NEW r \in Rules, BeginEdit(q, r) PROVE RequestsOK /\ RulesOK
  <2>1. PICK state \in {"on", "off"} :
          request' = [request EXCEPT ![q] =
            [pc |-> "save", at |-> r, copy |-> [rule[r] EXCEPT !.state = state]]]
    BY <1>5 DEF BeginEdit
  <2>2. [rule[r] EXCEPT !.state = state] \in RuleRows
    BY <1>1 DEF RuleRows
  <2>3. [pc |-> "save", at |-> r, copy |-> [rule[r] EXCEPT !.state = state]] \in RequestStates
    BY <2>2 DEF RequestStates
  <2> QED
    BY <1>3, <1>4, <1>5, <2>1, <2>3 DEF BeginEdit
<1>6. ASSUME NEW r \in Rules, BeginDelete(q, r) PROVE RequestsOK /\ RulesOK
  <2>1. request'[q] = [request[q] EXCEPT !.pc = "remove", !.at = r]
    BY <1>1, <1>6 DEF BeginDelete
  <2>2. request'[q] \in RequestStates /\ request'[q].at \in Rules
    BY <1>1, <2>1 DEF RequestStates
  <2>3. request' = [request EXCEPT ![q] = request'[q]]
    BY <1>1, <1>6 DEF BeginDelete
  <2> QED
    BY <1>3, <1>4, <1>6, <2>2, <2>3 DEF BeginDelete
<1>7. [NewRequest EXCEPT !.pc = "over"].pc = "over"
  BY DEF NewRequest
<1>8. ASSUME SaveEdit(q) PROVE RequestsOK /\ RulesOK
  <2>1. PICK r \in Rules : request[q].at = r
    BY <1>1, <1>8 DEF SaveEdit, RequestRight
  <2>2. /\ rule' = [rule EXCEPT ![r] = request[q].copy]
        /\ stale' = IF \/ rule[r].state = "gone"
                       \/ request[q].copy.evaluated # rule[r].evaluated
                       \/ request[q].copy.triggered # rule[r].triggered
                    THEN stale \cup {r} ELSE stale
    BY <1>8, <2>1 DEF SaveEdit
  <2>3. request[q].copy \in RuleRows
    BY <1>1 DEF RequestStates
  <2>4. rule' \in [Rules -> RuleRows] /\ stale' \subseteq Rules
    BY <1>1, <2>2, <2>3 DEF IInv, TypeOK
  <2>5. StampsKept
    BY <1>1, <2>2 DEF StampsKept, TriggerKept, StampKept, Marked
  <2> QED
    BY <1>3, <1>7, <1>8, <2>4, <2>5, Records DEF SaveEdit
<1>9. ASSUME RemoveRule(q) PROVE RequestsOK /\ RulesOK
  <2>1. PICK r \in Rules : request[q].at = r
    BY <1>1, <1>9 DEF RemoveRule, RequestRight
  <2>2. rule' = [rule EXCEPT ![r] = [FreshRow EXCEPT !.state = "gone"]] /\ UNCHANGED stale
    BY <1>9, <2>1 DEF RemoveRule
  <2>3. [FreshRow EXCEPT !.state = "gone"].state = "gone"
    BY DEF FreshRow
  <2>4. rule' \in [Rules -> RuleRows] /\ stale' \subseteq Rules
    BY <1>1, <2>2, Records DEF IInv, TypeOK
  <2>5. StampsKept
    BY <1>1, <2>2, <2>3 DEF StampsKept, TriggerKept, StampKept, Marked
  <2> QED
    BY <1>3, <1>7, <1>9, <2>4, <2>5, Records DEF RemoveRule
<1>10. RequestsOK /\ RulesOK
  BY <1>5, <1>6, <1>8, <1>9 DEF Serve
<1>11. TypeOK'
  BY <1>2, <1>10 DEF IInv, TypeOK
<1>12. ASSUME NEW e \in Events PROVE HandlerRight(e)' /\ \A r \in Rules : Good(e, r)'
  <2>1. SameEvent(e)
    BY <1>2, SameCards DEF SameEvent
  <2> QED
    BY <1>10, <2>1, SameIsGood DEF IInv
<1> QED
  BY <1>2, <1>10, <1>11, <1>12, SameCards DEF IInv

LEMMA CrashKeeps ==
  ASSUME IInv, Crash
  PROVE  IInv'
<1>1. /\ request \in [Requests -> RequestStates] /\ handler \in [Events -> HandlerStates]
      /\ UNCHANGED <<cards, notices, pushes, rule, broken, stale>> /\ Fault
  BY DEF IInv, TypeOK, Crash, out
<1> DEFINE dead == [NewHandler EXCEPT !.pc = "dead"]
           ended == [NewRequest EXCEPT !.pc = "over"]
<1>2. dead \in HandlerStates /\ dead.pc = "dead" /\ dead.at = NoRule /\ dead.left = {}
  BY Records DEF HandlerPcs
<1>3. ended \in RequestStates /\ ended.pc = "over"
  BY Records DEF NewRequest
<1>4. \A e \in Events : handler'[e] = IF InFlight(e) THEN dead ELSE handler[e]
  BY DEF Crash
<1>5. \A q \in Requests : request'[q] = IF request[q].pc = "none" THEN request[q] ELSE ended
  BY DEF Crash
<1>6. handler' \in [Events -> HandlerStates] /\ request' \in [Requests -> RequestStates]
  <2>1. \A e \in Events : (IF InFlight(e) THEN dead ELSE handler[e]) \in HandlerStates
    BY <1>1, <1>2
  <2>2. \A q \in Requests :
          (IF request[q].pc = "none" THEN request[q] ELSE ended) \in RequestStates
    BY <1>1, <1>3
  <2> QED
    BY <2>1, <2>2 DEF Crash
<1> HIDE DEF dead, ended
<1>7. TypeOK'
  BY <1>1, <1>6, FaultBound DEF IInv, TypeOK
<1>8. \A q \in Requests : RequestRight(q)'
  BY <1>3, <1>5 DEF IInv, RequestRight
<1>9. StampsKept
  BY <1>1, SameRule
<1>10. ASSUME NEW e \in Events PROVE HandlerRight(e)' /\ \A r \in Rules : Good(e, r)'
  <2>1. CASE InFlight(e)
    <3>1. handler'[e].pc = "dead" /\ handler'[e].at = NoRule /\ handler'[e].left = {}
      BY <1>2, <1>4, <2>1
    <3>2. HandlerRight(e)'
      BY <3>1 DEF HandlerRight, Working
    <3>3. ASSUME NEW r \in Rules PROVE Good(e, r)'
      <4>1. Good(e, r) /\ CardsOf(e, r)' = CardsOf(e, r)
        BY <1>1, SameCards DEF IInv
      <4>2. Unfinished(<<e, r>>)' /\ ~ToCome(e, r)' /\ handler'[e].at # r
        BY <3>1, RulesAssumption DEF Unfinished, ToCome
      <4> QED
        BY <1>1, <4>1, <4>2 DEF Good
    <3> QED
      BY <3>2, <3>3
  <2>2. CASE ~InFlight(e)
    <3>1. SameEvent(e)
      BY <1>1, <1>4, <2>2, SameCards DEF SameEvent
    <3> QED
      BY <1>9, <3>1, SameIsGood DEF IInv
  <2> QED
    BY <2>1, <2>2
<1> QED
  BY <1>1, <1>7, <1>8, <1>10, SameCards DEF IInv

LEMMA HandlesKeep ==
  ASSUME IInv, NEW e \in Events, LoadRules(e) \/ LoadFails(e) \/ Handle(e)
  PROVE  Kept(e)
<1>1. ASSUME NEW r \in Rules, ReadCurrent(e, r) PROVE Kept(e)
  BY <1>1, ReadCurrentKeeps
<1>2. ASSUME \/ LoadRules(e) \/ LoadFails(e) \/ ReadPrev(e) \/ SendMails(e)
             \/ RestampFails(e)
      PROVE  Kept(e)
  BY <1>2, LoadRulesKeeps, LoadFailsKeeps, ReadPrevKeeps, SendMailsKeeps, RestampFailsKeeps
<1>3. ASSUME \/ SaveCard(e) \/ SaveNotice(e) \/ Push(e) \/ StampTriggered(e)
             \/ StampEvaluated(e) \/ EvaluationThrows(e)
      PROVE  Kept(e)
  BY <1>3, SaveCardKeeps, SaveNoticeKeeps, PushKeeps, StampTriggeredKeeps,
     StampEvaluatedKeeps, EvaluationThrowsKeeps
<1>4. ASSUME StoreNotice(e) \/ Tell(e) \/ TellingFails(e) PROVE Kept(e)
  BY <1>4, TellsKeep
<1> QED
  BY <1>1, <1>2, <1>3, <1>4 DEF Handle

LEMMA StepIInv == IInv /\ [Next]_vars => IInv'
<1> SUFFICES ASSUME IInv, [Next]_vars PROVE IInv'
  OBVIOUS
<1>1. ASSUME NEW e \in Events, LoadRules(e) \/ LoadFails(e) \/ Handle(e) PROVE IInv'
  <2>1. Kept(e)
    BY <1>1, HandlesKeep
  <2>2. ASSUME NEW g \in Events PROVE HandlerRight(g)' /\ \A r \in Rules : Good(g, r)'
    <3>1. CASE g = e
      BY <2>1, <3>1 DEF Kept
    <3>2. CASE g # e
      <4>1. SameEvent(g) /\ StampsKept
        BY <2>1, <3>2 DEF Kept
      <4> QED
        BY <4>1, SameIsGood DEF IInv
    <3> QED
      BY <3>1, <3>2
  <2>3. \A q \in Requests : RequestRight(q)'
    BY <2>1 DEF Kept, IInv, RequestRight
  <2> QED
    BY <2>1, <2>2, <2>3 DEF Kept, IInv
<1>2. ASSUME NEW q \in Requests, Serve(q) PROVE IInv'
  BY <1>2, ServeKeeps
<1>3. CASE Crash
  BY <1>3, CrashKeeps
<1>4. CASE UNCHANGED vars
  <2>1. ASSUME NEW e \in Events PROVE HandlerRight(e)' /\ \A r \in Rules : Good(e, r)'
    <3>1. SameEvent(e) /\ StampsKept
      BY <1>4, SameCards, SameRule DEF vars, SameEvent
    <3> QED
      BY <3>1, SameIsGood DEF IInv
  <2>2. TypeOK' /\ CardsTellTheTruth' /\ \A q \in Requests : RequestRight(q)'
    BY <1>4 DEF vars, IInv, TypeOK, CardsTellTheTruth, RequestRight
  <2> QED
    BY <2>1, <2>2 DEF IInv
<1> QED
  BY <1>1, <1>2, <1>3, <1>4 DEF Next

LEMMA CardedHasCard ==
  ASSUME NEW e, NEW r
  PROVE  Carded(<<e, r>>) <=> CardsOf(e, r) # {}
  BY DEF Carded, CardsOf

LEMMA EffectsBelongTogether == IInv => FiringLeavesAll
<1> SUFFICES ASSUME IInv, NEW e \in Events, NEW r \in Rules
             PROVE  LET f == <<e, r>>
                    IN  /\ f \in pushes => f \in notices
                        /\ f \in notices => Carded(f)
                        /\ Carded(f) => f \in pushes \/ Unfinished(f)
                        /\ f \in pushes => \/ Unfinished(f)
                                           \/ r \in stale \/ rule[r].state = "gone"
                                           \/ /\ rule[r].triggered = "stamped"
                                              /\ rule[r].evaluated = "stamped"
                        /\ Cardinality(CardsOf(e, r)) <= 1
  BY DEF FiringLeavesAll, CardsOf
<1>1. Good(e, r)
  BY DEF IInv
<1>2. Cardinality(CardsOf(e, r)) <= 1
  <2>1. CASE CardsOf(e, r) = {}
    BY <2>1, FS_EmptySet
  <2>2. ASSUME NEW c \in CardsOf(e, r) PROVE Cardinality(CardsOf(e, r)) <= 1
    <3>1. CardsOf(e, r) = {c}
      BY <1>1, <2>2 DEF Good
    <3>2. Cardinality({c}) = 1
      BY FS_Singleton
    <3> QED
      BY <3>1, <3>2
  <2> QED
    BY <2>1, <2>2
<1> QED
  BY <1>1, <1>2, CardedHasCard DEF Good, TriggerKept, StampKept, Marked

LEMMA HandledIsHandled == IInv => EveryEventIsHandled
  BY DEF IInv, HandlerRight, EveryEventIsHandled

-----------------------------------------------------------------------------
(* Theorems *)

LEMMA Inductive == Spec => []IInv
  BY InitIInv, StepIInv, PTL DEF Spec

\* Rules, handlers, requests and what they leave behind have their types; the
\* severity of a card is one of the enum.
THEOREM AlertsTypeCorrect == Spec => []TypeOK
<1>1. IInv => TypeOK
  BY DEF IInv
<1> QED
  BY <1>1, Inductive, PTL

\* Card, notification, push and stamps of a rule that fires belong together,
\* whatever other events, edits, deletions, errors and crashes come between.
THEOREM FiringsAreWhole == Spec => []FiringLeavesAll
  BY Inductive, EffectsBelongTogether, PTL

\* What deriveSeverity and evaluate make a card say is so, for any sums and any
\* thresholds, those below zero included as far as it goes for them.
THEOREM CardsAreTrue == Spec => []CardsTellTheTruth
<1>1. IInv => CardsTellTheTruth
  BY DEF IInv
<1> QED
  BY <1>1, Inductive, PTL

\* handle goes through all rules and its own notification, however many awaits
\* of its evaluations throw.
THEOREM EventsAreHandled == Spec => []EveryEventIsHandled
  BY Inductive, HandledIsHandled, PTL
=============================================================================
