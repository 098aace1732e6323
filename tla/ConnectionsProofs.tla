-------------------------- MODULE ConnectionsProofs --------------------------
(***************************************************************************)
(* Proofs, for any workspaces, pages, links and confirmations and any      *)
(* number of failures, of what Connections promises: only what was granted *)
(* and chosen is connected, an answer means the whole selection, and the   *)
(* hand-over implements Offers.                                            *)
(***************************************************************************)
EXTENDS Connections, TLAPS

-----------------------------------------------------------------------------
(* The inductive invariant *)

\* Nothing is on offer before the callback, and there is no entry before its
\* end; only LinkedIn and TikTok are connected by it.
FlowInv ==
    \A f \in Flows :
      /\ flow[f].pc \in {"none", "linked"} => flow[f].offered = {}
      /\ flow[f].pc # "over" => entry[f] = "none"
      /\ flow[f].pc \in {"linked", "store", "connect"} => flow[f].workspace \in Workspaces
      /\ flow[f].pc = "connect" => flow[f].platform \notin MetaPlatforms

\* What request q has to connect of its selection, and what it has connected.
ToDo(q) == Selected(request[q].flow, request[q].asked)
RowOf(q, profile) == Key(request[q].workspace, flow[request[q].flow].platform, profile)

\* The states of a confirmation under way.
Busy == {"connect", "spend", "answer"}

\* A confirmation works on an entry of its own workspace; what it has left, or had
\* when it failed, is part of its selection and the rest has been connected.
RequestInv ==
    \A q \in Requests :
      /\ request[q].pc = "none" => request[q].flow = NoFlow
      /\ request[q].pc \in Busy \cup {"done"} => request[q].flow \in Flows
      /\ request[q].flow \in Flows =>
            /\ entry[request[q].flow] # "none"
            /\ request[q].workspace \in Workspaces
            /\ request[q].workspace = flow[request[q].flow].workspace
            /\ request[q].left \subseteq ToDo(q)
            /\ \A profile \in ToDo(q) \ request[q].left : row[RowOf(q, profile)] # "none"
      /\ request[q].pc \in {"spend", "answer", "done"} => request[q].left = {}
      /\ request[q].pc \in {"answer", "done"} => entry[request[q].flow] # "present"

SpentInv ==
    \A f \in Flows : entry[f] = "spent" =>
      \E q \in Requests : request[q].flow = f /\ request[q].left = {}

IInv == TypeOK /\ FlowInv /\ RequestInv /\ SpentInv /\ OnlyChosen

\* What no step takes back: the grant of a flow once its profiles are known, a
\* row once it was written, an entry once stored, what a request asked for, and
\* that it has nothing left.
Stays ==
    /\ \A f \in Flows :
         /\ flow[f].offered # {} \/ flow[f].pc = "over" =>
              /\ flow'[f].offered = flow[f].offered
              /\ flow'[f].workspace = flow[f].workspace
              /\ flow'[f].platform = flow[f].platform
         /\ flow[f].pc = "over" => flow'[f].pc = "over"
         /\ entry[f] # "none" => entry'[f] # "none"
         /\ entry[f] \in {"spent", "expired"} => entry'[f] = entry[f]
    /\ \A k \in Keys : row[k] # "none" => row'[k] # "none"
    /\ \A q \in Requests :
         /\ request[q].flow \in Flows =>
              /\ request'[q].flow = request[q].flow
              /\ request'[q].workspace = request[q].workspace
              /\ request'[q].asked = request[q].asked
              /\ request[q].left = {} => request'[q].left = {}

LEMMA Records ==
    /\ NewFlow \in FlowStates /\ Dropped \in FlowStates
    /\ NewRequest \in RequestStates /\ Refused \in RequestStates
    /\ Dropped.pc = "over" /\ Dropped.offered = {}
    /\ Refused.pc = "refused" /\ Refused.flow = NoFlow
  BY DEF NewFlow, Dropped, NewRequest, Refused, FlowStates, RequestStates, FlowPcs,
         Platforms, MetaPlatforms

LEMMA KeyIsKey ==
  ASSUME NEW w \in Workspaces, NEW platform \in Platforms, NEW profile \in Profiles
  PROVE  Key(w, platform, profile) \in Keys
  BY DEF Key, Keys

LEMMA InitIInv == Init => IInv
<1> SUFFICES ASSUME Init PROVE IInv
  OBVIOUS
<1>1. TypeOK
  BY Records, MaxFaultsAssumption DEF Init, TypeOK, RowStates, EntryStates
<1>2. FlowInv
  BY DEF Init, FlowInv, NewFlow
<1>3. RequestInv
  BY FieldsAssumption DEF Init, RequestInv, NewRequest, Busy
<1>4. SpentInv /\ OnlyChosen
  BY DEF Init, SpentInv, OnlyChosen
<1> QED
  BY <1>1, <1>2, <1>3, <1>4 DEF IInv

-----------------------------------------------------------------------------
(* What stays *)

\* A link, or the run of its callback, changes one flow only; one that is over
\* stays over, and profiles become known once.
FlowStep(f) ==
    /\ flow[f].pc # "over" /\ flow' = [flow EXCEPT ![f] = flow'[f]]
    /\ flow'[f] \in FlowStates
    /\ flow[f].offered # {} =>
         /\ flow'[f].offered = flow[f].offered
         /\ flow'[f].workspace = flow[f].workspace
         /\ flow'[f].platform = flow[f].platform

LEMMA FlowSteps ==
  ASSUME IInv, NEW f \in Flows,
         \/ \E w \in Workspaces, platform \in Platforms : GetOAuthUrl(f, w, platform)
         \/ Callback(f)
  PROVE  FlowStep(f) /\ UNCHANGED request
<1> DEFINE fl == flow[f]
<1>1. fl \in FlowStates /\ flow \in [Flows -> FlowStates]
  BY DEF IInv, TypeOK
<1>2. fl.pc \in {"none", "linked"} => fl.offered = {}
  BY DEF IInv, FlowInv
<1>3. ASSUME NEW w \in Workspaces, NEW platform \in Platforms, GetOAuthUrl(f, w, platform)
      PROVE  FlowStep(f) /\ UNCHANGED request
  <2>1. [fl EXCEPT !.pc = "linked", !.workspace = w, !.platform = platform] \in FlowStates
    BY <1>1 DEF FlowStates, FlowPcs
  <2> QED
    BY <1>1, <1>2, <1>3, <2>1 DEF GetOAuthUrl, FlowStep
<1>4. CASE StateExpires(f)
  BY <1>1, <1>2, <1>4, Records DEF StateExpires, FlowStep
<1>5. CASE FetchPages(f)
  <2>1. PICK pages \in SUBSET Pages :
          flow' = [flow EXCEPT ![f] =
            IF MetaCandidates(fl.platform, pages) = {} THEN Dropped
            ELSE [fl EXCEPT !.pc = "store", !.offered = MetaCandidates(fl.platform, pages)]]
    BY <1>5 DEF FetchPages
  <2>2. MetaCandidates(fl.platform, pages) \subseteq Profiles
    BY DEF MetaCandidates, Profiles
  <2>3. [fl EXCEPT !.pc = "store", !.offered = MetaCandidates(fl.platform, pages)]
          \in FlowStates
    BY <1>1, <2>2 DEF FlowStates, FlowPcs
  <2> QED
    BY <1>1, <1>2, <1>5, <2>1, <2>3, Records DEF FetchPages, FlowStep
<1>6. CASE StoreMetaCandidates(f)
  BY <1>1, <1>6 DEF StoreMetaCandidates, FlowStep, FlowStates, FlowPcs
<1>7. CASE FetchProfile(f)
  <2>1. ASSUME NEW member \in Members
        PROVE  [fl EXCEPT !.pc = "connect", !.offered = {member}] \in FlowStates
    BY <1>1 DEF FlowStates, FlowPcs, Profiles
  <2> QED
    BY <1>1, <1>2, <1>7, <2>1, Records DEF FetchProfile, FlowStep
<1>8. CASE ConnectProfile(f)
  BY <1>1, <1>8 DEF ConnectProfile, FlowStep, FlowStates, FlowPcs
<1>9. CASE CallbackFails(f)
  BY <1>1, <1>9 DEF CallbackFails, FlowStep, FlowStates, FlowPcs
<1> QED
  BY <1>3, <1>4, <1>5, <1>6, <1>7, <1>8, <1>9 DEF Callback

\* A confirmation changes one request only, and its question never.
RequestStep(q) ==
    /\ request' = [request EXCEPT ![q] = request'[q]]
    /\ request'[q] \in RequestStates
    /\ request[q].flow \in Flows =>
         /\ request'[q].flow = request[q].flow
         /\ request'[q].workspace = request[q].workspace
         /\ request'[q].asked = request[q].asked
         /\ request[q].left = {} => request'[q].left = {}

LEMMA AfterFields ==
  ASSUME NEW req \in RequestStates, NEW profile
  PROVE  /\ After(req, profile) \in RequestStates
         /\ After(req, profile).flow = req.flow
         /\ After(req, profile).workspace = req.workspace
         /\ After(req, profile).asked = req.asked
         /\ After(req, profile).left = req.left \ {profile}
         /\ After(req, profile).pc =
              IF req.left = {profile} THEN "spend" ELSE "connect"
<1>1. CASE req.left = {profile}
  BY <1>1 DEF After, RequestStates
<1>2. CASE req.left # {profile}
  BY <1>2 DEF After, RequestStates
<1> QED
  BY <1>1, <1>2

LEMMA RequestSteps ==
  ASSUME IInv, NEW q \in Requests, Confirm(q)
  PROVE  RequestStep(q) /\ UNCHANGED flow
<1> DEFINE req == request[q]
<1>1. req \in RequestStates /\ request \in [Requests -> RequestStates]
  BY DEF IInv, TypeOK
<1>2. req.pc = "none" => req.flow \notin Flows
  BY FieldsAssumption DEF IInv, RequestInv
<1>3. ASSUME NEW f \in Flows, NEW w \in Workspaces, NEW asked \in Selections,
             BeginConfirm(q, f, w, asked)
      PROVE  RequestStep(q) /\ UNCHANGED flow
  <2>1. asked \subseteq Profiles /\ Selected(f, asked) \subseteq Profiles
    BY SelectionsAssumption DEF Selected
  <2>2. [pc |-> "connect", flow |-> f, workspace |-> w, asked |-> asked,
         left |-> Selected(f, asked)] \in RequestStates
    BY <2>1 DEF RequestStates
  <2> QED
    BY <1>1, <1>2, <1>3, <2>2, Records DEF BeginConfirm, RequestStep
<1>4. CASE ConfirmOne(q)
  <2>1. PICK profile \in req.left : request' = [request EXCEPT ![q] = After(@, profile)]
    BY <1>4 DEF ConfirmOne
  <2>2. req.pc = "connect" /\ UNCHANGED flow
    BY <1>4 DEF ConfirmOne
  <2>3. request'[q] = After(req, profile)
    BY <1>1, <2>1
  <2>4. /\ request'[q] \in RequestStates
        /\ request'[q].flow = req.flow /\ request'[q].workspace = req.workspace
        /\ request'[q].asked = req.asked /\ req.left # {}
    BY <1>1, <2>1, <2>3, AfterFields
  <2> QED
    BY <1>1, <2>1, <2>2, <2>3, <2>4 DEF RequestStep
<1>5. CASE SpendEntry(q)
  BY <1>1, <1>5 DEF SpendEntry, RequestStep, RequestStates
<1>6. CASE Answer(q)
  BY <1>1, <1>6 DEF Answer, RequestStep, RequestStates
<1>7. CASE ConfirmFails(q)
  BY <1>1, <1>7 DEF ConfirmFails, FailedConfirm, RequestStep, RequestStates
<1> QED
  BY <1>3, <1>4, <1>5, <1>6, <1>7 DEF Confirm

\* A crash ends what is under way.
LEMMA CrashEffect ==
  ASSUME IInv, Crash
  PROVE  /\ UNCHANGED <<row, entry>>
         /\ flow' \in [Flows -> FlowStates] /\ request' \in [Requests -> RequestStates]
         /\ \A f \in Flows :
              /\ flow'[f].workspace = flow[f].workspace
              /\ flow'[f].platform = flow[f].platform
              /\ flow'[f].offered = flow[f].offered
              /\ flow'[f].pc = IF flow[f].pc \in {"store", "connect"} THEN "over"
                               ELSE flow[f].pc
         /\ \A q \in Requests :
              /\ request'[q].flow = request[q].flow
              /\ request'[q].workspace = request[q].workspace
              /\ request'[q].asked = request[q].asked
              /\ request'[q].left = request[q].left
              /\ IF request[q].pc \in Busy THEN request'[q].pc = "failed"
                 ELSE request'[q] = request[q]
<1>1. flow \in [Flows -> FlowStates] /\ request \in [Requests -> RequestStates]
  BY DEF IInv, TypeOK
<1>2. \A f \in Flows : [flow[f] EXCEPT !.pc = "over"] \in FlowStates
  BY <1>1 DEF FlowStates, FlowPcs
<1>3. \A q \in Requests : [request[q] EXCEPT !.pc = "failed"] \in RequestStates
  BY <1>1 DEF RequestStates
<1>4. flow' \in [Flows -> FlowStates] /\ request' \in [Requests -> RequestStates]
  BY <1>1, <1>2, <1>3 DEF Crash
<1>5. \A f \in Flows :
              /\ flow'[f].workspace = flow[f].workspace
              /\ flow'[f].platform = flow[f].platform
              /\ flow'[f].offered = flow[f].offered
              /\ flow'[f].pc = IF flow[f].pc \in {"store", "connect"} THEN "over"
                               ELSE flow[f].pc
  BY <1>1 DEF Crash, FlowStates
<1>6. \A q \in Requests :
              /\ request'[q].flow = request[q].flow
              /\ request'[q].workspace = request[q].workspace
              /\ request'[q].asked = request[q].asked
              /\ request'[q].left = request[q].left
              /\ IF request[q].pc \in Busy THEN request'[q].pc = "failed"
                 ELSE request'[q] = request[q]
  BY <1>1 DEF Crash, RequestStates, Busy
<1> QED
  BY <1>4, <1>5, <1>6 DEF Crash

\* Rows and entries move one way, but for a disconnection and a new connection.
LEMMA RowsAndEntries ==
  ASSUME IInv, Next
  PROVE  /\ row' \in [Keys -> RowStates] /\ entry' \in [Flows -> EntryStates]
         /\ \A k \in Keys : row[k] # "none" => row'[k] # "none"
         /\ \A f \in Flows : /\ entry[f] # "none" => entry'[f] # "none"
                             /\ entry[f] \in {"spent", "expired"} => entry'[f] = entry[f]
<1>1. row \in [Keys -> RowStates] /\ entry \in [Flows -> EntryStates]
  BY DEF IInv, TypeOK
<1>2. \A f \in Flows : flow[f].pc # "over" => entry[f] = "none"
  BY DEF IInv, FlowInv
<1> DEFINE RowsOK == /\ row' \in [Keys -> RowStates]
                     /\ \A k \in Keys : row[k] # "none" => row'[k] # "none"
           EntriesOK ==
             /\ entry' \in [Flows -> EntryStates]
             /\ \A f \in Flows : /\ entry[f] # "none" => entry'[f] # "none"
                                 /\ entry[f] \in {"spent", "expired"} => entry'[f] = entry[f]
<1>3. UNCHANGED row => RowsOK
  BY <1>1
<1>4. UNCHANGED entry => EntriesOK
  BY <1>1
<1>5. ASSUME NEW w, NEW platform, NEW profile, UpsertConnection(w, platform, profile)
      PROVE  RowsOK
  BY <1>1, <1>5 DEF UpsertConnection, RowStates
<1>6. ASSUME NEW f \in Flows, NEW w, NEW platform, GetOAuthUrl(f, w, platform)
      PROVE  RowsOK /\ EntriesOK
  BY <1>3, <1>4, <1>6 DEF GetOAuthUrl
<1>7. ASSUME NEW f \in Flows, Callback(f) PROVE RowsOK /\ EntriesOK
  <2>1. CASE StoreMetaCandidates(f)
    BY <1>1, <1>2, <1>3, <2>1 DEF StoreMetaCandidates, EntryStates
  <2>2. CASE ConnectProfile(f)
    BY <1>4, <1>5, <2>2 DEF ConnectProfile
  <2> QED
    BY <1>3, <1>4, <1>7, <2>1, <2>2
       DEF Callback, StateExpires, FetchPages, FetchProfile, CallbackFails
<1>8. ASSUME NEW f \in Flows, Expire(f) PROVE RowsOK /\ EntriesOK
  BY <1>1, <1>3, <1>8 DEF Expire, EntryStates
<1>9. ASSUME NEW q \in Requests, Confirm(q) PROVE RowsOK /\ EntriesOK
  <2>1. CASE ConfirmOne(q)
    BY <1>4, <1>5, <2>1 DEF ConfirmOne
  <2>2. CASE SpendEntry(q)
    BY <1>1, <1>3, <2>2 DEF SpendEntry, EntryStates
  <2> QED
    BY <1>3, <1>4, <1>9, <2>1, <2>2 DEF Confirm, BeginConfirm, Answer, ConfirmFails
<1>10. ASSUME NEW k \in Keys, Disconnect(k) PROVE RowsOK /\ EntriesOK
  BY <1>1, <1>4, <1>10 DEF Disconnect, RowStates
<1>11. CASE Crash
  BY <1>3, <1>4, <1>11 DEF Crash
<1> QED
  BY <1>6, <1>7, <1>8, <1>9, <1>10, <1>11 DEF Next

LEMMA WhatStays == IInv /\ Next => TypeOK' /\ Stays
<1> SUFFICES ASSUME IInv, Next PROVE TypeOK' /\ Stays
  OBVIOUS
<1>1. /\ row \in [Keys -> RowStates] /\ flow \in [Flows -> FlowStates]
      /\ request \in [Requests -> RequestStates] /\ faults \in 0..MaxFaults
  BY DEF IInv, TypeOK
<1> DEFINE FlowsOK ==
             /\ flow' \in [Flows -> FlowStates]
             /\ \A f \in Flows :
                  /\ flow[f].offered # {} \/ flow[f].pc = "over" =>
                       /\ flow'[f].offered = flow[f].offered
                       /\ flow'[f].workspace = flow[f].workspace
                       /\ flow'[f].platform = flow[f].platform
                  /\ flow[f].pc = "over" => flow'[f].pc = "over"
           RequestsOK ==
             /\ request' \in [Requests -> RequestStates]
             /\ \A q \in Requests :
                  /\ request[q].flow \in Flows =>
                       /\ request'[q].flow = request[q].flow
                       /\ request'[q].workspace = request[q].workspace
                       /\ request'[q].asked = request[q].asked
                       /\ request[q].left = {} => request'[q].left = {}
<1>2. UNCHANGED flow => FlowsOK
  BY <1>1
<1>3. UNCHANGED request => RequestsOK
  BY <1>1
<1>4. ASSUME NEW f \in Flows, FlowStep(f) PROVE FlowsOK
  BY <1>1, <1>4 DEF FlowStep
<1>5. ASSUME NEW q \in Requests, RequestStep(q) PROVE RequestsOK
  BY <1>1, <1>5 DEF RequestStep
<1>6. ASSUME Crash PROVE FlowsOK /\ RequestsOK
  <2>1. FlowsOK
    BY <1>6, CrashEffect
  <2>2. RequestsOK
    BY <1>6, CrashEffect
  <2> QED
    BY <2>1, <2>2
<1> HIDE DEF FlowsOK, RequestsOK
<1>7. FlowsOK /\ RequestsOK
  <2>1. ASSUME NEW f \in Flows,
               \/ \E w \in Workspaces, platform \in Platforms : GetOAuthUrl(f, w, platform)
               \/ Callback(f)
        PROVE  FlowsOK /\ RequestsOK
    BY <1>3, <1>4, <2>1, FlowSteps
  <2>2. ASSUME NEW q \in Requests, Confirm(q) PROVE FlowsOK /\ RequestsOK
    BY <1>2, <1>5, <2>2, RequestSteps
  <2>3. ASSUME NEW f \in Flows, Expire(f) PROVE FlowsOK /\ RequestsOK
    BY <1>2, <1>3, <2>3 DEF Expire
  <2>4. ASSUME NEW k \in Keys, Disconnect(k) PROVE FlowsOK /\ RequestsOK
    BY <1>2, <1>3, <2>4 DEF Disconnect
  <2> QED
    BY <1>6, <2>1, <2>2, <2>3, <2>4 DEF Next
<1>8. faults' \in 0..MaxFaults
  <2>1. UNCHANGED faults \/ Fault
    BY DEF Next, GetOAuthUrl, Callback, StateExpires, FetchPages, StoreMetaCandidates,
           FetchProfile, ConnectProfile, CallbackFails, Expire, Confirm,
           BeginConfirm, ConfirmOne, SpendEntry, Answer, ConfirmFails, Disconnect,
           Crash
  <2> QED
    BY <1>1, <2>1, MaxFaultsAssumption DEF Fault
<1>9. Stays
  BY <1>7, RowsAndEntries DEF Stays, FlowsOK, RequestsOK
<1>10. TypeOK'
  BY <1>7, <1>8, RowsAndEntries DEF TypeOK, FlowsOK, RequestsOK
<1> QED
  BY <1>9, <1>10

-----------------------------------------------------------------------------
(* The invariant is kept *)

Rightly(k) ==
    \E f \in Flows : Granted(k, f) /\ (k.platform \in MetaPlatforms => Chosen(k, f))

\* A profile is connected for the first time by a callback of LinkedIn or TikTok,
\* or because it was selected; either has been granted before.
LEMMA NewRow ==
  ASSUME IInv, Next, NEW k \in Keys, row[k] = "none", row'[k] # "none"
  PROVE  Rightly(k)
<1>1. row \in [Keys -> RowStates]
  BY DEF IInv, TypeOK
<1>2. ASSUME NEW w, NEW platform, NEW profile, UpsertConnection(w, platform, profile)
      PROVE  k = Key(w, platform, profile)
  BY <1>1, <1>2 DEF UpsertConnection
<1>3. ASSUME NEW f \in Flows, ConnectProfile(f) PROVE Rightly(k)
  <2>1. PICK member \in flow[f].offered :
          k = Key(flow[f].workspace, flow[f].platform, member)
    BY <1>2, <1>3 DEF ConnectProfile
  <2>2. flow[f].platform \notin MetaPlatforms
    BY <1>3 DEF ConnectProfile, IInv, FlowInv
  <2> QED
    BY <2>1, <2>2 DEF Rightly, Granted, Key
<1>4. ASSUME NEW q \in Requests, ConfirmOne(q) PROVE Rightly(k)
  <2> DEFINE f == request[q].flow
  <2>1. PICK profile \in request[q].left :
          k = Key(request[q].workspace, flow[f].platform, profile)
    BY <1>2, <1>4 DEF ConfirmOne
  <2>2. /\ f \in Flows /\ request[q].workspace = flow[f].workspace
        /\ profile \in flow[f].offered /\ profile \in request[q].asked
    BY <1>4 DEF ConfirmOne, IInv, RequestInv, Busy, ToDo, Selected
  <2>3. Granted(k, f)
    BY <2>1, <2>2 DEF Granted, Key
  <2>4. Chosen(k, f)
    BY <2>1, <2>2 DEF Chosen, Key
  <2> QED
    BY <2>2, <2>3, <2>4 DEF Rightly
<1>5. ~UNCHANGED row /\ ~(\E p \in Keys : Disconnect(p))
  <2>1. ASSUME NEW p \in Keys, Disconnect(p) PROVE FALSE
    BY <1>1, <2>1 DEF Disconnect
  <2> QED
    BY <2>1
<1>6. \/ \E f \in Flows : ConnectProfile(f)
      \/ \E q \in Requests : ConfirmOne(q)
  BY <1>5 DEF Next, GetOAuthUrl, Callback, StateExpires, FetchPages, StoreMetaCandidates,
              FetchProfile, CallbackFails, Expire, Confirm, BeginConfirm, SpendEntry,
              Answer, ConfirmFails, Crash
<1> QED
  BY <1>3, <1>4, <1>6

LEMMA KeepsOnlyChosen == IInv /\ Next => OnlyChosen'
<1> SUFFICES ASSUME IInv, Next, NEW k \in Keys, row'[k] # "none"
             PROVE  Rightly(k)'
  BY DEF OnlyChosen, Rightly
<1>1. Rightly(k)
  <2>1. CASE row[k] # "none"
    BY <2>1 DEF IInv, OnlyChosen, Rightly
  <2>2. CASE row[k] = "none"
    BY <2>2, NewRow
  <2> QED
    BY <2>1, <2>2
<1>2. PICK f \in Flows : Granted(k, f) /\ (k.platform \in MetaPlatforms => Chosen(k, f))
  BY <1>1 DEF Rightly
<1>3. Granted(k, f)'
  BY <1>2, WhatStays DEF Stays, Granted
<1>4. Chosen(k, f) => Chosen(k, f)'
  BY WhatStays DEF Stays, Chosen
<1> QED
  BY <1>2, <1>3, <1>4 DEF Rightly

LEMMA KeepsFlowInv == IInv /\ Next => FlowInv'
<1> SUFFICES ASSUME IInv, Next PROVE FlowInv'
  OBVIOUS
<1> DEFINE Right(f) ==
             /\ flow[f].pc \in {"none", "linked"} => flow[f].offered = {}
             /\ flow[f].pc # "over" => entry[f] = "none"
             /\ flow[f].pc \in {"linked", "store", "connect"} =>
                  flow[f].workspace \in Workspaces
             /\ flow[f].pc = "connect" => flow[f].platform \notin MetaPlatforms
<1>1. /\ flow \in [Flows -> FlowStates] /\ entry \in [Flows -> EntryStates]
      /\ \A f \in Flows : Right(f)
  BY DEF IInv, TypeOK, FlowInv
<1>2. ASSUME NEW f \in Flows, UNCHANGED <<flow[f], entry[f]>> PROVE Right(f)'
  BY <1>1, <1>2
<1>3. ASSUME NEW f \in Flows, UNCHANGED flow, entry[f] # "none" PROVE Right(f)'
  BY <1>1, <1>3
<1>4. ASSUME NEW f \in Flows, NEW w \in Workspaces, NEW platform \in Platforms,
             GetOAuthUrl(f, w, platform)
      PROVE  Right(f)' /\ \A g \in Flows \ {f} : UNCHANGED <<flow[g], entry[g]>>
  <2>1. flow'[f] = [flow[f] EXCEPT !.pc = "linked", !.workspace = w, !.platform = platform]
    BY <1>1, <1>4 DEF GetOAuthUrl
  <2> QED
    BY <1>1, <1>4, <2>1 DEF GetOAuthUrl, FlowStates
<1>5. ASSUME NEW f \in Flows, Callback(f)
      PROVE  Right(f)' /\ \A g \in Flows \ {f} : UNCHANGED <<flow[g], entry[g]>>
  <2>1. CASE StateExpires(f)
    BY <1>1, <2>1, Records DEF StateExpires
  <2>2. CASE FetchPages(f)
    <3>1. PICK pages \in SUBSET Pages :
            flow' = [flow EXCEPT ![f] =
              IF MetaCandidates(flow[f].platform, pages) = {} THEN Dropped
              ELSE [flow[f] EXCEPT !.pc = "store",
                                   !.offered = MetaCandidates(flow[f].platform, pages)]]
      BY <2>2 DEF FetchPages
    <3> DEFINE found == MetaCandidates(flow[f].platform, pages)
    <3> HIDE DEF found
    <3>2. flow'[f] = Dropped
          \/ flow'[f] = [flow[f] EXCEPT !.pc = "store", !.offered = found]
      BY <1>1, <3>1 DEF found
    <3>3. flow'[f].pc \in {"store", "over"} /\ (flow'[f].pc = "store" =>
             flow'[f].workspace = flow[f].workspace)
      BY <1>1, <3>2, Records DEF FlowStates
    <3>4. flow[f].pc = "linked" /\ UNCHANGED entry
      BY <2>2 DEF FetchPages
    <3> QED
      BY <1>1, <3>1, <3>3, <3>4
  <2>3. CASE StoreMetaCandidates(f)
    BY <1>1, <2>3 DEF StoreMetaCandidates, FlowStates
  <2>4. CASE FetchProfile(f)
    <3>1. ASSUME NEW member \in Members,
                 flow' = [flow EXCEPT ![f] =
                           [@ EXCEPT !.pc = "connect", !.offered = {member}]]
          PROVE  Right(f)' /\ \A g \in Flows \ {f} : UNCHANGED <<flow[g], entry[g]>>
      <4>1. flow'[f] = [flow[f] EXCEPT !.pc = "connect", !.offered = {member}]
        BY <1>1, <3>1
      <4>2. flow'[f].pc = "connect" /\ UNCHANGED <<flow[f].workspace, flow[f].platform>>
        BY <1>1, <4>1 DEF FlowStates
      <4>3. /\ flow[f].pc = "linked" /\ flow[f].platform \notin MetaPlatforms
            /\ UNCHANGED entry
        BY <2>4 DEF FetchProfile
      <4> QED
        BY <1>1, <3>1, <4>2, <4>3
    <3>2. CASE flow' = [flow EXCEPT ![f] = Dropped]
      BY <1>1, <2>4, <3>2, Records DEF FetchProfile
    <3> QED
      BY <2>4, <3>1, <3>2 DEF FetchProfile
  <2>5. CASE ConnectProfile(f)
    BY <1>1, <2>5 DEF ConnectProfile, FlowStates
  <2>6. CASE CallbackFails(f)
    BY <1>1, <2>6 DEF CallbackFails, FlowStates
  <2> QED
    BY <1>5, <2>1, <2>2, <2>3, <2>4, <2>5, <2>6 DEF Callback
<1>6. ASSUME NEW f \in Flows, Expire(f)
      PROVE  Right(f)' /\ \A g \in Flows \ {f} : UNCHANGED <<flow[g], entry[g]>>
  BY <1>1, <1>6 DEF Expire
<1>7. ASSUME NEW q \in Requests, Confirm(q), NEW f \in Flows PROVE Right(f)'
  <2>1. UNCHANGED flow /\ (entry[f] = "none" => entry'[f] = "none")
    BY <1>1, <1>7 DEF Confirm, BeginConfirm, ConfirmOne, SpendEntry, Answer, ConfirmFails
  <2> QED
    BY <1>1, <2>1
<1>8. ASSUME Crash, NEW f \in Flows PROVE Right(f)'
  BY <1>1, <1>8, CrashEffect
<1> HIDE DEF Right
<1>9. \A f \in Flows : Right(f)'
  <2>1. ASSUME NEW k \in Keys, Disconnect(k), NEW f \in Flows PROVE Right(f)'
    BY <1>2, <2>1 DEF Disconnect
  <2> QED
    BY <1>2, <1>4, <1>5, <1>6, <1>7, <1>8, <2>1 DEF Next
<1> QED
  BY <1>9 DEF FlowInv, Right

RequestRight(q) ==
    /\ request[q].pc = "none" => request[q].flow = NoFlow
    /\ request[q].pc \in Busy \cup {"done"} => request[q].flow \in Flows
    /\ request[q].flow \in Flows =>
          /\ entry[request[q].flow] # "none"
          /\ request[q].workspace \in Workspaces
          /\ request[q].workspace = flow[request[q].flow].workspace
          /\ request[q].left \subseteq ToDo(q)
          /\ \A profile \in ToDo(q) \ request[q].left : row[RowOf(q, profile)] # "none"
    /\ request[q].pc \in {"spend", "answer", "done"} => request[q].left = {}
    /\ request[q].pc \in {"answer", "done"} => entry[request[q].flow] # "present"

LEMMA RowOfIsKey ==
  ASSUME IInv, NEW q \in Requests, request[q].flow \in Flows, NEW profile \in ToDo(q)
  PROVE  RowOf(q, profile) \in Keys
<1> DEFINE f == request[q].flow
<1>1. f \in Flows /\ request[q].workspace \in Workspaces
  BY DEF IInv, RequestInv
<1>2. flow[f] \in FlowStates
  BY <1>1 DEF IInv, TypeOK
<1>3. flow[f].platform \in Platforms /\ profile \in Profiles
  BY <1>2 DEF FlowStates, ToDo, Selected
<1> QED
  BY <1>1, <1>3, KeyIsKey DEF RowOf

\* The grant a confirmation works on, and what it has connected, stay.
LEMMA SameTask ==
  ASSUME IInv, Next, NEW q \in Requests, request[q].flow \in Flows
  PROVE  LET f == request[q].flow
         IN  /\ f \in Flows /\ request'[q].flow = f
             /\ entry[f] # "none" /\ entry'[f] # "none"
             /\ entry[f] # "present" => entry'[f] # "present"
             /\ request'[q].workspace = request[q].workspace
             /\ request'[q].workspace \in Workspaces
             /\ request'[q].workspace = flow'[f].workspace
             /\ ToDo(q)' = ToDo(q)
             /\ \A profile : RowOf(q, profile)' = RowOf(q, profile)
             /\ \A profile \in ToDo(q) :
                  row[RowOf(q, profile)] # "none" => row'[RowOf(q, profile)] # "none"
<1> DEFINE f == request[q].flow
<1>1. Stays
  BY WhatStays
<1>2. /\ f \in Flows /\ entry[f] # "none" /\ entry[f] \in EntryStates
      /\ request[q].workspace \in Workspaces /\ request[q].workspace = flow[f].workspace
  BY DEF IInv, RequestInv, TypeOK
<1>3. flow[f].pc = "over"
  BY <1>2 DEF IInv, FlowInv
<1>4. /\ UNCHANGED <<flow[f].offered, flow[f].workspace, flow[f].platform>>
      /\ entry'[f] # "none" /\ (entry[f] # "present" => entry'[f] # "present")
      /\ UNCHANGED <<request[q].flow, request[q].workspace, request[q].asked>>
  BY <1>1, <1>2, <1>3 DEF Stays, EntryStates
<1>5. flow'[f].offered = flow[f].offered /\ flow'[f].workspace = flow[f].workspace
      /\ flow'[f].platform = flow[f].platform
  BY <1>1, <1>2, <1>3 DEF Stays
<1>6. ToDo(q)' = ToDo(q)
  BY <1>4, <1>5 DEF ToDo, Selected
<1>7. \A profile : RowOf(q, profile)' = RowOf(q, profile)
  BY <1>4, <1>5 DEF RowOf, Key
<1>8. ASSUME NEW profile \in ToDo(q), row[RowOf(q, profile)] # "none"
      PROVE  row'[RowOf(q, profile)] # "none"
  BY <1>1, <1>8, RowOfIsKey DEF Stays
<1> QED
  BY <1>2, <1>4, <1>5, <1>6, <1>7, <1>8

LEMMA KeepsSame ==
  ASSUME IInv, Next, NEW q \in Requests, request'[q] = request[q]
  PROVE  RequestRight(q)'
<1>1. RequestRight(q)
  BY DEF IInv, RequestInv, RequestRight
<1>2. CASE request[q].flow \in Flows
  <2>1. /\ request'[q].pc = request[q].pc /\ request'[q].left = request[q].left
        /\ request'[q].flow = request[q].flow
    OBVIOUS
  <2>2. \A profile \in ToDo(q)' \ request'[q].left : row'[RowOf(q, profile)'] # "none"
    BY <1>1, <1>2, <2>1, SameTask DEF RequestRight
  <2> QED
    BY <1>1, <1>2, <2>1, <2>2, SameTask DEF RequestRight
<1>3. CASE request[q].flow \notin Flows
  BY <1>1, <1>3 DEF RequestRight, Busy
<1> QED
  BY <1>2, <1>3

\* A confirmation that failed has what it had left, and connected the rest.
LEMMA KeepsFailed ==
  ASSUME IInv, Next, NEW q \in Requests, request[q].flow \in Flows,
         request'[q].pc = "failed", request'[q].left = request[q].left
  PROVE  RequestRight(q)'
<1>1. RequestRight(q)
  BY DEF IInv, RequestInv, RequestRight
<1>2. \A p \in ToDo(q)' \ request'[q].left : row'[RowOf(q, p)'] # "none"
  BY <1>1, SameTask DEF RequestRight
<1> QED
  BY <1>1, <1>2, SameTask DEF RequestRight, Busy

LEMMA KeepsConfirm ==
  ASSUME IInv, Next, NEW q \in Requests, Confirm(q)
  PROVE  RequestRight(q)'
<1>1. /\ request \in [Requests -> RequestStates] /\ row \in [Keys -> RowStates]
      /\ entry \in [Flows -> EntryStates] /\ RequestRight(q)
  BY DEF IInv, TypeOK, RequestInv, RequestRight
<1>2. ASSUME NEW f \in Flows, NEW w \in Workspaces, NEW asked \in Selections,
             BeginConfirm(q, f, w, asked)
      PROVE  RequestRight(q)'
  <2>1. CASE request'[q] = Refused
    BY <2>1, Records, FieldsAssumption DEF RequestRight, Busy
  <2>2. CASE request'[q] # Refused
    <3>1. /\ Loadable(f, w) /\ UNCHANGED <<flow, entry>>
          /\ request'[q] = [pc |-> "connect", flow |-> f, workspace |-> w,
                            asked |-> asked, left |-> Selected(f, asked)]
      BY <1>1, <1>2, <2>2 DEF BeginConfirm
    <3>2. ToDo(q)' = request'[q].left
      BY <3>1 DEF ToDo, Selected
    <3> QED
      BY <3>1, <3>2 DEF RequestRight, Loadable, Busy
  <2> QED
    BY <2>1, <2>2
<1>3. CASE ConfirmOne(q)
  <2>1. PICK profile \in request[q].left :
          /\ row' = [row EXCEPT ![RowOf(q, profile)] = "active"]
          /\ request' = [request EXCEPT ![q] = After(@, profile)]
    BY <1>3 DEF ConfirmOne, UpsertConnection, RowOf
  <2>2. /\ request[q].pc = "connect" /\ request[q].flow \in Flows
        /\ request'[q] = After(request[q], profile)
    BY <1>1, <1>3, <2>1 DEF ConfirmOne, RequestRight, Busy
  <2>3. /\ request'[q].left = request[q].left \ {profile}
        /\ request'[q].pc = IF request[q].left = {profile} THEN "spend" ELSE "connect"
    BY <1>1, <2>2, AfterFields
  <2>4. profile \in ToDo(q) /\ RowOf(q, profile) \in Keys
    BY <1>1, <2>1, <2>2, RowOfIsKey DEF RequestRight
  <2>5. row'[RowOf(q, profile)] = "active"
    BY <1>1, <2>1, <2>4
  <2>6. ASSUME NEW p \in ToDo(q) \ request'[q].left PROVE row'[RowOf(q, p)] # "none"
    <3>1. CASE p = profile
      BY <2>5, <3>1
    <3>2. CASE p # profile
      <4>1. row[RowOf(q, p)] # "none"
        BY <1>1, <2>2, <2>3, <2>6, <3>2 DEF RequestRight
      <4> QED
        BY <2>2, <2>6, <4>1, SameTask
    <3> QED
      BY <3>1, <3>2
  <2>7. request'[q].pc = "spend" => request'[q].left = {}
    BY <2>3
  <2>8. request'[q].left \subseteq ToDo(q) /\ request'[q].pc \in {"connect", "spend"}
    BY <1>1, <2>2, <2>3 DEF RequestRight
  <2>9. \A p \in ToDo(q)' \ request'[q].left : row'[RowOf(q, p)'] # "none"
    BY <2>2, <2>6, SameTask
  <2> QED
    BY <2>2, <2>7, <2>8, <2>9, SameTask DEF RequestRight, Busy
<1>4. CASE SpendEntry(q) \/ Answer(q)
  <2>1. /\ request[q].pc \in {"spend", "answer"} /\ request[q].flow \in Flows
        /\ request'[q].pc \in {"answer", "done"}
        /\ request'[q].left = request[q].left
    BY <1>1, <1>4 DEF SpendEntry, Answer, RequestStates, RequestRight, Busy
  <2>2. entry'[request[q].flow] # "present"
    BY <1>1, <1>4, <2>1 DEF SpendEntry, Answer, RequestRight
  <2>3. \A p \in ToDo(q)' \ request'[q].left : row'[RowOf(q, p)'] # "none"
    BY <1>1, <2>1, SameTask DEF RequestRight
  <2> QED
    BY <1>1, <2>1, <2>2, <2>3, SameTask DEF RequestRight, Busy
<1>5. CASE ConfirmFails(q)
  <2>1. /\ request[q].flow \in Flows /\ request'[q].pc = "failed"
        /\ request'[q].left = request[q].left
    BY <1>1, <1>5 DEF ConfirmFails, FailedConfirm, RequestStates, RequestRight, Busy
  <2> QED
    BY <2>1, KeepsFailed
<1> QED
  BY <1>2, <1>3, <1>4, <1>5 DEF Confirm

LEMMA KeepsRequestInv == IInv /\ Next => RequestInv'
<1> SUFFICES ASSUME IInv, Next, NEW q \in Requests PROVE RequestRight(q)'
  BY DEF RequestInv, RequestRight
<1>1. CASE Crash
  <2>1. CASE request[q].pc \in Busy
    <3>1. /\ request'[q].pc = "failed" /\ request'[q].left = request[q].left
          /\ request[q].flow \in Flows
      BY <1>1, <2>1, CrashEffect DEF IInv, RequestInv
    <3> QED
      BY <3>1, KeepsFailed
  <2>2. CASE request[q].pc \notin Busy
    BY <1>1, <2>2, CrashEffect, KeepsSame
  <2> QED
    BY <2>1, <2>2
<1>2. CASE \E p \in Requests : Confirm(p)
  <2>1. PICK p \in Requests : Confirm(p)
    BY <1>2
  <2>2. CASE p = q
    BY <2>1, <2>2, KeepsConfirm
  <2>3. CASE p # q
    <3>1. request \in [Requests -> RequestStates]
      BY DEF IInv, TypeOK
    <3>2. request' = [request EXCEPT ![p] = request'[p]]
      BY <2>1, RequestSteps DEF RequestStep
    <3>3. request'[q] = request[q]
      BY <2>3, <3>1, <3>2
    <3> QED
      BY <3>3, KeepsSame
  <2> QED
    BY <2>2, <2>3
<1>3. CASE UNCHANGED request
  BY <1>3, KeepsSame
<1> QED
  BY <1>1, <1>2, <1>3, FlowSteps DEF Next, Expire, Disconnect

LEMMA KeepsSpentInv == IInv /\ Next => SpentInv'
<1> SUFFICES ASSUME IInv, Next, NEW f \in Flows, entry'[f] = "spent"
             PROVE  \E q \in Requests : request'[q].flow = f /\ request'[q].left = {}
  BY DEF SpentInv
<1>1. entry \in [Flows -> EntryStates] /\ request \in [Requests -> RequestStates]
  BY DEF IInv, TypeOK
<1>2. CASE entry[f] = "spent"
  <2>1. PICK q \in Requests : request[q].flow = f /\ request[q].left = {}
    BY <1>2 DEF IInv, SpentInv
  <2> QED
    BY <2>1, WhatStays DEF Stays
<1>3. CASE entry[f] # "spent"
  <2>1. PICK q \in Requests : SpendEntry(q)
    BY <1>1, <1>3 DEF Next, GetOAuthUrl, Callback, StateExpires, FetchPages,
       StoreMetaCandidates, FetchProfile, ConnectProfile, CallbackFails, Expire, Confirm,
       BeginConfirm, ConfirmOne, Answer, ConfirmFails, Disconnect, Crash
  <2>2. request[q].flow = f
    BY <1>1, <1>3, <2>1 DEF SpendEntry
  <2>3. request'[q].flow = f /\ request'[q].left = {}
    BY <1>1, <2>1, <2>2 DEF SpendEntry, RequestStates, IInv, RequestInv
  <2> QED
    BY <2>3
<1> QED
  BY <1>2, <1>3

LEMMA StepIInv == IInv /\ [Next]_vars => IInv'
<1> SUFFICES ASSUME IInv, [Next]_vars PROVE IInv'
  OBVIOUS
<1>1. CASE Next
  BY <1>1, WhatStays, KeepsFlowInv, KeepsRequestInv, KeepsSpentInv, KeepsOnlyChosen DEF IInv
<1>2. CASE UNCHANGED vars
  <2>1. (TypeOK /\ FlowInv /\ SpentInv)'
    BY <1>2 DEF vars, IInv, TypeOK, FlowInv, SpentInv
  <2>2. RequestInv'
    BY <1>2 DEF vars, IInv, RequestInv, Busy, ToDo, Selected, RowOf, Key
  <2>3. OnlyChosen'
    BY <1>2 DEF vars, IInv, OnlyChosen, Granted, Chosen
  <2> QED
    BY <2>1, <2>2, <2>3 DEF IInv
<1> QED
  BY <1>1, <1>2

LEMMA AnswersAreComplete == IInv => ConfirmedIsComplete
<1> SUFFICES ASSUME IInv PROVE ConfirmedIsComplete
  OBVIOUS
<1>1. ASSUME NEW q \in Requests, request[q].flow \in Flows, request[q].left = {}
      PROVE  WholeSelection(q)
  BY <1>1 DEF IInv, RequestInv, WholeSelection, ToDo, RowOf
<1>2. ASSUME NEW q \in Requests, request[q].pc = "done"
      PROVE  entry[request[q].flow] # "present" /\ WholeSelection(q)
  BY <1>1, <1>2 DEF IInv, RequestInv, Busy
<1>3. ASSUME NEW f \in Flows, entry[f] = "spent"
      PROVE  \E q \in Requests : /\ request[q].flow = f /\ request[q].left = {}
                                 /\ WholeSelection(q)
  BY <1>1, <1>3 DEF IInv, SpentInv
<1> QED
  BY <1>2, <1>3 DEF ConfirmedIsComplete

-----------------------------------------------------------------------------
(* The refinement *)

KeysOf(f) == {Key(flow[f].workspace, flow[f].platform, p) : p \in flow[f].offered}
Connected == {k \in Keys : row[k] = "active"}

LEMMA OfferShape ==
  ASSUME NEW f
  PROVE  /\ OfferOf(f).keys = KeysOf(f)
         /\ flow[f].offered = {} => OfferOf(f) = [state |-> "none", keys |-> {}]
         /\ flow[f].offered # {} =>
              OfferOf(f) = [state |-> IF InHand(f) THEN "open" ELSE "closed",
                            keys |-> KeysOf(f)]
  BY DEF OfferOf, KeysOf

\* A step that connects nothing, makes nothing known and reads no candidates
\* again closes the offers it ends, or does not show.
LEMMA Closing ==
  ASSUME IInv, Next, UNCHANGED row,
         \A f \in Flows : /\ flow'[f].offered = flow[f].offered
                          /\ flow[f].offered # {} /\ InHand(f)' => InHand(f)
  PROVE  O!Close
<1> DEFINE F == {f \in Flows : OfferOf(f).state = "open" /\ OfferOf(f)'.state = "closed"}
<1>1. ASSUME NEW f \in Flows
      PROVE  OfferOf(f)' = IF f \in F THEN [OfferOf(f) EXCEPT !.state = "closed"]
                           ELSE OfferOf(f)
  <2>1. CASE flow[f].offered = {}
    <3>1. OfferOf(f) = [state |-> "none", keys |-> {}]
      BY <2>1, OfferShape
    <3>2. OfferOf(f)' = [state |-> "none", keys |-> {}]
      BY <2>1 DEF OfferOf
    <3> QED
      BY <3>1, <3>2
  <2>2. CASE flow[f].offered # {}
    <3>1. KeysOf(f)' = KeysOf(f)
      BY <2>2, WhatStays DEF Stays, KeysOf, Key
    <3>2. OfferOf(f) = [state |-> IF InHand(f) THEN "open" ELSE "closed",
                        keys |-> KeysOf(f)]
      BY <2>2, OfferShape
    <3>3. OfferOf(f)' = [state |-> IF InHand(f)' THEN "open" ELSE "closed",
                         keys |-> KeysOf(f)]
      BY <2>2, <3>1 DEF OfferOf, KeysOf
    <3>4. InHand(f)' => InHand(f)
      BY <2>2
    <3> QED
      BY <3>2, <3>3, <3>4
  <2> QED
    BY <2>1, <2>2
<1>2. F \in SUBSET {f \in Flows : [g \in Flows |-> OfferOf(g)][f].state = "open"}
  OBVIOUS
<1>3. [f \in Flows |-> OfferOf(f)]' =
        [f \in Flows |-> IF f \in F
                         THEN [[g \in Flows |-> OfferOf(g)][f] EXCEPT !.state = "closed"]
                         ELSE [g \in Flows |-> OfferOf(g)][f]]
  BY <1>1
<1> HIDE DEF F
<1> QED
  BY <1>2, <1>3 DEF O!Close

\* The first time profiles are known the offer opens, for one workspace.
LEMMA Opening ==
  ASSUME IInv, Next, UNCHANGED <<row, entry, request>>, NEW f \in Flows,
         flow[f].offered = {}, flow'[f].offered # {},
         flow'[f].pc \in {"store", "connect"}, flow'[f].workspace \in Workspaces,
         \A g \in Flows \ {f} : flow'[g] = flow[g]
  PROVE  O!Offer(f)
<1> DEFINE off == [g \in Flows |-> OfferOf(g)]
<1>1. off[f].state = "none"
  BY OfferShape
<1>2. OfferOf(f)' = [state |-> "open", keys |-> KeysOf(f)']
  BY DEF OfferOf, KeysOf, InHand
<1>3. \A g \in Flows \ {f} : OfferOf(g)' = OfferOf(g)
  BY DEF OfferOf, InHand
<1>4. off' = [off EXCEPT ![f] = [state |-> "open", keys |-> off'[f].keys]]
  <2>1. off'[f].keys = KeysOf(f)'
    BY <1>2
  <2>2. off' = [off EXCEPT ![f] = [state |-> "open", keys |-> KeysOf(f)']]
    BY <1>2, <1>3
  <2> QED
    BY <2>1, <2>2
<1>5. off'[f].keys \subseteq O!OfWorkspace(flow'[f].workspace)
  <2>1. flow' \in [Flows -> FlowStates]
    BY WhatStays DEF TypeOK
  <2>2. ASSUME NEW p \in flow'[f].offered
        PROVE  /\ Key(flow'[f].workspace, flow'[f].platform, p) \in Keys
               /\ Key(flow'[f].workspace, flow'[f].platform, p).workspace = flow'[f].workspace
    <3>1. p \in Profiles /\ flow'[f].platform \in Platforms
      BY <2>1, <2>2 DEF FlowStates
    <3> QED
      BY <3>1, KeyIsKey DEF Key
  <2>3. off'[f].keys = KeysOf(f)'
    BY <1>2
  <2> QED
    BY <2>2, <2>3 DEF KeysOf, O!OfWorkspace
<1> QED
  BY <1>1, <1>4, <1>5 DEF O!Offer

\* A connection is made from an open offer, which may be closed by it.
LEMMA Connecting ==
  ASSUME IInv, Next, NEW f \in Flows, InHand(f), NEW profile \in flow[f].offered,
         Key(flow[f].workspace, flow[f].platform, profile) \in Keys,
         row' = [row EXCEPT ![Key(flow[f].workspace, flow[f].platform, profile)] = "active"],
         \A g \in Flows : /\ flow'[g].offered = flow[g].offered
                          /\ g # f => InHand(g)' = InHand(g)
  PROVE  O!Connect(f)
<1> DEFINE off == [g \in Flows |-> OfferOf(g)]
           k == Key(flow[f].workspace, flow[f].platform, profile)
<1>1. off[f].state = "open" /\ k \in off[f].keys
  BY OfferShape DEF KeysOf
<1>2. Connected' = Connected \cup {k}
  BY DEF Connected, IInv, TypeOK
<1>3. ASSUME NEW g \in Flows PROVE KeysOf(g)' = KeysOf(g)
  <2>1. CASE flow[g].offered = {}
    BY <2>1 DEF KeysOf
  <2>2. CASE flow[g].offered # {}
    BY <2>2, WhatStays DEF Stays, KeysOf, Key
  <2> QED
    BY <2>1, <2>2
<1>4. ASSUME NEW g \in Flows, g # f PROVE OfferOf(g)' = OfferOf(g)
  BY <1>3, <1>4 DEF OfferOf, KeysOf
<1>5. OfferOf(f)' = OfferOf(f) \/ OfferOf(f)' = [OfferOf(f) EXCEPT !.state = "closed"]
  <2>1. OfferOf(f) = [state |-> "open", keys |-> KeysOf(f)]
    BY OfferShape
  <2>2. OfferOf(f)' = [state |-> IF InHand(f)' THEN "open" ELSE "closed", keys |-> KeysOf(f)]
    BY <1>3 DEF OfferOf, KeysOf
  <2> QED
    BY <2>1, <2>2
<1>6. off' = off \/ off' = [off EXCEPT ![f] = [@ EXCEPT !.state = "closed"]]
  BY <1>4, <1>5
<1> HIDE DEF k
<1> QED
  BY <1>1, <1>2, <1>6 DEF O!Connect, Connected

LEMMA InitOffers == Init => O!Init
<1> SUFFICES ASSUME Init PROVE O!Init
  OBVIOUS
<1>1. \A f \in Flows : OfferOf(f) = [state |-> "none", keys |-> {}]
  BY OfferShape DEF Init, NewFlow
<1>2. Connected = {}
  BY DEF Init, Connected
<1> QED
  BY <1>1, <1>2 DEF O!Init, Connected

\* A link and its callback.
LEMMA FlowRefines ==
  ASSUME IInv, Next, NEW f \in Flows,
         \/ \E w \in Workspaces, platform \in Platforms : GetOAuthUrl(f, w, platform)
         \/ Callback(f)
  PROVE  O!Next
<1>1. /\ flow \in [Flows -> FlowStates] /\ entry \in [Flows -> EntryStates]
      /\ UNCHANGED request /\ flow' \in [Flows -> FlowStates]
      /\ \A g \in Flows \ {f} : flow'[g] = flow[g]
  BY FlowSteps, WhatStays DEF IInv, TypeOK, FlowStep
<1>2. /\ flow[f].pc \in {"none", "linked"} => flow[f].offered = {}
      /\ flow[f].pc # "over" => entry[f] = "none"
      /\ flow[f].pc \in {"linked", "store", "connect"} => flow[f].workspace \in Workspaces
  BY DEF IInv, FlowInv
<1>3. \A q \in Requests : request[q].flow = f /\ request[q].pc = "connect" =>
         entry[f] # "none"
  BY DEF IInv, RequestInv
<1>4. ASSUME UNCHANGED <<row, entry>>, flow'[f].offered = flow[f].offered,
             flow[f].offered = {} \/ flow'[f].pc \notin {"store", "connect"}
      PROVE  O!Close
  BY <1>1, <1>4, Closing DEF InHand
<1>5. ASSUME UNCHANGED <<row, entry>>, flow[f].offered = {}, flow'[f].offered # {},
             flow'[f].pc \in {"store", "connect"}, flow'[f].workspace \in Workspaces
      PROVE  O!Offer(f)
  BY <1>1, <1>5, Opening
<1>6. ASSUME NEW w \in Workspaces, NEW platform \in Platforms, GetOAuthUrl(f, w, platform)
      PROVE  O!Close
  <2>1. flow'[f] = [flow[f] EXCEPT !.pc = "linked", !.workspace = w, !.platform = platform]
    BY <1>1, <1>6 DEF GetOAuthUrl
  <2>2. flow'[f].offered = flow[f].offered
    BY <1>1, <2>1 DEF FlowStates
  <2> QED
    BY <1>2, <1>4, <1>6, <2>2 DEF GetOAuthUrl
<1>7. CASE StateExpires(f)
  <2>1. flow'[f] = Dropped
    BY <1>1, <1>7 DEF StateExpires
  <2> QED
    BY <1>2, <1>4, <1>7, <2>1, Records DEF StateExpires, O!Next
<1>8. CASE FetchPages(f)
  <2>1. PICK pages \in SUBSET Pages :
          flow' = [flow EXCEPT ![f] =
            IF MetaCandidates(flow[f].platform, pages) = {} THEN Dropped
            ELSE [flow[f] EXCEPT !.pc = "store",
                                 !.offered = MetaCandidates(flow[f].platform, pages)]]
    BY <1>8 DEF FetchPages
  <2> DEFINE found == MetaCandidates(flow[f].platform, pages)
  <2> HIDE DEF found
  <2>2. IF found = {} THEN flow'[f] = Dropped
        ELSE flow'[f] = [flow[f] EXCEPT !.pc = "store", !.offered = found]
    BY <1>1, <2>1 DEF found
  <2>3. flow[f].pc = "linked" /\ UNCHANGED <<row, entry>>
    BY <1>8 DEF FetchPages
  <2>4. CASE found = {}
    BY <1>2, <1>4, <2>2, <2>3, <2>4, Records DEF O!Next
  <2>5. CASE found # {}
    <3>1. /\ flow'[f].pc = "store" /\ flow'[f].offered = found
          /\ flow'[f].workspace = flow[f].workspace
      BY <1>1, <2>2, <2>5 DEF FlowStates
    <3> QED
      BY <1>2, <1>5, <2>3, <2>5, <3>1 DEF O!Next
  <2> QED
    BY <2>4, <2>5
<1>9. CASE StoreMetaCandidates(f)
  <2>1. flow'[f] = [flow[f] EXCEPT !.pc = "over"] /\ flow[f].pc = "store" /\ UNCHANGED row
    BY <1>1, <1>9 DEF StoreMetaCandidates
  <2>2. flow'[f].offered = flow[f].offered
    BY <1>1, <2>1 DEF FlowStates
  <2>3. \A g \in Flows \ {f} : entry'[g] = entry[g]
    BY <1>1, <1>9 DEF StoreMetaCandidates
  <2>4. \A g \in Flows : /\ flow'[g].offered = flow[g].offered
                         /\ flow[g].offered # {} /\ InHand(g)' => InHand(g)
    BY <1>1, <2>1, <2>2, <2>3 DEF InHand
  <2> QED
    BY <2>1, <2>4, Closing DEF O!Next
<1>10. CASE FetchProfile(f)
  <2>1. flow[f].pc = "linked" /\ UNCHANGED <<row, entry>>
    BY <1>10 DEF FetchProfile
  <2>2. ASSUME NEW member \in Members,
               flow' = [flow EXCEPT ![f] = [@ EXCEPT !.pc = "connect", !.offered = {member}]]
        PROVE  O!Next
    <3>1. flow'[f] = [flow[f] EXCEPT !.pc = "connect", !.offered = {member}]
      BY <1>1, <2>2
    <3>2. /\ flow'[f].pc = "connect" /\ flow'[f].offered # {}
          /\ flow'[f].workspace = flow[f].workspace
      BY <1>1, <3>1 DEF FlowStates
    <3> QED
      BY <1>2, <1>5, <2>1, <3>2 DEF O!Next
  <2>3. CASE flow' = [flow EXCEPT ![f] = Dropped]
    <3>1. flow'[f] = Dropped
      BY <1>1, <2>3
    <3> QED
      BY <1>2, <1>4, <2>1, <3>1, Records DEF O!Next
  <2> QED
    BY <1>10, <2>2, <2>3 DEF FetchProfile
<1>11. CASE ConnectProfile(f)
  <2>1. PICK member \in flow[f].offered :
          row' = [row EXCEPT ![Key(flow[f].workspace, flow[f].platform, member)] = "active"]
    BY <1>11 DEF ConnectProfile, UpsertConnection
  <2>2. /\ flow'[f] = [flow[f] EXCEPT !.pc = "over"] /\ flow[f].pc = "connect"
        /\ UNCHANGED entry
    BY <1>1, <1>11 DEF ConnectProfile
  <2>3. flow'[f].offered = flow[f].offered
    BY <1>1, <2>2 DEF FlowStates
  <2>4. InHand(f) /\ \A g \in Flows \ {f} : InHand(g)' = InHand(g)
    BY <1>1, <2>2 DEF InHand
  <2>5. flow[f] \in FlowStates /\ member \in Profiles
    BY <1>1 DEF FlowStates
  <2>6. Key(flow[f].workspace, flow[f].platform, member) \in Keys
    BY <1>2, <2>2, <2>5, KeyIsKey DEF FlowStates
  <2> QED
    BY <1>1, <2>1, <2>3, <2>4, <2>6, Connecting DEF O!Next
<1>12. CASE CallbackFails(f)
  <2>1. flow'[f] = [flow[f] EXCEPT !.pc = "over"] /\ UNCHANGED <<row, entry>>
    BY <1>1, <1>12 DEF CallbackFails
  <2>2. flow'[f].offered = flow[f].offered /\ flow'[f].pc = "over"
    BY <1>1, <2>1 DEF FlowStates
  <2> QED
    BY <1>4, <2>1, <2>2 DEF O!Next
<1> QED
  BY <1>6, <1>7, <1>8, <1>9, <1>10, <1>11, <1>12 DEF Callback, O!Next

\* A confirmation, the end of an entry, and a disconnection.
LEMMA RequestRefines ==
  ASSUME IInv, Next, NEW q \in Requests, Confirm(q)
  PROVE  O!Next
<1>1. /\ request \in [Requests -> RequestStates] /\ entry \in [Flows -> EntryStates]
      /\ UNCHANGED flow /\ \A p \in Requests \ {q} : request'[p] = request[p]
  BY RequestSteps DEF IInv, TypeOK, RequestStep
<1>2. ASSUME UNCHANGED row, \A g \in Flows : entry'[g] = "present" => entry[g] = "present",
             request'[q].pc = "connect" =>
               request'[q].flow \in Flows /\ entry[request'[q].flow] = "present"
      PROVE  O!Next
  BY <1>1, <1>2, Closing DEF InHand, O!Next
<1>3. ASSUME NEW f \in Flows, NEW w \in Workspaces, NEW asked \in Selections,
             BeginConfirm(q, f, w, asked)
      PROVE  O!Next
  <2>1. CASE request'[q] = Refused
    BY <1>2, <1>3, <2>1, Records DEF BeginConfirm
  <2>2. CASE request'[q] # Refused
    <3>1. /\ entry[f] = "present"
          /\ request'[q] = [pc |-> "connect", flow |-> f, workspace |-> w,
                            asked |-> asked, left |-> Selected(f, asked)]
      BY <1>1, <1>3, <2>2 DEF BeginConfirm, Loadable
    <3>2. request'[q].flow = f /\ UNCHANGED <<row, entry>>
      BY <1>3, <3>1 DEF BeginConfirm
    <3> QED
      BY <1>2, <3>1, <3>2
  <2> QED
    BY <2>1, <2>2
<1>4. CASE ConfirmOne(q)
  <2> DEFINE f == request[q].flow
  <2>1. PICK profile \in request[q].left :
          /\ row' = [row EXCEPT ![RowOf(q, profile)] = "active"]
          /\ request' = [request EXCEPT ![q] = After(@, profile)]
    BY <1>4 DEF ConfirmOne, UpsertConnection, RowOf
  <2>2. request[q].pc = "connect" /\ UNCHANGED entry
    BY <1>4 DEF ConfirmOne
  <2>3. /\ f \in Flows /\ request[q].workspace = flow[f].workspace
        /\ profile \in ToDo(q)
    BY <2>1, <2>2 DEF IInv, RequestInv, Busy
  <2>4. /\ profile \in flow[f].offered
        /\ RowOf(q, profile) = Key(flow[f].workspace, flow[f].platform, profile)
        /\ RowOf(q, profile) \in Keys
    BY <2>2, <2>3, RowOfIsKey DEF RowOf, ToDo, Selected
  <2>5. request'[q].flow = f
    BY <2>2, <2>3, SameTask
  <2>6. InHand(f) /\ \A g \in Flows \ {f} : InHand(g)' = InHand(g)
    BY <1>1, <2>2, <2>5 DEF InHand
  <2> QED
    BY <1>1, <2>1, <2>3, <2>4, <2>6, Connecting DEF O!Next
<1>5. CASE SpendEntry(q)
  <2>1. request'[q].pc = "answer" /\ UNCHANGED row
    BY <1>1, <1>5 DEF SpendEntry, RequestStates
  <2>2. \A g \in Flows : entry'[g] = "present" => entry[g] = "present"
    BY <1>1, <1>5 DEF SpendEntry
  <2> QED
    BY <1>2, <2>1, <2>2
<1>6. CASE Answer(q) \/ ConfirmFails(q)
  <2>1. request'[q].pc \in {"done", "failed"} /\ UNCHANGED <<row, entry>>
    BY <1>1, <1>6 DEF Answer, ConfirmFails, FailedConfirm, RequestStates
  <2> QED
    BY <1>2, <2>1
<1> QED
  BY <1>3, <1>4, <1>5, <1>6 DEF Confirm

LEMMA StepOffers == IInv /\ [Next]_vars => [O!Next]_(O!vars)
<1> SUFFICES ASSUME IInv, [Next]_vars PROVE O!Next \/ UNCHANGED O!vars
  OBVIOUS
<1>1. ASSUME Next, NEW f \in Flows, Expire(f) PROVE O!Close
  <2>1. UNCHANGED <<row, flow, request>>
    BY <1>1 DEF Expire
  <2>2. \A g \in Flows : entry'[g] = "present" => entry[g] = "present"
    BY <1>1 DEF Expire, IInv, TypeOK
  <2>3. \A g \in Flows : InHand(g)' => InHand(g)
    BY <2>1, <2>2 DEF InHand
  <2> QED
    BY <1>1, <2>1, <2>3, Closing
<1>2. ASSUME Next, NEW k \in Keys, Disconnect(k) PROVE O!Disconnect
  <2>1. k \in Connected /\ Connected' = Connected \ {k}
    BY <1>2 DEF Disconnect, Connected, IInv, TypeOK
  <2>2. \A f \in Flows : OfferOf(f)' = OfferOf(f)
    BY <1>2 DEF Disconnect, OfferOf, InHand, Key
  <2> QED
    BY <2>1, <2>2 DEF O!Disconnect, Connected
<1>3. ASSUME Next, Crash PROVE O!Close
  <2>1. \A f \in Flows : /\ flow'[f].offered = flow[f].offered
                         /\ flow[f].offered # {} /\ InHand(f)' => InHand(f)
    BY <1>3, CrashEffect DEF InHand
  <2> QED
    BY <1>3, <2>1, CrashEffect, Closing
<1>4. CASE UNCHANGED vars
  <2>1. \A f \in Flows : OfferOf(f)' = OfferOf(f)
    BY <1>4 DEF vars, OfferOf, InHand, Key
  <2> QED
    BY <1>4, <2>1 DEF vars, O!vars
<1> QED
  BY <1>1, <1>2, <1>3, <1>4, FlowRefines, RequestRefines DEF Next, O!Next

-----------------------------------------------------------------------------
(* Theorems *)

LEMMA Inductive == Spec => []IInv
  BY InitIInv, StepIInv, PTL DEF Spec

\* Rows, flows, entries and requests have their types.
THEOREM ConnectionsTypeCorrect == Spec => []TypeOK
<1>1. IInv => TypeOK
  BY DEF IInv
<1> QED
  BY <1>1, Inductive, PTL

\* upsertConnection is reached only with a profile that a grant for that workspace
\* and platform offered, and that somebody of the workspace selected if it is one
\* of Facebook or Instagram.
THEOREM ConnectsOnlyChosen == Spec => []OnlyChosen
<1>1. IInv => OnlyChosen
  BY DEF IInv
<1> QED
  BY <1>1, Inductive, PTL

\* confirmCandidates answers only when its whole selection has been connected and
\* the entry is gone, and nothing uses the entry up but time or a run that went
\* through its whole selection, whether its answer was still given or not.
THEOREM AnswersWhenComplete == Spec => []ConfirmedIsComplete
  BY Inductive, AnswersAreComplete, PTL

\* The hand-over of a grant, from the callback through Redis to the connections,
\* implements Offers: what is used up, expired or dropped connects nothing again.
THEOREM ImplementsOffers == Spec => OfferSpec
  BY Inductive, InitOffers, StepOffers, PTL DEF Spec, OfferSpec, O!Spec, O!vars
=============================================================================
