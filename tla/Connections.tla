---------------------------- MODULE Connections -----------------------------
(***************************************************************************)
(* How OpsConnectionsService connects profiles of social platforms to a    *)
(* workspace: the OAuth link, its callback, the candidates a callback      *)
(* leaves in Redis for ten minutes, their confirmation, and disconnect.    *)
(* Facebook and Instagram go by way of candidates, LinkedIn and TikTok are *)
(* connected by the callback itself.  Each await is a step of its own, may *)
(* fail, and the process may die at it.                                    *)
(***************************************************************************)
EXTENDS FiniteSets, Integers

CONSTANTS
    Workspaces,
    Pages,       \* Facebook pages of the people who grant access
    Account,     \* Account[p]: the Instagram account of page p, or NoAccount
    NoAccount,
    Members,     \* LinkedIn and TikTok profiles
    Configured,  \* platforms whose variables are set in the environment
    Flows,       \* links handed out by getOAuthUrl, each followed once
    Requests,    \* requests to confirm candidates
    Selections,  \* sets of profile ids a client may send
    NoFlow, NoWorkspace, \* fields of what has not begun
    MaxFaults    \* bound: failed awaits and crashes, together

MetaPlatforms == {"facebook", "instagram"}
Platforms == MetaPlatforms \cup {"linkedin", "tiktok"}

Profiles == Pages \cup ({Account[p] : p \in Pages} \ {NoAccount}) \cup Members

ASSUME ConfiguredAssumption == Configured \subseteq Platforms
ASSUME SelectionsAssumption == Selections \subseteq SUBSET Profiles
ASSUME FieldsAssumption == NoFlow \notin Flows /\ NoWorkspace \notin Workspaces
ASSUME MaxFaultsAssumption == MaxFaults \in Nat

Keys == [workspace : Workspaces, platform : Platforms, profile : Profiles]

VARIABLES
    row,        \* row[k]: the platform_connections row of that unique key
    flow,       \* flow[f]: a link, then the run of its callback
    entry,      \* entry[f]: the Redis key candidates:<nonce> of flow f
    request,    \* request[q]: a run of confirmCandidates
    faults      \* faults so far (see MaxFaults)

vars == <<row, flow, entry, request, faults>>

\* A row that was deleted differs here from one that never was.
RowStates == {"none", "active", "removed"}
FlowPcs == {"none", "linked", "store", "connect", "over"}
FlowStates == [pc : FlowPcs, workspace : Workspaces \cup {NoWorkspace}, platform : Platforms,
               offered : SUBSET Profiles]
EntryStates == {"none", "present", "spent", "expired"}
RequestStates == [pc : {"none", "connect", "spend", "answer", "done", "refused", "failed"},
                  flow : Flows \cup {NoFlow}, workspace : Workspaces \cup {NoWorkspace},
                  asked : SUBSET Profiles, left : SUBSET Profiles]

TypeOK ==
    /\ row \in [Keys -> RowStates]
    /\ flow \in [Flows -> FlowStates]
    /\ entry \in [Flows -> EntryStates]
    /\ request \in [Requests -> RequestStates]
    /\ faults \in 0..MaxFaults

NewFlow == [pc |-> "none", workspace |-> NoWorkspace, platform |-> "facebook",
            offered |-> {}]
NewRequest == [pc |-> "none", flow |-> NoFlow, workspace |-> NoWorkspace,
               asked |-> {}, left |-> {}]
Dropped == [NewFlow EXCEPT !.pc = "over"]
Refused == [NewRequest EXCEPT !.pc = "refused"]

Init ==
    /\ row = [k \in Keys |-> "none"]
    /\ flow = [f \in Flows |-> NewFlow]
    /\ entry = [f \in Flows |-> "none"]
    /\ request = [q \in Requests |-> NewRequest]
    /\ faults = 0

Fault == faults < MaxFaults /\ faults' = faults + 1
Key(w, platform, profile) ==
    [workspace |-> w, platform |-> platform, profile |-> profile]

\* INSERT ... ON CONFLICT (workspace, platform, profile) DO UPDATE.
UpsertConnection(w, platform, profile) ==
    row' = [row EXCEPT ![Key(w, platform, profile)] = "active"]

-----------------------------------------------------------------------------
(* The link and its callback *)

\* The link carries workspace and platform in a signed state.
GetOAuthUrl(f, w, platform) ==
    /\ flow[f].pc = "none"
    /\ platform \in Configured
    /\ flow' = [flow EXCEPT ![f] =
          [@ EXCEPT !.pc = "linked", !.workspace = w, !.platform = platform]]
    /\ UNCHANGED <<row, entry, request, faults>>

\* Fifteen minutes are over: parseState refuses the state, the user is sent back.
StateExpires(f) ==
    /\ flow[f].pc = "linked"
    /\ flow' = [flow EXCEPT ![f] = Dropped]
    /\ UNCHANGED <<row, entry, request, faults>>

\* The candidates among the pages the platform gave a token for.
MetaCandidates(platform, pages) ==
    IF platform = "facebook" THEN pages
    ELSE {Account[p] : p \in pages} \ {NoAccount}

\* The code is exchanged and the pages are fetched; no candidate, no entry.
FetchPages(f) ==
    /\ flow[f].pc = "linked" /\ flow[f].platform \in MetaPlatforms
    /\ \E pages \in SUBSET Pages :
          LET found == MetaCandidates(flow[f].platform, pages)
          IN  flow' = [flow EXCEPT ![f] =
                IF found = {} THEN Dropped
                ELSE [@ EXCEPT !.pc = "store", !.offered = found]]
    /\ UNCHANGED <<row, entry, request, faults>>

\* SET candidates:<nonce> EX 600 under a nonce nobody had before.
StoreMetaCandidates(f) ==
    /\ flow[f].pc = "store"
    /\ entry' = [entry EXCEPT ![f] = "present"]
    /\ flow' = [flow EXCEPT ![f].pc = "over"]
    /\ UNCHANGED <<row, request, faults>>

\* LinkedIn and TikTok answer with the one profile of who agreed; TikTok may
\* leave it out, which is an error.
FetchProfile(f) ==
    /\ flow[f].pc = "linked" /\ flow[f].platform \notin MetaPlatforms
    /\ \/ \E member \in Members :
            flow' = [flow EXCEPT ![f] =
              [@ EXCEPT !.pc = "connect", !.offered = {member}]]
       \/ flow[f].platform = "tiktok" /\ flow' = [flow EXCEPT ![f] = Dropped]
    /\ UNCHANGED <<row, entry, request, faults>>

ConnectProfile(f) ==
    /\ flow[f].pc = "connect"
    /\ \E member \in flow[f].offered :
          UpsertConnection(flow[f].workspace, flow[f].platform, member)
    /\ flow' = [flow EXCEPT ![f].pc = "over"]
    /\ UNCHANGED <<entry, request, faults>>

\* The controller catches every error and redirects with its code.
CallbackFails(f) ==
    /\ Fault
    /\ flow[f].pc \in {"linked", "store", "connect"}
    /\ flow' = [flow EXCEPT ![f].pc = "over"]
    /\ UNCHANGED <<row, entry, request>>

Callback(f) ==
    \/ StateExpires(f) \/ FetchPages(f) \/ StoreMetaCandidates(f)
    \/ FetchProfile(f) \/ ConnectProfile(f) \/ CallbackFails(f)

-----------------------------------------------------------------------------
(* Candidates *)

Expire(f) ==
    /\ entry[f] = "present"
    /\ entry' = [entry EXCEPT ![f] = "expired"]
    /\ UNCHANGED <<row, flow, request, faults>>

\* Mutant: an entry is good as long as it was ever stored.
LoadableOnce(f, w) == entry[f] # "none" /\ flow[f].workspace = w

\* loadCandidateStore: there, and of this workspace.
Loadable(f, w) == entry[f] = "present" /\ flow[f].workspace = w

\* Mutant: all candidates are connected, selected or not.
SelectedAll(f, asked) == flow[f].offered

Selected(f, asked) == flow[f].offered \cap asked

\* Reads the entry and selects; not found, or nothing selected, is an answer.
BeginConfirm(q, f, w, asked) ==
    LET selected == Selected(f, asked)
    IN  /\ request[q].pc = "none"
        /\ entry[f] # "none"
        /\ request' = [request EXCEPT ![q] =
              IF Loadable(f, w) /\ selected # {}
              THEN [pc |-> "connect", flow |-> f, workspace |-> w,
                    asked |-> asked, left |-> selected]
              ELSE Refused]
        /\ UNCHANGED <<row, flow, entry, faults>>

\* The loop goes on after profile, or is done with its selection.
After(req, profile) ==
    [req EXCEPT !.left = req.left \ {profile},
                !.pc = IF req.left = {profile} THEN "spend" ELSE "connect"]

\* One turn of the loop.
ConfirmOne(q) ==
    /\ request[q].pc = "connect"
    /\ \E profile \in request[q].left :
        /\ UpsertConnection(request[q].workspace, flow[request[q].flow].platform, profile)
        /\ request' = [request EXCEPT ![q] = After(@, profile)]
    /\ UNCHANGED <<flow, entry, faults>>

\* The entry goes last: the DEL takes effect in Redis, its reply is awaited.
SpendEntry(q) ==
    LET f == request[q].flow
    IN  /\ request[q].pc = "spend"
        /\ entry' = [entry EXCEPT ![f] = IF @ = "present" THEN "spent" ELSE @]
        /\ request' = [request EXCEPT ![q].pc = "answer"]
        /\ UNCHANGED <<row, flow, faults>>

Answer(q) ==
    /\ request[q].pc = "answer"
    /\ request' = [request EXCEPT ![q].pc = "done"]
    /\ UNCHANGED <<row, flow, entry, faults>>

\* Mutant: an error in the loop goes unnoticed.
FailedConfirmDone == "done"

\* An upsert or the DEL throws, or the DEL took effect and its reply is lost: the
\* request fails, the rows written stay, and so does what the DEL did.
FailedConfirm == "failed"

ConfirmFails(q) ==
    /\ Fault
    /\ request[q].pc \in {"connect", "spend", "answer"}
    /\ request' = [request EXCEPT ![q].pc = FailedConfirm]
    /\ UNCHANGED <<row, flow, entry>>

Confirm(q) ==
    \/ \E f \in Flows, w \in Workspaces, asked \in Selections :
          BeginConfirm(q, f, w, asked)
    \/ ConfirmOne(q) \/ SpendEntry(q) \/ Answer(q) \/ ConfirmFails(q)

\* DELETE of a row of the caller's workspace.
Disconnect(k) ==
    /\ row[k] = "active"
    /\ row' = [row EXCEPT ![k] = "removed"]
    /\ UNCHANGED <<flow, entry, request, faults>>

\* The process dies; Redis and the database do not.
Crash ==
    /\ Fault
    /\ flow' = [f \in Flows |->
          IF flow[f].pc \in {"store", "connect"} THEN [flow[f] EXCEPT !.pc = "over"]
          ELSE flow[f]]
    /\ request' = [q \in Requests |->
          IF request[q].pc \in {"connect", "spend", "answer"}
          THEN [request[q] EXCEPT !.pc = "failed"] ELSE request[q]]
    /\ UNCHANGED <<row, entry>>

Next ==
    \/ \E f \in Flows, w \in Workspaces, platform \in Platforms :
          GetOAuthUrl(f, w, platform)
    \/ \E f \in Flows : Callback(f) \/ Expire(f)
    \/ \E q \in Requests : Confirm(q)
    \/ \E k \in Keys : Disconnect(k)
    \/ Crash

Spec == Init /\ [][Next]_vars

-----------------------------------------------------------------------------
(* Properties *)

\* The profile was offered by a grant given for that workspace and platform.
Granted(k, f) ==
    /\ flow[f].workspace = k.workspace /\ flow[f].platform = k.platform
    /\ k.profile \in flow[f].offered

Chosen(k, f) ==
    \E q \in Requests : /\ request[q].flow = f /\ request[q].workspace = k.workspace
                        /\ k.profile \in request[q].asked

\* A profile becomes a connection of a workspace only by a grant for that
\* workspace and platform, and a Facebook or Instagram one only when somebody of
\* the workspace selected it among the candidates of that very grant: never by
\* another workspace's token, nor because a page was in the grant.
OnlyChosen ==
    \A k \in Keys :
      row[k] # "none" =>
        \E f \in Flows :
          Granted(k, f) /\ (k.platform \in MetaPlatforms => Chosen(k, f))

\* Every profile confirmation q selected has been connected (and is, unless it
\* was disconnected since).
WholeSelection(q) ==
    \A profile \in Selected(request[q].flow, request[q].asked) :
       row[Key(request[q].workspace, flow[request[q].flow].platform, profile)] # "none"

\* An answer "connected" is the whole selection, however confirmations, failures
\* and a crash interleave, and the candidates cannot be loaded again.  Conversely
\* they are gone before ten minutes passed only by a confirmation that went
\* through its whole loop, answered or not: while each one of a flow broke in the
\* middle of its selection, another finds the candidates again.
ConfirmedIsComplete ==
    /\ \A q \in Requests :
         request[q].pc = "done" =>
           entry[request[q].flow] # "present" /\ WholeSelection(q)
    /\ \A f \in Flows :
         entry[f] = "spent" =>
           \E q \in Requests : /\ request[q].flow = f /\ request[q].left = {}
                               /\ WholeSelection(q)

\* A grant is an offer from the moment its profiles are known until nothing that
\* read them is under way and they cannot be read any more.
InHand(f) ==
    \/ flow[f].pc \in {"store", "connect"} \/ entry[f] = "present"
    \/ \E q \in Requests : request[q].flow = f /\ request[q].pc = "connect"

OfferOf(f) ==
    [state |-> IF flow[f].offered = {} THEN "none"
               ELSE IF InHand(f) THEN "open" ELSE "closed",
     keys |-> {Key(flow[f].workspace, flow[f].platform, p) : p \in flow[f].offered}]

O == INSTANCE Offers WITH offer <- [f \in Flows |-> OfferOf(f)],
                          connected <- {k \in Keys : row[k] = "active"}

\* The hand-over implements Offers: no connection appears, and none that was
\* removed comes back, from a grant that was used up, expired or dropped.
OfferSpec == O!Spec
=============================================================================
