-------------------------- MODULE PublishingProofs --------------------------
(***************************************************************************)
(* Proofs, for every value of the constants, of the properties Publishing  *)
(* states under any interleaving, crash and failed call, and of those it   *)
(* states for clients that call one at a time and edit only drafts.        *)
(***************************************************************************)
EXTENDS Publishing, TLAPS

-----------------------------------------------------------------------------
(* The inductive invariant *)

\* Only the worker of an active job is busy, so no second worker can take the
\* job, and no handler can remove it; a job that may still run has runs left.
JobInv ==
    /\ worker.pc # "idle" => job.state = "active"
    /\ job.state # "failed" => job.tries < Attempts /\ job.stalls <= MaxStalls

\* A save of 'scheduled' not yet spent: it stands in the row, or the worker
\* has read it and is about to overwrite it.
Armed == IF row.status = "scheduled" \/ worker.pc = "mark" THEN 1 ELSE 0

\* A publication the running worker may still make on f.
Pending(f) ==
    IF \/ worker.pc = "profiles"
       \/ worker.pc \in {"loop", "recordOk", "recordFail"} /\ f \in worker.todo
    THEN 1 ELSE 0

ArmInv == \A f \in Profiles : posted[f] + Armed + Pending(f) <= arms

SomePosted == \E f \in Profiles : posted[f] > 0
Saving(r) == request[r].pc = "save"

\* An approve was saved, or a body gave the row the status 'approved'; and
\* the same for 'published', of which no transition is the source.
Cleared == approved \/ "approved" \in given
Declared == "published" \in given \/ SomePosted

\* Whoever has seen the row 'approved' came after that; the schedule operation
\* is one of them, its event is the only one that leads to a job, and nothing
\* is published without a job.
ApprovalInv ==
    /\ row.status = "approved" => Cleared
    /\ \A r \in Requests : Saving(r) =>
          /\ request[r].op \in RoutedOps /\ request[r].copy.status # "absent"
          /\ request[r].from = "approved" => Cleared
          /\ request[r].op \in TransitionOps =>
                /\ request[r].from = Transitions(request[r].op).from
                /\ request[r].copy.status = Transitions(request[r].op).to
    /\ \A s \in Slots : Scheduling(s) => Cleared
    /\ job.state # "none" => Cleared
    /\ SomePosted => Cleared

\* A copy that still says what its caller read is as true as the row was; the
\* worker's count of successes is later than a publication.
PublishedInv ==
    /\ row.status = "published" => Declared
    /\ \A r \in Requests : Saving(r) =>
          /\ request[r].from = "published" => Declared
          /\ request[r].copy.status = "published" =>
                request[r].from = "published" \/ request[r].op = "update"
    /\ worker.ok \/ worker.pc = "recordOk" => SomePosted

IInv == TypeOK /\ JobInv /\ ArmInv /\ ApprovalInv /\ PublishedInv

-----------------------------------------------------------------------------
(* Type correctness *)

\* A call that starts holds a typed copy: the target of its transition, the
\* row itself, or what a body says.
LEMMA BeginShape ==
    ASSUME TypeOK, NEW r \in Requests, BeginRequest(r)
    PROVE  \E op \in RoutedOps, copy \in Rows :
              /\ Begin(r, op, copy) /\ copy.status # "absent"
              /\ op \in TransitionOps => /\ row.status = Transitions(op).from
                                         /\ copy.status = Transitions(op).to
              /\ op = "delete" => copy = row
<1> USE DEF Rows, Statuses
<1>1. ASSUME NEW op \in TransitionOps \ {"schedule"}, BeginTransition(r, op)
      PROVE  /\ Begin(r, op, [row EXCEPT !.status = Transitions(op).to])
             /\ row.status = Transitions(op).from
             /\ [row EXCEPT !.status = Transitions(op).to] \in Rows
             /\ op # "delete" /\ Transitions(op).to # "absent"
  BY <1>1 DEF TypeOK, BeginTransition, Transitions, TransitionOps
<1>2. CASE \E op \in TransitionOps \ {"schedule"} : BeginTransition(r, op)
  <2>1. PICK op \in TransitionOps \ {"schedule"} : BeginTransition(r, op)
    BY <1>2
  <2> DEFINE copy == [row EXCEPT !.status = Transitions(op).to]
  <2>2. copy.status = Transitions(op).to
    BY DEF TypeOK
  <2>3. /\ Begin(r, op, copy) /\ copy \in Rows /\ op \in RoutedOps
        /\ op # "delete" /\ row.status = Transitions(op).from
        /\ copy.status # "absent"
    BY <1>1, <2>1, <2>2 DEF RoutedOps
  <2> HIDE DEF copy
  <2> QED BY <2>2, <2>3
<1>3. CASE \E at \in Times : BeginSchedule(r, at)
  BY <1>3 DEF TypeOK, BeginSchedule, Transitions, RoutedOps, TransitionOps, Times
<1>4. CASE \E status \in Statuses, at \in Times : BeginUpdate(r, status, at)
  <2>1. PICK status \in Statuses, at \in Times : BeginUpdate(r, status, at)
    BY <1>4
  <2> DEFINE copy == [status |-> status, at |-> at]
  <2>2. copy \in Rows /\ copy.status # "absent" /\ Begin(r, "update", copy)
    BY <2>1 DEF BeginUpdate
  <2>3. "update" \in RoutedOps /\ "update" \notin TransitionOps
    BY DEF RoutedOps, TransitionOps
  <2> HIDE DEF copy
  <2> QED BY <2>2, <2>3
<1>5. CASE BeginDelete(r)
  BY <1>5 DEF TypeOK, BeginDelete, Begin, RoutedOps, TransitionOps
<1> QED BY <1>2, <1>3, <1>4, <1>5 DEF BeginRequest

\* The initial states satisfy every conjunct of the invariant.
LEMMA InitIInv == Init => IInv
<1> USE BoundsAssumption
<1> SUFFICES ASSUME Init PROVE IInv
  OBVIOUS
<1>1. TypeOK
  <2>1. job \in Jobs
    BY DEF Init, Jobs, NoJob, Attempts, MaxStalls
  <2>2. row \in Rows /\ worker \in Workers /\ now \in Times
    BY DEF Init, Rows, NoRow, Times, Workers, IdleWorker
  <2>3. /\ request \in [Requests -> RequestStates]
        /\ handler \in [Slots -> HandlerStates]
    BY DEF Init, RequestStates, IdleRequest, HandlerStates, IdleHandler, Rows,
           NoRow, Times
  <2>4. posted \in [Profiles -> Nat]
    BY DEF Init
  <2>5. budget \in [calls : 0..MaxCalls, crashes : 0..MaxCrashes,
                   faults : 0..MaxFaults]
    BY DEF Init
  <2> QED BY <2>1, <2>2, <2>3, <2>4, <2>5 DEF Init, TypeOK
<1>2. JobInv
  BY DEF Init, JobInv, NoJob, IdleWorker, Attempts, MaxStalls
<1>3. ArmInv
  BY DEF Init, ArmInv, Armed, Pending, NoRow, IdleWorker
<1>4. ApprovalInv
  BY DEF Init, ApprovalInv, SomePosted, Saving, Scheduling, NoRow, NoJob,
         IdleRequest, IdleHandler
<1>5. PublishedInv
  BY DEF Init, PublishedInv, SomePosted, Saving, NoRow, IdleRequest, IdleWorker
<1> QED BY <1>1, <1>2, <1>3, <1>4, <1>5 DEF IInv

LEMMA TypeStep ==
    TypeOK /\ JobInv /\ ApprovalInv /\ [Next]_vars => TypeOK'
<1> SUFFICES ASSUME TypeOK, JobInv, ApprovalInv, [Next]_vars PROVE TypeOK'
  OBVIOUS
<1> USE BoundsAssumption DEF TypeOK, Rows, Times, Statuses, Attempts, MaxStalls
<1>1. CASE CreatePost
  BY <1>1, BodyAssumption DEF CreatePost
<1>2. ASSUME NEW r \in Requests, BeginRequest(r) PROVE TypeOK'
  <2>1. PICK op \in RoutedOps, copy \in Rows : Begin(r, op, copy)
    BY <1>2, BeginShape
  <2> QED BY <2>1 DEF Begin, RequestStates, history
<1>3. ASSUME NEW r \in Requests, ServeRequest(r) PROVE TypeOK'
  <2>1. CASE SavePost(r)
    <3>1. handler' \in [Slots -> HandlerStates]
      BY <2>1 DEF SavePost, HandlerFor, HandlerStates, IdleHandler
    <3>2. request' \in [Requests -> RequestStates]
      BY <2>1 DEF SavePost, RequestStates, IdleRequest, NoRow
    <3>3. row' \in Rows /\ arms' \in Nat /\ submissions' \in Nat
          /\ approved' \in BOOLEAN
      BY <2>1 DEF SavePost, RequestStates
    <3>4. given' \subseteq Statuses
      <4>1. request[r].copy.status \in Statuses
        BY <2>1 DEF SavePost, ApprovalInv, Saving, RequestStates
      <4> QED BY <2>1, <4>1 DEF SavePost
    <3> QED BY <2>1, <3>1, <3>2, <3>3, <3>4 DEF SavePost
  <2>2. CASE RemovePost(r)
    BY <2>2 DEF RemovePost, RequestStates, IdleRequest, NoRow, history
  <2>3. CASE SaveDecision(r)
    BY <2>3 DEF SaveDecision, RequestStates, IdleRequest, NoRow, history
  <2> QED BY <1>3, <2>1, <2>2, <2>3 DEF ServeRequest
<1>4. ASSUME NEW r \in Requests, RequestFails(r) PROVE TypeOK'
  BY <1>4 DEF RequestFails, Fault, RequestStates, IdleRequest, NoRow,
                        history
<1>5. ASSUME NEW s \in Slots, Handle(s) PROVE TypeOK'
  <2> USE DEF handlerFrame, SetHandler, HandlerEnds, HandlerDrops, HandlerStates,
              IdleHandler
  <2>1. CASE LookupPost(s)
    <3>1. handler' \in [Slots -> HandlerStates]
      <4>1. CASE HandlerDrops(s)
        BY <4>1
      <4>2. CASE SetHandler(s, "probe", row.at - now) /\ InTime(row.at)
        <5>1. row.at - now \in Nat
          BY <4>2 DEF InTime
        <5> QED BY <4>2, <5>1
      <4> QED BY <2>1, <4>1, <4>2 DEF LookupPost
    <3>2. dropped' \in BOOLEAN
      BY <2>1 DEF LookupPost
    <3> QED BY <2>1, <3>1, <3>2 DEF LookupPost
  <2>2. CASE ProbeJob(s)
    BY <2>2 DEF ProbeJob
  <2>3. CASE RemoveJob(s)
    <3>1. handler' \in [Slots -> HandlerStates] /\ dropped' \in BOOLEAN
      <4>1. CASE HandlerDrops(s)
        BY <4>1
      <4>2. CASE SetHandler(s, "add", handler[s].delay)
        BY <4>2
      <4> QED BY <2>3, <4>1, <4>2 DEF RemoveJob
    <3>2. job' \in Jobs
      BY <2>3 DEF RemoveJob, Jobs, NoJob
    <3> QED BY <2>3, <3>1, <3>2 DEF RemoveJob
  <2>4. CASE AddJob(s)
    <3>1. now + JobDelay(s) \in Nat
      BY DEF JobDelay, HandlerStates
    <3>2. job' \in Jobs
      <4>1. NoJob \in Jobs
        BY DEF Jobs, NoJob
      <4>2. [NoJob EXCEPT !.state = "delayed", !.due = now + JobDelay(s)] \in Jobs
        BY <3>1, <4>1 DEF Jobs
      <4> QED BY <2>4, <4>2 DEF AddJob
    <3> QED BY <2>4, <3>2 DEF AddJob
  <2>5. CASE CancelProbe(s)
    BY <2>5 DEF CancelProbe
  <2>6. CASE CancelRemove(s)
    BY <2>6 DEF CancelRemove, Jobs, NoJob
  <2> QED BY <1>5, <2>1, <2>2, <2>3, <2>4, <2>5, <2>6 DEF Handle
<1>6. ASSUME NEW s \in Slots, HandlerFails(s) PROVE TypeOK'
  BY <1>6 DEF HandlerFails, Fault, HandlerDrops, handlerFrame, HandlerStates,
              IdleHandler
<1>7. CASE PromoteJob
  BY <1>7 DEF PromoteJob, queueFrame, history, Jobs
<1>8. CASE TakeJob
  <2>1. job' \in Jobs
    BY <1>8 DEF TakeJob, Jobs
  <2>2. worker' \in Workers
    <3>1. PICK pc \in {"load", "done"} : worker' = [IdleWorker EXCEPT !.pc = pc]
      BY <1>8 DEF TakeJob
    <3>2. IdleWorker \in Workers
      BY DEF Workers, IdleWorker, NoRow
    <3> QED BY <3>1, <3>2 DEF Workers
  <2> QED BY <1>8, <2>1, <2>2 DEF TakeJob, queueFrame, history
<1>9. CASE CompleteJob
  BY <1>9 DEF CompleteJob, queueFrame, history, Jobs, NoJob, Workers, IdleWorker,
              NoRow
<1>10. CASE RestartStalledJob
  <2>1. job.stalls + 1 \in 0..MaxStalls + 1
    BY <1>10 DEF RestartStalledJob, Jobs, JobInv
  <2>2. job' \in Jobs
    BY <1>10, <2>1 DEF RestartStalledJob, Jobs
  <2> QED BY <1>10, <2>2 DEF RestartStalledJob, queueFrame, history
<1>11. CASE Work
  <2> USE DEF workerFrame, Workers
  <2>1. CASE LoadPost
    BY <2>1 DEF LoadPost
  <2>2. CASE MarkPublishing
    BY <2>2 DEF MarkPublishing
  <2>3. CASE LoadProfiles
    BY <2>3 DEF LoadProfiles
  <2>4. ASSUME NEW f \in Profiles, PublishTo(f) PROVE TypeOK'
    <3>1. posted' \in [Profiles -> Nat]
      <4>1. PICK published \in BOOLEAN :
              posted' = [posted EXCEPT ![f] = @ + (IF published THEN 1 ELSE 0)]
        BY <2>4 DEF PublishTo
      <4>2. (IF published THEN 1 ELSE 0) \in Nat
        OBVIOUS
      <4> QED BY <4>1, <4>2
    <3>2. worker' \in Workers
      <4>1. PICK pc \in {"recordOk", "recordFail"} :
              worker' = [worker EXCEPT !.pc = pc, !.todo = @ \ {f}]
        BY <2>4 DEF PublishTo
      <4> QED BY <4>1
    <3> QED BY <2>4, <3>1, <3>2 DEF PublishTo
  <2>5. CASE RecordOk
    <3>1. /\ attempts' \subseteq {"published", "failed"}
          /\ worker' \in Workers
      BY <2>5 DEF RecordOk
    <3>2. budget' \in [calls : 0..MaxCalls, crashes : 0..MaxCrashes,
                       faults : 0..MaxFaults]
      BY <2>5 DEF RecordOk, Fault
    <3> QED BY <2>5, <3>1, <3>2 DEF RecordOk
  <2>6. CASE RecordFail
    BY <2>6 DEF RecordFail
  <2>7. CASE LeaveLoop
    BY <2>7 DEF LeaveLoop
  <2>8. CASE SaveOutcome
    BY <2>8 DEF SaveOutcome, FinalStatus, HandlerFor, HandlerStates,
                IdleHandler
  <2>9. CASE WorkerThrows
    <3>1. worker.pc # "idle"
      BY <2>9 DEF WorkerThrows
    <3>2. job' \in Jobs
      <4>1. job.tries + 1 \in 0..Attempts
        BY <3>1 DEF Jobs, JobInv
      <4>2. PICK state \in {"delayed", "failed"} :
              job' = [job EXCEPT !.tries = @ + 1, !.due = now, !.state = state]
        BY <2>9 DEF WorkerThrows, FailAttempt
      <4>3. now \in Nat
        OBVIOUS
      <4> QED BY <4>1, <4>2, <4>3 DEF Jobs
    <3> QED
      BY <2>9, <3>2 DEF WorkerThrows, FailAttempt, Fault, IdleWorker, NoRow, history
  <2> QED BY <1>11, <2>1, <2>2, <2>3, <2>4, <2>5, <2>6, <2>7, <2>8, <2>9
          DEF Work
<1>12. CASE Crash
  BY <1>12 DEF Crash, RequestStates, IdleRequest, NoRow, HandlerStates,
               IdleHandler, Workers, IdleWorker
<1>13. CASE Tick
  BY <1>13 DEF Tick, history
<1>14. CASE UNCHANGED vars
  BY <1>14 DEF vars
<1> QED BY <1>1, <1>2, <1>3, <1>4, <1>5, <1>6, <1>7, <1>8, <1>9, <1>10,
           <1>11, <1>12, <1>13, <1>14 DEF Next

-----------------------------------------------------------------------------
(* The other conjuncts of the invariant, step by step *)

\* Job discipline: a busy worker keeps its job active.
LEMMA JobStep == TypeOK /\ JobInv /\ [Next]_vars => JobInv'
<1> SUFFICES ASSUME TypeOK, JobInv, [Next]_vars PROVE JobInv'
  OBVIOUS
<1> USE DEF JobInv, NoJob, IdleWorker, Attempts, MaxStalls, history
<1>1. CASE CreatePost \/ Tick \/ Crash
  BY <1>1 DEF CreatePost, Tick, Crash
<1>2. ASSUME NEW r \in Requests,
             BeginRequest(r) \/ ServeRequest(r) \/ RequestFails(r)
      PROVE  JobInv'
  BY <1>2 DEF BeginRequest, BeginTransition, BeginSchedule, BeginUpdate,
              BeginDelete, Begin, ServeRequest, SavePost, RemovePost,
              SaveDecision, RequestFails
<1>3. ASSUME NEW s \in Slots, Handle(s) \/ HandlerFails(s) PROVE JobInv'
  <2> USE DEF handlerFrame
  <2>1. CASE LookupPost(s) \/ ProbeJob(s) \/ CancelProbe(s) \/ HandlerFails(s)
    BY <2>1 DEF LookupPost, ProbeJob, CancelProbe, HandlerFails
  <2>2. CASE RemoveJob(s) \/ CancelRemove(s)
    BY <2>2 DEF RemoveJob, CancelRemove
  <2>3. CASE AddJob(s)
    BY <2>3 DEF AddJob
  <2> QED BY <1>3, <2>1, <2>2, <2>3 DEF Handle
<1>4. CASE PromoteJob \/ TakeJob \/ CompleteJob
  BY <1>4 DEF PromoteJob, TakeJob, CompleteJob, queueFrame, TypeOK, Jobs
<1>5. CASE RestartStalledJob
  <2>1. job.stalls \in Nat /\ job.stalls <= 1 /\ job.tries < 3
    BY <1>5 DEF RestartStalledJob, TypeOK, Jobs
  <2>2. CASE job.stalls < MaxStalls
    BY <1>5, <2>1, <2>2 DEF RestartStalledJob, queueFrame, TypeOK, Jobs
  <2>3. CASE ~(job.stalls < MaxStalls)
    BY <1>5, <2>1, <2>3 DEF RestartStalledJob, queueFrame, TypeOK, Jobs
  <2> QED BY <2>2, <2>3
<1>6. CASE Work
  <2>1. CASE WorkerThrows
    BY <2>1 DEF WorkerThrows, FailAttempt, TriesLeft, TypeOK, Jobs
  <2>2. CASE ~WorkerThrows
    <3>1. job' = job /\ worker.pc # "idle"
      BY <1>6, <2>2 DEF Work, LoadPost, MarkPublishing, LoadProfiles, PublishTo,
                RecordOk, RecordFail, LeaveLoop, SaveOutcome, workerFrame
    <3> QED BY <3>1
  <2> QED BY <2>1, <2>2
<1>7. CASE UNCHANGED vars
  BY <1>7 DEF vars
<1> QED BY <1>1, <1>2, <1>3, <1>4, <1>5, <1>6, <1>7 DEF Next

\* Arming: a save of 'scheduled' pays one unit; marking the row spends it and
\* leaves one publication pending per profile; the loop spends those.
LEMMA ArmStep == TypeOK /\ JobInv /\ ArmInv /\ [Next]_vars => ArmInv'
<1> SUFFICES ASSUME TypeOK, JobInv, ArmInv, [Next]_vars,
                    NEW f \in Profiles
             PROVE  (posted[f] + Armed + Pending(f) <= arms)'
  BY DEF ArmInv
<1> USE DEF Armed, Pending, history
<1>0. /\ posted[f] \in Nat /\ arms \in Nat
      /\ posted[f] + Armed + Pending(f) <= arms
  BY DEF TypeOK, ArmInv
<1>1. CASE CreatePost
  BY <1>0, <1>1 DEF CreatePost
<1>2. ASSUME NEW r \in Requests, BeginRequest(r)
      PROVE  (posted[f] + Armed + Pending(f) <= arms)'
  BY <1>0, <1>2 DEF BeginRequest, BeginTransition, BeginSchedule, BeginUpdate,
                    BeginDelete, Begin
<1>3. ASSUME NEW r \in Requests, ServeRequest(r) \/ RequestFails(r)
      PROVE  (posted[f] + Armed + Pending(f) <= arms)'
  <2>1. CASE SavePost(r)
    BY <1>0, <2>1 DEF SavePost
  <2>2. CASE RemovePost(r)
    BY <1>0, <2>2 DEF RemovePost, NoRow
  <2>3. CASE SaveDecision(r) \/ RequestFails(r)
    BY <1>0, <2>3 DEF SaveDecision, RequestFails
  <2> QED BY <1>3, <2>1, <2>2, <2>3 DEF ServeRequest
<1>4. ASSUME NEW s \in Slots, Handle(s) \/ HandlerFails(s)
      PROVE  (posted[f] + Armed + Pending(f) <= arms)'
  BY <1>0, <1>4 DEF Handle, LookupPost, ProbeJob, RemoveJob, AddJob,
                    CancelProbe, CancelRemove, HandlerFails, handlerFrame
<1>5. CASE PromoteJob \/ TakeJob \/ CompleteJob \/ RestartStalledJob
  BY <1>0, <1>5 DEF PromoteJob, TakeJob, CompleteJob, RestartStalledJob,
                    queueFrame, IdleWorker
<1>6. CASE Work
  <2> USE <1>0 DEF workerFrame
  <2> USE DEF TypeOK, Workers
  <2>1. CASE LoadPost
    BY <2>1 DEF LoadPost, MayPublish
  <2>2. CASE MarkPublishing
    BY <2>2 DEF MarkPublishing, Rows
  <2>3. CASE LoadProfiles
    BY <2>3 DEF LoadProfiles
  <2>4. ASSUME NEW g \in Profiles, PublishTo(g)
        PROVE  (posted[f] + Armed + Pending(f) <= arms)'
    <3>1. PICK published \in BOOLEAN, pc \in {"recordOk", "recordFail"} :
            /\ posted' = [posted EXCEPT ![g] = @ + (IF published THEN 1 ELSE 0)]
            /\ worker' = [worker EXCEPT !.pc = pc, !.todo = @ \ {g}]
      BY <2>4 DEF PublishTo
    <3>2. worker.pc = "loop" /\ g \in worker.todo /\ row' = row /\ arms' = arms
      BY <2>4 DEF PublishTo
    <3>3. CASE f = g
      BY <3>1, <3>2, <3>3
    <3>4. CASE f # g
      BY <3>1, <3>2, <3>4
    <3> QED BY <3>3, <3>4
  <2>5. CASE RecordOk \/ RecordFail \/ LeaveLoop
    BY <2>5 DEF RecordOk, RecordFail, LeaveLoop
  <2>6. CASE SaveOutcome
    BY <2>6 DEF SaveOutcome, FinalStatus, Rows
  <2>7. CASE WorkerThrows
    BY <2>7 DEF WorkerThrows, FailAttempt, IdleWorker
  <2> QED BY <1>6, <2>1, <2>2, <2>3, <2>4, <2>5, <2>6, <2>7 DEF Work
<1>7. CASE Crash
  BY <1>0, <1>7 DEF Crash, IdleWorker
<1>8. CASE Tick \/ UNCHANGED vars
  BY <1>0, <1>8 DEF Tick, vars
<1> QED BY <1>1, <1>2, <1>3, <1>4, <1>5, <1>6, <1>7, <1>8 DEF Next

\* Approval: the row turns 'approved' by an approve or a body, 'schedule' is
\* called on an approved row only, and its save starts the one handler that
\* adds a job.
LEMMA ApprovalStep == TypeOK /\ JobInv /\ ApprovalInv /\ [Next]_vars => ApprovalInv'
<1> SUFFICES ASSUME TypeOK, JobInv, ApprovalInv, [Next]_vars PROVE ApprovalInv'
  OBVIOUS
<1> USE DEF ApprovalInv, SomePosted, Saving, Cleared, Scheduling, history
<1>1. CASE CreatePost
  BY <1>1 DEF CreatePost, TypeOK, Rows, Statuses
<1>2. ASSUME NEW r \in Requests, BeginRequest(r) PROVE ApprovalInv'
  <2>1. PICK op \in RoutedOps, copy \in Rows :
          /\ Begin(r, op, copy) /\ copy.status # "absent"
          /\ op \in TransitionOps => /\ row.status = Transitions(op).from
                                     /\ copy.status = Transitions(op).to
    BY <1>2, BeginShape
  <2>2. /\ request' = [request EXCEPT ![r] =
              [pc |-> "save", op |-> op, from |-> row.status, copy |-> copy]]
        /\ UNCHANGED <<row, job, handler, posted, approved, given>>
    BY <2>1 DEF Begin
  <2>3. ASSUME NEW q \in Requests, request'[q].pc = "save"
        PROVE  /\ request'[q].op \in RoutedOps /\ request'[q].copy.status # "absent"
               /\ request'[q].from = "approved" => Cleared
               /\ request'[q].op \in TransitionOps =>
                     /\ request'[q].from = Transitions(request'[q].op).from
                     /\ request'[q].copy.status = Transitions(request'[q].op).to
    <3>1. CASE q = r
      <4>1. request'[q] =
              [pc |-> "save", op |-> op, from |-> row.status, copy |-> copy]
        BY <2>2, <3>1 DEF TypeOK
      <4> QED BY <2>1, <4>1
    <3>2. CASE q # r
      <4>1. request'[q] = request[q]
        BY <2>2, <3>2 DEF TypeOK
      <4> QED BY <2>3, <4>1
    <3> QED BY <3>1, <3>2
  <2>4. Cleared' = Cleared
    BY <2>2
  <2> HIDE DEF Cleared
  <2> QED BY <2>2, <2>3, <2>4
<1>3. ASSUME NEW r \in Requests, ServeRequest(r) PROVE ApprovalInv'
  <2>1. CASE SavePost(r)
    <3>1. /\ row' = request[r].copy /\ UNCHANGED <<job, posted>>
          /\ approved' = (approved \/ request[r].op = "approve")
          /\ given \subseteq given' /\ Saving(r) /\ Saving(r)' = FALSE
          /\ request[r] \in RequestStates /\ request[r].op # "delete"
          /\ request[r].op \in RoutedOps
      BY <2>1 DEF SavePost, TypeOK, RequestStates, IdleRequest
    <3>2. \A q \in Requests : q # r => request'[q] = request[q]
      BY <2>1 DEF SavePost, TypeOK
    <3>3. Cleared => Cleared'
      BY <3>1
    <3>4. row'.status = "approved" => Cleared'
      <4>1. CASE request[r].op = "update"
        BY <2>1, <3>1, <3>3, <4>1 DEF SavePost, TypeOK, RequestStates
      <4>2. CASE request[r].op \in TransitionOps
        BY <3>1, <4>2 DEF Transitions, TransitionOps
      <4> QED BY <3>1, <4>1, <4>2 DEF RoutedOps
    <3>5. \A s \in Slots : Scheduling(s)' => Cleared'
      <4> SUFFICES ASSUME NEW s \in Slots, Scheduling(s)' PROVE Cleared'
        OBVIOUS
      <4>1. CASE handler'[s] = handler[s]
        BY <3>3, <4>1
      <4>2. CASE handler'[s] # handler[s]
        <5>1. /\ request[r].op # "update" /\ s = r
              /\ handler'[s] = HandlerFor(request[r].from, request[r].copy.status)
          BY <2>1, <4>2 DEF SavePost, TypeOK
        <5>2. request[r].op \in TransitionOps /\ request[r].copy.status = "scheduled"
          <6>1. request[r].op \in TransitionOps
            BY <3>1, <5>1 DEF RoutedOps
          <6>2. request[r].copy.status = "scheduled"
            BY <5>1 DEF HandlerFor, IdleHandler
          <6> QED BY <6>1, <6>2
        <5>3. request[r].from = "approved"
          BY <3>1, <5>2 DEF Transitions, TransitionOps
        <5> QED BY <3>1, <3>3, <5>3
      <4> QED BY <4>1, <4>2
    <3> HIDE DEF Cleared, Scheduling
    <3> QED BY <3>1, <3>2, <3>3, <3>4, <3>5
  <2>2. CASE RemovePost(r) \/ SaveDecision(r)
    BY <2>2 DEF RemovePost, SaveDecision, TypeOK, NoRow, IdleRequest
  <2> QED BY <1>3, <2>1, <2>2 DEF ServeRequest
<1>4. ASSUME NEW r \in Requests, RequestFails(r) PROVE ApprovalInv'
  BY <1>4 DEF RequestFails, TypeOK, IdleRequest
<1>5. ASSUME NEW s \in Slots, Handle(s) \/ HandlerFails(s) PROVE ApprovalInv'
  <2>1. UNCHANGED <<row, request, posted, approved, given>>
    BY <1>5 DEF Handle, LookupPost, ProbeJob, RemoveJob, AddJob, CancelProbe,
                CancelRemove, HandlerFails, handlerFrame
  <2>2. Scheduling(s)' => Scheduling(s)
    BY <1>5 DEF Handle, LookupPost, ProbeJob, RemoveJob, AddJob, CancelProbe,
                CancelRemove, HandlerFails, SetHandler, HandlerEnds, HandlerDrops,
                IdleHandler, TypeOK
  <2>3. \A q \in Slots : q # s => handler'[q] = handler[q]
    BY <1>5 DEF Handle, LookupPost, ProbeJob, RemoveJob, AddJob, CancelProbe,
                CancelRemove, HandlerFails, SetHandler, HandlerEnds, HandlerDrops,
                TypeOK
  <2>4. job'.state # "none" => job.state # "none" \/ Scheduling(s)
    BY <1>5 DEF Handle, LookupPost, ProbeJob, RemoveJob, AddJob, CancelProbe,
                CancelRemove, HandlerFails, NoJob
  <2> QED BY <2>1, <2>2, <2>3, <2>4
<1>6. CASE PromoteJob \/ TakeJob \/ CompleteJob \/ RestartStalledJob
  BY <1>6 DEF PromoteJob, TakeJob, CompleteJob, RestartStalledJob, queueFrame,
              IdleWorker, NoJob
<1>7. CASE Work
  <2>1. Cleared /\ Cleared'
    BY <1>7 DEF Work, LoadPost, MarkPublishing, LoadProfiles, PublishTo, RecordOk,
                RecordFail, LeaveLoop, SaveOutcome, WorkerThrows, workerFrame, JobInv
  <2>2. UNCHANGED request
    BY <1>7 DEF Work, LoadPost, MarkPublishing, LoadProfiles, PublishTo, RecordOk,
                RecordFail, LeaveLoop, SaveOutcome, WorkerThrows, workerFrame
  <2> HIDE DEF Cleared
  <2> QED BY <2>1, <2>2
<1>8. CASE Crash
  BY <1>8 DEF Crash, IdleHandler, IdleRequest
<1>9. CASE Tick \/ UNCHANGED vars
  BY <1>9 DEF Tick, vars
<1> QED BY <1>1, <1>2, <1>3, <1>4, <1>5, <1>6, <1>7, <1>8, <1>9 DEF Next

\* No action takes a publication back.
LEMMA PostedStays == TypeOK /\ [Next]_vars /\ SomePosted => SomePosted'
<1> SUFFICES ASSUME TypeOK, [Next]_vars, NEW f \in Profiles, posted[f] > 0
             PROVE  posted'[f] > 0
  BY DEF SomePosted
<1>1. CASE Work
  <2>1. ASSUME NEW g \in Profiles, PublishTo(g) PROVE posted'[f] > 0
    <3>1. PICK published \in BOOLEAN :
            posted' = [posted EXCEPT ![g] = @ + (IF published THEN 1 ELSE 0)]
      BY <2>1 DEF PublishTo
    <3> QED BY <3>1 DEF TypeOK
  <2>2. CASE ~ \E g \in Profiles : PublishTo(g)
    BY <1>1, <2>2 DEF Work, LoadPost, MarkPublishing, LoadProfiles, RecordOk,
          RecordFail, LeaveLoop, SaveOutcome, WorkerThrows, history
  <2> QED BY <2>1, <2>2
<1>2. ASSUME NEW r \in Requests,
             BeginRequest(r) \/ ServeRequest(r) \/ RequestFails(r)
      PROVE  posted' = posted
  BY <1>2 DEF history, BeginRequest, BeginTransition, BeginSchedule, BeginUpdate,
              BeginDelete, Begin, ServeRequest, SavePost, RemovePost,
              SaveDecision, RequestFails
<1>3. ASSUME NEW s \in Slots, Handle(s) \/ HandlerFails(s)
      PROVE  posted' = posted
  BY <1>3 DEF Handle, LookupPost, ProbeJob, RemoveJob, AddJob, CancelProbe,
              CancelRemove, HandlerFails, handlerFrame
<1>4. CASE \/ CreatePost \/ PromoteJob \/ TakeJob \/ CompleteJob
           \/ RestartStalledJob \/ Crash \/ Tick \/ UNCHANGED vars
  BY <1>4 DEF history, CreatePost, PromoteJob, TakeJob, CompleteJob, RestartStalledJob,
              queueFrame, Crash, Tick, vars
<1> QED BY <1>1, <1>2, <1>3, <1>4 DEF Next

\* 'published' is written by a body, from a copy that was read as published,
\* or by the worker after a success; a success is a publication.
LEMMA PublishedStep ==
    TypeOK /\ PublishedInv /\ [Next]_vars => PublishedInv'
<1> SUFFICES ASSUME TypeOK, PublishedInv, [Next]_vars PROVE PublishedInv'
  OBVIOUS
<1>0. SomePosted => SomePosted'
  BY PostedStays
<1> USE <1>0 DEF PublishedInv, Saving, Declared, history
<1>1. CASE CreatePost
  BY <1>1 DEF CreatePost, TypeOK, Rows, Statuses
<1>2. ASSUME NEW r \in Requests, BeginRequest(r) PROVE PublishedInv'
  <2>1. PICK op \in RoutedOps, copy \in Rows :
          /\ Begin(r, op, copy)
          /\ op \in TransitionOps => copy.status = Transitions(op).to
          /\ op = "delete" => copy = row
    BY <1>2, BeginShape
  <2>2. /\ request' = [request EXCEPT ![r] =
              [pc |-> "save", op |-> op, from |-> row.status, copy |-> copy]]
        /\ UNCHANGED <<row, worker, given, posted>>
    BY <2>1 DEF Begin
  <2>3. copy.status = "published" => row.status = "published" \/ op = "update"
    BY <2>1 DEF RoutedOps, TransitionOps, Transitions
  <2>4. Declared' = Declared
    BY <2>2 DEF SomePosted
  <2>5. ASSUME NEW q \in Requests, request'[q].pc = "save"
        PROVE  /\ request'[q].from = "published" => Declared
               /\ request'[q].copy.status = "published" =>
                    request'[q].from = "published" \/ request'[q].op = "update"
    <3>1. CASE q = r
      <4>1. request'[q] =
              [pc |-> "save", op |-> op, from |-> row.status, copy |-> copy]
        BY <2>2, <3>1 DEF TypeOK
      <4> QED BY <2>3, <4>1
    <3>2. CASE q # r
      <4>1. request'[q] = request[q]
        BY <2>2, <3>2 DEF TypeOK
      <4> QED BY <2>5, <4>1
    <3> QED BY <3>1, <3>2
  <2> HIDE DEF Declared
  <2> QED BY <2>2, <2>4, <2>5
<1>3. ASSUME NEW r \in Requests, ServeRequest(r) PROVE PublishedInv'
  <2>1. CASE SavePost(r)
    <3>1. /\ row' = request[r].copy /\ worker' = worker /\ given \subseteq given'
          /\ Saving(r) /\ Saving(r)' = FALSE /\ posted' = posted
      BY <2>1 DEF SavePost, TypeOK, RequestStates, IdleRequest
    <3>2. \A q \in Requests : q # r => request'[q] = request[q]
      BY <2>1 DEF SavePost, TypeOK
    <3>3. row'.status = "published" => Declared'
      BY <2>1, <3>1 DEF SavePost
    <3> QED BY <3>1, <3>2, <3>3
  <2>2. CASE RemovePost(r) \/ SaveDecision(r)
    BY <2>2 DEF RemovePost, SaveDecision, TypeOK, NoRow, IdleRequest
  <2> QED BY <1>3, <2>1, <2>2 DEF ServeRequest
<1>4. ASSUME NEW r \in Requests, RequestFails(r) PROVE PublishedInv'
  BY <1>4 DEF RequestFails, TypeOK, IdleRequest
<1>5. ASSUME NEW s \in Slots, Handle(s) \/ HandlerFails(s) PROVE PublishedInv'
  BY <1>5 DEF Handle, LookupPost, ProbeJob, RemoveJob, AddJob, CancelProbe,
              CancelRemove, HandlerFails, handlerFrame
<1>6. CASE PromoteJob \/ TakeJob \/ CompleteJob \/ RestartStalledJob
  BY <1>6 DEF PromoteJob, TakeJob, CompleteJob, RestartStalledJob, queueFrame,
              IdleWorker
<1>7. CASE Work
  <2> USE DEF workerFrame, TypeOK, Workers
  <2>1. CASE LoadPost \/ LoadProfiles \/ LeaveLoop
    BY <2>1 DEF LoadPost, LoadProfiles, LeaveLoop
  <2>2. CASE MarkPublishing
    BY <2>2 DEF MarkPublishing, Rows
  <2>3. ASSUME NEW f \in Profiles, PublishTo(f) PROVE PublishedInv'
    <3>1. PICK published \in BOOLEAN, answered \in BOOLEAN :
            /\ answered => published
            /\ posted' = [posted EXCEPT ![f] = @ + (IF published THEN 1 ELSE 0)]
            /\ worker' = [worker EXCEPT
                  !.pc = IF answered THEN "recordOk" ELSE "recordFail",
                  !.todo = @ \ {f}]
      BY <2>3 DEF PublishTo
    <3>2. row' = row /\ request' = request /\ given' = given
      BY <2>3 DEF PublishTo
    <3>3. CASE answered
      <4>1. posted'[f] > 0
        BY <3>1, <3>3
      <4> QED BY <3>1, <3>2, <4>1 DEF SomePosted
    <3>4. CASE ~answered
      BY <3>1, <3>2, <3>4
    <3> QED BY <3>3, <3>4
  <2>4. CASE RecordOk \/ RecordFail
    BY <2>4 DEF RecordOk, RecordFail
  <2>5. CASE SaveOutcome
    BY <2>5 DEF SaveOutcome, FinalStatus, Rows
  <2>6. CASE WorkerThrows
    BY <2>6 DEF WorkerThrows, FailAttempt, IdleWorker
  <2> QED BY <1>7, <2>1, <2>2, <2>3, <2>4, <2>5, <2>6 DEF Work
<1>8. CASE Crash
  BY <1>8 DEF Crash, IdleWorker, IdleRequest
<1>9. CASE Tick \/ UNCHANGED vars
  BY <1>9 DEF Tick, vars
<1> QED BY <1>1, <1>2, <1>3, <1>4, <1>5, <1>6, <1>7, <1>8, <1>9 DEF Next

-----------------------------------------------------------------------------
(* The theorems *)

\* The invariant above is inductive: it holds initially and every action of
\* the requests, handlers, queue, worker and environment preserves it.
THEOREM Inductive == Spec => []IInv
<1>1. Init => IInv
  BY InitIInv
<1>2. IInv /\ [Next]_vars => IInv'
  BY TypeStep, JobStep, ArmStep, ApprovalStep, PublishedStep DEF IInv
<1> QED BY <1>1, <1>2, PTL DEF Spec

\* Every variable of the model keeps its type: in particular a delay handed to
\* Bull is never negative and a job never runs more than its attempts.
THEOREM TypeCorrect == Spec => []TypeOK
<1>1. IInv => TypeOK
  BY DEF IInv
<1> QED BY <1>1, Inductive, PTL

\* The idempotency check of handlePublish: each save that schedules the post
\* leads to at most one publication per profile, through retries and crashes.
THEOREM PublishesOncePerArm == Spec => []AtMostOncePerArm
<1>1. IInv => AtMostOncePerArm
  <2> SUFFICES ASSUME IInv, NEW f \in Profiles PROVE posted[f] <= arms
    BY DEF AtMostOncePerArm
  <2> QED BY DEF IInv, TypeOK, ArmInv, Armed, Pending
<1> QED BY <1>1, Inductive, PTL

\* The table TRANSITIONS: nothing reaches a platform without an approve or a
\* body that said 'approved', also when requests overwrite each other's saves.
THEOREM PublishesOnlyApproved == Spec => []ApprovedBeforePosted
<1>1. IInv => ApprovedBeforePosted
  BY DEF IInv, ApprovalInv, SomePosted, Cleared, ApprovedBeforePosted
<1> QED BY <1>1, Inductive, PTL

\* The final status of handlePublish: a post that says 'published' was
\* published on at least one profile, or a body had declared it so.
THEOREM PublishedIsTrue == Spec => []PublishedWasPosted
<1>1. IInv => PublishedWasPosted
  BY DEF IInv, PublishedInv, SomePosted, Declared, PublishedWasPosted
<1> QED BY <1>1, Inductive, PTL

-----------------------------------------------------------------------------
(* Clients that call one at a time and edit only drafts *)

\* The hypotheses: at most one request at a time, no update or deletion of a
\* post that has left the draft status, and no status in a body but that.
SerialClients ==
    /\ \A r \in Requests, q \in Requests : r = q
    /\ EditableStatuses \subseteq {"draft"} /\ BodyStatuses \subseteq {"draft"}

\* The status an operation may read, and the one it then saves.
MayMove(op, from, to) ==
    \/ /\ op \in TransitionOps
       /\ from = Transitions(op).from /\ to = Transitions(op).to
    \/ op = "update" /\ from = "draft" /\ to = "draft"
    \/ op = "delete" /\ from = "draft"

\* A request that waits for its save has read what is still in the row.
ClientInv ==
    /\ ~created => row.status = "absent"
    /\ \A r \in Requests : Saving(r) =>
         /\ row.status = request[r].from
         /\ MayMove(request[r].op, request[r].from, request[r].copy.status)

\* From the mark to its last save the worker has the row to itself.
Marked == {"profiles", "loop", "recordOk", "recordFail", "save"}
MarkedInv ==
    /\ worker.pc = "mark" => row = worker.copy /\ row.status = "scheduled"
    /\ worker.pc \in Marked => row = worker.copy /\ row.status = "publishing"

\* Before the post is scheduled, queue, worker and event handlers are at rest.
Unscheduled == {"absent", "draft", "review", "approved"}
QuietInv ==
    row.status \in Unscheduled =>
      /\ job.state = "none" /\ worker.pc = "idle"
      /\ \A s \in Slots : handler[s].pc = "idle"

\* The job of a scheduled post is due, and every delay ends, no earlier than the
\* row asks for.
DueInv ==
    /\ row.status = "scheduled" =>
         /\ job.state = "delayed" => job.due >= row.at
         /\ job.state \in {"waiting", "active"} => now >= row.at
         /\ \A s \in Slots : handler[s].pc \in {"probe", "remove", "add"} =>
              now + handler[s].delay >= row.at
    /\ row.status = "publishing" => now >= row.at

SerialInv == ClientInv /\ MarkedInv /\ QuietInv /\ DueInv

\* Nothing has started.
LEMMA InitSerial == Init => SerialInv
  BY DEF Init, SerialInv, ClientInv, Saving, MarkedInv, Marked, QuietInv, DueInv,
     NoRow, NoJob, IdleWorker, IdleRequest, IdleHandler

\* What a call that starts is about to save.
LEMMA BeginMoves ==
    ASSUME SerialClients, TypeOK, NEW r \in Requests, BeginRequest(r)
    PROVE  \E op \in RoutedOps, copy \in Rows :
              /\ Begin(r, op, copy) /\ MayMove(op, row.status, copy.status)
              /\ op = "schedule" => copy.at > now
<1> USE DEF MayMove, Rows
<1>1. CASE \E op \in TransitionOps \ {"schedule"} : BeginTransition(r, op)
  <2>1. PICK op \in TransitionOps \ {"schedule"} : BeginTransition(r, op)
    BY <1>1
  <2> DEFINE copy == [row EXCEPT !.status = Transitions(op).to]
  <2>2. copy.status = Transitions(op).to /\ copy \in Rows /\ op \in RoutedOps
    BY DEF TypeOK, Transitions, TransitionOps, RoutedOps, Statuses
  <2>3. Begin(r, op, copy) /\ row.status = Transitions(op).from
    BY <2>1 DEF BeginTransition
  <2> HIDE DEF copy
  <2> QED BY <2>2, <2>3
<1>2. CASE \E at \in Times : BeginSchedule(r, at)
  <2>1. PICK at \in Times : BeginSchedule(r, at)
    BY <1>2
  <2> DEFINE copy == [status |-> "scheduled", at |-> at]
  <2>2. /\ copy \in Rows /\ copy.status = Transitions("schedule").to /\ copy.at > now
        /\ Begin(r, "schedule", copy) /\ row.status = Transitions("schedule").from
    BY <2>1 DEF BeginSchedule, Transitions, Statuses, FutureTime
  <2>3. "schedule" \in TransitionOps /\ "schedule" \in RoutedOps
    BY DEF TransitionOps, RoutedOps
  <2> HIDE DEF copy
  <2> QED BY <2>2, <2>3
<1>3. CASE \E status \in Statuses, at \in Times : BeginUpdate(r, status, at)
  <2>1. PICK status \in Statuses, at \in Times : BeginUpdate(r, status, at)
    BY <1>3
  <2> DEFINE copy == [status |-> status, at |-> at]
  <2>2. /\ copy \in Rows /\ Begin(r, "update", copy)
        /\ row.status = "draft" /\ copy.status = "draft"
    BY <2>1 DEF BeginUpdate, SerialClients
  <2>3. "update" \in RoutedOps
    BY DEF RoutedOps
  <2> HIDE DEF copy
  <2> QED BY <2>2, <2>3
<1>4. CASE BeginDelete(r)
  <2>1. /\ Begin(r, "delete", row) /\ row.status = "draft" /\ row \in Rows
        /\ "delete" \in RoutedOps
    BY <1>4 DEF BeginDelete, RoutedOps, SerialClients, TypeOK
  <2> QED BY <2>1
<1> QED BY <1>1, <1>2, <1>3, <1>4 DEF BeginRequest

\* What a save may find in the row, and leaves there.
LEMMA SaveMoves ==
    ASSUME TypeOK, ClientInv, NEW r \in Requests, SavePost(r)
    PROVE  /\ row' = request[r].copy /\ row' \in Rows
           /\ MayMove(request[r].op, row.status, row'.status)
           /\ row.status \in {"draft", "review", "approved"}
           /\ row'.status \in {"draft", "review", "approved", "scheduled"}
           /\ row'.status = "scheduled" => request[r].op = "schedule"
           /\ row.status \in Unscheduled /\ created
<1>1. /\ Saving(r) /\ request[r].op # "delete" /\ row' = request[r].copy
      /\ request[r] \in RequestStates
  BY DEF SavePost, Saving, TypeOK
<1>2. MayMove(request[r].op, row.status, row'.status)
  BY <1>1 DEF ClientInv
<1>3. /\ row.status \in {"draft", "review", "approved"}
      /\ row'.status \in {"draft", "review", "approved", "scheduled"}
      /\ row'.status = "scheduled" => request[r].op = "schedule"
  BY <1>1, <1>2 DEF MayMove, Transitions, TransitionOps
<1> QED BY <1>1, <1>2, <1>3 DEF ClientInv, RequestStates, Unscheduled

\* What a client has read stays in the row until its save.
LEMMA ClientStep ==
    ASSUME SerialClients, IInv, SerialInv, [Next]_vars
    PROVE  ClientInv'
<1> USE DEF ClientInv, Saving, history
<1> USE DEF IInv, TypeOK, SerialInv
<1>1. CASE CreatePost
  BY <1>1 DEF CreatePost, RequestStates, MayMove, Transitions, TransitionOps,
              SerialClients
<1>2. ASSUME NEW r \in Requests, BeginRequest(r) PROVE ClientInv'
  <2>1. PICK op \in RoutedOps, copy \in Rows :
          Begin(r, op, copy) /\ MayMove(op, row.status, copy.status)
    BY <1>2, BeginMoves
  <2>2. /\ UNCHANGED <<row, created>>
        /\ request' = [request EXCEPT ![r] =
             [pc |-> "save", op |-> op, from |-> row.status, copy |-> copy]]
    BY <2>1 DEF Begin
  <2>3. \A q \in Requests : request'[q] =
          IF q = r THEN [pc |-> "save", op |-> op, from |-> row.status, copy |-> copy]
          ELSE request[q]
    BY <2>2
  <2> QED BY <2>1, <2>2, <2>3
<1>3. ASSUME NEW r \in Requests, ServeRequest(r) PROVE ClientInv'
  <2>1. \A q \in Requests : q = r
    BY DEF SerialClients
  <2>2. CASE SavePost(r)
    <3>0. request[r] \in RequestStates
      OBVIOUS
    <3>1. created' = created /\ created /\ request'[r].pc # "save"
      BY <2>2, <3>0, SaveMoves DEF SavePost, IdleRequest, RequestStates
    <3> QED BY <2>1, <3>1
  <2>3. CASE RemovePost(r) \/ SaveDecision(r)
    BY <2>1, <2>3 DEF RemovePost, SaveDecision, IdleRequest, NoRow
  <2> QED BY <1>3, <2>2, <2>3 DEF ServeRequest
<1>4. ASSUME NEW r \in Requests, RequestFails(r) PROVE ClientInv'
  BY <1>4 DEF RequestFails, IdleRequest
<1>5. ASSUME NEW s \in Slots, Handle(s) \/ HandlerFails(s) PROVE ClientInv'
  BY <1>5 DEF Handle, LookupPost, ProbeJob, RemoveJob, AddJob, CancelProbe,
              CancelRemove, HandlerFails, handlerFrame
<1>6. CASE PromoteJob \/ TakeJob \/ CompleteJob \/ RestartStalledJob
  BY <1>6 DEF PromoteJob, TakeJob, CompleteJob, RestartStalledJob, queueFrame
<1>7. CASE Work
  <2>1. UNCHANGED <<created, request>>
    BY <1>7 DEF Work, LoadPost, MarkPublishing, LoadProfiles, PublishTo, RecordOk,
       RecordFail, LeaveLoop, SaveOutcome, WorkerThrows, workerFrame
  <2>2. CASE row' = row
    BY <2>1, <2>2
  <2>3. CASE MarkPublishing \/ SaveOutcome
    <3>1. row.status \in {"scheduled", "publishing"}
      BY <2>3 DEF MarkPublishing, SaveOutcome, MarkedInv, Marked
    <3>2. \A r \in Requests : ~Saving(r)
      BY <3>1 DEF MayMove, Transitions, TransitionOps
    <3> QED BY <2>1, <3>1, <3>2
  <2> QED BY <1>7, <2>2, <2>3 DEF Work, LoadPost, LoadProfiles, PublishTo, RecordOk,
       RecordFail, LeaveLoop, WorkerThrows
<1>8. CASE Crash
  BY <1>8 DEF Crash, IdleRequest
<1>9. CASE Tick \/ UNCHANGED vars
  BY <1>9 DEF Tick, vars
<1> QED BY <1>1, <1>2, <1>3, <1>4, <1>5, <1>6, <1>7, <1>8, <1>9 DEF Next

\* Nobody writes the row while the worker holds its mark.
LEMMA MarkedStep ==
    ASSUME SerialClients, IInv, SerialInv, [Next]_vars
    PROVE  MarkedInv'
<1> USE DEF MarkedInv, Marked, history
<1> USE DEF IInv, TypeOK, SerialInv
<1>1. CASE CreatePost
  BY <1>1 DEF CreatePost, ClientInv, SerialClients
<1>2. ASSUME NEW r \in Requests, BeginRequest(r) PROVE MarkedInv'
  BY <1>2, BeginMoves DEF Begin
<1>3. ASSUME NEW r \in Requests, ServeRequest(r) PROVE MarkedInv'
  <2>1. CASE SavePost(r)
    <3>1. worker.pc = "idle" /\ worker' = worker
      BY <2>1, SaveMoves DEF SavePost, QuietInv
    <3> QED BY <3>1
  <2>2. CASE RemovePost(r)
    <3>1. row.status = "draft"
      BY <2>2 DEF RemovePost, ClientInv, Saving, MayMove, TransitionOps
    <3>2. worker.pc = "idle" /\ worker' = worker
      BY <2>2, <3>1 DEF RemovePost, QuietInv, Unscheduled
    <3> QED BY <3>2
  <2>3. CASE SaveDecision(r)
    BY <2>3 DEF SaveDecision
  <2> QED BY <1>3, <2>1, <2>2, <2>3 DEF ServeRequest
<1>4. ASSUME NEW r \in Requests, RequestFails(r) PROVE MarkedInv'
  BY <1>4 DEF RequestFails
<1>5. ASSUME NEW s \in Slots, Handle(s) \/ HandlerFails(s) PROVE MarkedInv'
  BY <1>5 DEF Handle, LookupPost, ProbeJob, RemoveJob, AddJob, CancelProbe,
              CancelRemove, HandlerFails, handlerFrame
<1>6. CASE PromoteJob \/ TakeJob \/ CompleteJob \/ RestartStalledJob
  BY <1>6 DEF PromoteJob, TakeJob, CompleteJob, RestartStalledJob, queueFrame,
              IdleWorker
<1>7. CASE Work
  <2> USE DEF Workers
  <2>1. CASE LoadPost
    BY <2>1 DEF LoadPost, MayPublish
  <2>2. CASE MarkPublishing
    BY <2>2 DEF MarkPublishing, Rows
  <2>3. CASE LoadProfiles \/ RecordOk \/ RecordFail \/ LeaveLoop
    BY <2>3 DEF LoadProfiles, RecordOk, RecordFail, LeaveLoop
  <2>4. ASSUME NEW f \in Profiles, PublishTo(f) PROVE MarkedInv'
    <3>1. /\ worker.pc = "loop" /\ row' = row
          /\ worker'.copy = worker.copy /\ worker'.pc \in {"recordOk", "recordFail"}
      BY <2>4 DEF PublishTo
    <3> QED BY <3>1
  <2>5. CASE SaveOutcome
    BY <2>5 DEF SaveOutcome
  <2>6. CASE WorkerThrows
    BY <2>6 DEF WorkerThrows, FailAttempt, IdleWorker
  <2> QED BY <1>7, <2>1, <2>2, <2>3, <2>4, <2>5, <2>6 DEF Work
<1>8. CASE Crash
  BY <1>8 DEF Crash, IdleWorker
<1>9. CASE Tick \/ UNCHANGED vars
  BY <1>9 DEF Tick, vars
<1> QED BY <1>1, <1>2, <1>3, <1>4, <1>5, <1>6, <1>7, <1>8, <1>9 DEF Next

\* The first save of the status scheduled is what wakes queue and handlers.
LEMMA QuietStep ==
    ASSUME SerialClients, IInv, SerialInv, [Next]_vars
    PROVE  QuietInv'
<1> USE DEF QuietInv, Unscheduled, history
<1> USE DEF IInv, TypeOK, SerialInv
<1>1. CASE CreatePost
  BY <1>1 DEF CreatePost, ClientInv, SerialClients
<1>2. ASSUME NEW r \in Requests, BeginRequest(r) PROVE QuietInv'
  BY <1>2, BeginMoves DEF Begin
<1>3. ASSUME NEW r \in Requests, ServeRequest(r) PROVE QuietInv'
  <2>1. CASE SavePost(r)
    <3>1. /\ UNCHANGED <<job, worker>> /\ row.status \in Unscheduled
          /\ request[r].from = row.status
      BY <2>1, SaveMoves DEF SavePost, ClientInv, Saving
    <3>2. row'.status # "scheduled" => handler'[r].pc = "idle"
      BY <2>1, <3>1, SaveMoves DEF SavePost, HandlerFor, IdleHandler, Slots
    <3>3. \A s \in Slots : s # r => handler'[s] = handler[s]
      BY <2>1 DEF SavePost
    <3> QED BY <2>1, <3>1, <3>2, <3>3, SaveMoves
  <2>2. CASE RemovePost(r)
    <3>1. row.status = "draft"
      BY <2>2 DEF RemovePost, ClientInv, Saving, MayMove, TransitionOps
    <3> QED BY <2>2, <3>1 DEF RemovePost
  <2>3. CASE SaveDecision(r)
    BY <2>3 DEF SaveDecision
  <2> QED BY <1>3, <2>1, <2>2, <2>3 DEF ServeRequest
<1>4. ASSUME NEW r \in Requests, RequestFails(r) PROVE QuietInv'
  BY <1>4 DEF RequestFails
<1>5. ASSUME NEW s \in Slots, Handle(s) \/ HandlerFails(s) PROVE QuietInv'
  BY <1>5 DEF Handle, LookupPost, ProbeJob, RemoveJob, AddJob, CancelProbe,
              CancelRemove, HandlerFails, handlerFrame
<1>6. CASE PromoteJob \/ TakeJob \/ CompleteJob \/ RestartStalledJob
  BY <1>6 DEF PromoteJob, TakeJob, CompleteJob, RestartStalledJob, queueFrame
<1>7. CASE Work
  <2>1. worker.pc # "idle"
    BY <1>7 DEF Work, LoadPost, MarkPublishing, LoadProfiles, PublishTo, RecordOk,
       RecordFail, LeaveLoop, SaveOutcome, WorkerThrows
  <2>2. row' = row \/ row'.status \in {"publishing", "published", "failed"}
    BY <1>7 DEF Work, LoadPost, MarkPublishing, LoadProfiles, PublishTo, RecordOk,
       RecordFail, LeaveLoop, SaveOutcome, WorkerThrows, Workers, Rows, FinalStatus
  <2> QED BY <2>1, <2>2
<1>8. CASE Crash
  BY <1>8 DEF Crash, IdleWorker, IdleHandler
<1>9. CASE Tick \/ UNCHANGED vars
  BY <1>9 DEF Tick, vars
<1> QED BY <1>1, <1>2, <1>3, <1>4, <1>5, <1>6, <1>7, <1>8, <1>9 DEF Next

\* The delay counted from the look at the row ends no earlier than the row asks.
LEMMA DueStep ==
    ASSUME SerialClients, IInv, SerialInv, [Next]_vars
    PROVE  DueInv'
<1> USE DEF DueInv, history
<1> USE DEF IInv, TypeOK, SerialInv, Times, Rows
<1>0. now \in Nat /\ row.at \in Nat /\ job \in Jobs
      /\ \A s \in Slots : handler[s] \in HandlerStates /\ handler[s].delay \in Nat
  BY BoundsAssumption DEF HandlerStates
<1>1. CASE CreatePost
  BY <1>1 DEF CreatePost, SerialClients
<1>2. ASSUME NEW r \in Requests, BeginRequest(r) PROVE DueInv'
  BY <1>2, BeginMoves DEF Begin
<1>3. ASSUME NEW r \in Requests, ServeRequest(r) PROVE DueInv'
  <2>1. CASE SavePost(r)
    <3>1. /\ UNCHANGED <<job, worker, now>> /\ job.state = "none"
          /\ row'.status # "publishing"
          /\ \A s \in Slots : handler[s].pc = "idle"
      BY <2>1, SaveMoves DEF SavePost, QuietInv
    <3>2. handler'[r].pc \notin {"probe", "remove", "add"}
      BY <2>1, <3>1 DEF SavePost, HandlerFor, IdleHandler, Slots
    <3>3. \A s \in Slots : s # r => handler'[s] = handler[s]
      BY <2>1 DEF SavePost
    <3> QED BY <3>1, <3>2, <3>3
  <2>2. CASE RemovePost(r)
    BY <2>2 DEF RemovePost, NoRow
  <2>3. CASE SaveDecision(r)
    BY <2>3 DEF SaveDecision
  <2> QED BY <1>3, <2>1, <2>2, <2>3 DEF ServeRequest
<1>4. ASSUME NEW r \in Requests, RequestFails(r) PROVE DueInv'
  BY <1>4 DEF RequestFails
<1>5. ASSUME NEW s \in Slots, Handle(s) \/ HandlerFails(s) PROVE DueInv'
  <2>0. UNCHANGED <<row, now>>
    BY <1>5 DEF Handle, LookupPost, ProbeJob, RemoveJob, AddJob, CancelProbe,
              CancelRemove, HandlerFails, handlerFrame
  <2> USE <1>0, <2>0 DEF SetHandler, HandlerEnds, HandlerDrops, IdleHandler
  <2>1. CASE LookupPost(s)
    <3>1. CASE handler' = [handler EXCEPT ![s] = [pc |-> "probe", delay |-> row.at - now]]
               /\ InTime(row.at)
      <4>1. now + (row.at - now) >= row.at
        OBVIOUS
      <4> QED BY <2>1, <3>1, <4>1 DEF LookupPost
    <3>2. CASE handler' = [handler EXCEPT ![s] = IdleHandler]
      BY <2>1, <3>2 DEF LookupPost
    <3> QED BY <2>1, <3>1, <3>2 DEF LookupPost
  <2>2. CASE ProbeJob(s)
    BY <2>2 DEF ProbeJob, HandlerStates
  <2>3. CASE RemoveJob(s)
    BY <2>3 DEF RemoveJob, NoJob, HandlerStates
  <2>4. CASE AddJob(s)
    BY <2>4 DEF AddJob, NoJob, JobDelay
  <2>5. CASE CancelProbe(s) \/ HandlerFails(s)
    BY <2>5 DEF CancelProbe, HandlerFails
  <2>6. CASE CancelRemove(s)
    BY <2>6 DEF CancelRemove, NoJob
  <2> QED BY <1>5, <2>1, <2>2, <2>3, <2>4, <2>5, <2>6 DEF Handle
<1>6. CASE PromoteJob \/ TakeJob \/ CompleteJob \/ RestartStalledJob
  <2>0. UNCHANGED <<row, now, handler>>
    BY <1>6 DEF PromoteJob, TakeJob, CompleteJob, RestartStalledJob, queueFrame
  <2>1. CASE PromoteJob
    <3>1. job'.state = "waiting" /\ job.state = "delayed" /\ job.due <= now
          /\ job.due \in Nat
      BY <1>0, <2>1 DEF PromoteJob, Jobs
    <3> QED BY <1>0, <2>0, <3>1
  <2>2. CASE TakeJob
    <3>1. job.state = "waiting" /\ job'.state = "active"
      BY <1>0, <2>2 DEF TakeJob, Jobs
    <3> QED BY <2>0, <3>1
  <2>3. CASE CompleteJob
    <3>1. job'.state = "none"
      BY <2>3 DEF CompleteJob, NoJob
    <3> QED BY <2>0, <3>1
  <2>4. CASE RestartStalledJob
    <3>1. job.state = "active" /\ job'.state \in {"waiting", "failed"}
      BY <1>0, <2>4 DEF RestartStalledJob, Jobs
    <3> QED BY <2>0, <3>1
  <2> QED BY <1>6, <2>1, <2>2, <2>3, <2>4
<1>7. CASE Work
  <2> USE <1>0 DEF workerFrame, Workers
  <2>1. CASE MarkPublishing
    BY <2>1 DEF MarkPublishing, MarkedInv, JobInv
  <2>2. CASE SaveOutcome
    BY <2>2 DEF SaveOutcome, FinalStatus
  <2>3. CASE WorkerThrows
    <3>1. UNCHANGED <<row, now, handler>> /\ job.state = "active"
      BY <2>3 DEF WorkerThrows, JobInv
    <3>2. job'.state \in {"delayed", "failed"} /\ job'.due = now
      BY <2>3 DEF WorkerThrows, FailAttempt, Jobs
    <3> QED BY <3>1, <3>2
  <2>4. CASE LoadPost \/ LoadProfiles \/ RecordOk \/ RecordFail \/ LeaveLoop
             \/ \E f \in Profiles : PublishTo(f)
    BY <2>4 DEF LoadPost, LoadProfiles, RecordOk, RecordFail, LeaveLoop, PublishTo
  <2> QED BY <1>7, <2>1, <2>2, <2>3, <2>4 DEF Work
<1>8. CASE Crash
  BY <1>8 DEF Crash, IdleHandler
<1>9. CASE Tick
  BY <1>0, <1>9 DEF Tick
<1>10. CASE UNCHANGED vars
  BY <1>10 DEF vars
<1> QED BY <1>1, <1>2, <1>3, <1>4, <1>5, <1>6, <1>7, <1>8, <1>9, <1>10 DEF Next

\* The assumptions above keep the row in one hand at a time, through crashes and
\* failed calls: whoever is about to save it has read what still stands in it.
THEOREM SerialInvariant == ASSUME SerialClients PROVE Spec => []SerialInv
<1>1. Init => SerialInv
  BY InitSerial
<1>2. IInv /\ SerialInv /\ [Next]_vars => SerialInv'
  BY ClientStep, MarkedStep, QuietStep, DueStep DEF SerialInv
<1> QED BY <1>1, <1>2, Inductive, PTL DEF Spec

-----------------------------------------------------------------------------
(* The refinement of PostLifecycle *)

\* Every step of the code is one step of the state machine, or leaves the
\* status alone: a save is the move its caller checked, a PATCH to 'review' is
\* a submission.
LEMMA LifecycleStep ==
    ASSUME SerialClients, IInv, SerialInv, [Next]_vars
    PROVE  [Lifecycle!Next]_(row.status)
<1> USE DEF Lifecycle!Next, Lifecycle!Create, Lifecycle!Delete,
       Lifecycle!SubmitForReview, Lifecycle!Approve, Lifecycle!Reject,
       Lifecycle!Schedule, Lifecycle!StartPublishing, Lifecycle!Published,
       Lifecycle!Failed, Lifecycle!Move
<1> USE DEF IInv, TypeOK, SerialInv
<1>1. CASE CreatePost
  <2>1. row.status = "absent" /\ row'.status = "draft"
    BY <1>1 DEF CreatePost, ClientInv, SerialClients
  <2> QED BY <2>1
<1>2. CASE \E r \in Requests : BeginRequest(r) \/ RequestFails(r)
  <2>1. row' = row
    BY <1>2, BeginMoves DEF Begin, RequestFails
  <2> QED BY <2>1
<1>3. ASSUME NEW r \in Requests, SavePost(r) PROVE [Lifecycle!Next]_(row.status)
  <2>1. /\ MayMove(request[r].op, row.status, row'.status)
        /\ request[r].op # "delete"
    BY <1>3, SaveMoves DEF SavePost
  <2> QED BY <2>1 DEF MayMove, Transitions, TransitionOps
<1>4. ASSUME NEW r \in Requests, RemovePost(r)
      PROVE  [Lifecycle!Next]_(row.status)
  <2>1. row.status = "draft" /\ row'.status = "absent"
    BY <1>4 DEF RemovePost, ClientInv, Saving, MayMove, TransitionOps, NoRow
  <2> QED BY <2>1
<1>5. CASE \E r \in Requests : SaveDecision(r)
  BY <1>5 DEF SaveDecision
<1>6. CASE \E s \in Slots : Handle(s) \/ HandlerFails(s)
  BY <1>6 DEF Handle, LookupPost, ProbeJob, RemoveJob, AddJob, CancelProbe,
              CancelRemove, HandlerFails, handlerFrame
<1>7. CASE PromoteJob \/ TakeJob \/ CompleteJob \/ RestartStalledJob
  BY <1>7 DEF PromoteJob, TakeJob, CompleteJob, RestartStalledJob, queueFrame
<1>8. CASE Work
  <2>1. CASE MarkPublishing
    BY <2>1 DEF MarkPublishing, MarkedInv, Workers, Rows
  <2>2. CASE SaveOutcome
    BY <2>2 DEF SaveOutcome, MarkedInv, Marked, Workers, Rows, FinalStatus
  <2> QED BY <1>8, <2>1, <2>2 DEF Work, LoadPost, LoadProfiles, PublishTo, RecordOk,
        RecordFail, LeaveLoop, WorkerThrows
<1>9. CASE Crash \/ Tick \/ UNCHANGED vars
  BY <1>9 DEF Crash, Tick, vars
<1> QED BY <1>1, <1>2, <1>3, <1>4, <1>5, <1>6, <1>7, <1>8, <1>9
        DEF Next, ServeRequest

\* The service and the processor implement the state machine TRANSITIONS: a
\* status moves only along its arrows, through crashes and failed calls, for
\* clients that call one at a time and edit only drafts.
THEOREM ImplementsLifecycle == ASSUME SerialClients PROVE Spec => LifecycleSpec
<1>1. Init => Lifecycle!Init
  BY DEF Init, NoRow, Lifecycle!Init
<1>2. IInv /\ SerialInv /\ [Next]_vars => [Lifecycle!Next]_(row.status)
  BY LifecycleStep
<1> QED BY <1>1, <1>2, Inductive, SerialInvariant, PTL
        DEF Spec, LifecycleSpec, Lifecycle!Spec

\* The delay of a job: the worker publishes only after the time the row asks
\* for, also when it retries a failed attempt or a stalled job.
THEOREM PublishesInTime == ASSUME SerialClients PROVE Spec => NeverEarly
<1>1. ASSUME IInv, SerialInv, [Next]_vars, posted' # posted PROVE now >= row.at
  <2>1. worker.pc = "loop"
    <3>1. \E f \in Profiles : PublishTo(f)
      BY <1>1 DEF history, Next, CreatePost, BeginRequest, BeginTransition, BeginSchedule,
         BeginUpdate, BeginDelete, Begin, ServeRequest, SavePost, RemovePost,
         SaveDecision, RequestFails, Handle, LookupPost, ProbeJob, RemoveJob,
         AddJob, CancelProbe, CancelRemove, HandlerFails, handlerFrame, PromoteJob,
         TakeJob, CompleteJob, RestartStalledJob, queueFrame, Work, LoadPost,
         MarkPublishing, LoadProfiles, RecordOk, RecordFail, LeaveLoop,
         SaveOutcome, WorkerThrows, Crash, Tick, vars
    <3> QED BY <3>1 DEF PublishTo
  <2> QED BY <1>1, <2>1 DEF SerialInv, MarkedInv, Marked, DueInv
<1> QED BY <1>1, Inductive, SerialInvariant, PTL DEF Spec, NeverEarly

-----------------------------------------------------------------------------
(* Decisions *)

\* A submission in the row or a decision still to be recorded is one that has
\* no recorded decision.
InReview == IF row.status = "review" THEN 1 ELSE 0
Deciding == IF \E r \in Requests : request[r].pc = "decide" THEN 1 ELSE 0
DecisionInv == decisions + InReview + Deciding <= submissions

\* A decision row is paid by the submission its save took out of review.
LEMMA DecisionStep ==
    ASSUME SerialClients, IInv, SerialInv, DecisionInv, [Next]_vars
    PROVE  DecisionInv'
<1> USE DEF IInv, TypeOK, SerialInv, DecisionInv, history
<1>0. decisions \in Nat /\ submissions \in Nat
  OBVIOUS
<1>1. ASSUME NEW r \in Requests, SaveDecision(r) PROVE DecisionInv'
  <2>1. /\ decisions' \in {decisions, decisions + 1}
        /\ UNCHANGED <<row, submissions>> /\ request[r].pc = "decide"
        /\ request'[r].pc # "decide" /\ \A q \in Requests : q = r
    BY <1>1 DEF SaveDecision, IdleRequest, SerialClients
  <2>2. Deciding = 1 /\ Deciding' = 0 /\ InReview' = InReview /\ InReview \in Nat
    BY <2>1 DEF Deciding, InReview
  <2>3. /\ decisions + InReview + Deciding <= submissions
        /\ submissions' = submissions
    BY <2>1
  <2>4. decisions' + InReview' + Deciding' <= submissions'
    BY <1>0, <2>1, <2>2, <2>3
  <2> QED BY <2>4
<1> USE DEF InReview, Deciding
<1>5. CASE CreatePost
  BY <1>5 DEF CreatePost, ClientInv, SerialClients
<1>2. ASSUME NEW r \in Requests, BeginRequest(r) PROVE DecisionInv'
  <2>1. /\ UNCHANGED <<decisions, row, submissions>>
        /\ request[r].pc # "decide" /\ request'[r].pc # "decide"
        /\ \A q \in Requests : q = r
    BY <1>2, BeginMoves DEF Begin, SerialClients
  <2> QED BY <2>1
<1>3. ASSUME NEW r \in Requests, SavePost(r) PROVE DecisionInv'
  <2>1. \A q \in Requests : q = r
    BY DEF SerialClients
  <2>2. /\ decisions' = decisions /\ request[r].pc = "save"
        /\ request[r] \in RequestStates
        /\ MayMove(request[r].op, row.status, row'.status)
        /\ request[r].op # "delete"
    BY <1>3, SaveMoves DEF SavePost
  <2>3. CASE request[r].op \in {"approve", "reject"}
    <3>1. row.status = "review" /\ row'.status # "review"
      BY <2>2, <2>3 DEF MayMove, Transitions, TransitionOps
    <3>2. submissions' = submissions
      BY <1>3, <2>3 DEF SavePost
    <3> QED BY <1>0, <2>1, <2>2, <3>1, <3>2
  <2>4. CASE request[r].op \notin {"approve", "reject"}
    <3>1. request'[r].pc # "decide"
      BY <1>3, <2>4 DEF SavePost, IdleRequest
    <3>2. CASE request[r].op = "submitForReview"
      <4>1. row.status = "draft" /\ submissions' = submissions + 1
        BY <1>3, <2>2, <3>2 DEF SavePost, MayMove, Transitions, TransitionOps
      <4> QED BY <1>0, <2>1, <2>2, <3>1, <4>1
    <3>3. CASE request[r].op # "submitForReview"
      <4>1. row'.status # "review" /\ submissions' = submissions
        BY <1>3, <2>2, <2>4, <3>3 DEF SavePost, MayMove, Transitions, TransitionOps
      <4> QED BY <1>0, <2>1, <2>2, <3>1, <4>1
    <3> QED BY <3>2, <3>3
  <2> QED BY <2>3, <2>4
<1>4. ASSUME NEW r \in Requests, RemovePost(r) PROVE DecisionInv'
  <2>1. decisions' = 0 /\ submissions' = submissions /\ row'.status = "absent"
        /\ request'[r].pc # "decide" /\ \A q \in Requests : q = r
    BY <1>4 DEF RemovePost, NoRow, IdleRequest, SerialClients
  <2> QED BY <1>0, <2>1
<1>6. ASSUME NEW r \in Requests, RequestFails(r) PROVE DecisionInv'
  <2>1. /\ UNCHANGED <<decisions, row, submissions>>
        /\ request'[r].pc # "decide" /\ \A q \in Requests : q = r
    BY <1>6 DEF RequestFails, IdleRequest, SerialClients
  <2> QED BY <1>0, <2>1
<1>7. CASE (\E s \in Slots : Handle(s) \/ HandlerFails(s)) \/ PromoteJob
           \/ TakeJob \/ CompleteJob \/ RestartStalledJob \/ Tick \/ UNCHANGED vars
  <2>1. UNCHANGED <<decisions, row, submissions, request>>
    BY <1>7 DEF Handle, LookupPost, ProbeJob, RemoveJob, AddJob, CancelProbe,
       CancelRemove, HandlerFails, handlerFrame, PromoteJob, TakeJob, CompleteJob,
       RestartStalledJob, queueFrame, Tick, vars
  <2> QED BY <2>1
<1>8. CASE Work
  <2>1. UNCHANGED <<decisions, submissions, request>>
    BY <1>8 DEF Work, LoadPost, MarkPublishing, LoadProfiles, PublishTo, RecordOk,
       RecordFail, LeaveLoop, SaveOutcome, WorkerThrows, workerFrame
  <2>2. row'.status # "review" \/ row' = row
    BY <1>8 DEF Work, LoadPost, MarkPublishing, LoadProfiles, PublishTo, RecordOk,
       RecordFail, LeaveLoop, SaveOutcome, WorkerThrows, Workers, Rows, FinalStatus
  <2> QED BY <1>0, <2>1, <2>2
<1>9. CASE Crash
  <2>1. /\ UNCHANGED <<decisions, row, submissions>>
        /\ \A r \in Requests : request'[r].pc # "decide"
    BY <1>9 DEF Crash, IdleRequest
  <2> QED BY <1>0, <2>1
<1> QED BY <1>1, <1>2, <1>3, <1>4, <1>5, <1>6, <1>7, <1>8, <1>9
        DEF Next, ServeRequest

\* applyTransition's check of the status and the decision row written after it:
\* a submission is decided at most once, whatever fails in between, when the
\* clients submit by the route made for it and not by a PATCH of the status.
THEOREM DecidedOnce ==
    ASSUME SerialClients
    PROVE  Spec => []OneDecisionPerSubmission
<1>1. Init => DecisionInv
  BY DEF Init, DecisionInv, InReview, Deciding, NoRow, IdleRequest
<1>2. IInv /\ SerialInv /\ DecisionInv /\ [Next]_vars => DecisionInv'
  BY DecisionStep
<1>3. IInv /\ DecisionInv => OneDecisionPerSubmission
  BY DEF IInv, TypeOK, DecisionInv, InReview, Deciding,
     OneDecisionPerSubmission
<1> QED BY <1>1, <1>2, <1>3, Inductive, SerialInvariant, PTL DEF Spec

-----------------------------------------------------------------------------
(* The job of a scheduled post *)

\* No handler of a cancellation meets a scheduled post, and the worker never
\* ends its run on one; the processor is enabled.
QueuedInv ==
    /\ \A s \in Slots : handler[s].pc \in {"cancelProbe", "cancelRemove"} =>
          row.status # "scheduled"
    /\ worker.pc = "done" => row.status # "scheduled"
    /\ ScheduledHasJob

\* A scheduled post loses its job to nobody, and gets it unless its event ends
\* early.
LEMMA QueuedStep ==
    ASSUME SerialClients, PublishEnabled, IInv, SerialInv, QueuedInv, [Next]_vars
    PROVE  QueuedInv'
<1> USE DEF QueuedInv, ScheduledHasJob, Scheduling, history
<1> USE DEF IInv, TypeOK, SerialInv, Rows
<1>0. \A r \in Requests : request[r] \in RequestStates
  OBVIOUS
<1>1. CASE CreatePost
  <2>1. /\ row.status = "absent" /\ row'.status = "draft"
        /\ UNCHANGED <<job, handler, worker>>
    BY <1>1 DEF CreatePost, ClientInv, SerialClients
  <2> QED BY <2>1
<1>2. ASSUME NEW r \in Requests, BeginRequest(r) PROVE QueuedInv'
  <2>1. UNCHANGED <<row, job, worker, handler, dropped>>
    BY <1>2, BeginMoves DEF Begin
  <2> QED BY <2>1
<1>3. ASSUME NEW r \in Requests, SavePost(r) PROVE QueuedInv'
  <2>1. /\ UNCHANGED <<job, worker>> /\ row.status \in Unscheduled
        /\ row' = request[r].copy /\ request[r].from = row.status
        /\ row'.status = "scheduled" => request[r].op = "schedule"
    BY <1>3, SaveMoves DEF SavePost, Saving, ClientInv
  <2>2. worker.pc = "idle" /\ \A s \in Slots : handler[s].pc = "idle"
    BY <2>1 DEF QuietInv
  <2>3. CASE row'.status = "scheduled"
    <3>1. handler'[r].pc = "lookup" /\ \A s \in Slots : s # r => handler'[s] = handler[s]
      BY <1>3, <2>1, <2>3 DEF SavePost, HandlerFor, Slots
    <3> QED BY <2>1, <2>2, <3>1 DEF Slots
  <2>4. CASE row'.status # "scheduled"
    BY <2>1, <2>2, <2>4
  <2> QED BY <2>3, <2>4
<1>4. ASSUME NEW r \in Requests, RemovePost(r) PROVE QueuedInv'
  BY <1>4 DEF RemovePost, NoRow
<1>5. ASSUME NEW r \in Requests, SaveDecision(r) \/ RequestFails(r)
      PROVE  QueuedInv'
  BY <1>5 DEF SaveDecision, RequestFails
<1>6. ASSUME NEW s \in Slots, Handle(s) PROVE QueuedInv'
  <2>0. UNCHANGED <<row, worker>>
    BY <1>6 DEF Handle, LookupPost, ProbeJob, RemoveJob, AddJob, CancelProbe,
              CancelRemove, handlerFrame
  <2> USE <2>0 DEF SetHandler, HandlerEnds, HandlerDrops, IdleHandler
  <2>1. CASE LookupPost(s)
    <3>1. CASE HandlerDrops(s)
      BY <2>1, <3>1 DEF LookupPost
    <3>2. CASE SetHandler(s, "probe", row.at - now)
      BY <2>1, <3>2 DEF LookupPost
    <3> QED BY <2>1, <3>1, <3>2 DEF LookupPost
  <2>2. CASE ProbeJob(s)
    <3>1. PICK pc \in {"add", "remove"} :
            handler' = [handler EXCEPT ![s] = [pc |-> pc, delay |-> handler[s].delay]]
      BY <2>2 DEF ProbeJob
    <3> QED BY <2>2, <3>1 DEF ProbeJob
  <2>3. CASE RemoveJob(s)
    BY <2>3 DEF RemoveJob
  <2>4. CASE AddJob(s)
    BY <2>4 DEF AddJob, NoJob
  <2>5. CASE CancelProbe(s)
    BY <2>5 DEF CancelProbe
  <2>6. CASE CancelRemove(s)
    BY <2>6 DEF CancelRemove
  <2> QED BY <1>6, <2>1, <2>2, <2>3, <2>4, <2>5, <2>6 DEF Handle
<1>7. ASSUME NEW s \in Slots, HandlerFails(s) PROVE QueuedInv'
  BY <1>7 DEF HandlerFails, HandlerDrops, handlerFrame, IdleHandler
<1>8. CASE PromoteJob \/ TakeJob \/ CompleteJob \/ RestartStalledJob
  <2>0. UNCHANGED <<row, handler, dropped>>
    BY <1>8 DEF PromoteJob, TakeJob, CompleteJob, RestartStalledJob, queueFrame
  <2>1. CASE CompleteJob
    BY <2>0, <2>1 DEF CompleteJob, IdleWorker
  <2>2. CASE ~CompleteJob
    <3>1. job'.state # "none" /\ (worker'.pc = "done" => worker.pc = "done")
      BY <1>8, <2>2 DEF PromoteJob, TakeJob, RestartStalledJob, Jobs, IdleWorker
    <3> QED BY <2>0, <3>1
  <2> QED BY <2>1, <2>2
<1>9. CASE Work
  <2>0. job.state = "active" /\ job'.state # "none" /\ dropped' = dropped
    BY <1>9 DEF Work, LoadPost, MarkPublishing, LoadProfiles, PublishTo, RecordOk,
       RecordFail, LeaveLoop, SaveOutcome, WorkerThrows, FailAttempt, workerFrame,
       JobInv, Jobs
  <2> USE <2>0 DEF workerFrame
  <2>1. CASE LoadPost
    BY <2>1 DEF LoadPost, MayPublish
  <2>2. CASE MarkPublishing
    BY <2>2 DEF MarkPublishing, MarkedInv, Workers
  <2>3. CASE SaveOutcome
    <3>1. row'.status # "scheduled"
      BY <2>3 DEF SaveOutcome, FinalStatus, Workers
    <3> QED BY <2>3, <3>1
  <2>4. CASE WorkerThrows
    BY <2>4 DEF WorkerThrows, FailAttempt, IdleWorker
  <2>5. CASE LoadProfiles \/ RecordOk \/ RecordFail \/ LeaveLoop
             \/ \E f \in Profiles : PublishTo(f)
    <3>1. UNCHANGED <<row, handler>> /\ worker'.pc # "done"
      BY <2>5 DEF LoadProfiles, RecordOk, RecordFail, LeaveLoop, PublishTo, Workers
    <3> QED BY <3>1
  <2> QED BY <1>9, <2>1, <2>2, <2>3, <2>4, <2>5 DEF Work
<1>10. CASE Crash
  BY <1>10 DEF Crash, IdleHandler, IdleWorker
<1>11. CASE Tick \/ UNCHANGED vars
  BY <1>11 DEF Tick, vars
<1> QED BY <1>1, <1>2, <1>3, <1>4, <1>5, <1>6, <1>7, <1>8, <1>9, <1>10, <1>11
        DEF Next, ServeRequest

\* handleStatusChanged and schedulePost: a scheduled post has its job or a
\* handler about to add it, unless the handler of the event was refused the
\* time, failed or died.
THEOREM ScheduledIsQueued ==
    ASSUME SerialClients, PublishEnabled
    PROVE  Spec => []ScheduledHasJob
<1>1. Init => QueuedInv
  BY DEF Init, QueuedInv, ScheduledHasJob, NoRow, IdleHandler, IdleWorker
<1>2. IInv /\ SerialInv /\ QueuedInv /\ [Next]_vars => QueuedInv'
  BY QueuedStep
<1>3. QueuedInv => ScheduledHasJob
  BY DEF QueuedInv
<1> QED BY <1>1, <1>2, <1>3, Inductive, SerialInvariant, PTL DEF Spec
====
