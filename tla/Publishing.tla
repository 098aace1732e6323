----------------------------- MODULE Publishing -----------------------------
(***************************************************************************)
(* One content post from creation to publication: the HTTP handlers of     *)
(* OpsScheduleService, the event handler PublishService.handleStatusChanged*)
(* and its delayed Bull job, and the PublishProcessor that runs the job.   *)
(* Posts share no state, so the model follows one.  Every await on the     *)
(* database or on Redis is a point where the others may step: a request    *)
(* reads the row in one action and writes it in another, an event handler  *)
(* looks at the queue in one and changes it in another.                    *)
(*                                                                         *)
(* A save writes the whole copy of the row the caller holds: TypeORM reads *)
(* the row again and updates each column that differs from the copy, or    *)
(* inserts the copy when the row is gone.                                  *)
(***************************************************************************)
EXTENDS Naturals, FiniteSets

CONSTANTS
    Profiles,         \* social profiles a post can be addressed to
    Requests,         \* requests the API serves at the same time
    Ops,              \* operations clients call
    EditableStatuses, \* statuses in which clients call update and delete
    BodyStatuses,     \* statuses the body of a create or a PATCH may carry
    PublishEnabled,   \* ENABLE_PUBLISH_PROCESSOR = 'true'
    MaxTime,          \* bound: the clock stops here
    MaxCalls,         \* bound: client calls
    MaxCrashes,       \* bound: process crashes
    MaxFaults         \* bound: failed database and Redis calls

Statuses == {"draft", "review", "approved", "scheduled", "publishing",
             "published", "failed"}

\* The operations the controller routes; markPublished, markFailed and retry
\* are rows of the table below that nothing calls.
TransitionOps == {"submitForReview", "approve", "reject", "schedule"}
RoutedOps == TransitionOps \cup {"update", "delete"}

\* A job runs at most this often (attempts: 3), and Bull restarts a job whose
\* worker died at most once (maxStalledCount, Bull's default).
Attempts == 3
MaxStalls == 1

ASSUME OpsAssumption == Ops \subseteq RoutedOps
ASSUME BodyAssumption == BodyStatuses \subseteq Statuses
ASSUME BoundsAssumption ==
    /\ MaxTime \in Nat /\ MaxCalls \in Nat
    /\ MaxCrashes \in Nat /\ MaxFaults \in Nat
ASSUME FlagsAssumption == PublishEnabled \in BOOLEAN

VARIABLES
    row,         \* content_posts: status and scheduledAt (0 is NULL)
    created,     \* createPost has run
    links,       \* content_post_profiles of the post
    attempts,    \* kinds of rows in content_publish_attempts
    decisions,   \* number of rows in content_post_approvals
    now,         \* the clock
    job,         \* the Bull job whose id is the post's id
    worker,      \* PublishProcessor.handlePublish
    request,     \* request[r]: the handler of client call r
    handler,     \* handler[s]: handleStatusChanged for the event s emitted
    posted,      \* posted[f]: times the platform published the post on f
    arms,        \* saves that turned the status into 'scheduled'
    submissions, \* saves of submitForReview
    approved,    \* a save of approve has happened
    given,       \* statuses that bodies, not transitions, gave the row
    dropped,     \* an event that schedules the post ended without its job
    budget       \* calls, crashes and faults used so far

dbVars == <<row, created, links, attempts, decisions>>
history == <<posted, arms, submissions, approved, given, dropped>>
vars == <<row, created, links, attempts, decisions, now, job, worker, request,
          handler, posted, arms, submissions, approved, given, dropped, budget>>

-----------------------------------------------------------------------------
Processor == "processor"
Slots == Requests \cup {Processor}

Times == 0..MaxTime
NoRow == [status |-> "absent", at |-> 0]
Rows == [status : Statuses \cup {"absent"}, at : Times]

NoJob == [state |-> "none", due |-> 0, tries |-> 0, stalls |-> 0]
Jobs == [state : {"none", "delayed", "waiting", "active", "failed"},
         due : Nat, tries : 0..Attempts, stalls : 0..MaxStalls + 1]

IdleWorker == [pc |-> "idle", copy |-> NoRow, todo |-> {}, ok |-> FALSE]
Workers == [pc : {"idle", "load", "mark", "profiles", "loop", "recordOk",
                  "recordFail", "save", "done"},
            copy : Rows, todo : SUBSET Profiles, ok : BOOLEAN]

IdleRequest == [pc |-> "idle", op |-> "none", from |-> "absent", copy |-> NoRow]
RequestStates == [pc : {"idle", "save", "decide"}, op : RoutedOps \cup {"none"},
                  from : Statuses \cup {"absent"}, copy : Rows]

IdleHandler == [pc |-> "idle", delay |-> 0]
HandlerStates == [pc : {"idle", "lookup", "probe", "remove", "add",
                        "cancelProbe", "cancelRemove"}, delay : Nat]

TypeOK ==
    /\ row \in Rows
    /\ created \in BOOLEAN
    /\ links \subseteq Profiles
    /\ attempts \subseteq {"published", "failed"}
    /\ decisions \in Nat
    /\ now \in Times
    /\ job \in Jobs
    /\ worker \in Workers
    /\ request \in [Requests -> RequestStates]
    /\ handler \in [Slots -> HandlerStates]
    /\ posted \in [Profiles -> Nat]
    /\ arms \in Nat
    /\ submissions \in Nat
    /\ approved \in BOOLEAN
    /\ given \subseteq Statuses
    /\ dropped \in BOOLEAN
    /\ budget \in [calls : 0..MaxCalls, crashes : 0..MaxCrashes,
                   faults : 0..MaxFaults]

Init ==
    /\ row = NoRow
    /\ created = FALSE
    /\ links = {}
    /\ attempts = {}
    /\ decisions = 0
    /\ now = 0
    /\ job = NoJob
    /\ worker = IdleWorker
    /\ request = [r \in Requests |-> IdleRequest]
    /\ handler = [s \in Slots |-> IdleHandler]
    /\ posted = [f \in Profiles |-> 0]
    /\ arms = 0
    /\ submissions = 0
    /\ approved = FALSE
    /\ given = {}
    /\ dropped = FALSE
    /\ budget = [calls |-> 0, crashes |-> 0, faults |-> 0]

Fault ==
    /\ budget.faults < MaxFaults
    /\ budget' = [budget EXCEPT !.faults = @ + 1]

-----------------------------------------------------------------------------
(* The schedule service *)

\* Mutant: reject writes a status the column does not have.
TransitionsRejected(op) ==
    CASE op = "submitForReview" -> [from |-> "draft", to |-> "review"]
      [] op = "approve" -> [from |-> "review", to |-> "approved"]
      [] op = "reject" -> [from |-> "review", to |-> "rejected"]
      [] op = "schedule" -> [from |-> "approved", to |-> "scheduled"]

\* The table TRANSITIONS, restricted to the routed operations.
Transitions(op) ==
    CASE op = "submitForReview" -> [from |-> "draft", to |-> "review"]
      [] op = "approve" -> [from |-> "review", to |-> "approved"]
      [] op = "reject" -> [from |-> "review", to |-> "draft"]
      [] op = "schedule" -> [from |-> "approved", to |-> "scheduled"]

\* createPost spreads the body into the row: any scheduledAt, and a status or
\* the column's default.  No event is emitted.  The rows that link the post to
\* profiles are inserted from outside this code.
CreatePost ==
    /\ ~created
    /\ created' = TRUE
    /\ \E status \in BodyStatuses \cup {"draft"}, at \in Times :
          /\ row' = [status |-> status, at |-> at]
          /\ arms' = IF status = "scheduled" THEN arms + 1 ELSE arms
          /\ given' = given \cup ({status} \ {"draft"})
    /\ links' \in SUBSET Profiles
    /\ UNCHANGED <<attempts, decisions, now, job, worker, request, handler,
                   posted, submissions, approved, dropped, budget>>

\* A call that passed its checks and now waits for its save.
Begin(r, op, copy) ==
    /\ request[r].pc = "idle" /\ handler[r].pc = "idle"
    /\ op \in Ops
    /\ row.status # "absent"
    /\ budget.calls < MaxCalls
    /\ budget' = [budget EXCEPT !.calls = @ + 1]
    /\ request' = [request EXCEPT ![r] =
          [pc |-> "save", op |-> op, from |-> row.status, copy |-> copy]]
    /\ UNCHANGED <<row, created, links, attempts, decisions, now, job, worker,
                   handler, history>>

\* Mutant: the status check is dropped.
BeginTransitionUnchecked(r, op) ==
    Begin(r, op, [row EXCEPT !.status = Transitions(op).to])

\* applyTransition up to its save, for the operations without a timestamp.
BeginTransition(r, op) ==
    /\ row.status = Transitions(op).from
    /\ Begin(r, op, [row EXCEPT !.status = Transitions(op).to])

FutureTime(at) == at > now

\* Mutant: schedule forgets the status check.
BeginScheduleUnchecked(r, at) ==
    /\ FutureTime(at)
    /\ Begin(r, "schedule", [status |-> "scheduled", at |-> at])

BeginSchedule(r, at) ==
    /\ FutureTime(at)
    /\ row.status = Transitions("schedule").from
    /\ Begin(r, "schedule", [status |-> Transitions("schedule").to, at |-> at])

\* updatePost assigns the body over the row: scheduledAt, any status, or only
\* columns that the model leaves out.
BeginUpdate(r, status, at) ==
    /\ row.status \in EditableStatuses
    /\ status \in BodyStatuses \cup {row.status}
    /\ Begin(r, "update", [status |-> status, at |-> at])

BeginDelete(r) ==
    /\ row.status \in EditableStatuses
    /\ Begin(r, "delete", row)

BeginRequest(r) ==
    \/ \E op \in TransitionOps \ {"schedule"} : BeginTransition(r, op)
    \/ \E at \in Times : BeginSchedule(r, at)
    \/ \E status \in Statuses, at \in Times : BeginUpdate(r, status, at)
    \/ BeginDelete(r)

\* Mutant: the two sides of the event are swapped.
HandlerForSwapped(from, to) ==
    IF from = "scheduled" THEN [pc |-> "lookup", delay |-> 0]
    ELSE IF to = "scheduled" THEN [pc |-> "cancelProbe", delay |-> 0]
    ELSE IdleHandler

\* The handler that an event 'post.status.changed' starts.
HandlerFor(from, to) ==
    IF to = "scheduled" THEN [pc |-> "lookup", delay |-> 0]
    ELSE IF from = "scheduled" THEN [pc |-> "cancelProbe", delay |-> 0]
    ELSE IdleHandler

\* postRepo.save(post) of a transition or a PATCH.  A transition then emits
\* its event in the same turn; approve and reject go on to their decision row.
SavePost(r) ==
    LET op == request[r].op
        copy == request[r].copy
    IN  /\ request[r].pc = "save" /\ op # "delete"
        /\ row' = copy
        /\ arms' = IF copy.status = "scheduled" /\ row.status # "scheduled"
                   THEN arms + 1 ELSE arms
        /\ submissions' = IF op = "submitForReview" THEN submissions + 1
                          ELSE submissions
        /\ approved' = (approved \/ op = "approve")
        /\ given' = IF op = "update" /\ copy.status # request[r].from
                    THEN given \cup {copy.status} ELSE given
        /\ handler' = IF op = "update" THEN handler
                      ELSE [handler EXCEPT ![r] =
                              HandlerFor(request[r].from, copy.status)]
        /\ request' = [request EXCEPT ![r] =
              IF op \in {"approve", "reject"} THEN [@ EXCEPT !.pc = "decide"]
              ELSE IdleRequest]
        /\ UNCHANGED <<created, links, attempts, decisions, now, job, worker,
                       posted, dropped, budget>>

\* postRepo.remove(post); the tables that refer to the post cascade.  The job
\* stays in the queue.
RemovePost(r) ==
    /\ request[r].pc = "save" /\ request[r].op = "delete"
    /\ row' = NoRow
    /\ links' = {} /\ attempts' = {} /\ decisions' = 0
    /\ request' = [request EXCEPT ![r] = IdleRequest]
    /\ UNCHANGED <<created, now, job, worker, handler, history, budget>>

\* approvalRepo.save, when the body names a reviewer; its foreign key needs
\* the post.
SaveDecision(r) ==
    /\ request[r].pc = "decide"
    /\ decisions' \in {decisions} \cup
          (IF row.status # "absent" THEN {decisions + 1} ELSE {})
    /\ request' = [request EXCEPT ![r] = IdleRequest]
    /\ UNCHANGED <<row, created, links, attempts, now, job, worker, handler,
                   history, budget>>

\* A query of the request fails: the client gets an error, and what was
\* already saved stays saved.
RequestFails(r) ==
    /\ request[r].pc # "idle"
    /\ Fault
    /\ request' = [request EXCEPT ![r] = IdleRequest]
    /\ UNCHANGED <<row, created, links, attempts, decisions, now, job, worker,
                   handler, history>>

ServeRequest(r) == SavePost(r) \/ RemovePost(r) \/ SaveDecision(r)

-----------------------------------------------------------------------------
(* PublishService: the event handler, and the queue calls it makes *)

SetHandler(s, pc, delay) ==
    /\ handler' = [handler EXCEPT ![s] = [pc |-> pc, delay |-> delay]]
    /\ UNCHANGED dropped
HandlerEnds(s) ==
    /\ handler' = [handler EXCEPT ![s] = IdleHandler]
    /\ UNCHANGED dropped

\* A handler on its way to add the job, and its end without having added one.
Scheduling(s) == handler[s].pc \in {"lookup", "probe", "remove", "add"}
HandlerDrops(s) ==
    /\ handler' = [handler EXCEPT ![s] = IdleHandler]
    /\ dropped' = (dropped \/ Scheduling(s))

handlerFrame == <<row, created, links, attempts, decisions, now, worker,
                  request, posted, arms, submissions, approved, given>>

\* schedulePost refuses a time in the past (the handler logs the refusal).
InTime(at) == at >= now

\* findOne, then schedulePost up to its look at the queue.
LookupPost(s) ==
    /\ handler[s].pc = "lookup"
    /\ IF row.status # "absent" /\ row.at # 0 /\ InTime(row.at)
       THEN SetHandler(s, "probe", row.at - now)
       ELSE HandlerDrops(s)
    /\ UNCHANGED <<handlerFrame, job, budget>>

\* publishQueue.getJob(postId) of schedulePost.
ProbeJob(s) ==
    /\ handler[s].pc = "probe"
    /\ SetHandler(s, IF job.state = "none" THEN "add" ELSE "remove",
                  handler[s].delay)
    /\ UNCHANGED <<handlerFrame, job, budget>>

\* existing.remove() throws while a worker holds the job; the handler logs.
RemoveJob(s) ==
    /\ handler[s].pc = "remove"
    /\ IF job.state = "active"
       THEN HandlerDrops(s) /\ job' = job
       ELSE SetHandler(s, "add", handler[s].delay) /\ job' = NoJob
    /\ UNCHANGED <<handlerFrame, budget>>

\* Mutant: the delay option is left out.
JobDelayOmitted(s) == 0

\* The delay handed to Bull, which counts it from the call of add.
JobDelay(s) == handler[s].delay

\* publishQueue.add: Bull ignores an id it already knows.
AddJob(s) ==
    /\ handler[s].pc = "add"
    /\ job' = IF job.state = "none"
              THEN [NoJob EXCEPT !.state = "delayed", !.due = now + JobDelay(s)]
              ELSE job
    /\ HandlerEnds(s)
    /\ UNCHANGED <<handlerFrame, budget>>

\* cancelScheduledPost.
CancelProbe(s) ==
    /\ handler[s].pc = "cancelProbe"
    /\ IF job.state = "none" THEN HandlerEnds(s)
       ELSE SetHandler(s, "cancelRemove", 0)
    /\ UNCHANGED <<handlerFrame, job, budget>>

CancelRemove(s) ==
    /\ handler[s].pc = "cancelRemove"
    /\ job' = IF job.state = "active" THEN job ELSE NoJob
    /\ HandlerEnds(s)
    /\ UNCHANGED <<handlerFrame, budget>>

\* A database or Redis call of the handler fails: the error is logged and the
\* event is gone.
HandlerFails(s) ==
    /\ handler[s].pc # "idle"
    /\ Fault
    /\ HandlerDrops(s)
    /\ UNCHANGED <<handlerFrame, job>>

Handle(s) ==
    \/ LookupPost(s) \/ ProbeJob(s) \/ RemoveJob(s) \/ AddJob(s)
    \/ CancelProbe(s) \/ CancelRemove(s)

-----------------------------------------------------------------------------
(* The queue: Bull on Redis *)

queueFrame == <<row, created, links, attempts, decisions, now, request,
                handler, history, budget>>

PromoteJob ==
    /\ job.state = "delayed" /\ job.due <= now
    /\ job' = [job EXCEPT !.state = "waiting"]
    /\ UNCHANGED <<queueFrame, worker>>

\* A worker takes the job; handlePublish returns at once when disabled.
TakeJob ==
    /\ job.state = "waiting" /\ worker.pc = "idle"
    /\ job' = [job EXCEPT !.state = "active"]
    /\ worker' = [IdleWorker EXCEPT !.pc =
                     IF PublishEnabled THEN "load" ELSE "done"]
    /\ UNCHANGED queueFrame

\* handlePublish returned: removeOnComplete.
CompleteJob ==
    /\ worker.pc = "done"
    /\ job' = NoJob
    /\ worker' = IdleWorker
    /\ UNCHANGED queueFrame

TriesLeft == job.tries + 1 < Attempts

\* handlePublish threw: Bull backs off, or keeps the job as failed.
FailAttempt ==
    /\ job' = [job EXCEPT !.tries = @ + 1, !.due = now,
                          !.state = IF TriesLeft THEN "delayed" ELSE "failed"]
    /\ worker' = IdleWorker

\* The worker of an active job died; Bull finds the job without its lock.
RestartStalledJob ==
    /\ job.state = "active" /\ worker.pc = "idle"
    /\ job' = [job EXCEPT !.stalls = @ + 1,
                          !.state = IF job.stalls < MaxStalls THEN "waiting"
                                    ELSE "failed"]
    /\ UNCHANGED <<queueFrame, worker>>

-----------------------------------------------------------------------------
(* PublishProcessor.handlePublish *)

workerFrame == <<created, now, job, request, decisions, arms, submissions,
                 approved, given, dropped>>

\* Mutants: no idempotency check; a check for the wrong status.
MayPublishAny(status) == status # "absent"
MayPublishMarked(status) == status = "publishing"

\* The idempotency check of step 2.
MayPublish(status) == status = "scheduled"

LoadPost ==
    /\ worker.pc = "load"
    /\ worker' = IF MayPublish(row.status)
                 THEN [worker EXCEPT !.pc = "mark", !.copy = row]
                 ELSE [worker EXCEPT !.pc = "done"]
    /\ UNCHANGED <<workerFrame, row, links, attempts, handler, posted, budget>>

\* Step 3; no event is emitted for 'publishing'.
MarkPublishing ==
    /\ worker.pc = "mark"
    /\ row' = [worker.copy EXCEPT !.status = "publishing"]
    /\ worker' = [worker EXCEPT !.pc = "profiles",
                                !.copy.status = "publishing"]
    /\ UNCHANGED <<workerFrame, links, attempts, handler, posted, budget>>

LoadProfiles ==
    /\ worker.pc = "profiles"
    /\ worker' = [worker EXCEPT !.pc = "loop", !.todo = links]
    /\ UNCHANGED <<workerFrame, row, links, attempts, handler, posted, budget>>

\* One turn of the loop: no connection, no adapter, or a refused call publish
\* nothing and fail; a call whose answer is lost publishes and fails.
PublishTo(f) ==
    /\ worker.pc = "loop" /\ f \in worker.todo
    /\ \E published \in BOOLEAN, answered \in BOOLEAN :
          /\ answered => published
          /\ posted' = [posted EXCEPT ![f] = @ + (IF published THEN 1 ELSE 0)]
          /\ worker' = [worker EXCEPT
                !.pc = IF answered THEN "recordOk" ELSE "recordFail",
                !.todo = @ \ {f}]
    /\ UNCHANGED <<workerFrame, row, links, attempts, handler, budget>>

\* recordAttempt after a published post.  Its error is caught like an error of
\* the platform, and recorded as a failure.
RecordOk ==
    /\ worker.pc = "recordOk"
    /\ \/ /\ row.status # "absent"
          /\ attempts' = attempts \cup {"published"}
          /\ worker' = [worker EXCEPT !.pc = "loop", !.ok = TRUE]
          /\ UNCHANGED budget
       \/ /\ IF row.status = "absent" THEN UNCHANGED budget ELSE Fault
          /\ worker' = [worker EXCEPT !.pc = "recordFail"]
          /\ UNCHANGED attempts
    /\ UNCHANGED <<workerFrame, row, links, handler, posted>>

RecordFail ==
    /\ worker.pc = "recordFail" /\ row.status # "absent"
    /\ attempts' = attempts \cup {"failed"}
    /\ worker' = [worker EXCEPT !.pc = "loop"]
    /\ UNCHANGED <<workerFrame, row, links, handler, posted, budget>>

\* Mutant: a run without a success returns before the last save.
LeaveLoopEarly ==
    /\ worker.pc = "loop" /\ worker.todo = {}
    /\ worker' = [worker EXCEPT !.pc = IF worker.ok THEN "save" ELSE "done"]
    /\ UNCHANGED <<workerFrame, row, links, attempts, handler, posted, budget>>

LeaveLoop ==
    /\ worker.pc = "loop" /\ worker.todo = {}
    /\ worker' = [worker EXCEPT !.pc = "save"]
    /\ UNCHANGED <<workerFrame, row, links, attempts, handler, posted, budget>>

\* Mutant: the outcome does not look at the successes.
FinalStatusBlind(ok) == IF ok \in BOOLEAN THEN "published" ELSE "failed"

FinalStatus(ok) == IF ok THEN "published" ELSE "failed"

\* Steps 5 and 6: the last save, and the event from 'scheduled' in its turn.
\* Bound: the event waits for the handler of an earlier one.
SaveOutcome ==
    /\ worker.pc = "save" /\ handler[Processor].pc = "idle"
    /\ row' = [worker.copy EXCEPT !.status = FinalStatus(worker.ok)]
    /\ handler' = [handler EXCEPT ![Processor] =
                      HandlerFor("scheduled", FinalStatus(worker.ok))]
    /\ worker' = [worker EXCEPT !.pc = "done"]
    /\ UNCHANGED <<workerFrame, links, attempts, posted, budget>>

\* A query outside the try blocks throws: recordAttempt for a deleted post,
\* or any query when the database fails.
WorkerThrows ==
    /\ \/ worker.pc = "recordFail" /\ row.status = "absent" /\ UNCHANGED budget
       \/ /\ worker.pc \in {"load", "mark", "profiles", "recordFail", "save"}
          /\ Fault
    /\ FailAttempt
    /\ UNCHANGED <<row, created, links, attempts, decisions, now, request,
                   handler, history>>

Work ==
    \/ LoadPost \/ MarkPublishing \/ LoadProfiles
    \/ \E f \in Profiles : PublishTo(f)
    \/ RecordOk \/ RecordFail \/ LeaveLoop \/ SaveOutcome \/ WorkerThrows

-----------------------------------------------------------------------------
(* The process and its clock *)

\* The process dies: its requests, its event handlers and its worker are gone,
\* the database and the queue stay.
Crash ==
    /\ budget.crashes < MaxCrashes
    /\ budget' = [budget EXCEPT !.crashes = @ + 1]
    /\ request' = [r \in Requests |-> IdleRequest]
    /\ handler' = [s \in Slots |-> IdleHandler]
    /\ worker' = IdleWorker
    /\ dropped' = (dropped \/ \E s \in Slots : Scheduling(s))
    /\ UNCHANGED <<row, created, links, attempts, decisions, now, job, posted,
                   arms, submissions, approved, given>>

Tick ==
    /\ now < MaxTime
    /\ now' = now + 1
    /\ UNCHANGED <<row, created, links, attempts, decisions, job, worker,
                   request, handler, history, budget>>

Next ==
    \/ CreatePost
    \/ \E r \in Requests : BeginRequest(r) \/ ServeRequest(r) \/ RequestFails(r)
    \/ \E s \in Slots : Handle(s) \/ HandlerFails(s)
    \/ PromoteJob \/ TakeJob \/ CompleteJob \/ RestartStalledJob
    \/ Work
    \/ Crash
    \/ Tick

Spec == Init /\ [][Next]_vars

\* Node runs every started handler on, Bull serves the queue, time passes.
\* Nothing obliges a client to call or the process to crash.
Fairness ==
    /\ \A r \in Requests : WF_vars(ServeRequest(r))
    /\ \A s \in Slots : WF_vars(Handle(s))
    /\ WF_vars(PromoteJob) /\ WF_vars(TakeJob) /\ WF_vars(CompleteJob)
    /\ WF_vars(RestartStalledJob)
    /\ WF_vars(Work)
    /\ WF_vars(Tick)

FairSpec == Spec /\ Fairness

-----------------------------------------------------------------------------
(* Properties under any interleaving, crash and failed call *)

\* Every save that makes the post 'scheduled' buys at most one publication on
\* each profile: neither Bull's retries, nor the restart of a stalled job, nor
\* a second copy of the event publishes a second time.
AtMostOncePerArm == \A f \in Profiles : posted[f] <= arms

\* Nothing reaches a platform unless some approve was saved before, or some
\* body gave the row the status 'approved' without the operation: no stale copy
\* of the row, and no body that says 'scheduled', gets a post out by itself.
ApprovedBeforePosted ==
    (\E f \in Profiles : posted[f] > 0) => approved \/ "approved" \in given

\* 'published' is a lie only where a body said so: the post is live on a
\* profile, even when the row was deleted, restored by a stale save or
\* overwritten on the way.
PublishedWasPosted ==
    row.status = "published" =>
        "published" \in given \/ \E f \in Profiles : posted[f] > 0

-----------------------------------------------------------------------------
(* Properties for clients that call one at a time, edit only drafts and leave *)
(* the status out of their bodies                                            *)

\* The row's status moves only along the state machine of the service and the
\* processor.
Lifecycle == INSTANCE PostLifecycle WITH status <- row.status
LifecycleSpec == Lifecycle!Spec

\* A scheduled post has its job, or a handler that is about to add it, unless
\* the handler of its event was refused the time, failed or died.
ScheduledHasJob ==
    row.status = "scheduled" =>
        job.state # "none" \/ dropped \/ \E s \in Slots : Scheduling(s)

\* No publication before the time the row asks for.
NeverEarly == [][posted' # posted => now >= row.at]_vars

\* Each submission for review gets at most one recorded decision, also when
\* the request fails after its save and the client calls again.
OneDecisionPerSubmission == decisions <= submissions

\* A scheduled post is published or fails, it does not wait for ever, unless
\* its event was dropped, Bull gave its job up, or the delay counted from the
\* late call of add reaches beyond the bound of the clock.
ScheduledIsResolved ==
    row.status = "scheduled" ~>
        \/ row.status # "scheduled"
        \/ dropped \/ job.state = "failed" \/ job.due > MaxTime

\* 'publishing' is an intermediate status (step 3 of handlePublish).
PublishingIsIntermediate ==
    row.status = "publishing" ~> row.status # "publishing"
=============================================================================
