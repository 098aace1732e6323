------------------------------ MODULE MetaSync ------------------------------
(***************************************************************************)
(* One Facebook page or Instagram account and the import of its history:   *)
(* the requests of AuthController and AnalyticsController that mark the    *)
(* profile and queue a sync, the daily cron of CronService, and the Bull   *)
(* worker SyncProcessor.  Profiles share only the queue; jobs of others    *)
(* can do no more than make a day of the cron go by.                       *)
(*                                                                         *)
(* The clock counts days.  Nothing ties a job to the state column of its   *)
(* profile but the order in which these handlers write them.               *)
(***************************************************************************)
EXTENDS Integers, FiniteSets, FiniteSetsExt

CONSTANTS
    Requests,    \* requests, each of them served once
    Cron,        \* the cron, served once a day
    Depth,       \* days of history that a connected profile has (85)
    Cap,         \* most days of a manual or daily sync (90)
    Chunk,       \* days that one call of the platform covers (30)
    Periods,     \* values of days in the body of a request
    MaxDay,      \* bound: the clock stops here
    MaxFaults    \* bound: process crashes, failed calls and empty answers, together

ASSUME CronAssumption == Cron \notin Requests /\ Requests \cap 0..MaxDay = {}
ASSUME DepthAssumption ==
    {Depth, Cap, Chunk, MaxDay} \subseteq Nat \ {0} /\ Depth <= Cap /\ Cap <= MaxDay
ASSUME PeriodsAssumption == Periods \subseteq Nat \ {0}
ASSUME FaultsAssumption == MaxFaults \in Nat

VARIABLES
    profile,     \* the social_profiles row
    days,        \* dates of its analytics_snapshots rows
    other,       \* the other tables that have rows of it
    task,        \* task[t]: the handler of request or cron t
    job,         \* job[j]: the job that request j, or the cron of day j, added
    worker,      \* handleHistoricalSync
    today,       \* the clock
    marks,       \* what has happened (see Marks)
    faults       \* faults so far (see MaxFaults)

vars == <<profile, days, other, task, job, worker, today, marks, faults>>

\* A handler or a job died between marking and syncing; a sync failed half way;
\* a sync wrote what a deletion had passed, or was still to write at its end.
Marks == {"lost", "broke", "overlap"}

\* The first day leaves room for the longest sync.
FirstDay == Cap
Days == 0..MaxDay
Tasks == Requests \cup {Cron}
Jobs == Requests \cup Days

\* social_posts, demographic_snapshots, revenue_mappings, daily_revenue.
Tables == {"posts", "demographics", "teams", "revenue"}

\* expectedDays of POST aggregate: the period and the one before it.
Expected(period) == 2 * period + 1

NoProfile == [state |-> "none", is |-> "inactive"]
NoJob == [state |-> "none", fetch |-> 0, tries |-> 0, stalls |-> 0]
Idle == [pc |-> "idle", op |-> "none", fetch |-> 0]
IdleWorker == [pc |-> "idle", id |-> 0, next |-> 0, to |-> 0]

ProfileStates == [state : {"none", "COMPLETED", "SYNCING", "FAILED", "DISCONNECTED"},
                  is : {"active", "inactive"}]
TaskStates ==
    [pc : {"idle", "deactivate", "upsert", "check", "waiting", "find", "latest",
           "count", "mark", "add", "jobs", "inactive", "revenue", "teams",
           "demographics", "snapshots", "posts", "profile", "ended"},
     op : {"none", "confirm", "deselect", "disconnect", "delete", "manual",
           "aggregate", "daily"},
     fetch : Nat]
JobStates == [state : {"none", "waiting", "active", "delayed"}, fetch : Nat,
              tries : 0..2, stalls : 0..1]
WorkerStates ==
    [pc : {"idle", "find", "mark", "chunk", "finish", "failed"} \cup Tables,
     id : Jobs \cup {0}, next : Int, to : Days]

TypeOK ==
    /\ profile \in ProfileStates
    /\ profile.is = "active" => profile.state # "none"
    /\ days \subseteq Days /\ other \subseteq Tables
    /\ task \in [Tasks -> TaskStates]
    /\ job \in [Jobs -> JobStates]
    /\ worker \in WorkerStates
    /\ today \in FirstDay..MaxDay
    /\ marks \subseteq Marks
    /\ faults \in 0..MaxFaults

\* No profile yet, or one whose history was imported up to yesterday.
Init ==
    /\ \/ profile = NoProfile /\ days = {} /\ other = {}
       \/ /\ profile = [state |-> "COMPLETED", is |-> "active"]
          /\ days = (FirstDay - Depth)..(FirstDay - 1)
          /\ other = Tables
    /\ task = [t \in Tasks |-> Idle]
    /\ job = [j \in Jobs |-> NoJob]
    /\ worker = IdleWorker
    /\ today = FirstDay
    /\ marks = {}
    /\ faults = 0

Fault == faults < MaxFaults /\ faults' = faults + 1
Mark(name) == marks' = marks \cup {name}

\* UPDATE social_profiles: nothing happens to a row that is gone.
UpdateState(state) ==
    profile' = IF profile.state = "none" THEN profile
               ELSE [profile EXCEPT !.state = state]

-----------------------------------------------------------------------------
(* Handlers *)

rest == <<worker, today, marks, faults>>
At(t, pc) == task[t].pc = pc
Goto(t, pc) == task' = [task EXCEPT ![t].pc = pc]
\* A request is served once; the cron waits for the next day.
Ended(t) == Goto(t, "ended")
Begin(r, op, pc) ==
    /\ task[r] = Idle
    /\ task' = [task EXCEPT ![r].op = op, ![r].pc = pc]
Fetch(t, n, pc) == task' = [task EXCEPT ![t].fetch = n, ![t].pc = pc]

\* confirmPages, with this profile among the selected or not.
BeginConfirm(r) ==
    /\ \E op \in {"confirm", "deselect"} : Begin(r, op, "deactivate")
    /\ UNCHANGED <<rest, profile, days, other, job>>

Deactivate(r) ==
    /\ At(r, "deactivate")
    /\ profile' = [profile EXCEPT !.is = "inactive"]
    /\ Goto(r, IF task[r].op = "confirm" THEN "upsert" ELSE "ended")
    /\ UNCHANGED <<rest, days, other, job>>

\* Mutant: an UPDATE, which leaves a profile that is not there without its row.
UpsertProfileUpdates(r) ==
    /\ At(r, "upsert")
    /\ profile' = [profile EXCEPT !.is = "active"]
    /\ Goto(r, "check")
    /\ UNCHANGED <<rest, days, other, job>>

\* A new row has the default state COMPLETED, an old one keeps its state.
UpsertProfile(r) ==
    /\ At(r, "upsert")
    /\ profile' = [is |-> "active",
                   state |-> IF profile.state = "none" THEN "COMPLETED"
                             ELSE profile.state]
    /\ Goto(r, "check")
    /\ UNCHANGED <<rest, days, other, job>>

\* Mutant: any snapshot will do.
NeedsSyncOnce == days = {}

\* The oldest snapshot is to be Depth days old.
NeedsSync == days = {} \/ Min(days) > today - Depth

CheckOldest(r) ==
    /\ At(r, "check")
    /\ Fetch(r, IF NeedsSync THEN Depth ELSE 0, "mark")
    /\ UNCHANGED <<rest, profile, days, other, job>>

\* disconnectMeta, keeping or deleting the data: jobs and revenue are looked for
\* only when there is a profile.
BeginDisconnect(r) ==
    /\ \E op \in {"disconnect", "delete"} :
          Begin(r, op, IF profile.state # "none" THEN "jobs"
                       ELSE IF op = "delete" THEN "demographics" ELSE "inactive")
    /\ UNCHANGED <<rest, profile, days, other, job>>

\* A job that a worker holds cannot be removed.
RemoveJobs(r) ==
    /\ At(r, "jobs")
    /\ job' = [j \in Jobs |-> IF job[j].state = "active" THEN job[j] ELSE NoJob]
    /\ Goto(r, IF task[r].op = "delete" THEN "revenue" ELSE "inactive")
    /\ UNCHANGED <<rest, profile, days, other>>

SetInactive(r) ==
    /\ At(r, "inactive")
    /\ profile' = IF profile.state = "none" THEN profile
                  ELSE [state |-> "DISCONNECTED", is |-> "inactive"]
    /\ Ended(r)
    /\ UNCHANGED <<rest, days, other, job>>

\* One DELETE after the other; an Instagram account has neither revenue nor team.
NextDeletion == [revenue |-> "teams", teams |-> "demographics",
                 demographics |-> "snapshots", posts |-> "profile"]

DeleteRows(r) ==
    /\ task[r].pc \in Tables
    /\ other' = other \ {task[r].pc}
    /\ Goto(r, NextDeletion[task[r].pc])
    /\ UNCHANGED <<rest, profile, days, job>>

DeleteSnapshots(r) ==
    /\ At(r, "snapshots")
    /\ days' = {}
    /\ Goto(r, "posts")
    /\ UNCHANGED <<rest, profile, other, job>>

\* Where a sync may still write.
Writing == {"mark", "chunk"} \cup Tables

DeleteProfile(r) ==
    /\ At(r, "profile")
    /\ profile' = NoProfile
    /\ IF worker.pc \in Writing THEN Mark("overlap") ELSE UNCHANGED marks
    /\ Ended(r)
    /\ UNCHANGED <<days, other, job, worker, today, faults>>

\* POST profiles/:profileId/sync, with or without days in its body.
BeginManual(r) ==
    /\ profile.is = "active"
    /\ \/ Begin(r, "manual", "latest")
       \/ /\ task[r] = Idle
          /\ \E n \in Periods : task' = [task EXCEPT ![r] =
                [pc |-> "mark", op |-> "manual", fetch |-> Min({n, Cap})]]
    /\ UNCHANGED <<rest, profile, days, other, job>>

\* Days since the newest snapshot, plus two.  At midnight the cron counts from
\* the day before, and never less than one.
SinceNewest(t) ==
    IF days = {} THEN (IF t = Cron THEN 3 ELSE Cap)
    ELSE Max({1, today - Max(days) + IF t = Cron THEN 0 ELSE 1}) + 2

ReadNewest(t) ==
    /\ At(t, "latest")
    /\ Fetch(t, Min({SinceNewest(t), Cap}), "mark")
    /\ UNCHANGED <<rest, profile, days, other, job>>

\* POST aggregate, of a period that ends today or ended earlier.
BeginAggregate(r) ==
    /\ profile.is = "active" /\ profile.state # "SYNCING"
    /\ Begin(r, "aggregate", "count")
    /\ UNCHANGED <<rest, profile, days, other, job>>

CountSnapshots(r) ==
    /\ At(r, "count")
    /\ \E period \in Periods : \E end \in {today, today - period} :
          LET window == (end - Expected(period) + 1)..end
          IN  IF Cardinality(days \cap window) < Expected(period) - 2
              THEN Fetch(r, Expected(period), "mark") ELSE Ended(r)
    /\ UNCHANGED <<rest, profile, days, other, job>>

\* handleDailySync: the queue is counted in two calls.
BeginDaily ==
    /\ At(Cron, "idle")
    /\ IF \E j \in Jobs : job[j].state = "active" THEN Ended(Cron)
       ELSE task' = [task EXCEPT ![Cron].op = "daily", ![Cron].pc = "waiting"]
    /\ UNCHANGED <<rest, profile, days, other, job>>

CountWaiting ==
    /\ At(Cron, "waiting")
    /\ Goto(Cron, IF \E j \in Jobs : job[j].state = "waiting" THEN "ended"
                  ELSE "find")
    /\ UNCHANGED <<rest, profile, days, other, job>>

FindProfile ==
    /\ At(Cron, "find")
    /\ Goto(Cron, IF profile.is = "active" /\ profile.state # "SYNCING" THEN "latest"
                  ELSE "ended")
    /\ UNCHANGED <<rest, profile, days, other, job>>

\* All of them mark the profile first and add the job afterwards.
MarkProfile(t) ==
    /\ At(t, "mark")
    /\ UpdateState(IF task[t].fetch = 0 THEN "COMPLETED" ELSE "SYNCING")
    /\ Goto(t, IF task[t].fetch = 0 THEN "ended" ELSE "add")
    /\ UNCHANGED <<rest, days, other, job>>

JobOf(t) == IF t = Cron THEN today ELSE t

AddJob(t) ==
    /\ At(t, "add")
    /\ job' = [job EXCEPT ![JobOf(t)] =
                  [NoJob EXCEPT !.state = "waiting", !.fetch = task[t].fetch]]
    /\ Ended(t)
    /\ UNCHANGED <<rest, profile, days, other>>

\* A call of the database or of Redis fails: the request ends in a 500.
FailTask(t) ==
    /\ task[t].pc \notin {"idle", "ended"}
    /\ Fault
    /\ Mark("lost")
    /\ Ended(t)
    /\ UNCHANGED <<profile, days, other, job, worker, today>>

ServeRequest(r) ==
    \/ Deactivate(r) \/ UpsertProfile(r) \/ CheckOldest(r)
    \/ RemoveJobs(r) \/ SetInactive(r)
    \/ DeleteRows(r) \/ DeleteSnapshots(r) \/ DeleteProfile(r)
    \/ CountSnapshots(r)

Serve(t) == ReadNewest(t) \/ MarkProfile(t) \/ AddJob(t)

ServeCron == BeginDaily \/ CountWaiting \/ FindProfile

-----------------------------------------------------------------------------
(* handleHistoricalSync *)

frame == <<task, today>>
Step(pc) == worker' = [worker EXCEPT !.pc = pc]

\* Where a deletion is done with a table: what a sync writes then, stays.
AfterDeletion ==
    [revenue |-> {"teams", "demographics", "snapshots", "posts", "profile"},
     teams |-> {"demographics", "snapshots", "posts", "profile"},
     demographics |-> {"snapshots", "posts", "profile"},
     snapshots |-> {"posts", "profile"},
     posts |-> {"profile"}]

Overlap(table) ==
    IF \E r \in Requests : task[r].pc \in AfterDeletion[table]
    THEN Mark("overlap") ELSE UNCHANGED marks

TakeJob(j) ==
    /\ job[j].state = "waiting" /\ worker.pc = "idle"
    /\ job' = [job EXCEPT ![j].state = "active"]
    /\ worker' = [IdleWorker EXCEPT !.pc = "find", !.id = j]
    /\ UNCHANGED <<frame, profile, days, other, marks, faults>>

EndJob == worker' = IdleWorker /\ job' = [job EXCEPT ![worker.id] = NoJob]

\* Mutant: the job does not look at the profile.
StartUnchecked ==
    /\ worker.pc = "find"
    /\ Step("mark")
    /\ UNCHANGED <<frame, profile, days, other, job, marks, faults>>

StartSync ==
    /\ worker.pc = "find"
    /\ IF profile.is = "active" THEN Step("mark") /\ UNCHANGED job ELSE EndJob
    /\ UNCHANGED <<frame, profile, days, other, marks, faults>>

MarkSyncing ==
    /\ worker.pc = "mark"
    /\ UpdateState("SYNCING")
    /\ worker' = [worker EXCEPT !.pc = "chunk", !.to = today,
                                !.next = today - job[worker.id].fetch]
    /\ UNCHANGED <<frame, days, other, job, marks, faults>>

\* Oldest chunk first.  The loop stops before a chunk that would start today.
WriteChunk ==
    /\ worker.pc = "chunk"
    /\ LET last == Min({worker.next + Chunk - 1, worker.to})
       IN  /\ days' = days \cup ((worker.next..last) \cap Days)
           /\ worker' = [worker EXCEPT
                            !.next = last + 1,
                            !.pc = IF last + 1 < worker.to THEN "chunk"
                                   ELSE "posts"]
    /\ Overlap("snapshots")
    /\ UNCHANGED <<frame, profile, other, job, faults>>

\* Posts, demographics, the team and the revenue, each in a write of its own.
NextTable == [posts |-> "demographics", demographics |-> "teams",
              teams |-> "revenue", revenue |-> "finish"]

WriteRows ==
    /\ worker.pc \in Tables
    /\ other' = other \cup {worker.pc}
    /\ Step(NextTable[worker.pc])
    /\ Overlap(worker.pc)
    /\ UNCHANGED <<frame, profile, days, job, faults>>

\* An Instagram account has no team and no revenue; nor has a page when the first
\* of the two writes fails.
SkipRevenue ==
    /\ worker.pc = "teams"
    /\ Step("finish")
    /\ UNCHANGED <<frame, profile, days, other, job, marks, faults>>

\* There is nothing to write, or an error is swallowed.
SkipRows ==
    /\ worker.pc \in Tables \ {"teams"}
    /\ Fault
    /\ Step(NextTable[worker.pc])
    /\ UNCHANGED <<frame, profile, days, other, job, marks>>

\* Mutant: the profile is not marked at the end.
FinishUnmarked ==
    /\ worker.pc = "finish"
    /\ EndJob
    /\ UNCHANGED <<frame, profile, days, other, marks, faults>>

FinishSync ==
    /\ worker.pc = "finish"
    /\ UpdateState("COMPLETED")
    /\ EndJob
    /\ UNCHANGED <<frame, days, other, marks, faults>>

\* The calls of the platform swallow their errors; those of the database throw.
SyncFails ==
    /\ worker.pc \in {"find", "mark", "chunk", "posts", "finish"}
    /\ Fault
    /\ Mark("broke")
    /\ Step("failed")
    /\ UNCHANGED <<frame, profile, days, other, job>>

\* Mutant: a failure is only logged.
RecordNothing ==
    /\ worker.pc = "failed"
    /\ EndJob
    /\ UNCHANGED <<frame, profile, days, other, marks, faults>>

\* The catch block does not throw: the job is a success for Bull.
RecordFailure ==
    /\ worker.pc = "failed"
    /\ UpdateState("FAILED")
    /\ EndJob
    /\ UNCHANGED <<frame, days, other, marks, faults>>

\* ... unless its update fails in the same outage: a job of confirmPages has
\* three attempts, the others have one.
TriesLeft(j) ==
    j \in Requests /\ task[j].op = "confirm" /\ job[j].tries < 2

GiveUp(j) ==
    /\ job' = [job EXCEPT ![j] = NoJob]
    /\ Mark("lost")

RecordingFails ==
    /\ worker.pc = "failed"
    /\ IF TriesLeft(worker.id)
       THEN /\ job' = [job EXCEPT ![worker.id].state = "delayed",
                                  ![worker.id].tries = job[worker.id].tries + 1]
            /\ UNCHANGED marks
       ELSE GiveUp(worker.id)
    /\ worker' = IdleWorker
    /\ UNCHANGED <<frame, profile, days, other, faults>>

Sync ==
    \/ StartSync \/ MarkSyncing \/ WriteChunk \/ WriteRows \/ SkipRevenue
    \/ FinishSync \/ RecordFailure

-----------------------------------------------------------------------------
(* Bull, the process and the clock *)

PromoteJob(j) ==
    /\ job[j].state = "delayed"
    /\ job' = [job EXCEPT ![j].state = "waiting"]
    /\ UNCHANGED <<frame, profile, days, other, worker, marks,
                   faults>>

RestartStalledJob(j) ==
    /\ job[j].state = "active" /\ worker.pc = "idle"
    /\ IF job[j].stalls = 0
       THEN /\ job' = [job EXCEPT ![j].state = "waiting", ![j].stalls = 1]
            /\ UNCHANGED marks
       ELSE GiveUp(j)
    /\ UNCHANGED <<frame, profile, days, other, worker, faults>>

Crash ==
    /\ Fault
    /\ marks' = marks
          \cup {m \in {"lost"} : \E t \in Tasks : task[t].pc \notin {"idle", "ended"}}
          \cup {m \in {"broke"} : worker.pc # "idle"}
    /\ task' = [t \in Tasks |-> IF task[t].pc = "idle" THEN Idle
                                ELSE [task[t] EXCEPT !.pc = "ended"]]
    /\ worker' = IdleWorker
    /\ UNCHANGED <<profile, days, other, job, today>>

\* Handlers are short next to a day, the queue need not be.
NextDay ==
    /\ today < MaxDay
    /\ \A t \in Tasks : task[t].pc \in {"idle", "ended"}
    /\ today' = today + 1
    /\ task' = [task EXCEPT ![Cron] = Idle]
    /\ UNCHANGED <<profile, days, other, job, worker, marks,
                   faults>>

Next ==
    \/ \E r \in Requests :
          \/ BeginConfirm(r) \/ BeginDisconnect(r)
          \/ BeginManual(r) \/ BeginAggregate(r)
          \/ ServeRequest(r)
    \/ ServeCron
    \/ \E t \in Tasks : Serve(t) \/ FailTask(t)
    \/ Sync \/ SkipRows \/ SyncFails \/ RecordingFails
    \/ \E j \in Jobs : TakeJob(j) \/ PromoteJob(j) \/ RestartStalledJob(j)
    \/ Crash
    \/ NextDay

Spec == Init /\ [][Next]_vars

\* Node finishes what it started and Bull serves its queue; nobody has to send
\* a request, and the clock may stop.
Fairness ==
    /\ \A r \in Requests : WF_vars(ServeRequest(r) \/ Serve(r))
    /\ WF_vars(CountWaiting \/ FindProfile \/ Serve(Cron))
    /\ WF_vars(Sync)
    /\ WF_vars(\E j \in Jobs : TakeJob(j))
    /\ WF_vars(\E j \in Jobs : PromoteJob(j) \/ RestartStalledJob(j))

FairSpec == Spec /\ Fairness

-----------------------------------------------------------------------------
(* Properties *)

Queued(j) == job[j].state # "none"
Serving(t) == task[t].pc \notin {"idle", "ended"}

\* A connected profile that says SYNCING has a job, or a request that is about
\* to settle it, whatever else confirms, disconnects or syncs it meanwhile,
\* unless a request or a job died on the way (the cron skips it then for good).
SyncingHasOwner ==
    profile.is = "active" /\ profile.state = "SYNCING" =>
        \/ "lost" \in marks
        \/ \E j \in Jobs : Queued(j)
        \/ \E t \in Tasks : Serving(t)

\* A connected profile that says COMPLETED has its history, or a job for it, or
\* a request at work on it, unless a sync or a request failed.
CompletedHasHistory ==
    profile.is = "active" /\ profile.state = "COMPLETED" =>
        \/ marks \cap {"lost", "broke"} # {}
        \/ \E d \in days : d <= today - Depth
        \/ \E j \in Jobs : Queued(j) /\ job[j].fetch >= Depth
        \/ \E t \in Tasks : Serving(t)

\* No rows of any table stay behind a deleted profile, or come back by jobs still
\* queued, unless a sync wrote to a table the deletion had passed, or was still to
\* write when the profile went.
NoOrphans ==
    profile.state = "none" /\ "overlap" \notin marks => days = {} /\ other = {}

\* SYNCING ends, unless a request or a job died on the way.
SyncingEnds ==
    profile.is = "active" /\ profile.state = "SYNCING" ~>
        "lost" \in marks \/ ~(profile.is = "active" /\ profile.state = "SYNCING")
=============================================================================
