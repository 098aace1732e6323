--------------------------- MODULE MetaSyncProofs ---------------------------
(***************************************************************************)
(* Proofs, for any requests, periods and bounds, of three safety           *)
(* properties of MetaSync: a profile that says SYNCING has somebody at     *)
(* work for it, one that says COMPLETED has its history, and a deletion    *)
(* leaves no rows behind.                                                  *)
(***************************************************************************)
EXTENDS MetaSync, WellFoundedInduction, TLAPS

-----------------------------------------------------------------------------
(* The greatest of a bounded set of numbers, and of two *)

Below == {p \in Nat \X Nat : p[1] < p[2]}

LEMMA BelowIsWellFounded == IsWellFoundedOn(Below, Nat)
<1>1. OpToRel(<, Nat) = Below
  BY DEF OpToRel, Below
<1> QED
  BY NatLessThanWellFounded, <1>1

LEMMA LeastExists ==
  ASSUME NEW T, T \subseteq Nat, T # {}
  PROVE  \E x \in T : \A y \in T : x <= y
<1>1. \E x \in T : \A y \in T : ~(<<y, x>> \in Below)
  BY BelowIsWellFounded, WFMin
<1>2. PICK x \in T : \A y \in T : ~(<<y, x>> \in Below)
  BY <1>1
<1>3. ASSUME NEW y \in T PROVE x <= y
  <2>1. ~(<<y, x>> \in Below) /\ x \in Nat /\ y \in Nat
    BY <1>2
  <2>2. <<y, x>> \in Nat \X Nat
    BY <2>1
  <2>3. ~(y < x)
    BY <2>1, <2>2 DEF Below
  <2> QED
    BY <2>1, <2>3
<1> QED
  BY <1>3

LEMMA GreatestExists ==
  ASSUME NEW S, S \subseteq Nat, NEW b \in Nat, S # {}, \A x \in S : x <= b
  PROVE  Max(S) \in S /\ \A x \in S : x <= Max(S)
<1> DEFINE T == {b - x : x \in S}
<1>1. T \subseteq Nat
  BY \A x \in S : b - x \in Nat
<1>2. T # {}
  OBVIOUS
<1>3. \E t \in T : \A y \in T : t <= y
  <2> HIDE DEF T
  <2> QED
    BY <1>1, <1>2, LeastExists
<1>4. PICK t \in T : \A y \in T : t <= y
  BY <1>3
<1>5. PICK m \in S : t = b - m
  BY <1>4
<1>6. ASSUME NEW x \in S PROVE m >= x
  <2>1. b - x \in T
    OBVIOUS
  <2>2. b - m <= b - x
    BY <2>1, <1>4, <1>5
  <2> QED
    BY <2>2
<1>7. \E y \in S : \A x \in S : y >= x
  BY <1>6
<1>8. Max(S) \in S /\ \A x \in S : Max(S) >= x
  BY <1>7 DEF Max
<1> QED
  BY <1>8

\* The greater and the smaller of two numbers.
LEMMA MaxOfTwo ==
  ASSUME NEW a \in Int, NEW b \in Int
  PROVE  Max({a, b}) = IF a >= b THEN a ELSE b
BY DEF Max

LEMMA MinOfTwo ==
  ASSUME NEW a \in Int, NEW b \in Int
  PROVE  Min({a, b}) = IF a =< b THEN a ELSE b
BY DEF Min

-----------------------------------------------------------------------------
(* The inductive invariant *)

\* A busy worker holds an active job.
WorkerInv == worker.pc # "idle" => job[worker.id].state = "active"

\* A request or cron that is not over has added no job, nor has the cron of a day
\* to come.
FreshInv ==
    /\ \A t \in Tasks : task[t].pc # "ended" => job[JobOf(t)].state = "none"
    /\ \A d \in Days : d > today => job[d].state = "none"

\* Who answers for a profile that says SYNCING: a request that has still to write
\* its state or to add its job.
Deleting == Tables \cup {"snapshots", "profile"}
Settling == {"check", "mark", "add", "inactive"} \cup Deleting
OwnerInv ==
    profile.is = "active" /\ profile.state = "SYNCING" =>
        \/ "lost" \in marks
        \/ \E j \in Jobs : job[j].state # "none"
        \/ \E t \in Tasks : task[t].pc \in Settling

\* A sync that has looked at its profile writes nothing for one that is gone,
\* or it was running at the deletion.
WriterInv ==
    worker.pc \in Writing /\ profile.state = "none" => "overlap" \in marks

\* What a deletion has deleted stays deleted, or a sync wrote there after it.
DeletionInv ==
    "overlap" \in marks \/ \A r \in Requests :
      /\ task[r].pc \in AfterDeletion["snapshots"] => days = {}
      /\ \A table \in Tables :
            task[r].pc \in AfterDeletion[table] => table \notin other

IInv ==
    /\ TypeOK /\ WorkerInv /\ FreshInv /\ OwnerInv
    /\ WriterInv /\ DeletionInv /\ NoOrphans

-----------------------------------------------------------------------------
(* Facts the steps share *)

LEMMA Numbers ==
    /\ Depth \in Nat /\ Cap \in Nat /\ Chunk \in Nat /\ MaxDay \in Nat /\ MaxFaults \in Nat
    /\ Depth # 0 /\ Cap # 0 /\ Chunk # 0 /\ Depth <= Cap /\ Cap <= MaxDay
    /\ Periods \subseteq Nat /\ FirstDay = Cap /\ FirstDay \in Days /\ Days \subseteq Nat
    /\ 0 \in Days /\ 0 \in Jobs
  BY DepthAssumption, FaultsAssumption, PeriodsAssumption DEF FirstDay, Days, Jobs

LEMMA Names ==
    /\ Cron \notin Requests /\ Requests \cap Days = {}
    /\ Requests \subseteq Tasks /\ Cron \in Tasks
    /\ \A t \in Tasks : t # Cron => t \in Requests
  BY CronAssumption DEF Tasks, Days

LEMMA Records ==
    /\ NoProfile \in ProfileStates /\ NoJob \in JobStates /\ Idle \in TaskStates
    /\ IdleWorker \in WorkerStates
  BY Numbers DEF NoProfile, ProfileStates, NoJob, JobStates, Idle, TaskStates,
     IdleWorker, WorkerStates

LEMMA InitIInv == Init => IInv
<1> SUFFICES ASSUME Init PROVE IInv
  OBVIOUS
<1>1. TypeOK
  <2>1. profile \in ProfileStates /\ (profile.is = "active" => profile.state # "none")
    BY DEF Init, ProfileStates, NoProfile
  <2>2. days \subseteq Days /\ other \subseteq Tables
    BY Numbers DEF Init, Days
  <2>3. today \in FirstDay..MaxDay /\ faults \in 0..MaxFaults
    BY Numbers DEF Init
  <2>4. task \in [Tasks -> TaskStates] /\ job \in [Jobs -> JobStates]
        /\ worker \in WorkerStates /\ marks \subseteq Marks
    BY Records DEF Init
  <2> QED
    BY <2>1, <2>2, <2>3, <2>4 DEF TypeOK
<1>2. WorkerInv /\ WriterInv
  BY DEF Init, WorkerInv, WriterInv, Writing, Tables, IdleWorker
<1>3. FreshInv
  BY Numbers, Names DEF Init, FreshInv, NoJob, Jobs, JobOf
<1>4. OwnerInv
  BY DEF Init, OwnerInv, NoProfile
<1>5. DeletionInv
  BY Names DEF Init, DeletionInv, AfterDeletion, Tables, Idle
<1>6. NoOrphans
  BY DEF Init, NoOrphans, NoProfile
<1> QED
  BY <1>1, <1>2, <1>3, <1>4, <1>5, <1>6 DEF IInv

\* The days that a sync asks for, and where a chunk of it ends.
LEMMA AsksForDays ==
  ASSUME IInv, NEW t \in Tasks
  PROVE  Min({SinceNewest(t), Cap}) \in Nat
<1>1. today \in Nat /\ days \subseteq Nat /\ \A d \in days : d <= MaxDay
  BY Numbers DEF IInv, TypeOK, Days
<1>2. SinceNewest(t) \in Nat
  <2>1. CASE days = {}
    BY <2>1, Numbers DEF SinceNewest
  <2>2. CASE days # {}
    <3>1. Max(days) \in Nat
      BY <1>1, <2>2, Numbers, GreatestExists
    <3>2. PICK n : n = today - Max(days) + IF t = Cron THEN 0 ELSE 1
      OBVIOUS
    <3>3. n \in Int
      BY <1>1, <3>1, <3>2
    <3>4. Max({1, n}) \in Nat
      BY <3>3, MaxOfTwo
    <3> QED
      BY <2>2, <3>2, <3>4 DEF SinceNewest
  <2> QED
    BY <2>1, <2>2
<1> QED
  BY <1>2, Numbers, MinOfTwo

LEMMA AsksForPeriod ==
  ASSUME NEW n \in Periods
  PROVE  Min({n, Cap}) \in Nat /\ Expected(n) \in Nat
BY Numbers, MinOfTwo DEF Expected

LEMMA ChunkEnds ==
  ASSUME IInv
  PROVE  Min({worker.next + Chunk - 1, worker.to}) \in Int
<1>1. worker.next \in Int /\ worker.to \in Days
  BY DEF IInv, TypeOK, WorkerStates
<1>2. PICK n \in Int, d \in Nat : n = worker.next /\ d = worker.to
  BY <1>1, Numbers
<1>3. n + Chunk - 1 \in Int
  BY Numbers
<1> QED
  BY <1>2, <1>3, MinOfTwo

\* Each task has a job of its own, the cron a new one every day.
LEMMA OwnJobs ==
  ASSUME IInv
  PROVE  /\ today \in Days /\ \A t \in Tasks : JobOf(t) \in Jobs
         /\ \A t \in Tasks, u \in Tasks : t # u => JobOf(t) # JobOf(u)
         /\ \A t \in Tasks, d \in Days : d > today => JobOf(t) # d
<1>1. today \in Days /\ today \in Nat
  BY Numbers DEF IInv, TypeOK, Days
<1>2. Days \subseteq Jobs /\ Requests \subseteq Jobs
  BY DEF Jobs
<1> QED
  BY <1>1, <1>2, Names, Numbers DEF JobOf

LEMMA FreshKept ==
  ASSUME IInv, today' = today,
         \A j \in Jobs : job[j].state = "none" => job'[j].state = "none",
         \A t \in Tasks : task[t].pc = "ended" => task'[t].pc = "ended"
  PROVE  FreshInv'
<1>1. \A t \in Tasks : JobOf(t)' = JobOf(t)
  BY DEF JobOf
<1>2. Days \subseteq Jobs
  BY DEF Jobs
<1> QED
  BY <1>1, <1>2, OwnJobs DEF IInv, FreshInv

\* A deletion of rows moves its request on, to another deletion.
LEMMA RowsAreDeleted ==
  ASSUME IInv, NEW r \in Requests, DeleteRows(r)
  PROVE  /\ UNCHANGED <<rest, profile, days, job>>
         /\ task[r].pc \in Tables /\ other' = other \ {task[r].pc}
         /\ \A t \in Tasks : t # r => task'[t] = task[t]
         /\ task'[r] \in TaskStates /\ task' \in [Tasks -> TaskStates]
         /\ task'[r].pc = NextDeletion[task[r].pc]
         /\ task'[r].pc \in {"teams", "demographics", "snapshots", "profile"}
<1>1. NextDeletion[task[r].pc] \in {"teams", "demographics", "snapshots", "profile"}
  BY DEF DeleteRows, Tables, NextDeletion
<1>2. task \in [Tasks -> TaskStates] /\ r \in Tasks
  BY Names DEF IInv, TypeOK
<1>3. task' = [task EXCEPT ![r] = [task[r] EXCEPT !.pc = NextDeletion[task[r].pc]]]
  BY DEF DeleteRows, Goto
<1>4. task'[r] \in TaskStates /\ task'[r].pc = NextDeletion[task[r].pc]
  BY <1>1, <1>2, <1>3 DEF TaskStates
<1> QED
  BY <1>1, <1>2, <1>3, <1>4 DEF DeleteRows

\* A write of rows, or their leaving out, moves the worker on to another table or
\* to the end.
Rows == WriteRows \/ SkipRevenue \/ SkipRows

LEMMA RowsAreWritten ==
  ASSUME IInv, Rows
  PROVE  /\ UNCHANGED <<frame, profile, days, job>>
         /\ worker.pc \in Tables /\ worker'.pc \in Tables \cup {"finish"}
         /\ worker' \in WorkerStates /\ worker'.id = worker.id
         /\ worker'.next = worker.next /\ worker'.to = worker.to
         /\ faults' \in 0..MaxFaults /\ marks' \in {marks, marks \cup {"overlap"}}
         /\ other' = other \/ (WriteRows /\ other' = other \cup {worker.pc})
<1>1. /\ worker \in WorkerStates /\ worker.pc \in Tables
      /\ NextTable[worker.pc] \in Tables \cup {"finish"}
  BY DEF Rows, WriteRows, SkipRevenue, SkipRows, NextTable, Tables, IInv, TypeOK
<1>2. \E pc \in Tables \cup {"finish"} : worker' = [worker EXCEPT !.pc = pc]
  BY <1>1 DEF Rows, WriteRows, SkipRevenue, SkipRows, Step
<1>3. /\ worker'.pc \in Tables \cup {"finish"} /\ worker' \in WorkerStates
      /\ worker'.id = worker.id /\ worker'.next = worker.next /\ worker'.to = worker.to
  BY <1>1, <1>2 DEF WorkerStates
<1>4. faults' \in 0..MaxFaults /\ marks' \in {marks, marks \cup {"overlap"}}
  BY Numbers DEF Rows, WriteRows, SkipRevenue, SkipRows, Fault, Overlap, Mark, IInv, TypeOK
<1>5. UNCHANGED <<frame, profile, days, job>>
  BY DEF Rows, WriteRows, SkipRevenue, SkipRows
<1>6. other' = other \/ (WriteRows /\ other' = other \cup {worker.pc})
  BY DEF Rows, WriteRows, SkipRevenue, SkipRows
<1> QED
  BY <1>1, <1>3, <1>4, <1>5, <1>6

\* What a manual sync does to its task, with days in its body or without.
LEMMA ManualBegins ==
  ASSUME IInv, NEW r \in Requests, BeginManual(r)
  PROVE  /\ task[r].pc = "idle" /\ UNCHANGED <<rest, profile, days, other, job>>
         /\ \E start \in {"latest", "mark"}, n \in Nat :
               task' = [task EXCEPT ![r] = [pc |-> start, op |-> "manual", fetch |-> n]]
<1> DEFINE Started(start, n) ==
        task' = [task EXCEPT ![r] = [pc |-> start, op |-> "manual", fetch |-> n]]
<1>1. task[r].pc = "idle" /\ UNCHANGED <<rest, profile, days, other, job>>
  BY DEF BeginManual, Begin, Idle
<1>2. CASE Begin(r, "manual", "latest")
  <2>1. Started("latest", 0)
    BY <1>2, Names DEF Begin, Idle, IInv, TypeOK
  <2> QED
    BY <1>1, <2>1
<1>3. CASE \E n \in Periods : Started("mark", Min({n, Cap}))
  <2>1. PICK n \in Periods : Started("mark", Min({n, Cap}))
    BY <1>3
  <2>2. Min({n, Cap}) \in Nat
    BY AsksForPeriod
  <2> QED
    BY <1>1, <2>1, <2>2
<1> QED
  BY <1>2, <1>3 DEF BeginManual

-----------------------------------------------------------------------------
(* Each part of the invariant survives each step *)

LEMMA TypeStep == IInv /\ [Next]_vars => TypeOK'
<1> SUFFICES ASSUME IInv, [Next]_vars PROVE TypeOK'
  OBVIOUS
<1> USE Numbers, Records, Names DEF IInv, TypeOK, Marks
<1>1. ASSUME NEW r \in Requests, BeginConfirm(r) PROVE TypeOK'
  BY <1>1 DEF BeginConfirm, rest, At, Goto, Begin, Idle, TaskStates
<1>2. ASSUME NEW r \in Requests, Deactivate(r) PROVE TypeOK'
  BY <1>2 DEF Deactivate, rest, At, Goto, Ended, ProfileStates, TaskStates
<1>3. ASSUME NEW r \in Requests, UpsertProfile(r) PROVE TypeOK'
  BY <1>3 DEF UpsertProfile, rest, At, Goto, ProfileStates, TaskStates
<1>4. ASSUME NEW r \in Requests, CheckOldest(r) PROVE TypeOK'
  BY <1>4 DEF CheckOldest, rest, At, Goto, Fetch, TaskStates
<1>5. ASSUME NEW r \in Requests, BeginDisconnect(r) PROVE TypeOK'
  BY <1>5 DEF BeginDisconnect, rest, At, Goto, Begin, Idle, TaskStates
<1>6. ASSUME NEW r \in Requests, RemoveJobs(r) PROVE TypeOK'
  BY <1>6 DEF RemoveJobs, rest, At, Goto, NoJob, TaskStates
<1>7. ASSUME NEW r \in Requests, SetInactive(r) PROVE TypeOK'
  BY <1>7 DEF SetInactive, rest, At, Goto, Ended, ProfileStates, TaskStates
<1>8. ASSUME NEW r \in Requests, DeleteSnapshots(r) PROVE TypeOK'
  BY <1>8 DEF DeleteSnapshots, rest, At, Goto, TaskStates
<1>9. ASSUME NEW r \in Requests, DeleteRows(r) PROVE TypeOK'
  BY <1>9, RowsAreDeleted DEF rest
<1>10. ASSUME NEW r \in Requests, DeleteProfile(r) PROVE TypeOK'
  BY <1>10 DEF DeleteProfile, rest, At, Goto, Ended, Mark, NoProfile, ProfileStates,
     TaskStates
<1>11. ASSUME NEW r \in Requests, BeginManual(r) PROVE TypeOK'
  <2>1. PICK start \in {"latest", "mark"}, n \in Nat :
          task' = [task EXCEPT ![r] = [pc |-> start, op |-> "manual", fetch |-> n]]
    BY <1>11, ManualBegins
  <2>2. task[r].pc = "idle" /\ UNCHANGED <<rest, profile, days, other, job>>
    BY <1>11, ManualBegins
  <2> QED
    BY <2>1, <2>2 DEF
     rest, TaskStates
<1>12. ASSUME NEW r \in Requests, BeginAggregate(r) PROVE TypeOK'
  BY <1>12 DEF BeginAggregate, rest, At, Goto, Begin, Idle, TaskStates
<1>13. ASSUME NEW r \in Requests, CountSnapshots(r) PROVE TypeOK'
  BY <1>13, AsksForPeriod DEF CountSnapshots, rest, At, Goto, Fetch, Ended,
     TaskStates
<1>14. ASSUME BeginDaily PROVE TypeOK'
  BY <1>14 DEF BeginDaily, rest, At, Goto, Ended, TaskStates
<1>15. ASSUME CountWaiting PROVE TypeOK'
  BY <1>15 DEF CountWaiting, rest, At, Goto, TaskStates
<1>16. ASSUME FindProfile PROVE TypeOK'
  BY <1>16 DEF FindProfile, rest, At, Goto, TaskStates
<1>17. ASSUME NEW t \in Tasks, ReadNewest(t) PROVE TypeOK'
  BY <1>17, AsksForDays DEF ReadNewest, rest, At, Goto, Fetch, TaskStates
<1>18. ASSUME NEW t \in Tasks, MarkProfile(t) PROVE TypeOK'
  BY <1>18 DEF MarkProfile, rest, At, Goto, UpdateState, ProfileStates, TaskStates
<1>19. ASSUME NEW t \in Tasks, AddJob(t) PROVE TypeOK'
  <2>1. task' \in [Tasks -> TaskStates]
    BY <1>19 DEF AddJob, Ended, Goto, TaskStates
  <2>2. [NoJob EXCEPT !.state = "waiting", !.fetch = task[t].fetch] \in JobStates
    BY DEF NoJob, JobStates, TaskStates
  <2>3. job' \in [Jobs -> JobStates]
    BY <1>19, <2>2 DEF AddJob
  <2> QED
    BY <1>19, <2>1, <2>3 DEF AddJob, rest
<1>20. ASSUME NEW t \in Tasks, FailTask(t) PROVE TypeOK'
  BY <1>20 DEF FailTask, Goto, Ended, Fault, Mark, TaskStates
<1>21. ASSUME StartSync PROVE TypeOK'
  BY <1>21 DEF StartSync, frame, Step, EndJob, NoJob, IdleWorker, JobStates,
     WorkerStates
<1>22. ASSUME MarkSyncing PROVE TypeOK'
  <2>1. today \in Days /\ job[worker.id].fetch \in Nat
    BY OwnJobs DEF JobStates, WorkerStates
  <2>2. today - job[worker.id].fetch \in Int
    BY <2>1
  <2> QED
    BY <1>22, <2>1, <2>2 DEF MarkSyncing, frame, UpdateState, ProfileStates,
       WorkerStates
<1>23. ASSUME WriteChunk PROVE TypeOK'
  <2>1. PICK last : last = Min({worker.next + Chunk - 1, worker.to})
    OBVIOUS
  <2>2. last + 1 \in Int
    BY <2>1, ChunkEnds
  <2>3. worker' \in WorkerStates
    BY <1>23, <2>1, <2>2 DEF WriteChunk, WorkerStates, Tables
  <2>4. days' \subseteq Days
    BY <1>23 DEF WriteChunk
  <2> QED
    BY <1>23, <2>3, <2>4 DEF WriteChunk, frame, Overlap, Mark
<1>24. ASSUME Rows PROVE TypeOK'
  BY <1>24, RowsAreWritten DEF frame
<1>25. ASSUME FinishSync PROVE TypeOK'
  BY <1>25 DEF FinishSync, frame, Step, EndJob, NoJob, IdleWorker, UpdateState,
     ProfileStates, JobStates, WorkerStates
<1>26. ASSUME RecordFailure PROVE TypeOK'
  BY <1>26 DEF RecordFailure, frame, Step, EndJob, NoJob, IdleWorker, UpdateState,
     ProfileStates, JobStates, WorkerStates
<1>27. ASSUME SyncFails PROVE TypeOK'
  BY <1>27 DEF SyncFails, frame, Step, Fault, Mark, WorkerStates
<1>28. ASSUME RecordingFails PROVE TypeOK'
  BY <1>28 DEF RecordingFails, frame, TriesLeft, GiveUp, NoJob, IdleWorker, Mark,
     JobStates, WorkerStates
<1>29. ASSUME NEW j \in Jobs, TakeJob(j) PROVE TypeOK'
  BY <1>29 DEF TakeJob, frame, IdleWorker, JobStates, WorkerStates
<1>30. ASSUME NEW j \in Jobs, PromoteJob(j) PROVE TypeOK'
  BY <1>30 DEF PromoteJob, frame, JobStates
<1>31. ASSUME NEW j \in Jobs, RestartStalledJob(j) PROVE TypeOK'
  BY <1>31 DEF RestartStalledJob, frame, GiveUp, NoJob, Mark, JobStates
<1>32. ASSUME Crash PROVE TypeOK'
  <2>1. \A t \in Tasks : [task[t] EXCEPT !.pc = "ended"] \in TaskStates
    BY DEF TaskStates
  <2>2. task' \in [Tasks -> TaskStates]
    BY <1>32, <2>1 DEF Crash
  <2> QED
    BY <1>32, <2>2 DEF Crash, Fault
<1>33. ASSUME NextDay PROVE TypeOK'
  BY <1>33 DEF NextDay, Idle, TaskStates
<1>34. CASE UNCHANGED vars
  BY <1>34 DEF vars
<1> QED
  BY <1>1, <1>2, <1>3, <1>4, <1>5, <1>6, <1>7, <1>8, <1>9, <1>10, <1>11, <1>12,
     <1>13, <1>14, <1>15, <1>16, <1>17, <1>18, <1>19, <1>20, <1>21, <1>22, <1>23,
     <1>24, <1>25, <1>26, <1>27, <1>28, <1>29, <1>30, <1>31, <1>32, <1>33, <1>34
  DEF Next, ServeRequest, ServeCron, Serve, Sync, Rows

LEMMA WorkerStep == IInv /\ [Next]_vars => WorkerInv'
<1> SUFFICES ASSUME IInv, [Next]_vars PROVE WorkerInv'
  OBVIOUS
<1> USE Numbers, Names DEF IInv, TypeOK, WorkerInv
<1>1. ASSUME NEW r \in Requests, RemoveJobs(r) PROVE WorkerInv'
  BY <1>1 DEF RemoveJobs, rest, At, Goto, NoJob, WorkerStates, JobStates
<1>2. ASSUME NEW t \in Tasks, AddJob(t) PROVE WorkerInv'
  BY <1>2 DEF AddJob, rest, At, Goto, Ended, JobOf, NoJob, WorkerStates, JobStates,
     FreshInv, Jobs
<1>3. ASSUME StartSync PROVE WorkerInv'
  BY <1>3 DEF StartSync, frame, Step, EndJob, NoJob, IdleWorker, WorkerStates,
     JobStates
<1>4. ASSUME FinishSync PROVE WorkerInv'
  BY <1>4 DEF FinishSync, frame, Step, EndJob, NoJob, IdleWorker, UpdateState,
     WorkerStates, JobStates
<1>5. ASSUME RecordFailure PROVE WorkerInv'
  BY <1>5 DEF RecordFailure, frame, Step, EndJob, NoJob, IdleWorker, UpdateState,
     WorkerStates, JobStates
<1>6. ASSUME RecordingFails PROVE WorkerInv'
  BY <1>6 DEF RecordingFails, frame, TriesLeft, GiveUp, NoJob, IdleWorker, Mark,
     WorkerStates, JobStates
<1>7. ASSUME NEW j \in Jobs, TakeJob(j) PROVE WorkerInv'
  BY <1>7 DEF TakeJob, frame, IdleWorker, WorkerStates, JobStates
<1>8. ASSUME NEW j \in Jobs, PromoteJob(j) PROVE WorkerInv'
  BY <1>8 DEF PromoteJob, frame, WorkerStates, JobStates
<1>9. ASSUME NEW j \in Jobs, RestartStalledJob(j) PROVE WorkerInv'
  BY <1>9 DEF RestartStalledJob, frame, GiveUp, NoJob, Mark, WorkerStates, JobStates
<1>10. ASSUME Crash PROVE WorkerInv'
  BY <1>10 DEF Crash, Fault, Idle, IdleWorker, WorkerStates, JobStates
<1>11. CASE UNCHANGED vars
  BY <1>11 DEF vars, WorkerStates, JobStates
<1>12. ASSUME \/ (\E r \in Requests : BeginConfirm(r))
              \/ (\E r \in Requests : Deactivate(r))
              \/ (\E r \in Requests : UpsertProfile(r))
              \/ (\E r \in Requests : CheckOldest(r))
              \/ (\E r \in Requests : BeginDisconnect(r))
              \/ (\E r \in Requests : SetInactive(r))
              \/ (\E r \in Requests : DeleteSnapshots(r))
              \/ (\E r \in Requests : DeleteProfile(r))
       PROVE  WorkerInv'
  BY <1>12 DEF BeginConfirm, rest, At, Goto, Begin, Idle, Deactivate, Ended,
     UpsertProfile, CheckOldest, Fetch, BeginDisconnect, SetInactive,
     DeleteSnapshots, DeleteProfile, Mark, NoProfile, WorkerStates,
     JobStates
<1>13. ASSUME \/ (\E r \in Requests : BeginManual(r))
              \/ (\E r \in Requests : BeginAggregate(r))
              \/ (\E r \in Requests : CountSnapshots(r)) \/ BeginDaily
              \/ CountWaiting \/ FindProfile
              \/ (\E t \in Tasks : ReadNewest(t))
              \/ (\E t \in Tasks : MarkProfile(t))
              \/ (\E t \in Tasks : FailTask(t))
       PROVE  WorkerInv'
  BY <1>13 DEF BeginManual, rest, At, Goto, Begin, Idle, BeginAggregate,
     CountSnapshots, Fetch, Ended, BeginDaily, CountWaiting, FindProfile,
     ReadNewest, MarkProfile, UpdateState, FailTask, Fault, Mark, WorkerStates,
     JobStates
<1>14. ASSUME \/ MarkSyncing \/ WriteChunk \/ SyncFails
              \/ NextDay
       PROVE  WorkerInv'
  BY <1>14 DEF MarkSyncing, frame, Step, UpdateState, WriteChunk, Overlap, Mark,
     SyncFails, Fault, NextDay, Idle, WorkerStates, JobStates
<1>15. ASSUME NEW r \in Requests, DeleteRows(r) PROVE WorkerInv'
  BY <1>15, RowsAreDeleted DEF rest
<1>16. ASSUME Rows PROVE WorkerInv'
  BY <1>16, RowsAreWritten DEF Tables
<1> QED
  BY <1>1, <1>2, <1>3, <1>4, <1>5, <1>6, <1>7, <1>8, <1>9, <1>10, <1>11, <1>12,
     <1>13, <1>14, <1>15, <1>16
  DEF Next, ServeRequest, ServeCron, Serve, Sync, Rows

LEMMA FreshStep == IInv /\ [Next]_vars => FreshInv'
<1> SUFFICES ASSUME IInv, [Next]_vars PROVE FreshInv'
  OBVIOUS
<1> USE Numbers, Names DEF IInv, TypeOK
<1>1. ASSUME NEW r \in Requests, BeginConfirm(r) PROVE FreshInv'
  BY <1>1, FreshKept DEF BeginConfirm, rest, At, Goto, Begin, Idle, TaskStates,
     JobStates, WorkerStates
<1>2. ASSUME NEW r \in Requests, Deactivate(r) PROVE FreshInv'
  BY <1>2, FreshKept DEF Deactivate, rest, At, Goto, Ended, TaskStates, JobStates,
     WorkerStates
<1>3. ASSUME NEW r \in Requests, UpsertProfile(r) PROVE FreshInv'
  BY <1>3, FreshKept DEF UpsertProfile, rest, At, Goto, TaskStates, JobStates,
     WorkerStates
<1>4. ASSUME NEW r \in Requests, CheckOldest(r) PROVE FreshInv'
  BY <1>4, FreshKept DEF CheckOldest, rest, At, Goto, Fetch, TaskStates, JobStates,
     WorkerStates
<1>5. ASSUME NEW r \in Requests, BeginDisconnect(r) PROVE FreshInv'
  BY <1>5, FreshKept DEF BeginDisconnect, rest, At, Goto, Begin, Idle, TaskStates,
     JobStates, WorkerStates
<1>6. ASSUME NEW r \in Requests, RemoveJobs(r) PROVE FreshInv'
  BY <1>6, FreshKept DEF RemoveJobs, rest, At, Goto, NoJob, TaskStates, JobStates,
     WorkerStates
<1>7. ASSUME NEW r \in Requests, SetInactive(r) PROVE FreshInv'
  BY <1>7, FreshKept DEF SetInactive, rest, At, Goto, Ended, TaskStates, JobStates,
     WorkerStates
<1>8. ASSUME NEW r \in Requests, DeleteSnapshots(r) PROVE FreshInv'
  BY <1>8, FreshKept DEF DeleteSnapshots, rest, At, Goto, TaskStates, JobStates,
     WorkerStates
<1>9. ASSUME NEW r \in Requests, DeleteRows(r) PROVE FreshInv'
  <2>1. \A t \in Tasks : task[t].pc = "ended" => task'[t].pc = "ended"
    BY <1>9, RowsAreDeleted DEF Tables
  <2> QED
    BY <1>9, <2>1, RowsAreDeleted, FreshKept DEF rest
<1>10. ASSUME NEW r \in Requests, DeleteProfile(r) PROVE FreshInv'
  BY <1>10, FreshKept DEF DeleteProfile, rest, At, Goto, Ended, Mark, NoProfile,
     TaskStates, JobStates, WorkerStates
<1>11. ASSUME NEW r \in Requests, BeginManual(r) PROVE FreshInv'
  <2>1. task[r].pc = "idle" /\ UNCHANGED <<rest, job>>
    BY <1>11, ManualBegins
  <2>2. \A t \in Tasks \ {r} : task'[t] = task[t]
    BY <1>11, ManualBegins
  <2> QED
    BY <2>1, <2>2, FreshKept DEF rest
<1>12. ASSUME NEW r \in Requests, BeginAggregate(r) PROVE FreshInv'
  BY <1>12, FreshKept DEF BeginAggregate, rest, At, Goto, Begin, Idle, TaskStates,
     JobStates, WorkerStates
<1>13. ASSUME NEW r \in Requests, CountSnapshots(r) PROVE FreshInv'
  BY <1>13, FreshKept DEF CountSnapshots, rest, At, Goto, Fetch, Ended, TaskStates,
     JobStates, WorkerStates
<1>14. ASSUME BeginDaily PROVE FreshInv'
  BY <1>14, FreshKept DEF BeginDaily, rest, At, Goto, Ended, TaskStates, JobStates,
     WorkerStates
<1>15. ASSUME CountWaiting PROVE FreshInv'
  BY <1>15, FreshKept DEF CountWaiting, rest, At, Goto, TaskStates, JobStates,
     WorkerStates
<1>16. ASSUME FindProfile PROVE FreshInv'
  BY <1>16, FreshKept DEF FindProfile, rest, At, Goto, TaskStates, JobStates,
     WorkerStates
<1>17. ASSUME NEW t \in Tasks, ReadNewest(t) PROVE FreshInv'
  BY <1>17, FreshKept DEF ReadNewest, rest, At, Goto, Fetch, TaskStates, JobStates,
     WorkerStates
<1>18. ASSUME NEW t \in Tasks, MarkProfile(t) PROVE FreshInv'
  BY <1>18, FreshKept DEF MarkProfile, rest, At, Goto, UpdateState, TaskStates,
     JobStates, WorkerStates
<1>19. ASSUME NEW t \in Tasks, AddJob(t) PROVE FreshInv'
  <2>1. /\ \A u \in Tasks : JobOf(u)' = JobOf(u)
        /\ today' = today /\ task'[t].pc = "ended"
        /\ \A u \in Tasks \ {t} : task'[u] = task[u]
    BY <1>19 DEF AddJob, Ended, Goto, rest, JobOf
  <2>2. \A j \in Jobs \ {JobOf(t)} : job'[j] = job[j]
    BY <1>19 DEF AddJob
  <2>3. \A u \in Tasks \ {t} : JobOf(u) \in Jobs \ {JobOf(t)}
    BY OwnJobs
  <2>4. \A d \in Days : d > today => d \in Jobs \ {JobOf(t)}
    BY OwnJobs DEF Jobs
  <2> QED
    BY <2>1, <2>2, <2>3, <2>4 DEF FreshInv
<1>20. ASSUME NEW t \in Tasks, FailTask(t) PROVE FreshInv'
  BY <1>20, FreshKept DEF FailTask, Goto, Ended, Fault, Mark, TaskStates, JobStates,
     WorkerStates
<1>21. ASSUME StartSync PROVE FreshInv'
  BY <1>21, FreshKept DEF StartSync, frame, Step, EndJob, NoJob, IdleWorker,
     TaskStates, JobStates, WorkerStates
<1>22. ASSUME MarkSyncing PROVE FreshInv'
  BY <1>22, FreshKept DEF MarkSyncing, frame, Step, UpdateState, TaskStates, JobStates,
     WorkerStates
<1>23. ASSUME WriteChunk PROVE FreshInv'
  BY <1>23, FreshKept DEF WriteChunk, frame, Step, Overlap, Mark, TaskStates,
     JobStates, WorkerStates
<1>24. ASSUME Rows PROVE FreshInv'
  BY <1>24, RowsAreWritten, FreshKept DEF frame
<1>25. ASSUME FinishSync PROVE FreshInv'
  BY <1>25, FreshKept DEF FinishSync, frame, Step, EndJob, NoJob, IdleWorker,
     UpdateState, TaskStates, JobStates, WorkerStates
<1>26. ASSUME RecordFailure PROVE FreshInv'
  <2>1. /\ UNCHANGED <<task, today>>
        /\ job' = [job EXCEPT ![worker.id] = NoJob]
    BY <1>26 DEF RecordFailure, frame, EndJob
  <2>2. \A j \in Jobs : job[j].state = "none" => job'[j].state = "none"
    BY <2>1 DEF NoJob
  <2> QED
    BY <2>1, <2>2, FreshKept
<1>27. ASSUME SyncFails PROVE FreshInv'
  <2>1. UNCHANGED <<task, today, job>>
    BY <1>27 DEF SyncFails, frame
  <2> QED
    BY <2>1, FreshKept
<1>28. ASSUME RecordingFails PROVE FreshInv'
  <2>1. UNCHANGED <<task, today>> /\ worker.pc = "failed"
    BY <1>28 DEF RecordingFails, frame
  <2>2. /\ job[worker.id].state = "active"
        /\ \A j \in Jobs : j # worker.id => job'[j] = job[j]
    BY <1>28, <2>1 DEF RecordingFails, GiveUp, WorkerInv
  <2> QED
    BY <2>1, <2>2, FreshKept
<1>29. ASSUME NEW j \in Jobs, TakeJob(j) PROVE FreshInv'
  BY <1>29, FreshKept DEF TakeJob, frame, IdleWorker, TaskStates, JobStates,
     WorkerStates
<1>30. ASSUME NEW j \in Jobs, PromoteJob(j) PROVE FreshInv'
  BY <1>30, FreshKept DEF PromoteJob, frame, TaskStates, JobStates, WorkerStates
<1>31. ASSUME NEW j \in Jobs, RestartStalledJob(j) PROVE FreshInv'
  BY <1>31, FreshKept DEF RestartStalledJob, frame, GiveUp, NoJob, Mark, TaskStates,
     JobStates, WorkerStates
<1>32. ASSUME Crash PROVE FreshInv'
  BY <1>32, FreshKept DEF Crash, Fault, Idle, IdleWorker, TaskStates, JobStates,
     WorkerStates
<1>33. ASSUME NextDay PROVE FreshInv'
  <2>1. today' = today + 1 /\ job' = job /\ today + 1 \in Days /\ today \in Nat
    BY <1>33, OwnJobs DEF NextDay, Days
  <2>2. job[today + 1].state = "none"
    BY <2>1 DEF FreshInv
  <2>3. \A r \in Requests : task'[r] = task[r] /\ JobOf(r)' = JobOf(r)
    BY <1>33 DEF NextDay, JobOf
  <2>4. JobOf(Cron)' = today + 1
    BY <2>1 DEF JobOf
  <2>5. \A d \in Days : d > today + 1 => d > today
    BY <2>1
  <2> QED
    BY <2>1, <2>2, <2>3, <2>4, <2>5 DEF FreshInv
<1>34. CASE UNCHANGED vars
  BY <1>34 DEF vars, FreshInv, JobOf
<1> QED
  BY <1>1, <1>2, <1>3, <1>4, <1>5, <1>6, <1>7, <1>8, <1>9, <1>10, <1>11, <1>12,
     <1>13, <1>14, <1>15, <1>16, <1>17, <1>18, <1>19, <1>20, <1>21, <1>22, <1>23,
     <1>24, <1>25, <1>26, <1>27, <1>28, <1>29, <1>30, <1>31, <1>32, <1>33, <1>34
  DEF Next, ServeRequest, ServeCron, Serve, Sync, Rows

LEMMA OwnerStep == IInv /\ [Next]_vars => OwnerInv'
<1> SUFFICES ASSUME IInv, [Next]_vars PROVE OwnerInv'
  OBVIOUS
<1> USE Numbers, Names DEF IInv, TypeOK, OwnerInv, Settling, Deleting, Tables
<1>1. ASSUME NEW r \in Requests, BeginConfirm(r) PROVE OwnerInv'
  BY <1>1 DEF BeginConfirm, rest, At, Goto, Begin, Idle, TaskStates, JobStates,
     ProfileStates
<1>2. ASSUME NEW r \in Requests, Deactivate(r) PROVE OwnerInv'
  BY <1>2 DEF Deactivate, rest, At, Goto, Ended, TaskStates, JobStates,
     ProfileStates
<1>3. ASSUME NEW r \in Requests, UpsertProfile(r) PROVE OwnerInv'
  BY <1>3 DEF UpsertProfile, rest, At, Goto, TaskStates, JobStates, ProfileStates
<1>4. ASSUME NEW r \in Requests, CheckOldest(r) PROVE OwnerInv'
  BY <1>4 DEF CheckOldest, rest, At, Goto, Fetch, TaskStates, JobStates,
     ProfileStates
<1>5. ASSUME NEW r \in Requests, BeginDisconnect(r) PROVE OwnerInv'
  BY <1>5 DEF BeginDisconnect, rest, At, Goto, Begin, Idle, TaskStates, JobStates,
     ProfileStates
<1>6. ASSUME NEW r \in Requests, RemoveJobs(r) PROVE OwnerInv'
  BY <1>6 DEF RemoveJobs, rest, At, Goto, NoJob, TaskStates, JobStates,
     ProfileStates
<1>7. ASSUME NEW r \in Requests, SetInactive(r) PROVE OwnerInv'
  BY <1>7 DEF SetInactive, rest, At, Goto, Ended, TaskStates, JobStates,
     ProfileStates
<1>8. ASSUME NEW r \in Requests, DeleteSnapshots(r) PROVE OwnerInv'
  BY <1>8 DEF DeleteSnapshots, rest, At, Goto, TaskStates, JobStates, ProfileStates
<1>9. ASSUME NEW r \in Requests, DeleteRows(r) PROVE OwnerInv'
  BY <1>9, RowsAreDeleted DEF rest
<1>10. ASSUME NEW r \in Requests, DeleteProfile(r) PROVE OwnerInv'
  BY <1>10 DEF DeleteProfile, rest, At, Goto, Ended, Mark, NoProfile, TaskStates,
     JobStates, ProfileStates
<1>11. ASSUME NEW r \in Requests, BeginManual(r) PROVE OwnerInv'
  <2>1. PICK start \in {"latest", "mark"}, n \in Nat :
          task' = [task EXCEPT ![r] = [pc |-> start, op |-> "manual", fetch |-> n]]
    BY <1>11, ManualBegins
  <2>2. task[r].pc = "idle" /\ UNCHANGED <<rest, profile, days, other, job>>
    BY <1>11, ManualBegins
  <2> QED
    BY <2>1, <2>2 DEF
     rest, TaskStates
<1>12. ASSUME NEW r \in Requests, BeginAggregate(r) PROVE OwnerInv'
  BY <1>12 DEF BeginAggregate, rest, At, Goto, Begin, Idle, TaskStates, JobStates,
     ProfileStates
<1>13. ASSUME NEW r \in Requests, CountSnapshots(r) PROVE OwnerInv'
  BY <1>13 DEF CountSnapshots, rest, At, Goto, Fetch, Ended, TaskStates, JobStates,
     ProfileStates
<1>14. ASSUME BeginDaily PROVE OwnerInv'
  BY <1>14 DEF BeginDaily, rest, At, Goto, Ended, TaskStates, JobStates,
     ProfileStates
<1>15. ASSUME CountWaiting PROVE OwnerInv'
  BY <1>15 DEF CountWaiting, rest, At, Goto, TaskStates, JobStates, ProfileStates
<1>16. ASSUME FindProfile PROVE OwnerInv'
  BY <1>16 DEF FindProfile, rest, At, Goto, TaskStates, JobStates, ProfileStates
<1>17. ASSUME NEW t \in Tasks, ReadNewest(t) PROVE OwnerInv'
  BY <1>17 DEF ReadNewest, rest, At, Goto, Fetch, TaskStates, JobStates,
     ProfileStates
<1>18. ASSUME NEW t \in Tasks, MarkProfile(t) PROVE OwnerInv'
  BY <1>18 DEF MarkProfile, rest, At, Goto, UpdateState, TaskStates, JobStates,
     ProfileStates
<1>19. ASSUME NEW t \in Tasks, AddJob(t) PROVE OwnerInv'
  BY <1>19, OwnJobs DEF AddJob, rest, At, Goto, Ended, JobOf, NoJob, TaskStates,
     JobStates, ProfileStates
<1>20. ASSUME NEW t \in Tasks, FailTask(t) PROVE OwnerInv'
  BY <1>20 DEF FailTask, Goto, Ended, Fault, Mark, TaskStates, JobStates,
     ProfileStates
<1>21. ASSUME StartSync PROVE OwnerInv'
  BY <1>21 DEF StartSync, frame, Step, EndJob, NoJob, IdleWorker, TaskStates,
     JobStates, ProfileStates
<1>22. ASSUME MarkSyncing PROVE OwnerInv'
  BY <1>22 DEF MarkSyncing, frame, Step, UpdateState, TaskStates, JobStates,
     ProfileStates, WorkerInv, WorkerStates
<1>23. ASSUME WriteChunk PROVE OwnerInv'
  BY <1>23 DEF WriteChunk, frame, Step, Overlap, Mark, TaskStates, JobStates,
     ProfileStates
<1>24. ASSUME Rows PROVE OwnerInv'
  BY <1>24, RowsAreWritten DEF frame
<1>25. ASSUME FinishSync PROVE OwnerInv'
  BY <1>25 DEF FinishSync, frame, Step, EndJob, NoJob, IdleWorker, UpdateState,
     TaskStates, JobStates, ProfileStates
<1>26. ASSUME RecordFailure PROVE OwnerInv'
  BY <1>26 DEF RecordFailure, frame, Step, EndJob, NoJob, IdleWorker, UpdateState,
     TaskStates, JobStates, ProfileStates
<1>27. ASSUME SyncFails PROVE OwnerInv'
  BY <1>27 DEF SyncFails, frame, Step, Fault, Mark, TaskStates, JobStates,
     ProfileStates
<1>28. ASSUME RecordingFails PROVE OwnerInv'
  BY <1>28 DEF RecordingFails, frame, TriesLeft, GiveUp, NoJob, IdleWorker, Mark,
     TaskStates, JobStates, ProfileStates, WorkerInv, WorkerStates
<1>29. ASSUME NEW j \in Jobs, TakeJob(j) PROVE OwnerInv'
  BY <1>29 DEF TakeJob, frame, IdleWorker, TaskStates, JobStates, ProfileStates
<1>30. ASSUME NEW j \in Jobs, PromoteJob(j) PROVE OwnerInv'
  BY <1>30 DEF PromoteJob, frame, TaskStates, JobStates, ProfileStates
<1>31. ASSUME NEW j \in Jobs, RestartStalledJob(j) PROVE OwnerInv'
  BY <1>31 DEF RestartStalledJob, frame, GiveUp, NoJob, Mark, TaskStates, JobStates,
     ProfileStates
<1>32. ASSUME Crash PROVE OwnerInv'
  BY <1>32 DEF Crash, Fault, Idle, IdleWorker, TaskStates, JobStates, ProfileStates
<1>33. ASSUME NextDay PROVE OwnerInv'
  BY <1>33 DEF NextDay, Idle, TaskStates, JobStates, ProfileStates
<1>34. CASE UNCHANGED vars
  BY <1>34 DEF vars, TaskStates, JobStates, ProfileStates
<1> QED
  BY <1>1, <1>2, <1>3, <1>4, <1>5, <1>6, <1>7, <1>8, <1>9, <1>10, <1>11, <1>12,
     <1>13, <1>14, <1>15, <1>16, <1>17, <1>18, <1>19, <1>20, <1>21, <1>22, <1>23,
     <1>24, <1>25, <1>26, <1>27, <1>28, <1>29, <1>30, <1>31, <1>32, <1>33, <1>34
  DEF Next, ServeRequest, ServeCron, Serve, Sync, Rows

LEMMA WriterStep == IInv /\ [Next]_vars => WriterInv'
<1> SUFFICES ASSUME IInv, [Next]_vars PROVE WriterInv'
  OBVIOUS
<1> USE Numbers, Names DEF IInv, TypeOK, WriterInv, Writing, Tables
<1>1. ASSUME NEW r \in Requests, Deactivate(r) PROVE WriterInv'
  BY <1>1 DEF Deactivate, rest, At, Goto, Ended, ProfileStates, WorkerStates
<1>2. ASSUME NEW r \in Requests, UpsertProfile(r) PROVE WriterInv'
  BY <1>2 DEF UpsertProfile, rest, At, Goto, ProfileStates, WorkerStates
<1>3. ASSUME NEW r \in Requests, SetInactive(r) PROVE WriterInv'
  BY <1>3 DEF SetInactive, rest, At, Goto, Ended, ProfileStates, WorkerStates
<1>4. ASSUME NEW r \in Requests, DeleteProfile(r) PROVE WriterInv'
  BY <1>4 DEF DeleteProfile, rest, At, Goto, Ended, Mark, NoProfile, ProfileStates,
     WorkerStates
<1>5. ASSUME NEW t \in Tasks, MarkProfile(t) PROVE WriterInv'
  BY <1>5 DEF MarkProfile, rest, At, Goto, UpdateState, ProfileStates, WorkerStates
<1>6. ASSUME StartSync PROVE WriterInv'
  BY <1>6 DEF StartSync, frame, Step, EndJob, NoJob, IdleWorker, ProfileStates,
     WorkerStates
<1>7. ASSUME MarkSyncing PROVE WriterInv'
  BY <1>7 DEF MarkSyncing, frame, Step, UpdateState, ProfileStates, WorkerStates
<1>8. ASSUME WriteChunk PROVE WriterInv'
  BY <1>8 DEF WriteChunk, frame, Step, Overlap, Mark, ProfileStates, WorkerStates
<1>9. ASSUME Rows PROVE WriterInv'
  BY <1>9, RowsAreWritten
<1>10. ASSUME FinishSync PROVE WriterInv'
  BY <1>10 DEF FinishSync, frame, Step, EndJob, NoJob, IdleWorker, UpdateState,
     ProfileStates, WorkerStates
<1>11. ASSUME RecordFailure PROVE WriterInv'
  BY <1>11 DEF RecordFailure, frame, Step, EndJob, NoJob, IdleWorker, UpdateState,
     ProfileStates, WorkerStates
<1>12. ASSUME SyncFails PROVE WriterInv'
  BY <1>12 DEF SyncFails, frame, Step, Fault, Mark, ProfileStates, WorkerStates
<1>13. ASSUME RecordingFails PROVE WriterInv'
  BY <1>13 DEF RecordingFails, frame, TriesLeft, GiveUp, NoJob, IdleWorker, Mark,
     ProfileStates, WorkerStates
<1>14. ASSUME NEW j \in Jobs, TakeJob(j) PROVE WriterInv'
  BY <1>14 DEF TakeJob, frame, IdleWorker, ProfileStates, WorkerStates
<1>15. ASSUME NEW t \in Tasks, FailTask(t) PROVE WriterInv'
  BY <1>15 DEF FailTask, Goto, Ended, Fault, Mark, ProfileStates, WorkerStates
<1>16. ASSUME NEW j \in Jobs, RestartStalledJob(j) PROVE WriterInv'
  BY <1>16 DEF RestartStalledJob, frame, GiveUp, NoJob, Mark, ProfileStates,
     WorkerStates
<1>17. ASSUME Crash PROVE WriterInv'
  BY <1>17 DEF Crash, Fault, Idle, IdleWorker, ProfileStates, WorkerStates
<1>18. CASE UNCHANGED vars
  BY <1>18 DEF vars, ProfileStates, WorkerStates
<1>19. ASSUME \/ (\E r \in Requests : BeginConfirm(r))
              \/ (\E r \in Requests : CheckOldest(r))
              \/ (\E r \in Requests : BeginDisconnect(r))
              \/ (\E r \in Requests : RemoveJobs(r))
              \/ (\E r \in Requests : DeleteSnapshots(r))
              \/ (\E r \in Requests : DeleteRows(r))
              \/ (\E r \in Requests : BeginManual(r))
              \/ (\E r \in Requests : BeginAggregate(r))
              \/ (\E r \in Requests : CountSnapshots(r))
       PROVE  WriterInv'
  BY <1>19 DEF BeginConfirm, rest, At, Goto, Begin, Idle, CheckOldest, Fetch,
     BeginDisconnect, RemoveJobs, NoJob, DeleteSnapshots, DeleteRows, BeginManual,
     BeginAggregate, CountSnapshots, Ended, ProfileStates, WorkerStates
<1>20. ASSUME \/ BeginDaily \/ CountWaiting \/ FindProfile
              \/ (\E t \in Tasks : ReadNewest(t))
              \/ (\E t \in Tasks : AddJob(t))
              \/ (\E j \in Jobs : PromoteJob(j)) \/ NextDay
       PROVE  WriterInv'
  BY <1>20 DEF BeginDaily, rest, At, Goto, Ended, CountWaiting, FindProfile,
     ReadNewest, Fetch, AddJob, JobOf, NoJob, PromoteJob, frame, NextDay, Idle,
     ProfileStates, WorkerStates
<1> QED
  BY <1>1, <1>2, <1>3, <1>4, <1>5, <1>6, <1>7, <1>8, <1>9, <1>10, <1>11, <1>12,
     <1>13, <1>14, <1>15, <1>16, <1>17, <1>18, <1>19, <1>20
  DEF Next, ServeRequest, ServeCron, Serve, Sync, Rows

LEMMA DeletionStep == IInv /\ [Next]_vars => DeletionInv'
<1> SUFFICES ASSUME IInv, [Next]_vars PROVE DeletionInv'
  OBVIOUS
<1> USE Numbers, Names DEF IInv, TypeOK, DeletionInv, AfterDeletion, Tables
<1>1. ASSUME NEW r \in Requests, BeginConfirm(r) PROVE DeletionInv'
  BY <1>1 DEF BeginConfirm, rest, At, Goto, Begin, Idle, TaskStates
<1>2. ASSUME NEW r \in Requests, Deactivate(r) PROVE DeletionInv'
  BY <1>2 DEF Deactivate, rest, At, Goto, Ended, TaskStates
<1>3. ASSUME NEW r \in Requests, UpsertProfile(r) PROVE DeletionInv'
  BY <1>3 DEF UpsertProfile, rest, At, Goto, TaskStates
<1>4. ASSUME NEW r \in Requests, CheckOldest(r) PROVE DeletionInv'
  BY <1>4 DEF CheckOldest, rest, At, Goto, Fetch, TaskStates
<1>5. ASSUME NEW r \in Requests, BeginDisconnect(r) PROVE DeletionInv'
  BY <1>5 DEF BeginDisconnect, rest, At, Goto, Begin, Idle, TaskStates, NoOrphans
<1>6. ASSUME NEW r \in Requests, RemoveJobs(r) PROVE DeletionInv'
  BY <1>6 DEF RemoveJobs, rest, At, Goto, NoJob, TaskStates
<1>7. ASSUME NEW r \in Requests, SetInactive(r) PROVE DeletionInv'
  BY <1>7 DEF SetInactive, rest, At, Goto, Ended, TaskStates
<1>8. ASSUME NEW r \in Requests, DeleteSnapshots(r) PROVE DeletionInv'
  BY <1>8 DEF DeleteSnapshots, rest, At, Goto, TaskStates
<1>9. ASSUME NEW r \in Requests, DeleteRows(r) PROVE DeletionInv'
  <2>1. UNCHANGED <<days, marks>> /\ other' = other \ {task[r].pc}
        /\ \A u \in Requests : u # r => task'[u] = task[u]
    BY <1>9, RowsAreDeleted DEF rest
  <2>2. task[r].pc \in Tables /\ task'[r].pc = NextDeletion[task[r].pc]
    BY <1>9, RowsAreDeleted
  <2>3. task'[r].pc \in AfterDeletion["snapshots"] => task[r].pc \in AfterDeletion["snapshots"]
    BY <2>2 DEF NextDeletion
  <2>4. \A table \in Tables : task'[r].pc \in AfterDeletion[table] =>
            table = task[r].pc \/ task[r].pc \in AfterDeletion[table]
    BY <2>2 DEF NextDeletion
  <2> QED
    BY <2>1, <2>3, <2>4
<1>10. ASSUME NEW r \in Requests, DeleteProfile(r) PROVE DeletionInv'
  BY <1>10 DEF DeleteProfile, rest, At, Goto, Ended, Mark, NoProfile, TaskStates
<1>11. ASSUME NEW r \in Requests, BeginManual(r) PROVE DeletionInv'
  <2>1. PICK start \in {"latest", "mark"}, n \in Nat :
          task' = [task EXCEPT ![r] = [pc |-> start, op |-> "manual", fetch |-> n]]
    BY <1>11, ManualBegins
  <2>2. task[r].pc = "idle" /\ UNCHANGED <<rest, profile, days, other, job>>
    BY <1>11, ManualBegins
  <2> QED
    BY <2>1, <2>2 DEF
     rest, TaskStates
<1>12. ASSUME NEW r \in Requests, BeginAggregate(r) PROVE DeletionInv'
  BY <1>12 DEF BeginAggregate, rest, At, Goto, Begin, Idle, TaskStates
<1>13. ASSUME NEW r \in Requests, CountSnapshots(r) PROVE DeletionInv'
  BY <1>13 DEF CountSnapshots, rest, At, Goto, Fetch, Ended, TaskStates
<1>14. ASSUME BeginDaily PROVE DeletionInv'
  BY <1>14 DEF BeginDaily, rest, At, Goto, Ended, TaskStates
<1>15. ASSUME FindProfile PROVE DeletionInv'
  BY <1>15 DEF FindProfile, rest, At, Goto, TaskStates
<1>16. ASSUME NEW t \in Tasks, ReadNewest(t) PROVE DeletionInv'
  BY <1>16 DEF ReadNewest, rest, At, Goto, Fetch, TaskStates
<1>17. ASSUME NEW t \in Tasks, MarkProfile(t) PROVE DeletionInv'
  BY <1>17 DEF MarkProfile, rest, At, Goto, UpdateState, TaskStates
<1>18. ASSUME NEW t \in Tasks, AddJob(t) PROVE DeletionInv'
  BY <1>18 DEF AddJob, rest, At, Goto, Ended, JobOf, NoJob, TaskStates
<1>19. ASSUME NEW t \in Tasks, FailTask(t) PROVE DeletionInv'
  BY <1>19 DEF FailTask, Goto, Ended, Fault, Mark, TaskStates
<1>20. ASSUME WriteChunk PROVE DeletionInv'
  BY <1>20 DEF WriteChunk, frame, Step, Overlap, Mark, TaskStates
<1>21. ASSUME Rows PROVE DeletionInv'
  <2>1. UNCHANGED <<days, task>> /\ marks' \in {marks, marks \cup {"overlap"}}
        /\ worker.pc \in Tables
    BY <1>21, RowsAreWritten DEF frame
  <2>2. CASE other' = other
    BY <2>1, <2>2
  <2>3. CASE WriteRows /\ other' = other \cup {worker.pc}
    <3>1. \/ "overlap" \in marks'
          \/ \A r \in Requests : task[r].pc \notin AfterDeletion[worker.pc]
      BY <2>3 DEF WriteRows, Overlap, Mark
    <3> QED
      BY <2>1, <2>3, <3>1
  <2> QED
    BY <1>21, <2>2, <2>3, RowsAreWritten
<1>22. ASSUME SyncFails PROVE DeletionInv'
  BY <1>22 DEF SyncFails, frame, Step, Fault, Mark, TaskStates
<1>23. ASSUME RecordingFails PROVE DeletionInv'
  BY <1>23 DEF RecordingFails, frame, TriesLeft, GiveUp, NoJob, IdleWorker, Mark,
     TaskStates
<1>24. ASSUME NEW j \in Jobs, RestartStalledJob(j) PROVE DeletionInv'
  BY <1>24 DEF RestartStalledJob, frame, GiveUp, NoJob, Mark, TaskStates
<1>25. ASSUME Crash PROVE DeletionInv'
  BY <1>25 DEF Crash, Fault, Idle, IdleWorker, TaskStates
<1>26. ASSUME NextDay PROVE DeletionInv'
  BY <1>26 DEF NextDay, Idle, TaskStates
<1>27. CASE UNCHANGED vars
  BY <1>27 DEF vars, TaskStates
<1>28. ASSUME \/ CountWaiting \/ StartSync \/ MarkSyncing \/ FinishSync
              \/ RecordFailure \/ (\E j \in Jobs : TakeJob(j))
              \/ (\E j \in Jobs : PromoteJob(j))
       PROVE  DeletionInv'
  BY <1>28 DEF CountWaiting, rest, At, Goto, StartSync, frame, Step, EndJob, NoJob,
     IdleWorker, MarkSyncing, UpdateState, FinishSync, RecordFailure, TakeJob,
     PromoteJob, TaskStates
<1> QED
  BY <1>1, <1>2, <1>3, <1>4, <1>5, <1>6, <1>7, <1>8, <1>9, <1>10, <1>11, <1>12,
     <1>13, <1>14, <1>15, <1>16, <1>17, <1>18, <1>19, <1>20, <1>21, <1>22, <1>23,
     <1>24, <1>25, <1>26, <1>27, <1>28
  DEF Next, ServeRequest, ServeCron, Serve, Sync, Rows

LEMMA OrphansStep == IInv /\ [Next]_vars => NoOrphans'
<1> SUFFICES ASSUME IInv, [Next]_vars PROVE NoOrphans'
  OBVIOUS
<1> USE Numbers, Names DEF IInv, TypeOK, NoOrphans
<1>1. ASSUME NEW r \in Requests, Deactivate(r) PROVE NoOrphans'
  BY <1>1 DEF Deactivate, rest, At, Goto, Ended, ProfileStates
<1>2. ASSUME NEW r \in Requests, UpsertProfile(r) PROVE NoOrphans'
  BY <1>2 DEF UpsertProfile, rest, At, Goto, ProfileStates
<1>3. ASSUME NEW r \in Requests, SetInactive(r) PROVE NoOrphans'
  BY <1>3 DEF SetInactive, rest, At, Goto, Ended, ProfileStates
<1>4. ASSUME NEW r \in Requests, DeleteSnapshots(r) PROVE NoOrphans'
  BY <1>4 DEF DeleteSnapshots, rest, At, Goto, ProfileStates
<1>5. ASSUME NEW r \in Requests, DeleteRows(r) PROVE NoOrphans'
  BY <1>5, RowsAreDeleted DEF rest
<1>6. ASSUME NEW r \in Requests, DeleteProfile(r) PROVE NoOrphans'
  BY <1>6 DEF DeleteProfile, rest, At, Goto, Ended, Mark, NoProfile, ProfileStates,
     DeletionInv, AfterDeletion, Tables
<1>7. ASSUME NEW t \in Tasks, MarkProfile(t) PROVE NoOrphans'
  BY <1>7 DEF MarkProfile, rest, At, Goto, UpdateState, ProfileStates
<1>8. ASSUME MarkSyncing PROVE NoOrphans'
  BY <1>8 DEF MarkSyncing, frame, Step, UpdateState, ProfileStates
<1>9. ASSUME WriteChunk PROVE NoOrphans'
  BY <1>9 DEF WriteChunk, frame, Step, Overlap, Mark, ProfileStates, WriterInv, Writing
<1>10. ASSUME Rows PROVE NoOrphans'
  BY <1>10, RowsAreWritten DEF WriterInv, Writing
<1>11. ASSUME FinishSync PROVE NoOrphans'
  BY <1>11 DEF FinishSync, frame, Step, EndJob, NoJob, IdleWorker, UpdateState,
     ProfileStates
<1>12. ASSUME RecordFailure PROVE NoOrphans'
  BY <1>12 DEF RecordFailure, frame, Step, EndJob, NoJob, IdleWorker, UpdateState,
     ProfileStates
<1>13. CASE UNCHANGED vars
  BY <1>13 DEF vars, ProfileStates
<1>14. ASSUME \/ (\E r \in Requests : BeginConfirm(r))
              \/ (\E r \in Requests : CheckOldest(r))
              \/ (\E r \in Requests : BeginDisconnect(r))
              \/ (\E r \in Requests : RemoveJobs(r))
              \/ (\E r \in Requests : BeginManual(r))
              \/ (\E r \in Requests : BeginAggregate(r))
              \/ (\E r \in Requests : CountSnapshots(r)) \/ BeginDaily
              \/ CountWaiting
       PROVE  NoOrphans'
  BY <1>14 DEF BeginConfirm, rest, At, Goto, Begin, Idle, CheckOldest, Fetch,
     BeginDisconnect, RemoveJobs, NoJob, BeginManual, BeginAggregate,
     CountSnapshots, Ended, BeginDaily, CountWaiting, ProfileStates
<1>15. ASSUME \/ FindProfile \/ (\E t \in Tasks : ReadNewest(t))
              \/ (\E t \in Tasks : AddJob(t))
              \/ (\E t \in Tasks : FailTask(t)) \/ StartSync \/ SyncFails
              \/ RecordingFails \/ (\E j \in Jobs : TakeJob(j))
              \/ (\E j \in Jobs : PromoteJob(j))
       PROVE  NoOrphans'
  BY <1>15 DEF FindProfile, rest, At, Goto, ReadNewest, Fetch, AddJob, Ended, JobOf,
     NoJob, FailTask, Fault, Mark, StartSync, frame, Step, EndJob, IdleWorker,
     SyncFails, RecordingFails, TriesLeft, GiveUp, TakeJob, PromoteJob,
     ProfileStates
<1>16. ASSUME \/ (\E j \in Jobs : RestartStalledJob(j)) \/ Crash
              \/ NextDay
       PROVE  NoOrphans'
  BY <1>16 DEF RestartStalledJob, frame, GiveUp, NoJob, Mark, Crash, Fault, Idle,
     IdleWorker, NextDay, ProfileStates
<1> QED
  BY <1>1, <1>2, <1>3, <1>4, <1>5, <1>6, <1>7, <1>8, <1>9, <1>10, <1>11, <1>12,
     <1>13, <1>14, <1>15, <1>16
  DEF Next, ServeRequest, ServeCron, Serve, Sync, Rows

LEMMA StepIInv == IInv /\ [Next]_vars => IInv'
  BY TypeStep, WorkerStep, FreshStep, OwnerStep, WriterStep, DeletionStep,
     OrphansStep DEF IInv

-----------------------------------------------------------------------------
(* The theorems *)

\* The inductive invariant of the requests, the queue and the worker.
THEOREM MetaSyncInvariant == Spec => []IInv
<1>1. Init => IInv
  BY InitIInv
<1>2. IInv /\ [Next]_vars => IInv'
  BY StepIInv
<1> QED
  BY <1>1, <1>2, PTL DEF Spec

\* Every reachable state is well typed.
THEOREM MetaSyncTypeCorrect == Spec => []TypeOK
<1>1. IInv => TypeOK
  BY DEF IInv
<1> QED
  BY <1>1, MetaSyncInvariant, PTL

\* A connected profile that says SYNCING has a job or a request at work, unless
\* a request or a job died on the way.
THEOREM MetaSyncHasOwner == Spec => []SyncingHasOwner
<1>1. IInv => SyncingHasOwner
  BY DEF IInv, OwnerInv, SyncingHasOwner, Settling, Deleting, Tables, Queued, Serving
<1> QED
  BY <1>1, MetaSyncInvariant, PTL

\* No rows of any table stay behind a deleted profile but those of a sync that
\* wrote where the deletion had been.
THEOREM MetaSyncLeavesNoOrphans == Spec => []NoOrphans
<1>1. IInv => NoOrphans
  BY DEF IInv
<1> QED
  BY <1>1, MetaSyncInvariant, PTL

-----------------------------------------------------------------------------
(* The history of a connected profile *)

HasHistory == \E d \in days : d <= today - Depth

\* A failed sync is on record; a sync in progress ends on the day it began or
\* before today.
SyncInv ==
    /\ worker.pc = "failed" => "broke" \in marks
    /\ worker.pc \in {"chunk", "finish"} \cup Tables => worker.to \in FirstDay..today

\* A job that asks for the whole history has it when it ends: what its chunks
\* have passed is written, oldest day first.
Passed(first) == \A d \in Days : d >= first /\ d < worker.next => d \in days
WillHave(j) ==
    /\ job[j].state # "none" /\ job[j].fetch >= Depth
    /\ worker.pc = "chunk" /\ worker.id = j => Passed(worker.to - job[j].fetch)
    /\ worker.pc \in Tables \cup {"finish"} /\ worker.id = j => HasHistory

\* A request that will look, that adds a job for the whole history, or after
\* which the profile is no longer connected.
WillSettle(t) ==
    \/ task[t].pc \in {"check", "inactive"} \cup Deleting
    \/ task[t].pc \in {"mark", "add"} /\ task[t].fetch >= Depth

HistoryInv ==
    profile.is = "active" =>
        \/ marks \cap {"lost", "broke"} # {}
        \/ HasHistory
        \/ \E j \in Jobs : WillHave(j)
        \/ \E t \in Tasks : WillSettle(t)

\* Requests and the cron leave what the queue and the rows promise.
LEMMA HistoryOfTasks ==
    ASSUME IInv, HistoryInv,
           UNCHANGED <<days, job, worker, today, marks>>,
           profile'.is = "active" =>
              \/ \E t \in Tasks : WillSettle(t)'
              \/ profile.is = "active" /\ \A t \in Tasks : ~WillSettle(t)
    PROVE  HistoryInv'
<1>1. HasHistory' = HasHistory /\ \A j \in Jobs : WillHave(j)' = WillHave(j)
  BY DEF HasHistory, WillHave, Passed
<1> QED
  BY <1>1 DEF HistoryInv

\* The oldest of a set of days.
LEMMA LeastOfDays ==
    ASSUME NEW S, S \subseteq Nat, S # {}
    PROVE  Min(S) \in S
<1>1. \E x \in S : \A y \in S : x <= y
  BY LeastExists
<1> QED
  BY <1>1 DEF Min

\* No step ends a failed sync before its failure is on record.
LEMMA SyncStep == IInv /\ SyncInv /\ [Next]_vars => SyncInv'
<1> SUFFICES ASSUME IInv, SyncInv, [Next]_vars PROVE SyncInv'
  OBVIOUS
<1> USE Numbers DEF IInv, TypeOK, SyncInv, FirstDay, Days, Tables
<1>1. CASE UNCHANGED <<worker, today, marks>>
  BY <1>1
<1>2. ASSUME NEW t \in Tasks, FailTask(t) PROVE SyncInv'
  BY <1>2 DEF FailTask, Mark
<1>3. ASSUME NEW r \in Requests, DeleteProfile(r) PROVE SyncInv'
  BY <1>3 DEF DeleteProfile, Mark
<1>4. CASE StartSync \/ FinishSync \/ RecordFailure \/ RecordingFails \/ Crash
  BY <1>4 DEF StartSync, FinishSync, RecordFailure, RecordingFails, Crash, EndJob,
     Step, IdleWorker, frame, WorkerStates
<1>5. CASE MarkSyncing
  BY <1>5 DEF MarkSyncing, frame, WorkerStates
<1>6. CASE WriteChunk
  BY <1>6 DEF WriteChunk, Overlap, Mark, Step, frame, WorkerStates
<1>14. CASE Rows
  BY <1>14, RowsAreWritten DEF frame
<1>7. CASE SyncFails
  BY <1>7 DEF SyncFails, Mark, Step, frame, WorkerStates
<1>8. ASSUME NEW j \in Jobs, TakeJob(j) \/ PromoteJob(j) \/ RestartStalledJob(j)
      PROVE  SyncInv'
  BY <1>8 DEF TakeJob, PromoteJob, RestartStalledJob, GiveUp, Mark, IdleWorker, frame
<1>9. CASE NextDay
  BY <1>9 DEF NextDay
<1>10. ASSUME NEW r \in Requests,
              \/ BeginConfirm(r) \/ BeginDisconnect(r) \/ BeginManual(r)
              \/ BeginAggregate(r) \/ Deactivate(r) \/ UpsertProfile(r)
              \/ CheckOldest(r) \/ RemoveJobs(r) \/ SetInactive(r)
              \/ DeleteSnapshots(r) \/ DeleteRows(r) \/ CountSnapshots(r)
       PROVE  SyncInv'
  <2>1. UNCHANGED <<worker, today, marks>>
    BY <1>10 DEF BeginConfirm, BeginDisconnect, BeginManual, BeginAggregate,
       Deactivate, UpsertProfile, CheckOldest, RemoveJobs, SetInactive,
       DeleteSnapshots, DeleteRows, CountSnapshots, rest
  <2> QED
    BY <2>1, <1>1
<1>11. CASE ServeCron
  BY <1>1, <1>11 DEF ServeCron, BeginDaily, CountWaiting, FindProfile, rest
<1>12. ASSUME NEW t \in Tasks, Serve(t) PROVE SyncInv'
  BY <1>1, <1>12 DEF Serve, ReadNewest, MarkProfile, AddJob, rest
<1>13. CASE UNCHANGED vars
  BY <1>1, <1>13 DEF vars
<1> QED
  BY <1>2, <1>3, <1>4, <1>5, <1>6, <1>7, <1>8, <1>9, <1>10, <1>11, <1>12, <1>13, <1>14
  DEF Next, ServeRequest, Sync, Rows

\* Only a job that has the whole history ends without a mark, and only a request
\* that will settle it takes history or jobs away.
LEMMA HistoryStep ==
    IInv /\ SyncInv /\ HistoryInv /\ [Next]_vars => HistoryInv'
<1> SUFFICES ASSUME IInv, SyncInv, HistoryInv, [Next]_vars PROVE HistoryInv'
  OBVIOUS
<1> USE Numbers, Names DEF IInv, TypeOK, Deleting, Tables
<1>0. /\ task \in [Tasks -> TaskStates] /\ job \in [Jobs -> JobStates]
      /\ worker \in WorkerStates
  OBVIOUS
<1>1. ASSUME NEW r \in Requests, BeginConfirm(r) PROVE HistoryInv'
  BY <1>1, HistoryOfTasks
  DEF BeginConfirm, Begin, Idle, rest, At, Goto, WillSettle, TaskStates, ProfileStates
<1>2. ASSUME NEW r \in Requests, Deactivate(r) PROVE HistoryInv'
  BY <1>2, HistoryOfTasks
  DEF Deactivate, rest, At, Goto, WillSettle, TaskStates, ProfileStates
<1>3. ASSUME NEW r \in Requests, UpsertProfile(r) PROVE HistoryInv'
  BY <1>3, HistoryOfTasks
  DEF UpsertProfile, rest, At, Goto, WillSettle, TaskStates, ProfileStates
<1>4. ASSUME NEW r \in Requests, BeginDisconnect(r) PROVE HistoryInv'
  BY <1>4, HistoryOfTasks
  DEF BeginDisconnect, Begin, Idle, rest, At, Goto, WillSettle, TaskStates, ProfileStates
<1>5. ASSUME NEW r \in Requests, SetInactive(r) PROVE HistoryInv'
  BY <1>5, HistoryOfTasks
  DEF SetInactive, Ended, rest, At, Goto, WillSettle, TaskStates, ProfileStates
<1>6. ASSUME NEW r \in Requests, DeleteRows(r) PROVE HistoryInv'
  <2>1. WillSettle(r)'
    BY <1>6, RowsAreDeleted DEF WillSettle
  <2> QED
    BY <2>1 DEF HistoryInv
<1>7. ASSUME NEW r \in Requests, BeginAggregate(r) PROVE HistoryInv'
  BY <1>7, HistoryOfTasks
  DEF BeginAggregate, Begin, Idle, rest, At, Goto, WillSettle, TaskStates, ProfileStates
<1>8. ASSUME NEW r \in Requests, CountSnapshots(r) PROVE HistoryInv'
  BY <1>8, HistoryOfTasks
  DEF CountSnapshots, Ended, Fetch, rest, At, Goto, WillSettle, TaskStates, ProfileStates
<1>9. ASSUME BeginDaily PROVE HistoryInv'
  BY <1>9, HistoryOfTasks
  DEF BeginDaily, Ended, rest, At, Goto, WillSettle, TaskStates, ProfileStates
<1>10. ASSUME CountWaiting PROVE HistoryInv'
  BY <1>10, HistoryOfTasks
  DEF CountWaiting, rest, At, Goto, WillSettle, TaskStates, ProfileStates
<1>11. ASSUME FindProfile PROVE HistoryInv'
  BY <1>11, HistoryOfTasks
  DEF FindProfile, rest, At, Goto, WillSettle, TaskStates, ProfileStates
<1>12. ASSUME NEW t \in Tasks, ReadNewest(t) PROVE HistoryInv'
  BY <1>12, HistoryOfTasks
  DEF ReadNewest, Fetch, rest, At, Goto, WillSettle, TaskStates, ProfileStates
<1>13. ASSUME NEW t \in Tasks, MarkProfile(t) PROVE HistoryInv'
  BY <1>13, HistoryOfTasks
  DEF MarkProfile, UpdateState, rest, At, Goto, WillSettle, TaskStates, ProfileStates
<1>14. ASSUME NEW r \in Requests, CheckOldest(r) PROVE HistoryInv'
  <2>1. CASE NeedsSync
    <3>1. WillSettle(r)'
      BY <1>14, <2>1 DEF CheckOldest, Fetch, At, WillSettle
    <3> QED
      BY <3>1 DEF HistoryInv
  <2>2. CASE ~NeedsSync
    <3>1. Min(days) \in days /\ Min(days) <= today - Depth
      <4>1. days # {} /\ days \subseteq Nat /\ today \in Int
        BY <2>2 DEF NeedsSync, Days
      <4>2. Min(days) \in days
        BY <4>1, LeastOfDays
      <4>3. ~(Min(days) > today - Depth)
        BY <2>2 DEF NeedsSync
      <4>4. \A m \in Nat, n \in Int : ~(m > n) => m <= n
        OBVIOUS
      <4>5. today - Depth \in Int
        BY <4>1
      <4> QED
        BY <4>1, <4>2, <4>3, <4>4, <4>5
    <3>2. HasHistory'
      BY <1>14, <3>1 DEF CheckOldest, rest, HasHistory
    <3> QED
      BY <3>2 DEF HistoryInv
  <2> QED
    BY <2>1, <2>2
<1>15. ASSUME NEW r \in Requests, BeginManual(r) PROVE HistoryInv'
  <2>1. PICK start \in {"latest", "mark"}, n \in Nat :
          task' = [task EXCEPT ![r] = [pc |-> start, op |-> "manual", fetch |-> n]]
    BY <1>15, ManualBegins
  <2>2. task[r].pc = "idle" /\ UNCHANGED <<rest, profile, days, other, job>>
    BY <1>15, ManualBegins
  <2>3. \A t \in Tasks : WillSettle(t) => WillSettle(t)'
    BY <2>1, <2>2 DEF WillSettle
  <2> QED
    BY <2>2, <2>3, HistoryOfTasks DEF rest
<1>16. ASSUME NEW r \in Requests,
              RemoveJobs(r) \/ DeleteSnapshots(r) \/ DeleteProfile(r)
       PROVE  HistoryInv'
  <2>1. WillSettle(r)' \/ profile'.is # "active"
    <3>1. CASE RemoveJobs(r) \/ DeleteSnapshots(r)
      <4>1. task'[r].pc \in {"revenue", "inactive", "posts"}
        BY <1>0, <3>1 DEF RemoveJobs, DeleteSnapshots, Goto, TaskStates
      <4> QED
        BY <4>1 DEF WillSettle
    <3>2. CASE DeleteProfile(r)
      BY <3>2 DEF DeleteProfile, NoProfile
    <3> QED
      BY <1>16, <3>1, <3>2
  <2> QED
    BY <2>1 DEF HistoryInv
<1>17. ASSUME NEW t \in Tasks, AddJob(t) PROVE HistoryInv'
  <2>0. PICK i \in Jobs : i = JobOf(t)
    BY OwnJobs
  <2>1. /\ UNCHANGED <<profile, days, worker, today, marks>>
        /\ \A u \in Tasks : u # t => task'[u] = task[u]
        /\ \A j \in Jobs : j # i => job'[j] = job[j]
        /\ job[i].state = "none" /\ job'[i].state = "waiting"
        /\ job'[i].fetch = task[t].fetch /\ task[t].pc = "add"
    BY <1>17, <2>0 DEF AddJob, rest, At, Goto, Ended, NoJob, FreshInv
  <2>2. HasHistory' = HasHistory
    BY <2>1 DEF HasHistory
  <2>3. ASSUME NEW j \in Jobs, WillHave(j) PROVE WillHave(j)'
    <3>1. job'[j] = job[j]
      BY <2>1, <2>3 DEF WillHave
    <3> QED
      BY <2>1, <2>2, <2>3, <3>1 DEF WillHave, Passed
  <2>4. ASSUME WillSettle(t) PROVE WillHave(i)'
    <3>1. worker.pc \in {"chunk", "finish"} \cup Tables => worker.id # i
      BY <2>1 DEF WorkerInv
    <3> QED
      BY <2>1, <2>4, <3>1 DEF WillSettle, WillHave
  <2>5. \A u \in Tasks : u # t /\ WillSettle(u) => WillSettle(u)'
    BY <2>1 DEF WillSettle
  <2> QED
    BY <2>1, <2>2, <2>3, <2>4, <2>5 DEF HistoryInv
<1>18. ASSUME NEW t \in Tasks, FailTask(t) PROVE HistoryInv'
  BY <1>18 DEF FailTask, Mark, HistoryInv
<1>19. CASE SyncFails \/ RecordFailure \/ RecordingFails
  <2>1. "broke" \in marks'
    BY <1>19 DEF SyncFails, RecordFailure, RecordingFails, GiveUp, Mark, SyncInv
  <2> QED
    BY <2>1 DEF HistoryInv
<1>20. CASE StartSync
  <2>1. CASE profile.is = "active"
    <3>1. /\ UNCHANGED <<profile, days, job, task, today, marks>>
          /\ worker'.pc = "mark"
      BY <1>20, <2>1 DEF StartSync, Step, frame, WorkerStates
    <3>2. HasHistory' = HasHistory /\ \A t \in Tasks : WillSettle(t)' = WillSettle(t)
      BY <3>1 DEF HasHistory, WillSettle
    <3>3. \A j \in Jobs : WillHave(j) => WillHave(j)'
      BY <3>1 DEF WillHave
    <3> QED
      BY <2>1, <3>1, <3>2, <3>3 DEF HistoryInv
  <2>2. CASE profile.is # "active"
    BY <1>20, <2>2 DEF StartSync, HistoryInv
  <2> QED
    BY <2>1, <2>2
<1>21. CASE MarkSyncing
  <2>1. /\ UNCHANGED <<days, job, task, today, marks>>
        /\ profile'.is = profile.is
        /\ worker'.pc = "chunk" /\ worker'.id = worker.id
        /\ worker'.next = worker'.to - job[worker.id].fetch
    BY <1>21 DEF MarkSyncing, UpdateState, frame, WorkerStates, ProfileStates
  <2>2. HasHistory' = HasHistory /\ \A t \in Tasks : WillSettle(t)' = WillSettle(t)
    BY <2>1 DEF HasHistory, WillSettle
  <2>3. \A j \in Jobs : WillHave(j) => WillHave(j)'
    <3>1. worker'.to \in Nat /\ \A j \in Jobs : job[j].fetch \in Nat
      BY <1>0, <1>21 DEF MarkSyncing, WorkerStates, JobStates, Days
    <3> QED
      BY <2>1, <3>1 DEF WillHave, Passed, Days
  <2> QED
    BY <2>1, <2>2, <2>3 DEF HistoryInv
<1>22. CASE WriteChunk
  <2> DEFINE last == Min({worker.next + Chunk - 1, worker.to})
  <2>1. /\ UNCHANGED <<profile, job, task, today>> /\ marks \subseteq marks'
        /\ worker.pc = "chunk" /\ worker'.id = worker.id /\ worker'.to = worker.to
        /\ worker'.next = last + 1
        /\ worker'.pc = IF last + 1 < worker.to THEN "chunk" ELSE "posts"
        /\ days' = days \cup ((worker.next..last) \cap Days)
    BY <1>0, <1>22 DEF WriteChunk, Overlap, Mark, frame, WorkerStates
  <2>2. /\ last \in Int /\ worker.next \in Int /\ worker.to \in Nat /\ today \in Nat
        /\ worker.to <= today /\ worker.to >= Depth
        /\ \A j \in Jobs : job[j].fetch \in Nat
    <3>1. last \in Int
      BY ChunkEnds
    <3> HIDE DEF last
    <3> QED
      BY <1>0, <2>1, <3>1 DEF SyncInv, FirstDay, WorkerStates, JobStates, Days
  <2> HIDE DEF last
  <2>3. (HasHistory => HasHistory') /\ \A t \in Tasks : WillSettle(t)' = WillSettle(t)
    BY <2>1 DEF HasHistory, WillSettle
  <2>4. ASSUME NEW j \in Jobs, WillHave(j), worker.id = j PROVE WillHave(j)'
    <3>1. Passed(worker.to - job[j].fetch) /\ job[j].fetch >= Depth
      BY <2>1, <2>4 DEF WillHave
    <3>2. \A d \in Days : d >= worker.to - job[j].fetch /\ d <= last => d \in days'
      BY <2>1, <2>2, <3>1 DEF Passed, Days
    <3>3. Passed(worker.to - job[j].fetch)'
      BY <2>1, <2>2, <3>2 DEF Passed, Days
    <3>4. CASE last + 1 < worker.to
      BY <2>1, <2>4, <3>3, <3>4 DEF WillHave
    <3>5. CASE ~(last + 1 < worker.to)
      <4>1. worker.to - Depth \in Days
        BY <1>0, <2>2 DEF WorkerStates, Days
      <4>2. worker.to - Depth \in days'
        BY <2>2, <3>1, <3>2, <3>5, <4>1
      <4>3. HasHistory'
        BY <2>1, <2>2, <4>2 DEF HasHistory
      <4> QED
        BY <2>1, <2>4, <3>5, <4>3 DEF WillHave
    <3> QED
      BY <3>4, <3>5
  <2>5. \A j \in Jobs : WillHave(j) /\ worker.id # j => WillHave(j)'
    BY <2>1 DEF WillHave
  <2> QED
    BY <2>1, <2>3, <2>4, <2>5 DEF HistoryInv
<1>23. CASE Rows
  <2>1. /\ UNCHANGED <<profile, days, job, task, today>> /\ marks \subseteq marks'
        /\ worker.pc \in Tables /\ worker'.pc \in Tables \cup {"finish"}
        /\ worker'.id = worker.id
    BY <1>23, RowsAreWritten DEF frame
  <2>2. HasHistory' = HasHistory /\ \A t \in Tasks : WillSettle(t)' = WillSettle(t)
    BY <2>1 DEF HasHistory, WillSettle
  <2>3. \A j \in Jobs : WillHave(j) => WillHave(j)'
    BY <2>1, <2>2 DEF WillHave
  <2> QED
    BY <2>1, <2>2, <2>3 DEF HistoryInv
<1>24. CASE FinishSync
  <2>1. /\ UNCHANGED <<days, task, today, marks>> /\ profile'.is = profile.is
        /\ worker.pc = "finish" /\ worker'.pc = "idle"
        /\ \A j \in Jobs : j # worker.id => job'[j] = job[j]
    BY <1>0, <1>24 DEF FinishSync, EndJob, UpdateState, frame, IdleWorker, ProfileStates
  <2>2. HasHistory' = HasHistory /\ \A t \in Tasks : WillSettle(t)' = WillSettle(t)
    BY <2>1 DEF HasHistory, WillSettle
  <2>3. \A j \in Jobs : WillHave(j) => HasHistory \/ WillHave(j)'
    BY <2>1 DEF WillHave
  <2> QED
    BY <2>1, <2>2, <2>3 DEF HistoryInv
<1>25. ASSUME NEW j \in Jobs, TakeJob(j) \/ PromoteJob(j) \/ RestartStalledJob(j)
       PROVE  HistoryInv'
  <2>1. /\ UNCHANGED <<profile, days, task, today>> /\ marks \subseteq marks'
        /\ \A i \in Jobs : i # j => job'[i] = job[i]
    BY <1>25 DEF TakeJob, PromoteJob, RestartStalledJob, GiveUp, Mark, frame
  <2>2. \/ "lost" \in marks'
        \/ job'[j].state # "none" /\ job'[j].fetch = job[j].fetch
    BY <1>0, <1>25 DEF TakeJob, PromoteJob, RestartStalledJob, GiveUp, Mark, JobStates
  <2>3. worker' = worker \/ worker'.pc = "find"
    BY <1>25 DEF TakeJob, PromoteJob, RestartStalledJob, IdleWorker
  <2>4. HasHistory' = HasHistory /\ \A t \in Tasks : WillSettle(t)' = WillSettle(t)
    BY <2>1 DEF HasHistory, WillSettle
  <2>5. \A i \in Jobs : WillHave(i) => WillHave(i)' \/ "lost" \in marks'
    <3>1. \A i \in Jobs : WillHave(i) /\ "lost" \notin marks' =>
             job'[i].state # "none" /\ job'[i].fetch = job[i].fetch
      BY <2>1, <2>2 DEF WillHave
    <3> QED
      BY <2>1, <2>3, <2>4, <3>1 DEF WillHave, Passed
  <2> QED
    BY <2>1, <2>4, <2>5 DEF HistoryInv
<1>26. CASE Crash
  <2>1. CASE marks' \cap {"lost", "broke"} # {}
    BY <2>1 DEF HistoryInv
  <2>2. CASE marks' \cap {"lost", "broke"} = {}
    <3>1. /\ UNCHANGED <<profile, days, job, today>> /\ worker.pc = "idle"
          /\ worker'.pc = "idle" /\ marks \subseteq marks'
          /\ \A t \in Tasks : task[t].pc \in {"idle", "ended"}
      BY <1>26, <2>2 DEF Crash, IdleWorker
    <3>2. HasHistory' = HasHistory /\ \A j \in Jobs : WillHave(j)' = WillHave(j)
      BY <3>1 DEF HasHistory, WillHave
    <3>3. \A t \in Tasks : ~WillSettle(t)
      BY <3>1 DEF WillSettle
    <3> QED
      BY <3>1, <3>2, <3>3 DEF HistoryInv
  <2> QED
    BY <2>1, <2>2
<1>27. CASE NextDay
  <2>1. /\ UNCHANGED <<profile, days, job, worker, marks>> /\ today' = today + 1
        /\ \A t \in Tasks : task[t].pc \in {"idle", "ended"}
        /\ today \in Nat /\ days \subseteq Nat
    BY <1>27 DEF NextDay, Days
  <2>2. HasHistory => HasHistory'
    BY <2>1 DEF HasHistory
  <2>3. \A j \in Jobs : WillHave(j) => WillHave(j)'
    BY <2>1, <2>2 DEF WillHave, Passed
  <2>4. \A t \in Tasks : ~WillSettle(t)
    BY <2>1 DEF WillSettle
  <2> QED
    BY <2>1, <2>2, <2>3, <2>4 DEF HistoryInv
<1>28. CASE UNCHANGED vars
  BY <1>28, HistoryOfTasks DEF vars, WillSettle
<1> QED
  BY <1>1, <1>2, <1>3, <1>4, <1>5, <1>6, <1>7, <1>8, <1>9, <1>10, <1>11, <1>12,
     <1>13, <1>14, <1>15, <1>16, <1>17, <1>18, <1>19, <1>20, <1>21, <1>22, <1>23,
     <1>24, <1>25, <1>26, <1>27, <1>28
  DEF Next, ServeRequest, ServeCron, Serve, Sync, Rows

\* The oldest chunk comes first and the last update comes last: a connected
\* profile that says COMPLETED has its whole history, or a job that will fetch
\* it, or a request at work on it, unless a sync or a request failed.
THEOREM MetaSyncHasHistory == Spec => []CompletedHasHistory
<1>1. Init => SyncInv /\ HistoryInv
  <2> SUFFICES ASSUME Init PROVE SyncInv /\ HistoryInv
    OBVIOUS
  <2>1. SyncInv
    BY DEF Init, SyncInv, IdleWorker, Tables
  <2>2. CASE profile.is = "active"
    <3>1. days = (FirstDay - Depth)..(FirstDay - 1) /\ today = FirstDay
      BY <2>2 DEF Init, NoProfile
    <3>2. FirstDay - Depth \in days
      BY <3>1, Numbers
    <3> QED
      BY <2>1, <3>1, <3>2, Numbers DEF HistoryInv, HasHistory
  <2> QED
    BY <2>1, <2>2 DEF HistoryInv
<1>2. IInv /\ SyncInv /\ HistoryInv /\ [Next]_vars => SyncInv' /\ HistoryInv'
  BY SyncStep, HistoryStep
<1>3. HistoryInv => CompletedHasHistory
  BY DEF HistoryInv, CompletedHasHistory, HasHistory, WillHave, WillSettle, Deleting,
     Tables, Queued, Serving
<1> QED
  BY <1>1, <1>2, <1>3, MetaSyncInvariant, PTL DEF Spec
=============================================================================
