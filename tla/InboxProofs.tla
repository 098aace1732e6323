----------------------------- MODULE InboxProofs -----------------------------
(***************************************************************************)
(* Proofs, for any messages, replies and bounds, of the safety properties  *)
(* of Inbox: no message is skipped, none is announced twice, the time of   *)
(* the thread covers its messages, and a reply that was sent stays.        *)
(***************************************************************************)
EXTENDS Inbox, WellFoundedInduction, TLAPS

-----------------------------------------------------------------------------
(* The greatest of a bounded set of numbers *)

Below == {p \in Nat \X Nat : p[1] < p[2]}

LEMMA BelowIsWellFounded == IsWellFoundedOn(Below, Nat)
<1>1. OpToRel(<, Nat) = Below
  BY DEF OpToRel, Below
<1> QED
  BY NatLessThanWellFounded, <1>1

LEMMA LeastExists ==
  ASSUME NEW T, T \subseteq Nat, T # {}
  PROVE  \E x \in T : \A y \in T : x <= y
<1>1. \E x \in T : \A y \in T : ~(<<y, x>> \in Below)
  BY BelowIsWellFounded, WFMin
<1>2. PICK x \in T : \A y \in T : ~(<<y, x>> \in Below)
  BY <1>1
<1>3. ASSUME NEW y \in T PROVE x <= y
  <2>1. ~(<<y, x>> \in Below) /\ x \in Nat /\ y \in Nat
    BY <1>2
  <2>2. <<y, x>> \in Nat \X Nat
    BY <2>1
  <2>3. ~(y < x)
    BY <2>1, <2>2 DEF Below
  <2> QED
    BY <2>1, <2>3
<1> QED
  BY <1>3

LEMMA GreatestExists ==
  ASSUME NEW S, S \subseteq Nat, NEW b \in Nat, S # {}, \A x \in S : x <= b
  PROVE  Max(S) \in S /\ \A x \in S : x <= Max(S)
<1> DEFINE T == {b - x : x \in S}
<1>1. T \subseteq Nat
  BY \A x \in S : b - x \in Nat
<1>2. T # {}
  OBVIOUS
<1>3. \E t \in T : \A y \in T : t <= y
  <2> HIDE DEF T
  <2> QED
    BY <1>1, <1>2, LeastExists
<1>4. PICK t \in T : \A y \in T : t <= y
  BY <1>3
<1>5. PICK m \in S : t = b - m
  BY <1>4
<1>6. ASSUME NEW x \in S PROVE m >= x
  <2>1. b - x \in T
    OBVIOUS
  <2>2. b - m <= b - x
    BY <2>1, <1>4, <1>5
  <2> QED
    BY <2>2
<1>7. \E y \in S : \A x \in S : y >= x
  BY <1>6
<1>8. Max(S) \in S /\ \A x \in S : Max(S) >= x
  BY <1>7 DEF Max
<1> QED
  BY <1>8

-----------------------------------------------------------------------------
(* The inductive invariant *)

\* No time lies ahead of the clock.
TimesInv ==
    /\ conn.synced <= now /\ cron.since <= now /\ job.since <= now
    /\ worker.newest <= now /\ last <= now /\ edit.copy <= now
    /\ \A m \in Messages : sent[m] <= now /\ rows[m] <= now
    /\ \A r \in Replies : pending[r] <= now

\* A busy worker holds the active job.
JobInv == worker.pc # "idle" => job.state = "active"

\* What the worker still has to insert was sent, no later than the time it has for
\* the thread, or gave it.
TodoInv ==
    /\ worker.pc \in {"idle", "token", "fetch"} => worker.todo = {}
    /\ \A m \in worker.todo : sent[m] # 0
    /\ worker.pc = "thread" => \A m \in worker.todo : sent[m] <= worker.newest
    /\ worker.pc = "insert" =>
          "overwritten" \in marks \/ \A m \in worker.todo : sent[m] <= last

\* A reply has its pending row before the platform sees it, and is sent once.
ReplyInv ==
    \A r \in Replies :
      /\ reply[r] \in {"idle", "platform"} => sent[r] = 0
      /\ reply[r] \in {"platform", "save"} => pending[r] # 0

\* The messages the worker will announce are stored and not yet announced.
FreshInv ==
    /\ worker.fresh # {} => worker.pc \in {"insert", "close", "failed"}
    /\ \A m \in Inbound : m \in worker.fresh \/ announced[m] # 0 => rows[m] # 0
    /\ \A m \in worker.fresh : announced[m] = 0

\* A due message that is missing is in sight of the connection, of the next poll
\* and of the one that is queued, and on the list of the one that runs.
Owed(m) ==
    /\ Passes(sent[m], conn.synced)
    /\ cron.pc = "add" => Passes(sent[m], cron.since)
    /\ job.state \notin {"none", "failed"} => Passes(sent[m], job.since)
    /\ worker.pc \in {"thread", "insert"} => m \in worker.todo
    /\ worker.pc \notin {"close", "sync", "done"}
DueInv ==
    /\ \A m \in due : sent[m] # 0
    /\ "blind" \in marks \/ \A m \in due : rows[m] = 0 => Owed(m)

IInv ==
    /\ TypeOK /\ TimesInv /\ JobInv /\ TodoInv /\ ReplyInv /\ FreshInv /\ DueInv
    /\ AnnouncedOnce /\ LastCoversRows /\ ReplyKept

-----------------------------------------------------------------------------
(* Facts the steps share *)

LEMMA Numbers ==
    /\ Times \subseteq Nat /\ 0 \in Times
    /\ now \in 1..MaxTime => now \in Times /\ now # 0
    /\ Attempts = 3 /\ MaxStalls = 1
        /\ MaxTime \in Nat /\ MaxEvents \in Nat /\ Lookback \in Nat
  BY BoundsAssumption DEF Times, Attempts, MaxStalls

LEMMA Records ==
    /\ NoJob \in JobStates /\ FailedJob \in JobStates /\ FailedJob.state = "failed"
    /\ FailedJob.since = 0 /\ IdleCron \in CronStates
    /\ IdleWorker \in WorkerStates /\ IdleEdit \in EditStates
  BY Numbers DEF NoJob, FailedJob, JobStates, IdleCron, CronStates,
     IdleWorker, WorkerStates, IdleEdit, EditStates

LEMMA InitIInv == Init => IInv
<1> SUFFICES ASSUME Init PROVE IInv
  OBVIOUS
<1>1. TypeOK
  BY Records, BoundsAssumption DEF Init, TypeOK, Times, ConnStates
<1> USE BoundsAssumption DEF Init, NoJob, IdleCron, IdleWorker, IdleEdit, Messages, Times
<1>2. TimesInv /\ JobInv /\ TodoInv /\ ReplyInv /\ FreshInv
  BY DEF TimesInv, JobInv, TodoInv, ReplyInv, FreshInv, Attempts, MaxStalls
<1>3. DueInv /\ AnnouncedOnce /\ LastCoversRows /\ ReplyKept
  BY DEF DueInv, AnnouncedOnce, LastCoversRows, ReplyKept
<1> QED
  BY <1>1, <1>2, <1>3 DEF IInv

LEMMA AreNumbers ==
  ASSUME IInv
  PROVE  /\ last \in Nat /\ now \in Nat /\ worker.newest \in Nat
         /\ edit.copy \in Nat /\ conn.synced \in Nat /\ job.since \in Nat
         /\ \A m \in Messages : sent[m] \in Nat /\ rows[m] \in Nat
  BY Numbers DEF IInv, TypeOK, ConnStates, JobStates, WorkerStates, EditStates

\* The platform has been given a time for all that came, and none ahead of now.
LEMMA StampOK ==
  ASSUME IInv
  PROVE  Stamp \in Times /\ Stamp # 0 /\ Stamp <= now
<1>1. now \in Times /\ now # 0 /\ now \in Nat
  BY Numbers DEF IInv, TypeOK
<1>2. WholeSecond[now] \in Times /\ WholeSecond[now] # 0 /\ WholeSecond[now] <= now
  BY <1>1, SecondsAssumption
<1> QED
  BY <1>1, <1>2 DEF Stamp

\* The newest of messages that were sent, and of the rows of a thread.
LEMMA NewestSent ==
  ASSUME IInv, NEW S \in SUBSET Messages, S # {}
  PROVE  /\ Newest(S) \in Times /\ Newest(S) <= now
         /\ \A m \in S : sent[m] <= Newest(S)
<1> DEFINE T == {sent[m] : m \in S}
<1>1. /\ sent \in [Messages -> Times] /\ now \in Nat
      /\ \A m \in Messages : sent[m] <= now
  BY Numbers DEF IInv, TypeOK, TimesInv
<1>2. T \subseteq Nat /\ T # {} /\ \A x \in T : x \in Times /\ x <= now
  BY <1>1, Numbers
<1>3. \A m \in S : sent[m] \in T
  OBVIOUS
<1>4. Newest(S) = Max(T)
  BY DEF Newest
<1> HIDE DEF T
<1>5. Max(T) \in T /\ \A x \in T : x <= Max(T)
  BY <1>1, <1>2, GreatestExists
<1> QED
  BY <1>2, <1>3, <1>4, <1>5

\* What Meta gives of older messages is older than what is new.
LEMMA OlderIsOlder ==
  ASSUME IInv, Recent # {}, NEW m \in Older
  PROVE  m \in Messages /\ sent[m] # 0 /\ sent[m] <= Newest(Recent)
<1>1. PICK first \in Recent : TRUE
  OBVIOUS
<1>2. /\ m \in Messages /\ sent[m] # 0 /\ conn.platform = "meta"
      /\ ~(WholeSecond[job.since] <= sent[m])
  BY DEF Older, Passes, Lets
<1>3. first \in Messages /\ WholeSecond[job.since] <= sent[first]
  BY <1>1, <1>2 DEF Recent, Passes, Lets
<1>4. Recent \in SUBSET Messages
  BY DEF Recent
<1>5. sent[first] <= Newest(Recent) /\ Newest(Recent) \in Nat
  BY <1>1, <1>4, NewestSent, Numbers
<1>6. job.since \in Times /\ WholeSecond[job.since] \in Nat
  BY SecondsAssumption, Numbers DEF IInv, TypeOK, JobStates
<1> QED
  BY <1>2, <1>3, <1>5, <1>6, AreNumbers

\* What a poll takes over: nothing that was not sent, all that is new unless it
\* was blind.
Fetch == FetchThreads \/ FetchFirstPage \/ FetchThreadOnly

FetchFrame == UNCHANGED <<pollFrame, conn, rows, last, announced>>

Taken ==
    /\ worker' \in WorkerStates /\ worker'.pc \in {"sync", "thread"}
    /\ worker'.fresh = {} /\ worker'.newest <= now
    /\ \A m \in worker'.todo : sent[m] # 0 /\ sent[m] <= worker'.newest

LEMMA TakeIsFine ==
  ASSUME IInv, worker.pc = "fetch", NEW S \in SUBSET Messages, NEW N \in SUBSET Messages,
         N # {}, Take(S, Newest(N)), \A m \in S : sent[m] # 0 /\ sent[m] <= Newest(N)
  PROVE  Taken /\ worker'.pc = "thread" /\ worker'.todo = S
<1>1. worker \in WorkerStates /\ worker.fresh = {}
  BY DEF IInv, TypeOK, FreshInv
<1>2. Newest(N) \in Times /\ Newest(N) <= now
  BY NewestSent
<1>3. worker' = [worker EXCEPT !.pc = "thread", !.todo = S, !.newest = Newest(N)]
  BY DEF Take
<1>4. /\ worker' \in WorkerStates /\ worker'.pc = "thread" /\ worker'.todo = S
      /\ worker'.newest = Newest(N) /\ worker'.fresh = {}
  BY <1>1, <1>2, <1>3 DEF WorkerStates
<1> QED
  BY <1>2, <1>4 DEF Taken

LEMMA SkipIsFine ==
  ASSUME IInv, worker.pc = "fetch", Goto("sync")
  PROVE  Taken /\ worker'.pc = "sync"
<1>1. /\ worker \in WorkerStates /\ worker.fresh = {} /\ worker.todo = {}
      /\ worker.newest <= now
  BY DEF IInv, TypeOK, FreshInv, TodoInv, TimesInv
<1>2. /\ worker' \in WorkerStates /\ worker'.pc = "sync" /\ worker'.todo = worker.todo
      /\ worker'.newest = worker.newest /\ worker'.fresh = worker.fresh
  BY <1>1 DEF Goto, WorkerStates
<1> QED
  BY <1>1, <1>2 DEF Taken

LEMMA Fetching ==
  ASSUME IInv, Fetch
  PROVE  /\ worker.pc = "fetch" /\ FetchFrame /\ Taken
         /\ events' \in 0..MaxEvents
         /\ \/ marks' = marks \cup {"blind"}
            \/ /\ marks' = marks
               /\ \/ Recent = {}
                  \/ worker'.pc = "thread" /\ Recent \subseteq worker'.todo
<1>1. Recent \in SUBSET Messages /\ \A m \in Recent : sent[m] # 0
  BY DEF Recent
<1>2. events \in 0..MaxEvents /\ MaxEvents \in Nat
  BY Numbers DEF IInv, TypeOK
<1>3. CASE FetchThreads
  <2>1. worker.pc = "fetch" /\ FetchFrame /\ marks' = marks /\ events' = events
    BY <1>3 DEF FetchThreads, FetchFrame
  <2>2. CASE Recent = {}
    BY <1>2, <1>3, <2>1, <2>2, SkipIsFine DEF FetchThreads
  <2>3. CASE Recent # {}
    <3>1. PICK older \in {{}, Older} : Take(Recent \cup older, Newest(Recent))
      BY <1>3, <2>3 DEF FetchThreads
    <3>2. \A m \in older : m \in Messages /\ sent[m] # 0 /\ sent[m] <= Newest(Recent)
      BY <2>3, OlderIsOlder
    <3>3. \A m \in Recent : sent[m] <= Newest(Recent)
      BY <1>1, <2>3, NewestSent
    <3>4. Recent \cup older \in SUBSET Messages
      BY <1>1, <3>2
    <3>5. Taken /\ worker'.pc = "thread" /\ worker'.todo = Recent \cup older
      BY <1>1, <2>1, <2>3, <3>1, <3>2, <3>3, <3>4, TakeIsFine
    <3> QED
      BY <1>2, <2>1, <3>5
  <2> QED
    BY <2>2, <2>3
<1>4. CASE FetchFirstPage
  <2>1. /\ worker.pc = "fetch" /\ FetchFrame /\ marks' = marks \cup {"blind"}
        /\ events' \in 0..MaxEvents
    BY <1>2, <1>4 DEF FetchFirstPage, FetchFrame, Count, Mark
  <2>2. PICK page \in SUBSET Recent \ {Recent} :
          IF page = {} THEN Goto("sync")
          ELSE Take(page, Newest(IF conn.platform = "tiktok" THEN page ELSE Recent))
    BY <1>4 DEF FetchFirstPage
  <2>3. CASE page = {}
    BY <2>1, <2>2, <2>3, SkipIsFine
  <2>4. CASE page # {}
    <3>1. PICK N \in {page, Recent} : Take(page, Newest(N))
      BY <2>2, <2>4
    <3>2. page \in SUBSET Messages /\ N \in SUBSET Messages /\ N # {} /\ page \subseteq N
      BY <1>1, <2>2, <2>4, <3>1
    <3>3. \A m \in page : sent[m] # 0 /\ sent[m] <= Newest(N)
      BY <1>1, <2>2, <3>2, NewestSent
    <3>4. Taken
      BY <2>1, <3>1, <3>2, <3>3, TakeIsFine
    <3> QED
      BY <2>1, <3>4
  <2> QED
    BY <2>3, <2>4
<1>5. CASE FetchThreadOnly
  <2>1. /\ worker.pc = "fetch" /\ FetchFrame /\ marks' = marks \cup {"blind"}
        /\ events' \in 0..MaxEvents /\ Recent # {}
        /\ Take({}, Newest(Recent)) \/ Goto("sync")
    BY <1>2, <1>5 DEF FetchThreadOnly, FetchFrame, Count, Mark
  <2>2. Taken
    BY <1>1, <2>1, TakeIsFine, SkipIsFine
  <2> QED
    BY <2>1, <2>2
<1> QED
  BY <1>3, <1>4, <1>5 DEF Fetch

LEMMA NewestRow ==
  ASSUME IInv
  PROVE  LET newest == Max(RowTimes \cup {0})
         IN  /\ newest \in Times /\ newest <= now
             /\ \A m \in Messages : rows[m] <= newest
<1> DEFINE T == RowTimes \cup {0}
<1>1. T \subseteq Nat /\ T # {} /\ now \in Nat /\ \A x \in T : x \in Times /\ x <= now
  <2>1. \A m \in Messages : rows[m] \in Times /\ rows[m] <= now
    BY DEF IInv, TypeOK, TimesInv
  <2>2. \A r \in Replies : pending[r] \in Times /\ pending[r] <= now
    BY DEF IInv, TypeOK, TimesInv
  <2>3. now \in Nat /\ 0 <= now
    BY AreNumbers
  <2> QED
    BY <2>1, <2>2, <2>3, Numbers DEF RowTimes
<1>2. \A m \in Messages : rows[m] \in T
  BY DEF RowTimes
<1> HIDE DEF T
<1>3. Max(T) \in T /\ \A x \in T : x <= Max(T)
  BY <1>1, GreatestExists
<1>4. Max(T) \in Times /\ Max(T) <= now /\ \A m \in Messages : rows[m] <= Max(T)
  BY <1>1, <1>2, <1>3
<1> QED
  BY <1>4 DEF T

-----------------------------------------------------------------------------
(* Each part of the invariant survives each step *)

LEMMA TypeStep == IInv /\ [Next]_vars => TypeOK'
<1> SUFFICES ASSUME IInv, [Next]_vars PROVE TypeOK'
  OBVIOUS
<1> USE Numbers, Records DEF IInv, TypeOK, Messages, Marks
<1>1. ASSUME Connect PROVE TypeOK'
  BY <1>1 DEF Connect, Count, connFrame, ConnStates
<1>2. ASSUME Disconnect PROVE TypeOK'
  <2>1. conn' \in ConnStates
    BY <1>2 DEF Disconnect, ConnStates
  <2> QED
    BY <1>2, <2>1 DEF Disconnect, Count, connFrame
<1>3. ASSUME NEW m \in Inbound, Write(m) PROVE TypeOK'
  BY <1>3, StampOK DEF Write
<1>4. ASSUME FindConnection PROVE TypeOK'
  <2>1. Since(conn.synced) \in Times
    BY DEF Since, Times, ConnStates
  <2>2. cron' \in CronStates
    BY <1>4, <2>1 DEF FindConnection, CronStates
  <2> QED
    BY <1>4, <2>2 DEF FindConnection, cronFrame, Mark, Marks
<1>5. ASSUME AddPoll PROVE TypeOK'
  BY <1>5 DEF AddPoll, cronFrame, NoJob, IdleCron, JobStates, CronStates
<1>6. ASSUME PromoteJob PROVE TypeOK'
  BY <1>6 DEF PromoteJob, queueFrame, JobStates
<1>7. ASSUME TakeJob PROVE TypeOK'
  BY <1>7 DEF TakeJob, queueFrame, IdleWorker, JobStates, WorkerStates
<1>8. ASSUME CompleteJob PROVE TypeOK'
  BY <1>8 DEF CompleteJob, queueFrame, NoJob, IdleWorker, JobStates, WorkerStates
<1>9. ASSUME RestartStalledJob PROVE TypeOK'
  <2>1. job' \in JobStates
    <3>1. CASE job.stalls < MaxStalls
      <4>1. job.stalls + 1 \in 0..MaxStalls /\ "waiting" \in {"none", "delayed", "waiting", "active", "failed"}
        BY <3>1 DEF JobStates
      <4>2. job' = [job EXCEPT !.stalls = job.stalls + 1, !.state = "waiting"]
        BY <1>9, <3>1 DEF RestartStalledJob
      <4> QED
        BY <4>1, <4>2 DEF JobStates
    <3>2. CASE ~(job.stalls < MaxStalls)
      BY <1>9, <3>2 DEF RestartStalledJob
    <3> QED
      BY <3>1, <3>2
  <2> QED
    BY <1>9, <2>1 DEF RestartStalledJob, queueFrame
<1>10. ASSUME ReadToken PROVE TypeOK'
  BY <1>10 DEF ReadToken, pollFrame, Goto, WorkerStates
<1>11. ASSUME Fetch PROVE TypeOK'
  <2>1. marks' \subseteq Marks
    BY <1>11, Fetching
  <2> QED
    BY <1>11, <2>1, Fetching DEF FetchFrame, pollFrame, Taken
<1>13. ASSUME UpsertThread PROVE TypeOK'
  <2>1. Later(last, worker.newest) \in Times
    BY DEF Later, WorkerStates
  <2>2. worker' \in WorkerStates
    BY <1>13 DEF UpsertThread, Goto, WorkerStates
  <2> QED
    BY <1>13, <2>1, <2>2 DEF UpsertThread, pollFrame
<1>14. ASSUME NEW m \in Messages, InsertMessage(m) PROVE TypeOK'
  BY <1>14 DEF InsertMessage, pollFrame, IsNew, WorkerStates
<1>15. ASSUME CloseThread PROVE TypeOK'
  <2>1. last' \in Times
    BY <1>15, NewestRow DEF CloseThread
  <2>2. worker' \in WorkerStates
    BY <1>15 DEF CloseThread, WorkerStates
  <2>3. announced' \in [Inbound -> 0..1]
    <3>1. \A m \in worker.fresh : announced[m] + 1 \in 0..1
      BY DEF FreshInv
    <3> QED
      BY <1>15, <3>1 DEF CloseThread
  <2> QED
    BY <1>15, <2>1, <2>2, <2>3 DEF CloseThread, pollFrame
<1>16. ASSUME MarkSynced PROVE TypeOK'
  BY <1>16 DEF MarkSynced, pollFrame, Goto, ConnStates, WorkerStates
<1>17. ASSUME PollFails PROVE TypeOK'
  BY <1>17 DEF PollFails, pollFrame, IdleWorker, Count, WorkerStates
<1>18. ASSUME RethrowError PROVE TypeOK'
  <2>1. conn' \in ConnStates
    BY <1>18 DEF RethrowError, ConnStates
  <2>2. job' \in JobStates
    <3>1. CASE TriesLeft
      <4>1. job.tries + 1 \in 0..Attempts - 1
        BY <3>1 DEF TriesLeft, JobStates
      <4>2. job' = [job EXCEPT !.tries = job.tries + 1, !.state = "delayed"]
        BY <1>18, <3>1 DEF RethrowError
      <4> QED
        BY <4>1, <4>2 DEF JobStates
    <3>2. CASE ~TriesLeft
      BY <1>18, <3>2 DEF RethrowError
    <3> QED
      BY <3>1, <3>2
  <2>3. events' \in 0..MaxEvents
    BY <1>18 DEF RethrowError, Count
  <2> QED
    BY <1>18, <2>1, <2>2, <2>3 DEF RethrowError, Mark, Marks
<1>19. ASSUME NEW r \in Replies, BeginReply(r) PROVE TypeOK'
  BY <1>19 DEF BeginReply, apiFrame, SetReply
<1>20. ASSUME NEW r \in Replies, SendToPlatform(r) PROVE TypeOK'
  BY <1>20, StampOK DEF SendToPlatform, apiFrame, SetReply
<1>21. ASSUME NEW r \in Replies, SaveReply(r) PROVE TypeOK'
  BY <1>21 DEF SaveReply, apiFrame, SetReply
<1>22. ASSUME NEW r \in Replies, BumpThread(r) PROVE TypeOK'
  BY <1>22 DEF BumpThread, apiFrame, SetReply, WorkerStates
<1>23. ASSUME NEW r \in Replies, ReplyFails(r) PROVE TypeOK'
  BY <1>23 DEF ReplyFails, apiFrame, SetReply, Count
<1>24. ASSUME BeginEdit PROVE TypeOK'
  BY <1>24 DEF BeginEdit, apiFrame, Count, EditStates
<1>25. ASSUME SaveThread PROVE TypeOK'
  BY <1>25 DEF SaveThread, apiFrame, Mark, IdleEdit, WorkerStates, EditStates
<1>26. ASSUME Crash PROVE TypeOK'
  BY <1>26 DEF Crash, Count, Mark, IdleWorker, IdleCron, IdleEdit, WorkerStates
<1>27. ASSUME Tick PROVE TypeOK'
  BY <1>27 DEF Tick
<1>28. CASE UNCHANGED vars
  BY <1>28 DEF vars
<1> QED
  BY <1>1, <1>2, <1>3, <1>4, <1>5, <1>6, <1>7, <1>8, <1>9, <1>10, <1>11, 
     <1>13, <1>14, <1>15, <1>16, <1>17, <1>18, <1>19, <1>20, <1>21, <1>22, <1>23,
     <1>24, <1>25, <1>26, <1>27, <1>28 DEF Next, Poll, Fetch, SendReply

LEMMA TimesStep == IInv /\ [Next]_vars => TimesInv'
<1> SUFFICES ASSUME IInv, [Next]_vars PROVE TimesInv'
  OBVIOUS
<1> USE Numbers, Records DEF IInv, TypeOK, Messages
<1>1. ASSUME Connect PROVE TimesInv'
  BY <1>1 DEF Connect, Count, connFrame, ConnStates, TimesInv
<1>2. ASSUME Disconnect PROVE TimesInv'
  BY <1>2 DEF Disconnect, Count, connFrame, ConnStates, TimesInv
<1>3. ASSUME NEW m \in Inbound, Write(m) PROVE TimesInv'
  BY <1>3, StampOK DEF Write, TimesInv
<1>4. ASSUME FindConnection PROVE TimesInv'
  BY <1>4 DEF FindConnection, cronFrame, Since, Mark, CronStates, TimesInv
<1>5. ASSUME AddPoll PROVE TimesInv'
  BY <1>5 DEF AddPoll, cronFrame, NoJob, IdleCron, JobStates, CronStates, TimesInv
<1>6. ASSUME PromoteJob PROVE TimesInv'
  BY <1>6 DEF PromoteJob, queueFrame, JobStates, TimesInv
<1>7. ASSUME TakeJob PROVE TimesInv'
  BY <1>7 DEF TakeJob, queueFrame, IdleWorker, JobStates, WorkerStates, TimesInv
<1>8. ASSUME CompleteJob PROVE TimesInv'
  BY <1>8 DEF CompleteJob, queueFrame, NoJob, IdleWorker, JobStates, WorkerStates,
     TimesInv
<1>9. ASSUME RestartStalledJob PROVE TimesInv'
  BY <1>9 DEF RestartStalledJob, queueFrame, JobStates, WorkerStates, TimesInv
<1>10. ASSUME ReadToken PROVE TimesInv'
  BY <1>10 DEF ReadToken, pollFrame, Goto, WorkerStates, TimesInv
<1>11. ASSUME Fetch PROVE TimesInv'
  BY <1>11, Fetching DEF FetchFrame, pollFrame, Taken, TimesInv
<1>13. ASSUME UpsertThread PROVE TimesInv'
  <2>1. last' <= now
    BY <1>13 DEF UpsertThread, Later, WorkerStates, TimesInv
  <2>2. worker'.newest = 0
    BY <1>13 DEF UpsertThread, WorkerStates
  <2> QED
    BY <1>13, <2>1, <2>2 DEF UpsertThread, pollFrame, TimesInv
<1>14. ASSUME NEW m \in Messages, InsertMessage(m) PROVE TimesInv'
  BY <1>14 DEF InsertMessage, pollFrame, IsNew, WorkerStates, TimesInv
<1>15. ASSUME CloseThread PROVE TimesInv'
  <2>1. last' <= now
    BY <1>15, NewestRow DEF CloseThread
  <2>2. worker'.newest = 0
    BY <1>15 DEF CloseThread, IdleWorker
  <2> QED
    BY <1>15, <2>1, <2>2 DEF CloseThread, pollFrame, TimesInv
<1>16. ASSUME MarkSynced PROVE TimesInv'
  BY <1>16 DEF MarkSynced, pollFrame, Goto, ConnStates, WorkerStates, TimesInv
<1>17. ASSUME PollFails PROVE TimesInv'
  BY <1>17 DEF PollFails, pollFrame, IdleWorker, Count, WorkerStates, TimesInv
<1>18. ASSUME RethrowError PROVE TimesInv'
  BY <1>18 DEF RethrowError, Count, Mark, IdleWorker, TriesLeft, ConnStates,
     JobStates, WorkerStates, TimesInv
<1>19. ASSUME NEW r \in Replies, BeginReply(r) PROVE TimesInv'
  BY <1>19 DEF BeginReply, apiFrame, SetReply, TimesInv
<1>20. ASSUME NEW r \in Replies, SendToPlatform(r) PROVE TimesInv'
  BY <1>20, StampOK DEF SendToPlatform, apiFrame, SetReply, TimesInv
<1>21. ASSUME NEW r \in Replies, SaveReply(r) PROVE TimesInv'
  BY <1>21 DEF SaveReply, apiFrame, SetReply, TimesInv
<1>22. ASSUME NEW r \in Replies, BumpThread(r) PROVE TimesInv'
  BY <1>22 DEF BumpThread, apiFrame, SetReply, WorkerStates, TimesInv
<1>23. ASSUME NEW r \in Replies, ReplyFails(r) PROVE TimesInv'
  BY <1>23 DEF ReplyFails, apiFrame, SetReply, Count, TimesInv
<1>24. ASSUME BeginEdit PROVE TimesInv'
  BY <1>24 DEF BeginEdit, apiFrame, Count, EditStates, TimesInv
<1>25. ASSUME SaveThread PROVE TimesInv'
  BY <1>25 DEF SaveThread, apiFrame, Mark, IdleEdit, WorkerStates, EditStates,
     TimesInv
<1>26. ASSUME Crash PROVE TimesInv'
  BY <1>26 DEF Crash, Count, Mark, IdleWorker, IdleCron, IdleEdit, WorkerStates,
     TimesInv
<1>27. ASSUME Tick PROVE TimesInv'
  <2>1. now' = now + 1 /\ now \in Nat /\ \A x \in Times : x <= now => x <= now + 1
    BY <1>27 DEF Tick
  <2>2. /\ conn.synced \in Times /\ cron.since \in Times /\ job.since \in Times
        /\ worker.newest \in Times /\ edit.copy \in Times
    BY DEF ConnStates, CronStates, JobStates, WorkerStates, EditStates
  <2>3. /\ \A m \in Messages : sent[m] <= now' /\ rows[m] <= now'
        /\ \A r \in Replies : pending[r] <= now'
    BY <2>1 DEF TimesInv
  <2> QED
    BY <1>27, <2>1, <2>2, <2>3 DEF Tick, TimesInv
<1>28. CASE UNCHANGED vars
  BY <1>28 DEF vars, TimesInv
<1> QED
  BY <1>1, <1>2, <1>3, <1>4, <1>5, <1>6, <1>7, <1>8, <1>9, <1>10, <1>11, 
     <1>13, <1>14, <1>15, <1>16, <1>17, <1>18, <1>19, <1>20, <1>21, <1>22, <1>23,
     <1>24, <1>25, <1>26, <1>27, <1>28 DEF Next, Poll, Fetch, SendReply

LEMMA JobStep == IInv /\ [Next]_vars => JobInv'
<1> SUFFICES ASSUME IInv, [Next]_vars PROVE JobInv'
  OBVIOUS
<1> USE Numbers, Records DEF IInv, TypeOK, Messages
<1>1. ASSUME AddPoll PROVE JobInv'
  BY <1>1 DEF AddPoll, cronFrame, NoJob, IdleCron, JobStates, JobInv
<1>2. ASSUME PromoteJob PROVE JobInv'
  BY <1>2 DEF PromoteJob, queueFrame, JobStates, JobInv
<1>3. ASSUME TakeJob PROVE JobInv'
  BY <1>3 DEF TakeJob, queueFrame, IdleWorker, JobStates, WorkerStates, JobInv
<1>4. ASSUME CompleteJob PROVE JobInv'
  BY <1>4 DEF CompleteJob, queueFrame, NoJob, IdleWorker, JobStates, WorkerStates,
     JobInv
<1>5. ASSUME RestartStalledJob PROVE JobInv'
  BY <1>5 DEF RestartStalledJob, queueFrame, JobStates, WorkerStates, JobInv
<1>6. ASSUME ReadToken PROVE JobInv'
  BY <1>6 DEF ReadToken, pollFrame, Goto, WorkerStates, JobInv
<1>7. ASSUME Fetch PROVE JobInv'
  BY <1>7, Fetching DEF FetchFrame, pollFrame, Taken, JobInv
<1>9. ASSUME UpsertThread PROVE JobInv'
  BY <1>9 DEF UpsertThread, pollFrame, Goto, WorkerStates, JobInv
<1>10. ASSUME NEW m \in Messages, InsertMessage(m) PROVE JobInv'
  BY <1>10 DEF InsertMessage, pollFrame, IsNew, WorkerStates, JobInv
<1>11. ASSUME CloseThread PROVE JobInv'
  BY <1>11 DEF CloseThread, pollFrame, IdleWorker, WorkerStates, JobInv
<1>12. ASSUME MarkSynced PROVE JobInv'
  BY <1>12 DEF MarkSynced, pollFrame, Goto, WorkerStates, JobInv
<1>13. ASSUME PollFails PROVE JobInv'
  BY <1>13 DEF PollFails, pollFrame, IdleWorker, Count, WorkerStates, JobInv
<1>14. ASSUME RethrowError PROVE JobInv'
  BY <1>14 DEF RethrowError, Count, Mark, IdleWorker, TriesLeft, JobStates,
     WorkerStates, JobInv
<1>15. ASSUME Crash PROVE JobInv'
  BY <1>15 DEF Crash, Count, Mark, IdleWorker, IdleCron, IdleEdit, WorkerStates,
     JobInv
<1>16. CASE UNCHANGED vars
  BY <1>16 DEF vars, JobInv
<1>17. ASSUME \/ Connect \/ Disconnect \/ (\E m \in Inbound : Write(m))
              \/ FindConnection \/ (\E r \in Replies : BeginReply(r))
              \/ (\E r \in Replies : SendToPlatform(r))
              \/ (\E r \in Replies : SaveReply(r))
              \/ (\E r \in Replies : BumpThread(r))
              \/ (\E r \in Replies : ReplyFails(r)) \/ BeginEdit
              \/ SaveThread \/ Tick
       PROVE  JobInv'
  BY <1>17 DEF Connect, Count, connFrame, Disconnect, Write, FetchedPcs,
     FindConnection, cronFrame, Since, Mark, BeginReply, apiFrame, SetReply,
     SendToPlatform, SaveReply, BumpThread, ReplyFails, BeginEdit, SaveThread,
     IdleEdit, Tick, JobStates, WorkerStates, JobInv
<1> QED
  BY <1>1, <1>2, <1>3, <1>4, <1>5, <1>6, <1>7, <1>9, <1>10, <1>11, <1>12,
     <1>13, <1>14, <1>15, <1>16, <1>17 DEF Next, Poll, Fetch, SendReply

LEMMA TodoStep == IInv /\ [Next]_vars => TodoInv'
<1> SUFFICES ASSUME IInv, [Next]_vars PROVE TodoInv'
  OBVIOUS
<1> USE Numbers, Records DEF IInv, TypeOK, Messages
<1>1. ASSUME NEW m \in Inbound, Write(m) PROVE TodoInv'
  <2>1. \A p \in worker.todo : sent'[p] = sent[p]
    BY <1>1 DEF Write, TodoInv, WorkerStates
  <2> QED
    BY <1>1, <2>1 DEF Write, TodoInv
<1>2. ASSUME TakeJob PROVE TodoInv'
  BY <1>2 DEF TakeJob, queueFrame, IdleWorker, WorkerStates, TodoInv, ReplyInv,
     TimesInv, Mark
<1>3. ASSUME CompleteJob PROVE TodoInv'
  BY <1>3 DEF CompleteJob, queueFrame, NoJob, IdleWorker, WorkerStates, TodoInv,
     ReplyInv, TimesInv, Mark
<1>4. ASSUME ReadToken PROVE TodoInv'
  BY <1>4 DEF ReadToken, pollFrame, Goto, WorkerStates, TodoInv, ReplyInv, TimesInv,
     Mark
<1>5. ASSUME Fetch PROVE TodoInv'
  BY <1>5, Fetching DEF FetchFrame, pollFrame, Taken, TodoInv
<1>7. ASSUME UpsertThread PROVE TodoInv'
  <2>1. /\ worker'.todo = worker.todo /\ worker'.pc \in {"close", "insert"}
        /\ sent' = sent /\ \A m \in worker.todo : sent[m] <= worker.newest
    BY <1>7 DEF UpsertThread, pollFrame, WorkerStates, TodoInv
  <2>2. worker.newest <= last' /\ last' \in Nat
    BY <1>7, AreNumbers DEF UpsertThread, Later
  <2>3. \A m \in worker.todo : sent[m] \in Nat
    BY AreNumbers DEF WorkerStates
  <2>4. \A m \in worker.todo : sent[m] <= last'
    BY <2>1, <2>2, <2>3, AreNumbers
  <2> QED
    BY <2>1, <2>4 DEF TodoInv
<1>8. ASSUME NEW m \in Messages, InsertMessage(m) PROVE TodoInv'
  BY <1>8 DEF InsertMessage, pollFrame, IsNew, WorkerStates, TodoInv, ReplyInv,
     TimesInv, Mark
<1>9. ASSUME CloseThread PROVE TodoInv'
  BY <1>9 DEF CloseThread, pollFrame, IdleWorker, WorkerStates, TodoInv, ReplyInv, TimesInv,
     Mark
<1>10. ASSUME MarkSynced PROVE TodoInv'
  BY <1>10 DEF MarkSynced, pollFrame, Goto, WorkerStates, TodoInv, ReplyInv,
     TimesInv, Mark
<1>11. ASSUME PollFails PROVE TodoInv'
  BY <1>11 DEF PollFails, pollFrame, IdleWorker, Count, WorkerStates, TodoInv, ReplyInv,
     TimesInv, Mark
<1>12. ASSUME RethrowError PROVE TodoInv'
  BY <1>12 DEF RethrowError, Count, Mark, IdleWorker, TriesLeft, WorkerStates,
     TodoInv, ReplyInv, TimesInv, Mark
<1>13. ASSUME NEW r \in Replies, SendToPlatform(r) PROVE TodoInv'
  <2>1. \A m \in worker.todo : sent'[m] = sent[m]
    BY <1>13 DEF SendToPlatform, TodoInv, ReplyInv, WorkerStates
  <2> QED
    BY <1>13, <2>1 DEF SendToPlatform, apiFrame, TodoInv
<1>14. ASSUME NEW r \in Replies, BumpThread(r) PROVE TodoInv'
  BY <1>14 DEF BumpThread, apiFrame, SetReply, WorkerStates, TodoInv, ReplyInv,
     TimesInv, Mark
<1>15. ASSUME SaveThread PROVE TodoInv'
  <2>1. worker' = worker /\ sent' = sent /\ last' = edit.copy
    BY <1>15 DEF SaveThread, apiFrame
  <2>2. "overwritten" \in marks' \/ (marks' = marks /\ last <= last')
    BY <1>15, <2>1, AreNumbers DEF SaveThread, Mark
  <2>3. \A m \in worker.todo : sent[m] \in Nat
    BY AreNumbers DEF WorkerStates
  <2> QED
    BY <2>1, <2>2, <2>3, AreNumbers DEF TodoInv
<1>16. ASSUME Crash PROVE TodoInv'
  BY <1>16 DEF Crash, Count, Mark, IdleWorker, IdleCron, IdleEdit, WorkerStates,
     TodoInv, ReplyInv, TimesInv, Mark
<1>17. CASE UNCHANGED vars
  BY <1>17 DEF vars, TodoInv, ReplyInv, TimesInv, Mark
<1>18. ASSUME \/ Connect \/ Disconnect \/ FindConnection \/ AddPoll
              \/ PromoteJob \/ RestartStalledJob
              \/ (\E r \in Replies : BeginReply(r))
              \/ (\E r \in Replies : SaveReply(r))
              \/ (\E r \in Replies : ReplyFails(r)) \/ BeginEdit \/ Tick
       PROVE  TodoInv'
  BY <1>18 DEF Connect, Count, connFrame, Disconnect, FindConnection,
     cronFrame, Since, Mark, AddPoll, NoJob, IdleCron, PromoteJob, queueFrame,
     RestartStalledJob, BeginReply, apiFrame, SetReply, SaveReply, ReplyFails,
     BeginEdit, Tick, WorkerStates, TodoInv, ReplyInv, TimesInv
<1> QED
  BY <1>1, <1>2, <1>3, <1>4, <1>5, <1>7, <1>8, <1>9, <1>10, <1>11, <1>12,
     <1>13, <1>14, <1>15, <1>16, <1>17, <1>18 DEF Next, Poll, Fetch, SendReply

LEMMA ReplyStep == IInv /\ [Next]_vars => ReplyInv'
<1> SUFFICES ASSUME IInv, [Next]_vars PROVE ReplyInv'
  OBVIOUS
<1> USE Numbers, Records DEF IInv, TypeOK, Messages
<1>1. ASSUME NEW m \in Inbound, Write(m) PROVE ReplyInv'
  BY <1>1, MessagesAssumption DEF Write, FetchedPcs, ReplyInv
<1>2. ASSUME NEW r \in Replies, BeginReply(r) PROVE ReplyInv'
  BY <1>2 DEF BeginReply, apiFrame, SetReply, ReplyInv
<1>3. ASSUME NEW r \in Replies, SendToPlatform(r) PROVE ReplyInv'
  BY <1>3 DEF SendToPlatform, apiFrame, SetReply, ReplyInv
<1>4. ASSUME NEW r \in Replies, SaveReply(r) PROVE ReplyInv'
  BY <1>4 DEF SaveReply, apiFrame, SetReply, ReplyInv
<1>5. ASSUME NEW r \in Replies, BumpThread(r) PROVE ReplyInv'
  BY <1>5 DEF BumpThread, apiFrame, SetReply, ReplyInv
<1>6. ASSUME NEW r \in Replies, ReplyFails(r) PROVE ReplyInv'
  BY <1>6 DEF ReplyFails, apiFrame, SetReply, Count, ReplyInv
<1>7. ASSUME Crash PROVE ReplyInv'
  BY <1>7 DEF Crash, Count, Mark, IdleWorker, IdleCron, IdleEdit, ReplyInv
<1>8. CASE UNCHANGED vars
  BY <1>8 DEF vars, ReplyInv
<1>9. ASSUME \/ Connect \/ Disconnect \/ FindConnection \/ AddPoll
              \/ PromoteJob \/ TakeJob \/ CompleteJob \/ RestartStalledJob
              \/ ReadToken
              \/ UpsertThread \/ (\E m \in Messages : InsertMessage(m))
              \/ CloseThread \/ MarkSynced \/ PollFails \/ RethrowError
              \/ BeginEdit \/ SaveThread \/ Tick
       PROVE  ReplyInv'
  BY <1>9 DEF Connect, Count, connFrame, Disconnect, FindConnection,
     cronFrame, Since, Mark, AddPoll, NoJob, IdleCron, PromoteJob, queueFrame,
     TakeJob, IdleWorker, CompleteJob, RestartStalledJob, ReadToken, pollFrame,
     Goto, UpsertThread, InsertMessage, IsNew,
     CloseThread, MarkSynced, PollFails, RethrowError, TriesLeft, BeginEdit,
     apiFrame, SaveThread, IdleEdit, Tick, ReplyInv
<1>20. ASSUME Fetch PROVE ReplyInv'
  BY <1>20, Fetching DEF FetchFrame, pollFrame, ReplyInv
<1> QED
  BY <1>1, <1>2, <1>3, <1>4, <1>5, <1>6, <1>7, <1>8, <1>9, <1>20 DEF Next, Poll, Fetch, SendReply

LEMMA ReplyKeptStep == IInv /\ [Next]_vars => ReplyKept'
<1> SUFFICES ASSUME IInv, [Next]_vars PROVE ReplyKept'
  OBVIOUS
<1> USE Numbers, Records DEF IInv, TypeOK, Messages
<1>1. ASSUME NEW m \in Inbound, Write(m) PROVE ReplyKept'
  BY <1>1, MessagesAssumption DEF Write, FetchedPcs, ReplyInv, ReplyKept
<1>2. ASSUME NEW m \in Messages, InsertMessage(m) PROVE ReplyKept'
  BY <1>2 DEF InsertMessage, pollFrame, IsNew, ReplyInv, ReplyKept
<1>3. ASSUME NEW r \in Replies, BeginReply(r) PROVE ReplyKept'
  BY <1>3 DEF BeginReply, apiFrame, SetReply, ReplyInv, ReplyKept
<1>4. ASSUME NEW r \in Replies, SendToPlatform(r) PROVE ReplyKept'
  BY <1>4 DEF SendToPlatform, apiFrame, SetReply, ReplyInv, ReplyKept
<1>5. ASSUME NEW r \in Replies, SaveReply(r) PROVE ReplyKept'
  BY <1>5 DEF SaveReply, apiFrame, SetReply, ReplyInv, ReplyKept
<1>6. CASE UNCHANGED vars
  BY <1>6 DEF vars, ReplyInv, ReplyKept
<1>7. ASSUME \/ Connect \/ Disconnect \/ FindConnection \/ AddPoll
              \/ PromoteJob \/ TakeJob \/ CompleteJob \/ RestartStalledJob
              \/ ReadToken
              \/ UpsertThread \/ CloseThread \/ MarkSynced \/ PollFails
              \/ RethrowError \/ (\E r \in Replies : BumpThread(r))
              \/ (\E r \in Replies : ReplyFails(r)) \/ BeginEdit
              \/ SaveThread \/ Crash \/ Tick
       PROVE  ReplyKept'
  BY <1>7 DEF Connect, Count, connFrame, Disconnect, FindConnection,
     cronFrame, Since, Mark, AddPoll, NoJob, IdleCron, PromoteJob, queueFrame,
     TakeJob, IdleWorker, CompleteJob, RestartStalledJob, ReadToken, pollFrame,
     Goto, UpsertThread, CloseThread, MarkSynced,
     PollFails, RethrowError, TriesLeft, BumpThread, apiFrame, SetReply, ReplyFails,
     BeginEdit, SaveThread, IdleEdit, Crash, Tick, ReplyInv, ReplyKept
<1>20. ASSUME Fetch PROVE ReplyKept'
  BY <1>20, Fetching DEF FetchFrame, pollFrame, ReplyKept
<1> QED
  BY <1>1, <1>2, <1>3, <1>4, <1>5, <1>6, <1>7, <1>20 DEF Next, Poll, Fetch, SendReply

LEMMA FreshStep == IInv /\ [Next]_vars => FreshInv'
<1> SUFFICES ASSUME IInv, [Next]_vars PROVE FreshInv'
  OBVIOUS
<1> USE Numbers, Records DEF IInv, TypeOK, Messages
<1>1. ASSUME TakeJob PROVE FreshInv'
  BY <1>1 DEF TakeJob, queueFrame, IdleWorker, WorkerStates, FreshInv, TodoInv
<1>2. ASSUME CompleteJob PROVE FreshInv'
  BY <1>2 DEF CompleteJob, queueFrame, NoJob, IdleWorker, WorkerStates, FreshInv,
     TodoInv
<1>3. ASSUME ReadToken PROVE FreshInv'
  BY <1>3 DEF ReadToken, pollFrame, Goto, WorkerStates, FreshInv, TodoInv
<1>4. ASSUME Fetch PROVE FreshInv'
  <2>1. worker.fresh = {} /\ worker'.fresh = {} /\ UNCHANGED <<rows, announced>>
    BY <1>4, Fetching DEF FetchFrame, pollFrame, Taken, FreshInv
  <2> QED
    BY <2>1 DEF FreshInv
<1>6. ASSUME UpsertThread PROVE FreshInv'
  BY <1>6 DEF UpsertThread, pollFrame, Goto, WorkerStates, FreshInv, TodoInv
<1>7. ASSUME NEW m \in Messages, InsertMessage(m) PROVE FreshInv'
  BY <1>7 DEF InsertMessage, pollFrame, IsNew, WorkerStates, FreshInv, TodoInv
<1>8. ASSUME CloseThread PROVE FreshInv'
  BY <1>8 DEF CloseThread, pollFrame, IdleWorker, WorkerStates, FreshInv, TodoInv
<1>9. ASSUME MarkSynced PROVE FreshInv'
  BY <1>9 DEF MarkSynced, pollFrame, Goto, WorkerStates, FreshInv, TodoInv
<1>10. ASSUME PollFails PROVE FreshInv'
  BY <1>10 DEF PollFails, pollFrame, IdleWorker, Count, WorkerStates, FreshInv, TodoInv
<1>11. ASSUME RethrowError PROVE FreshInv'
  BY <1>11 DEF RethrowError, Count, Mark, IdleWorker, TriesLeft, WorkerStates,
     FreshInv, TodoInv
<1>12. ASSUME NEW r \in Replies, SaveReply(r) PROVE FreshInv'
  BY <1>12, MessagesAssumption DEF SaveReply, apiFrame, SetReply, FreshInv, TodoInv
<1>13. ASSUME Crash PROVE FreshInv'
  BY <1>13 DEF Crash, Count, Mark, IdleWorker, IdleCron, IdleEdit, WorkerStates,
     FreshInv, TodoInv
<1>14. CASE UNCHANGED vars
  BY <1>14 DEF vars, FreshInv, TodoInv
<1>15. ASSUME \/ Connect \/ Disconnect \/ (\E m \in Inbound : Write(m))
              \/ FindConnection \/ AddPoll \/ PromoteJob
              \/ RestartStalledJob \/ (\E r \in Replies : BeginReply(r))
              \/ (\E r \in Replies : SendToPlatform(r))
              \/ (\E r \in Replies : BumpThread(r))
              \/ (\E r \in Replies : ReplyFails(r)) \/ BeginEdit
              \/ SaveThread \/ Tick
       PROVE  FreshInv'
  BY <1>15 DEF Connect, Count, connFrame, Disconnect, Write, FetchedPcs,
     FindConnection, cronFrame, Since, Mark, AddPoll, NoJob, IdleCron, PromoteJob,
     queueFrame, RestartStalledJob, BeginReply, apiFrame, SetReply, SendToPlatform,
     BumpThread, ReplyFails, BeginEdit, SaveThread, IdleEdit, Tick, WorkerStates,
     FreshInv, TodoInv
<1> QED
  BY <1>1, <1>2, <1>3, <1>4, <1>6, <1>7, <1>8, <1>9, <1>10, <1>11, <1>12,
     <1>13, <1>14, <1>15 DEF Next, Poll, Fetch, SendReply

LEMMA DueStep == IInv /\ [Next]_vars => DueInv'
<1> SUFFICES ASSUME IInv, [Next]_vars PROVE DueInv'
  OBVIOUS
<1> USE Numbers, Records DEF IInv, TypeOK, Messages
<1>1. ASSUME Connect PROVE DueInv'
  BY <1>1 DEF Connect, Count, connFrame, ConnStates, DueInv, Owed, Passes, TimesInv, JobInv,
     TodoInv
<1>2. ASSUME Disconnect PROVE DueInv'
  BY <1>2 DEF Disconnect, Count, connFrame, ConnStates, DueInv, Owed, Passes,
     TimesInv, JobInv, TodoInv
<1>3. ASSUME NEW m \in Inbound, Write(m) PROVE DueInv'
  <2>1. /\ sent' = [sent EXCEPT ![m] = Stamp] /\ Stamp # 0 /\ sent[m] = 0
        /\ due' = IF InSight(Stamp) THEN due \cup {m} ELSE due
        /\ UNCHANGED <<conn, job, cron, worker, rows, marks>>
    BY <1>3, StampOK DEF Write
  <2>2. m \notin due /\ \A p \in due : sent'[p] = sent[p] /\ sent[p] # 0
    BY <2>1 DEF DueInv
  <2>3. \A p \in due : rows[p] = 0 /\ Owed(p) => Owed(p)'
    BY <2>1, <2>2 DEF Owed, Passes
  <2>4. sent'[m] = Stamp
    BY <2>1
  <2>5. InSight(Stamp) => Owed(m)'
    BY <2>1, <2>4 DEF InSight, Owed, Passes, FetchedPcs
  <2> QED
    BY <2>1, <2>2, <2>3, <2>4, <2>5 DEF DueInv
<1>4. ASSUME FindConnection PROVE DueInv'
  <2>1. CASE conn.synced = 0 /\ \E m \in due : ~Passes(sent[m], Since(0))
    BY <1>4, <2>1 DEF FindConnection, cronFrame, Mark, DueInv
  <2>2. CASE ~(conn.synced = 0 /\ \E m \in due : ~Passes(sent[m], Since(0)))
    <3>1. /\ marks' = marks /\ cron' = [pc |-> "add", since |-> Since(conn.synced)]
          /\ UNCHANGED <<conn, job, worker, sent, rows, due>>
      BY <1>4, <2>2 DEF FindConnection, cronFrame
    <3>2. ASSUME NEW m \in due, Passes(sent[m], conn.synced)
          PROVE  Passes(sent[m], cron'.since)
      <4>1. CASE conn.synced = 0
        BY <2>2, <3>1, <4>1
      <4>2. CASE conn.synced # 0
        BY <3>1, <3>2, <4>2 DEF Since
      <4> QED
        BY <4>1, <4>2
    <3> QED
      BY <3>1, <3>2 DEF DueInv, Owed, Passes
  <2> QED
    BY <2>1, <2>2
<1>5. ASSUME AddPoll PROVE DueInv'
  BY <1>5 DEF AddPoll, cronFrame, NoJob, IdleCron, JobStates, CronStates, DueInv,
     Owed, Passes, TimesInv, JobInv, TodoInv
<1>6. ASSUME PromoteJob PROVE DueInv'
  BY <1>6 DEF PromoteJob, queueFrame, JobStates, DueInv, Owed, Passes, TimesInv, JobInv,
     TodoInv
<1>7. ASSUME TakeJob PROVE DueInv'
  BY <1>7 DEF TakeJob, queueFrame, IdleWorker, JobStates, WorkerStates, DueInv,
     Owed, Passes, TimesInv, JobInv, TodoInv
<1>8. ASSUME CompleteJob PROVE DueInv'
  BY <1>8 DEF CompleteJob, queueFrame, NoJob, IdleWorker, JobStates, WorkerStates,
     DueInv, Owed, Passes, TimesInv, JobInv, TodoInv
<1>9. ASSUME RestartStalledJob PROVE DueInv'
  BY <1>9 DEF RestartStalledJob, queueFrame, JobStates, WorkerStates, DueInv, Owed, Passes,
     TimesInv, JobInv, TodoInv
<1>10. ASSUME ReadToken PROVE DueInv'
  BY <1>10 DEF ReadToken, pollFrame, Goto, WorkerStates, DueInv, Owed, Passes, TimesInv,
     JobInv, TodoInv
<1>11. ASSUME Fetch PROVE DueInv'
  <2>1. worker.pc = "fetch" /\ UNCHANGED <<conn, cron, job, sent, rows, due>>
    BY <1>11, Fetching DEF FetchFrame, pollFrame
  <2>2. CASE "blind" \in marks'
    BY <2>1, <2>2 DEF DueInv
  <2>3. CASE "blind" \notin marks'
    <3>1. /\ "blind" \notin marks
          /\ Recent = {} \/ (worker'.pc = "thread" /\ Recent \subseteq worker'.todo)
      BY <1>11, <2>3, Fetching
    <3>2. ASSUME NEW m \in due, rows[m] = 0 PROVE m \in Recent /\ Owed(m)
      BY <2>1, <3>1, <3>2 DEF DueInv, Owed, JobInv, Recent
    <3>3. ASSUME NEW m \in due', rows'[m] = 0 PROVE Owed(m)'
      BY <2>1, <3>1, <3>2, <3>3 DEF Owed, Passes
    <3>4. \A m \in due' : sent'[m] # 0
      BY <2>1 DEF DueInv
    <3> QED
      BY <3>3, <3>4 DEF DueInv
  <2> QED
    BY <2>2, <2>3
<1>13. ASSUME UpsertThread PROVE DueInv'
  BY <1>13 DEF UpsertThread, pollFrame, Goto, WorkerStates, DueInv, Owed, Passes, TimesInv,
     JobInv, TodoInv
<1>14. ASSUME NEW m \in Messages, InsertMessage(m) PROVE DueInv'
  BY <1>14 DEF InsertMessage, pollFrame, IsNew, WorkerStates, DueInv, Owed, Passes,
     TimesInv, JobInv, TodoInv
<1>15. ASSUME CloseThread PROVE DueInv'
  BY <1>15 DEF CloseThread, pollFrame, IdleWorker, WorkerStates, DueInv, Owed, Passes, TimesInv, JobInv,
     TodoInv
<1>16. ASSUME MarkSynced PROVE DueInv'
  BY <1>16 DEF MarkSynced, pollFrame, Goto, ConnStates, WorkerStates, DueInv, Owed, Passes,
     TimesInv, JobInv, TodoInv
<1>17. ASSUME PollFails PROVE DueInv'
  BY <1>17 DEF PollFails, pollFrame, IdleWorker, Count, WorkerStates, DueInv, Owed, Passes,
     TimesInv, JobInv, TodoInv
<1>18. ASSUME RethrowError PROVE DueInv'
  <2>1. /\ worker.pc = "failed" /\ worker' = IdleWorker
        /\ conn'.synced = conn.synced /\ conn'.platform = conn.platform
        /\ marks' = marks \cup {"broken"} /\ UNCHANGED <<cron, sent, rows, due>>
    BY <1>18 DEF RethrowError, Mark, ConnStates
  <2>2. job'.state = "failed" \/ (job'.since = job.since /\ job.state = "active")
    BY <1>18 DEF RethrowError, JobStates, JobInv
  <2>3. \A m \in due : Owed(m) => Owed(m)'
    BY <2>1, <2>2 DEF Owed, Passes, IdleWorker
  <2> QED
    BY <2>1, <2>3 DEF DueInv
<1>19. ASSUME NEW r \in Replies, SendToPlatform(r) PROVE DueInv'
  <2>1. sent[r] = 0 /\ UNCHANGED <<conn, cron, job, worker, rows, due, marks>>
    BY <1>19 DEF SendToPlatform, apiFrame, ReplyInv
  <2>2. \A m \in due : sent'[m] = sent[m]
    BY <1>19, <2>1 DEF SendToPlatform, DueInv
  <2>3. \A m \in due : Owed(m) => Owed(m)'
    BY <2>1, <2>2 DEF Owed, Passes
  <2> QED
    BY <2>1, <2>2, <2>3 DEF DueInv
<1>20. ASSUME NEW r \in Replies, SaveReply(r) PROVE DueInv'
  BY <1>20 DEF SaveReply, apiFrame, SetReply, DueInv, Owed, Passes, TimesInv, JobInv,
     TodoInv
<1>21. ASSUME SaveThread PROVE DueInv'
  BY <1>21 DEF SaveThread, apiFrame, Mark, IdleEdit, WorkerStates, EditStates,
     DueInv, Owed, Passes, TimesInv, JobInv, TodoInv
<1>22. ASSUME Crash PROVE DueInv'
  BY <1>22 DEF Crash, Count, Mark, IdleWorker, IdleCron, IdleEdit, WorkerStates,
     DueInv, Owed, Passes, TimesInv, JobInv, TodoInv
<1>23. CASE UNCHANGED vars
  BY <1>23 DEF vars, DueInv, Owed, Passes, TimesInv, JobInv, TodoInv
<1>24. ASSUME \/ (\E r \in Replies : BeginReply(r))
              \/ (\E r \in Replies : BumpThread(r))
              \/ (\E r \in Replies : ReplyFails(r)) \/ BeginEdit \/ Tick
       PROVE  DueInv'
  BY <1>24 DEF BeginReply, apiFrame, SetReply, BumpThread, ReplyFails, Count,
     BeginEdit, Tick, ConnStates, JobStates, CronStates, WorkerStates, EditStates,
     DueInv, Owed, Passes, TimesInv, JobInv, TodoInv
<1> QED
  BY <1>1, <1>2, <1>3, <1>4, <1>5, <1>6, <1>7, <1>8, <1>9, <1>10, <1>11, 
     <1>13, <1>14, <1>15, <1>16, <1>17, <1>18, <1>19, <1>20, <1>21, <1>22, <1>23,
     <1>24 DEF Next, Poll, Fetch, SendReply

LEMMA AnnouncedStep == IInv /\ [Next]_vars => AnnouncedOnce'
<1> SUFFICES ASSUME IInv, [Next]_vars PROVE AnnouncedOnce'
  OBVIOUS
<1> USE Numbers, Records DEF IInv, TypeOK, Messages
<1>1. ASSUME FindConnection PROVE AnnouncedOnce'
  BY <1>1 DEF FindConnection, cronFrame, Since, Mark, AnnouncedOnce, FreshInv,
     TodoInv
<1>2. ASSUME TakeJob PROVE AnnouncedOnce'
  BY <1>2 DEF TakeJob, queueFrame, IdleWorker, WorkerStates, AnnouncedOnce,
     FreshInv, TodoInv
<1>3. ASSUME CompleteJob PROVE AnnouncedOnce'
  BY <1>3 DEF CompleteJob, queueFrame, NoJob, IdleWorker, WorkerStates,
     AnnouncedOnce, FreshInv, TodoInv
<1>4. ASSUME ReadToken PROVE AnnouncedOnce'
  BY <1>4 DEF ReadToken, pollFrame, Goto, WorkerStates, AnnouncedOnce, FreshInv,
     TodoInv
<1>5. ASSUME Fetch PROVE AnnouncedOnce'
  <2>1. /\ worker.pc = "fetch" /\ worker.fresh = {} /\ UNCHANGED <<rows, announced>>
        /\ marks \subseteq marks'
    BY <1>5, Fetching DEF FetchFrame, FreshInv
  <2> QED
    BY <2>1 DEF AnnouncedOnce
<1>7. ASSUME UpsertThread PROVE AnnouncedOnce'
  BY <1>7 DEF UpsertThread, pollFrame, Goto, WorkerStates, AnnouncedOnce, FreshInv,
     TodoInv
<1>8. ASSUME NEW m \in Messages, InsertMessage(m) PROVE AnnouncedOnce'
  BY <1>8 DEF InsertMessage, pollFrame, IsNew, WorkerStates, AnnouncedOnce,
     FreshInv, TodoInv
<1>9. ASSUME CloseThread PROVE AnnouncedOnce'
  BY <1>9 DEF CloseThread, pollFrame, IdleWorker, WorkerStates, AnnouncedOnce, FreshInv, TodoInv
<1>10. ASSUME MarkSynced PROVE AnnouncedOnce'
  BY <1>10 DEF MarkSynced, pollFrame, Goto, WorkerStates, AnnouncedOnce, FreshInv,
     TodoInv
<1>11. ASSUME PollFails PROVE AnnouncedOnce'
  BY <1>11 DEF PollFails, pollFrame, IdleWorker, Count, WorkerStates, AnnouncedOnce,
     FreshInv, TodoInv
<1>12. ASSUME RethrowError PROVE AnnouncedOnce'
  BY <1>12 DEF RethrowError, Count, Mark, IdleWorker, TriesLeft, WorkerStates,
     AnnouncedOnce, FreshInv, TodoInv
<1>13. ASSUME NEW r \in Replies, SaveReply(r) PROVE AnnouncedOnce'
  <2>1. \A m \in Inbound : rows'[m] = rows[m]
    BY <1>13, MessagesAssumption DEF SaveReply
  <2> QED
    BY <1>13, <2>1 DEF SaveReply, apiFrame, AnnouncedOnce
<1>14. ASSUME SaveThread PROVE AnnouncedOnce'
  BY <1>14 DEF SaveThread, apiFrame, Mark, IdleEdit, WorkerStates, AnnouncedOnce,
     FreshInv, TodoInv
<1>15. ASSUME Crash PROVE AnnouncedOnce'
  BY <1>15 DEF Crash, Count, Mark, IdleWorker, IdleCron, IdleEdit, WorkerStates,
     AnnouncedOnce, FreshInv, TodoInv
<1>16. CASE UNCHANGED vars
  BY <1>16 DEF vars, AnnouncedOnce, FreshInv, TodoInv
<1>17. ASSUME \/ Connect \/ Disconnect \/ (\E m \in Inbound : Write(m))
              \/ AddPoll \/ PromoteJob \/ RestartStalledJob
              \/ (\E r \in Replies : BeginReply(r))
              \/ (\E r \in Replies : SendToPlatform(r))
              \/ (\E r \in Replies : BumpThread(r))
              \/ (\E r \in Replies : ReplyFails(r)) \/ BeginEdit \/ Tick
       PROVE  AnnouncedOnce'
  BY <1>17 DEF Connect, Count, connFrame, Disconnect, Write, FetchedPcs,
     AddPoll, cronFrame, NoJob, IdleCron, PromoteJob, queueFrame, RestartStalledJob,
     BeginReply, apiFrame, SetReply, SendToPlatform, BumpThread, ReplyFails,
     BeginEdit, Tick, WorkerStates, AnnouncedOnce, FreshInv, TodoInv
<1> QED
  BY <1>1, <1>2, <1>3, <1>4, <1>5, <1>7, <1>8, <1>9, <1>10, <1>11, <1>12,
     <1>13, <1>14, <1>15, <1>16, <1>17 DEF Next, Poll, Fetch, SendReply

LEMMA LastStep == IInv /\ [Next]_vars => LastCoversRows'
<1> SUFFICES ASSUME IInv, [Next]_vars PROVE LastCoversRows'
  OBVIOUS
<1> USE Numbers, Records DEF IInv, TypeOK, Messages
<1>1. ASSUME FindConnection PROVE LastCoversRows'
  BY <1>1 DEF FindConnection, cronFrame, Since, Mark, LastCoversRows, TodoInv,
     TimesInv
<1>2. ASSUME Fetch PROVE LastCoversRows'
  <2>1. UNCHANGED <<rows, last>> /\ marks \subseteq marks'
    BY <1>2, Fetching DEF FetchFrame
  <2> QED
    BY <2>1 DEF LastCoversRows
<1>3. ASSUME UpsertThread PROVE LastCoversRows'
  <2>1. last <= last' /\ last' \in Times
    BY <1>3 DEF UpsertThread, Later, WorkerStates
  <2>2. rows' = rows /\ marks' = marks
    BY <1>3 DEF UpsertThread
  <2>3. ASSUME NEW m \in Messages, rows[m] <= last PROVE rows[m] <= last'
    <3>1. rows[m] \in Nat /\ last \in Nat /\ last' \in Nat
      BY <2>1, AreNumbers
    <3> QED
      BY <2>1, <2>3, <3>1
  <2> QED
    BY <2>2, <2>3 DEF LastCoversRows
<1>4. ASSUME NEW m \in Messages, InsertMessage(m) PROVE LastCoversRows'
  BY <1>4 DEF InsertMessage, pollFrame, IsNew, WorkerStates, LastCoversRows,
     TodoInv, TimesInv
<1>5. ASSUME CloseThread PROVE LastCoversRows'
  BY <1>5, NewestRow DEF CloseThread, LastCoversRows
<1>6. ASSUME RethrowError PROVE LastCoversRows'
  BY <1>6 DEF RethrowError, Count, Mark, IdleWorker, TriesLeft, WorkerStates,
     LastCoversRows, TodoInv, TimesInv
<1>7. ASSUME NEW r \in Replies, SaveReply(r) PROVE LastCoversRows'
  <2>1. \A m \in Inbound : rows'[m] = rows[m]
    BY <1>7, MessagesAssumption DEF SaveReply
  <2> QED
    BY <1>7, <2>1 DEF SaveReply, apiFrame, LastCoversRows
<1>8. ASSUME NEW r \in Replies, BumpThread(r) PROVE LastCoversRows'
  BY <1>8 DEF BumpThread, apiFrame, SetReply, WorkerStates, LastCoversRows, TodoInv,
     TimesInv
<1>9. ASSUME SaveThread PROVE LastCoversRows'
  <2>1. rows' = rows /\ last' = edit.copy
    BY <1>9 DEF SaveThread, apiFrame
  <2>2. "overwritten" \in marks' \/ (marks' = marks /\ last <= last')
    BY <1>9, <2>1, AreNumbers DEF SaveThread, Mark
  <2> QED
    BY <2>1, <2>2, AreNumbers DEF LastCoversRows
<1>10. ASSUME Crash PROVE LastCoversRows'
  BY <1>10 DEF Crash, Count, Mark, IdleWorker, IdleCron, IdleEdit, WorkerStates,
     LastCoversRows, TodoInv, TimesInv
<1>11. CASE UNCHANGED vars
  BY <1>11 DEF vars, LastCoversRows, TodoInv, TimesInv
<1>12. ASSUME \/ Connect \/ Disconnect \/ (\E m \in Inbound : Write(m))
              \/ AddPoll \/ PromoteJob \/ TakeJob \/ CompleteJob
              \/ RestartStalledJob \/ ReadToken
              \/ MarkSynced \/ PollFails
              \/ (\E r \in Replies : BeginReply(r))
              \/ (\E r \in Replies : SendToPlatform(r))
              \/ (\E r \in Replies : ReplyFails(r)) \/ BeginEdit \/ Tick
       PROVE  LastCoversRows'
  BY <1>12 DEF Connect, Count, connFrame, Disconnect, Write, FetchedPcs,
     AddPoll, cronFrame, NoJob, IdleCron, PromoteJob, queueFrame, TakeJob,
     IdleWorker, CompleteJob, RestartStalledJob, ReadToken, pollFrame, Goto,
     MarkSynced, PollFails, BeginReply, apiFrame, SetReply,
     SendToPlatform, ReplyFails, BeginEdit, Tick, WorkerStates, LastCoversRows,
     TodoInv, TimesInv
<1> QED
  BY <1>1, <1>2, <1>3, <1>4, <1>5, <1>6, <1>7, <1>8, <1>9, <1>10, <1>11, <1>12 DEF Next, Poll, Fetch, SendReply

LEMMA StepIInv == IInv /\ [Next]_vars => IInv'
  BY TypeStep, TimesStep, JobStep, TodoStep, ReplyStep, ReplyKeptStep, FreshStep,
     DueStep, AnnouncedStep, LastStep DEF IInv

-----------------------------------------------------------------------------
(* The theorems *)

\* The inductive invariant of the poll, the replies and the queue.
THEOREM InboxInvariant == Spec => []IInv
<1>1. Init => IInv
  BY InitIInv
<1>2. IInv /\ [Next]_vars => IInv'
  BY StepIInv
<1> QED
  BY <1>1, <1>2, PTL DEF Spec

\* Every reachable state is well typed.
THEOREM InboxTypeCorrect == Spec => []TypeOK
<1>1. IInv => TypeOK
  BY DEF IInv
<1> QED
  BY <1>1, InboxInvariant, PTL

\* last_synced_at never moves past a message that is still missing.
THEOREM InboxSkipsNothing == Spec => []NoGap
<1>1. IInv => NoGap
  BY DEF IInv, DueInv, Owed, NoGap
<1> QED
  BY <1>1, InboxInvariant, PTL

\* No message is announced twice; one that is stored and not announced will be,
\* or its poll threw or died.
THEOREM InboxAnnouncesOnce == Spec => []AnnouncedOnce
<1>1. IInv => AnnouncedOnce
  BY DEF IInv
<1> QED
  BY <1>1, InboxInvariant, PTL

\* last_message_at is never older than a stored message.
THEOREM InboxCoversRows == Spec => []LastCoversRows
<1>1. IInv => LastCoversRows
  BY DEF IInv
<1> QED
  BY <1>1, InboxInvariant, PTL

\* A reply that reached the platform has its row.
THEOREM InboxKeepsReplies == Spec => []ReplyKept
<1>1. IInv => ReplyKept
  BY DEF IInv
<1> QED
  BY <1>1, InboxInvariant, PTL
=============================================================================
