-------------------------------- MODULE Inbox --------------------------------
(***************************************************************************)
(* One platform connection and one thread of its inbox: the cron job and   *)
(* the Bull job of InboxPollProcessor, the replies and thread edits of     *)
(* OpsInboxService, and the connect and disconnect of                      *)
(* OpsConnectionsService.  Connections share nothing but the cron loop and *)
(* threads nothing but the poll, so one of each is enough.                 *)
(*                                                                         *)
(* The platform, Bull and the clients are modelled from how the code uses  *)
(* them.  Every await is a point where the others may step.                *)
(***************************************************************************)
EXTENDS Naturals, FiniteSets, FiniteSetsExt

CONSTANTS
    Inbound,     \* messages that contacts write
    Replies,     \* calls of POST threads/:id/reply
    Lookback,    \* reach of a first poll, in clock ticks (24 hours)
    WholeSecond, \* WholeSecond[t]: the last whole second at or before t
    MaxTime,     \* bound: the clock stops here
    MaxEvents    \* bound: edits of the thread, connects, disconnects, process
                 \* crashes, and failed database or platform calls, together

ASSUME MessagesAssumption == Inbound \cap Replies = {}
ASSUME BoundsAssumption ==
    Lookback \in Nat /\ MaxTime \in Nat \ {0} /\ MaxEvents \in Nat

Times == 0..MaxTime

ASSUME SecondsAssumption ==
    /\ WholeSecond \in [Times -> Times]
    /\ \A t \in Times : WholeSecond[t] <= t /\ (WholeSecond[t] = 0 => t = 0)

VARIABLES
    conn,        \* the platform_connections row: platform, status,
                 \* last_synced_at (0 NULL)
    job,         \* the Bull job of the connection
    cron,        \* enqueueAll
    worker,      \* handlePoll
    sent,        \* sent[m]: when message m came, as the platform tells it (0: not yet)
    rows,        \* rows[m]: created_at of the row with m's platform id (0: none)
    pending,     \* pending[r]: created_at of the row with r's pending id
    last,        \* last_message_at of the thread (0: no row)
    reply,       \* reply[r]: sendReply
    edit,        \* updateThread
    announced,   \* announced[m]: notifications that counted m
    now,         \* the clock
    due,         \* messages that reached a connected inbox outside a poll
    marks,       \* what has happened (see Marks)
    events       \* events so far (see MaxEvents)

vars == <<conn, job, cron, worker, sent, rows, pending, last, reply, edit,
          announced, now, due, marks, events>>

\* An edit wrote back an older last_message_at; a poll left messages out, since
\* an adapter could not read them, they were not on a first page, or they were
\* older than the reach of a first poll; a poll threw or the process crashed.
Marks == {"overwritten", "blind", "broken"}

Messages == Inbound \cup Replies

\* Facebook and Instagram, whose adapters are the same here.
Platforms == {"meta", "linkedin", "tiktok"}

Attempts == 3
MaxStalls == 1

NoJob == [state |-> "none", since |-> 0, tries |-> 0, stalls |-> 0]
\* What it was to do and how often it was tried is read no more.
FailedJob == [NoJob EXCEPT !.state = "failed"]
IdleCron == [pc |-> "idle", since |-> 0]
IdleWorker == [pc |-> "idle", todo |-> {}, fresh |-> {}, newest |-> 0]
IdleEdit == [pc |-> "idle", copy |-> 0]

ConnStates == [platform : Platforms, status : {"absent", "active", "error"},
               synced : Times]
JobStates == [state : {"none", "delayed", "waiting", "active", "failed"},
              since : Times, tries : 0..Attempts - 1, stalls : 0..MaxStalls]
CronStates == [pc : {"idle", "add"}, since : Times]
WorkerStates == [pc : {"idle", "token", "fetch", "thread", "insert", "close",
                       "sync", "failed", "done"},
                 todo : SUBSET Messages, fresh : SUBSET Inbound, newest : Times]
EditStates == [pc : {"idle", "save"}, copy : Times]

TypeOK ==
    /\ conn \in ConnStates /\ job \in JobStates /\ cron \in CronStates
    /\ worker \in WorkerStates /\ edit \in EditStates
    /\ sent \in [Messages -> Times]
    /\ rows \in [Messages -> Times]
    /\ pending \in [Replies -> Times]
    /\ last \in Times
    /\ reply \in [Replies -> {"idle", "platform", "save", "bump", "ended"}]
    /\ announced \in [Inbound -> 0..1]
    /\ now \in 1..MaxTime
    /\ due \subseteq Inbound /\ marks \subseteq Marks
    /\ events \in 0..MaxEvents

\* The connection has just been made.
Init ==
    /\ conn \in [platform : Platforms, status : {"active"}, synced : {0}]
    /\ job = NoJob
    /\ cron = IdleCron
    /\ worker = IdleWorker
    /\ sent = [m \in Messages |-> 0]
    /\ rows = [m \in Messages |-> 0]
    /\ pending = [r \in Replies |-> 0]
    /\ last = 0
    /\ reply = [r \in Replies |-> "idle"]
    /\ edit = IdleEdit
    /\ announced = [m \in Inbound |-> 0]
    /\ now = 1
    /\ due = {} /\ marks = {}
    /\ events = 0

Count == events < MaxEvents /\ events' = events + 1
Mark(name) == marks' = marks \cup {name}

-----------------------------------------------------------------------------
(* The connection *)

connFrame == <<job, cron, worker, sent, rows, pending, last, reply, edit,
               announced, now, marks>>

\* upsertConnection: a reconnect keeps last_synced_at.
Connect ==
    /\ conn.status # "active"
    /\ Count
    /\ conn' = [conn EXCEPT !.status = "active"]
    /\ UNCHANGED <<connFrame, due>>

\* disconnect deletes the row and leaves the job in the queue.
Disconnect ==
    /\ conn.status # "absent"
    /\ Count
    /\ conn' = [conn EXCEPT !.status = "absent", !.synced = 0]
    /\ due' = {}
    /\ UNCHANGED connFrame

-----------------------------------------------------------------------------
(* The platform and its contacts *)

\* LinkedIn tells milliseconds, as the clock does; the others whole seconds.
Stamp == IF conn.platform = "linkedin" THEN now ELSE WholeSecond[now]

\* What an adapter takes of what came at t: Meta is asked for everything from the
\* whole second of since on, the others skip what is not after since.
Lets(platform, t, since) ==
    IF platform = "meta" THEN WholeSecond[since] <= t ELSE since < t

Passes(t, since) == Lets(conn.platform, t, since)

\* A poll no longer sees what arrives once it has fetched.
FetchedPcs == {"thread", "insert", "close", "sync", "failed", "done"}

\* Whether the polls that are to come, and the one at hand, can see what came at
\* t: nothing later than last_synced_at is in sight of LinkedIn and TikTok, not
\* even in the second that is running.
InSight(t) ==
    /\ conn.status # "absent" /\ worker.pc \notin FetchedPcs
    /\ Passes(t, conn.synced)
    /\ cron.pc = "add" => Passes(t, cron.since)
    /\ job.state \notin {"none", "failed"} => Passes(t, job.since)

Write(m) ==
    /\ sent[m] = 0
    /\ sent' = [sent EXCEPT ![m] = Stamp]
    /\ due' = IF InSight(Stamp) THEN due \cup {m} ELSE due
    /\ UNCHANGED <<conn, job, cron, worker, rows, pending, last, reply, edit,
                   announced, now, marks, events>>

-----------------------------------------------------------------------------
(* enqueueAll *)

cronFrame == <<conn, worker, sent, rows, pending, last, reply, edit, announced,
               now, due, events>>

\* Mutant: each poll starts from the time of the cron run.
SinceNow(synced) == IF synced = 0 /\ now > Lookback THEN now - Lookback ELSE now

\* From where a poll reads.
Since(synced) ==
    IF synced # 0 THEN synced
    ELSE IF now > Lookback THEN now - Lookback ELSE 0

FindConnection ==
    /\ cron.pc = "idle" /\ conn.status = "active"
    /\ cron' = [pc |-> "add", since |-> Since(conn.synced)]
    /\ IF conn.synced = 0 /\ \E m \in due : ~Passes(sent[m], Since(0))
       THEN Mark("blind") ELSE UNCHANGED marks
    /\ UNCHANGED <<cronFrame, job>>

\* Bull ignores an id it already knows, that of a failed job included.
AddPoll ==
    /\ cron.pc = "add"
    /\ job' = IF job.state = "none"
              THEN [NoJob EXCEPT !.state = "waiting", !.since = cron.since]
              ELSE job
    /\ cron' = IdleCron
    /\ UNCHANGED <<cronFrame, marks>>

-----------------------------------------------------------------------------
(* The queue: Bull on Redis *)

queueFrame == <<conn, cron, sent, rows, pending, last, reply, edit, announced,
                now, due, marks, events>>

PromoteJob ==
    /\ job.state = "delayed"
    /\ job' = [job EXCEPT !.state = "waiting"]
    /\ UNCHANGED <<queueFrame, worker>>

TakeJob ==
    /\ job.state = "waiting" /\ worker.pc = "idle"
    /\ job' = [job EXCEPT !.state = "active"]
    /\ worker' = [IdleWorker EXCEPT !.pc = "token"]
    /\ UNCHANGED queueFrame

CompleteJob ==
    /\ worker.pc = "done"
    /\ job' = NoJob
    /\ worker' = IdleWorker
    /\ UNCHANGED queueFrame

RestartStalledJob ==
    /\ job.state = "active" /\ worker.pc = "idle"
    /\ job' = IF job.stalls < MaxStalls
              THEN [job EXCEPT !.stalls = job.stalls + 1, !.state = "waiting"]
              ELSE FailedJob
    /\ UNCHANGED <<queueFrame, worker>>

TriesLeft == job.tries + 1 < Attempts

-----------------------------------------------------------------------------
(* handlePoll *)

pollFrame == <<job, cron, sent, pending, reply, edit, now, due>>
Goto(pc) == worker' = [worker EXCEPT !.pc = pc]

\* getAccessToken of the adapter wants an active connection.
ReadToken ==
    /\ worker.pc = "token"
    /\ Goto(IF conn.status = "active" THEN "fetch" ELSE "failed")
    /\ UNCHANGED <<pollFrame, conn, rows, last, announced, marks, events>>

Recent == {m \in Messages : sent[m] # 0 /\ Passes(sent[m], job.since)}

\* Meta gives the messages of a thread whatever their age.
Older ==
    {m \in Messages : conn.platform = "meta" /\ sent[m] # 0 /\ ~Passes(sent[m], job.since)}

Newest(messages) == Max({sent[m] : m \in messages})
Take(messages, newest) ==
    worker' = [worker EXCEPT !.pc = "thread", !.todo = messages, !.newest = newest]

\* fetchThreads: the thread when it has news since job.since, with all of them.
FetchThreads ==
    /\ worker.pc = "fetch"
    /\ IF Recent = {} THEN Goto("sync")
       ELSE \E older \in {{}, Older} : Take(Recent \cup older, Newest(Recent))
    /\ UNCHANGED <<pollFrame, conn, rows, last, announced, marks, events>>

\* Only the first page of threads, videos and messages is read: the thread comes
\* with some of its news, or not at all.  TikTok takes its time from those.
FetchFirstPage ==
    /\ worker.pc = "fetch"
    /\ \E page \in SUBSET Recent \ {Recent} :
          IF page = {} THEN Goto("sync")
          ELSE Take(page, Newest(IF conn.platform = "tiktok" THEN page ELSE Recent))
    /\ Count
    /\ Mark("blind")
    /\ UNCHANGED <<pollFrame, conn, rows, last, announced>>

\* The messages of a thread cannot be read and the error is swallowed: LinkedIn
\* goes on without them, TikTok without the thread.
FetchThreadOnly ==
    /\ worker.pc = "fetch" /\ Recent # {}
    /\ \/ conn.platform = "linkedin" /\ Take({}, Newest(Recent))
       \/ conn.platform = "tiktok" /\ Goto("sync")
    /\ Count
    /\ Mark("blind")
    /\ UNCHANGED <<pollFrame, conn, rows, last, announced>>

\* Mutant: the upsert leaves the time to CloseThread.
LaterKept(old, new) == old

\* GREATEST(last_message_at, EXCLUDED.last_message_at).
Later(old, new) == IF new > old THEN new ELSE old

UpsertThread ==
    /\ worker.pc = "thread"
    /\ last' = Later(last, worker.newest)
    /\ worker' = [worker EXCEPT !.pc = IF worker.todo = {} THEN "close" ELSE "insert",
                                !.newest = 0]
    /\ UNCHANGED <<pollFrame, conn, rows, announced, marks, events>>

\* Mutant: every message the poll brought counts as new.
IsNewAlways(m) == m \in Inbound

\* RETURNING gives a row only for a message that was not there.
IsNew(m) == m \in Inbound /\ rows[m] = 0

InsertMessage(m) ==
    /\ worker.pc = "insert" /\ m \in worker.todo
    /\ rows' = IF rows[m] = 0 THEN [rows EXCEPT ![m] = sent[m]] ELSE rows
    /\ worker' = [worker EXCEPT
          !.todo = worker.todo \ {m},
          !.fresh = IF IsNew(m) THEN worker.fresh \cup {m} ELSE worker.fresh,
          !.pc = IF worker.todo = {m} THEN "close" ELSE "insert"]
    /\ UNCHANGED <<pollFrame, conn, last, announced, marks, events>>

RowTimes == {rows[m] : m \in Messages} \cup {pending[r] : r \in Replies}

\* The thread takes the time of its newest row (NULL, here 0, without rows);
\* the notification goes out in the same turn.
CloseThread ==
    /\ worker.pc = "close"
    /\ last' = Max(RowTimes \cup {0})
    /\ announced' = [m \in Inbound |->
          IF m \in worker.fresh THEN announced[m] + 1 ELSE announced[m]]
    /\ worker' = [IdleWorker EXCEPT !.pc = "sync"]
    /\ UNCHANGED <<pollFrame, conn, rows, marks, events>>

\* UPDATE platform_connections: a deleted row stays deleted, one in error
\* becomes active.
MarkSynced ==
    /\ worker.pc = "sync"
    /\ conn' = IF conn.status = "absent" THEN conn
               ELSE [conn EXCEPT !.status = "active", !.synced = now]
    /\ Goto("done")
    /\ UNCHANGED <<pollFrame, rows, last, announced, marks, events>>

\* A query or the platform fails.
PollFails ==
    /\ worker.pc \in {"token", "fetch", "thread", "insert", "close", "sync"}
    /\ Count
    /\ worker' = [IdleWorker EXCEPT !.pc = "failed"]
    /\ UNCHANGED <<pollFrame, conn, rows, last, announced, marks>>

\* The catch block: the connection is marked, or not when that fails too, and
\* the error goes on to Bull.
RethrowError ==
    /\ worker.pc = "failed"
    /\ \/ /\ conn' = IF conn.status = "absent" THEN conn
                     ELSE [conn EXCEPT !.status = "error"]
          /\ UNCHANGED events
       \/ Count /\ UNCHANGED conn
    /\ job' = IF TriesLeft
              THEN [job EXCEPT !.tries = job.tries + 1, !.state = "delayed"]
              ELSE FailedJob
    /\ worker' = IdleWorker
    /\ Mark("broken")
    /\ UNCHANGED <<cron, sent, rows, pending, last, reply, edit, announced, now,
                   due>>

Poll ==
    \/ ReadToken \/ FetchThreads \/ FetchFirstPage \/ FetchThreadOnly
    \/ UpsertThread \/ (\E m \in Messages : InsertMessage(m)) \/ CloseThread
    \/ MarkSynced \/ PollFails \/ RethrowError

-----------------------------------------------------------------------------
(* OpsInboxService: replies and edits *)

apiFrame == <<conn, job, cron, worker, announced, now, due>>
SetReply(r, pc) == reply' = [reply EXCEPT ![r] = pc]

\* Mutant: the row is created but not saved before the platform is called.
BeginReplyUnsaved(r) ==
    /\ reply[r] = "idle" /\ last # 0
    /\ SetReply(r, "platform")
    /\ UNCHANGED <<apiFrame, pending, sent, rows, last, edit, marks, events>>

\* sendReply up to its call of the platform: the row has a pending id.
BeginReply(r) ==
    /\ reply[r] = "idle" /\ last # 0
    /\ pending' = [pending EXCEPT ![r] = now]
    /\ SetReply(r, "platform")
    /\ UNCHANGED <<apiFrame, sent, rows, last, edit, marks, events>>

\* adapter.sendReply: refused, as TikTok always does, delivered, or delivered
\* without an answer.
SendToPlatform(r) ==
    /\ reply[r] = "platform"
    /\ \/ UNCHANGED sent /\ SetReply(r, "ended")
       \/ /\ conn.platform # "tiktok"
          /\ sent' = [sent EXCEPT ![r] = Stamp]
          /\ \E pc \in {"save", "ended"} : SetReply(r, pc)
    /\ UNCHANGED <<apiFrame, pending, rows, last, edit, marks, events>>

\* The row gets the platform's id, unless a poll was faster (unique index).
SaveReply(r) ==
    /\ reply[r] = "save"
    /\ IF rows[r] = 0
       THEN /\ rows' = [rows EXCEPT ![r] = pending[r]]
            /\ pending' = [pending EXCEPT ![r] = 0]
            /\ SetReply(r, "bump")
       ELSE UNCHANGED <<rows, pending>> /\ SetReply(r, "ended")
    /\ UNCHANGED <<apiFrame, sent, last, edit, marks, events>>

BumpThread(r) ==
    /\ reply[r] = "bump"
    /\ last' = now
    /\ SetReply(r, "ended")
    /\ UNCHANGED <<apiFrame, sent, rows, pending, edit, marks, events>>

ReplyFails(r) ==
    /\ reply[r] \in {"save", "bump"}
    /\ Count
    /\ SetReply(r, "ended")
    /\ UNCHANGED <<apiFrame, sent, rows, pending, last, edit, marks>>

SendReply(r) == SendToPlatform(r) \/ SaveReply(r) \/ BumpThread(r)

\* updateThread: the body changes columns the model leaves out, the save
\* writes the whole copy back.
BeginEdit ==
    /\ edit.pc = "idle" /\ last # 0
    /\ Count
    /\ edit' = [pc |-> "save", copy |-> last]
    /\ UNCHANGED <<apiFrame, sent, rows, pending, last, reply, marks>>

SaveThread ==
    /\ edit.pc = "save"
    /\ last' = edit.copy
    /\ IF edit.copy < last THEN Mark("overwritten") ELSE UNCHANGED marks
    /\ edit' = IdleEdit
    /\ UNCHANGED <<apiFrame, sent, rows, pending, reply, events>>

-----------------------------------------------------------------------------
(* The process and its clock *)

Crash ==
    /\ Count
    /\ Mark("broken")
    /\ worker' = IdleWorker
    /\ cron' = IdleCron
    /\ edit' = IdleEdit
    /\ reply' = [r \in Replies |-> IF reply[r] = "idle" THEN "idle" ELSE "ended"]
    /\ UNCHANGED <<conn, job, sent, rows, pending, last, announced, now, due>>

Tick ==
    /\ now < MaxTime
    /\ now' = now + 1
    /\ UNCHANGED <<conn, job, cron, worker, sent, rows, pending, last, reply,
                   edit, announced, due, marks, events>>

Next ==
    \/ Connect \/ Disconnect
    \/ \E m \in Inbound : Write(m)
    \/ FindConnection \/ AddPoll
    \/ PromoteJob \/ TakeJob \/ CompleteJob \/ RestartStalledJob
    \/ Poll
    \/ \E r \in Replies : BeginReply(r) \/ SendReply(r) \/ ReplyFails(r)
    \/ BeginEdit \/ SaveThread
    \/ Crash
    \/ Tick

Spec == Init /\ [][Next]_vars

\* The cron runs for ever, Bull serves the queue, Node runs what it started.
\* Nothing obliges a client, a contact or the clock.
Fairness ==
    /\ WF_vars(FindConnection) /\ WF_vars(AddPoll)
    /\ WF_vars(PromoteJob) /\ WF_vars(TakeJob) /\ WF_vars(CompleteJob)
    /\ WF_vars(RestartStalledJob)
    /\ WF_vars(Poll)

FairSpec == Spec /\ Fairness

-----------------------------------------------------------------------------
(* Properties *)

\* last_synced_at never puts a message out of sight that was in sight when it came
\* (InSight) and is still missing, whatever retries, reconnects and stale jobs do,
\* unless a poll was blind to it.
NoGap ==
    "blind" \in marks \/ \A m \in due : rows[m] = 0 => Passes(sent[m], conn.synced)

\* A new message is announced at most once, over all retries of all polls; it
\* misses its announcement only when its poll threw or its process died.
AnnouncedOnce ==
    \A m \in Inbound :
        /\ announced[m] <= 1
        /\ rows[m] # 0 /\ announced[m] = 0 =>
              \/ m \in worker.fresh
              \/ worker.pc = "failed" \/ "broken" \in marks

\* The list of threads is ordered by last_message_at: it never lags behind a
\* stored message, not even in the middle of a poll, unless an edit put an
\* older time back.
LastCoversRows == "overwritten" \in marks \/ \A m \in Inbound : rows[m] <= last

\* A reply the contact can read never disappears from the thread, wherever
\* the request dies.
ReplyKept ==
    \A r \in Replies : sent[r] # 0 => pending[r] # 0 \/ rows[r] # 0

\* A message that was in sight of the connected inbox when it came is stored in the
\* end, whatever fails or dies on the way, unless the user disconnected or Bull
\* gave the job up, whose id then stands in the way of every later poll, although
\* a comment of enqueueAll has it drop a poll only while the last has not finished.
EveryMessageArrives ==
    \A m \in Inbound :
        m \in due ~>
            (rows[m] # 0 \/ m \notin due \/ "blind" \in marks \/ job.state = "failed")
=============================================================================
