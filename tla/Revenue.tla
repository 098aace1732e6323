------------------------------ MODULE Revenue ------------------------------
(***************************************************************************)
(* What Facebook pages earn: the last part of a profile's sync asks Meta,  *)
(* in windows, by up to six calls each, and writes daily_revenue and then, *)
(* row by row, the snapshots' own revenue; disconnectMeta deletes all of it*)
(* while a sync may be running.  The screens add up one table, the mail's  *)
(* overview the other, for pages that are active, and the sections by team *)
(* join revenue_mappings.                                                  *)
(***************************************************************************)
EXTENDS Reports, Functions, Sequences

CONSTANTS
    Earned,       \* Earned[p][d][label]: what Meta has for page p and day d
    RevenueTeams,
    NoMapping, RevenueUnassigned,
    WindowDays    \* CHUNK_SECS, in days

Labels == {"bonus", "video", "image", "content_monetization"}
ASSUME EarnedAssumption == Earned \in [Facebook -> [Days -> [Labels -> Nat]]]
ASSUME WindowAssumption == WindowDays \in Nat \ {0}
ASSUME MappingAssumption ==
    /\ NoMapping \notin RevenueTeams \cup {RevenueUnassigned}
    /\ RevenueUnassigned \notin RevenueTeams

VARIABLES
    revenues,   \* daily_revenue: revenues[p][d] for the days p has a row of
    team,       \* revenue_mappings: the team of each page
    worker,     \* the one worker of the queue, at its revenue part
    purge,      \* disconnectMeta with deleteData
    stale,      \* rows <<p, d>> that no copy to a snapshot has followed
    overlap,    \* whether a sync and a deletion were ever under way at once
    jobs        \* syncs, deletions and selections so far (see MaxRows)

tables == <<snapshots, posts, active>>
vars == <<tables, revenues, team, worker, purge, stale, overlap, jobs>>

Nothing == [d \in {} |-> 0]
Idle == [pc |-> "idle", page |-> NoMapping, first |-> 0, rows |-> Nothing]

Init ==
    /\ TablesInit
    /\ revenues = [p \in Facebook |-> Nothing]
    /\ team = [p \in Facebook |-> NoMapping]
    /\ worker = Idle /\ purge = "none"
    /\ stale = {} /\ overlap = FALSE /\ jobs = 0

Room == Cardinality(snapshots) + Cardinality(posts) + jobs < MaxRows

-----------------------------------------------------------------------------
(* fetchSegregatedRevenue *)

Buckets == {"bonus", "reel", "photo", "total"}
Typed == {"reel", "photo"}

\* The buckets an amount under this label counts in; text and story are as photo.
BucketsOf(label) ==
    {"total"} \cup CASE label = "bonus" -> {"bonus"}
                     [] label = "video" -> {"reel"}
                     [] label = "image" -> {"photo"}
                     [] label = "content_monetization" -> {}

\* addAmountToBucket, for all amounts of a day.
AddAmounts(amounts) ==
    [b \in Buckets |->
       MapThenSumSet(LAMBDA l : amounts[l], {l \in Labels : b \in BucketsOf(l)})]

\* Three calls ask for the sources, one for the tool, two for no breakdown.
Attempts == <<"post", "get", "insights", "tool", "total", "legacy">>
BySource == {"post", "get", "insights"}

\* The amounts of one day as a call gets them.
Amounts(attempt, p, d) ==
    IF attempt \in BySource THEN Earned[p][d]
    ELSE [l \in Labels |-> IF l = "content_monetization"
                           THEN AddAmounts(Earned[p][d])["total"] ELSE 0]

\* A breakdown has entries only for days with earnings.
Parsed(attempt, p, D) ==
    [d \in {x \in D : attempt \in {"total", "legacy"} \/ \E l \in Labels : Earned[p][x][l] > 0}
       |-> AddAmounts(Amounts(attempt, p, d))]

\* A breakdown that breaks nothing down is passed over.
IsSegregated(rows) == \E d \in DOMAIN rows, b \in Typed : rows[d][b] > 0
Useful(attempt, rows) ==
    DOMAIN rows # {} /\ (attempt \in {"total", "legacy"} \/ IsSegregated(rows))

\* The first useful answer, when the calls in ok succeed and the others fail.
FetchWindow(p, D, ok) ==
    LET useful == {i \in 1..Len(Attempts) :
                     Attempts[i] \in ok /\ Useful(Attempts[i], Parsed(Attempts[i], p, D))}
    IN  IF useful = {} THEN Nothing ELSE Parsed(Attempts[Min(useful)], p, D)

\* Windows begin WindowDays apart, the last one ends today; Meta may answer the
\* day at a boundary in both.
Windows(first) == {w \in first..(LastDay - 1) : (w - first) % WindowDays = 0}
WindowOf(w) == w..(IF w + WindowDays > LastDay THEN LastDay ELSE w + WindowDays)

\* Mutant: a day at a boundary counts twice.
ByDateAdded(answers) ==
    [d \in UNION {DOMAIN answers[w] : w \in DOMAIN answers} |->
       [b \in Buckets |->
          MapThenSumSet(LAMBDA w : answers[w][d][b],
                        {w \in DOMAIN answers : d \in DOMAIN answers[w]})]]

\* One row a day: that of the last window that has the day.
ByDate(answers) ==
    [d \in UNION {DOMAIN answers[w] : w \in DOMAIN answers} |->
       answers[Max({w \in DOMAIN answers : d \in DOMAIN answers[w]})][d]]

\* All results a sync of p from day first may get.
Results ==
    [p \in Facebook |-> [first \in Days |->
       LET of == [w \in Windows(first) |->
                    {FetchWindow(p, WindowOf(w), ok) : ok \in SUBSET {Attempts[i] : i \in 1..Len(Attempts)}}]
       IN  {ByDate(answers) : answers \in
              {a \in [Windows(first) -> UNION {of[w] : w \in Windows(first)}] :
                 \A w \in Windows(first) : a[w] \in of[w]}}]]

-----------------------------------------------------------------------------
(* The worker *)

Purging == purge \notin {"none", "over", "failed"}

BeginRevenue(p, first) ==
    /\ Room /\ jobs' = jobs + 1
    /\ worker.pc = "idle"
    /\ worker' = [pc |-> "mapping", page |-> p, first |-> first, rows |-> Nothing]
    /\ overlap' = (overlap \/ Purging)
    /\ UNCHANGED <<tables, revenues, team, purge, stale>>

\* The page gets its row of revenue_mappings, unless it has one.
EnsureMapping ==
    /\ worker.pc = "mapping"
    /\ team' = [team EXCEPT ![worker.page] = IF @ = NoMapping THEN RevenueUnassigned ELSE @]
    /\ worker' = [worker EXCEPT !.pc = "fetch"]
    /\ UNCHANGED <<tables, revenues, purge, stale, overlap, jobs>>

\* An upsert: a new row replaces the stored one of its day.
Upserted(rows, old) ==
    [d \in DOMAIN rows \cup DOMAIN old |-> IF d \in DOMAIN rows THEN rows[d] ELSE old[d]]

\* The calls, and one upsert of what they brought.
SaveRevenue ==
    LET p == worker.page
    IN  /\ worker.pc = "fetch"
        /\ \E rows \in Results[p][worker.first] :
            /\ revenues' = [revenues EXCEPT ![p] = Upserted(rows, @)]
            /\ worker' = IF rows = Nothing THEN Idle
                         ELSE [worker EXCEPT !.pc = "copy", !.rows = rows]
            /\ stale' = stale \cup {<<p, d>> : d \in DOMAIN rows}
        /\ UNCHANGED <<tables, team, purge, overlap, jobs>>

\* One UPDATE of the day's snapshot, if there is one, with the total fetched.
CopyRevenue ==
    LET p == worker.page
        d == Min(DOMAIN worker.rows)
        left == Restrict(worker.rows, DOMAIN worker.rows \ {d})
    IN  /\ worker.pc = "copy"
        /\ snapshots' = {IF s \in RowsAt(p, d)
                         THEN [s EXCEPT !.revenue = worker.rows[d]["total"]] ELSE s :
                           s \in snapshots}
        /\ stale' = IF RowsAt(p, d) = {} THEN stale ELSE stale \ {<<p, d>>}
        /\ worker' = IF left = Nothing THEN Idle ELSE [worker EXCEPT !.rows = left]
        /\ UNCHANGED <<posts, active, revenues, team, purge, overlap, jobs>>

\* An error here is logged and the sync goes on; a crash ends it.
RevenueFails ==
    /\ worker.pc # "idle"
    /\ worker' = Idle
    /\ UNCHANGED <<tables, revenues, team, purge, stale, overlap, jobs>>

Sync ==
    \/ Room /\ worker.pc = "idle" /\ Grow
       /\ UNCHANGED <<revenues, team, worker, purge, stale, overlap, jobs>>
    \/ \E p \in Facebook, first \in Days : BeginRevenue(p, first)
    \/ EnsureMapping \/ SaveRevenue \/ CopyRevenue \/ RevenueFails

-----------------------------------------------------------------------------
(* Requests *)

\* No team, or an empty one, is stored as RevenueUnassigned.
UpdateMappingTeam(p, t) ==
    /\ team[p] # NoMapping
    /\ team' = [team EXCEPT ![p] = t]
    /\ UNCHANGED <<tables, revenues, worker, purge, stale, overlap, jobs>>

\* The running job stays: a job that is active cannot be removed.
BeginPurge ==
    /\ Room /\ jobs' = jobs + 1
    /\ purge = "none" /\ purge' = "revenue"
    /\ overlap' = (overlap \/ worker.pc # "idle")
    /\ UNCHANGED <<tables, revenues, team, worker, stale>>

DeleteRevenue ==
    /\ purge = "revenue" /\ purge' = "mappings"
    /\ revenues' = [p \in Facebook |-> Nothing]
    /\ UNCHANGED <<tables, team, worker, stale, overlap, jobs>>

DeleteMappings ==
    /\ purge = "mappings" /\ purge' = "snapshots"
    /\ team' = [p \in Facebook |-> NoMapping]
    /\ UNCHANGED <<tables, revenues, worker, stale, overlap, jobs>>

DeleteSnapshots ==
    /\ purge = "snapshots" /\ purge' = "posts"
    /\ snapshots' = {s \in snapshots : s.profile \notin Facebook}
    /\ UNCHANGED <<posts, active, revenues, team, worker, stale, overlap, jobs>>

DeletePosts ==
    /\ purge = "posts" /\ purge' = "profiles"
    /\ posts' = {p \in posts : p.profile \notin Facebook}
    /\ UNCHANGED <<snapshots, active, revenues, team, worker, stale, overlap, jobs>>

DeleteProfiles ==
    /\ purge = "profiles" /\ purge' = "over"
    /\ active' = active \ Facebook
    /\ UNCHANGED <<snapshots, posts, revenues, team, worker, stale, overlap, jobs>>

PurgeFails ==
    /\ Purging /\ purge' = "failed"
    /\ UNCHANGED <<tables, revenues, team, worker, stale, overlap, jobs>>

Request ==
    \/ Room /\ jobs' = jobs + 1 /\ Select
       /\ UNCHANGED <<revenues, team, worker, purge, stale, overlap>>
    \/ \E p \in Facebook, t \in RevenueTeams \cup {RevenueUnassigned} : UpdateMappingTeam(p, t)
    \/ BeginPurge \/ DeleteRevenue \/ DeleteMappings
    \/ DeleteSnapshots \/ DeletePosts \/ DeleteProfiles \/ PurgeFails

Next == Sync \/ Request

Spec == Init /\ [][Next]_vars

-----------------------------------------------------------------------------
(* The reports *)

RowTotal(p, d) == IF d \in DOMAIN revenues[p] THEN revenues[p][d]["total"] ELSE 0
PageRevenue(p, first, last) == MapThenSumSet(LAMBDA d : RowTotal(p, d), first..last)

\* aggregate and per-page, for the pages ids.
ScreenRevenue(ids, first, last) ==
    MapThenSumSet(LAMBDA p : PageRevenue(p, first, last), ids)

\* The mail's overview.
MailRevenue(first, last) ==
    MapThenSumSet(LAMBDA s : s.revenue, SnapshotsOf(active, first, last))

\* The mail's sections by team and the revenue screen: the join keeps what has a
\* mapping.
TeamRevenue(t, first, last) ==
    MapThenSumSet(LAMBDA p : PageRevenue(p, first, last), {p \in Facebook : team[p] = t})

-----------------------------------------------------------------------------
(* Properties *)

\* Whichever calls fail and wherever the windows meet, a stored day has the total
\* Meta has for it, once, and either its whole breakdown or none of it.
RevenueIsTrue ==
    \A p \in Facebook : \A d \in DOMAIN revenues[p] :
      LET row == revenues[p][d]
          true == AddAmounts(Earned[p][d])
      IN  /\ row["total"] = true["total"]
          /\ row = true \/ \A b \in Buckets \ {"total"} : row[b] = 0

\* Unless a deletion overlapped a sync, the three add up to the same: teams have
\* every stored row between them, also half way through a deletion, and the mail
\* has what the screen has of the active pages, and so lacks exactly the rows of
\* pages that were deselected or disconnected, on every day on which the copy of the
\* last stored row neither failed, nor is under way, nor found no snapshot to write
\* to; a later sync of the day's other figures does not undo it.
RevenueIsReported ==
    \A first \in Days : \A last \in first..LastDay :
      \/ overlap
      \/ /\ MapThenSumSet(LAMBDA t : TeamRevenue(t, first, last),
                          RevenueTeams \cup {RevenueUnassigned})
              = ScreenRevenue(Facebook, first, last)
         /\ \/ purge \notin {"none", "over"}
            \/ \E row \in stale : row[1] \in active /\ row[2] \in first..last
            \/ MailRevenue(first, last) = ScreenRevenue(Facebook \cap active, first, last)
=============================================================================
