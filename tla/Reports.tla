------------------------------- MODULE Reports -------------------------------
(***************************************************************************)
(* The Meta figures three pieces of code report from the same two tables:  *)
(* POST /api/analytics/aggregate, .../aggregate/per-page, and the overview *)
(* of the daily mail.  The tables grow by what a sync writes; every query  *)
(* is an operator, and the properties compare the three in each state: the *)
(* screens for the profiles they are asked for, the mail for those that    *)
(* are active.                                                             *)
(*                                                                         *)
(* Days are those of Asia/Kolkata.  An instant is 2d in the first hours of *)
(* day d, where it is still the day before in UTC, and 2d + 1 in the rest. *)
(* Every metric that only snapshots have is "pageViews".                   *)
(***************************************************************************)
EXTENDS Integers, FiniteSets, FiniteSetsExt

CONSTANTS
    Facebook, Instagram, \* profiles, by platform
    LastDay,       \* bound: days are 1..LastDay, the last one is today
    Followers,     \* follower counts a snapshot may hold, 0 among them
    ProcessInUTC,  \* the process runs in UTC, and not in Asia/Kolkata
    MaxRows        \* bound: rows in the two tables, syncs, deletions and
                   \* selections of profiles together

ASSUME BoundsAssumption == LastDay \in Nat \ {0} /\ MaxRows \in Nat
ASSUME FollowersAssumption == 0 \in Followers /\ Followers \subseteq Nat
ASSUME ProcessInUTCAssumption == ProcessInUTC \in BOOLEAN

Profiles == Facebook \cup Instagram
Days == 1..LastDay
Instants == 2..(2 * LastDay + 1)
Metrics == {"impressions", "videoViews", "engagements", "pageViews"}

VARIABLES
    snapshots,   \* analytics_snapshots: one row a profile and day
    posts,       \* social_posts: when each profile posted
    active       \* the profiles with isActive

\* All profiles have been selected and no sync has run.
TablesInit == snapshots = {} /\ posts = {} /\ active = Profiles

RowsAt(p, d) == {s \in snapshots : s.profile = p /\ s.day = d}

\* Mutant: a row that is written again starts from its default.
KeptRevenueNone(p, d) == 0

\* The upsert writes the columns it has, and revenue is none of them.
KeptRevenue(p, d) == MapThenSumSet(LAMBDA s : s.revenue, RowsAt(p, d))

\* (profileId, date) is unique; a later sync writes the row again.
SaveSnapshot(p, d, n) ==
    /\ snapshots' = (snapshots \ RowsAt(p, d))
          \cup {[profile |-> p, day |-> d, followers |-> n, revenue |-> KeptRevenue(p, d)]}
    /\ UNCHANGED <<posts, active>>

SavePost(p, t) ==
    /\ posts' = posts \cup {[profile |-> p, at |-> t]}
    /\ UNCHANGED <<snapshots, active>>

Grow ==
    \/ \E p \in Profiles, d \in Days, n \in Followers : SaveSnapshot(p, d, n)
    \/ \E p \in Profiles, t \in Instants : SavePost(p, t)

\* confirmPages deactivates one platform, then the other, then activates what was
\* chosen; disconnectMeta without deleteData deactivates what it is asked to.
Deactivate(S) == active' = active \ S /\ UNCHANGED <<snapshots, posts>>
Activate(S) == active' = active \cup S /\ UNCHANGED <<snapshots, posts>>

Select ==
    \/ \E S \in {Facebook, Instagram, Profiles} : Deactivate(S)
    \/ \E S \in SUBSET Profiles \ {{}} : Activate(S)

-----------------------------------------------------------------------------
(* What a row is worth.  The columns hold figures whose sums tell apart which *)
(* rows, and which columns of them, were added up.                            *)

\* A Facebook snapshot has 5 impressions, more than its reach; an Instagram one
\* has none, and its reach of 3 stands in for them.
SnapshotValue(metric, s) ==
    CASE metric = "impressions" -> IF s.profile \in Facebook THEN 5 ELSE 3
      [] metric = "videoViews" -> IF s.profile \in Facebook THEN 70 ELSE 0
      [] metric = "engagements" -> 2
      [] metric = "pageViews" -> 1

\* A post has a reach of 100 and 1000 views; views are impressions, and video
\* views, on Instagram only.
PostValue(metric, p) ==
    CASE metric = "impressions" -> IF p.profile \in Facebook THEN 100 ELSE 1100
      [] metric = "videoViews" -> IF p.profile \in Facebook THEN 0 ELSE 1000
      [] metric = "engagements" -> 40
      [] metric = "pageViews" -> 0

SumSnapshots(metric, S) == MapThenSumSet(LAMBDA s : SnapshotValue(metric, s), S)
SumPosts(metric, S) == MapThenSumSet(LAMBDA p : PostValue(metric, p), S)

\* The profiles the screens are asked for: those that can be chosen, or all, with
\* the ones a client still shows.
Asked == {active, Profiles}

\* The rows of the profiles ids.
SnapshotsOf(ids, first, last) ==
    {s \in snapshots : s.profile \in ids /\ s.day \in first..last}
PostsOf(ids, from, to) == {p \in posts : p.profile \in ids /\ p.at \in from..to}

\* The driver reads a date as the process's midnight, and toISOString dates that
\* in UTC.
KeyDay(d) == IF ProcessInUTC THEN d ELSE d - 1

\* TO_CHAR("postedAt", 'YYYY-MM-DD'): the column holds the process's local time.
DbDay(t) == IF ProcessInUTC THEN (t - 1) \div 2 ELSE t \div 2

-----------------------------------------------------------------------------
(* POST /api/analytics/aggregate *)

\* A period: dates first..last for snapshots, instants from..to for posts; the
\* period before it begins at the date prevFirst and the instant prevFrom (a
\* millisecond later in the code) and ends where this one begins.
Explicit(first, last) ==
    [first |-> first, last |-> last, from |-> 2 * first, to |-> 2 * last + 1,
     prevFirst |-> 2 * first - last - 1, prevFrom |-> 2 * (2 * first - last - 1)]

\* Now, and so many times 24 hours back.
Relative(now, days) ==
    [first |-> (now - 2 * days) \div 2, last |-> now \div 2,
     from |-> now - 2 * days, to |-> now,
     prevFirst |-> (now - 4 * days) \div 2, prevFrom |-> now - 4 * days]

Periods ==
    {Explicit(first, last) : first \in Days, last \in Days}
    \cup {Relative(now, days) : now \in {2 * LastDay, 2 * LastDay + 1}, days \in 1..2}

\* One entry of the time series; a row counts on the day it is found under.
DayTotal(ids, q, metric, d) ==
    SumSnapshots(metric, {s \in SnapshotsOf(ids, q.first, q.last) : KeyDay(s.day) = d})
    + SumPosts(metric, {p \in PostsOf(ids, q.from, q.to) : DbDay(p.at) = d})

\* The totals are summed up from the series.
Total(ids, q, metric) ==
    MapThenSumSet(LAMBDA d : DayTotal(ids, q, metric, d), q.first..q.last)

\* Summed by the database; its impressions have the video views of Facebook on top.
PreviousTotal(ids, q, metric) ==
    LET rows == SnapshotsOf(ids, q.prevFirst, q.first - 1)
    IN  SumSnapshots(metric, rows)
        + (IF metric = "impressions" THEN SumSnapshots("videoViews", rows) ELSE 0)
        + SumPosts(metric, PostsOf(ids, q.prevFrom, q.from - 1))

Newest(S) == CHOOSE s \in S : \A t \in S : t.day <= s.day
FollowersOf(S) == IF S = {} THEN 0 ELSE Newest(S).followers
RowsOf(p) == {s \in snapshots : s.profile = p}
Positive(S) == {s \in S : s.followers > 0}

\* latestFollowers of the prior rows, then day after day what a day has.
\* running[d] is the map after day d; each profile has its own entry.
Running(q) ==
    LET running[d \in (q.first - 1)..q.last] ==
          [p \in Profiles |->
            LET today == {s \in Positive(RowsOf(p)) :
                            s.day \in q.first..q.last /\ KeyDay(s.day) = d}
            IN  IF d < q.first
                THEN FollowersOf({s \in RowsOf(p) : s.day < q.first})
                ELSE IF today = {} THEN running[d - 1][p] ELSE FollowersOf(today)]
    IN  running

DayAudience(ids, q, d) ==
    LET now == Running(q)[d] IN MapThenSumSet(LAMBDA p : now[p], ids)

CurrentAudience(ids) == MapThenSumSet(LAMBDA p : FollowersOf(Positive(RowsOf(p))), ids)

\* In thousandths of a percent, so that its sign can be seen.
CalcChange(current, previous) ==
    IF previous = 0 THEN IF current > 0 THEN 100000 ELSE IF current < 0 THEN -100000 ELSE 0
    ELSE ((current - previous) * 100000)
           \div (IF previous < 0 THEN -previous ELSE previous)

-----------------------------------------------------------------------------
(* POST /api/analytics/aggregate/per-page *)

PageTotal(q, metric, p) ==
    SumSnapshots(metric, SnapshotsOf({p}, q.first, q.last))
    + SumPosts(metric, PostsOf({p}, q.from, q.to))

PageFollowers(p) == FollowersOf(Positive(RowsOf(p)))

\* GET :profileId/data sums up the posts since its start.
SmartEngagements(p, now, days) ==
    SumPosts("engagements", {x \in posts : x.profile = p /\ x.at >= now - 2 * days})

-----------------------------------------------------------------------------
(* The overview of the mail *)

\* Mutant: a span of one day too few.
MailPreviousShort(first, last) == <<first - (last - first), first - 1>>

\* prevStart and prevEnd for startDate and endDate.
MailPrevious(first, last) ==
    LET daysSpan == last - first + 1
    IN  <<first - 1 - daysSpan + 1, first - 1>>

MailTotal(first, last, metric) ==
    SumSnapshots(metric, SnapshotsOf(active, first, last))
    + SumPosts(metric, PostsOf(active, 2 * first, 2 * last + 1))

\* The newest row counts, if it has followers.
MailAudience == MapThenSumSet(LAMBDA p : FollowersOf(RowsOf(p)), active)

-----------------------------------------------------------------------------
(* Properties *)

\* For any period and the profiles asked for, the totals are those of the pages
\* less the rows that are found under a day before the first: no other row is lost
\* or counted twice between the daily series and the sums by page.
PagesAddUp ==
    \A ids \in Asked, q \in Periods, metric \in Metrics :
      MapThenSumSet(LAMBDA p : PageTotal(q, metric, p), ids)
        = Total(ids, q, metric)
          + SumSnapshots(metric, {s \in SnapshotsOf(ids, q.first, q.last) :
                                    KeyDay(s.day) < q.first})
          + SumPosts(metric, {p \in PostsOf(ids, q.from, q.to) : DbDay(p.at) < q.first})

\* The view of one profile has the posts' part of what its page has.
ProfileAgrees ==
    \A p \in Profiles, days \in 1..2 :
      LET now == 2 * LastDay + 1
          q == Relative(now, days)
      IN  PageTotal(q, "engagements", p) = SmartEngagements(p, now, days)
            + SumSnapshots("engagements", SnapshotsOf({p}, q.first, q.last))

\* For given dates the mail reports what the pages of the active profiles have, and
\* nothing of the others, and the period before it is the same days as the screen's
\* of those profiles, so that the change a reader sees compares the same lengths;
\* only the screen's impressions of it include Facebook's video views.
MailAgrees ==
    \A first, last \in Days :
      first <= last =>
        LET q == Explicit(first, last)
            prev == MailPrevious(first, last)
        IN  \A metric \in Metrics :
              /\ MailTotal(first, last, metric)
                   = MapThenSumSet(LAMBDA p : PageTotal(q, metric, p), active)
              /\ PreviousTotal(active, q, metric)
                   = MailTotal(prev[1], prev[2], metric)
                     + (IF metric = "impressions"
                        THEN SumSnapshots("videoViews", SnapshotsOf(active, prev[1], prev[2]))
                        ELSE 0)

\* A day of the series counts for each profile the last count above zero that is
\* found in the period up to that day, or else what the newest row before the period
\* says; the last day is the current audience, and that of the active profiles the
\* mail's, unless rows after the period exist, or a newest row (by day, or before
\* the period) holds no followers, or a row is found under the day before the first.
AudienceIsCarried ==
    \A q \in {x \in Periods : x.first <= x.last} :
      /\ \A ids \in Asked, d \in q.first..q.last :
           DayAudience(ids, q, d) = MapThenSumSet(LAMBDA p :
             LET known == {s \in Positive(RowsOf(p)) :
                             s.day \in q.first..q.last /\ KeyDay(s.day) \in q.first..d}
                 before == {s \in RowsOf(p) : s.day < q.first}
             IN  IF known # {} THEN Newest(known).followers ELSE FollowersOf(before), ids)
      /\ (\A s \in snapshots :
            /\ s.day <= q.last /\ s.followers > 0
            /\ s.day >= q.first => KeyDay(s.day) >= q.first) =>
           /\ \A ids \in Asked : DayAudience(ids, q, q.last) = CurrentAudience(ids)
           /\ CurrentAudience(active) = MailAudience
      /\ \A ids \in Asked : CurrentAudience(ids) = MapThenSumSet(PageFollowers, ids)

\* The sign of a change is that of the difference, at zero and below it too.
ChangeHasItsSign ==
    \A x, y \in -2..2 :
      /\ CalcChange(x, y) > 0 <=> x > y
      /\ CalcChange(x, y) = 0 <=> x = y

\* The three reports agree with each other.
ReportsAgree ==
    /\ PagesAddUp /\ ProfileAgrees /\ MailAgrees
    /\ AudienceIsCarried /\ ChangeHasItsSign
=============================================================================
