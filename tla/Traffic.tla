------------------------------- MODULE Traffic -------------------------------
(***************************************************************************)
(* Visits by UTM medium: the sync that copies BigQuery's daily rows into   *)
(* daily_analytics, batch by batch, and the traffic sheet of the daily     *)
(* mail, which adds them up by page and team as page_mappings has them.    *)
(* The cron and the manual sync may run at once, and while mappings change.*)
(***************************************************************************)
EXTENDS PageMappings, FiniteSetsExt

CONSTANTS
    SourceRows,   \* rows of the table in BigQuery
    OldRows,      \* those that are there from the start
    KeyOf,        \* KeyOf[r]: day, source and medium of row r, as the sync reads them
    Visits,       \* Visits[r]: sessions of row r
    VisitDays,
    Sources,
    SheetSources, \* those that pass the sheet's filter
    Syncs,        \* runs of syncBigQueryData
    BatchSize     \* BATCH_SIZE

Keys == [day : VisitDays, source : Sources, medium : Mediums]
ASSUME SourcesAssumption == SheetSources \subseteq Sources
ASSUME OldRowsAssumption == OldRows \subseteq SourceRows
ASSUME KeyOfAssumption == KeyOf \in [SourceRows -> Keys]
ASSUME VisitsAssumption == Visits \in [SourceRows -> Nat]
ASSUME BatchSizeAssumption == BatchSize \in Nat \ {0}

VARIABLES
    arrived,    \* rows that are in BigQuery by now
    daily,      \* daily[k]: the rows summed up in the daily_analytics row of k
    sync,       \* sync[s]: a run, with its result and what is left of it
    split       \* keys with rows in two batches of one run

syncVars == <<arrived, daily, sync, split>>
trafficVars == <<pageVars, syncVars>>

TrafficInit ==
    /\ PagesInit
    /\ arrived = OldRows /\ split = {}
    /\ daily = [k \in Keys |-> {}]
    /\ sync = [s \in Syncs |-> [pc |-> "none", result |-> {}, left |-> {}]]

-----------------------------------------------------------------------------
(* The sync *)

\* BigQuery's own import adds a row.
Arrive(r) ==
    /\ r \notin arrived
    /\ arrived' = arrived \cup {r}
    /\ UNCHANGED <<pageVars, daily, sync, split>>

\* The query's result is fixed when it runs.  A full sync asks for all rows, the
\* cron for those of the last days.
StartSync(s) ==
    /\ sync[s].pc = "none"
    /\ sync' = [sync EXCEPT ![s] = [pc |-> "read", result |-> arrived, left |-> arrived]]
    /\ UNCHANGED <<pageVars, arrived, daily, split>>

RowKeys(R) == {KeyOf[r] : r \in R}
OfKey(R, k) == {r \in R : KeyOf[r] = k}

\* The rows read until the map has BatchSize keys: the last of them is the
\* first of its key.  They come in any order.
FullBatch(B) ==
    \E r \in B : /\ KeyOf[r] \notin RowKeys(B \ {r})
                 /\ Cardinality(RowKeys(B)) = BatchSize

\* Mutant: rows of one key are not added up in the batch, the last one wins.
SumUpLast(B, k) == {CHOOSE r \in OfKey(B, k) : TRUE}

\* What the map holds for key k.
SumUp(B, k) == OfKey(B, k)

\* The upsert replaces what a key had.
Flush(s, B) ==
    /\ daily' = [k \in Keys |-> IF k \in RowKeys(B) THEN SumUp(B, k) ELSE daily[k]]
    /\ split' = split \cup (RowKeys(B) \cap RowKeys(sync[s].result \ B))
    /\ UNCHANGED <<pageVars, arrived>>

FlushBatch(s) ==
    /\ sync[s].pc = "read"
    /\ \E B \in SUBSET sync[s].left :
        /\ FullBatch(B)
        /\ Flush(s, B)
        /\ sync' = [sync EXCEPT ![s].left = @ \ B]

\* The end of the stream.
FlushRest(s) ==
    /\ sync[s].pc = "read"
    /\ Cardinality(RowKeys(sync[s].left)) < BatchSize
    /\ Flush(s, sync[s].left)
    /\ sync' = [sync EXCEPT ![s].left = {}, ![s].pc = "done"]

\* Stream, upsert or process fail; an error is logged, the batch in hand is lost.
SyncFails(s) ==
    /\ faults < MaxFaults /\ faults' = faults + 1
    /\ sync[s].pc = "read"
    /\ sync' = [sync EXCEPT ![s].left = {}, ![s].pc = "failed"]
    /\ UNCHANGED <<mapping, used, patch, mixed, arrived, daily, split>>

SyncBigQuery(s) == StartSync(s) \/ FlushBatch(s) \/ FlushRest(s) \/ SyncFails(s)

TrafficNext ==
    \/ Edit /\ UNCHANGED syncVars
    \/ \E r \in SourceRows : Arrive(r)
    \/ \E s \in Syncs : SyncBigQuery(s)

TrafficSpec == TrafficInit /\ [][TrafficNext]_trafficVars

-----------------------------------------------------------------------------
(* The traffic sheet *)

Sessions(k) == MapThenSumSet(LAMBDA r : Visits[r], daily[k])

\* The stored rows the query finds of one medium and day, and what they add up to.
Found(m, d) ==
    {k \in Keys : daily[k] # {} /\ k.medium = m /\ k.day = d /\ k.source \in SheetSources}
MediumSessions(m, d) == MapThenSumSet(Sessions, Found(m, d))

\* The media the query finds.
Visited == {m \in Mediums : \E d \in VisitDays : Found(m, d) # {}}

\* mediumToPage: of several rows with one medium the last counts, and the rows
\* come in any order.
Lookups ==
    {look \in [Visited -> Ids \cup {NoPage}] :
       \A m \in Visited :
         LET rows == {id \in Rows : MediumOf[id] = m}
         IN  IF rows = {} THEN look[m] = NoPage ELSE look[m] \in rows}

\* A medium nothing maps is a page of its own name.
PageName(look, m) == IF look[m] = NoPage THEN m ELSE mapping[look[m]].page
TeamName(look, m) == IF look[m] = NoPage THEN Unassigned ELSE mapping[look[m]].team
MediumsOf(look, page) == {m \in Visited : PageName(look, m) = page}
PageBuckets(look) == {PageName(look, m) : m \in Visited}

\* The sessions of a page on day d.
PageSessions(look, page, d) ==
    MapThenSumSet(LAMBDA m : MediumSessions(m, d), MediumsOf(look, page))

\* A page's team is that of the medium that came first; one choice for each.
Firsts(look) == {first \in [PageBuckets(look) -> Visited] :
                   \A page \in PageBuckets(look) : first[page] \in MediumsOf(look, page)}

TeamTotal(look, first, team, d) ==
    MapThenSumSet(LAMBDA page : PageSessions(look, page, d),
                  {page \in PageBuckets(look) : TeamName(look, first[page]) = team})

-----------------------------------------------------------------------------
(* Properties *)

\* What is stored for a key is all that one query found of it, however the rows
\* came and wherever a batch was cut, unless the key itself was cut in two; a sync
\* that ended, with no other, stored everything it found.
SyncedIsWhole ==
    \A k \in Keys \ split :
      /\ daily[k] = {} \/ \E s \in Syncs : daily[k] = OfKey(sync[s].result, k)
      /\ \A s \in Syncs :
           /\ sync[s].pc = "done" /\ \A t \in Syncs \ {s} : sync[t].pc = "none"
           => daily[k] = OfKey(sync[s].result, k)

\* In whatever order mappings and rows come, every stored session of the sheet's
\* sources is in it once, in a page and in a team, and no session of another source;
\* and a page whose rows agree on its team stands under that team, and no part of it
\* under another.
SheetAddsUp ==
    \A look \in Lookups : \A first \in Firsts(look) :
      /\ \A d \in VisitDays :
           MapThenSumSet(LAMBDA team : TeamTotal(look, first, team, d), AnyTeam)
             = MapThenSumSet(LAMBDA r : Visits[r],
                             UNION {daily[k] : k \in {x \in Keys : x.day = d /\ x.source \in SheetSources}})
      /\ \A page \in PageBuckets(look) \cap Pages :
           \/ page \in mixed \/ \E q \in Requests : page \in Pending(q)
           \/ \A id \in RowsOfPage(page) : TeamName(look, first[page]) = mapping[id].team

TrafficIsReported == SyncedIsWhole /\ SheetAddsUp
=============================================================================
