---------------------------- MODULE PageMappings ----------------------------
(***************************************************************************)
(* page_mappings says which page, and which team, the visits of a UTM      *)
(* medium belong to.  A page has several rows, and its team is kept in each*)
(* of them; PageMappingsService changes it in one row, reads that row back *)
(* and then sets the team of all rows of its page, with an await between.  *)
(***************************************************************************)
EXTENDS FiniteSets, Integers

CONSTANTS
    Ids,          \* generated ids of rows, each used once
    Pages, Teams,
    Mediums,
    MediumOf,     \* MediumOf[id]: the UTM medium of row id
    Requests,     \* PATCH requests, each served once
    NoPage, Unassigned,
    MaxFaults     \* bound: requests that fail half way

ASSUME MediumOfAssumption == MediumOf \in [Ids -> Mediums]
ASSUME NamesAssumption == NoPage \notin Pages \cup Ids /\ Unassigned \notin Teams
ASSUME PageFaultsAssumption == MaxFaults \in Nat

VARIABLES
    mapping,    \* mapping[id]: page and team of a row
    used,       \* ids the sequence has given out
    patch,      \* patch[q]: a run of update or of batchUpdateTeam
    mixed,      \* pages that got rows, or lost a cascade, since their last one
    faults      \* faults so far (see MaxFaults)

pageVars == <<mapping, used, patch, mixed, faults>>

AnyTeam == Teams \cup {Unassigned}
Gone == [page |-> NoPage, team |-> Unassigned]
NewPatch == [pc |-> "none", at |-> NoPage, page |-> NoPage, team |-> Unassigned]
Over == [NewPatch EXCEPT !.pc = "over"]

PagesTypeOK ==
    /\ mapping \in [Ids -> [page : Pages \cup {NoPage}, team : AnyTeam]]
    /\ used \subseteq Ids
    /\ patch \in [Requests -> [pc : {"none", "find", "cascade", "over"},
                               at : Ids \cup {NoPage},
                               page : Pages \cup {NoPage}, team : AnyTeam]]
    /\ mixed \subseteq Pages
    /\ faults \in 0..MaxFaults

PagesInit ==
    /\ mapping = [id \in Ids |-> Gone]
    /\ used = {} /\ mixed = {} /\ faults = 0
    /\ patch = [q \in Requests |-> NewPatch]

Rows == {id \in Ids : mapping[id] # Gone}
RowsOfPage(page) == {id \in Ids : mapping[id].page = page}

\* create, or importFromCSV, whose one save inserts all rows of a file: each row
\* is inserted as it comes, whatever rows its page has.
Insert(S, page, team) ==
    /\ S # {} /\ S \cap used = {}
    /\ mapping' = [id \in Ids |->
          IF id \in S THEN [page |-> page, team |-> team] ELSE mapping[id]]
    /\ used' = used \cup S
    /\ mixed' = mixed \cup {page}
    /\ UNCHANGED <<patch, faults>>

Remove(id) ==
    /\ mapping[id].page # NoPage
    /\ mapping' = [mapping EXCEPT ![id] = Gone]
    /\ UNCHANGED <<used, patch, mixed, faults>>

\* Mutant: the page is the one the row had when the request came.
WriteRowOldPage(q, id, page, team) ==
    /\ patch[q].pc = "none" /\ mapping[id].page # NoPage
    /\ mapping' = [mapping EXCEPT ![id] = [page |-> page, team |-> team]]
    /\ patch' = [patch EXCEPT ![q] =
          [pc |-> "cascade", at |-> id, page |-> mapping[id].page, team |-> team]]
    /\ UNCHANGED <<used, mixed, faults>>

\* update: the first write.  The request's class declares team, so an instance
\* of it always has one, and a body without team means Unassigned.
WriteRow(q, id, page, team) ==
    /\ patch[q].pc = "none" /\ mapping[id].page # NoPage
    /\ mapping' = [mapping EXCEPT ![id] = [page |-> page, team |-> team]]
    /\ patch' = [patch EXCEPT ![q] = [NewPatch EXCEPT !.pc = "find", !.at = id, !.team = team]]
    /\ UNCHANGED <<used, mixed, faults>>

\* The row is read back for its page; it may be gone or on another page by now.
FindRow(q) ==
    LET page == mapping[patch[q].at].page
    IN  /\ patch[q].pc = "find"
        /\ patch' = [patch EXCEPT ![q] =
              IF page = NoPage THEN Over ELSE [@ EXCEPT !.pc = "cascade", !.page = page]]
        /\ UNCHANGED <<mapping, used, mixed, faults>>

\* batchUpdateTeam takes the page from the first id.
BeginBatch(q, id, team) ==
    /\ patch[q].pc = "none" /\ mapping[id].page # NoPage
    /\ patch' = [patch EXCEPT ![q] =
          [NewPatch EXCEPT !.pc = "cascade", !.page = mapping[id].page, !.team = team]]
    /\ UNCHANGED <<mapping, used, mixed, faults>>

\* updateTeamByPageName: one UPDATE.
UpdateTeamByPageName(q) ==
    LET page == patch[q].page
    IN  /\ patch[q].pc = "cascade"
        /\ mapping' = [id \in Ids |->
              IF mapping[id].page = page THEN [mapping[id] EXCEPT !.team = patch[q].team]
              ELSE mapping[id]]
        /\ mixed' = mixed \ {page}
        /\ patch' = [patch EXCEPT ![q] = Over]
        /\ UNCHANGED <<used, faults>>

\* Rows whose page an update that is under way has yet to look at.
Pending(q) == IF patch[q].at = NoPage THEN {} ELSE {mapping[patch[q].at].page} \cap Pages

\* One of the awaits throws, or the process dies at it.
PatchFails(q) ==
    /\ faults < MaxFaults /\ faults' = faults + 1
    /\ patch[q].pc \in {"find", "cascade"}
    /\ mixed' = mixed \cup Pending(q)
    /\ patch' = [patch EXCEPT ![q] = Over]
    /\ UNCHANGED <<mapping, used>>

Edit ==
    \/ \E S \in SUBSET Ids, page \in Pages, team \in AnyTeam : Insert(S, page, team)
    \/ \E id \in Ids : Remove(id)
    \/ \E q \in Requests :
        \/ \E id \in Ids, page \in Pages, team \in AnyTeam : WriteRow(q, id, page, team)
        \/ \E id \in Ids, team \in AnyTeam : BeginBatch(q, id, team)
        \/ FindRow(q) \/ UpdateTeamByPageName(q) \/ PatchFails(q)

PagesSpec == PagesInit /\ [][Edit]_pageVars

\* "Every row for a page always has the same team": so it is, whichever edits,
\* renames and deletions overlap, except for a page that got a row by create or
\* import, or an update that failed after its first write, since its team was
\* last set, and for one with an update between its first write and its last.
TeamsAgree ==
    \A page \in Pages :
      \/ page \in mixed \/ \E q \in Requests : page \in Pending(q)
      \/ Cardinality({mapping[id].team : id \in RowsOfPage(page)}) <= 1
=============================================================================
