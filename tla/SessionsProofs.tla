---------------------------- MODULE SessionsProofs ----------------------------
(***************************************************************************)
(* Proofs, for any browsers, requests and bounds, of the properties of     *)
(* Sessions, the number of its sessions included.                          *)
(***************************************************************************)
EXTENDS Sessions, FiniteSetTheorems, TLAPS

-----------------------------------------------------------------------------
(* The inductive invariant *)

\* Rows are inserted one after the other.
RowInv == \A i \in Ids : i > inserted => session[i] = NoSession

Holding(r) == request[r].pc \in {"save", "answer"}

\* A request that has inserted a row is the only one to know it until its
\* answer arrives.
HoldInv ==
    \A r \in Requests : Holding(r) =>
        /\ request[r].new \in 1..inserted
        /\ \A q \in Requests : Holding(q) /\ q # r =>
              request[q].new # request[r].new
        /\ \A q \in Requests : request[q].old # request[r].new
        /\ \A b \in Browsers : jar[b].refresh # request[r].new

\* It still waits for its hash, or is one that a browser can use.
HeldRowInv ==
    \A r \in Requests :
        /\ request[r].pc = "save" =>
              /\ session[request[r].new].hash = "pending"
              /\ session[request[r].new].since = request[r].since
        /\ request[r].pc = "answer" =>
              /\ session[request[r].new].hash = "set"
              /\ Live(request[r].new) \/ session[request[r].new].since < resets

\* A session is known to one browser, and spent by its requests only.
KnownInv ==
    /\ \A b \in Browsers : jar[b].refresh # None =>
          /\ jar[b].refresh <= inserted
          /\ session[jar[b].refresh].hash = "set"
          /\ \A c \in Browsers : jar[c].refresh = jar[b].refresh => c = b
          /\ \A r \in Requests : request[r].old = jar[b].refresh =>
                request[r].browser = b
    /\ \A r \in Requests :
          /\ request[r].old # None =>
                /\ request[r].old <= inserted
                /\ session[request[r].old].hash = "set"
          /\ request[r].pc = "revoke" => request[r].old # None

\* Proofs are never newer than the last reset; one that no reset overtook dates
\* from after it.
SinceInv ==
    /\ \A i \in Ids : session[i].since <= resets
    /\ \A r \in Requests :
          /\ request[r].since <= resets
          /\ request[r].pc \in {"revoke", "insert", "save"} =>
                request[r].late \/ request[r].since = resets

\* The token of a browser is spent only by a refresh whose answer is to come.
StayInv ==
    \A b \in Browsers : jar[b].refresh # None =>
        \/ Live(jar[b].refresh)
        \/ session[jar[b].refresh].since < resets
        \/ b \in died
        \/ \E r \in Requests :
              /\ request[r].browser = b /\ request[r].old = jar[b].refresh
              /\ request[r].pc \in {"insert", "save", "answer"}

IInv ==
    /\ TypeOK /\ RowInv /\ HoldInv /\ HeldRowInv /\ KnownInv /\ SinceInv
    /\ StayInv /\ ResetEndsSessions

\* The initial state satisfies every conjunct.
LEMMA InitIInv == Init => IInv
<1> USE BoundsAssumption DEF None, Ids, NoSession, Idle
<1> SUFFICES ASSUME Init PROVE IInv
  OBVIOUS
<1>1. TypeOK
  <2>1. session \in [Ids -> SessionRows]
    BY DEF Init, SessionRows
  <2>2. jar \in [Browsers -> [refresh : Ids \cup {None}, access : BOOLEAN]]
    BY DEF Init
  <2>3. request \in [Requests -> RequestStates]
    BY DEF Init, RequestStates
  <2>4. /\ inserted \in 0..MaxSessions /\ link \in {"none", "sent"}
        /\ opened \in Nat /\ resets \in Nat /\ calls \in 0..MaxCalls
    BY DEF Init
  <2>5. died \subseteq Browsers \cup {"none"}
    BY DEF Init
  <2> QED BY <2>1, <2>2, <2>3, <2>4, <2>5 DEF TypeOK
<1>2. RowInv /\ HoldInv /\ HeldRowInv
  BY DEF Init, RowInv, HoldInv, HeldRowInv, Holding
<1>3. KnownInv /\ SinceInv /\ StayInv
  BY DEF Init, KnownInv, SinceInv, StayInv
<1>4. ResetEndsSessions
  BY DEF Init, ResetEndsSessions, Live
<1> QED BY <1>1, <1>2, <1>3, <1>4 DEF IInv

-----------------------------------------------------------------------------
(* The steps *)

\* What a request that starts may do and say: only a refresh names a session,
\* the live one of its browser, and no proof is newer than the last reset.
BeginsAs(r, b, op, pc, old, since, late) ==
    /\ Begin(r, b, op, pc, old, since, late)
    /\ pc = "revoke" =>
          b \in Browsers /\ old = jar[b].refresh /\ old # None /\ Live(old)
    /\ pc # "revoke" => old = None
    /\ since <= resets
    /\ pc \in {"revoke", "insert"} => late \/ since = resets

BeginOps == {"login", "refresh", "switch", "logout", "reset"}
BeginPcs == {"revoke", "insert", "clear", "password"}

\* Every request that passes its checks has that shape.
LEMMA BeginShape ==
    ASSUME TypeOK, SinceInv, ResetEndsSessions,
           NEW r \in Requests, BeginRequest(r)
    PROVE  \E b \in Browsers \cup {"none"}, op \in BeginOps, pc \in BeginPcs,
              old \in Ids \cup {None}, since \in Nat, late \in BOOLEAN :
              BeginsAs(r, b, op, pc, old, since, late)
<1>0. resets \in Nat /\ 0 <= resets /\ resets <= resets
  BY DEF TypeOK
<1>1. ASSUME NEW b \in Browsers, BeginLogin(r, b)
      PROVE  BeginsAs(r, b, "login", "insert", None, resets, FALSE)
  BY <1>0, <1>1 DEF BeginLogin, BeginsAs
<1>2. ASSUME NEW b \in Browsers, BeginRefresh(r, b)
      PROVE  LET i == jar[b].refresh
             IN  /\ i \in Ids /\ session[i].since \in Nat
                 /\ session[i].late \in BOOLEAN
                 /\ BeginsAs(r, b, "refresh", "revoke", i, session[i].since,
                             session[i].late)
  <2> DEFINE i == jar[b].refresh
  <2>1. /\ i # None /\ Live(i)
        /\ Begin(r, b, "refresh", "revoke", i, session[i].since, session[i].late)
    BY <1>2 DEF BeginRefresh
  <2>2. i \in Ids
    BY <2>1 DEF TypeOK
  <2>3. session[i].since \in Nat /\ session[i].late \in BOOLEAN
    BY <2>2 DEF TypeOK, SessionRows
  <2>4. session[i].since <= resets
    BY <2>2 DEF SinceInv
  <2>5. session[i].late \/ session[i].since = resets
    BY <2>1, <2>2 DEF ResetEndsSessions
  <2> QED BY <2>1, <2>2, <2>3, <2>4, <2>5 DEF BeginsAs
<1>3. ASSUME NEW b \in Browsers, BeginSwitch(r, b)
      PROVE  BeginsAs(r, b, "switch", "insert", None, resets, FALSE)
  BY <1>0, <1>3 DEF BeginSwitch, BeginsAs
<1>4. ASSUME NEW b \in Browsers, BeginLogout(r, b)
      PROVE  BeginsAs(r, b, "logout", "clear", None, 0, FALSE)
  BY <1>0, <1>4 DEF BeginLogout, BeginsAs
<1>5. ASSUME BeginReset(r)
      PROVE  BeginsAs(r, "none", "reset", "password", None, 0, FALSE)
  BY <1>0, <1>5 DEF BeginReset, BeginsAs
<1>6. CASE BeginReset(r)
  BY <1>0, <1>5, <1>6 DEF BeginOps, BeginPcs
<1>7. CASE \E b \in Browsers : \/ BeginLogin(r, b) \/ BeginRefresh(r, b)
                               \/ BeginSwitch(r, b) \/ BeginLogout(r, b)
  <2>1. PICK b \in Browsers : \/ BeginLogin(r, b) \/ BeginRefresh(r, b)
                              \/ BeginSwitch(r, b) \/ BeginLogout(r, b)
    BY <1>7
  <2>2. CASE BeginLogin(r, b)
    BY <1>0, <1>1, <2>2 DEF BeginOps, BeginPcs
  <2>3. CASE BeginRefresh(r, b)
    BY <1>2, <2>3 DEF BeginOps, BeginPcs
  <2>4. CASE BeginSwitch(r, b)
    BY <1>0, <1>3, <2>4 DEF BeginOps, BeginPcs
  <2>5. CASE BeginLogout(r, b)
    BY <1>0, <1>4, <2>5 DEF BeginOps, BeginPcs
  <2> QED BY <2>1, <2>2, <2>3, <2>4, <2>5
<1> QED BY <1>6, <1>7 DEF BeginRequest

\* What the saves of a session leave is a session row, and a request at work.
LEMMA EditedRow ==
    ASSUME NEW row \in SessionRows, NEW hash \in {"none", "pending", "set"},
           NEW late \in BOOLEAN
    PROVE  [row EXCEPT !.hash = hash, !.revoked = FALSE, !.late = late]
              \in SessionRows
BY DEF SessionRows

LEMMA EditedRequest ==
    ASSUME NEW q \in RequestStates, NEW i \in Ids
    PROVE  [q EXCEPT !.pc = "save", !.new = i] \in RequestStates
BY DEF RequestStates

\* The variables keep their types.
LEMMA TypeStep == IInv /\ [Next]_vars => TypeOK'
<1> SUFFICES ASSUME IInv, [Next]_vars PROVE TypeOK'
  OBVIOUS
<1>0. TypeOK
  BY DEF IInv
<1>1. ASSUME NEW r \in Requests, BeginRequest(r) PROVE TypeOK'
  <2>1. PICK b \in Browsers \cup {"none"}, op \in BeginOps, pc \in BeginPcs,
             old \in Ids \cup {None}, since \in Nat, late \in BOOLEAN :
             BeginsAs(r, b, op, pc, old, since, late)
    BY <1>1, BeginShape DEF IInv
  <2>2. request' \in [Requests -> RequestStates]
    BY <1>0, <2>1
       DEF TypeOK, BeginsAs, Begin, RequestStates, None, BeginOps, BeginPcs
  <2>3. calls' \in 0..MaxCalls
    BY <1>0, <2>1, BoundsAssumption DEF TypeOK, BeginsAs, Begin
  <2> QED BY <1>0, <2>1, <2>2, <2>3 DEF TypeOK, BeginsAs, Begin
<1> USE <1>0 DEF TypeOK
<1>2. ASSUME NEW r \in Requests, RevokeOld(r) PROVE TypeOK'
  <2>1. session' \in [Ids -> SessionRows]
    BY <1>2 DEF RevokeOld, SessionRows
  <2>2. request' \in [Requests -> RequestStates]
    BY <1>2 DEF RevokeOld, Goto, RequestStates
  <2>3. opened' \in Nat
    BY <1>2 DEF RevokeOld
  <2> QED BY <1>2, <2>1, <2>2, <2>3 DEF RevokeOld
<1>3. ASSUME NEW r \in Requests, InsertSession(r) PROVE TypeOK'
  <2>1. inserted + 1 \in Ids /\ inserted' \in 0..MaxSessions
    BY <1>3, BoundsAssumption DEF InsertSession, Ids
  <2>2. request[r].since \in Nat
    BY DEF RequestStates
  <2>3. session' \in [Ids -> SessionRows]
    BY <1>3, <2>1, <2>2 DEF InsertSession, RowFor, SessionRows, NoSession
  <2>4. request' \in [Requests -> RequestStates]
    BY <1>3, <2>1, EditedRequest DEF InsertSession, RowFor
  <2> QED BY <1>3, <2>1, <2>3, <2>4 DEF InsertSession
<1>4. ASSUME NEW r \in Requests, SaveHash(r) PROVE TypeOK'
  <2> DEFINE n == request[r].new
             row == [session[n] EXCEPT !.hash = StoredHash, !.revoked = FALSE,
                                       !.late = request[r].late]
  <2>0. session' = [session EXCEPT ![n] = row]
    BY <1>4 DEF SaveHash
  <2>4. n \in Ids => row \in SessionRows
    <3>1. request[r].late \in BOOLEAN
      BY DEF RequestStates
    <3> QED BY <3>1, EditedRow DEF StoredHash
  <2>1. session' \in [Ids -> SessionRows]
    <3> HIDE DEF n, row
    <3> QED BY <2>0, <2>4
  <2>2. request' \in [Requests -> RequestStates]
    BY <1>4 DEF SaveHash, Goto, RequestStates
  <2>3. opened' \in Nat
    BY <1>4 DEF SaveHash
  <2> QED BY <1>4, <2>1, <2>2, <2>3 DEF SaveHash
<1>5. ASSUME NEW r \in Requests, End(r)
      PROVE  request' \in [Requests -> RequestStates]
  BY <1>5 DEF End, Idle, RequestStates, None
<1>6. ASSUME NEW r \in Requests, SetCookies(r) PROVE TypeOK'
  <2>1. request[r].new \in Ids \cup {None}
    BY DEF RequestStates
  <2>2. jar' \in [Browsers -> [refresh : Ids \cup {None}, access : BOOLEAN]]
    BY <1>6, <2>1 DEF SetCookies
  <2> QED BY <1>5, <1>6, <2>2 DEF SetCookies
<1>7. ASSUME NEW r \in Requests, ClearCookies(r) PROVE TypeOK'
  <2>1. jar' \in [Browsers -> [refresh : Ids \cup {None}, access : BOOLEAN]]
    BY <1>7 DEF ClearCookies, None
  <2> QED BY <1>5, <1>7, <2>1 DEF ClearCookies
<1>8. ASSUME NEW r \in Requests, SavePassword(r) PROVE TypeOK'
  <2>1. request' \in [Requests -> RequestStates]
    BY <1>8 DEF SavePassword, Goto, RequestStates
  <2> QED BY <1>8, <2>1 DEF SavePassword
<1>9. ASSUME NEW r \in Requests, RevokeAll(r) PROVE TypeOK'
  <2>1. session' \in [Ids -> SessionRows]
    BY <1>9 DEF RevokeAll, SessionRows
  <2>3. ASSUME NEW q \in Requests, NEW late \in BOOLEAN
        PROVE  /\ [request[q] EXCEPT !.late = late] \in RequestStates
               /\ Idle \in RequestStates
    BY DEF RequestStates, Idle, None
  <2>4. \A q \in Requests :
           (request[q].late \/ request[q].pc \in {"revoke", "insert", "save"})
              \in BOOLEAN
    OBVIOUS
  <2>2. request' \in [Requests -> RequestStates]
    BY <1>9, <2>3, <2>4 DEF RevokeAll
  <2> QED BY <1>9, <2>1, <2>2 DEF RevokeAll
<1>10. ASSUME NEW r \in Requests, Die(r) PROVE TypeOK'
  <2>1. request[r].browser \in Browsers \cup {"none"}
    BY DEF RequestStates
  <2> QED BY <1>5, <1>10, <2>1 DEF Die
<1>11. ASSUME NEW b \in Browsers, GrantAccess(b) \/ ExpireAccess(b) PROVE TypeOK'
  BY <1>11 DEF GrantAccess, ExpireAccess
<1>12. CASE MailLink
  BY <1>12 DEF MailLink
<1>13. CASE UNCHANGED vars
  BY <1>13 DEF vars
<1> HIDE DEF TypeOK
<1> QED BY <1>1, <1>2, <1>3, <1>4, <1>6, <1>7, <1>8, <1>9, <1>10, <1>11, <1>12,
           <1>13 DEF Next, Serve

-----------------------------------------------------------------------------
(* What each step preserves *)

Rest == RowInv /\ HoldInv /\ HeldRowInv /\ KnownInv /\ SinceInv /\ StayInv
           /\ ResetEndsSessions

\* The sessions that somebody names are rows that have been inserted.
LEMMA KnownIds ==
    ASSUME IInv
    PROVE  /\ \A q \in Requests : Holding(q) =>
                 request[q].new \in Ids /\ request[q].new <= inserted
           /\ \A q \in Requests : request[q].old # None =>
                 request[q].old \in Ids /\ request[q].old <= inserted
           /\ \A b \in Browsers : jar[b].refresh # None =>
                 jar[b].refresh \in Ids /\ jar[b].refresh <= inserted
           /\ inserted \in Nat /\ None \notin Ids
<1> USE DEF IInv
<1>1. \A q \in Requests : Holding(q) =>
         request[q].new \in Ids /\ request[q].new <= inserted
  BY DEF TypeOK, RequestStates, HoldInv, None
<1>2. \A q \in Requests : request[q].old # None =>
         request[q].old \in Ids /\ request[q].old <= inserted
  BY DEF TypeOK, RequestStates, KnownInv
<1>3. \A b \in Browsers : jar[b].refresh # None =>
         jar[b].refresh \in Ids /\ jar[b].refresh <= inserted
  BY DEF TypeOK, KnownInv
<1> QED BY <1>1, <1>2, <1>3, BoundsAssumption DEF TypeOK, Ids, None

\* A request that starts holds no row; the session it names is its browser's.
LEMMA BeginStep ==
    ASSUME IInv, NEW r \in Requests, BeginRequest(r)
    PROVE  Rest'
<1> USE DEF IInv
<1>1. PICK b \in Browsers \cup {"none"}, op \in BeginOps, pc \in BeginPcs,
           old \in Ids \cup {None}, since \in Nat, late \in BOOLEAN :
           BeginsAs(r, b, op, pc, old, since, late)
  BY BeginShape
<1>2. /\ \A q \in Requests : q # r => request'[q] = request[q]
      /\ request'[r] = [pc |-> pc, browser |-> b, op |-> op, old |-> old,
                        new |-> None, since |-> since, late |-> late]
      /\ request[r].pc = "idle"
      /\ UNCHANGED <<session, inserted, jar, resets, died>>
  BY <1>1 DEF TypeOK, BeginsAs, Begin, InFlight
<1>3. RowInv'
  BY <1>2 DEF RowInv, Ids
<1>4. HoldInv'
  <2>1. /\ \A q \in Requests : Holding(q)' => q # r /\ Holding(q)
        /\ UNCHANGED <<inserted, jar>>
    BY <1>2 DEF Holding, BeginPcs
  <2>2. \A q \in Requests : Holding(q) => request[q].new # old
    <3>1. \A q \in Requests : Holding(q) => request[q].new # None
      BY DEF HoldInv, None, TypeOK
    <3> QED BY <1>1, <3>1 DEF BeginsAs, HoldInv
  <2> QED BY <1>2, <2>1, <2>2 DEF HoldInv
<1>5. HeldRowInv'
  BY <1>2 DEF HeldRowInv, BeginPcs, Live
<1>6. KnownInv'
  BY <1>1, <1>2 DEF KnownInv, BeginsAs, BeginPcs, Live
<1>7. SinceInv'
  BY <1>1, <1>2 DEF SinceInv, BeginsAs, BeginPcs
<1>8. StayInv'
  BY <1>1, <1>2 DEF StayInv, Live
<1>9. ResetEndsSessions'
  BY <1>2 DEF ResetEndsSessions, Live
<1> QED BY <1>3, <1>4, <1>5, <1>6, <1>7, <1>8, <1>9 DEF Rest

\* The refresh is what its browser waits for; the rows held are not its old one.
LEMMA RevokeOldStep ==
    ASSUME IInv, NEW r \in Requests, RevokeOld(r)
    PROVE  Rest'
<1> USE DEF IInv
<1> DEFINE n == request[r].old
<1>1. n \in Ids /\ n <= inserted
  BY KnownIds DEF RevokeOld, KnownInv
<1>2. /\ \A q \in Requests : q # r => request'[q] = request[q]
      /\ request[r].pc = "revoke" /\ request'[r].pc = "insert"
      /\ \A q \in Requests :
            /\ request'[q].browser = request[q].browser
            /\ request'[q].old = request[q].old
            /\ request'[q].new = request[q].new
            /\ request'[q].since = request[q].since
            /\ request'[q].late = request[q].late
      /\ UNCHANGED <<inserted, jar, resets, died>>
  BY DEF RevokeOld, Goto, TypeOK, RequestStates
<1>3. /\ \A i \in Ids : i # n => session'[i] = session[i]
      /\ \A i \in Ids : /\ session'[i].hash = session[i].hash
                        /\ session'[i].since = session[i].since
                        /\ session'[i].late = session[i].late
      /\ session'[n].revoked = TRUE
  BY <1>1 DEF RevokeOld, TypeOK, SessionRows
<1>4. \A i \in Ids : Live(i)' => Live(i)
  BY <1>3 DEF Live
<1> HIDE DEF n
<1>5. RowInv'
  BY <1>1, <1>2, <1>3 DEF RowInv, Ids, TypeOK
<1>6. HoldInv'
  BY <1>2 DEF HoldInv, Holding
<1>7. HeldRowInv'
  <2>1. \A q \in Requests : Holding(q) =>
           session'[request[q].new] = session[request[q].new]
    <3>1. \A q \in Requests : Holding(q) => request[q].new # n
      BY DEF HoldInv, n
    <3> QED BY <1>3, <3>1, KnownIds
  <2> QED BY <1>2, <2>1 DEF HeldRowInv, Holding, Live
<1>8. KnownInv'
  BY <1>2, <1>3, KnownIds DEF KnownInv
<1>9. SinceInv'
  BY <1>2, <1>3 DEF SinceInv
<1>10. StayInv'
  <2> SUFFICES ASSUME NEW b \in Browsers, jar[b].refresh # None
               PROVE  \/ Live(jar[b].refresh)'
                      \/ session'[jar[b].refresh].since < resets
                      \/ b \in died
                      \/ \E q \in Requests :
                            /\ request'[q].browser = b
                            /\ request'[q].old = jar[b].refresh
                            /\ request'[q].pc \in {"insert", "save", "answer"}
    BY <1>2 DEF StayInv
  <2>1. jar[b].refresh \in Ids
    BY DEF TypeOK
  <2>2. CASE jar[b].refresh = n
    BY <1>2, <2>2 DEF KnownInv, n
  <2>3. CASE jar[b].refresh # n
    BY <1>2, <1>3, <2>1, <2>3 DEF StayInv, Live
  <2> QED BY <2>2, <2>3
<1>11. ResetEndsSessions'
  BY <1>2, <1>3, <1>4 DEF ResetEndsSessions
<1> QED BY <1>5, <1>6, <1>7, <1>8, <1>9, <1>10, <1>11 DEF Rest

\* The row is a new one: nobody knows it, and nobody else holds it.
LEMMA InsertSessionStep ==
    ASSUME IInv, NEW r \in Requests, InsertSession(r)
    PROVE  Rest'
<1> USE DEF IInv
<1> DEFINE n == inserted + 1
<1>1. n \in Ids /\ n > inserted /\ inserted \in Nat
  BY BoundsAssumption DEF InsertSession, TypeOK, Ids
<1>2. /\ \A q \in Requests : q # r => request'[q] = request[q]
      /\ request[r].pc = "insert" /\ request'[r].pc = "save"
      /\ request'[r].new = n
      /\ \A q \in Requests :
            /\ request'[q].browser = request[q].browser
            /\ request'[q].old = request[q].old
            /\ request'[q].since = request[q].since
            /\ request'[q].late = request[q].late
      /\ UNCHANGED <<jar, resets, died>> /\ inserted' = n
  BY DEF InsertSession, RowFor, TypeOK, RequestStates
<1>3. /\ \A i \in Ids : i # n => session'[i] = session[i]
      /\ session'[n].hash = "pending" /\ session'[n].since = request[r].since
  BY <1>1 DEF InsertSession, RowFor, TypeOK, SessionRows, NoSession
<1>4. /\ \A q \in Requests : request[q].old # n
      /\ \A b \in Browsers : jar[b].refresh # n
      /\ \A q \in Requests : Holding(q) => request[q].new # n
  BY <1>1, KnownIds DEF Ids
<1> HIDE DEF n
<1>5. RowInv'
  <2> SUFFICES ASSUME NEW i \in Ids, i > n PROVE session'[i] = NoSession
    BY <1>2 DEF RowInv, Ids
  <2>1. i \in Nat /\ n \in Nat /\ i # n /\ i > inserted
    BY <1>1 DEF Ids
  <2> QED BY <1>3, <2>1 DEF RowInv
<1>6. HoldInv'
  <2>1. \A q \in Requests : Holding(q)' => q = r \/ Holding(q)
    BY <1>2 DEF Holding
  <2>2. n \in 1..inserted' /\ \A i \in 1..inserted : i \in 1..inserted'
    BY <1>1, <1>2 DEF n
  <2>3. ~Holding(r)
    BY <1>2 DEF Holding
  <2> QED BY <1>2, <1>4, <2>1, <2>2, <2>3 DEF HoldInv
<1>7. HeldRowInv'
  <2>1. \A q \in Requests : Holding(q) =>
           session'[request[q].new] = session[request[q].new]
    BY <1>3, <1>4, KnownIds
  <2> QED BY <1>2, <1>3, <2>1 DEF HeldRowInv, Holding, Live
<1>8. KnownInv'
  <2>1. \A i \in Ids : i <= inserted => i <= n
    BY <1>1 DEF Ids, n
  <2> QED BY <1>2, <1>3, <1>4, <2>1, KnownIds DEF KnownInv
<1>9. SinceInv'
  BY <1>2, <1>3 DEF SinceInv
<1>10. StayInv'
  BY <1>2, <1>3, <1>4, KnownIds DEF StayInv, Live
<1>11. ResetEndsSessions'
  BY <1>2, <1>3 DEF ResetEndsSessions, Live
<1> QED BY <1>5, <1>6, <1>7, <1>8, <1>9, <1>10, <1>11 DEF Rest

\* Nobody else knows the row, so that what the save undoes is no revocation of
\* a session in use.
LEMMA SaveHashStep ==
    ASSUME IInv, NEW r \in Requests, SaveHash(r)
    PROVE  Rest'
<1> USE DEF IInv
<1> DEFINE n == request[r].new
<1>0. request[r].pc = "save" /\ Holding(r)
  BY DEF SaveHash, Holding
<1>1. n \in Ids /\ n <= inserted
  BY <1>0, KnownIds
<1>2. /\ \A q \in Requests : q # r => request'[q] = request[q]
      /\ request'[r].pc = "answer"
      /\ \A q \in Requests :
            /\ request'[q].browser = request[q].browser
            /\ request'[q].old = request[q].old
            /\ request'[q].new = request[q].new
            /\ request'[q].since = request[q].since
            /\ request'[q].late = request[q].late
      /\ UNCHANGED <<inserted, jar, resets, died>>
  BY DEF SaveHash, Goto, TypeOK, RequestStates
<1>3. /\ \A i \in Ids : i # n => session'[i] = session[i]
      /\ session'[n].hash = "set" /\ session'[n].revoked = FALSE
      /\ session'[n].since = session[n].since
      /\ session'[n].late = request[r].late
  <2> DEFINE row == [session[n] EXCEPT !.hash = StoredHash, !.revoked = FALSE,
                                       !.late = request[r].late]
  <2>1. session' = [session EXCEPT ![n] = row]
    BY DEF SaveHash
  <2>2. /\ row.hash = "set" /\ row.revoked = FALSE
        /\ row.since = session[n].since /\ row.late = request[r].late
    BY <1>1 DEF TypeOK, SessionRows, StoredHash
  <2> HIDE DEF n, row
  <2> QED BY <1>1, <2>1, <2>2 DEF TypeOK
<1>4. /\ \A q \in Requests : Holding(q) /\ q # r => request[q].new # n
      /\ \A q \in Requests : request[q].old # n
      /\ \A b \in Browsers : jar[b].refresh # n
  BY <1>0 DEF HoldInv
<1>5. session[n].since = request[r].since
  BY <1>0 DEF HeldRowInv
<1>6. \A q \in Requests : Holding(q)' <=> Holding(q)
  BY <1>0, <1>2 DEF Holding
<1> HIDE DEF n
<1>7. RowInv'
  BY <1>1, <1>2, <1>3 DEF RowInv, Ids, TypeOK
<1>8. HoldInv'
  BY <1>2, <1>6 DEF HoldInv
<1>9. HeldRowInv'
  <2>1. \A q \in Requests : Holding(q) /\ q # r =>
           session'[request[q].new] = session[request[q].new]
    BY <1>3, <1>4, KnownIds
  <2> QED BY <1>2, <1>3, <2>1 DEF HeldRowInv, Holding, Live, n
<1>10. KnownInv'
  BY <1>0, <1>2, <1>3, <1>4, KnownIds DEF KnownInv
<1>11. SinceInv'
  BY <1>0, <1>2, <1>3 DEF SinceInv
<1>12. StayInv'
  BY <1>0, <1>2, <1>3, <1>4, KnownIds DEF StayInv, Live
<1>13. ResetEndsSessions'
  <2>1. request[r].late \/ session[n].since = resets
    BY <1>0, <1>5 DEF SinceInv
  <2> QED BY <1>2, <1>3, <2>1 DEF ResetEndsSessions, Live
<1> QED BY <1>7, <1>8, <1>9, <1>10, <1>11, <1>12, <1>13 DEF Rest

\* A request that is over: what it held is given up, and its browser may have
\* lost the heir of its token.
LEMMA DieStep ==
    ASSUME IInv, NEW r \in Requests, Die(r)
    PROVE  Rest'
<1> USE DEF IInv
<1>1. /\ \A q \in Requests : q # r => request'[q] = request[q]
      /\ request'[r] = Idle
      /\ UNCHANGED <<session, inserted, jar, resets>>
      /\ died' = died \cup {request[r].browser}
  BY DEF Die, End, TypeOK
<1>2. \A q \in Requests : Holding(q)' => q # r /\ Holding(q)
  BY <1>1 DEF Holding, Idle
<1>3. RowInv'
  BY <1>1 DEF RowInv
<1>4. HoldInv'
  <2>1. \A q \in Requests : Holding(q) => request[q].new # None
    BY DEF HoldInv, None, TypeOK
  <2> QED BY <1>1, <1>2, <2>1 DEF HoldInv, Idle
<1>5. HeldRowInv'
  BY <1>1 DEF HeldRowInv, Idle, Live
<1>6. KnownInv'
  BY <1>1 DEF KnownInv, Idle
<1>7. SinceInv'
  BY <1>1 DEF SinceInv, Idle, TypeOK
<1>8. StayInv'
  BY <1>1 DEF StayInv, Live
<1>9. ResetEndsSessions'
  BY <1>1 DEF ResetEndsSessions, Live
<1> QED BY <1>3, <1>4, <1>5, <1>6, <1>7, <1>8, <1>9 DEF Rest

\* The browser learns what only its request knew.
LEMMA SetCookiesStep ==
    ASSUME IInv, NEW r \in Requests, SetCookies(r)
    PROVE  Rest'
<1> USE DEF IInv
<1> DEFINE n == request[r].new
           home == request[r].browser
<1>1. /\ \A q \in Requests : q # r => request'[q] = request[q]
      /\ request'[r] = Idle /\ request[r].pc = "answer" /\ Holding(r)
      /\ \A b \in Browsers : b # home => jar'[b].refresh = jar[b].refresh
      /\ home \in Browsers => jar'[home].refresh = n
      /\ UNCHANGED <<session, inserted, resets, died>>
  BY DEF SetCookies, End, Holding, TypeOK
<1>2. \A q \in Requests : Holding(q)' => q # r /\ Holding(q)
  BY <1>1 DEF Holding, Idle
<1>3. /\ n \in Ids /\ n <= inserted /\ n # None
      /\ session[n].hash = "set"
      /\ Live(n) \/ session[n].since < resets
      /\ \A q \in Requests : request[q].old # n
      /\ \A b \in Browsers : jar[b].refresh # n
      /\ \A q \in Requests : Holding(q) /\ q # r => request[q].new # n
  BY <1>1, KnownIds DEF HoldInv, HeldRowInv
<1> HIDE DEF n, home
<1>4. RowInv'
  BY <1>1 DEF RowInv
<1>5. HoldInv'
  <2> SUFFICES ASSUME NEW q \in Requests, q # r, Holding(q)
               PROVE  /\ request[q].new \in 1..inserted
                      /\ \A p \in Requests : Holding(p) /\ p # q =>
                            request[p].new # request[q].new
                      /\ \A p \in Requests : request'[p].old # request[q].new
                      /\ \A b \in Browsers : jar'[b].refresh # request[q].new
    BY <1>1, <1>2 DEF HoldInv
  <2>1. request[q].new # None
    BY KnownIds
  <2>2. \A p \in Requests : request'[p].old # request[q].new
    BY <1>1, <2>1 DEF HoldInv, Idle
  <2>3. \A b \in Browsers : jar'[b].refresh # request[q].new
    BY <1>1, <1>3 DEF HoldInv
  <2> QED BY <2>2, <2>3 DEF HoldInv
<1>6. HeldRowInv'
  BY <1>1 DEF HeldRowInv, Idle, Live
<1>7. KnownInv'
  BY <1>1, <1>3 DEF KnownInv, Idle
<1>8. SinceInv'
  BY <1>1 DEF SinceInv, Idle, TypeOK
<1>9. StayInv'
  <2> SUFFICES ASSUME NEW b \in Browsers, jar'[b].refresh # None
               PROVE  \/ Live(jar'[b].refresh)
                      \/ session[jar'[b].refresh].since < resets
                      \/ b \in died
                      \/ \E q \in Requests :
                            /\ request'[q].browser = b
                            /\ request'[q].old = jar'[b].refresh
                            /\ request'[q].pc \in {"insert", "save", "answer"}
    BY <1>1 DEF StayInv, Live
  <2>1. CASE b = home
    BY <1>1, <1>3, <2>1
  <2>2. CASE b # home
    <3>1. \A q \in Requests : request[q].browser = b => q # r
      BY <2>2 DEF home
    <3> QED BY <1>1, <2>2, <3>1 DEF StayInv
  <2> QED BY <2>1, <2>2
<1>10. ResetEndsSessions'
  BY <1>1 DEF ResetEndsSessions, Live
<1> QED BY <1>4, <1>5, <1>6, <1>7, <1>8, <1>9, <1>10 DEF Rest

\* A browser that knows no session is signed out of none.
LEMMA ClearCookiesStep ==
    ASSUME IInv, NEW r \in Requests, ClearCookies(r)
    PROVE  Rest'
<1> USE DEF IInv
<1>1. /\ \A q \in Requests : q # r => request'[q] = request[q]
      /\ request'[r] = Idle /\ request[r].pc = "clear"
      /\ \A b \in Browsers : jar'[b].refresh \in {None, jar[b].refresh}
      /\ UNCHANGED <<session, inserted, resets, died>>
  BY DEF ClearCookies, End, TypeOK
<1>2. \A q \in Requests : Holding(q)' => q # r /\ Holding(q)
  BY <1>1 DEF Holding, Idle
<1>3. RowInv'
  BY <1>1 DEF RowInv
<1>4. HoldInv'
  BY <1>1, <1>2, KnownIds DEF HoldInv, Idle
<1>5. HeldRowInv'
  BY <1>1 DEF HeldRowInv, Idle, Live
<1>6. KnownInv'
  BY <1>1 DEF KnownInv, Idle
<1>7. SinceInv'
  BY <1>1 DEF SinceInv, Idle, TypeOK
<1>8. StayInv'
  BY <1>1 DEF StayInv, Live
<1>9. ResetEndsSessions'
  BY <1>1 DEF ResetEndsSessions, Live
<1> QED BY <1>3, <1>4, <1>5, <1>6, <1>7, <1>8, <1>9 DEF Rest

\* A reset that saves the password has touched no session yet.
LEMMA SavePasswordStep ==
    ASSUME IInv, NEW r \in Requests, SavePassword(r)
    PROVE  Rest'
<1> USE DEF IInv
<1>1. /\ \A q \in Requests : q # r => request'[q] = request[q]
      /\ request[r].pc = "password" /\ request'[r].pc = "revokeAll"
      /\ \A q \in Requests :
            /\ request'[q].browser = request[q].browser
            /\ request'[q].old = request[q].old
            /\ request'[q].new = request[q].new
            /\ request'[q].since = request[q].since
            /\ request'[q].late = request[q].late
      /\ UNCHANGED <<session, inserted, jar, resets, died>>
  BY DEF SavePassword, Goto, TypeOK, RequestStates
<1>2. RowInv' /\ HoldInv' /\ HeldRowInv'
  BY <1>1 DEF RowInv, HoldInv, Holding, HeldRowInv, Live
<1>3. KnownInv' /\ SinceInv' /\ ResetEndsSessions'
  BY <1>1 DEF KnownInv, SinceInv, ResetEndsSessions, Live
<1>4. StayInv'
  BY <1>1 DEF StayInv, Live
<1> QED BY <1>2, <1>3, <1>4 DEF Rest

\* A reset spends every session there is, and dates all earlier proofs.
LEMMA RevokeAllStep ==
    ASSUME IInv, NEW r \in Requests, RevokeAll(r)
    PROVE  Rest'
<1> USE DEF IInv
<1>1. /\ \A i \in Ids : i <= inserted => session'[i].revoked = TRUE
      /\ \A i \in Ids : i > inserted => session'[i] = NoSession
      /\ \A i \in Ids : /\ session'[i].hash = session[i].hash
                        /\ session'[i].since = session[i].since
  BY DEF RevokeAll, RevokedByReset, RowInv, TypeOK, SessionRows, Ids
<1>2. /\ request'[r] = Idle
      /\ \A q \in Requests : q # r =>
            /\ request'[q].pc = request[q].pc
            /\ request'[q].browser = request[q].browser
            /\ request'[q].old = request[q].old
            /\ request'[q].new = request[q].new
            /\ request'[q].since = request[q].since
            /\ request'[q].pc \in {"revoke", "insert", "save"} =>
                  request'[q].late
      /\ UNCHANGED <<inserted, jar, died>> /\ resets' = resets + 1
      /\ resets \in Nat
  <2>1. /\ request'[r] = Idle
        /\ UNCHANGED <<inserted, jar, died>> /\ resets' = resets + 1
        /\ resets \in Nat
    BY DEF RevokeAll, TypeOK
  <2>2. ASSUME NEW q \in Requests, q # r
        PROVE  /\ request'[q].pc = request[q].pc
               /\ request'[q].browser = request[q].browser
               /\ request'[q].old = request[q].old
               /\ request'[q].new = request[q].new
               /\ request'[q].since = request[q].since
    BY <2>2 DEF RevokeAll, TypeOK, RequestStates
  <2>3. ASSUME NEW q \in Requests, q # r,
               request[q].pc \in {"revoke", "insert", "save"}
        PROVE  request'[q].late
    BY <2>3 DEF RevokeAll, TypeOK, RequestStates
  <2> QED BY <2>1, <2>2, <2>3
<1>3. \A q \in Requests : Holding(q)' => q # r /\ Holding(q)
  BY <1>2 DEF Holding, Idle
<1>4. /\ \A i \in Ids : session[i].since \in Nat /\ session[i].since <= resets
      /\ \A q \in Requests : request[q].since \in Nat /\ request[q].since <= resets
  BY DEF SinceInv, TypeOK, SessionRows, RequestStates
<1>5. \A i \in Ids : session'[i].since < resets'
  BY <1>1, <1>2, <1>4
<1>6. RowInv'
  BY <1>1, <1>2 DEF RowInv
<1>7. HoldInv'
  BY <1>2, <1>3, KnownIds DEF HoldInv, Idle
<1>8. HeldRowInv'
  <2>1. \A q \in Requests : Holding(q)' =>
           request'[q].new \in Ids /\ request'[q].new = request[q].new
    BY <1>2, <1>3, KnownIds
  <2> QED BY <1>1, <1>2, <1>3, <1>5, <2>1 DEF HeldRowInv, Holding
<1>9. KnownInv'
  BY <1>1, <1>2, KnownIds DEF KnownInv, Idle
<1>10. SinceInv'
  <2>1. \A i \in Ids : session'[i].since <= resets'
    BY <1>1, <1>2, <1>4
  <2>2. \A q \in Requests : request'[q].since <= resets'
    BY <1>2, <1>4 DEF Idle
  <2>3. \A q \in Requests : request'[q].pc \in {"revoke", "insert", "save"} =>
           request'[q].late
    BY <1>2 DEF Idle
  <2> QED BY <2>1, <2>2, <2>3 DEF SinceInv
<1>11. StayInv'
  BY <1>2, <1>5, KnownIds DEF StayInv
<1>12. ResetEndsSessions'
  <2>1. \A i \in Ids : ~Live(i)'
    BY <1>1, KnownIds DEF Live, Ids, NoSession
  <2> QED BY <2>1 DEF ResetEndsSessions
<1> QED BY <1>6, <1>7, <1>8, <1>9, <1>10, <1>11, <1>12 DEF Rest

\* Access tokens and links concern no session.
LEMMA OtherStep ==
    ASSUME IInv, \/ \E b \in Browsers : GrantAccess(b) \/ ExpireAccess(b)
                 \/ MailLink \/ UNCHANGED vars
    PROVE  Rest'
<1> USE DEF IInv
<1>1. /\ \A b \in Browsers : jar'[b].refresh = jar[b].refresh
      /\ UNCHANGED <<session, inserted, request, resets, died>>
  BY DEF GrantAccess, ExpireAccess, MailLink, vars, TypeOK
<1>2. RowInv' /\ HoldInv' /\ HeldRowInv'
  BY <1>1 DEF RowInv, HoldInv, Holding, HeldRowInv, Live
<1>3. KnownInv' /\ SinceInv' /\ ResetEndsSessions'
  BY <1>1 DEF KnownInv, SinceInv, ResetEndsSessions, Live
<1>4. StayInv'
  BY <1>1 DEF StayInv, Live
<1> QED BY <1>2, <1>3, <1>4 DEF Rest

-----------------------------------------------------------------------------
(* The theorems *)

\* The invariant is inductive.
LEMMA IInvStep == IInv /\ [Next]_vars => IInv'
<1> SUFFICES ASSUME IInv, [Next]_vars PROVE IInv'
  OBVIOUS
<1>1. TypeOK'
  BY TypeStep
<1>2. Rest'
  BY BeginStep, RevokeOldStep, InsertSessionStep, SaveHashStep, SetCookiesStep,
     ClearCookiesStep, SavePasswordStep, RevokeAllStep, DieStep, OtherStep
     DEF Next, Serve
<1> QED BY <1>1, <1>2 DEF IInv, Rest

\* The strengthening of the properties below holds of every behaviour of the
\* handlers.
THEOREM SessionsInvariant == Spec => []IInv
<1>1. Init => IInv
  BY InitIInv
<1>2. IInv /\ [Next]_vars => IInv'
  BY IInvStep
<1> QED BY <1>1, <1>2, PTL DEF Spec

\* Rows, cookies and requests keep their types: no handler touches a session
\* that was never inserted.
THEOREM SessionsTypeCorrect == Spec => []TypeOK
<1>1. IInv => TypeOK
  BY DEF IInv
<1> QED BY <1>1, SessionsInvariant, PTL

\* refresh and issueTokensForWorkspace leave a browser at rest with a refresh
\* token that works, however many browsers and requests there are.
THEOREM SessionsStaySignedIn == Spec => []StaysSignedIn
<1>1. IInv => StaysSignedIn
  <2> SUFFICES ASSUME IInv, NEW b \in Browsers, jar[b].refresh # None
               PROVE  \/ Live(jar[b].refresh)
                      \/ session[jar[b].refresh].since < resets
                      \/ b \in died
                      \/ \E r \in Requests :
                            InFlight(r) /\ request[r].browser = b
    BY DEF StaysSignedIn
  <2> QED BY DEF IInv, StayInv, InFlight
<1> QED BY <1>1, SessionsInvariant, PTL

\* resetPassword leaves no session alive that stems from an older proof, but
\* for the requests it overtook.
THEOREM SessionsEndWithReset == Spec => []ResetEndsSessions
<1>1. IInv => ResetEndsSessions
  BY DEF IInv
<1> QED BY <1>1, SessionsInvariant, PTL

\* No save of a row undoes a revocation of a session whose token is out.
THEOREM SessionsRevokedForGood == Spec => RevokedForGood
<1>1. IInv /\ [Next]_vars =>
        [\A i \in Ids : session[i].hash = "set" /\ session[i].revoked =>
            session'[i].revoked]_vars
  <2> SUFFICES ASSUME IInv, Next, NEW i \in Ids,
                      session[i].hash = "set", session[i].revoked
               PROVE  session'[i].revoked
    OBVIOUS
  <2> USE DEF IInv
  <2>1. ASSUME NEW r \in Requests, RevokeOld(r) PROVE session'[i].revoked
    BY <2>1 DEF RevokeOld, TypeOK, SessionRows
  <2>2. ASSUME NEW r \in Requests, InsertSession(r) PROVE session'[i].revoked
    <3>1. i # inserted + 1
      BY BoundsAssumption DEF RowInv, NoSession, TypeOK, Ids
    <3> QED BY <2>2, <3>1 DEF InsertSession, RowFor, TypeOK
  <2>3. ASSUME NEW r \in Requests, SaveHash(r) PROVE session'[i].revoked
    <3>1. i # request[r].new
      BY <2>3 DEF SaveHash, HeldRowInv
    <3> QED BY <2>3, <3>1 DEF SaveHash, TypeOK
  <2>4. ASSUME NEW r \in Requests, RevokeAll(r) PROVE session'[i].revoked
    BY <2>4 DEF RevokeAll, TypeOK, SessionRows
  <2>5. ASSUME UNCHANGED session PROVE session'[i].revoked
    BY <2>5
  <2>6. ASSUME NEW r \in Requests, BeginRequest(r) PROVE UNCHANGED session
    BY <2>6 DEF BeginRequest, BeginLogin, BeginRefresh, BeginSwitch,
                BeginLogout, BeginReset, Begin
  <2> QED BY <2>1, <2>2, <2>3, <2>4, <2>5, <2>6
     DEF Next, Serve, SetCookies, ClearCookies, SavePassword, Die, GrantAccess,
         ExpireAccess, MailLink
<1> QED BY <1>1, SessionsInvariant, PTL DEF Spec, RevokedForGood

-----------------------------------------------------------------------------
(* The number of sessions *)

\* The sessions in use, and the refreshes that have spent one and have not yet
\* brought its heir to life.
LiveIds == {i \in Ids : Live(i)}
Rotating == {r \in Requests : /\ request[r].op = "refresh"
                              /\ request[r].pc \in {"insert", "save"}}

\* A rotation holds the place of the session it has spent.
CountInv ==
    /\ IsFiniteSet(Rotating)
    /\ Cardinality(LiveIds) + Cardinality(Rotating) <= opened

\* A set that gains at most one element.
LEMMA OneMore ==
    ASSUME NEW S, IsFiniteSet(S), NEW x, NEW T, T \subseteq S \cup {x}
    PROVE  /\ IsFiniteSet(T) /\ Cardinality(T) \in Nat /\ Cardinality(S) \in Nat
           /\ Cardinality(T) <= Cardinality(S) + 1
<1>1. /\ IsFiniteSet(S \cup {x})
      /\ Cardinality(S \cup {x}) = IF x \in S THEN Cardinality(S) ELSE Cardinality(S) + 1
  BY FS_AddElement
<1>2. IsFiniteSet(T) /\ Cardinality(T) <= Cardinality(S \cup {x})
  BY <1>1, FS_Subset
<1> QED BY <1>1, <1>2, FS_CardinalityType

\* A set that loses an element.
LEMMA OneLess ==
    ASSUME NEW S, IsFiniteSet(S), NEW x \in S, NEW T, T \subseteq S \ {x}
    PROVE  /\ IsFiniteSet(T) /\ Cardinality(T) \in Nat /\ Cardinality(S) \in Nat
           /\ Cardinality(T) + 1 <= Cardinality(S)
<1>1. IsFiniteSet(S \ {x}) /\ Cardinality(S \ {x}) = Cardinality(S) - 1
  BY FS_RemoveElement
<1>2. IsFiniteSet(T) /\ Cardinality(T) <= Cardinality(S \ {x})
  BY <1>1, FS_Subset
<1> QED BY <1>1, <1>2, FS_CardinalityType

\* A set that gains none.
LEMMA NoMore ==
    ASSUME NEW S, IsFiniteSet(S), NEW T, T \subseteq S
    PROVE  /\ IsFiniteSet(T) /\ Cardinality(T) \in Nat /\ Cardinality(S) \in Nat
           /\ Cardinality(T) <= Cardinality(S)
  BY FS_Subset, FS_CardinalityType

\* There are finitely many rows.
LEMMA FewIds == IsFiniteSet(LiveIds) /\ IsFiniteSet(LiveIds')
<1>1. IsFiniteSet(Ids) /\ LiveIds \subseteq Ids /\ LiveIds' \subseteq Ids
  BY FS_Interval, BoundsAssumption DEF Ids, LiveIds
<1> QED BY <1>1, FS_Subset

\* No session comes to life and no rotation begins.
LEMMA CountKept ==
    ASSUME TypeOK, CountInv, opened' = opened,
           LiveIds' \subseteq LiveIds, Rotating' \subseteq Rotating
    PROVE  CountInv'
<1>1. /\ Cardinality(LiveIds') <= Cardinality(LiveIds)
      /\ Cardinality(LiveIds') \in Nat /\ Cardinality(LiveIds) \in Nat
  BY FewIds, NoMore
<1>2. /\ IsFiniteSet(Rotating') /\ Cardinality(Rotating') <= Cardinality(Rotating)
      /\ Cardinality(Rotating') \in Nat /\ Cardinality(Rotating) \in Nat
  BY NoMore DEF CountInv
<1>3. opened \in Nat /\ Cardinality(LiveIds) + Cardinality(Rotating) <= opened
  BY DEF TypeOK, CountInv
<1>4. Cardinality(LiveIds') + Cardinality(Rotating') <= opened'
  BY <1>1, <1>2, <1>3
<1> QED BY <1>2, <1>4 DEF CountInv

\* Every step keeps the count: a refresh that spends a live session takes its
\* place, and one whose session another refresh had spent meanwhile is counted
\* in opened, as are logins and switches when they save their hash.
LEMMA CountStep == IInv /\ CountInv /\ [Next]_vars => CountInv'
<1> SUFFICES ASSUME IInv, CountInv, [Next]_vars PROVE CountInv'
  OBVIOUS
<1> USE DEF IInv
<1>0. /\ IsFiniteSet(LiveIds) /\ IsFiniteSet(LiveIds') /\ IsFiniteSet(Rotating)
      /\ Cardinality(LiveIds) \in Nat /\ Cardinality(Rotating) \in Nat
      /\ opened \in Nat /\ Cardinality(LiveIds) + Cardinality(Rotating) <= opened
      /\ request \in [Requests -> RequestStates] /\ session \in [Ids -> SessionRows]
  BY FewIds, FS_CardinalityType DEF CountInv, TypeOK
<1>1. ASSUME NEW r \in Requests, BeginRequest(r) PROVE CountInv'
  <2>1. \E op \in BeginOps, pc \in BeginPcs :
           /\ UNCHANGED <<session, opened>> /\ (op = "refresh" => pc = "revoke")
           /\ request'[r].op = op /\ request'[r].pc = pc
           /\ \A q \in Requests : q # r => request'[q] = request[q]
    BY <1>0, <1>1 DEF BeginRequest, BeginLogin, BeginRefresh, BeginSwitch, BeginLogout,
       BeginReset, Begin, BeginOps, BeginPcs
  <2>2. LiveIds' = LiveIds /\ Rotating' \subseteq Rotating
    BY <2>1 DEF LiveIds, Live, Rotating
  <2> QED BY <2>1, <2>2, CountKept
<1>2. ASSUME NEW r \in Requests, RevokeOld(r) PROVE CountInv'
  <2>1. PICK i : i = request[r].old
    OBVIOUS
  <2>2. i \in Ids /\ session[i].hash = "set" /\ request[r].pc = "revoke"
    BY <1>2, <2>1, KnownIds DEF RevokeOld, KnownInv
  <2>3. /\ session' = [session EXCEPT ![i].revoked = TRUE]
        /\ opened' = IF session[i].revoked THEN opened + 1 ELSE opened
        /\ \A q \in Requests : q # r => request'[q] = request[q]
    BY <1>0, <1>2, <2>1 DEF RevokeOld, Goto
  <2>4. LiveIds' \subseteq LiveIds \ {i}
    BY <1>0, <2>2, <2>3 DEF LiveIds, Live, SessionRows
  <2>5. Rotating' \subseteq Rotating \cup {r}
    BY <2>3 DEF Rotating
  <2>6. /\ IsFiniteSet(Rotating') /\ Cardinality(Rotating') \in Nat
        /\ Cardinality(Rotating') <= Cardinality(Rotating) + 1
    BY <1>0, <2>5, OneMore
  <2>7. CASE session[i].revoked
    <3>1. Cardinality(LiveIds') \in Nat /\ Cardinality(LiveIds') <= Cardinality(LiveIds)
      BY <1>0, <2>4, NoMore
    <3>2. Cardinality(LiveIds') + Cardinality(Rotating') <= opened'
      BY <1>0, <2>3, <2>6, <2>7, <3>1
    <3> QED BY <2>6, <3>2 DEF CountInv
  <2>8. CASE ~session[i].revoked
    <3>1. i \in LiveIds
      BY <2>2, <2>8 DEF LiveIds, Live
    <3>2. /\ Cardinality(LiveIds') \in Nat
          /\ Cardinality(LiveIds') + 1 <= Cardinality(LiveIds)
      BY <1>0, <2>4, <3>1, OneLess
    <3>3. Cardinality(LiveIds') + Cardinality(Rotating') <= opened'
      BY <1>0, <2>3, <2>6, <2>8, <3>2
    <3> QED BY <2>6, <3>3 DEF CountInv
  <2> QED BY <2>7, <2>8
<1>3. ASSUME NEW r \in Requests, InsertSession(r) PROVE CountInv'
  <2>1. PICK i : i = inserted + 1
    OBVIOUS
  <2>2. i \in Ids
    BY <1>3, <2>1, BoundsAssumption DEF InsertSession, TypeOK, Ids
  <2>3. /\ session'[i].hash = "pending" /\ opened' = opened
        /\ \A j \in Ids : j # i => session'[j] = session[j]
        /\ request[r].pc = "insert" /\ request'[r].op = request[r].op
        /\ \A q \in Requests : q # r => request'[q] = request[q]
    BY <1>0, <1>3, <2>1, <2>2
       DEF InsertSession, RowFor, NoSession, SessionRows, RequestStates
  <2>4. LiveIds' \subseteq LiveIds
    BY <2>2, <2>3 DEF LiveIds, Live
  <2>5. Rotating' \subseteq Rotating
    BY <2>3 DEF Rotating
  <2> QED BY <2>3, <2>4, <2>5, CountKept
<1>4. ASSUME NEW r \in Requests, SaveHash(r) PROVE CountInv'
  <2>1. PICK i : i = request[r].new
    OBVIOUS
  <2>2. /\ request[r].pc = "save" /\ request'[r].pc = "answer"
        /\ \A j \in Ids : j # i => session'[j] = session[j]
        /\ \A q \in Requests : q # r => request'[q] = request[q]
        /\ opened' = IF request[r].op = "refresh" THEN opened ELSE opened + 1
    BY <1>0, <1>4, <2>1 DEF SaveHash, Goto, RequestStates
  <2>3. LiveIds' \subseteq LiveIds \cup {i}
    BY <2>2 DEF LiveIds, Live
  <2>4. Rotating' \subseteq Rotating \ {r}
    BY <2>2 DEF Rotating
  <2>5. /\ Cardinality(LiveIds') \in Nat
        /\ Cardinality(LiveIds') <= Cardinality(LiveIds) + 1
    BY <1>0, <2>3, OneMore
  <2>6. CASE request[r].op = "refresh"
    <3>1. r \in Rotating
      BY <2>2, <2>6 DEF Rotating
    <3>2. /\ IsFiniteSet(Rotating') /\ Cardinality(Rotating') \in Nat
          /\ Cardinality(Rotating') + 1 <= Cardinality(Rotating)
      BY <1>0, <2>4, <3>1, OneLess
    <3>3. Cardinality(LiveIds') + Cardinality(Rotating') <= opened'
      BY <1>0, <2>2, <2>5, <2>6, <3>2
    <3> QED BY <3>2, <3>3 DEF CountInv
  <2>7. CASE request[r].op # "refresh"
    <3>1. /\ IsFiniteSet(Rotating') /\ Cardinality(Rotating') \in Nat
          /\ Cardinality(Rotating') <= Cardinality(Rotating)
      BY <1>0, <2>4, NoMore
    <3>2. Cardinality(LiveIds') + Cardinality(Rotating') <= opened'
      BY <1>0, <2>2, <2>5, <2>7, <3>1
    <3> QED BY <3>1, <3>2 DEF CountInv
  <2> QED BY <2>6, <2>7
<1>5. ASSUME NEW r \in Requests,
             SetCookies(r) \/ ClearCookies(r) \/ SavePassword(r) \/ Die(r)
      PROVE  CountInv'
  <2>1. /\ UNCHANGED <<session, opened>>
        /\ request'[r].pc \in {"idle", "revokeAll"}
        /\ \A q \in Requests : q # r => request'[q] = request[q]
    BY <1>0, <1>5 DEF SetCookies, ClearCookies, SavePassword, Die, Goto, End, Idle,
       RequestStates
  <2>2. LiveIds' = LiveIds /\ Rotating' \subseteq Rotating
    BY <2>1 DEF LiveIds, Live, Rotating
  <2> QED BY <2>1, <2>2, CountKept
<1>6. ASSUME NEW r \in Requests, RevokeAll(r) PROVE CountInv'
  <2>0. opened' = opened /\ request \in [Requests -> RequestStates]
    BY <1>0, <1>6 DEF RevokeAll
  <2>1. ASSUME NEW i \in Ids
        PROVE  session'[i] \in {session[i], [session[i] EXCEPT !.revoked = TRUE]}
    BY <1>0, <1>6 DEF RevokeAll
  <2>4. ASSUME NEW q \in Requests
        PROVE  \/ request'[q].pc = "idle"
               \/ request'[q].op = request[q].op /\ request'[q].pc = request[q].pc
    <3>1. CASE q = r
      BY <2>0, <1>6, <3>1 DEF RevokeAll, Idle
    <3>2. CASE q # r
      <4>1. \E l \in BOOLEAN : request'[q] = [request[q] EXCEPT !.late = l]
        BY <2>0, <1>6, <3>2 DEF RevokeAll, RequestStates
      <4> QED BY <2>0, <4>1 DEF RequestStates
    <3> QED BY <3>1, <3>2
  <2>2. LiveIds' \subseteq LiveIds
    BY <1>0, <2>1 DEF LiveIds, Live, SessionRows
  <2>3. Rotating' \subseteq Rotating
    BY <2>4 DEF Rotating
  <2> QED BY <2>0, <2>2, <2>3, CountKept
<1>7. CASE \/ \E b \in Browsers : GrantAccess(b) \/ ExpireAccess(b)
           \/ MailLink \/ UNCHANGED vars
  <2>1. UNCHANGED <<session, request, opened>>
    BY <1>7 DEF GrantAccess, ExpireAccess, MailLink, vars
  <2>2. LiveIds' = LiveIds /\ Rotating' = Rotating
    BY <2>1 DEF LiveIds, Live, Rotating
  <2> QED BY <2>1, <2>2, CountKept
<1> QED BY <1>1, <1>2, <1>3, <1>4, <1>5, <1>6, <1>7 DEF Next, Serve

\* Rotation: no handler makes two sessions of one, in any number of browsers and
\* requests; there are never more than logins, switches and raced refreshes
\* opened.
THEOREM SessionsAreCounted == Spec => []SessionsDoNotMultiply
<1>1. Init => CountInv
  <2> SUFFICES ASSUME Init PROVE CountInv
    OBVIOUS
  <2>1. LiveIds = {} /\ Rotating = {} /\ opened = 0
    BY DEF Init, LiveIds, Live, Rotating, NoSession, Idle
  <2> QED BY <2>1, FS_EmptySet DEF CountInv
<1>2. IInv /\ CountInv /\ [Next]_vars => CountInv'
  BY CountStep
<1>3. IInv /\ CountInv => SessionsDoNotMultiply
  <2> SUFFICES ASSUME IInv, CountInv PROVE SessionsDoNotMultiply
    OBVIOUS
  <2>1. Cardinality(LiveIds) \in Nat /\ Cardinality(Rotating) \in Nat /\ opened \in Nat
    BY FewIds, FS_CardinalityType DEF CountInv, IInv, TypeOK
  <2>2. Cardinality(LiveIds) <= opened
    BY <2>1 DEF CountInv
  <2> QED BY <2>2 DEF SessionsDoNotMultiply, LiveIds
<1> QED BY <1>1, <1>2, <1>3, SessionsInvariant, PTL DEF Spec
=============================================================================
