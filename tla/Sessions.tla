------------------------------- MODULE Sessions -------------------------------
(***************************************************************************)
(* The sessions of one user: login, refresh, logout, workspace switch and  *)
(* password reset of AuthService and AuthController, with the cookies of   *)
(* the user's browsers.  Users share no rows, so one is enough.            *)
(*                                                                         *)
(* Every await is a point where another request may step, and an answer    *)
(* reaches its browser some time after the handler is done.  Tokens are    *)
(* known by the session they belong to; which workspace an access token    *)
(* names, and that a refresh token ages, is left out.                      *)
(***************************************************************************)
EXTENDS Naturals, FiniteSets

CONSTANTS
    Browsers,
    Requests,    \* requests in flight at the same time, from any browser
    MaxSessions, \* bound: rows ever inserted
    MaxCalls     \* bound: requests that pass their checks

ASSUME BoundsAssumption == MaxSessions \in Nat /\ MaxCalls \in Nat

VARIABLES
    session,     \* session[i]: the sessions row that was inserted as the i-th
    inserted,    \* number of rows inserted
    jar,         \* jar[b]: refresh_token (0: none) and access_token of browser b
    link,        \* users.reset_token: of a link sent, or none
    request,     \* request[r]
    opened,      \* sessions opened by a login, by a switch, or by a refresh
                 \* whose session another refresh had spent meanwhile
    resets,      \* password resets that have revoked the sessions
    calls,       \* requests so far
    died         \* browsers some request of which died

vars == <<session, inserted, jar, link, request, opened, resets, calls, died>>

Ids == 1..MaxSessions
None == 0

\* since counts the resets that were over when the user last proved who he is,
\* by a password or an access token, and late says that a reset was over before
\* the request that inserted the row, or one of its ancestors.
NoSession == [hash |-> "none", revoked |-> FALSE, since |-> 0, late |-> FALSE]
Idle == [pc |-> "idle", browser |-> "none", op |-> "none", old |-> None,
         new |-> None, since |-> 0, late |-> FALSE]

Live(i) == session[i].hash = "set" /\ ~session[i].revoked
InFlight(r) == request[r].pc # "idle"

SessionRows == [hash : {"none", "pending", "set"}, revoked : BOOLEAN,
                since : Nat, late : BOOLEAN]

RequestStates ==
    [pc : {"idle", "revoke", "insert", "save", "answer", "clear", "password",
           "revokeAll"},
     browser : Browsers \cup {"none"},
     op : {"none", "login", "refresh", "switch", "logout", "reset"},
     old : Ids \cup {None}, new : Ids \cup {None}, since : Nat, late : BOOLEAN]

TypeOK ==
    /\ session \in [Ids -> SessionRows]
    /\ inserted \in 0..MaxSessions
    /\ jar \in [Browsers -> [refresh : Ids \cup {None}, access : BOOLEAN]]
    /\ link \in {"none", "sent"}
    /\ request \in [Requests -> RequestStates]
    /\ opened \in Nat /\ resets \in Nat
    /\ calls \in 0..MaxCalls
    /\ died \subseteq Browsers \cup {"none"}

Init ==
    /\ session = [i \in Ids |-> NoSession]
    /\ inserted = 0
    /\ jar = [b \in Browsers |-> [refresh |-> None, access |-> FALSE]]
    /\ link = "none"
    /\ request = [r \in Requests |-> Idle]
    /\ opened = 0
    /\ resets = 0
    /\ calls = 0
    /\ died = {}

-----------------------------------------------------------------------------
(* Requests that pass their checks; a refused one changes nothing *)

\* From browser b, about to do pc, on the word of a proof that dates from since.
Begin(r, b, op, pc, old, since, late) ==
    /\ ~InFlight(r)
    /\ calls < MaxCalls
    /\ calls' = calls + 1
    /\ request' = [request EXCEPT ![r] =
          [pc |-> pc, browser |-> b, op |-> op, old |-> old, new |-> None,
           since |-> since, late |-> late]]
    /\ UNCHANGED <<session, inserted, jar, link, opened, resets, died>>

\* The password is compared with the hash that was read.
BeginLogin(r, b) == Begin(r, b, "login", "insert", None, resets, FALSE)

\* The cookie's session is read once, and is not to be revoked.
BeginRefresh(r, b) ==
    LET i == jar[b].refresh
    IN  /\ i # None /\ Live(i)
        /\ Begin(r, b, "refresh", "revoke", i, session[i].since, session[i].late)

\* The guard wants an access token, the service an active membership.
BeginSwitch(r, b) ==
    /\ jar[b].access
    /\ Begin(r, b, "switch", "insert", None, resets, FALSE)

\* The route is public, so the guard does not fill in the user whose sessions
\* the handler would revoke; what is left of it is its answer.
BeginLogout(r, b) == Begin(r, b, "logout", "clear", None, 0, FALSE)

\* The token is compared with the hashes that were read; it comes from a mail.
BeginReset(r) ==
    link = "sent" /\ Begin(r, "none", "reset", "password", None, 0, FALSE)

BeginRequest(r) ==
    \/ \E b \in Browsers : \/ BeginLogin(r, b) \/ BeginRefresh(r, b)
                           \/ BeginSwitch(r, b) \/ BeginLogout(r, b)
    \/ BeginReset(r)

\* forgotPassword.
MailLink ==
    /\ link' = "sent"
    /\ UNCHANGED <<session, inserted, jar, request, opened, resets, calls, died>>

-----------------------------------------------------------------------------
(* refresh and issueTokensForWorkspace *)

Goto(r, pc) == request' = [request EXCEPT ![r].pc = pc]
End(r) == request' = [request EXCEPT ![r] = Idle]

\* Mutant: nothing is revoked.
RevokeNothing(r) ==
    /\ request[r].pc = "revoke"
    /\ Goto(r, "insert")
    /\ UNCHANGED <<session, inserted, jar, link, opened, resets, calls, died>>

\* Mutant: a refresh revokes every session of the user.
RevokeEvery(r) ==
    /\ request[r].pc = "revoke"
    /\ session' = [i \in Ids |-> [session[i] EXCEPT !.revoked = i <= inserted]]
    /\ opened' = IF session[request[r].old].revoked THEN opened + 1 ELSE opened
    /\ Goto(r, "insert")
    /\ UNCHANGED <<inserted, jar, link, resets, calls, died>>

\* The update has no condition on revoked_at.
RevokeOld(r) ==
    /\ request[r].pc = "revoke"
    /\ session' = [session EXCEPT ![request[r].old].revoked = TRUE]
    /\ opened' = IF session[request[r].old].revoked THEN opened + 1 ELSE opened
    /\ Goto(r, "insert")
    /\ UNCHANGED <<inserted, jar, link, resets, calls, died>>

\* Mutant: a refresh takes the row of the old session again.
RowForReused(r) ==
    IF request[r].op = "refresh" THEN request[r].old ELSE inserted + 1

\* The row that the first save inserts.
RowFor(r) == inserted + 1

\* The first save: a row whose hash is 'pending'.  Bound: MaxSessions rows.
InsertSession(r) ==
    LET i == RowFor(r)
    IN  /\ request[r].pc = "insert" /\ inserted < MaxSessions
        /\ inserted' = inserted + 1
        /\ session' = [session EXCEPT ![i] =
              [NoSession EXCEPT !.hash = "pending", !.since = request[r].since]]
        /\ request' = [request EXCEPT ![r] = [@ EXCEPT !.pc = "save", !.new = i]]
        /\ UNCHANGED <<jar, link, opened, resets, calls, died>>

\* Mutant: the token itself is stored.
StoredToken == "raw"

\* bcrypt.hash of the token.
StoredHash == "set"

\* The second save writes the row as the first one left it, revoked_at (NULL)
\* included.
SaveHash(r) ==
    /\ request[r].pc = "save"
    /\ session' = [session EXCEPT ![request[r].new] =
          [@ EXCEPT !.hash = StoredHash, !.revoked = FALSE,
                    !.late = request[r].late]]
    /\ opened' = IF request[r].op = "refresh" THEN opened ELSE opened + 1
    /\ Goto(r, "answer")
    /\ UNCHANGED <<inserted, jar, link, resets, calls, died>>

\* The answer sets both cookies.
SetCookies(r) ==
    /\ request[r].pc = "answer"
    /\ jar' = [jar EXCEPT ![request[r].browser] =
                  [refresh |-> request[r].new, access |-> TRUE]]
    /\ End(r)
    /\ UNCHANGED <<session, inserted, link, opened, resets, calls, died>>

ClearCookies(r) ==
    /\ request[r].pc = "clear"
    /\ jar' = [jar EXCEPT ![request[r].browser] =
                  [refresh |-> None, access |-> FALSE]]
    /\ End(r)
    /\ UNCHANGED <<session, inserted, link, opened, resets, calls, died>>

-----------------------------------------------------------------------------
(* resetPassword *)

\* The new hash, and the end of the link.
SavePassword(r) ==
    /\ request[r].pc = "password"
    /\ link' = "none"
    /\ Goto(r, "revokeAll")
    /\ UNCHANGED <<session, inserted, jar, opened, resets, calls, died>>

\* Mutant: only the newest session is revoked.
RevokedByResetNewest == {inserted} \cap Ids

\* Every row of the user, 'pending' ones included.
RevokedByReset == 1..inserted

\* Requests under way now may still bring a session to life.
RevokeAll(r) ==
    /\ request[r].pc = "revokeAll"
    /\ session' = [i \in Ids |->
          IF i \in RevokedByReset THEN [session[i] EXCEPT !.revoked = TRUE]
          ELSE session[i]]
    /\ resets' = resets + 1
    /\ request' = [q \in Requests |->
          IF q = r THEN Idle ELSE [request[q] EXCEPT !.late =
              @ \/ request[q].pc \in {"revoke", "insert", "save"}]]
    /\ UNCHANGED <<inserted, jar, link, opened, calls, died>>

Serve(r) ==
    \/ RevokeOld(r) \/ InsertSession(r) \/ SaveHash(r)
    \/ SetCookies(r) \/ ClearCookies(r)
    \/ SavePassword(r) \/ RevokeAll(r)

-----------------------------------------------------------------------------
(* The rest of the world *)

\* Google's callback and verify-email set an access_token and nothing else.
GrantAccess(b) ==
    /\ ~jar[b].access
    /\ jar' = [jar EXCEPT ![b].access = TRUE]
    /\ UNCHANGED <<session, inserted, link, request, opened, resets, calls, died>>

\* The access_token of 15 minutes.
ExpireAccess(b) ==
    /\ jar[b].access
    /\ jar' = [jar EXCEPT ![b].access = FALSE]
    /\ UNCHANGED <<session, inserted, link, request, opened, resets, calls, died>>

\* A call of the database fails, the process dies or the answer is lost.
Die(r) ==
    /\ InFlight(r)
    /\ died' = died \cup {request[r].browser}
    /\ End(r)
    /\ UNCHANGED <<session, inserted, jar, link, opened, resets, calls>>

Next ==
    \/ \E r \in Requests : BeginRequest(r) \/ Serve(r) \/ Die(r)
    \/ \E b \in Browsers : GrantAccess(b) \/ ExpireAccess(b)
    \/ MailLink

Spec == Init /\ [][Next]_vars

-----------------------------------------------------------------------------
(* Properties *)

\* A browser at rest that holds a refresh token can use it: neither its other
\* tabs, nor other browsers, nor the answers' order sign it out, only a reset
\* (or a fault of its own: its token may be spent and the heir lost).
StaysSignedIn ==
    \A b \in Browsers : LET i == jar[b].refresh
                        IN  i # None =>
                              \/ Live(i)
                              \/ session[i].since < resets
                              \/ b \in died
                              \/ \E r \in Requests :
                                    InFlight(r) /\ request[r].browser = b

\* Rotation keeps the number of sessions: there are no more live ones than
\* logins and switches opened, but for the refreshes that raced for one token.
SessionsDoNotMultiply == Cardinality({i \in Ids : Live(i)}) <= opened

\* After a reset no session lives on the word of an older proof, not even one
\* refreshed many times since, unless the reset overtook its request.
ResetEndsSessions ==
    \A i \in Ids : Live(i) => session[i].late \/ session[i].since = resets

\* A session whose token was handed out never comes back once it is revoked,
\* although the second save of a new session writes its revoked_at.
RevokedForGood ==
    [][\A i \in Ids : session[i].hash = "set" /\ session[i].revoked =>
          session'[i].revoked]_vars
=============================================================================
