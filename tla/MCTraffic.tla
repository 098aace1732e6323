------------------------------ MODULE MCTraffic ------------------------------
(* An instance of Traffic for TLC. *)
EXTENDS Traffic, TLC

CONSTANTS a, b, P, Q, t, m, n, q1, q2, s1, s2, social, direct

TwoIds == {a, b}
TwoPages == {P, Q}
OneTeam == {t}
TwoMediums == {m, n}
OneMediumEach == [id \in TwoIds |-> IF id = a THEN m ELSE n]
TwoRequests == {q1, q2}
TwoSyncs == {s1, s2}
OneDay == {1}
TwoSources == {social, direct}
OneSource == {social}
FourRows == 1..4
FirstRows == {1, 3, 4}
ThreeKeys == [r \in FourRows |-> [day |-> 1, source |-> IF r = 4 THEN direct ELSE social,
                                  medium |-> IF r = 3 THEN n ELSE m]]
PowersOfTen == [r \in FourRows |-> CASE r = 1 -> 1 [] r = 2 -> 10 [] r = 3 -> 100 [] r = 4 -> 1000]
Symmetry == Permutations(TwoPages) \cup Permutations(TwoRequests) \cup Permutations(TwoSyncs)
=============================================================================
