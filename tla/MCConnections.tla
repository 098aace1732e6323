--------------------------- MODULE MCConnections ----------------------------
(* An instance of Connections for TLC. *)
EXTENDS Connections, TLC

CONSTANTS p1, p2, i1, q1, q2, f1, f2, w1, w2

TwoPages == {p1, p2}
OneAccount == [p \in TwoPages |-> IF p = p1 THEN i1 ELSE NoAccount]
TwoRequests == {q1, q2}
TwoFlows == {f1, f2}
TwoWorkspaces == {w1, w2}
Symmetry ==
    Permutations(TwoRequests) \cup Permutations(TwoFlows) \cup Permutations(TwoWorkspaces)
FewSelections == {{p1}, {p2}, {p1, p2}, {i1}}
ThreePlatforms == {"facebook", "instagram", "tiktok"}
=============================================================================
