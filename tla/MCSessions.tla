------------------------------ MODULE MCSessions ------------------------------
(* Instances of Sessions for TLC. *)
EXTENDS Sessions, TLC

CONSTANTS r1, r2, b1, b2

TwoRequests == {r1, r2}
TwoBrowsers == {b1, b2}
Symmetry == Permutations({r1, r2}) \cup Permutations({b1, b2})
=============================================================================
