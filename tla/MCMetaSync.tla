----------------------------- MODULE MCMetaSync -----------------------------
(* Instances of MetaSync for TLC. *)
EXTENDS MetaSync, TLC

CONSTANTS r1, r2

OneRequest == {r1}
TwoRequests == {r1, r2}
Symmetry == Permutations({r1, r2})
SomePeriods == {2}
=============================================================================
