---------------------------- MODULE MCPublishing ----------------------------
(* Instances of Publishing for TLC. *)
EXTENDS Publishing, TLC

CONSTANTS r1, r2, f1, f2

OneRequest == {r1}
TwoRequests == {r1, r2}
OneProfile == {f1}
TwoProfiles == {f1, f2}

\* Requests are interchangeable, and so are profiles.
Symmetry == Permutations({r1, r2}) \cup Permutations({f1, f2})
=============================================================================
