------------------------------ MODULE MCReports ------------------------------
(* An instance of Reports and Revenue for TLC. *)
EXTENDS Revenue

FewFollowers == 0..2

\* The first day has a breakdown, the second a bonus only, the third nothing.
FewEarnings ==
    [p \in Facebook |-> [d \in Days |-> [l \in Labels |->
       CASE d = 1 /\ l = "video" -> 10
         [] d = 1 /\ l = "content_monetization" -> 100
         [] d = 2 /\ l = "bonus" -> 1
         [] OTHER -> 0]]]
=============================================================================
