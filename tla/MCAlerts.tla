------------------------------ MODULE MCAlerts ------------------------------
(* An instance of Alerts for TLC. *)
EXTENDS Alerts, TLC

CONSTANTS a, b, e1, e2

TwoEvents == {e1, e2}
Symmetry == Permutations(TwoEvents)
TwoRules == {a, b}
DropAndRise == [r \in TwoRules |->
    IF r = a THEN [op |-> "pct_drop", threshold |-> 50, channel |-> "email"]
    ELSE [op |-> "pct_rise", threshold |-> 0, channel |-> "in_app"]]
FewValues == 0..2
=============================================================================
