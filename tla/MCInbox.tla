------------------------------- MODULE MCInbox -------------------------------
(* Instances of Inbox for TLC. *)
EXTENDS Inbox

CONSTANTS m1, m2, r1

OneMessage == {m1}
TwoMessages == {m1, m2}
OneReply == {r1}

\* Ticks 1 and 2 are of one second.
OneSecond == [t \in Times |-> IF t = 0 THEN 0 ELSE 1]
=============================================================================
