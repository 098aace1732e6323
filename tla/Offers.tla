------------------------------- MODULE Offers -------------------------------
(***************************************************************************)
(* What the hand-over of an OAuth grant promises.  A grant for a workspace *)
(* becomes an offer of profiles, or is dropped.  While an offer is open    *)
(* its profiles may be connected to that workspace and no other; once it   *)
(* is closed it connects nothing any more and never opens again.           *)
(* A connection may be removed at any time.                                *)
(***************************************************************************)
CONSTANTS Flows, Keys, Workspaces

VARIABLES
    offer,      \* offer[f]: "none", the set of keys on offer, or "closed"
    connected   \* keys that are connected

vars == <<offer, connected>>

Init ==
    /\ offer = [f \in Flows |-> [state |-> "none", keys |-> {}]]
    /\ connected = {}

OfWorkspace(w) == {k \in Keys : k.workspace = w}

Offer(f) ==
    /\ offer[f].state = "none"
    /\ offer' = [offer EXCEPT ![f] = [state |-> "open", keys |-> offer'[f].keys]]
    /\ \E w \in Workspaces : offer'[f].keys \subseteq OfWorkspace(w)
    /\ UNCHANGED connected

Connect(f) ==
    /\ offer[f].state = "open"
    /\ \E k \in offer[f].keys : connected' = connected \cup {k}
    /\ \/ UNCHANGED offer
       \/ offer' = [offer EXCEPT ![f].state = "closed"]

\* A crash may close several at once.
Close ==
    /\ \E F \in SUBSET {f \in Flows : offer[f].state = "open"} :
          offer' = [f \in Flows |->
            IF f \in F THEN [offer[f] EXCEPT !.state = "closed"] ELSE offer[f]]
    /\ UNCHANGED connected

Disconnect ==
    /\ \E k \in connected : connected' = connected \ {k}
    /\ UNCHANGED offer

Next == (\E f \in Flows : Offer(f) \/ Connect(f)) \/ Close \/ Disconnect

Spec == Init /\ [][Next]_vars
=============================================================================
