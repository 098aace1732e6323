--------------------------- MODULE PostLifecycle ---------------------------
(***************************************************************************)
(* What the scheduling module promises about the status of one content     *)
(* post: the state machine of ops-schedule.service.ts (TRANSITIONS) joined *)
(* with the three status changes of the publish processor, and nothing     *)
(* else.  "absent" stands for a post with no row: not yet created, or      *)
(* deleted while still a draft.                                            *)
(***************************************************************************)

VARIABLE status

Init == status = "absent"

Move(from, to) == status = from /\ status' = to

Create == Move("absent", "draft")
Delete == Move("draft", "absent")

SubmitForReview == Move("draft", "review")
Approve == Move("review", "approved")
Reject == Move("review", "draft")
Schedule == Move("approved", "scheduled")

StartPublishing == Move("scheduled", "publishing")
Published == Move("publishing", "published")
Failed == Move("publishing", "failed")

Next ==
    \/ Create \/ Delete
    \/ SubmitForReview \/ Approve \/ Reject \/ Schedule
    \/ StartPublishing \/ Published \/ Failed

Spec == Init /\ [][Next]_status
=============================================================================
