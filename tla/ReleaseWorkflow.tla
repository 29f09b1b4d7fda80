-------------------------- MODULE ReleaseWorkflow ---------------------------
(***************************************************************************)
(* What the release workflow promises, one atomic step per operation: the  *)
(* status graph draft -> pending_review -> published | rejected, with the  *)
(* resubmission of a rejected release and the recall of any release by a   *)
(* rollback.  ReleaseSerial shows that the code keeps it when requests do  *)
(* not overlap.                                                            *)
(***************************************************************************)
CONSTANTS Version

VARIABLES
    status,  \* status of each version, "none" when there is no release
    closed   \* the course has been deleted

wfVars == <<status, closed>>

WFInit ==
    /\ status = [v \in Version |-> "none"]
    /\ closed = FALSE

Move(v, from, to) ==
    /\ status[v] \in from
    /\ \E s \in to : status' = [status EXCEPT ![v] = s]
    /\ UNCHANGED closed

Create(v) == ~closed /\ Move(v, {"none"}, {"draft", "pending_review", "published"})
Submit(v) == Move(v, {"draft"}, {"pending_review"})
Decide(v) == Move(v, {"pending_review"}, {"published", "rejected"})
Resubmit(v) == Move(v, {"rejected"}, {"pending_review"})
Recall(v) == Move(v, {"draft", "pending_review", "rejected", "published"}, {"pending_review"})

Close ==
    /\ status' = [v \in Version |-> "none"]
    /\ closed' = TRUE

WFNext ==
    \/ \E v \in Version : Create(v) \/ Submit(v) \/ Decide(v) \/ Resubmit(v) \/ Recall(v)
    \/ Close

WFSpec == WFInit /\ [][WFNext]_wfVars
=============================================================================
