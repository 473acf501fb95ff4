---------------------------- MODULE RunStatusFSM ----------------------------
(***************************************************************************)
(* What WorkflowRunSM promises of the column t_workflow_run.status: it is  *)
(* born pending and changes by firing events only.  RunLifecycle.tla is    *)
(* the detailed specification.                                             *)
(***************************************************************************)
EXTENDS RunStatusTable

VARIABLE status

Init == status = "pending"

Fire(e) == CanFire(status, e) /\ status' = FireEvent(status, e)

Next == \E e \in Event : Fire(e)

Spec == Init /\ [][Next]_status

=============================================================================
