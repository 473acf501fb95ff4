--------------------------- MODULE RunStatusTable ---------------------------
(***************************************************************************)
(* The transition table of WorkflowRunSM (domain/fsm/workflow_run.py) and  *)
(* the two questions FSM answers about it (domain/fsm/base.py):            *)
(*                                                                         *)
(*     pending -start-> running -finish-> success                          *)
(*                              -fail---> failed                           *)
(*                              -cancel-> cancelled                        *)
(***************************************************************************)

Terminal == {"success", "failed", "cancelled"}

RunStatus == {"pending", "running"} \cup Terminal

Event == {"start", "finish", "fail", "cancel"}

\* TRANSITIONS, read by event: the one state an event leaves and enters.
Source == [e \in Event |-> IF e = "start" THEN "pending" ELSE "running"]
Target == [start |-> "running", finish |-> "success",
           fail |-> "failed", cancel |-> "cancelled"]

CanFire(s, e) == s = Source[e]

\* fire(): the next state.  An illegal pair raises IllegalTransition and
\* leaves the machine where it was; run() catches and logs that.
FireEvent(s, e) == IF CanFire(s, e) THEN Target[e] ELSE s

=============================================================================
