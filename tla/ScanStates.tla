---------------------------- MODULE ScanStates ----------------------------
(***************************************************************************)
(* The scan-execution state machine of services/execution_service.py: the  *)
(* states of a ScanExecution row, which of them are terminal, and the      *)
(* table of transitions ScanService.transition accepts.                    *)
(***************************************************************************)
PreRun == {"DRAFT", "AWAITING_APPROVAL", "APPROVED", "QUEUED"}

Terminal == {"COMPLETED", "FAILED", "TIMED_OUT", "DENIED", "EXPIRED", "CANCELLED"}

Occupying == {"QUEUED", "RUNNING", "CANCELLING"}

State == PreRun \cup {"RUNNING", "CANCELLING"} \cup Terminal

\* The state of an execution whose row has not been inserted yet.
Absent == "ABSENT"

\* The ALLOWED table, read as a relation.
CanTransition(s, t) ==
    \/ s = "DRAFT"             /\ t \in {"AWAITING_APPROVAL", "QUEUED", "CANCELLED"}
    \/ s = "AWAITING_APPROVAL" /\ t \in {"APPROVED", "DENIED", "CANCELLED", "EXPIRED"}
    \/ s = "APPROVED"          /\ t \in {"QUEUED", "CANCELLED", "EXPIRED", "FAILED"}
    \/ s = "QUEUED"            /\ t \in {"RUNNING", "APPROVED", "DRAFT", "CANCELLED",
                                         "EXPIRED", "CANCELLING", "FAILED"}
    \/ s = "RUNNING"           /\ t \in {"COMPLETED", "FAILED", "CANCELLING", "TIMED_OUT"}
    \/ s = "CANCELLING"        /\ t \in {"CANCELLED", "FAILED"}

===========================================================================
