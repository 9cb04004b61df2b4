--------------------------- MODULE ScanLifecycle --------------------------
(***************************************************************************)
(* What the scan subsystem promises about the life of every execution,     *)
(* whoever acts on it: the table of execution_service.py is the only way a  *)
(* committed row changes, terminal states are final, and an active scan is  *)
(* neither queued nor run before an administrator has granted it.          *)
(*                                                                         *)
(* One step may move any number of executions, because a handler acts on   *)
(* all the executions of a scan and the sweep acts on all scans.           *)
(***************************************************************************)
EXTENDS ScanStates

CONSTANTS
    Exec,       \* the scan executions
    ActiveExec  \* those whose classification is ACTIVE

VARIABLES
    state,      \* the committed state of each execution
    granted     \* the executions covered by a granted approval

vars == <<state, granted>>

TypeOK ==
    /\ state \in [Exec -> State \cup {Absent}]
    /\ granted \subseteq Exec

Init ==
    /\ state = [e \in Exec |-> Absent]
    /\ granted = {}

\* How a row may come into being: an idle passive scan, an active scan that
\* asks for approval, or a passive scan queued at once.
Born(e, t) ==
    IF e \in ActiveExec THEN t = "AWAITING_APPROVAL" ELSE t \in {"DRAFT", "QUEUED"}

\* A committed move: one transition of the table, or two when the handler makes
\* both in one transaction (approve and queue; acknowledge and finish a cancel).
Move(s, t) ==
    \/ CanTransition(s, t)
    \/ s = "AWAITING_APPROVAL" /\ t = "QUEUED"
    \/ s = "RUNNING" /\ t = "CANCELLED"

Step(e) ==
    LET s == state[e]
        t == state'[e]
    IN  \/ t = s
        \/ s = Absent /\ Born(e, t)
        \/ /\ s # Absent
           /\ Move(s, t)
           /\ e \in ActiveExec /\ t \in {"APPROVED", "QUEUED", "RUNNING"} => e \in granted'
           /\ e \notin ActiveExec => t \notin {"AWAITING_APPROVAL", "APPROVED"}

Next ==
    /\ \A e \in Exec : Step(e)
    /\ state' \in [Exec -> State \cup {Absent}]
    /\ granted \subseteq granted'
    /\ granted' \subseteq ActiveExec

Spec == Init /\ [][Next]_vars

===========================================================================
