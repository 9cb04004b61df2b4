---------------------------- MODULE ScanHandlers --------------------------
(***************************************************************************)
(* What each handler of the scan subsystem does to the database, as        *)
(* functions of the rows it has read: the API handlers of api/scans.py,    *)
(* api/approvals.py, api/emergency.py and api/targets.py, the worker of    *)
(* worker/runner.py and the periodic sweep of worker/tasks.py.  ScanCore   *)
(* applies them to the rows as they are; ScanRace to a copy read earlier.  *)
(*                                                                         *)
(* Times are kept to what the code compares them with: an approval window  *)
(* or a runtime deadline is unset, still ahead of the clock, or passed.    *)
(*                                                                         *)
(* The operators named Bad... are variants with a seeded fault: no handler *)
(* uses them, they show that the properties can fail.                      *)
(***************************************************************************)
EXTENDS ScanStates, Naturals, FiniteSets

CONSTANTS
    Exec,           \* scan executions, one per target of a scan
    Group,          \* scans: executions that share a scan_group_id
    Target,
    GroupOf,        \* the scan of each execution
    TargetOf,       \* the target of each execution
    ActiveExec,     \* executions whose classification is ACTIVE
    ScheduledGroup, \* scans created by the scheduler (approval.occurrence_id set)
    MaxGlobal,      \* settings.max_global_executions
    MaxPerTarget    \* settings.max_per_target_executions

\* The executions of a scan.
Of(g) == {e \in Exec : GroupOf[e] = g}

IsActive(g) == Of(g) \subseteq ActiveExec

\* A scan has one profile, so one classification, and names a target once; the
\* scheduler makes scans of one target.
ASSUME ExecAssumption ==
    /\ IsFiniteSet(Exec)
    /\ GroupOf \in [Exec -> Group]
    /\ TargetOf \in [Exec -> Target]
    /\ ActiveExec \subseteq Exec
    /\ \A g \in Group : Of(g) # {} /\ (IsActive(g) \/ Of(g) \cap ActiveExec = {})
    /\ \A e, f \in Exec : GroupOf[e] = GroupOf[f] /\ TargetOf[e] = TargetOf[f] => e = f
    /\ ScheduledGroup \subseteq {g \in Group : \E e \in Exec : Of(g) = {e}}

ASSUME LimitAssumption == MaxGlobal \in Nat /\ MaxPerTarget \in Nat

Clock == {"unset", "ahead", "passed"}

Row == [state    : State \cup {Absent},
        cancel   : BOOLEAN,   \* cancel_requested
        window   : Clock,     \* approval_expires_at
        deadline : Clock,     \* runtime_deadline_at
        partial  : BOOLEAN]

AbsentRow == [state |-> Absent, cancel |-> FALSE, window |-> "unset",
              deadline |-> "unset", partial |-> FALSE]

ApprovalState == {"NONE", "AWAITING_APPROVAL", "APPROVED", "DENIED"}

Stop == [state : {"REQUESTED", "CONFIRMED", "CLEARED"}, covers : SUBSET Exec]

NoStop == [state |-> "CLEARED", covers |-> {}]

---------------------------------------------------------------------------
(* The state machine and the gates. *)

BadTransitionNoDeadline(r, s) ==
    IF r.state = s \/ r.state \in Terminal THEN r ELSE [r EXCEPT !.state = s]

\* ScanService.transition: a no-op on the same or a terminal state.
Transition(r, s) ==
    IF r.state = s \/ r.state \in Terminal THEN r
    ELSE [r EXCEPT !.state = s,
                   !.deadline = IF s = "RUNNING" THEN "ahead" ELSE @]

Live(r) == r.state \notin Terminal \cup {Absent}

BadBlocksUntilConfirmed(stop, e) == stop.state = "REQUESTED" /\ e \in stop.covers

Blocks(stop, e) == stop.state \in {"REQUESTED", "CONFIRMED"} /\ e \in stop.covers

BadOthersAndItself(row, e) == {x \in Exec : row[x].state \in Occupying}

\* The executions active_slots counts besides e, which is QUEUED when it asks.
OthersActive(row, e) == {x \in Exec \ {e} : row[x].state \in Occupying}

BadRoomOffByOne(row, e) ==
    /\ Cardinality(OthersActive(row, e)) <= MaxGlobal
    /\ Cardinality({x \in OthersActive(row, e) : TargetOf[x] = TargetOf[e]}) < MaxPerTarget

Room(row, e) ==
    /\ Cardinality(OthersActive(row, e)) < MaxGlobal
    /\ Cardinality({x \in OthersActive(row, e) : TargetOf[x] = TargetOf[e]}) < MaxPerTarget

---------------------------------------------------------------------------
(* Creating, approving, starting, pausing and stopping a scan: when the     *)
(* handler goes on to write, and the rows it then leaves.                  *)

\* The rows of S replaced by F of each, the others kept.
Rewrite(row, S, F(_)) == [e \in Exec |-> IF e \in S THEN F(e) ELSE row[e]]

IsNew(g, row) == \A e \in Of(g) : row[e].state = Absent

CreateRow(e) ==
    [AbsentRow EXCEPT !.state = IF e \in ActiveExec THEN "AWAITING_APPROVAL" ELSE "DRAFT"]

\* A passive execution that is queued as it is inserted.
QueuedRow == [AbsentRow EXCEPT !.state = "QUEUED"]

CanApprove(g, row, approval) ==
    /\ approval[g] = "AWAITING_APPROVAL"
    /\ \A e \in Of(g) : row[e].state = "AWAITING_APPROVAL"

BadApproveNoWindow(r, scheduled) ==
    IF scheduled THEN Transition(Transition(r, "APPROVED"), "QUEUED")
    ELSE Transition(r, "APPROVED")

\* A scheduled occurrence starts on approval.
ApproveRow(r, scheduled) ==
    LET granted == Transition([r EXCEPT !.window = "ahead"], "APPROVED")
    IN  IF scheduled THEN Transition(granted, "QUEUED") ELSE granted

Approved(g, row) == Rewrite(row, Of(g), LAMBDA e : ApproveRow(row[e], g \in ScheduledGroup))

CanDeny(g, approval) == approval[g] = "AWAITING_APPROVAL"

DenyRow(r) == IF r.state = "AWAITING_APPROVAL" THEN Transition(r, "DENIED") ELSE r

Denied(g, row) == Rewrite(row, Of(g), LAMBDA e : DenyRow(row[e]))

BadStartableAwaiting(e, r) == r.state \in {"AWAITING_APPROVAL", "APPROVED", "DRAFT"}

Startable(e, r) == r.state \in (IF e \in ActiveExec THEN {"APPROVED"} ELSE {"APPROVED", "DRAFT"})

\* One blocked execution refuses the whole request.
CanStart(g, row, stop) ==
    LET startable == {e \in Of(g) : Startable(e, row[e])}
    IN  startable # {} /\ \A e \in startable : ~Blocks(stop, e)

StartRow(e, r) ==
    IF ~Startable(e, r) THEN r
    ELSE Transition(r, IF r.window = "passed" THEN "EXPIRED" ELSE "QUEUED")

Started(g, row) == Rewrite(row, Of(g), LAMBDA e : StartRow(e, row[e]))

\* The messages of a start: none if it only expired executions, else one for every
\* execution of the scan that is QUEUED, those that were before included.
StartSends(g, row) ==
    IF \E e \in Of(g) : Startable(e, row[e]) /\ row[e].window # "passed"
    THEN {e \in Of(g) : Started(g, row)[e].state = "QUEUED"} ELSE {}

CanPause(g, row) == \E e \in Of(g) : row[e].state = "QUEUED"

BadPauseNewState(e, r) == IF r.state # "QUEUED" THEN r ELSE Transition(r, "PAUSED")

PauseRow(e, r) ==
    IF r.state # "QUEUED" THEN r
    ELSE Transition(r, IF e \in ActiveExec THEN "APPROVED" ELSE "DRAFT")

Paused(g, row) == Rewrite(row, Of(g), LAMBDA e : PauseRow(e, row[e]))

\* Stop, cancel and the emergency stop: a running execution is only signalled.
CanStop(S, row) == \E e \in S : Live(row[e])

BadStopCancelling(r) ==
    IF ~Live(r) THEN r
    ELSE Transition([r EXCEPT !.cancel = TRUE],
                    IF r.state \in PreRun THEN "CANCELLED" ELSE "CANCELLING")

StopRow(r) ==
    IF ~Live(r) THEN r
    ELSE LET signalled == [r EXCEPT !.cancel = TRUE]
         IN  IF r.state \in PreRun THEN Transition(signalled, "CANCELLED") ELSE signalled

Stopped(S, row) == Rewrite(row, S, LAMBDA e : StopRow(row[e]))

---------------------------------------------------------------------------
(* The worker. *)

\* The state the pre-flight of runner.execute leaves the row in, its early
\* returns in the order of the code.  RUNNING means that the stages follow.
PreflightState(e, r, blocked, room, inScope) ==
    IF r.state \in Terminal THEN r.state
    ELSE IF blocked /\ r.state # "RUNNING" THEN "CANCELLED"
    ELSE IF r.cancel /\ r.state \in PreRun THEN "CANCELLED"
    ELSE IF r.state = "QUEUED" /\ ~room THEN "QUEUED"
    ELSE IF e \in ActiveExec /\ r.state \in PreRun /\ r.window = "passed" THEN "EXPIRED"
    ELSE IF e \in ActiveExec /\ ~inScope THEN "FAILED"
    ELSE IF r.state = "QUEUED" THEN "RUNNING"
    ELSE r.state

\* The guard polled before and within the stages.
CutShort(r) == r.cancel \/ r.deadline = "passed"

BadPersistIgnoresCancel(r, normalised) ==
    IF ~normalised THEN "FAILED"
    ELSE IF r.deadline = "passed" THEN "TIMED_OUT"
    ELSE "COMPLETED"

\* What persisting makes of the row; a transition the table refuses raises and
\* rolls the transaction back.
PersistState(r, normalised) ==
    IF ~normalised THEN "FAILED"
    ELSE IF r.deadline = "passed" THEN "TIMED_OUT"
    ELSE IF r.cancel THEN "CANCELLED"
    ELSE "COMPLETED"

BadPartialIfIncomplete(r, s, incomplete) ==
    IF s = "FAILED" THEN r.partial ELSE s = "TIMED_OUT" \/ incomplete

PersistPartial(r, s, incomplete) ==
    CASE s = "FAILED"    -> r.partial
      [] s = "COMPLETED" -> incomplete
      [] OTHER           -> TRUE

PersistRow(r, incomplete, normalised) ==
    LET s     == PersistState(r, normalised)
        first == IF s = "CANCELLED" THEN "CANCELLING" ELSE s
    IN  IF r.state \in Terminal \/ ~CanTransition(r.state, first) THEN r
        ELSE [Transition(r, s) EXCEPT !.partial = PersistPartial(r, s, incomplete)]

---------------------------------------------------------------------------
(* The clock, the sweep and the emergency stop. *)

WindowPassed(r) == [r EXCEPT !.window = "passed"]

DeadlinePassed(r) == [r EXCEPT !.deadline = "passed"]

ExpireRow(r) ==
    IF r.state \in {"AWAITING_APPROVAL", "APPROVED", "QUEUED"} /\ r.window = "passed"
    THEN Transition(r, "EXPIRED") ELSE r

BadTimeoutAnyState(r) ==
    IF r.deadline = "passed"
    THEN [r EXCEPT !.state = "TIMED_OUT", !.cancel = TRUE, !.partial = TRUE] ELSE r

BadTimeoutCancellingOnly(r) ==
    IF r.state = "CANCELLING" /\ r.deadline = "passed"
    THEN [r EXCEPT !.state = "TIMED_OUT", !.cancel = TRUE, !.partial = TRUE] ELSE r

\* CANCELLING is set back to RUNNING first, so the transition is always legal.
TimeoutRow(r) ==
    IF r.state \in {"RUNNING", "CANCELLING"} /\ r.deadline = "passed"
    THEN [r EXCEPT !.state = "TIMED_OUT", !.cancel = TRUE, !.partial = TRUE] ELSE r

Expired(row) == [e \in Exec |-> ExpireRow(row[e])]

Swept(row) == [e \in Exec |-> TimeoutRow(Expired(row)[e])]

\* The messages of a sweep, by the rows it leaves.
SweepSends(row) == {e \in Exec : Swept(row)[e].state = "QUEUED" /\ Room(Swept(row), e)}

BadReconcileAll(stop, row) ==
    IF stop.state = "REQUESTED" /\ \A e \in stop.covers : ~Live(row[e])
    THEN [stop EXCEPT !.state = "CONFIRMED"] ELSE stop

\* emergency.reconcile
Reconciled(stop, row) ==
    IF /\ stop.state = "REQUESTED"
       /\ \A e \in stop.covers : ~(Live(row[e]) /\ row[e].cancel)
    THEN [stop EXCEPT !.state = "CONFIRMED"] ELSE stop

===========================================================================
