------------------------------ MODULE ScanCore ----------------------------
(***************************************************************************)
(* The scan subsystem as API requests, one periodic sweep, workers and a   *)
(* Redis queue of run_execution messages acting on a database.             *)
(*                                                                         *)
(* A handler's transaction is one step here: what it read still holds when *)
(* it commits.  ScanRace drops that.  What follows a commit (sending the   *)
(* messages, the second transaction of the emergency stop) is a step of    *)
(* its own, and a process may die before it.  Messages are lost,           *)
(* duplicated and delivered in any order; workers die in the middle of a   *)
(* run; the clock passes an approval window or a deadline at any time.     *)
(***************************************************************************)
EXTENDS ScanHandlers

CONSTANTS
    Worker,     \* Celery worker processes
    Stages,     \* stages of the profile
    MaxMsgs,    \* bound: messages kept per execution, more of them are dropped
    NoExec      \* what an idle worker runs

ASSUME WorkerAssumption ==
    /\ Stages \in Nat \ {0} /\ MaxMsgs \in Nat \ {0}
    /\ NoExec \notin Exec

VARIABLES
    row,         \* scan_executions
    approval,    \* the state of each scan's scan_approvals row
    stop,        \* the latest emergency_stops row
    toSend,      \* executions an API or beat process is about to send a message for
    toReconcile, \* an API process is about to reconcile the stop it committed
    msgs,        \* queued run_execution messages, by execution
    worker       \* what each worker process is doing

dbVars == <<row, approval, stop>>
vars == <<row, approval, stop, toSend, toReconcile, msgs, worker>>

Job == [exec : Exec \cup {NoExec}, left : 0..Stages, incomplete : BOOLEAN]

Idle == [exec |-> NoExec, left |-> 0, incomplete |-> FALSE]

TypeOK ==
    /\ row \in [Exec -> Row]
    /\ approval \in [Group -> ApprovalState]
    /\ stop \in Stop
    /\ toSend \subseteq Exec
    /\ toReconcile \in BOOLEAN
    /\ msgs \in [Exec -> 0..MaxMsgs]
    /\ worker \in [Worker -> Job]

Init ==
    /\ row = [e \in Exec |-> AbsentRow]
    /\ approval = [g \in Group |-> "NONE"]
    /\ stop = NoStop
    /\ toSend = {}
    /\ toReconcile = FALSE
    /\ msgs = [e \in Exec |-> 0]
    /\ worker = [w \in Worker |-> Idle]

OneMore(n) == IF n < MaxMsgs THEN n + 1 ELSE n

More(S) == [e \in Exec |-> IF e \in S THEN OneMore(msgs[e]) ELSE msgs[e]]

---------------------------------------------------------------------------
(* Scans enter the system. *)

\* POST /api/scans: idle executions, and one approval request if they are active.
CreateScan(g) ==
    /\ IsNew(g, row) /\ g \notin ScheduledGroup
    /\ row' = Rewrite(row, Of(g), CreateRow)
    /\ approval' = [approval EXCEPT ![g] = IF IsActive(g) THEN "AWAITING_APPROVAL" ELSE @]
    /\ UNCHANGED <<stop, toSend, toReconcile, msgs, worker>>

\* The scheduler's active occurrence: the same, and it starts when approved.
OccurActive(g) ==
    /\ IsNew(g, row) /\ g \in ScheduledGroup /\ IsActive(g)
    /\ row' = Rewrite(row, Of(g), CreateRow)
    /\ approval' = [approval EXCEPT ![g] = "AWAITING_APPROVAL"]
    /\ UNCHANGED <<stop, toSend, toReconcile, msgs, worker>>

\* A passive occurrence of the scheduler, or POST /api/targets/{id}/passive-scan.
QueuePassive(e) ==
    /\ row[e].state = Absent /\ Of(GroupOf[e]) = {e} /\ e \notin ActiveExec
    /\ row' = [row EXCEPT ![e] = QueuedRow]
    /\ toSend' = toSend \cup {e}
    /\ UNCHANGED <<approval, stop, toReconcile, msgs, worker>>

---------------------------------------------------------------------------
(* Administrators decide, requesters start, pause and stop. *)

Approve(g) ==
    /\ CanApprove(g, row, approval)
    /\ approval' = [approval EXCEPT ![g] = "APPROVED"]
    /\ row' = Approved(g, row)
    /\ toSend' = IF g \in ScheduledGroup THEN toSend \cup Of(g) ELSE toSend
    /\ UNCHANGED <<stop, toReconcile, msgs, worker>>

Deny(g) ==
    /\ CanDeny(g, approval)
    /\ approval' = [approval EXCEPT ![g] = "DENIED"]
    /\ row' = Denied(g, row)
    /\ UNCHANGED <<stop, toSend, toReconcile, msgs, worker>>

\* A request that starts nothing still commits the expirations it made.
Start(g) ==
    /\ CanStart(g, row, stop)
    /\ row' = Started(g, row)
    /\ toSend' = toSend \cup StartSends(g, row)
    /\ UNCHANGED <<approval, stop, toReconcile, msgs, worker>>

Pause(g) ==
    /\ CanPause(g, row)
    /\ row' = Paused(g, row)
    /\ UNCHANGED <<approval, stop, toSend, toReconcile, msgs, worker>>

StopScan(g) ==
    /\ CanStop(Of(g), row)
    /\ row' = Stopped(Of(g), row)
    /\ UNCHANGED <<approval, stop, toSend, toReconcile, msgs, worker>>

CancelExecution(e) ==
    /\ CanStop({e}, row)
    /\ row' = Stopped({e}, row)
    /\ UNCHANGED <<approval, stop, toSend, toReconcile, msgs, worker>>

---------------------------------------------------------------------------
(* The emergency stop. *)

\* Scope ALL covers executions yet to come; SELECTED names existing ones.
StopScopes == {Exec} \cup SUBSET {e \in Exec : row[e].state # Absent}

RequestStop(S) ==
    /\ stop.state = "CLEARED"
    /\ stop' = [state |-> "REQUESTED", covers |-> S]
    /\ row' = Stopped(S, row)
    /\ toReconcile' = TRUE
    /\ UNCHANGED <<approval, toSend, msgs, worker>>

\* The second transaction of the request.
ReconcileStop ==
    /\ toReconcile
    /\ toReconcile' = FALSE
    /\ stop' = Reconciled(stop, row)
    /\ UNCHANGED <<row, approval, toSend, msgs, worker>>

ClearStop ==
    /\ stop.state # "CLEARED"
    /\ stop' = NoStop
    /\ UNCHANGED <<row, approval, toSend, toReconcile, msgs, worker>>

---------------------------------------------------------------------------
(* The queue. *)

Send(e) ==
    /\ e \in toSend
    /\ toSend' = toSend \ {e}
    /\ msgs' = More({e})
    /\ UNCHANGED <<dbVars, toReconcile, worker>>

\* An API or beat process dies between its commit and what follows it.
ProcessDies ==
    /\ toSend # {} \/ toReconcile
    /\ toSend' = {} /\ toReconcile' = FALSE
    /\ UNCHANGED <<dbVars, msgs, worker>>

\* Redis keeps nothing on disk.
QueueLost ==
    /\ \E e \in Exec : msgs[e] > 0
    /\ msgs' = [e \in Exec |-> 0]
    /\ UNCHANGED <<dbVars, toSend, toReconcile, worker>>

\* Messages are acknowledged late, so one that is being worked on is delivered
\* again when the broker's visibility timeout expires.
Redeliver(w) ==
    /\ worker[w].exec # NoExec
    /\ msgs' = More({worker[w].exec})
    /\ UNCHANGED <<dbVars, toSend, toReconcile, worker>>

---------------------------------------------------------------------------
(* A worker: pre-flight, stages, persisting the results. *)

\* A free worker takes a message for e and does the pre-flight.  Whether the
\* target is still in scope is whatever DNS and the policy say now.
Deliver(w, e) ==
    /\ worker[w] = Idle /\ msgs[e] > 0
    /\ msgs' = [msgs EXCEPT ![e] = @ - 1]
    /\ \E inScope \in BOOLEAN :
         LET s == PreflightState(e, row[e], Blocks(stop, e), Room(row, e), inScope) IN
         /\ row' = [row EXCEPT ![e] = Transition(@, s)]
         /\ worker' = IF s # "RUNNING" THEN worker
                      ELSE [worker EXCEPT ![w] =
                              [exec |-> e, left |-> Stages, incomplete |-> FALSE]]
    /\ UNCHANGED <<approval, stop, toSend, toReconcile>>

\* The guard ends the run, or the next stage runs to an end of its own.
RunStage(w) ==
    LET job == worker[w] IN
    /\ job.exec # NoExec /\ job.left > 0
    /\ \/ /\ CutShort(row[job.exec])
          /\ worker' = [worker EXCEPT ![w] =
                           [exec |-> job.exec, left |-> 0, incomplete |-> TRUE]]
       \/ /\ ~CutShort(row[job.exec])
          /\ \E failed \in BOOLEAN :
               worker' = [worker EXCEPT ![w] =
                            [exec |-> job.exec, left |-> job.left - 1,
                             incomplete |-> job.incomplete \/ failed]]
    /\ UNCHANGED <<dbVars, toSend, toReconcile, msgs>>

Persist(w) ==
    LET job == worker[w] IN
    /\ job.exec # NoExec /\ job.left = 0
    /\ \E normalised \in BOOLEAN :
         row' = [row EXCEPT ![job.exec] = PersistRow(@, job.incomplete, normalised)]
    /\ worker' = [worker EXCEPT ![w] = Idle]
    /\ UNCHANGED <<approval, stop, toSend, toReconcile, msgs>>

\* The worker process is lost: its message goes back to the queue.
WorkerDies(w) ==
    /\ worker[w].exec # NoExec
    /\ msgs' = More({worker[w].exec})
    /\ worker' = [worker EXCEPT ![w] = Idle]
    /\ UNCHANGED <<dbVars, toSend, toReconcile>>

\* A stage raises: the task fails, its message is gone, the row stays RUNNING.
TaskFails(w) ==
    /\ worker[w].exec # NoExec
    /\ worker' = [worker EXCEPT ![w] = Idle]
    /\ UNCHANGED <<dbVars, toSend, toReconcile, msgs>>

---------------------------------------------------------------------------
(* The sweep and the clock. *)

\* The stop is reconciled between the expirations and the timeouts.
Sweep ==
    /\ row' = Swept(row)
    /\ stop' = Reconciled(stop, Expired(row))
    /\ msgs' = More(SweepSends(row))
    /\ UNCHANGED <<approval, toSend, toReconcile, worker>>

\* The approval window, the same for all executions of a scan, is over.
WindowPasses(g) ==
    /\ \E e \in Of(g) : row[e].window = "ahead" /\ Live(row[e])
    /\ row' = Rewrite(row, {e \in Of(g) : row[e].window = "ahead" /\ Live(row[e])},
                      LAMBDA e : WindowPassed(row[e]))
    /\ UNCHANGED <<approval, stop, toSend, toReconcile, msgs, worker>>

DeadlinePasses(e) ==
    /\ row[e].deadline = "ahead" /\ Live(row[e])
    /\ row' = [row EXCEPT ![e] = DeadlinePassed(@)]
    /\ UNCHANGED <<approval, stop, toSend, toReconcile, msgs, worker>>

---------------------------------------------------------------------------
Requests ==
    \/ \E g \in Group : \/ CreateScan(g) \/ OccurActive(g) \/ Approve(g) \/ Deny(g)
                        \/ Start(g) \/ Pause(g) \/ StopScan(g)
    \/ \E e \in Exec : QueuePassive(e) \/ CancelExecution(e)
    \/ \E S \in StopScopes : RequestStop(S)
    \/ ReconcileStop
    \/ ClearStop

Queue ==
    \/ \E e \in Exec : Send(e)
    \/ ProcessDies
    \/ QueueLost
    \/ \E w \in Worker : Redeliver(w)

Work ==
    \E w \in Worker : \/ \E e \in Exec : Deliver(w, e)
                      \/ RunStage(w) \/ Persist(w) \/ WorkerDies(w) \/ TaskFails(w)

Time ==
    \/ Sweep
    \/ \E g \in Group : WindowPasses(g)
    \/ \E e \in Exec : DeadlinePasses(e)

Next == Requests \/ Queue \/ Work \/ Time

Spec == Init /\ [][Next]_vars

\* Beat runs the sweep for ever and clocks advance.  Workers take messages,
\* finish stages and persist; a message for an execution that is queued again
\* and again is some day delivered.  Nobody has to start, stop or clear anything.
Fairness ==
    /\ WF_vars(Sweep)
    /\ \A e \in Exec : WF_vars(DeadlinePasses(e))
    /\ \A e \in Exec : SF_vars(\E w \in Worker : Deliver(w, e))
    /\ \A w \in Worker : WF_vars(RunStage(w)) /\ WF_vars(Persist(w))

FairSpec == Spec /\ Fairness

---------------------------------------------------------------------------
(* Safety. *)

Running == {e \in Exec : row[e].state = "RUNNING"}

RunningOn(t) == {e \in Running : TargetOf[e] = t}

WorkedOn(e) == \E w \in Worker : worker[w].exec = e

\* No active execution is queued, run or finished, and no worker touches one,
\* unless an administrator has granted its scan (api/approvals.py, PRD SCAN-02):
\* pausing, restarting, redelivery and crashes never get around the decision.
ApprovedBeforeRun ==
    \A e \in ActiveExec :
        row[e].state \in {"QUEUED", "RUNNING", "COMPLETED", "TIMED_OUT"} \/ WorkedOn(e)
            => approval[GroupOf[e]] = "APPROVED"

\* However many messages are queued, no more executions are RUNNING than
\* capacity_available allows, in total and on one target (PRD SCAN-08).
WithinLimits ==
    /\ Cardinality(Running) <= MaxGlobal
    /\ \A t \in Target : Cardinality(RunningOn(t)) <= MaxPerTarget

\* A worker that persists finds its row RUNNING or already finished, so the
\* transition runner.execute then asks for is never refused.
NoOrphanRun ==
    \A w \in Worker : LET e == worker[w].exec IN
        e # NoExec => row[e].state \in {"RUNNING"} \cup Terminal

\* Once the dashboard shows the emergency stop as CONFIRMED, nothing it covers is
\* RUNNING, and nothing it covers comes to run until it is cleared
\* (services/emergency.py reconcile).
ConfirmedIsQuiet ==
    stop.state = "CONFIRMED" => stop.covers \cap Running = {}

\* A run that was cut short keeps that on record: an execution that had started
\* and ended CANCELLED or TIMED_OUT is marked partial (PHASE3_STATUS.md, cancellation).
CutShortIsPartial ==
    \A e \in Exec :
        /\ row[e].deadline # "unset"
        /\ row[e].state \in {"CANCELLED", "TIMED_OUT"}
        => row[e].partial

\* A stop that was recorded while an execution runs is never answered with a
\* COMPLETED execution, whichever worker persists it (runner.execute, api stop).
StoppedNeverCompletes ==
    [][\A e \in Exec : row[e].cancel /\ row'[e].state = "COMPLETED"
                           => row[e].state = "COMPLETED"]_vars

\* The committed history of every execution is one ScanLifecycle allows: the
\* ALLOWED table, finality of terminal states, grant before queueing.
LC == INSTANCE ScanLifecycle WITH
        state   <- [e \in Exec |-> row[e].state],
        granted <- {e \in Exec : approval[GroupOf[e]] = "APPROVED"}

Lifecycle == LC!Spec

Queued == {e \in Exec : row[e].state = "QUEUED"}

\* When nothing is RUNNING, every slot is free and the sweep finds an execution
\* to send again ("lifecycle_sweep re-enqueues when a slot frees", worker/runner.py).
\* The code does not keep this: queued executions count against each other.
FreeSlotIsUsed ==
    Running = {} /\ Queued # {} => \E e \in Queued : Room(row, e)

---------------------------------------------------------------------------
(* Liveness, under FairSpec. *)

\* Every run ends, even if its worker dies, its message is lost or its task
\* fails: the sweep enforces the runtime cap (PRD SCAN-04).
RunEnds ==
    \A e \in Exec : row[e].state = "RUNNING" ~> row[e].state \in Terminal

\* A requested emergency stop is confirmed (or cleared) although the process that
\* requested it may die before it reconciles.
StopSettles == stop.state = "REQUESTED" ~> stop.state # "REQUESTED"

\* An execution in the queue does not stay there for ever, whatever messages are
\* lost: the sweep sends another (worker/tasks.py).  Holds when the limits leave
\* room for all executions at once.
QueuedIsServed ==
    \A e \in Exec : row[e].state = "QUEUED" ~> row[e].state # "QUEUED"

===========================================================================
