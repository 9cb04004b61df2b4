------------------------------ MODULE ScanRace ----------------------------
(***************************************************************************)
(* The handlers of ScanHandlers as PostgreSQL runs them: READ COMMITTED,   *)
(* no row locks, no version column.  A handler's session loads the rows it *)
(* looks at, decides on those copies, and at the commit its UPDATE writes  *)
(* exactly the columns it changed, over whatever other transactions have   *)
(* committed since (db.py: autoflush=False, expire_on_commit=False).       *)
(* Commits themselves are one at a time: the audit record every handler    *)
(* writes takes an advisory lock that is held to the commit.               *)
(*                                                                         *)
(* BadDirtyAll is a variant with a seeded fault, as in ScanHandlers.        *)
(*                                                                         *)
(* Left to ScanCore: deaths, lost messages, several stages, and the gap    *)
(* between a commit and the messages that follow it.                       *)
(***************************************************************************)
EXTENDS ScanHandlers

CONSTANTS
    Session,    \* database sessions of the API processes and of the sweep
    Worker,     \* worker processes, each with a session of its own
    MaxMsgs,    \* bound: messages kept per execution
    MaxOpen,    \* bound: transactions open at once
    NoExec,
    NoTx        \* a session without a transaction

ASSUME RaceAssumption ==
    /\ Session \cap Worker = {}
    /\ MaxMsgs \in Nat \ {0} /\ MaxOpen \in Nat \ {0}
    /\ NoExec \notin Exec

VARIABLES
    row,        \* scan_executions, as committed
    approval,   \* scan_approvals
    stop,       \* the emergency_stops row
    msgs,       \* queued messages, by execution
    worker,     \* the execution each worker is running the stages of
    tx          \* the transaction of each session: what it does and what it has read

vars == <<row, approval, stop, msgs, worker, tx>>

Op == {"start", "pause", "stop", "approve", "deny", "emergency", "sweep",
       "preflight", "persist"}

Tx == [op : Op, on : Exec \cup Group, row : [Exec -> Row], stop : Stop]

TypeOK ==
    /\ row \in [Exec -> Row]
    /\ approval \in [Group -> ApprovalState]
    /\ stop \in Stop
    /\ msgs \in [Exec -> 0..MaxMsgs]
    /\ worker \in [Worker -> Exec \cup {NoExec}]
    /\ tx \in [Session \cup Worker -> Tx \cup {NoTx}]

Init ==
    /\ row = [e \in Exec |-> AbsentRow]
    /\ approval = [g \in Group |-> "NONE"]
    /\ stop = NoStop
    /\ msgs = [e \in Exec |-> 0]
    /\ worker = [w \in Worker |-> NoExec]
    /\ tx = [s \in Session \cup Worker |-> NoTx]

More(S) == [e \in Exec |-> IF e \in S /\ msgs[e] < MaxMsgs THEN msgs[e] + 1 ELSE msgs[e]]

---------------------------------------------------------------------------
(* Reading and writing. *)

Open == {s \in Session \cup Worker : tx[s] # NoTx}

\* Only the pre-flight and the sweep decide on the stop after loading it.
Load(s, op, on) ==
    /\ tx[s] = NoTx /\ Cardinality(Open) < MaxOpen
    /\ tx' = [tx EXCEPT ![s] =
                [op |-> op, on |-> on, row |-> row,
                 stop |-> IF op \in {"preflight", "sweep"} THEN stop ELSE NoStop]]

BadDirtyAll(old, new, c) == TRUE

\* The columns in which new differs from the copy the session had loaded; a new
\* start writes a new deadline whatever the copy held.
Dirty(old, new, c) ==
    \/ new[c] # old[c]
    \/ c = "deadline" /\ new.state = "RUNNING" /\ old.state # "RUNNING"

Store(s, new) ==
    /\ row' = [e \in Exec |-> [c \in DOMAIN row[e] |->
                  IF Dirty(tx[s].row[e], new[e], c) THEN new[e][c] ELSE row[e][c]]]
    /\ tx' = [tx EXCEPT ![s] = NoTx]

---------------------------------------------------------------------------
(* Requests and the sweep: what they read lets them go on. *)

CreateScan(g) ==
    /\ IsNew(g, row)
    /\ row' = Rewrite(row, Of(g), CreateRow)
    /\ approval' = [approval EXCEPT ![g] = IF IsActive(g) THEN "AWAITING_APPROVAL" ELSE @]
    /\ UNCHANGED <<stop, msgs, worker, tx>>

BeginStart(s, g)   == CanStart(g, row, stop) /\ Load(s, "start", g)
BeginPause(s, g)   == CanPause(g, row) /\ Load(s, "pause", g)
BeginStop(s, g)    == CanStop(Of(g), row) /\ Load(s, "stop", g)
BeginApprove(s, g) == CanApprove(g, row, approval) /\ Load(s, "approve", g)
BeginDeny(s, g)    == CanDeny(g, approval) /\ Load(s, "deny", g)
BeginSweep(s, g)   == Load(s, "sweep", g)

\* Bound: one emergency stop, of everything, in a behaviour.
BeginEmergency(s, g) ==
    /\ stop = NoStop /\ \A r \in Session : tx[r] # NoTx => tx[r].op # "emergency"
    /\ Load(s, "emergency", g)

Begin ==
    /\ \E s \in Session, g \in Group :
         \/ BeginStart(s, g) \/ BeginPause(s, g) \/ BeginStop(s, g)
         \/ BeginApprove(s, g) \/ BeginDeny(s, g)
         \/ BeginSweep(s, g) \/ BeginEmergency(s, g)
    /\ UNCHANGED <<row, approval, stop, msgs, worker>>

---------------------------------------------------------------------------
(* Their commits. *)

Doing(s, op) == tx[s] # NoTx /\ tx[s].op = op

CommitStart(s) ==
    /\ Doing(s, "start")
    /\ Store(s, Started(tx[s].on, tx[s].row))
    /\ msgs' = More(StartSends(tx[s].on, tx[s].row))
    /\ UNCHANGED <<approval, stop, worker>>

CommitPause(s) ==
    /\ Doing(s, "pause")
    /\ Store(s, Paused(tx[s].on, tx[s].row))
    /\ UNCHANGED <<approval, stop, msgs, worker>>

CommitStop(s) ==
    /\ Doing(s, "stop")
    /\ Store(s, Stopped(Of(tx[s].on), tx[s].row))
    /\ UNCHANGED <<approval, stop, msgs, worker>>

CommitApprove(s) ==
    LET g == tx[s].on IN
    /\ Doing(s, "approve")
    /\ Store(s, Approved(g, tx[s].row))
    /\ approval' = [approval EXCEPT ![g] = "APPROVED"]
    /\ msgs' = IF g \in ScheduledGroup THEN More(Of(g)) ELSE msgs
    /\ UNCHANGED <<stop, worker>>

CommitDeny(s) ==
    /\ Doing(s, "deny")
    /\ Store(s, Denied(tx[s].on, tx[s].row))
    /\ approval' = [approval EXCEPT ![tx[s].on] = "DENIED"]
    /\ UNCHANGED <<stop, msgs, worker>>

CommitEmergency(s) ==
    /\ Doing(s, "emergency")
    /\ Store(s, Stopped(Exec, tx[s].row))
    /\ stop' = [state |-> "REQUESTED", covers |-> Exec]
    /\ UNCHANGED <<approval, msgs, worker>>

\* Reconciling writes CONFIRMED over whatever the row has become.
CommitSweep(s) ==
    LET reconciled == Reconciled(tx[s].stop, Expired(tx[s].row)) IN
    /\ Doing(s, "sweep")
    /\ Store(s, Swept(tx[s].row))
    /\ stop' = IF reconciled # tx[s].stop THEN reconciled ELSE stop
    /\ msgs' = More(SweepSends(tx[s].row))
    /\ UNCHANGED <<approval, worker>>

ClearStop ==
    /\ stop.state \in {"REQUESTED", "CONFIRMED"}
    /\ stop' = [stop EXCEPT !.state = "CLEARED"]
    /\ UNCHANGED <<row, approval, msgs, worker, tx>>

---------------------------------------------------------------------------
(* Workers. *)

BeginPreflight(w, e) ==
    /\ worker[w] = NoExec /\ msgs[e] > 0
    /\ Load(w, "preflight", e)
    /\ msgs' = [msgs EXCEPT ![e] = @ - 1]
    /\ UNCHANGED <<row, approval, stop, worker>>

CommitPreflight(w) ==
    /\ Doing(w, "preflight")
    /\ \E inScope \in BOOLEAN :
         LET t == tx[w]
             e == t.on
             s == PreflightState(e, t.row[e], Blocks(t.stop, e), Room(t.row, e), inScope)
         IN  /\ Store(w, [t.row EXCEPT ![e] = Transition(@, s)])
             /\ worker' = [worker EXCEPT ![w] = IF s = "RUNNING" THEN e ELSE NoExec]
    /\ UNCHANGED <<approval, stop, msgs>>

\* The stages are over, by themselves or because the guard ended them.
BeginPersist(w) ==
    /\ worker[w] # NoExec
    /\ Load(w, "persist", worker[w])
    /\ UNCHANGED <<row, approval, stop, msgs, worker>>

\* Results that cannot be normalised roll the session back, and the row is read again.
CommitPersist(w) ==
    LET e == worker[w] IN
    /\ Doing(w, "persist")
    /\ \/ \E incomplete \in BOOLEAN :
            Store(w, [tx[w].row EXCEPT ![e] = PersistRow(@, incomplete, TRUE)])
       \/ /\ tx[w].row[e].state \notin Terminal
          /\ row' = [row EXCEPT ![e] = PersistRow(@, FALSE, FALSE)]
          /\ tx' = [tx EXCEPT ![w] = NoTx]
    /\ worker' = [worker EXCEPT ![w] = NoExec]
    /\ UNCHANGED <<approval, stop, msgs>>

---------------------------------------------------------------------------
(* The clock. *)

WindowPasses(g) ==
    /\ \E e \in Of(g) : row[e].window = "ahead" /\ Live(row[e])
    /\ row' = Rewrite(row, {e \in Of(g) : row[e].window = "ahead" /\ Live(row[e])},
                      LAMBDA e : WindowPassed(row[e]))
    /\ UNCHANGED <<approval, stop, msgs, worker, tx>>

DeadlinePasses(e) ==
    /\ row[e].deadline = "ahead" /\ Live(row[e])
    /\ row' = [row EXCEPT ![e] = DeadlinePassed(@)]
    /\ UNCHANGED <<approval, stop, msgs, worker, tx>>

---------------------------------------------------------------------------
Next ==
    \/ \E g \in Group : CreateScan(g)
    \/ Begin
    \/ \E s \in Session : \/ CommitStart(s) \/ CommitPause(s) \/ CommitStop(s)
                          \/ CommitApprove(s) \/ CommitDeny(s)
                          \/ CommitEmergency(s) \/ CommitSweep(s)
    \/ ClearStop
    \/ \E w \in Worker : \/ \E e \in Exec : BeginPreflight(w, e)
                         \/ CommitPreflight(w) \/ BeginPersist(w) \/ CommitPersist(w)
    \/ \E g \in Group : WindowPasses(g)
    \/ \E e \in Exec : DeadlinePasses(e)

Spec == Init /\ [][Next]_vars

---------------------------------------------------------------------------
(* What survives the races, and what does not. *)

\* However the requests overlap, an active execution is queued or run only after
\* an approval was committed for it: approval is what sets approval_expires_at.
GrantedBeforeRun ==
    \A e \in ActiveExec :
        row[e].state \in {"APPROVED", "QUEUED", "RUNNING", "COMPLETED", "TIMED_OUT"}
            => row[e].window # "unset"

\* However the requests overlap, a RUNNING row carries the deadline the sweep
\* needs to end it (worker/tasks.py lifecycle_sweep).
RunningHasDeadline ==
    \A e \in Exec : row[e].state = "RUNNING" => row[e].deadline # "unset"

\* A stop is not undone: once recorded, cancel_requested stays set, so that the
\* guard of every worker and the next pre-flight see it.
CancelSticks == [][\A e \in Exec : row[e].cancel => row'[e].cancel]_vars

===========================================================================
