--------------------------- MODULE ScanCoreProofs -------------------------
(***************************************************************************)
(* What is proved of ScanCore for every set of executions, scans, targets  *)
(* and workers and for all limits: its safety invariants, the finality of  *)
(* a stop, and that it implements ScanLifecycle.                           *)
(*                                                                         *)
(* The inductive invariant IInv says of each row what the handlers rely on *)
(* (RowOK), and relates the rows to the approvals, the messages, the       *)
(* workers and the stop.  Each handler is shown once, on one row, to keep  *)
(* RowOK and to make a step of the lifecycle (Keeps); the actions apply    *)
(* these lemmas to all rows.                                               *)
(***************************************************************************)
EXTENDS ScanCore, FiniteSetTheorems, TLAPS

Granted == {"APPROVED", "QUEUED", "RUNNING", "COMPLETED", "TIMED_OUT"}

Ran == {"RUNNING"} \cup Terminal

\* A row r of execution e whose scan's approval is in state a.
RowOK(e, r, a) ==
    /\ r \in Row
    /\ r.state = Absent => ~r.cancel
    /\ r.state # "CANCELLING"
    /\ e \in ActiveExec => r.state # "DRAFT" /\ (r.state \in Granted => a = "APPROVED")
    /\ e \notin ActiveExec => /\ r.state \notin {"AWAITING_APPROVAL", "APPROVED"}
                             /\ r.window = "unset"
    /\ r.state \in PreRun \cup {Absent} => r.deadline = "unset"
    /\ r.deadline # "unset" /\ r.state \in {"CANCELLED", "TIMED_OUT"} => r.partial

\* The step of ScanLifecycle from row r to row q.
Legal(e, r, q, a) ==
    \/ q.state = r.state
    \/ r.state = Absent /\ LC!Born(e, q.state)
    \/ /\ r.state # Absent
       /\ LC!Move(r.state, q.state)
       /\ e \in ActiveExec /\ q.state \in {"APPROVED", "QUEUED", "RUNNING"} => a = "APPROVED"
       /\ e \notin ActiveExec => q.state \notin {"AWAITING_APPROVAL", "APPROVED"}

\* What every handler does to a row, a being the approval it leaves.
Keeps(e, r, q, a) ==
    /\ RowOK(e, q, a)
    /\ Legal(e, r, q, a)
    /\ r.state # Absent => q.state # Absent
    /\ q.state = "AWAITING_APPROVAL" => r.state \in {Absent, "AWAITING_APPROVAL"}
    /\ r.state \in Ran => q.state \in Ran
    /\ r.cancel => q.cancel
    /\ r.cancel /\ q.state = "COMPLETED" => r.state = "COMPLETED"

NoStart(r, q) == q.state = "RUNNING" => r.state = "RUNNING"

---------------------------------------------------------------------------
(* The inductive invariant. *)

RowsOK == \A e \in Exec : RowOK(e, row[e], approval[GroupOf[e]])

\* A decision is about rows that exist, and only active scans have one.
ApprovalsOK ==
    \A g \in Group : approval[g] # "NONE" =>
        IsActive(g) /\ \A e \in Of(g) : row[e].state # Absent

\* No message before the decision: the pre-flight never meets a state it cannot leave.
MessagesOK ==
    \A e \in Exec : row[e].state \in {Absent, "AWAITING_APPROVAL"}
        => msgs[e] = 0 /\ e \notin toSend

WorkersOK ==
    \A w \in Worker : LET e == worker[w].exec IN
        e # NoExec => /\ row[e].state \in Ran
                      /\ e \in ActiveExec => approval[GroupOf[e]] = "APPROVED"

\* What a stop covers and still runs has been signalled, so the stop is not confirmed.
StopOK ==
    \A e \in stop.covers :
        stop.state # "CLEARED" /\ row[e].state = "RUNNING"
            => row[e].cancel /\ stop.state = "REQUESTED"

IInv ==
    /\ TypeOK
    /\ RowsOK
    /\ ApprovalsOK
    /\ MessagesOK
    /\ WorkersOK
    /\ StopOK
    /\ WithinLimits

---------------------------------------------------------------------------
(* One row under each handler. *)

\* The columns of a row after Transition.
LEMMA TransitionRow ==
    ASSUME NEW r \in Row, NEW s \in State
    PROVE  LET q == Transition(r, s)
           IN  /\ q \in Row
               /\ q.state = IF r.state \in Terminal THEN r.state ELSE s
               /\ q.cancel = r.cancel /\ q.window = r.window /\ q.partial = r.partial
               /\ s # "RUNNING" \/ r.state \in Terminal \cup {"RUNNING"} => q.deadline = r.deadline
  BY DEF Transition, Row, Clock, Terminal, State

\* A row that is left alone keeps what it had.
LEMMA SameRow ==
    ASSUME NEW e \in Exec, NEW r, NEW a \in ApprovalState, NEW b \in ApprovalState,
           RowOK(e, r, a), a = "APPROVED" => b = "APPROVED"
    PROVE  Keeps(e, r, r, b) /\ NoStart(r, r)
  BY DEF Keeps, NoStart, RowOK, Legal

\* Creating a scan inserts rows that wait for approval or are idle.
LEMMA CreateRowKeeps ==
    ASSUME NEW e \in Exec, NEW r, NEW a \in ApprovalState, r = AbsentRow
    PROVE  Keeps(e, r, CreateRow(e), a) /\ NoStart(r, CreateRow(e))
  BY DEF Keeps, NoStart, RowOK, Legal, CreateRow, AbsentRow, Row, Clock, State, Absent,
         PreRun, Terminal, Ran, Granted, LC!Born

\* Approval leads to APPROVED, or to QUEUED for an occurrence of the scheduler.
LEMMA ApproveRowKeeps ==
    ASSUME NEW e \in Exec, NEW r, NEW a \in ApprovalState, NEW scheduled \in BOOLEAN,
           RowOK(e, r, a), r.state = "AWAITING_APPROVAL"
    PROVE  Keeps(e, r, ApproveRow(r, scheduled), "APPROVED")
           /\ NoStart(r, ApproveRow(r, scheduled))
  <1> DEFINE r1 == [r EXCEPT !.window = "ahead"]
             r2 == Transition(r1, "APPROVED")
             r3 == Transition(r2, "QUEUED")
  <1>1. /\ r1 \in Row /\ r1.state = r.state /\ r1.cancel = r.cancel
        /\ r1.deadline = r.deadline /\ r1.partial = r.partial
    BY DEF RowOK, Row, Clock
  <1>2. /\ r2 \in Row /\ r2.state = "APPROVED" /\ r2.cancel = r.cancel
        /\ r2.deadline = r.deadline /\ r2.partial = r.partial
    BY <1>1, TransitionRow DEF State, PreRun, Terminal
  <1>3. /\ r3 \in Row /\ r3.state = "QUEUED" /\ r3.cancel = r.cancel
        /\ r3.deadline = r.deadline /\ r3.partial = r.partial
    BY <1>2, TransitionRow DEF State, PreRun, Terminal
  <1>4. e \in ActiveExec /\ r.deadline = "unset"
    BY DEF RowOK, PreRun
  <1>5. ApproveRow(r, scheduled) = IF scheduled THEN r3 ELSE r2
    BY DEF ApproveRow
  <1> HIDE DEF r1, r2, r3
  <1> QED
    BY <1>2, <1>3, <1>4, <1>5 DEF Keeps, NoStart, RowOK, Legal, Absent, PreRun, Terminal,
       Ran, Granted, LC!Move, LC!CanTransition

\* A denial ends the rows that wait and leaves the others.
LEMMA DenyRowKeeps ==
    ASSUME NEW e \in Exec, NEW r, NEW a \in ApprovalState, NEW b \in ApprovalState,
           RowOK(e, r, a), a = "APPROVED" => b = "APPROVED"
    PROVE  Keeps(e, r, DenyRow(r), b) /\ NoStart(r, DenyRow(r))
  BY TransitionRow DEF Keeps, NoStart, RowOK, Legal, DenyRow, State, Absent,
     PreRun, Terminal, Ran, Granted, LC!Move, LC!CanTransition

\* A start queues an approved row, or an idle one that needs no approval.
LEMMA StartRowKeeps ==
    ASSUME NEW e \in Exec, NEW r, NEW a \in ApprovalState, RowOK(e, r, a)
    PROVE  Keeps(e, r, StartRow(e, r), a) /\ NoStart(r, StartRow(e, r))
  <1>1. CASE ~Startable(e, r)
    BY <1>1, SameRow DEF StartRow
  <1>2. CASE Startable(e, r)
    <2> DEFINE s == IF r.window = "passed" THEN "EXPIRED" ELSE "QUEUED"
               q == Transition(r, s)
    <2>1. StartRow(e, r) = q
      BY <1>2 DEF StartRow
    <2>2. r.state = "APPROVED" \/ (r.state = "DRAFT" /\ e \notin ActiveExec)
      BY <1>2 DEF Startable
    <2>3. /\ q \in Row /\ q.state = s /\ q.cancel = r.cancel /\ q.window = r.window
          /\ q.deadline = r.deadline /\ q.partial = r.partial
      BY <2>2, TransitionRow DEF RowOK, State, PreRun, Terminal
    <2>4. r.deadline = "unset" /\ (e \in ActiveExec => a = "APPROVED")
      BY <2>2 DEF RowOK, PreRun, Granted
    <2>5. s = "QUEUED" \/ (s = "EXPIRED" /\ e \in ActiveExec)
      BY DEF RowOK
    <2> HIDE DEF q, s
    <2>6. RowOK(e, q, a)
      BY <2>2, <2>3, <2>4, <2>5 DEF RowOK, Absent, PreRun, Granted
    <2>7. Legal(e, r, q, a)
      BY <2>2, <2>3, <2>4, <2>5 DEF Legal, Absent, LC!Move, LC!CanTransition
    <2> QED
      BY <2>1, <2>2, <2>3, <2>5, <2>6, <2>7 DEF Keeps, NoStart, Absent, Terminal, Ran
  <1> QED BY <1>1, <1>2

\* A pause returns a queued row to where its start took it from.
LEMMA PauseRowKeeps ==
    ASSUME NEW e \in Exec, NEW r, NEW a \in ApprovalState, RowOK(e, r, a)
    PROVE  Keeps(e, r, PauseRow(e, r), a) /\ NoStart(r, PauseRow(e, r))
  BY TransitionRow DEF Keeps, NoStart, RowOK, Legal, PauseRow, State, Absent,
     PreRun, Terminal, Ran, Granted, LC!Move, LC!CanTransition

\* A stop cancels a row that has not started and signals one that runs.
LEMMA StopRowKeeps ==
    ASSUME NEW e \in Exec, NEW r, NEW a \in ApprovalState, RowOK(e, r, a)
    PROVE  /\ Keeps(e, r, StopRow(r), a) /\ NoStart(r, StopRow(r))
           /\ StopRow(r).state = "RUNNING" => StopRow(r).cancel
  <1> DEFINE r1 == [r EXCEPT !.cancel = TRUE]
             r2 == Transition(r1, "CANCELLED")
  <1>1. /\ r1 \in Row /\ r1.state = r.state /\ r1.cancel = TRUE /\ r1.window = r.window
        /\ r1.deadline = r.deadline /\ r1.partial = r.partial
    BY DEF RowOK, Row, Clock
  <1>2. /\ r2 \in Row /\ r2.cancel = TRUE /\ r2.window = r.window
        /\ r.state \in PreRun => r2.state = "CANCELLED"
        /\ r2.deadline = r.deadline /\ r2.partial = r.partial
    BY <1>1, TransitionRow DEF State, PreRun, Terminal
  <1>3. StopRow(r) = IF ~Live(r) THEN r ELSE IF r.state \in PreRun THEN r2 ELSE r1
    BY DEF StopRow
  <1> HIDE DEF r1, r2
  <1> QED
    BY <1>1, <1>2, <1>3 DEF Keeps, NoStart, RowOK, Legal, Live, Absent, PreRun, Terminal,
       Ran, Granted, LC!Move, LC!CanTransition

\* The sweep expires and times out.
LEMMA SweepRowKeeps ==
    ASSUME NEW e \in Exec, NEW r, NEW a \in ApprovalState, RowOK(e, r, a)
    PROVE  /\ Keeps(e, r, TimeoutRow(ExpireRow(r)), a)
           /\ NoStart(r, TimeoutRow(ExpireRow(r)))
           /\ r.state = "RUNNING" => ExpireRow(r) = r
  <1> DEFINE q == ExpireRow(r)
             t == [q EXCEPT !.state = "TIMED_OUT", !.cancel = TRUE, !.partial = TRUE]
  <1>1. /\ Keeps(e, r, q, a) /\ NoStart(r, q)
        /\ r.state = "RUNNING" => q = r
        /\ q.state = "COMPLETED" => r.state = "COMPLETED"
    BY TransitionRow DEF Keeps, NoStart, RowOK, Legal, ExpireRow, State, Absent,
       PreRun, Terminal, Ran, Granted, LC!Move, LC!CanTransition
  <1>2. TimeoutRow(q) = IF q.state = "RUNNING" /\ q.deadline = "passed" THEN t ELSE q
    BY <1>1 DEF TimeoutRow, Keeps, RowOK
  <1>3. CASE q.state = "RUNNING" /\ q.deadline = "passed"
    <2>1. /\ t \in Row /\ t.state = "TIMED_OUT" /\ t.cancel = TRUE /\ t.partial = TRUE
          /\ t.window = q.window
      BY <1>1 DEF Keeps, RowOK, Row, State, Terminal
    <2>2. r.state = "RUNNING" /\ (e \in ActiveExec => a = "APPROVED")
      BY <1>1, <1>3 DEF NoStart, RowOK, Granted
    <2> HIDE DEF t
    <2> QED
      BY <1>1, <1>2, <1>3, <2>1, <2>2 DEF Keeps, NoStart, RowOK, Legal, Absent, PreRun,
         Terminal, Ran, Granted, LC!Move, LC!CanTransition
  <1>4. CASE ~(q.state = "RUNNING" /\ q.deadline = "passed")
    BY <1>1, <1>2, <1>4
  <1> QED BY <1>3, <1>4

\* The clock reaches the window or the deadline of a live row.
LEMMA ClockKeeps ==
    ASSUME NEW e \in Exec, NEW r, NEW a \in ApprovalState, RowOK(e, r, a)
    PROVE  /\ r.window = "ahead" =>
                Keeps(e, r, WindowPassed(r), a) /\ NoStart(r, WindowPassed(r))
           /\ r.deadline = "ahead" /\ Live(r) =>
                Keeps(e, r, DeadlinePassed(r), a) /\ NoStart(r, DeadlinePassed(r))
  BY DEF WindowPassed, DeadlinePassed, Keeps, NoStart, RowOK, Legal, Live, Row, Clock, State,
         Absent, PreRun, Terminal, Ran, Granted

\* The pre-flight of a message; only a queued row that is not blocked and has room
\* comes to run.
LEMMA PreflightKeeps ==
    ASSUME NEW e \in Exec, NEW r, NEW a \in ApprovalState, RowOK(e, r, a),
           r.state \notin {Absent, "AWAITING_APPROVAL"},
           NEW blocked \in BOOLEAN, NEW room \in BOOLEAN, NEW inScope \in BOOLEAN
    PROVE  LET s == PreflightState(e, r, blocked, room, inScope)
               q == Transition(r, s)
           IN  /\ s \in State /\ q.state = s
               /\ Keeps(e, r, q, a)
               /\ NoStart(r, q) \/ (r.state = "QUEUED" /\ ~blocked /\ room)
  <1> DEFINE s == PreflightState(e, r, blocked, room, inScope)
             q == Transition(r, s)
  <1>1. /\ s \in State
        /\ r.state \in Terminal => s = r.state
        /\ r.state = "RUNNING" => s \in {"RUNNING", "FAILED"}
        /\ r.state \in PreRun =>
             \/ s \in {r.state, "CANCELLED"}
             \/ s \in {"EXPIRED", "FAILED"} /\ e \in ActiveExec
             \/ s = "RUNNING" /\ r.state = "QUEUED" /\ ~blocked /\ room
    BY DEF PreflightState, RowOK, Row, State, Absent, PreRun, Terminal
  <1>2. /\ q \in Row /\ q.state = s /\ q.cancel = r.cancel /\ q.partial = r.partial
        /\ q.window = r.window
        /\ s # "RUNNING" \/ r.state = "RUNNING" => q.deadline = r.deadline
    BY <1>1, TransitionRow DEF RowOK
  <1>3. r.state \in Terminal \cup PreRun \cup {"RUNNING"}
    BY DEF RowOK, Row, State
  <1> HIDE DEF s, q
  <1>4. RowOK(e, q, a)
    BY <1>1, <1>2, <1>3 DEF RowOK, Absent, PreRun, Terminal, Granted
  <1>6. Legal(e, r, q, a)
    BY <1>1, <1>2, <1>3 DEF RowOK, Legal, Absent, PreRun, Terminal, Granted,
       LC!Move, LC!CanTransition
  <1>5. Keeps(e, r, q, a) /\ (NoStart(r, q) \/ (r.state = "QUEUED" /\ ~blocked /\ room))
    BY <1>1, <1>2, <1>3, <1>4, <1>6 DEF Keeps, NoStart, Absent, PreRun, Terminal, Ran
  <1> QED BY <1>1, <1>2, <1>5 DEF s, q

\* Persisting ends a running row, never as COMPLETED if a stop was recorded.
LEMMA PersistRowKeeps ==
    ASSUME NEW e \in Exec, NEW r, NEW a \in ApprovalState, RowOK(e, r, a), r.state \in Ran,
           NEW incomplete \in BOOLEAN, NEW normalised \in BOOLEAN
    PROVE  LET q == PersistRow(r, incomplete, normalised)
           IN  Keeps(e, r, q, a) /\ NoStart(r, q)
  <1> DEFINE s == PersistState(r, normalised)
             q == PersistRow(r, incomplete, normalised)
             p == PersistPartial(r, s, incomplete)
             t == [Transition(r, s) EXCEPT !.partial = p]
  <1>1. CASE r.state \in Terminal
    BY <1>1, SameRow DEF PersistRow
  <1>2. CASE r.state = "RUNNING"
    <2>1. s \in {"FAILED", "TIMED_OUT", "CANCELLED", "COMPLETED"}
          /\ (r.cancel => s # "COMPLETED")
      BY DEF PersistState
    <2>2. p \in BOOLEAN /\ (s \in {"TIMED_OUT", "CANCELLED"} => p)
      BY <2>1 DEF RowOK, Row, PersistPartial
    <2>3. Transition(r, s) \in Row /\ Transition(r, s).state = s
          /\ Transition(r, s).cancel = r.cancel /\ Transition(r, s).window = r.window
      BY <1>2, <2>1, TransitionRow DEF RowOK, State, Terminal
    <2> HIDE DEF s, p
    <2>4. /\ t \in Row /\ t.state = s /\ t.cancel = r.cancel /\ t.partial = p
          /\ t.window = r.window
      BY <2>2, <2>3 DEF Row
    <2>5. q = t
      BY <1>2, <2>1 DEF PersistRow, s, p, CanTransition, Terminal
    <2>6. e \in ActiveExec => a = "APPROVED"
      BY <1>2 DEF RowOK, Granted
    <2> HIDE DEF t, q
    <2> QED
      BY <1>2, <2>1, <2>2, <2>4, <2>5, <2>6 DEF Keeps, NoStart, RowOK, Legal, q, Absent,
         PreRun, Terminal, Ran, Granted, LC!Move, LC!CanTransition
  <1> QED BY <1>1, <1>2 DEF Ran

---------------------------------------------------------------------------
(* What every step of the system has in common. *)

RowsKeep == \A e \in Exec : Keeps(e, row[e], row'[e], approval'[GroupOf[e]])

NoneStarts == \A e \in Exec : NoStart(row[e], row'[e])

ApprovalsKeep ==
    \A g \in Group :
        /\ approval[g] = "APPROVED" => approval'[g] = "APPROVED"
        /\ approval'[g] # "NONE" /\ approval[g] = "NONE" =>
             IsActive(g) /\ \A e \in Of(g) : row'[e].state # Absent

\* No message comes up for a row that has none and still waits.
MessagesKeep ==
    \A e \in Exec : row'[e].state \in {Absent, "AWAITING_APPROVAL"} /\ msgs[e] = 0 /\ e \notin toSend
        => msgs'[e] = 0 /\ e \notin toSend'

WorkersKeep ==
    \A w \in Worker : worker'[w].exec \in {worker[w].exec, NoExec} \/
        LET e == worker'[w].exec IN
            /\ row'[e].state \in Ran
            /\ e \in ActiveExec => approval'[GroupOf[e]] = "APPROVED"

Framed ==
    /\ TypeOK'
    /\ RowsKeep /\ ApprovalsKeep /\ MessagesKeep /\ WorkersKeep
    /\ (stop' = stop /\ NoneStarts) \/ StopOK'
    /\ NoneStarts \/ WithinLimits'

\* If nothing starts, no limit is newly exceeded.
LEMMA NoneStartsWithinLimits ==
    ASSUME WithinLimits, NoneStarts
    PROVE  WithinLimits'
  <1>1. Running' \subseteq Running /\ \A t \in Target : RunningOn(t)' \subseteq RunningOn(t)
    BY DEF NoneStarts, NoStart, Running, RunningOn
  <1>2. IsFiniteSet(Running) /\ \A t \in Target : IsFiniteSet(RunningOn(t))
    BY ExecAssumption, FS_Subset DEF Running, RunningOn
  <1>3. /\ Cardinality(Running') <= Cardinality(Running)
        /\ \A t \in Target : Cardinality(RunningOn(t)') <= Cardinality(RunningOn(t))
    BY <1>1, <1>2, FS_Subset
  <1>4. /\ Cardinality(Running) \in Nat /\ Cardinality(Running') \in Nat
        /\ \A t \in Target : /\ Cardinality(RunningOn(t)) \in Nat
                             /\ Cardinality(RunningOn(t)') \in Nat
    BY <1>1, <1>2, FS_Subset, FS_CardinalityType
  <1> QED BY <1>3, <1>4, LimitAssumption DEF WithinLimits

\* A framed step keeps the inductive invariant.
LEMMA FramedStep ==
    ASSUME IInv, Framed
    PROVE  IInv'
  <1> USE DEF Framed
  <1>1. TypeOK' /\ GroupOf \in [Exec -> Group]
    BY ExecAssumption
  <1>2. RowsOK'
    BY DEF RowsKeep, Keeps, RowsOK
  <1>3. ApprovalsOK'
    <2> SUFFICES ASSUME NEW g \in Group, approval'[g] # "NONE"
                 PROVE  IsActive(g) /\ \A e \in Of(g) : row'[e].state # Absent
      BY DEF ApprovalsOK, Of, IsActive
    <2>1. CASE approval[g] = "NONE"
      BY <2>1 DEF ApprovalsKeep
    <2>2. CASE approval[g] # "NONE"
      BY <2>2 DEF IInv, ApprovalsOK, RowsKeep, Keeps, Of
    <2> QED BY <2>1, <2>2
  <1>4. MessagesOK'
    BY DEF IInv, MessagesOK, MessagesKeep, RowsKeep, Keeps
  <1>5. WorkersOK'
    <2> SUFFICES ASSUME NEW w \in Worker, worker'[w].exec # NoExec
                 PROVE  LET e == worker'[w].exec IN
                          /\ row'[e].state \in Ran
                          /\ e \in ActiveExec => approval'[GroupOf[e]] = "APPROVED"
      BY DEF WorkersOK
    <2>1. worker'[w].exec \in Exec
      BY <1>1 DEF TypeOK, Job
    <2>2. CASE worker'[w].exec = worker[w].exec
      BY <1>1, <2>1, <2>2 DEF IInv, WorkersOK, RowsKeep, Keeps, ApprovalsKeep
    <2>3. CASE worker'[w].exec # worker[w].exec
      BY <2>3 DEF WorkersKeep
    <2> QED BY <2>2, <2>3
  <1>6. StopOK'
    <2>1. CASE stop' = stop /\ NoneStarts
      <3>1. stop.covers \subseteq Exec
        BY DEF IInv, TypeOK, Stop
      <3> QED BY <2>1, <3>1 DEF IInv, StopOK, NoneStarts, NoStart, RowsKeep, Keeps
    <2> QED BY <2>1
  <1>7. WithinLimits'
    BY NoneStartsWithinLimits DEF IInv
  <1> QED BY <1>1, <1>2, <1>3, <1>4, <1>5, <1>6, <1>7 DEF IInv

---------------------------------------------------------------------------
(* Every action is framed. *)

\* What a step does to the rows, when it leaves approvals, workers and stop alone.
RowsOnly ==
    /\ row' = [e \in Exec |-> row'[e]]
    /\ RowsKeep /\ NoneStarts
    /\ UNCHANGED <<approval, stop, worker>>

\* A step that only replaces rows, each in a way Keeps allows and none of
\* them starting, is framed: requests such as start, pause and stop.
LEMMA RowsOnlyFramed ==
    ASSUME IInv, RowsOnly, MessagesKeep,
           toSend' \subseteq Exec, toReconcile' \in BOOLEAN, msgs' \in [Exec -> 0..MaxMsgs]
    PROVE  Framed
  <1>1. row' \in [Exec -> Row]
    BY DEF RowsOnly, RowsKeep, Keeps, RowOK
  <1>2. TypeOK'
    BY <1>1 DEF IInv, TypeOK, RowsOnly
  <1>3. ApprovalsKeep /\ WorkersKeep
    BY DEF ApprovalsKeep, WorkersKeep, RowsOnly
  <1> QED BY <1>2, <1>3 DEF Framed, RowsOnly

\* More sends to the executions of S, at most MaxMsgs each.
LEMMA MoreType ==
    ASSUME NEW S, msgs \in [Exec -> 0..MaxMsgs]
    PROVE  /\ More(S) \in [Exec -> 0..MaxMsgs]
           /\ \A e \in Exec : e \notin S => More(S)[e] = msgs[e]
  BY WorkerAssumption DEF More, OneMore

\* A step that leaves the rows and the approvals alone keeps the rows.
LEMMA SameRows ==
    ASSUME IInv, UNCHANGED <<row, approval>>
    PROVE  RowsKeep /\ NoneStarts /\ row' = [e \in Exec |-> row'[e]]
  <1>1. \A e \in Exec : /\ RowOK(e, row[e], approval[GroupOf[e]])
                        /\ approval[GroupOf[e]] \in ApprovalState
    BY ExecAssumption DEF IInv, RowsOK, TypeOK
  <1>2. \A e \in Exec : Keeps(e, row[e], row[e], approval[GroupOf[e]]) /\ NoStart(row[e], row[e])
    BY <1>1, SameRow
  <1>3. row = [e \in Exec |-> row[e]]
    BY DEF IInv, TypeOK
  <1> QED BY <1>2, <1>3 DEF RowsKeep, NoneStarts

\* POST /api/scans and the scheduler's active occurrence are framed.
LEMMA CreateFramed ==
    ASSUME IInv, NEW g \in Group, CreateScan(g) \/ OccurActive(g)
    PROVE  Framed
  <1>1. /\ IsNew(g, row) /\ row' = Rewrite(row, Of(g), CreateRow)
        /\ approval' = [approval EXCEPT ![g] = IF IsActive(g) THEN "AWAITING_APPROVAL" ELSE @]
        /\ UNCHANGED <<stop, toSend, toReconcile, msgs, worker>>
    BY DEF CreateScan, OccurActive
  <1>2. /\ approval \in [Group -> ApprovalState] /\ GroupOf \in [Exec -> Group]
        /\ row \in [Exec -> Row] /\ approval' \in [Group -> ApprovalState]
    BY <1>1, ExecAssumption DEF IInv, TypeOK, ApprovalState
  <1>3. approval[g] = "NONE"
    <2>1. PICK e \in Of(g) : TRUE
      BY ExecAssumption
    <2> QED BY <1>1, <2>1 DEF IsNew, IInv, ApprovalsOK
  <1>4. \A e \in Exec : /\ Keeps(e, row[e], row'[e], approval'[GroupOf[e]])
                        /\ NoStart(row[e], row'[e])
    <2> SUFFICES ASSUME NEW e \in Exec
                 PROVE  /\ Keeps(e, row[e], row'[e], approval'[GroupOf[e]])
                        /\ NoStart(row[e], row'[e])
      OBVIOUS
    <2>1. RowOK(e, row[e], approval[GroupOf[e]])
      BY DEF IInv, RowsOK
    <2>2. CASE e \in Of(g)
      <3>1. row'[e] = CreateRow(e) /\ row[e].state = Absent
        BY <1>1, <2>2 DEF Rewrite, IsNew
      <3>2. RowOK(e, CreateRow(e), approval'[GroupOf[e]])
        BY DEF RowOK, CreateRow, AbsentRow, Row, Clock, State, Absent, PreRun, Terminal, Granted
      <3>3. Legal(e, row[e], CreateRow(e), approval'[GroupOf[e]])
        BY <3>1 DEF Legal, CreateRow, AbsentRow, LC!Born
      <3>4. CreateRow(e).state \in {"DRAFT", "AWAITING_APPROVAL"}
        BY DEF CreateRow, AbsentRow
      <3>5. ~row[e].cancel
        BY <2>1, <3>1 DEF RowOK
      <3> QED BY <3>1, <3>2, <3>3, <3>4, <3>5 DEF Keeps, NoStart, Absent, Ran, Terminal
    <2>3. CASE e \notin Of(g)
      <3>1. row'[e] = row[e] /\ approval'[GroupOf[e]] = approval[GroupOf[e]]
        BY <1>1, <1>2, <2>3 DEF Rewrite, Of
      <3> QED BY <1>2, <2>1, <3>1, SameRow
    <2> QED BY <2>2, <2>3
  <1>5. row' \in [Exec -> Row]
    BY <1>1, <1>4 DEF Keeps, RowOK, Rewrite
  <1>6. TypeOK'
    BY <1>1, <1>2, <1>5 DEF IInv, TypeOK
  <1>7. ApprovalsKeep
    <2>1. \A e \in Of(g) : row'[e].state # Absent
      BY <1>1 DEF Rewrite, Of, CreateRow, AbsentRow, Absent
    <2> QED BY <1>1, <1>2, <1>3, <2>1 DEF ApprovalsKeep
  <1>8. MessagesKeep /\ WorkersKeep
    BY <1>1 DEF MessagesKeep, WorkersKeep
  <1> QED BY <1>1, <1>4, <1>6, <1>7, <1>8 DEF Framed, RowsKeep, NoneStarts

\* Queueing a passive execution as it is inserted is framed.
LEMMA QueuePassiveFramed ==
    ASSUME IInv, NEW e \in Exec, QueuePassive(e)
    PROVE  Framed
  <1>1. /\ row[e].state = Absent /\ e \notin ActiveExec
        /\ row' = [row EXCEPT ![e] = QueuedRow] /\ toSend' = toSend \cup {e}
        /\ UNCHANGED <<approval, stop, toReconcile, msgs, worker>>
    BY DEF QueuePassive
  <1>2. row \in [Exec -> Row] /\ \A x \in Exec : /\ RowOK(x, row[x], approval[GroupOf[x]])
                                                 /\ approval[GroupOf[x]] \in ApprovalState
    BY ExecAssumption DEF IInv, TypeOK, RowsOK
  <1>3. Keeps(e, row[e], QueuedRow, approval'[GroupOf[e]]) /\ NoStart(row[e], QueuedRow)
    <2>1. RowOK(e, QueuedRow, approval'[GroupOf[e]])
      BY <1>1 DEF RowOK, QueuedRow, AbsentRow, Row, Clock, State, Absent, PreRun, Terminal
    <2>2. Legal(e, row[e], QueuedRow, approval'[GroupOf[e]]) /\ QueuedRow.state = "QUEUED"
      BY <1>1 DEF Legal, QueuedRow, AbsentRow, LC!Born
    <2>3. ~row[e].cancel
      BY <1>1, <1>2 DEF RowOK
    <2> QED BY <1>1, <2>1, <2>2, <2>3 DEF Keeps, NoStart, Absent, Ran, Terminal
  <1>4. \A x \in Exec : /\ Keeps(x, row[x], row'[x], approval'[GroupOf[x]])
                        /\ NoStart(row[x], row'[x])
    BY <1>1, <1>2, <1>3, SameRow
  <1>5. RowsOnly
    BY <1>1, <1>2, <1>4 DEF RowsOnly, RowsKeep, NoneStarts
  <1>6. MessagesKeep
    BY <1>1, <1>2 DEF MessagesKeep, QueuedRow, AbsentRow, Absent
  <1>7. toSend' \subseteq Exec /\ toReconcile' \in BOOLEAN /\ msgs' \in [Exec -> 0..MaxMsgs]
    BY <1>1 DEF IInv, TypeOK
  <1> QED BY <1>5, <1>6, <1>7, RowsOnlyFramed

\* Approving a scan is framed: the grant and the rows change together.
LEMMA ApproveFramed ==
    ASSUME IInv, NEW g \in Group, Approve(g)
    PROVE  Framed
  <1>1. /\ approval[g] = "AWAITING_APPROVAL"
        /\ \A e \in Of(g) : row[e].state = "AWAITING_APPROVAL"
        /\ approval' = [approval EXCEPT ![g] = "APPROVED"]
        /\ row' = Approved(g, row)
        /\ toSend' \in {toSend, toSend \cup Of(g)}
        /\ UNCHANGED <<stop, toReconcile, msgs, worker>>
    BY DEF Approve, CanApprove
  <1>2. /\ row \in [Exec -> Row] /\ approval \in [Group -> ApprovalState]
        /\ GroupOf \in [Exec -> Group] /\ Of(g) \subseteq Exec
    BY ExecAssumption DEF IInv, TypeOK, Of
  <1>3. \A e \in Exec : /\ RowOK(e, row[e], approval[GroupOf[e]])
                        /\ approval[GroupOf[e]] \in ApprovalState
    BY <1>2 DEF IInv, RowsOK
  <1>4. \A e \in Of(g) : /\ row'[e] = ApproveRow(row[e], g \in ScheduledGroup)
                         /\ approval'[GroupOf[e]] = "APPROVED"
    BY <1>1, <1>2 DEF Approved, Rewrite, Of
  <1>5. \A e \in Exec \ Of(g) : /\ row'[e] = row[e]
                                /\ approval'[GroupOf[e]] = approval[GroupOf[e]]
    BY <1>1, <1>2 DEF Approved, Rewrite, Of
  <1>6. \A e \in Exec : /\ Keeps(e, row[e], row'[e], approval'[GroupOf[e]])
                        /\ NoStart(row[e], row'[e])
    <2>1. \A e \in Of(g) : /\ Keeps(e, row[e], row'[e], approval'[GroupOf[e]])
                           /\ NoStart(row[e], row'[e])
      <3> DEFINE scheduled == g \in ScheduledGroup
      <3>1. scheduled \in BOOLEAN
        OBVIOUS
      <3>2. \A e \in Of(g) : row'[e] = ApproveRow(row[e], scheduled)
        BY <1>4
      <3> HIDE DEF scheduled
      <3> QED BY <1>1, <1>2, <1>3, <1>4, <3>1, <3>2, ApproveRowKeeps
    <2>2. \A e \in Exec \ Of(g) : /\ Keeps(e, row[e], row'[e], approval'[GroupOf[e]])
                                  /\ NoStart(row[e], row'[e])
      BY <1>3, <1>5, SameRow
    <2> QED BY <2>1, <2>2
  <1>7. row' \in [Exec -> Row]
    BY <1>1, <1>6 DEF Keeps, RowOK, Approved, Rewrite
  <1>8. TypeOK'
    BY <1>1, <1>2, <1>7 DEF IInv, TypeOK, ApprovalState
  <1>9. ApprovalsKeep
    BY <1>1, <1>2 DEF ApprovalsKeep
  <1>10. \A e \in Of(g) : row'[e].state \notin {Absent, "AWAITING_APPROVAL"}
    <2>1. \A e \in Of(g) : RowOK(e, row[e], approval[GroupOf[e]])
      BY <1>2, <1>3
    <2>2. \A e \in Of(g) : row'[e].state \in {"APPROVED", "QUEUED"}
      <3> SUFFICES ASSUME NEW e \in Of(g)
                   PROVE  row'[e].state \in {"APPROVED", "QUEUED"}
        OBVIOUS
      <3> DEFINE r1 == [row[e] EXCEPT !.window = "ahead"]
      <3>1. r1 \in Row /\ r1.state = "AWAITING_APPROVAL"
        BY <1>1, <2>1 DEF RowOK, Row, Clock
      <3> HIDE DEF r1
      <3>2. Transition(r1, "APPROVED") \in Row /\ Transition(r1, "APPROVED").state = "APPROVED"
        BY <3>1, TransitionRow DEF State, PreRun, Terminal
      <3>3. Transition(Transition(r1, "APPROVED"), "QUEUED").state = "QUEUED"
        BY <3>2, TransitionRow DEF State, PreRun, Terminal
      <3> QED BY <1>4, <3>2, <3>3 DEF ApproveRow, r1
    <2> QED BY <2>2 DEF Absent
  <1>11. MessagesKeep /\ WorkersKeep
    BY <1>1, <1>10 DEF MessagesKeep, WorkersKeep
  <1> QED BY <1>1, <1>6, <1>8, <1>9, <1>11 DEF Framed, RowsKeep, NoneStarts

\* Denying a scan is framed: what it ends never ran.
LEMMA DenyFramed ==
    ASSUME IInv, NEW g \in Group, Deny(g)
    PROVE  Framed
  <1>1. /\ approval[g] = "AWAITING_APPROVAL" /\ approval' = [approval EXCEPT ![g] = "DENIED"]
        /\ row' = Denied(g, row)
        /\ UNCHANGED <<stop, toSend, toReconcile, msgs, worker>>
    BY DEF Deny, CanDeny
  <1>2. /\ row \in [Exec -> Row] /\ approval \in [Group -> ApprovalState]
        /\ GroupOf \in [Exec -> Group]
    BY ExecAssumption DEF IInv, TypeOK
  <1>3. approval' \in [Group -> ApprovalState]
        /\ \A h \in Group : approval[h] = "APPROVED" => approval'[h] = "APPROVED"
    BY <1>1, <1>2 DEF ApprovalState
  <1>4. \A e \in Exec : /\ RowOK(e, row[e], approval[GroupOf[e]])
                        /\ approval[GroupOf[e]] \in ApprovalState
                        /\ approval'[GroupOf[e]] \in ApprovalState
                        /\ row'[e] \in {row[e], DenyRow(row[e])}
    BY <1>1, <1>2, <1>3 DEF IInv, RowsOK, Denied, Rewrite
  <1>5. \A e \in Exec : /\ Keeps(e, row[e], row'[e], approval'[GroupOf[e]])
                        /\ NoStart(row[e], row'[e])
    BY <1>2, <1>3, <1>4, SameRow, DenyRowKeeps
  <1>6. row' \in [Exec -> Row]
    BY <1>1, <1>5 DEF Keeps, RowOK, Denied, Rewrite
  <1>7. TypeOK'
    BY <1>1, <1>3, <1>6 DEF IInv, TypeOK
  <1>8. ApprovalsKeep /\ MessagesKeep /\ WorkersKeep
    BY <1>1, <1>2 DEF ApprovalsKeep, MessagesKeep, WorkersKeep
  <1> QED BY <1>1, <1>5, <1>7, <1>8 DEF Framed, RowsKeep, NoneStarts

\* Requests and the clock, which change rows one by one.
LEMMA RowByRow ==
    ASSUME IInv,
           row' = [e \in Exec |-> row'[e]],
           UNCHANGED <<approval, stop, worker>>,
           \A e \in Exec : row'[e] = row[e] \/ ( /\ Keeps(e, row[e], row'[e], approval[GroupOf[e]])
                                                 /\ NoStart(row[e], row'[e]) )
    PROVE  RowsOnly
  <1>1. \A e \in Exec : /\ RowOK(e, row[e], approval[GroupOf[e]])
                        /\ approval[GroupOf[e]] \in ApprovalState
    BY ExecAssumption DEF IInv, TypeOK, RowsOK
  <1>2. \A e \in Exec : /\ Keeps(e, row[e], row'[e], approval[GroupOf[e]])
                        /\ NoStart(row[e], row'[e])
    BY <1>1, SameRow
  <1> QED BY <1>2 DEF RowsOnly, RowsKeep, NoneStarts

\* Starting a scan is framed.
LEMMA StartFramed ==
    ASSUME IInv, NEW g \in Group, Start(g)
    PROVE  Framed
  <1>1. /\ row' = Started(g, row) /\ toSend' = toSend \cup StartSends(g, row)
        /\ UNCHANGED <<approval, stop, toReconcile, msgs, worker>>
    BY DEF Start
  <1>2. \A e \in Exec : /\ RowOK(e, row[e], approval[GroupOf[e]])
                        /\ approval[GroupOf[e]] \in ApprovalState
    BY ExecAssumption DEF IInv, TypeOK, RowsOK
  <1>3. RowsOnly
    <2>1. \A e \in Exec : row'[e] \in {row[e], StartRow(e, row[e])}
      BY <1>1 DEF Started, Rewrite
    <2>2. row' = [e \in Exec |-> row'[e]]
      BY <1>1 DEF Started, Rewrite
    <2> QED BY <1>1, <1>2, <2>1, <2>2, StartRowKeeps, RowByRow
  <1>4. StartSends(g, row) \subseteq {e \in Exec : row'[e].state = "QUEUED"}
    BY <1>1 DEF StartSends, Of
  <1>5. MessagesKeep /\ toSend' \subseteq Exec /\ toReconcile' \in BOOLEAN
        /\ msgs' \in [Exec -> 0..MaxMsgs]
    BY <1>1, <1>4 DEF MessagesKeep, IInv, TypeOK, Absent
  <1> QED BY <1>3, <1>5, RowsOnlyFramed

\* Pausing a scan is framed.
LEMMA PauseFramed ==
    ASSUME IInv, NEW g \in Group, Pause(g)
    PROVE  Framed
  <1>1. row' = Paused(g, row) /\ UNCHANGED <<approval, stop, toSend, toReconcile, msgs, worker>>
    BY DEF Pause
  <1>2. \A e \in Exec : /\ RowOK(e, row[e], approval[GroupOf[e]])
                        /\ approval[GroupOf[e]] \in ApprovalState
    BY ExecAssumption DEF IInv, TypeOK, RowsOK
  <1>3. /\ \A e \in Exec : row'[e] \in {row[e], PauseRow(e, row[e])}
        /\ row' = [e \in Exec |-> row'[e]]
    BY <1>1 DEF Paused, Rewrite
  <1>4. RowsOnly
    BY <1>1, <1>2, <1>3, PauseRowKeeps, RowByRow
  <1>5. MessagesKeep /\ toSend' \subseteq Exec /\ toReconcile' \in BOOLEAN
        /\ msgs' \in [Exec -> 0..MaxMsgs]
    BY <1>1 DEF MessagesKeep, IInv, TypeOK
  <1> QED BY <1>4, <1>5, RowsOnlyFramed

\* Stopping a scan or cancelling an execution is framed.
LEMMA StopFramed ==
    ASSUME IInv, (\E g \in Group : StopScan(g)) \/ (\E e \in Exec : CancelExecution(e))
    PROVE  Framed
  <1>1. PICK S : /\ row' = Stopped(S, row)
                 /\ UNCHANGED <<approval, stop, toSend, toReconcile, msgs, worker>>
    BY DEF StopScan, CancelExecution
  <1>2. \A e \in Exec : /\ RowOK(e, row[e], approval[GroupOf[e]])
                        /\ approval[GroupOf[e]] \in ApprovalState
    BY ExecAssumption DEF IInv, TypeOK, RowsOK
  <1>3. /\ \A e \in Exec : row'[e] \in {row[e], StopRow(row[e])}
        /\ row' = [e \in Exec |-> row'[e]]
    BY <1>1 DEF Stopped, Rewrite
  <1>4. RowsOnly
    BY <1>1, <1>2, <1>3, StopRowKeeps, RowByRow
  <1>5. MessagesKeep /\ toSend' \subseteq Exec /\ toReconcile' \in BOOLEAN
        /\ msgs' \in [Exec -> 0..MaxMsgs]
    BY <1>1 DEF MessagesKeep, IInv, TypeOK
  <1> QED BY <1>4, <1>5, RowsOnlyFramed

\* The clock passing a window or a deadline is framed.
LEMMA ClockFramed ==
    ASSUME IInv, (\E g \in Group : WindowPasses(g)) \/ (\E e \in Exec : DeadlinePasses(e))
    PROVE  Framed
  <1>1. UNCHANGED <<approval, stop, toSend, toReconcile, msgs, worker>>
    BY DEF WindowPasses, DeadlinePasses
  <1>2. \A e \in Exec : /\ RowOK(e, row[e], approval[GroupOf[e]])
                        /\ approval[GroupOf[e]] \in ApprovalState
    BY ExecAssumption DEF IInv, TypeOK, RowsOK
  <1>3. row' = [e \in Exec |-> row'[e]]
    BY DEF WindowPasses, DeadlinePasses, Rewrite, IInv, TypeOK
  <1>4. \A e \in Exec : row'[e] = row[e] \/ ( /\ Keeps(e, row[e], row'[e], approval[GroupOf[e]])
                                              /\ NoStart(row[e], row'[e]) )
    <2>1. ASSUME NEW g \in Group, WindowPasses(g), NEW e \in Exec, row'[e] # row[e]
          PROVE  /\ Keeps(e, row[e], row'[e], approval[GroupOf[e]])
                 /\ NoStart(row[e], row'[e])
      <3>1. row[e].window = "ahead" /\ row'[e] = WindowPassed(row[e])
        BY <2>1 DEF WindowPasses, Rewrite
      <3> QED BY <1>2, <3>1, ClockKeeps
    <2>2. ASSUME NEW d \in Exec, DeadlinePasses(d), NEW e \in Exec, row'[e] # row[e]
          PROVE  /\ Keeps(e, row[e], row'[e], approval[GroupOf[e]])
                 /\ NoStart(row[e], row'[e])
      <3>1. /\ row[e].deadline = "ahead" /\ Live(row[e])
            /\ row'[e] = DeadlinePassed(row[e])
        BY <2>2 DEF DeadlinePasses, IInv, TypeOK
      <3> QED BY <1>2, <3>1, ClockKeeps
    <2> QED BY <2>1, <2>2
  <1>5. RowsOnly
    BY <1>1, <1>3, <1>4, RowByRow
  <1>6. MessagesKeep /\ toSend' \subseteq Exec /\ toReconcile' \in BOOLEAN
        /\ msgs' \in [Exec -> 0..MaxMsgs]
    BY <1>1 DEF MessagesKeep, IInv, TypeOK
  <1> QED BY <1>5, <1>6, RowsOnlyFramed

\* The emergency stop.
LEMMA RequestStopFramed ==
    ASSUME IInv, NEW S \in StopScopes, RequestStop(S)
    PROVE  Framed
  <1>1. /\ stop' = [state |-> "REQUESTED", covers |-> S] /\ S \subseteq Exec
        /\ row' = Stopped(S, row) /\ toReconcile' = TRUE
        /\ UNCHANGED <<approval, toSend, msgs, worker>>
    BY DEF RequestStop, StopScopes
  <1>2. \A e \in Exec : /\ RowOK(e, row[e], approval[GroupOf[e]])
                        /\ approval[GroupOf[e]] \in ApprovalState
    BY ExecAssumption DEF IInv, TypeOK, RowsOK
  <1>3. \A e \in Exec : row'[e] = IF e \in S THEN StopRow(row[e]) ELSE row[e]
    BY <1>1 DEF Stopped, Rewrite
  <1>4. \A e \in Exec : /\ Keeps(e, row[e], row'[e], approval'[GroupOf[e]])
                        /\ NoStart(row[e], row'[e])
    BY <1>1, <1>2, <1>3, SameRow, StopRowKeeps
  <1>5. \A e \in S : row'[e].state = "RUNNING" => row'[e].cancel
    BY <1>1, <1>2, <1>3, StopRowKeeps
  <1>6. row' \in [Exec -> Row]
    BY <1>1, <1>4 DEF Keeps, RowOK, Stopped, Rewrite
  <1>7. TypeOK'
    BY <1>1, <1>6 DEF IInv, TypeOK, Stop
  <1>8. StopOK'
    BY <1>1, <1>5 DEF StopOK
  <1>9. ApprovalsKeep /\ MessagesKeep /\ WorkersKeep
    BY <1>1 DEF ApprovalsKeep, MessagesKeep, WorkersKeep
  <1> QED BY <1>4, <1>7, <1>8, <1>9 DEF Framed, RowsKeep, NoneStarts

\* A stop is confirmed only if nothing it covers is running.
LEMMA ReconciledOK ==
    ASSUME IInv, NEW rw,
           \A e \in Exec : row[e].state = "RUNNING" => rw[e] = row[e]
    PROVE  /\ Reconciled(stop, rw) \in Stop
           /\ Reconciled(stop, rw).covers = stop.covers
           /\ \A e \in stop.covers :
                Reconciled(stop, rw).state # "CLEARED" /\ row[e].state = "RUNNING"
                  => row[e].cancel /\ Reconciled(stop, rw).state = "REQUESTED"
  <1>1. stop \in Stop /\ stop.covers \subseteq Exec
    BY DEF IInv, TypeOK, Stop
  <1>2. CASE Reconciled(stop, rw) = stop
    BY <1>1, <1>2 DEF IInv, StopOK
  <1>3. CASE /\ Reconciled(stop, rw) = [stop EXCEPT !.state = "CONFIRMED"]
             /\ stop.state = "REQUESTED"
             /\ \A e \in stop.covers : ~(Live(rw[e]) /\ rw[e].cancel)
    <2>1. \A e \in stop.covers : row[e].state # "RUNNING"
      BY <1>1, <1>3 DEF IInv, StopOK, Live, Terminal, Absent
    <2> QED BY <1>1, <1>3, <2>1 DEF Stop
  <1> QED BY <1>2, <1>3 DEF Reconciled

\* The second transaction of the emergency stop, and clearing it, are framed.
LEMMA ReconcileFramed ==
    ASSUME IInv, ReconcileStop \/ ClearStop
    PROVE  Framed
  <1>1. /\ UNCHANGED <<row, approval, toSend, msgs, worker>>
        /\ toReconcile' \in BOOLEAN
        /\ stop' \in {Reconciled(stop, row), NoStop}
    BY DEF ReconcileStop, ClearStop, IInv, TypeOK
  <1>2. stop' \in Stop /\ StopOK'
    <2>1. CASE stop' = NoStop
      BY <2>1 DEF Stop, NoStop, StopOK
    <2>2. CASE stop' = Reconciled(stop, row)
      <3>1. /\ stop' \in Stop /\ stop'.covers = stop.covers
            /\ \A e \in stop.covers : stop'.state # "CLEARED" /\ row[e].state = "RUNNING"
                  => row[e].cancel /\ stop'.state = "REQUESTED"
        BY <2>2, ReconciledOK
      <3> QED BY <1>1, <3>1 DEF StopOK
    <2> QED BY <1>1, <2>1, <2>2
  <1>3. TypeOK'
    BY <1>1, <1>2 DEF IInv, TypeOK
  <1>4. RowsKeep /\ NoneStarts
    BY <1>1, SameRows
  <1>5. ApprovalsKeep /\ MessagesKeep /\ WorkersKeep
    BY <1>1 DEF ApprovalsKeep, MessagesKeep, WorkersKeep
  <1> QED BY <1>2, <1>3, <1>4, <1>5 DEF Framed

\* The queue, and a worker's steps that do not touch the database.
LEMMA QueueFramed ==
    ASSUME IInv,
           \/ Queue
           \/ \E w \in Worker : RunStage(w) \/ WorkerDies(w) \/ TaskFails(w)
           \/ UNCHANGED vars
    PROVE  Framed
  <1>1. UNCHANGED <<row, approval, stop>>
    BY DEF Queue, Send, ProcessDies, QueueLost, Redeliver, RunStage, WorkerDies, TaskFails,
       dbVars, vars
  <1>2. toSend' \subseteq toSend /\ toReconcile' \in BOOLEAN
    BY DEF Queue, Send, ProcessDies, QueueLost, Redeliver, RunStage, WorkerDies, TaskFails,
       vars, IInv, TypeOK
  <1>3. worker' \in [Worker -> Job] /\ \A w \in Worker : worker'[w].exec \in {worker[w].exec, NoExec}
    <2>1. worker \in [Worker -> Job]
      BY DEF IInv, TypeOK
    <2>2. ASSUME NEW w \in Worker, RunStage(w)
          PROVE  /\ worker' \in [Worker -> Job]
                 /\ \A v \in Worker : worker'[v].exec = worker[v].exec
      <3>1. Stages \in Nat /\ worker[w] \in Job /\ worker[w].left > 0
        BY <2>1, <2>2, WorkerAssumption DEF RunStage
      <3>2. PICK left \in 0..Stages, incomplete \in BOOLEAN :
              worker' = [worker EXCEPT ![w] =
                           [exec |-> worker[w].exec, left |-> left, incomplete |-> incomplete]]
        <4>1. worker[w].left - 1 \in 0..Stages /\ 0 \in 0..Stages
          BY <3>1 DEF Job
        <4>2. \A failed \in BOOLEAN : (worker[w].incomplete \/ failed) \in BOOLEAN
          OBVIOUS
        <4> QED BY <2>2, <4>1, <4>2 DEF RunStage
      <3> QED BY <2>1, <3>1, <3>2 DEF Job
    <2>3. ASSUME NEW w \in Worker, WorkerDies(w) \/ TaskFails(w)
          PROVE  /\ worker' \in [Worker -> Job]
                 /\ \A v \in Worker : worker'[v].exec \in {worker[v].exec, NoExec}
      <3>1. Idle \in Job /\ Idle.exec = NoExec
        BY WorkerAssumption DEF Idle, Job
      <3> QED BY <2>1, <2>3, <3>1 DEF WorkerDies, TaskFails
    <2>4. CASE worker' = worker
      BY <2>1, <2>4
    <2> QED BY <2>2, <2>3, <2>4 DEF Queue, Send, ProcessDies, QueueLost, Redeliver, vars
  <1>4. msgs' \in [Exec -> 0..MaxMsgs] /\ MessagesKeep
    <2>1. msgs \in [Exec -> 0..MaxMsgs]
      BY DEF IInv, TypeOK
    <2>2. CASE \E e \in Exec : Send(e)
      BY <1>1, <1>2, <2>1, <2>2, MoreType DEF Send, MessagesKeep
    <2>3. CASE \E w \in Worker : Redeliver(w) \/ WorkerDies(w)
      <3>1. PICK w \in Worker : worker[w].exec # NoExec /\ msgs' = More({worker[w].exec})
        BY <2>3 DEF Redeliver, WorkerDies
      <3>2. row[worker[w].exec].state \notin {Absent, "AWAITING_APPROVAL"}
        BY <3>1 DEF IInv, WorkersOK, Ran, Terminal, Absent
      <3> QED BY <1>1, <1>2, <2>1, <3>1, <3>2, MoreType DEF MessagesKeep
    <2>4. CASE msgs' = msgs
      BY <1>2, <2>1, <2>4 DEF MessagesKeep
    <2>5. CASE msgs' = [e \in Exec |-> 0]
      BY <1>2, <2>5, WorkerAssumption DEF MessagesKeep
    <2> QED
      BY <2>2, <2>3, <2>4, <2>5
         DEF Queue, Send, ProcessDies, QueueLost, RunStage, TaskFails, vars
  <1>5. RowsKeep /\ NoneStarts
    BY <1>1, SameRows
  <1>6. TypeOK'
    BY <1>1, <1>2, <1>3, <1>4 DEF IInv, TypeOK
  <1>7. ApprovalsKeep /\ WorkersKeep
    BY <1>1, <1>3 DEF ApprovalsKeep, WorkersKeep
  <1> QED BY <1>1, <1>4, <1>5, <1>6, <1>7 DEF Framed

\* Persisting the results of a run is framed.
LEMMA PersistFramed ==
    ASSUME IInv, NEW w \in Worker, Persist(w)
    PROVE  Framed
  <1> DEFINE d == worker[w].exec
  <1>1. /\ d # NoExec /\ worker' = [worker EXCEPT ![w] = Idle]
        /\ UNCHANGED <<approval, stop, toSend, toReconcile, msgs>>
    BY DEF Persist
  <1>2. PICK normalised \in BOOLEAN :
          row' = [row EXCEPT ![d] = PersistRow(@, worker[w].incomplete, normalised)]
    BY DEF Persist
  <1>3. /\ row \in [Exec -> Row] /\ worker \in [Worker -> Job] /\ d \in Exec
        /\ worker[w].incomplete \in BOOLEAN /\ row[d].state \in Ran
    BY <1>1 DEF IInv, TypeOK, Job, WorkersOK
  <1>4. \A e \in Exec : /\ RowOK(e, row[e], approval[GroupOf[e]])
                        /\ approval[GroupOf[e]] \in ApprovalState
    BY ExecAssumption DEF IInv, TypeOK, RowsOK
  <1>5. \A e \in Exec : /\ Keeps(e, row[e], row'[e], approval'[GroupOf[e]])
                        /\ NoStart(row[e], row'[e])
    <2>1. Keeps(d, row[d], row'[d], approval'[GroupOf[d]]) /\ NoStart(row[d], row'[d])
      BY <1>1, <1>2, <1>3, <1>4, PersistRowKeeps
    <2>2. \A e \in Exec \ {d} : row'[e] = row[e]
      BY <1>2, <1>3
    <2> QED BY <1>1, <1>4, <2>1, <2>2, SameRow
  <1>6. row' \in [Exec -> Row] /\ worker' \in [Worker -> Job]
    <2>1. Idle \in Job
      BY WorkerAssumption DEF Idle, Job
    <2> QED BY <1>1, <1>2, <1>3, <1>5, <2>1 DEF Keeps, RowOK
  <1>7. TypeOK'
    BY <1>1, <1>6 DEF IInv, TypeOK
  <1>8. ApprovalsKeep /\ MessagesKeep /\ WorkersKeep
    BY <1>1, <1>3 DEF ApprovalsKeep, MessagesKeep, WorkersKeep, Idle
  <1> QED BY <1>1, <1>5, <1>7, <1>8 DEF Framed, RowsKeep, NoneStarts

\* The periodic sweep is framed.
LEMMA SweepFramed ==
    ASSUME IInv, Sweep
    PROVE  Framed
  <1>1. /\ row' = Swept(row) /\ stop' = Reconciled(stop, Expired(row))
        /\ msgs' = More(SweepSends(row))
        /\ UNCHANGED <<approval, toSend, toReconcile, worker>>
    BY DEF Sweep
  <1>2. \A e \in Exec : /\ RowOK(e, row[e], approval[GroupOf[e]])
                        /\ approval[GroupOf[e]] \in ApprovalState
    BY ExecAssumption DEF IInv, TypeOK, RowsOK
  <1>3. \A e \in Exec : Expired(row)[e] = ExpireRow(row[e])
                        /\ row'[e] = TimeoutRow(ExpireRow(row[e]))
    BY <1>1 DEF Swept, Expired
  <1>4. \A e \in Exec : /\ Keeps(e, row[e], row'[e], approval'[GroupOf[e]])
                        /\ NoStart(row[e], row'[e])
                        /\ row[e].state = "RUNNING" => Expired(row)[e] = row[e]
    BY <1>1, <1>2, <1>3, SweepRowKeeps
  <1>5. stop' \in Stop /\ StopOK'
    <2>1. /\ stop' \in Stop /\ stop'.covers = stop.covers /\ stop'.covers \subseteq Exec
          /\ \A e \in stop.covers : stop'.state # "CLEARED" /\ row[e].state = "RUNNING"
                => row[e].cancel /\ stop'.state = "REQUESTED"
      BY <1>1, <1>4, ReconciledOK DEF Stop
    <2> QED BY <1>4, <2>1 DEF StopOK, Keeps, NoStart
  <1>6. row' \in [Exec -> Row]
    BY <1>1, <1>4 DEF Keeps, RowOK, Swept
  <1>7. SweepSends(row) \subseteq {e \in Exec : row'[e].state = "QUEUED"}
    BY <1>1 DEF SweepSends
  <1>8. msgs' \in [Exec -> 0..MaxMsgs] /\ MessagesKeep
    <2>1. msgs \in [Exec -> 0..MaxMsgs]
      BY DEF IInv, TypeOK
    <2> QED BY <1>1, <1>7, <2>1, MoreType DEF MessagesKeep, Absent
  <1>9. TypeOK'
    BY <1>1, <1>5, <1>6, <1>8 DEF IInv, TypeOK
  <1>10. ApprovalsKeep /\ WorkersKeep
    BY <1>1 DEF ApprovalsKeep, WorkersKeep
  <1> QED BY <1>4, <1>5, <1>8, <1>9, <1>10 DEF Framed, RowsKeep, NoneStarts

\* If e alone starts and Room was found for it, the limits hold: what runs afterwards is
\* e and executions Room had counted.
LEMMA StartWithinLimits ==
    ASSUME WithinLimits, NEW e \in Exec, Room(row, e),
           \A x \in Exec \ {e} : NoStart(row[x], row'[x])
    PROVE  WithinLimits'
  <1> DEFINE Others == OthersActive(row, e)
             OthersOn(t) == {x \in Others : TargetOf[x] = t}
  <1>1. IsFiniteSet(Exec) /\ TargetOf \in [Exec -> Target]
    BY ExecAssumption
  <1>2. /\ IsFiniteSet(Others) /\ Cardinality(Others) \in Nat
        /\ IsFiniteSet(Others \cup {e}) /\ Cardinality(Others \cup {e}) = Cardinality(Others) + 1
    <2>1. Others \subseteq Exec /\ e \notin Others
      BY DEF OthersActive
    <2> HIDE DEF Others
    <2> QED BY <1>1, <2>1, FS_Subset, FS_AddElement, FS_CardinalityType
  <1>3. \A t \in Target :
          /\ IsFiniteSet(OthersOn(t)) /\ Cardinality(OthersOn(t)) \in Nat
          /\ IsFiniteSet(OthersOn(t) \cup {e})
          /\ Cardinality(OthersOn(t) \cup {e}) = Cardinality(OthersOn(t)) + 1
    <2> TAKE t \in Target
    <2>1. OthersOn(t) \subseteq Exec /\ e \notin OthersOn(t)
      BY DEF OthersActive
    <2> HIDE DEF OthersOn
    <2> QED BY <1>1, <2>1, FS_Subset, FS_AddElement, FS_CardinalityType
  <1>4. /\ Running' \subseteq Others \cup {e}
        /\ RunningOn(TargetOf[e])' \subseteq OthersOn(TargetOf[e]) \cup {e}
        /\ \A t \in Target : t # TargetOf[e] => RunningOn(t)' \subseteq RunningOn(t)
    BY DEF NoStart, Running, RunningOn, OthersActive, Occupying
  <1>5. Cardinality(Others) + 1 <= MaxGlobal
        /\ Cardinality(OthersOn(TargetOf[e])) + 1 <= MaxPerTarget
    <2>1. /\ Cardinality(Others) < MaxGlobal
          /\ Cardinality(OthersOn(TargetOf[e])) < MaxPerTarget
      BY DEF Room
    <2>2. Cardinality(Others) \in Nat /\ Cardinality(OthersOn(TargetOf[e])) \in Nat
      BY <1>1, <1>2, <1>3
    <2> HIDE DEF Others, OthersOn
    <2> QED BY <2>1, <2>2, LimitAssumption
  <1>6. Cardinality(Running') <= MaxGlobal
    <2> HIDE DEF Others
    <2>1. Cardinality(Running') <= Cardinality(Others \cup {e})
      BY <1>2, <1>4, FS_Subset
    <2>2. Cardinality(Running') \in Nat
      BY <1>2, <1>4, FS_Subset, FS_CardinalityType
    <2> QED BY <1>2, <1>5, <2>1, <2>2, LimitAssumption
  <1>7. \A t \in Target : Cardinality(RunningOn(t)') <= MaxPerTarget
    <2> TAKE t \in Target
    <2>1. CASE t = TargetOf[e]
      <3> HIDE DEF OthersOn
      <3>1. /\ Cardinality(RunningOn(t)') <= Cardinality(OthersOn(t) \cup {e})
            /\ Cardinality(RunningOn(t)') \in Nat
        BY <1>3, <1>4, <2>1, FS_Subset, FS_CardinalityType
      <3> QED BY <1>3, <1>5, <2>1, <3>1, LimitAssumption
    <2>2. CASE t # TargetOf[e]
      <3>1. RunningOn(t)' \subseteq RunningOn(t) /\ IsFiniteSet(RunningOn(t))
        BY <1>1, <1>4, <2>2, FS_Subset DEF RunningOn, Running
      <3>2. /\ Cardinality(RunningOn(t)') <= Cardinality(RunningOn(t))
            /\ Cardinality(RunningOn(t)') \in Nat /\ Cardinality(RunningOn(t)) \in Nat
        BY <3>1, FS_Subset, FS_CardinalityType
      <3> QED BY <3>2, LimitAssumption DEF WithinLimits
    <2> QED BY <2>1, <2>2
  <1> QED BY <1>6, <1>7 DEF WithinLimits

\* A message is delivered: the one step that makes an execution RUNNING.
LEMMA DeliverFramed ==
    ASSUME IInv, NEW w \in Worker, NEW e \in Exec, Deliver(w, e)
    PROVE  Framed
  <1>1. /\ msgs[e] > 0 /\ msgs' = [msgs EXCEPT ![e] = @ - 1]
        /\ UNCHANGED <<approval, stop, toSend, toReconcile>>
    BY DEF Deliver
  <1> DEFINE blocked == Blocks(stop, e)
             room == Room(row, e)
             S(inScope) == PreflightState(e, row[e], blocked, room, inScope)
  <1>2. PICK inScope \in BOOLEAN :
          /\ row' = [row EXCEPT ![e] = Transition(@, S(inScope))]
          /\ worker' = IF S(inScope) # "RUNNING" THEN worker
                       ELSE [worker EXCEPT ![w] =
                               [exec |-> e, left |-> Stages, incomplete |-> FALSE]]
    BY DEF Deliver
  <1> DEFINE s == S(inScope)
  <1>3. /\ row \in [Exec -> Row] /\ worker \in [Worker -> Job]
        /\ msgs \in [Exec -> 0..MaxMsgs] /\ stop \in Stop /\ stop.covers \subseteq Exec
    BY DEF IInv, TypeOK, Stop
  <1>4. \A x \in Exec : /\ RowOK(x, row[x], approval[GroupOf[x]])
                        /\ approval[GroupOf[x]] \in ApprovalState
    BY ExecAssumption DEF IInv, TypeOK, RowsOK
  <1>5. row[e].state \notin {Absent, "AWAITING_APPROVAL"}
    BY <1>1 DEF IInv, MessagesOK
  <1>6. blocked \in BOOLEAN /\ room \in BOOLEAN
    BY DEF Blocks, Room
  <1>7. /\ Keeps(e, row[e], row'[e], approval'[GroupOf[e]]) /\ row'[e].state = s
        /\ NoStart(row[e], row'[e]) \/ (row[e].state = "QUEUED" /\ ~blocked /\ room)
    <2> HIDE DEF blocked, room
    <2>1. row'[e] = Transition(row[e], s)
      BY <1>2, <1>3
    <2> QED BY <1>1, <1>4, <1>5, <1>6, <2>1, PreflightKeeps
  <1> HIDE DEF S, room
  <1>8. \A x \in Exec \ {e} : /\ row'[x] = row[x]
                              /\ Keeps(x, row[x], row'[x], approval'[GroupOf[x]])
                              /\ NoStart(row[x], row'[x])
    BY <1>1, <1>2, <1>3, <1>4, SameRow
  <1>9. RowsKeep
    BY <1>7, <1>8 DEF RowsKeep
  <1>10. NoneStarts \/ WithinLimits'
    BY <1>7, <1>8, StartWithinLimits DEF NoneStarts, IInv, room
  <1>11. StopOK'
    <2> SUFFICES ASSUME NEW x \in stop.covers, stop.state # "CLEARED",
                        row'[x].state = "RUNNING"
                 PROVE  row'[x].cancel /\ stop.state = "REQUESTED"
      BY <1>1 DEF StopOK
    <2>1. x \in Exec /\ stop.state \in {"REQUESTED", "CONFIRMED"}
      BY <1>3 DEF Stop
    <2>2. NoStart(row[x], row'[x]) /\ Keeps(x, row[x], row'[x], approval'[GroupOf[x]])
      BY <1>7, <1>8, <2>1 DEF Blocks
    <2> QED BY <2>1, <2>2 DEF NoStart, Keeps, IInv, StopOK
  <1>12. /\ worker' \in [Worker -> Job]
         /\ WorkersKeep
    <2>1. CASE s # "RUNNING"
      BY <1>2, <1>3, <2>1 DEF WorkersKeep
    <2>2. CASE s = "RUNNING"
      <3> DEFINE job == [exec |-> e, left |-> Stages, incomplete |-> FALSE]
      <3>1. job \in Job /\ job.exec = e
        BY WorkerAssumption DEF Job
      <3>2. worker' = [worker EXCEPT ![w] = job]
        BY <1>2, <2>2
      <3>3. row'[e].state \in Ran /\ (e \in ActiveExec => approval'[GroupOf[e]] = "APPROVED")
        BY <1>7, <2>2 DEF Keeps, RowOK, Ran, Granted
      <3> HIDE DEF job
      <3> QED BY <1>3, <3>1, <3>2, <3>3 DEF WorkersKeep
    <2> QED BY <2>1, <2>2
  <1>13. msgs' \in [Exec -> 0..MaxMsgs] /\ MessagesKeep
    BY <1>1, <1>3, WorkerAssumption DEF MessagesKeep
  <1>14. row' \in [Exec -> Row]
    BY <1>2, <1>3, <1>9 DEF RowsKeep, Keeps, RowOK
  <1>15. TypeOK'
    BY <1>1, <1>12, <1>13, <1>14 DEF IInv, TypeOK
  <1>16. ApprovalsKeep
    BY <1>1 DEF ApprovalsKeep
  <1> QED BY <1>9, <1>10, <1>11, <1>12, <1>13, <1>15, <1>16 DEF Framed

\* Every step of the scan subsystem is framed.
LEMMA NextFramed ==
    ASSUME IInv, [Next]_vars
    PROVE  Framed
  <1>1. ASSUME NEW g \in Group,
               \/ CreateScan(g) \/ OccurActive(g) \/ Approve(g) \/ Deny(g)
               \/ Start(g) \/ Pause(g) \/ StopScan(g) \/ WindowPasses(g)
        PROVE  Framed
    BY <1>1, CreateFramed, ApproveFramed, DenyFramed, StartFramed, PauseFramed, StopFramed,
       ClockFramed
  <1>2. ASSUME NEW e \in Exec, QueuePassive(e) \/ CancelExecution(e) \/ DeadlinePasses(e)
        PROVE  Framed
    BY <1>2, QueuePassiveFramed, StopFramed, ClockFramed
  <1>3. ASSUME NEW S \in StopScopes, RequestStop(S)
        PROVE  Framed
    BY <1>3, RequestStopFramed
  <1>4. CASE ReconcileStop \/ ClearStop
    BY <1>4, ReconcileFramed
  <1>5. CASE Work
    <2>1. ASSUME NEW w \in Worker, NEW e \in Exec, Deliver(w, e)
          PROVE  Framed
      BY <2>1, DeliverFramed
    <2>2. ASSUME NEW w \in Worker, RunStage(w) \/ Persist(w) \/ WorkerDies(w) \/ TaskFails(w)
          PROVE  Framed
      BY <2>2, QueueFramed, PersistFramed
    <2> QED BY <1>5, <2>1, <2>2 DEF Work
  <1>6. CASE Queue \/ UNCHANGED vars
    BY <1>6, QueueFramed
  <1>7. CASE Sweep
    BY <1>7, SweepFramed
  <1> QED BY <1>1, <1>2, <1>3, <1>4, <1>5, <1>6, <1>7 DEF Next, Requests, Time

---------------------------------------------------------------------------
(* The theorems. *)

\* The empty database satisfies the inductive invariant.
LEMMA InitIInv == Init => IInv
  <1> SUFFICES ASSUME Init PROVE IInv
    OBVIOUS
  <1>1. AbsentRow \in Row /\ AbsentRow.state = Absent
    BY DEF AbsentRow, Row, Clock
  <1>2. TypeOK
    <2>1. Idle \in Job /\ NoStop \in Stop /\ 0 \in 0..MaxMsgs
      BY WorkerAssumption DEF Idle, Job, NoStop, Stop
    <2>2. "NONE" \in ApprovalState
      BY DEF ApprovalState
    <2> QED BY <1>1, <2>1, <2>2 DEF Init, TypeOK
  <1>3. RowsOK
    BY <1>1 DEF Init, RowsOK, RowOK, AbsentRow, Absent, PreRun, Granted
  <1>4. ApprovalsOK /\ MessagesOK /\ WorkersOK /\ StopOK
    BY <1>1 DEF Init, ApprovalsOK, MessagesOK, WorkersOK, StopOK, Idle, NoStop
  <1>5. WithinLimits
    <2>1. Running = {} /\ \A t \in Target : RunningOn(t) = {}
      BY <1>1 DEF Init, Running, RunningOn, Absent
    <2> QED BY <2>1, FS_EmptySet, LimitAssumption DEF WithinLimits
  <1> QED BY <1>2, <1>3, <1>4, <1>5 DEF IInv

\* Every step keeps the inductive invariant.
LEMMA NextIInv == IInv /\ [Next]_vars => IInv'
  BY NextFramed, FramedStep

\* The inductive invariant holds in every reachable state of the scan subsystem.
THEOREM Invariance == Spec => []IInv
  BY InitIInv, NextIInv, PTL DEF Spec

\* Every variable keeps its type.
THEOREM TypeCorrect == Spec => []TypeOK
  <1>1. IInv => TypeOK
    BY DEF IInv
  <1> QED BY <1>1, Invariance, PTL

\* No active scan is queued or run without a grant, however many executions, workers
\* and messages there are.
THEOREM ApprovalRespected == Spec => []ApprovedBeforeRun
  <1>1. IInv => ApprovedBeforeRun
    BY ExecAssumption, WorkerAssumption DEF IInv, RowsOK, RowOK, WorkersOK, ApprovedBeforeRun,
       WorkedOn, Granted
  <1> QED BY <1>1, Invariance, PTL

\* The concurrency limits of settings are never exceeded by RUNNING executions.
THEOREM LimitsRespected == Spec => []WithinLimits
  <1>1. IInv => WithinLimits
    BY DEF IInv
  <1> QED BY <1>1, Invariance, PTL

\* A worker never holds an execution that could still start or has been put back.
THEOREM RunsHaveRows == Spec => []NoOrphanRun
  <1>1. IInv => NoOrphanRun
    BY DEF IInv, WorkersOK, NoOrphanRun, Ran
  <1> QED BY <1>1, Invariance, PTL

\* Nothing a confirmed emergency stop covers runs.
THEOREM ConfirmedMeansQuiet == Spec => []ConfirmedIsQuiet
  <1>1. IInv => ConfirmedIsQuiet
    BY DEF IInv, StopOK, ConfirmedIsQuiet, Running
  <1> QED BY <1>1, Invariance, PTL

\* A run that was cut short is marked partial.
THEOREM PartialIsRecorded == Spec => []CutShortIsPartial
  <1>1. IInv => CutShortIsPartial
    BY DEF IInv, RowsOK, RowOK, CutShortIsPartial
  <1> QED BY <1>1, Invariance, PTL

\* A recorded stop is never answered with COMPLETED.
THEOREM StopIsHonoured == Spec => StoppedNeverCompletes
  <1>1. IInv /\ [Next]_vars
          => [\A e \in Exec : row[e].cancel /\ row'[e].state = "COMPLETED"
                                  => row[e].state = "COMPLETED"]_vars
    BY NextFramed DEF Framed, RowsKeep, Keeps
  <1> QED BY <1>1, Invariance, PTL DEF Spec, StoppedNeverCompletes

\* ScanCore implements ScanLifecycle.
THEOREM Refinement == Spec => Lifecycle
  <1>1. Init => LC!Init
    BY ExecAssumption DEF Init, LC!Init, AbsentRow, Absent, LC!Absent
  <1>2. IInv /\ [Next]_vars => [LC!Next]_LC!vars
    <2> SUFFICES ASSUME IInv, [Next]_vars
                 PROVE  LC!Next
      OBVIOUS
    <2>1. Framed /\ IInv'
      BY NextFramed, FramedStep
    <2>2. \A e \in Exec : Legal(e, row[e], row'[e], approval'[GroupOf[e]])
      BY <2>1 DEF Framed, RowsKeep, Keeps
    <2>3. \A e \in Exec : LC!Step(e)
      BY <2>2 DEF Legal, LC!Step, Absent, LC!Absent
    <2>4. \A e \in Exec : row'[e].state \in LC!State \cup {LC!Absent}
      BY <2>1 DEF Framed, TypeOK, Row, State, PreRun, Terminal, Absent,
         LC!State, LC!PreRun, LC!Terminal, LC!Absent
    <2>5. \A e \in Exec : approval[GroupOf[e]] = "APPROVED" => approval'[GroupOf[e]] = "APPROVED"
      BY <2>1, ExecAssumption DEF Framed, ApprovalsKeep
    <2>6. \A e \in Exec : approval'[GroupOf[e]] = "APPROVED" => e \in ActiveExec
      BY <2>1, ExecAssumption DEF IInv, ApprovalsOK, IsActive, Of
    <2> QED BY <2>3, <2>4, <2>5, <2>6 DEF LC!Next
  <1> QED BY <1>1, <1>2, Invariance, PTL DEF Spec, Lifecycle, LC!Spec

===========================================================================
