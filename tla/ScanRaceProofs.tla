--------------------------- MODULE ScanRaceProofs --------------------------
(***************************************************************************)
(* ScanRace proved for any number of executions, sessions and workers: what  *)
(* survives the races of handlers that write over each other's rows.  The    *)
(* argument is column by column: a handler never unsets a column, and what a  *)
(* session has seen set is set in the row it writes to.                      *)
(***************************************************************************)
EXTENDS ScanRace, TLAPS

\* The states an active execution is in only once it has been approved.
Granted == {"APPROVED", "QUEUED", "RUNNING", "CANCELLING", "COMPLETED", "TIMED_OUT"}

\* A row makes sense by itself, be it a committed one or a copy.
RowOK(e, r) ==
    /\ e \in ActiveExec /\ r.state \in Granted => r.window # "unset"
    /\ r.state = "RUNNING" => r.deadline # "unset"
    /\ r.state = Absent => r = AbsentRow

\* What had been set when a copy was made is still set.
StillSet(old, cur) ==
    /\ old.window # "unset" => cur.window # "unset"
    /\ old.state # Absent => cur.state # Absent

RowsOK == \A e \in Exec : RowOK(e, row[e])

CopiesOK ==
    \A s \in Session \cup Worker : tx[s] # NoTx =>
        \A e \in Exec : RowOK(e, tx[s].row[e]) /\ StillSet(tx[s].row[e], row[e])

\* What each session's transaction is about; an approval is of rows that are there.
TxOK ==
    /\ \A s \in Session : tx[s] # NoTx =>
          /\ tx[s].op \notin {"preflight", "persist"} /\ tx[s].on \in Group
          /\ tx[s].op = "approve" => \A e \in Of(tx[s].on) : tx[s].row[e].state # Absent
    /\ \A w \in Worker : tx[w] # NoTx =>
          /\ tx[w].op \in {"preflight", "persist"} /\ tx[w].on \in Exec
          /\ tx[w].row[tx[w].on].state # Absent
          /\ tx[w].op = "persist" => worker[w] = tx[w].on

\* A message, and a worker, is for a row that has been inserted.
SentOK ==
    /\ \A e \in Exec : msgs[e] > 0 => row[e].state # Absent
    /\ \A w \in Worker : worker[w] # NoExec => row[worker[w]].state # Absent

IInv == TypeOK /\ RowsOK /\ CopiesOK /\ TxOK /\ SentOK

---------------------------------------------------------------------------
(* One row under each handler. *)

\* A handler that has read old leaves new: it unsets nothing, and a row it starts
\* gets a deadline.
Sound(e, old, new) ==
    /\ new \in Row /\ RowOK(e, new)
    /\ new.window # old.window => new.window # "unset"
    /\ new.deadline # old.deadline => new.deadline # "unset"
    /\ new.cancel # old.cancel => new.cancel
    /\ new.state = "RUNNING" /\ old.state # "RUNNING" => new.deadline # "unset"
    /\ new.state = Absent => old.state = Absent
    /\ old.state = Absent => new = old

\* The columns of a row after Transition (execution_service.py:80-100).
LEMMA TransitionRow ==
  ASSUME NEW r \in Row, NEW s \in State
  PROVE  LET q == Transition(r, s)
         IN  /\ q \in Row
             /\ q.state = IF r.state \in Terminal THEN r.state ELSE s
             /\ q.cancel = r.cancel /\ q.window = r.window /\ q.partial = r.partial
             /\ q.deadline = IF s = "RUNNING" /\ r.state \notin Terminal \cup {"RUNNING"}
                             THEN "ahead" ELSE r.deadline
  BY DEF Transition, Row, Clock, Terminal, State

\* What a transition needs: it starts from a row that is there, and an active execution
\* only gets to a granted state with its window set.
LEMMA TransitionSound ==
  ASSUME NEW e \in Exec, NEW r \in Row, RowOK(e, r), NEW s \in State,
         r.state # Absent,
         e \in ActiveExec /\ s \in Granted => r.window # "unset"
  PROVE  Sound(e, r, Transition(r, s))
  <1> DEFINE q == Transition(r, s)
  <1>1. /\ q \in Row
        /\ q.state = IF r.state \in Terminal THEN r.state ELSE s
        /\ q.cancel = r.cancel /\ q.window = r.window /\ q.partial = r.partial
        /\ q.deadline = IF s = "RUNNING" /\ r.state \notin Terminal \cup {"RUNNING"}
                        THEN "ahead" ELSE r.deadline
    BY TransitionRow
  <1>2. s # Absent
    BY DEF State, PreRun, Terminal, Absent
  <1> HIDE DEF q
  <1>3. RowOK(e, q)
    BY <1>1, <1>2 DEF RowOK, Terminal
  <1>4. Sound(e, r, q)
    BY <1>1, <1>2, <1>3 DEF Sound, Terminal, RowOK
  <1> QED
    BY <1>4 DEF q

\* A row that is left alone.
LEMMA SameSound ==
  ASSUME NEW e \in Exec, NEW r \in Row, RowOK(e, r)
  PROVE  Sound(e, r, r)
  BY DEF Sound

\* Writing a column before a transition is as sound as the two are.
LEMMA TwoSteps ==
  ASSUME NEW e \in Exec, NEW a \in Row, NEW b \in Row, NEW c \in Row,
         Sound(e, a, b), Sound(e, b, c)
  PROVE  Sound(e, a, c)
  BY DEF Sound

LEMMA ApproveRowSound ==
  ASSUME NEW e \in Exec, NEW r \in Row, RowOK(e, r), NEW scheduled \in BOOLEAN, r.state # Absent
  PROVE  Sound(e, r, ApproveRow(r, scheduled))
  <1> DEFINE r1 == [r EXCEPT !.window = "ahead"]
             r2 == Transition(r1, "APPROVED")
             r3 == Transition(r2, "QUEUED")
  <1>1. /\ r1 \in Row /\ r1.state = r.state /\ r1.cancel = r.cancel /\ r1.window = "ahead"
        /\ r1.deadline = r.deadline
    BY DEF Row, Clock
  <1>2. Sound(e, r, r1)
    BY <1>1 DEF Sound, RowOK
  <1>3. /\ r2 \in Row /\ r2.window = "ahead" /\ r2.state # Absent /\ Sound(e, r1, r2)
    <2>1. Sound(e, r1, r2)
      BY <1>1, <1>2, TransitionSound DEF Sound, State, PreRun
    <2> QED
      BY <1>1, <2>1, TransitionRow DEF Sound, State, PreRun
  <1>4. r3 \in Row /\ Sound(e, r2, r3)
    BY <1>3, TransitionSound DEF Sound, State, PreRun
  <1>5. ApproveRow(r, scheduled) = IF scheduled THEN r3 ELSE r2
    BY DEF ApproveRow
  <1> HIDE DEF r1, r2, r3
  <1> QED
    BY <1>1, <1>2, <1>3, <1>4, <1>5, TwoSteps

LEMMA DenyRowSound ==
  ASSUME NEW e \in Exec, NEW r \in Row, RowOK(e, r)
  PROVE  Sound(e, r, DenyRow(r))
  BY TransitionSound, SameSound DEF DenyRow, State, Terminal, Granted, Absent

LEMMA StartRowSound ==
  ASSUME NEW e \in Exec, NEW r \in Row, RowOK(e, r)
  PROVE  Sound(e, r, StartRow(e, r))
  <1>1. CASE ~Startable(e, r)
    BY <1>1, SameSound DEF StartRow
  <1>2. CASE Startable(e, r)
    <2> DEFINE s == IF r.window = "passed" THEN "EXPIRED" ELSE "QUEUED"
    <2>1. StartRow(e, r) = Transition(r, s) /\ s \in State
      BY <1>2 DEF StartRow, State, PreRun, Terminal
    <2>2. r.state # Absent /\ (e \in ActiveExec => r.window # "unset")
      BY <1>2 DEF Startable, RowOK, Granted, Absent
    <2> HIDE DEF s
    <2> QED
      BY <2>1, <2>2, TransitionSound
  <1> QED
    BY <1>1, <1>2

LEMMA PauseRowSound ==
  ASSUME NEW e \in Exec, NEW r \in Row, RowOK(e, r)
  PROVE  Sound(e, r, PauseRow(e, r))
  <1>1. CASE r.state # "QUEUED"
    BY <1>1, SameSound DEF PauseRow
  <1>2. CASE r.state = "QUEUED"
    <2> DEFINE s == IF e \in ActiveExec THEN "APPROVED" ELSE "DRAFT"
    <2>1. PauseRow(e, r) = Transition(r, s) /\ s \in State /\ r.state # Absent
      BY <1>2 DEF PauseRow, State, PreRun, Absent
    <2>2. e \in ActiveExec => r.window # "unset"
      BY <1>2 DEF RowOK, Granted
    <2> HIDE DEF s
    <2> QED
      BY <2>1, <2>2, TransitionSound
  <1> QED
    BY <1>1, <1>2

LEMMA StopRowSound ==
  ASSUME NEW e \in Exec, NEW r \in Row, RowOK(e, r)
  PROVE  Sound(e, r, StopRow(r))
  <1>1. CASE ~Live(r)
    BY <1>1, SameSound DEF StopRow
  <1>2. CASE Live(r)
    <2> DEFINE r1 == [r EXCEPT !.cancel = TRUE]
               r2 == Transition(r1, "CANCELLED")
    <2>1. /\ r1 \in Row /\ r1.state = r.state /\ r1.cancel /\ r1.window = r.window
          /\ r1.deadline = r.deadline
      BY DEF Row
    <2>2. Sound(e, r, r1) /\ r1.state # Absent
      BY <1>2, <2>1 DEF Sound, RowOK, Live
    <2>3. r2 \in Row /\ Sound(e, r1, r2)
      BY <2>1, <2>2, TransitionSound DEF Sound, State, Terminal, Granted
    <2>4. StopRow(r) = IF r.state \in PreRun THEN r2 ELSE r1
      BY <1>2 DEF StopRow
    <2> HIDE DEF r1, r2
    <2> QED
      BY <2>1, <2>2, <2>3, <2>4, TwoSteps
  <1> QED
    BY <1>1, <1>2

\* The sweep's two passes: what has waited too long expires, what has run too long is ended.
LEMMA SweepRowSound ==
  ASSUME NEW e \in Exec, NEW r \in Row, RowOK(e, r)
  PROVE  LET x == ExpireRow(r) IN x \in Row /\ Sound(e, r, x) /\ Sound(e, r, TimeoutRow(x))
  <1> DEFINE x == ExpireRow(r)
  <1>1. Sound(e, r, x)
    BY TransitionSound, SameSound DEF ExpireRow, State, Terminal, Granted, Absent
  <1>2. x \in Row /\ RowOK(e, x)
    BY <1>1 DEF Sound
  <1> HIDE DEF x
  <1>3. CASE x.state \in {"RUNNING", "CANCELLING"} /\ x.deadline = "passed"
    <2> DEFINE y == TimeoutRow(x)
    <2>1. y = [x EXCEPT !.state = "TIMED_OUT", !.cancel = TRUE, !.partial = TRUE]
      BY <1>3 DEF TimeoutRow
    <2>2. /\ y \in Row /\ y.state = "TIMED_OUT" /\ y.cancel /\ y.window = x.window
          /\ y.deadline = x.deadline
      BY <1>2, <2>1 DEF Row, State, Terminal
    <2> HIDE DEF y
    <2>3. Sound(e, x, y)
      BY <1>2, <1>3, <2>2 DEF Sound, RowOK, Granted, Absent
    <2> QED
      BY <1>1, <1>2, <2>2, <2>3, TwoSteps DEF x, y
  <1>4. CASE ~(x.state \in {"RUNNING", "CANCELLING"} /\ x.deadline = "passed")
    BY <1>1, <1>2, <1>4 DEF TimeoutRow, x
  <1> QED
    BY <1>3, <1>4 DEF x

\* The pre-flight of a row that is there (runner.py).
LEMMA PreflightSound ==
  ASSUME NEW e \in Exec, NEW r \in Row, RowOK(e, r), r.state # Absent,
         NEW blocked \in BOOLEAN, NEW room \in BOOLEAN, NEW inScope \in BOOLEAN
  PROVE  Sound(e, r, Transition(r, PreflightState(e, r, blocked, room, inScope)))
  <1> DEFINE s == PreflightState(e, r, blocked, room, inScope)
  <1>1. s \in State
    BY DEF PreflightState, State, PreRun, Terminal, Row, Absent
  <1>2. e \in ActiveExec /\ s \in Granted => r.window # "unset"
    BY DEF PreflightState, Granted, Terminal, PreRun, RowOK
  <1> HIDE DEF s
  <1>3. Sound(e, r, Transition(r, s))
    BY <1>1, <1>2, TransitionSound
  <1> QED
    BY <1>3 DEF s

LEMMA PersistRowSound ==
  ASSUME NEW e \in Exec, NEW r \in Row, RowOK(e, r),
         NEW incomplete \in BOOLEAN, NEW normalised \in BOOLEAN
  PROVE  Sound(e, r, PersistRow(r, incomplete, normalised))
  <1> DEFINE s == PersistState(r, normalised)
             q == Transition(r, s)
             p == PersistPartial(r, s, incomplete)
             y == PersistRow(r, incomplete, normalised)
             refused == r.state \in Terminal \/ ~CanTransition(r.state, IF s = "CANCELLED" THEN "CANCELLING" ELSE s)
  <1>1. s \in {"FAILED", "TIMED_OUT", "CANCELLED", "COMPLETED"} /\ s \in State
    BY DEF PersistState, State, Terminal
  <1>2. p \in BOOLEAN
    BY <1>1 DEF PersistPartial, Row
  <1>3. y = IF refused THEN r ELSE [q EXCEPT !.partial = p]
    BY DEF PersistRow
  <1>4. CASE refused
    BY <1>3, <1>4, SameSound
  <1>5. CASE ~refused
    <2>1. r.state # Absent
      BY <1>5 DEF CanTransition, Absent
    <2>2. e \in ActiveExec /\ s \in Granted => r.window # "unset"
      BY <1>1, <1>5 DEF CanTransition, Granted, RowOK
    <2> HIDE DEF s
    <2>3. Sound(e, r, q)
      BY <1>1, <2>1, <2>2, TransitionSound
    <2>4. q \in Row /\ q.state # Absent
      BY <2>1, <2>3 DEF Sound
    <2> HIDE DEF q, p, y
    <2>5. /\ y \in Row /\ y.state = q.state /\ y.cancel = q.cancel /\ y.window = q.window
          /\ y.deadline = q.deadline
      BY <1>2, <1>3, <1>5, <2>4 DEF Row
    <2>6. Sound(e, q, y)
      BY <2>3, <2>4, <2>5 DEF Sound, RowOK
    <2> QED
      BY <2>3, <2>4, <2>5, <2>6, TwoSteps DEF y
  <1> QED
    BY <1>4, <1>5

---------------------------------------------------------------------------
(* The rows under each transaction. *)

\* What a step may do to a committed row.
Advances(e, cur, new) ==
    /\ new \in Row /\ RowOK(e, new)
    /\ StillSet(cur, new)
    /\ cur.cancel => new.cancel

AllAdvance == \A e \in Exec : Advances(e, row[e], row'[e])

\* A handler's columns written over a row that has changed since it was read.
LEMMA WriteAdvances ==
  ASSUME NEW e \in Exec, NEW old \in Row, NEW cur \in Row, NEW new,
         RowOK(e, old), RowOK(e, cur), StillSet(old, cur), Sound(e, old, new)
  PROVE  Advances(e, cur, [c \in DOMAIN cur |-> IF Dirty(old, new, c) THEN new[c] ELSE cur[c]])
  <1> DEFINE w == [c \in DOMAIN cur |-> IF Dirty(old, new, c) THEN new[c] ELSE cur[c]]
  <1>1. DOMAIN cur = {"state", "cancel", "window", "deadline", "partial"}
    BY DEF Row
  <1>2. new \in Row
    BY DEF Sound
  <1>3. /\ w.state = IF new.state # old.state THEN new.state ELSE cur.state
        /\ w.cancel = IF new.cancel # old.cancel THEN new.cancel ELSE cur.cancel
        /\ w.window = IF new.window # old.window THEN new.window ELSE cur.window
        /\ w.partial = IF new.partial # old.partial THEN new.partial ELSE cur.partial
        /\ w.deadline = IF \/ new.deadline # old.deadline
                           \/ new.state = "RUNNING" /\ old.state # "RUNNING"
                        THEN new.deadline ELSE cur.deadline
    BY <1>1 DEF Dirty
  <1>4. w \in Row
    <2>1. w = [state |-> w.state, cancel |-> w.cancel, window |-> w.window,
               deadline |-> w.deadline, partial |-> w.partial]
      BY <1>1
    <2>2. /\ w.state \in State \cup {Absent} /\ w.cancel \in BOOLEAN /\ w.window \in Clock
          /\ w.deadline \in Clock /\ w.partial \in BOOLEAN
      BY <1>2, <1>3 DEF Row
    <2> HIDE DEF w
    <2> QED
      BY <2>1, <2>2 DEF Row
  <1>5. CASE old.state = Absent
    <2>1. w = cur
      <3>1. new = old
        BY <1>5 DEF Sound
      <3>2. \A c \in DOMAIN cur : w[c] = cur[c]
        BY <3>1 DEF Dirty
      <3> QED
        BY <1>4, <3>2 DEF Row
    <2> HIDE DEF w
    <2>2. Advances(e, cur, w)
      BY <1>4, <2>1 DEF Advances, StillSet
    <2> QED
      BY <2>2 DEF w
  <1>6. CASE old.state # Absent
    <2>1. cur.state # Absent /\ w.state # Absent
      BY <1>3, <1>6 DEF StillSet, Sound
    <2> HIDE DEF w
    <2>2. StillSet(cur, w) /\ (cur.cancel => w.cancel)
      BY <1>3, <2>1 DEF StillSet, Sound
    <2>3. e \in ActiveExec /\ w.state \in Granted => w.window # "unset"
      BY <1>3 DEF RowOK, Sound, StillSet
    <2>4. w.state = "RUNNING" => w.deadline # "unset"
      BY <1>3 DEF RowOK, Sound
    <2>5. Advances(e, cur, w)
      BY <1>4, <2>1, <2>2, <2>3, <2>4 DEF Advances, RowOK
    <2> QED
      BY <2>5 DEF w
  <1> QED
    BY <1>5, <1>6

\* A commit of rows each of which a handler made soundly from its copy.
LEMMA StoreAdvances ==
  ASSUME IInv, NEW s \in Session \cup Worker, tx[s] # NoTx, NEW new, Store(s, new),
         \A e \in Exec : Sound(e, tx[s].row[e], new[e])
  PROVE  /\ AllAdvance /\ row' \in [Exec -> Row] /\ tx' = [tx EXCEPT ![s] = NoTx]
  <1>1. tx[s] \in Tx
    BY DEF IInv, TypeOK
  <1>2. \A e \in Exec : tx[s].row[e] \in Row /\ row[e] \in Row
    BY <1>1 DEF IInv, TypeOK, Tx
  <1>3. ASSUME NEW e \in Exec
        PROVE  Advances(e, row[e], row'[e])
    <2>1. RowOK(e, tx[s].row[e]) /\ StillSet(tx[s].row[e], row[e]) /\ RowOK(e, row[e])
      BY DEF IInv, CopiesOK, RowsOK
    <2>2. row'[e] = [c \in DOMAIN row[e] |->
                       IF Dirty(tx[s].row[e], new[e], c) THEN new[e][c] ELSE row[e][c]]
      BY DEF Store
    <2> QED
      BY <1>2, <2>1, <2>2, WriteAdvances
  <1>4. row' \in [Exec -> Row]
    <2>1. DOMAIN row' = Exec /\ row' = [e \in Exec |-> row'[e]]
      BY DEF Store
    <2> QED
      BY <1>3, <2>1 DEF Advances
  <1> QED
    BY <1>3, <1>4 DEF AllAdvance, Store

\* A step that moves rows on, closes transactions, and sends and works on rows that are
\* there keeps the invariant.
LEMMA StepKeeps ==
  ASSUME IInv, AllAdvance, row' \in [Exec -> Row],
         approval' \in [Group -> ApprovalState], stop' \in Stop,
         msgs' \in [Exec -> 0..MaxMsgs], worker' \in [Worker -> Exec \cup {NoExec}],
         tx' \in [Session \cup Worker -> Tx \cup {NoTx}],
         \A s \in Session \cup Worker : tx'[s] = NoTx \/ tx'[s] = tx[s],
         \A e \in Exec : msgs'[e] > 0 => msgs[e] > 0 \/ row[e].state # Absent \/ row'[e].state # Absent,
         \A w \in Worker : \/ worker'[w] = worker[w]
                           \/ /\ tx'[w] = NoTx
                              /\ worker'[w] # NoExec => row[worker'[w]].state # Absent
  PROVE  IInv'
  <1>1. TypeOK'
    BY DEF TypeOK
  <1>2. \A e \in Exec : row[e].state # Absent => row'[e].state # Absent
    BY DEF AllAdvance, Advances, StillSet
  <1>3. RowsOK'
    BY DEF AllAdvance, Advances, RowsOK
  <1>4. CopiesOK'
    <2>1. ASSUME NEW s \in Session \cup Worker, tx'[s] # NoTx, NEW e \in Exec
          PROVE  RowOK(e, tx'[s].row[e]) /\ StillSet(tx'[s].row[e], row'[e])
      <3>1. tx'[s] = tx[s]
        BY <2>1
      <3>2. RowOK(e, tx[s].row[e]) /\ StillSet(tx[s].row[e], row[e])
        BY <2>1, <3>1 DEF IInv, CopiesOK
      <3>3. StillSet(row[e], row'[e])
        BY DEF AllAdvance, Advances
      <3> QED
        BY <3>1, <3>2, <3>3 DEF StillSet
    <2> QED
      BY <2>1 DEF CopiesOK
  <1>5. TxOK'
    BY DEF IInv, TxOK
  <1>6. SentOK'
    <2>1. \A e \in Exec : msgs'[e] > 0 => row'[e].state # Absent
      BY <1>2 DEF IInv, SentOK
    <2>2. ASSUME NEW w \in Worker, worker'[w] # NoExec
          PROVE  row'[worker'[w]].state # Absent
      BY <1>2, <2>2 DEF IInv, SentOK, TypeOK
    <2> QED
      BY <2>1, <2>2 DEF SentOK
  <1> QED
    BY <1>1, <1>3, <1>4, <1>5, <1>6 DEF IInv

\* A transaction that begins has the rows as they are.
LEMMA LoadKeeps ==
  ASSUME IInv, NEW s \in Session \cup Worker, NEW op \in Op, NEW on \in Exec \cup Group, Load(s, op, on),
         UNCHANGED <<row, approval, stop, worker>>, msgs' \in [Exec -> 0..MaxMsgs],
         \A e \in Exec : msgs'[e] > 0 => msgs[e] > 0,
         s \in Session => /\ op \notin {"preflight", "persist"} /\ on \in Group
                          /\ op = "approve" => \A e \in Of(on) : row[e].state # Absent,
         s \in Worker => /\ op \in {"preflight", "persist"} /\ on \in Exec /\ row[on].state # Absent
                         /\ op = "persist" => worker[s] = on
  PROVE  IInv'
  <1> DEFINE t == [op |-> op, on |-> on, row |-> row,
                   stop |-> IF op \in {"preflight", "sweep"} THEN stop ELSE NoStop]
  <1>1. t \in Tx
    BY DEF IInv, TypeOK, Tx, NoStop, Stop
  <1>2. tx' = [tx EXCEPT ![s] = t]
    BY DEF Load
  <1>3. t.op = op /\ t.on = on /\ t.row = row
    OBVIOUS
  <1> HIDE DEF t
  <1>4. /\ tx'[s] = t
        /\ \A x \in Session \cup Worker : x # s => tx'[x] = tx[x]
    BY <1>2 DEF IInv, TypeOK
  <1>5. TypeOK'
    BY <1>1, <1>2 DEF IInv, TypeOK
  <1>6. RowsOK'
    BY DEF IInv, RowsOK
  <1>7. CopiesOK'
    <2>1. ASSUME NEW x \in Session \cup Worker, tx'[x] # NoTx, NEW e \in Exec
          PROVE  RowOK(e, tx'[x].row[e]) /\ StillSet(tx'[x].row[e], row'[e])
      <3>1. CASE x = s
        BY <1>3, <1>4, <3>1 DEF IInv, RowsOK, StillSet
      <3>2. CASE x # s
        BY <1>4, <2>1, <3>2 DEF IInv, CopiesOK
      <3> QED
        BY <3>1, <3>2
    <2> QED
      BY <2>1 DEF CopiesOK
  <1>8. TxOK'
    <2>1. ASSUME NEW x \in Session, tx'[x] # NoTx
          PROVE  /\ tx'[x].op \notin {"preflight", "persist"} /\ tx'[x].on \in Group
                 /\ tx'[x].op = "approve" => \A e \in Of(tx'[x].on) : tx'[x].row[e].state # Absent
      <3>1. CASE x = s
        <4>1. tx'[x] = t
          BY <1>4, <3>1
        <4>2. /\ op \notin {"preflight", "persist"} /\ on \in Group
              /\ op = "approve" => \A e \in Of(on) : row[e].state # Absent
          BY <3>1
        <4> QED
          BY <1>3, <4>1, <4>2
      <3>2. CASE x # s
        BY <1>4, <2>1, <3>2 DEF IInv, TxOK
      <3> QED
        BY <3>1, <3>2
    <2>2. ASSUME NEW x \in Worker, tx'[x] # NoTx
          PROVE  /\ tx'[x].op \in {"preflight", "persist"} /\ tx'[x].on \in Exec
                 /\ tx'[x].row[tx'[x].on].state # Absent
                 /\ tx'[x].op = "persist" => worker'[x] = tx'[x].on
      <3>1. CASE x = s
        <4>1. tx'[x] = t
          BY <1>4, <3>1
        <4>2. /\ op \in {"preflight", "persist"} /\ on \in Exec /\ row[on].state # Absent
              /\ op = "persist" => worker[s] = on
          BY <3>1
        <4> QED
          BY <1>3, <3>1, <4>1, <4>2
      <3>2. CASE x # s
        BY <1>4, <2>2, <3>2 DEF IInv, TxOK
      <3> QED
        BY <3>1, <3>2
    <2> QED
      BY <2>1, <2>2 DEF TxOK
  <1>9. SentOK'
    BY DEF IInv, SentOK
  <1> QED
    BY <1>5, <1>6, <1>7, <1>8, <1>9 DEF IInv

\* Rows that are left alone advance.
LEMMA StayAdvances ==
  ASSUME IInv, NEW e \in Exec, row'[e] = row[e]
  PROVE  Advances(e, row[e], row'[e])
  BY DEF Advances, StillSet, IInv, TypeOK, RowsOK

\* Messages for rows that are there.
LEMMA MoreTyped ==
  ASSUME IInv, NEW S, \A e \in Exec : e \in S => row'[e].state # Absent
  PROVE  /\ More(S) \in [Exec -> 0..MaxMsgs]
         /\ \A e \in Exec : More(S)[e] > 0 => msgs[e] > 0 \/ row'[e].state # Absent
  <1>1. \A e \in Exec : msgs[e] \in 0..MaxMsgs /\ MaxMsgs \in Nat
    BY RaceAssumption DEF IInv, TypeOK
  <1>2. ASSUME NEW e \in Exec
        PROVE  /\ More(S)[e] \in 0..MaxMsgs
               /\ More(S)[e] > 0 => msgs[e] > 0 \/ row'[e].state # Absent
    BY <1>1 DEF More
  <1>3. More(S) = [e \in Exec |-> More(S)[e]]
    BY DEF More
  <1> QED
    BY <1>2, <1>3

---------------------------------------------------------------------------
(* One lemma per transaction.  Keeps is what is shown of each. *)

Keeps == IInv' /\ AllAdvance

LEMMA CreateScanKeeps ==
  ASSUME IInv, NEW g \in Group, CreateScan(g)
  PROVE  Keeps
  <1>1. AllAdvance
    <2>1. ASSUME NEW e \in Exec
          PROVE  Advances(e, row[e], row'[e])
      <3>1. row'[e] = IF e \in Of(g) THEN CreateRow(e) ELSE row[e]
        BY DEF CreateScan, Rewrite
      <3>2. CASE e \in Of(g)
        <4>1. row[e] = AbsentRow
          BY <3>2 DEF CreateScan, IsNew, IInv, RowsOK, RowOK
        <4>2. /\ CreateRow(e) \in Row /\ RowOK(e, CreateRow(e))
              /\ CreateRow(e).state # Absent
          BY DEF CreateRow, AbsentRow, Row, RowOK, State, PreRun, Clock, Absent, Granted
        <4> QED
          BY <3>1, <3>2, <4>1, <4>2 DEF Advances, StillSet, AbsentRow
      <3>3. CASE e \notin Of(g)
        BY <3>1, <3>3, StayAdvances
      <3> QED
        BY <3>2, <3>3
    <2> QED
      BY <2>1 DEF AllAdvance
  <1>2. row' \in [Exec -> Row]
    <2>1. row' = [e \in Exec |-> row'[e]]
      BY DEF CreateScan, Rewrite
    <2> QED
      BY <1>1, <2>1 DEF AllAdvance, Advances
  <1>3. approval' \in [Group -> ApprovalState]
    BY DEF CreateScan, ApprovalState, IInv, TypeOK
  <1> QED
    BY <1>1, <1>2, <1>3, StepKeeps DEF Keeps, CreateScan, IInv, TypeOK

LEMMA BeginKeeps ==
  ASSUME IInv, Begin
  PROVE  Keeps
  <1>1. AllAdvance
    BY StayAdvances DEF AllAdvance, Begin
  <1>2. PICK s \in Session, g \in Group :
          \/ BeginStart(s, g) \/ BeginPause(s, g) \/ BeginStop(s, g)
          \/ BeginApprove(s, g) \/ BeginDeny(s, g)
          \/ BeginSweep(s, g) \/ BeginEmergency(s, g)
    BY DEF Begin
  <1>3. \E op \in {"start", "pause", "stop", "approve", "deny", "sweep", "emergency"} :
          /\ Load(s, op, g)
          /\ op = "approve" => \A e \in Of(g) : row[e].state # Absent
    BY <1>2 DEF BeginStart, BeginPause, BeginStop, BeginApprove, BeginDeny, BeginSweep,
                BeginEmergency, CanApprove, Absent
  <1>4. PICK op \in {"start", "pause", "stop", "approve", "deny", "sweep", "emergency"} :
          /\ Load(s, op, g)
          /\ op = "approve" => \A e \in Of(g) : row[e].state # Absent
    BY <1>3
  <1>5. op \in Op /\ op \notin {"preflight", "persist"} /\ s \notin Worker
    BY RaceAssumption DEF Op
  <1>6. UNCHANGED <<row, approval, stop, msgs, worker>>
    BY DEF Begin
  <1>7. IInv'
    BY <1>4, <1>5, <1>6, LoadKeeps DEF IInv, TypeOK
  <1> QED
    BY <1>1, <1>7 DEF Keeps

\* What the transaction of a session or a worker has loaded.
LEMMA CopyTyped ==
  ASSUME IInv, NEW s \in Session \cup Worker, tx[s] # NoTx
  PROVE  /\ tx[s] \in Tx
         /\ \A e \in Exec : tx[s].row[e] \in Row /\ RowOK(e, tx[s].row[e])
         /\ \A e \in Exec : tx[s].row[e].state # Absent => row[e].state # Absent
  BY DEF IInv, TypeOK, CopiesOK, Tx, StillSet

\* A request or a sweep that stores sound rows, and sends for rows that are there.
LEMMA CommitKeeps ==
  ASSUME IInv, NEW s \in Session, tx[s] # NoTx, NEW new, Store(s, new),
         \A e \in Exec : Sound(e, tx[s].row[e], new[e]),
         approval' \in [Group -> ApprovalState], stop' \in Stop, worker' = worker,
         \/ msgs' = msgs
         \/ \E S : msgs' = More(S) /\ \A e \in Exec : e \in S => tx[s].row[e].state # Absent
  PROVE  Keeps
  <1>1. AllAdvance /\ row' \in [Exec -> Row] /\ tx' = [tx EXCEPT ![s] = NoTx]
    BY StoreAdvances
  <1>2. \A e \in Exec : tx[s].row[e].state # Absent => row'[e].state # Absent
    BY <1>1, CopyTyped DEF AllAdvance, Advances, StillSet
  <1>3. /\ msgs' \in [Exec -> 0..MaxMsgs]
        /\ \A e \in Exec : msgs'[e] > 0 => msgs[e] > 0 \/ row'[e].state # Absent
    <2>1. CASE msgs' = msgs
      BY <2>1 DEF IInv, TypeOK
    <2>2. CASE \E S : msgs' = More(S) /\ \A e \in Exec : e \in S => tx[s].row[e].state # Absent
      <3>1. PICK S : msgs' = More(S) /\ \A e \in Exec : e \in S => tx[s].row[e].state # Absent
        BY <2>2
      <3>2. \A e \in Exec : e \in S => row'[e].state # Absent
        BY <1>2, <3>1
      <3> QED
        BY <3>1, <3>2, MoreTyped
    <2> QED
      BY <2>1, <2>2
  <1>4. /\ tx' \in [Session \cup Worker -> Tx \cup {NoTx}]
        /\ \A x \in Session \cup Worker : tx'[x] = NoTx \/ tx'[x] = tx[x]
    BY <1>1 DEF IInv, TypeOK
  <1>5. worker' \in [Worker -> Exec \cup {NoExec}]
    BY DEF IInv, TypeOK
  <1> QED
    BY <1>1, <1>3, <1>4, <1>5, StepKeeps DEF Keeps

LEMMA CommitStartKeeps ==
  ASSUME IInv, NEW s \in Session, CommitStart(s)
  PROVE  Keeps
  <1> DEFINE g == tx[s].on
             new == Started(g, tx[s].row)
  <1>1. tx[s] # NoTx /\ Store(s, new)
    BY DEF CommitStart, Doing
  <1>2. \A e \in Exec : new[e] = IF e \in Of(g) THEN StartRow(e, tx[s].row[e]) ELSE tx[s].row[e]
    BY DEF Started, Rewrite
  <1>3. \A e \in Exec : Sound(e, tx[s].row[e], new[e])
    BY <1>1, <1>2, CopyTyped, StartRowSound, SameSound
  <1>4. \A e \in Exec : e \in StartSends(g, tx[s].row) => tx[s].row[e].state # Absent
    BY <1>3 DEF StartSends, Sound, Absent
  <1>5. msgs' = More(StartSends(g, tx[s].row)) /\ UNCHANGED <<approval, stop, worker>>
    BY DEF CommitStart
  <1> HIDE DEF new, g
  <1> QED
    BY <1>1, <1>3, <1>4, <1>5, CommitKeeps DEF IInv, TypeOK

LEMMA CommitPauseKeeps ==
  ASSUME IInv, NEW s \in Session, CommitPause(s)
  PROVE  Keeps
  <1> DEFINE new == Paused(tx[s].on, tx[s].row)
  <1>1. tx[s] # NoTx /\ Store(s, new) /\ UNCHANGED <<approval, stop, msgs, worker>>
    BY DEF CommitPause, Doing
  <1>2. \A e \in Exec : new[e] = IF e \in Of(tx[s].on) THEN PauseRow(e, tx[s].row[e]) ELSE tx[s].row[e]
    BY DEF Paused, Rewrite
  <1>3. \A e \in Exec : Sound(e, tx[s].row[e], new[e])
    BY <1>1, <1>2, CopyTyped, PauseRowSound, SameSound
  <1> HIDE DEF new
  <1> QED
    BY <1>1, <1>3, CommitKeeps DEF IInv, TypeOK

LEMMA CommitStopKeeps ==
  ASSUME IInv, NEW s \in Session, CommitStop(s)
  PROVE  Keeps
  <1> DEFINE new == Stopped(Of(tx[s].on), tx[s].row)
  <1>1. tx[s] # NoTx /\ Store(s, new) /\ UNCHANGED <<approval, stop, msgs, worker>>
    BY DEF CommitStop, Doing
  <1>2. \A e \in Exec : new[e] = IF e \in Of(tx[s].on) THEN StopRow(tx[s].row[e]) ELSE tx[s].row[e]
    BY DEF Stopped, Rewrite
  <1>3. \A e \in Exec : Sound(e, tx[s].row[e], new[e])
    BY <1>1, <1>2, CopyTyped, StopRowSound, SameSound
  <1> HIDE DEF new
  <1> QED
    BY <1>1, <1>3, CommitKeeps DEF IInv, TypeOK

LEMMA CommitApproveKeeps ==
  ASSUME IInv, NEW s \in Session, CommitApprove(s)
  PROVE  Keeps
  <1> DEFINE g == tx[s].on
             new == Approved(g, tx[s].row)
  <1>1. tx[s] # NoTx /\ tx[s].op = "approve" /\ Store(s, new) /\ UNCHANGED <<stop, worker>>
    BY DEF CommitApprove, Doing
  <1>2. \A e \in Of(g) : tx[s].row[e].state # Absent
    BY <1>1 DEF IInv, TxOK
  <1>3. \A e \in Exec : new[e] = IF e \in Of(g) THEN ApproveRow(tx[s].row[e], g \in ScheduledGroup)
                                 ELSE tx[s].row[e]
    BY DEF Approved, Rewrite
  <1>4. \A e \in Exec : Sound(e, tx[s].row[e], new[e])
    <2> DEFINE scheduled == g \in ScheduledGroup
    <2>1. scheduled \in BOOLEAN
      OBVIOUS
    <2>2. \A e \in Exec : new[e] = IF e \in Of(g) THEN ApproveRow(tx[s].row[e], scheduled)
                                   ELSE tx[s].row[e]
      BY <1>3
    <2> HIDE DEF scheduled, new, g
    <2> QED
      BY <1>1, <1>2, <2>1, <2>2, CopyTyped, ApproveRowSound, SameSound
  <1>5. approval' \in [Group -> ApprovalState]
    BY DEF CommitApprove, ApprovalState, IInv, TypeOK
  <1>6. msgs' = msgs \/ msgs' = More(Of(g))
    BY DEF CommitApprove
  <1>7. \/ msgs' = msgs
        \/ \E S : msgs' = More(S) /\ \A e \in Exec : e \in S => tx[s].row[e].state # Absent
    BY <1>2, <1>6
  <1>8. stop' \in Stop
    BY <1>1 DEF IInv, TypeOK
  <1> HIDE DEF new, g
  <1> QED
    BY <1>1, <1>4, <1>5, <1>7, <1>8, CommitKeeps

LEMMA CommitDenyKeeps ==
  ASSUME IInv, NEW s \in Session, CommitDeny(s)
  PROVE  Keeps
  <1> DEFINE new == Denied(tx[s].on, tx[s].row)
  <1>1. tx[s] # NoTx /\ Store(s, new) /\ UNCHANGED <<stop, msgs, worker>>
    BY DEF CommitDeny, Doing
  <1>2. \A e \in Exec : new[e] = IF e \in Of(tx[s].on) THEN DenyRow(tx[s].row[e]) ELSE tx[s].row[e]
    BY DEF Denied, Rewrite
  <1>3. \A e \in Exec : Sound(e, tx[s].row[e], new[e])
    BY <1>1, <1>2, CopyTyped, DenyRowSound, SameSound
  <1>4. approval' \in [Group -> ApprovalState]
    BY DEF CommitDeny, ApprovalState, IInv, TypeOK
  <1> HIDE DEF new
  <1> QED
    BY <1>1, <1>3, <1>4, CommitKeeps DEF IInv, TypeOK

LEMMA CommitEmergencyKeeps ==
  ASSUME IInv, NEW s \in Session, CommitEmergency(s)
  PROVE  Keeps
  <1> DEFINE new == Stopped(Exec, tx[s].row)
  <1>1. tx[s] # NoTx /\ Store(s, new) /\ UNCHANGED <<approval, msgs, worker>>
    BY DEF CommitEmergency, Doing
  <1>2. \A e \in Exec : new[e] = StopRow(tx[s].row[e])
    BY DEF Stopped, Rewrite
  <1>3. \A e \in Exec : Sound(e, tx[s].row[e], new[e])
    BY <1>1, <1>2, CopyTyped, StopRowSound
  <1>4. stop' \in Stop
    BY DEF CommitEmergency, Stop
  <1> HIDE DEF new
  <1> QED
    BY <1>1, <1>3, <1>4, CommitKeeps DEF IInv, TypeOK

LEMMA CommitSweepKeeps ==
  ASSUME IInv, NEW s \in Session, CommitSweep(s)
  PROVE  Keeps
  <1> DEFINE new == Swept(tx[s].row)
  <1>1. /\ tx[s] # NoTx /\ Store(s, new) /\ msgs' = More(SweepSends(tx[s].row))
        /\ UNCHANGED <<approval, worker>>
    BY DEF CommitSweep, Doing
  <1>2. \A e \in Exec : new[e] = TimeoutRow(ExpireRow(tx[s].row[e]))
    BY DEF Swept, Expired
  <1>3. \A e \in Exec : Sound(e, tx[s].row[e], new[e])
    BY <1>1, <1>2, CopyTyped, SweepRowSound
  <1>4. \A e \in Exec : e \in SweepSends(tx[s].row) => tx[s].row[e].state # Absent
    BY <1>3 DEF SweepSends, Sound, Absent
  <1>5. stop' \in Stop
    <2>1. tx[s].stop \in Stop
      BY <1>1, CopyTyped DEF Tx
    <2>2. Reconciled(tx[s].stop, Expired(tx[s].row)) \in Stop
      BY <2>1 DEF Reconciled, Stop
    <2> QED
      BY <2>2 DEF CommitSweep, IInv, TypeOK
  <1> HIDE DEF new
  <1> QED
    BY <1>1, <1>3, <1>4, <1>5, CommitKeeps DEF IInv, TypeOK

LEMMA ClearStopKeeps ==
  ASSUME IInv, ClearStop
  PROVE  Keeps
  <1>1. AllAdvance
    BY StayAdvances DEF AllAdvance, ClearStop
  <1>2. stop' \in Stop
    BY DEF ClearStop, Stop, IInv, TypeOK
  <1> QED
    BY <1>1, <1>2, StepKeeps DEF Keeps, ClearStop, IInv, TypeOK

LEMMA BeginPreflightKeeps ==
  ASSUME IInv, NEW w \in Worker, NEW e \in Exec, BeginPreflight(w, e)
  PROVE  Keeps
  <1>1. AllAdvance
    BY StayAdvances DEF AllAdvance, BeginPreflight
  <1>2. msgs' \in [Exec -> 0..MaxMsgs] /\ \A x \in Exec : msgs'[x] > 0 => msgs[x] > 0
    BY RaceAssumption DEF BeginPreflight, IInv, TypeOK
  <1>3. row[e].state # Absent
    BY DEF BeginPreflight, IInv, SentOK
  <1>4. w \notin Session /\ "preflight" \in Op
    BY RaceAssumption DEF Op
  <1>5. IInv'
    BY <1>2, <1>3, <1>4, LoadKeeps DEF BeginPreflight
  <1> QED
    BY <1>1, <1>5 DEF Keeps

LEMMA BeginPersistKeeps ==
  ASSUME IInv, NEW w \in Worker, BeginPersist(w)
  PROVE  Keeps
  <1>1. AllAdvance
    BY StayAdvances DEF AllAdvance, BeginPersist
  <1>2. worker[w] \in Exec /\ row[worker[w]].state # Absent
    BY DEF BeginPersist, IInv, TypeOK, SentOK
  <1>3. w \notin Session /\ "persist" \in Op
    BY RaceAssumption DEF Op
  <1>4. msgs' \in [Exec -> 0..MaxMsgs] /\ msgs' = msgs
    BY DEF BeginPersist, IInv, TypeOK
  <1>5. IInv'
    BY <1>2, <1>3, <1>4, LoadKeeps DEF BeginPersist
  <1> QED
    BY <1>1, <1>5 DEF Keeps

LEMMA CommitPreflightKeeps ==
  ASSUME IInv, NEW w \in Worker, CommitPreflight(w)
  PROVE  Keeps
  <1> DEFINE t == tx[w]
             e == t.on
             st(i) == PreflightState(e, t.row[e], Blocks(t.stop, e), Room(t.row, e), i)
             new(i) == [t.row EXCEPT ![e] = Transition(@, st(i))]
  <1>1. PICK inScope \in BOOLEAN :
          /\ Store(w, new(inScope))
          /\ worker' = [worker EXCEPT ![w] = IF st(inScope) = "RUNNING" THEN e ELSE NoExec]
    BY DEF CommitPreflight
  <1>2. t # NoTx /\ UNCHANGED <<approval, stop, msgs>>
    BY DEF CommitPreflight, Doing
  <1>3. e \in Exec /\ t.row[e].state # Absent
    BY <1>2 DEF IInv, TxOK
  <1>4. t \in Tx /\ \A x \in Exec : t.row[x] \in Row /\ RowOK(x, t.row[x])
    BY <1>2, CopyTyped
  <1>5. row[e].state # Absent
    BY <1>2, <1>3, CopyTyped
  <1>6. \A x \in Exec : new(inScope)[x] = IF x = e THEN Transition(t.row[e], st(inScope)) ELSE t.row[x]
    BY <1>3, <1>4 DEF Tx
  <1>7. Sound(e, t.row[e], Transition(t.row[e], st(inScope)))
    BY <1>3, <1>4, PreflightSound DEF Blocks, Room
  <1>8. \A x \in Exec : Sound(x, t.row[x], new(inScope)[x])
    BY <1>4, <1>6, <1>7, SameSound
  <1> HIDE DEF new, st
  <1>9. AllAdvance /\ row' \in [Exec -> Row] /\ tx' = [tx EXCEPT ![w] = NoTx]
    BY <1>1, <1>2, <1>8, StoreAdvances
  <1>10. /\ tx' \in [Session \cup Worker -> Tx \cup {NoTx}] /\ tx'[w] = NoTx
         /\ \A x \in Session \cup Worker : tx'[x] = NoTx \/ tx'[x] = tx[x]
    BY <1>9 DEF IInv, TypeOK
  <1>11. /\ worker' \in [Worker -> Exec \cup {NoExec}]
         /\ \A x \in Worker : x # w => worker'[x] = worker[x]
         /\ worker'[w] # NoExec => row[worker'[w]].state # Absent
    BY <1>1, <1>3, <1>5 DEF IInv, TypeOK
  <1> QED
    BY <1>2, <1>9, <1>10, <1>11, StepKeeps DEF Keeps, IInv, TypeOK

LEMMA CommitPersistKeeps ==
  ASSUME IInv, NEW w \in Worker, CommitPersist(w)
  PROVE  Keeps
  <1> DEFINE e == worker[w]
             stored(i) == [tx[w].row EXCEPT ![e] = PersistRow(@, i, TRUE)]
  <1>1. /\ tx[w] # NoTx /\ tx[w].op = "persist" /\ UNCHANGED <<approval, stop, msgs>>
        /\ worker' = [worker EXCEPT ![w] = NoExec]
    BY DEF CommitPersist, Doing
  <1>2. e \in Exec
    BY <1>1 DEF IInv, TxOK
  <1>3. tx[w] \in Tx /\ \A x \in Exec : tx[w].row[x] \in Row /\ RowOK(x, tx[w].row[x])
    BY <1>1, CopyTyped
  <1>4. AllAdvance /\ row' \in [Exec -> Row] /\ tx' = [tx EXCEPT ![w] = NoTx]
    <2>1. CASE \E incomplete \in BOOLEAN : Store(w, stored(incomplete))
      <3>1. PICK incomplete \in BOOLEAN : Store(w, stored(incomplete))
        BY <2>1
      <3>2. \A x \in Exec : stored(incomplete)[x] =
               IF x = e THEN PersistRow(tx[w].row[e], incomplete, TRUE) ELSE tx[w].row[x]
        BY <1>2, <1>3 DEF Tx
      <3>3. \A x \in Exec : Sound(x, tx[w].row[x], stored(incomplete)[x])
        BY <1>2, <1>3, <3>2, PersistRowSound, SameSound
      <3> HIDE DEF stored
      <3> QED
        BY <1>1, <3>1, <3>3, StoreAdvances
    <2>2. CASE /\ row' = [row EXCEPT ![e] = PersistRow(@, FALSE, FALSE)]
               /\ tx' = [tx EXCEPT ![w] = NoTx]
      <3>1. row[e] \in Row /\ RowOK(e, row[e])
        BY <1>2 DEF IInv, TypeOK, RowsOK
      <3>2. Sound(e, row[e], PersistRow(row[e], FALSE, FALSE))
        BY <1>2, <3>1, PersistRowSound
      <3>3. Advances(e, row[e], PersistRow(row[e], FALSE, FALSE))
        BY <3>2 DEF Sound, Advances, StillSet
      <3>4. /\ \A x \in Exec : row'[x] = IF x = e THEN PersistRow(row[e], FALSE, FALSE) ELSE row[x]
            /\ row' = [x \in Exec |-> row'[x]]
        BY <1>2, <2>2 DEF IInv, TypeOK
      <3>5. AllAdvance
        BY <3>3, <3>4, StayAdvances DEF AllAdvance
      <3>6. row' \in [Exec -> Row]
        BY <3>4, <3>5 DEF AllAdvance, Advances
      <3> QED
        BY <2>2, <3>5, <3>6
    <2> QED
      BY <2>1, <2>2 DEF CommitPersist
  <1>5. /\ tx' \in [Session \cup Worker -> Tx \cup {NoTx}] /\ tx'[w] = NoTx
        /\ \A x \in Session \cup Worker : tx'[x] = NoTx \/ tx'[x] = tx[x]
    BY <1>4 DEF IInv, TypeOK
  <1>6. /\ worker' \in [Worker -> Exec \cup {NoExec}] /\ worker'[w] = NoExec
        /\ \A x \in Worker : x # w => worker'[x] = worker[x]
    BY <1>1 DEF IInv, TypeOK
  <1> QED
    BY <1>1, <1>4, <1>5, <1>6, StepKeeps DEF Keeps, IInv, TypeOK

\* A clock that has been set runs out.
LEMMA ClockAdvances ==
  ASSUME NEW e \in Exec, NEW r \in Row, RowOK(e, r), Live(r)
  PROVE  /\ r.window = "ahead" => Advances(e, r, WindowPassed(r))
         /\ r.deadline = "ahead" => Advances(e, r, DeadlinePassed(r))
  <1>1. /\ WindowPassed(r) \in Row /\ WindowPassed(r).state = r.state /\ WindowPassed(r).cancel = r.cancel
        /\ WindowPassed(r).window = "passed" /\ WindowPassed(r).deadline = r.deadline
    BY DEF WindowPassed, Row, Clock
  <1>2. /\ DeadlinePassed(r) \in Row /\ DeadlinePassed(r).state = r.state /\ DeadlinePassed(r).cancel = r.cancel
        /\ DeadlinePassed(r).window = r.window /\ DeadlinePassed(r).deadline = "passed"
    BY DEF DeadlinePassed, Row, Clock
  <1> QED
    BY <1>1, <1>2 DEF Advances, StillSet, RowOK, Live

LEMMA ClockKeeps ==
  ASSUME IInv,
         \/ \E g \in Group : WindowPasses(g)
         \/ \E e \in Exec : DeadlinePasses(e)
  PROVE  Keeps
  <1>1. UNCHANGED <<approval, stop, msgs, worker, tx>>
    BY DEF WindowPasses, DeadlinePasses
  <1>2. \A e \in Exec : row[e] \in Row /\ RowOK(e, row[e])
    BY DEF IInv, TypeOK, RowsOK
  <1>3. AllAdvance /\ row' = [x \in Exec |-> row'[x]]
    <2>1. CASE \E g \in Group : WindowPasses(g)
      <3>1. PICK g \in Group : WindowPasses(g)
        BY <2>1
      <3>2. /\ \A e \in Exec : row'[e] = IF e \in Of(g) /\ row[e].window = "ahead" /\ Live(row[e])
                                         THEN WindowPassed(row[e]) ELSE row[e]
            /\ row' = [x \in Exec |-> row'[x]]
        BY <3>1 DEF WindowPasses, Rewrite
      <3> QED
        BY <1>2, <3>2, ClockAdvances, StayAdvances DEF AllAdvance
    <2>2. CASE \E e \in Exec : DeadlinePasses(e)
      <3>1. PICK e \in Exec : DeadlinePasses(e)
        BY <2>2
      <3>2. /\ \A x \in Exec : row'[x] = IF x = e THEN DeadlinePassed(row[e]) ELSE row[x]
            /\ row' = [x \in Exec |-> row'[x]] /\ row[e].deadline = "ahead" /\ Live(row[e])
        BY <3>1 DEF DeadlinePasses, IInv, TypeOK
      <3> QED
        BY <1>2, <3>2, ClockAdvances, StayAdvances DEF AllAdvance
    <2> QED
      BY <2>1, <2>2
  <1>4. row' \in [Exec -> Row]
    BY <1>3 DEF AllAdvance, Advances
  <1> QED
    BY <1>1, <1>3, <1>4, StepKeeps DEF Keeps, IInv, TypeOK

LEMMA NextKeeps ==
  ASSUME IInv, [Next]_vars
  PROVE  Keeps
  <1>1. CASE \E g \in Group : CreateScan(g)
    BY <1>1, CreateScanKeeps
  <1>2. CASE Begin
    BY <1>2, BeginKeeps
  <1>3. CASE \E s \in Session : \/ CommitStart(s) \/ CommitPause(s) \/ CommitStop(s)
                                \/ CommitApprove(s) \/ CommitDeny(s)
                                \/ CommitEmergency(s) \/ CommitSweep(s)
    BY <1>3, CommitStartKeeps, CommitPauseKeeps, CommitStopKeeps, CommitApproveKeeps,
       CommitDenyKeeps, CommitEmergencyKeeps, CommitSweepKeeps
  <1>4. CASE ClearStop
    BY <1>4, ClearStopKeeps
  <1>5. CASE \E w \in Worker : \/ \E e \in Exec : BeginPreflight(w, e)
                               \/ CommitPreflight(w) \/ BeginPersist(w) \/ CommitPersist(w)
    BY <1>5, BeginPreflightKeeps, CommitPreflightKeeps, BeginPersistKeeps, CommitPersistKeeps
  <1>6. CASE (\E g \in Group : WindowPasses(g)) \/ \E e \in Exec : DeadlinePasses(e)
    BY <1>6, ClockKeeps
  <1>7. CASE UNCHANGED vars
    <2>1. AllAdvance
      BY <1>7, StayAdvances DEF AllAdvance, vars
    <2> QED
      BY <1>7, <2>1, StepKeeps DEF Keeps, vars, IInv, TypeOK
  <1> QED
    BY <1>1, <1>2, <1>3, <1>4, <1>5, <1>6, <1>7 DEF Next

LEMMA InitIInv == Init => IInv
  <1> SUFFICES ASSUME Init PROVE IInv
    OBVIOUS
  <1>1. AbsentRow \in Row /\ NoStop \in Stop
    BY DEF AbsentRow, Row, Clock, NoStop, Stop, Absent
  <1>2. TypeOK
    BY <1>1, RaceAssumption DEF Init, TypeOK, ApprovalState
  <1>3. RowsOK
    BY DEF Init, RowsOK, RowOK, AbsentRow, Absent, Granted
  <1>4. CopiesOK /\ TxOK /\ SentOK
    BY DEF Init, CopiesOK, TxOK, SentOK
  <1> QED
    BY <1>2, <1>3, <1>4 DEF IInv

---------------------------------------------------------------------------
(* The theorems. *)

\* The invariant holds of every state, whatever requests, sweeps and workers overlap.
THEOREM RaceInvariance == Spec => []IInv
  <1>1. IInv /\ [Next]_vars => IInv'
    BY NextKeeps DEF Keeps
  <1> QED
    BY InitIInv, <1>1, PTL DEF Spec

\* Every column keeps its type although handlers write columns of rows they read earlier.
THEOREM RaceTypeCorrect == Spec => []TypeOK
  <1>1. IInv => TypeOK
    BY DEF IInv
  <1> QED
    BY <1>1, RaceInvariance, PTL

\* api/approvals.py approve: no interleaving queues or runs an active execution for which
\* no approval was committed.
THEOREM ApprovalSurvivesRaces == Spec => []GrantedBeforeRun
  <1>1. IInv => GrantedBeforeRun
    BY ExecAssumption DEF IInv, RowsOK, RowOK, Granted, GrantedBeforeRun
  <1> QED
    BY <1>1, RaceInvariance, PTL

\* ScanService.transition: no interleaving leaves a RUNNING row the sweep cannot end.
THEOREM DeadlineSurvivesRaces == Spec => []RunningHasDeadline
  <1>1. IInv => RunningHasDeadline
    BY DEF IInv, RowsOK, RowOK, RunningHasDeadline
  <1> QED
    BY <1>1, RaceInvariance, PTL

\* cancel_requested: no interleaving takes back a stop that was recorded.
THEOREM StopSurvivesRaces == Spec => CancelSticks
  <1>1. IInv /\ [Next]_vars => [\A e \in Exec : row[e].cancel => row'[e].cancel]_vars
    BY NextKeeps DEF Keeps, AllAdvance, Advances
  <1> QED
    BY <1>1, RaceInvariance, PTL DEF Spec, CancelSticks

=============================================================================
