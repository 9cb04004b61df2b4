-------------------------- MODULE AuditTrailProofs ------------------------
(***************************************************************************)
(* The committed audit events form one chain, for any sessions and rows.   *)
(*                                                                         *)
(* The argument: only the holder of the advisory lock has pending events   *)
(* (LockHeld), and they continue the committed chain (PendingContinue); a  *)
(* commit appends them to it, and nobody else's pending events are left to *)
(* become stale.                                                           *)
(***************************************************************************)
EXTENDS AuditTrail, TLAPS

LockHeld ==
    \A s \in Session : tx[s] # NoTx =>
        \/ lock = s
        \/ tx[s].phase \in {"flush", "lock"} /\ tx[s].pending = <<>>

PendingContinue ==
    \A s \in Session : tx[s] # NoTx => Chain(events \o tx[s].pending)

IInv == TypeOK /\ LockHeld /\ ChainHolds /\ PendingContinue

\* An appended event has the type of one.
LEMMA NextEventType ==
    ASSUME NEW trail \in Seq(Event), NEW pending \in Seq(Event), NEW object \in Object
    PROVE  NextEvent(trail, pending, object) \in Event
  <1> DEFINE seen == trail \o pending
             last == IF seen = <<>> THEN [seq |-> 0, curr |-> Genesis] ELSE seen[Len(seen)]
  <1>1. seen \in Seq(Event)
    OBVIOUS
  <1>2. Genesis \in Digest
    BY DEF Genesis, Digest
  <1>3. last.seq \in Nat /\ last.curr \in Digest
    <2>1. CASE seen = <<>>
      BY <2>1, <1>2
    <2>2. CASE seen # <<>>
      <3>1. Len(seen) \in 1..Len(seen)
        BY <1>1, <2>2
      <3>2. seen[Len(seen)] \in Event
        BY <1>1, <3>1
      <3> QED BY <3>2, <2>2 DEF Event
    <2> QED BY <2>1, <2>2
  <1>4. Stored(object) \in Record \cup {Blank}
    BY DEF Stored, Object
  <1>5. Hash(last.curr, last.seq + 1, object) \in Digest
    BY <1>3 DEF Hash, Digest
  <1> HIDE DEF last
  <1>6. [seq |-> last.seq + 1, object |-> Stored(object), prev |-> last.curr,
         curr |-> Hash(last.curr, last.seq + 1, object)] \in Event
    BY <1>3, <1>4, <1>5 DEF Event
  <1> QED BY <1>6 DEF NextEvent, last

\* The event an append makes continues the chain the transaction can see.
LEMMA NextEventChains ==
    ASSUME NEW trail \in Seq(Event), NEW pending \in Seq(Event), NEW object \in Object,
           Chain(trail \o pending)
    PROVE  Chain(trail \o Append(pending, NextEvent(trail, pending, object)))
  <1> DEFINE e    == NextEvent(trail, pending, object)
             seen == trail \o pending
             more == trail \o Append(pending, e)
  <1>1. e \in Event
    BY NextEventType
  <1>2. seen \in Seq(Event) /\ more \in Seq(Event)
    BY <1>1
  <1>3. more = Append(seen, e)
    BY <1>1
  <1>4. /\ Len(more) = Len(seen) + 1 /\ more[Len(seen) + 1] = e
        /\ \A i \in 1..Len(seen) : more[i] = seen[i]
    BY <1>1, <1>2, <1>3
  <1>5. e.seq = Len(seen) + 1 /\ e.prev = IF seen = <<>> THEN Genesis ELSE seen[Len(seen)].curr
    <2>1. CASE seen = <<>>
      BY <2>1 DEF NextEvent
    <2>2. CASE seen # <<>>
      <3>1. Len(seen) \in 1..Len(seen)
        BY <1>2, <2>2
      <3>2. seen[Len(seen)].seq = Len(seen)
        BY <3>1 DEF Chain, Linked
      <3> QED BY <2>2, <3>2 DEF NextEvent
    <2> QED BY <2>1, <2>2
  <1>6. Rehashed(e) \/ HashedUnsaved(e)
    <2>1. /\ e.curr = Hash(e.prev, e.seq, object) /\ e.object = Stored(object)
      BY DEF NextEvent
    <2> HIDE DEF e
    <2> QED BY <2>1 DEF Rehashed, HashedUnsaved, Stored
  <1> HIDE DEF e, seen, more
  <1>7. ASSUME NEW i \in 1..Len(more)
        PROVE  Linked(more, i) /\ (Rehashed(more[i]) \/ HashedUnsaved(more[i]))
    <2>1. CASE i = Len(seen) + 1
      <3>1. seen = <<>> <=> i = 1
        BY <2>1, <1>2
      <3>2. seen # <<>> => more[i - 1] = seen[Len(seen)]
        BY <2>1, <1>2, <1>4
      <3> QED BY <2>1, <1>4, <1>5, <1>6, <3>1, <3>2 DEF Linked
    <2>2. CASE i # Len(seen) + 1
      <3>1. i \in 1..Len(seen) /\ (i # 1 => i - 1 \in 1..Len(seen))
        BY <2>2, <1>2, <1>4
      <3>2. Linked(seen, i) /\ (Rehashed(seen[i]) \/ HashedUnsaved(seen[i]))
        BY <3>1 DEF Chain, seen
      <3> QED BY <3>1, <3>2, <1>4 DEF Linked
    <2> QED BY <2>1, <2>2
  <1> QED BY <1>7 DEF Chain, more, e

\* The inductive invariant holds of the empty trail.
LEMMA InitIInv == Init => IInv
  <1> SUFFICES ASSUME Init PROVE IInv
    OBVIOUS
  <1>1. TypeOK /\ LockHeld /\ PendingContinue
    BY DEF Init, TypeOK, LockHeld, PendingContinue
  <1>2. ChainHolds
    BY DEF Init, ChainHolds, Chain
  <1> QED BY <1>1, <1>2 DEF IInv

\* Beginning, flushing, locking and going on leave the events alone.
LEMMA EventsAlone ==
    ASSUME IInv, NEW s \in Session, events' = events, TypeOK',
           \A t \in Session \ {s} : tx'[t] = tx[t],
           lock' = lock \/ (lock = NoOne /\ lock' = s),
           tx'[s] # NoTx =>
              /\ tx'[s].pending = IF tx[s] = NoTx THEN <<>> ELSE tx[s].pending
              /\ \/ lock' = s
                 \/ tx'[s].phase \in {"flush", "lock"} /\ tx'[s].pending = <<>>
    PROVE  IInv'
  <1>1. LockHeld'
    BY AuditAssumption DEF IInv, LockHeld
  <1>2. ChainHolds'
    BY DEF IInv, ChainHolds
  <1>3. PendingContinue'
    <2>1. events \o <<>> = events
      BY DEF IInv, TypeOK
    <2> QED BY <2>1 DEF IInv, PendingContinue, ChainHolds
  <1> QED BY <1>1, <1>2, <1>3 DEF IInv

\* A transaction begins.
LEMMA BeginIInv ==
    ASSUME IInv, NEW s \in Session, BeginRequest(s) \/ BeginTick(s) \/ BeginPersist(s)
    PROVE  IInv'
  <1>1. PICK rows \in SUBSET Record, object \in Object, phase \in {"flush", "lock"} :
            Begin(s, rows, object, phase)
    BY DEF BeginRequest, BeginTick, BeginPersist, Object
  <1> DEFINE new == [phase |-> phase, rows |-> rows, object |-> object, pending |-> <<>>]
  <1>2. new \in Tx /\ tx' = [tx EXCEPT ![s] = new] /\ tx[s] = NoTx
        /\ UNCHANGED <<events, lock, rowLock>>
    BY <1>1 DEF Begin, Tx, Phase
  <1>3. tx'[s] = new /\ \A t \in Session \ {s} : tx'[t] = tx[t]
    BY <1>2 DEF IInv, TypeOK
  <1>4. TypeOK'
    BY <1>2 DEF IInv, TypeOK
  <1> QED BY <1>2, <1>3, <1>4, EventsAlone

\* A transaction flushes its rows, takes the advisory lock or goes on.
LEMMA StepIInv ==
    ASSUME IInv, NEW s \in Session, Flush(s) \/ Lock(s) \/ AppendAgain(s)
    PROVE  IInv'
  <1>1. tx[s] # NoTx /\ tx[s] \in Tx /\ tx \in [Session -> Tx \cup {NoTx}]
    BY DEF IInv, TypeOK, Flush, Lock, AppendAgain
  <1>2. CASE Flush(s)
    <2>1. tx' = [tx EXCEPT ![s].phase = "lock"] /\ tx[s].phase = "flush"
          /\ UNCHANGED <<events, lock>> /\ LockRows(s)
      BY <1>2 DEF Flush
    <2>2. tx'[s] = [tx[s] EXCEPT !.phase = "lock"] /\ \A t \in Session \ {s} : tx'[t] = tx[t]
      BY <1>1, <2>1
    <2>3. tx'[s] \in Tx /\ tx'[s].pending = tx[s].pending /\ tx'[s].phase = "lock"
      BY <1>1, <2>2 DEF Tx, Phase
    <2>4. TypeOK'
      BY <1>1, <2>1, <2>3 DEF IInv, TypeOK, LockRows
    <2>5. lock = s \/ tx[s].pending = <<>>
      BY <1>1 DEF IInv, LockHeld
    <2> QED BY <1>1, <2>1, <2>2, <2>3, <2>4, <2>5, EventsAlone
  <1>3. CASE Lock(s)
    <2>1. tx' = [tx EXCEPT ![s].phase = "insert"] /\ lock' = s /\ lock \in {s, NoOne}
          /\ UNCHANGED <<events, rowLock>>
      BY <1>3 DEF Lock, Takes
    <2>2. tx'[s] = [tx[s] EXCEPT !.phase = "insert"] /\ \A t \in Session \ {s} : tx'[t] = tx[t]
      BY <1>1, <2>1
    <2>3. tx'[s] \in Tx /\ tx'[s].pending = tx[s].pending
      BY <1>1, <2>2 DEF Tx, Phase
    <2>4. TypeOK'
      BY <1>1, <2>1, <2>3 DEF IInv, TypeOK
    <2> QED BY <1>1, <2>1, <2>2, <2>3, <2>4, EventsAlone
  <1>4. CASE AppendAgain(s)
    <2>1. PICK rows \in SUBSET Record :
             tx' = [tx EXCEPT ![s].phase = "lock", ![s].rows = @ \cup rows,
                              ![s].object = IF @ = NoId THEN Blank ELSE @]
      BY <1>4 DEF AppendAgain
    <2>2. tx[s].phase = "logged" /\ UNCHANGED <<events, lock, rowLock>>
      BY <1>4 DEF AppendAgain
    <2>3. /\ tx'[s] = [tx[s] EXCEPT !.phase = "lock", !.rows = @ \cup rows,
                                    !.object = IF @ = NoId THEN Blank ELSE @]
          /\ \A t \in Session \ {s} : tx'[t] = tx[t]
      BY <1>1, <2>1
    <2>4. tx'[s] \in Tx /\ tx'[s].pending = tx[s].pending
      BY <1>1, <2>3 DEF Tx, Phase, Object
    <2>5. TypeOK'
      BY <1>1, <2>1, <2>2, <2>4 DEF IInv, TypeOK
    <2>6. lock = s
      BY <1>1, <2>2 DEF IInv, LockHeld
    <2> QED BY <1>1, <2>2, <2>3, <2>4, <2>5, <2>6, EventsAlone
  <1> QED BY <1>2, <1>3, <1>4

\* An insert continues the chain of the session that holds the lock.
LEMMA InsertIInv ==
    ASSUME IInv, NEW s \in Session, Insert(s)
    PROVE  IInv'
  <1>1. tx[s] # NoTx /\ tx[s] \in Tx /\ tx \in [Session -> Tx \cup {NoTx}] /\ events \in Seq(Event)
    BY DEF IInv, TypeOK, Insert
  <1> DEFINE p == Append(tx[s].pending, NextEvent(events, tx[s].pending, tx[s].object))
  <1>2. /\ tx' = [tx EXCEPT ![s].phase = "logged",
                            ![s].pending = Append(@, NextEvent(events, @, tx[s].object))]
        /\ tx[s].phase = "insert" /\ UNCHANGED <<events, lock>> /\ LockRows(s)
    BY DEF Insert
  <1>3. /\ tx'[s] = [tx[s] EXCEPT !.phase = "logged", !.pending = p]
        /\ \A t \in Session \ {s} : tx'[t] = tx[t]
    BY <1>1, <1>2
  <1>4. tx[s].pending \in Seq(Event) /\ tx[s].object \in Object
    BY <1>1 DEF Tx
  <1>5. p \in Seq(Event)
    BY <1>1, <1>4, NextEventType
  <1> HIDE DEF p
  <1>6. tx'[s] \in Tx /\ tx'[s].pending = p
    BY <1>1, <1>3, <1>5 DEF Tx, Phase
  <1>7. TypeOK'
    BY <1>1, <1>2, <1>6 DEF IInv, TypeOK, LockRows
  <1>8. lock = s
    BY <1>1, <1>2 DEF IInv, LockHeld
  <1>9. LockHeld'
    BY <1>2, <1>3, <1>8 DEF IInv, LockHeld
  <1>10. Chain(events \o p)
    BY <1>1, <1>4, NextEventChains DEF IInv, PendingContinue, p
  <1>11. PendingContinue'
    BY <1>2, <1>3, <1>6, <1>10 DEF IInv, PendingContinue
  <1> QED BY <1>2, <1>7, <1>9, <1>11 DEF IInv, ChainHolds

\* At the end of a transaction its locks are free and its pending events are committed
\* or gone; nobody else has any.
LEMMA EndIInv ==
    ASSUME IInv, NEW s \in Session, Commit(s) \/ Rollback(s) \/ Victim(s)
    PROVE  IInv'
  <1>1. End(s) /\ tx[s] # NoTx
    BY DEF Commit, Rollback, Victim, Deadlocked, WaitsFor
  <1>2. tx' = [tx EXCEPT ![s] = NoTx] /\ lock' \in {lock, NoOne} /\ (lock = s => lock' = NoOne)
        /\ (lock # s => lock' = lock)
    BY <1>1 DEF End, AdvisoryAfter
  <1>3. tx[s] \in Tx /\ tx \in [Session -> Tx \cup {NoTx}] /\ events \in Seq(Event)
    BY <1>1 DEF IInv, TypeOK
  <1>4. tx'[s] = NoTx /\ \A t \in Session \ {s} : tx'[t] = tx[t]
    BY <1>2, <1>3
  <1>5. \/ events' = events
        \/ lock = s /\ events' = events \o tx[s].pending /\ Chain(events')
    <2>1. CASE Commit(s)
      <3>1. tx[s].phase = "logged" /\ events' = events \o tx[s].pending
        BY <2>1 DEF Commit
      <3> QED BY <3>1, <1>1 DEF IInv, LockHeld, PendingContinue
    <2>2. CASE Rollback(s) \/ Victim(s)
      BY <2>2 DEF Rollback, Victim
    <2> QED BY <2>1, <2>2
  <1>6. events' \in Seq(Event)
    <2>1. tx[s].pending \in Seq(Event)
      BY <1>3 DEF Tx
    <2>2. events \o tx[s].pending \in Seq(Event)
      BY <1>3, <2>1
    <2> QED BY <1>3, <1>5, <2>2
  <1>7. TypeOK'
    BY <1>1, <1>2, <1>3, <1>6 DEF IInv, TypeOK, End
  <1>8. LockHeld'
    BY <1>2, <1>4 DEF IInv, LockHeld
  <1>9. ChainHolds'
    BY <1>5 DEF IInv, ChainHolds
  <1>10. ASSUME NEW t \in Session, tx'[t] # NoTx
         PROVE  Chain(events' \o tx'[t].pending)
    <2>1. t # s /\ tx'[t] = tx[t]
      BY <1>4, <1>10
    <2>2. CASE events' = events
      BY <2>1, <2>2, <1>10 DEF IInv, PendingContinue
    <2>3. CASE lock = s /\ Chain(events')
      <3>1. tx[t].pending = <<>>
        BY <2>1, <2>3, <1>10 DEF IInv, LockHeld
      <3>2. events' \o <<>> = events'
        BY <1>6
      <3> QED BY <2>1, <2>3, <3>1, <3>2
    <2> QED BY <1>5, <2>2, <2>3
  <1>11. PendingContinue'
    BY <1>10 DEF PendingContinue
  <1> QED BY <1>7, <1>8, <1>9, <1>11 DEF IInv

\* Every step keeps the inductive invariant.
LEMMA NextIInv == IInv /\ [Next]_vars => IInv'
  <1> SUFFICES ASSUME IInv, [Next]_vars PROVE IInv'
    OBVIOUS
  <1>1. CASE UNCHANGED vars
    BY <1>1 DEF vars, IInv, TypeOK, LockHeld, ChainHolds, PendingContinue
  <1>2. CASE Next
    <2>1. PICK s \in Session :
             \/ BeginRequest(s) \/ BeginTick(s) \/ BeginPersist(s)
             \/ Work(s) \/ AppendAgain(s) \/ Rollback(s) \/ Victim(s)
      BY <1>2 DEF Next
    <2> QED BY <2>1, BeginIInv, StepIInv, InsertIInv, EndIInv DEF Work
  <1> QED BY <1>1, <1>2

\* The inductive invariant of the audit trail.
THEOREM TrailInvariance == Spec => []IInv
  BY InitIInv, NextIInv, PTL DEF Spec

\* However many transactions overlap, fail or deadlock, the committed audit events
\* are one chain, but for the hashes of objects without an id.
THEOREM TrailChains == Spec => []ChainHolds
  <1>1. IInv => ChainHolds
    BY DEF IInv
  <1> QED BY <1>1, TrailInvariance, PTL

===========================================================================
