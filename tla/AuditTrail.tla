----------------------------- MODULE AuditTrail ---------------------------
(***************************************************************************)
(* The audit trail of services/audit_service.py: transactions of the API,  *)
(* the workers and beat append events to one hash chain.  An append takes  *)
(* an advisory lock that its transaction holds to the end, reads the last  *)
(* event, and flushes: the transaction's changed rows are written, and so  *)
(* locked, together with the new event.  A worker that persists results    *)
(* and the scheduler may flush rows before their first append              *)
(* (services/normalization.py, services/schedule_service.py).              *)
(* PostgreSQL aborts one of the transactions of a wait cycle.              *)
(*                                                                         *)
(* Bad... are variants with a seeded fault that no transaction uses.       *)
(***************************************************************************)
EXTENDS Naturals, Sequences, FiniteSets

CONSTANTS
    Session,    \* database sessions
    Persister,  \* those of workers that persist results
    Record,     \* rows that audited transactions change
    MaxEvents,  \* bound: transactions begin while the trail is shorter
    MaxAppends, \* bound: appends of one transaction
    NoOne,      \* nobody holds a lock
    NoTx        \* a session without a transaction

VARIABLES
    events,     \* committed audit_events, in the order of seq
    lock,       \* the session holding the advisory lock
    rowLock,    \* the session holding the lock of each row
    tx          \* the transaction of each session

vars == <<events, lock, rowLock, tx>>

\* What an event is about: a row, nothing (an empty object_id), or a row whose
\* id is assigned only when it is flushed and is None until then.
Blank == "blank"
NoId  == "None"
Object == Record \cup {Blank, NoId}

BadStored(object) == object

\* The column is not nullable: None is stored as its default.
Stored(object) == IF object = NoId THEN Blank ELSE object

\* SHA-256 of the previous hash and the canonical event, taken as free of collisions:
\* a digest stands for all that was hashed into it.
Digest == Seq(Nat \X Object)

Hash(prev, seq, object) == Append(prev, <<seq, object>>)

Genesis == <<>>

Event == [seq : Nat, object : Record \cup {Blank}, prev : Digest, curr : Digest]

BadNextEvent(trail, pending, object) ==
    LET last == IF trail = <<>> THEN [seq |-> 0, curr |-> Genesis] ELSE trail[Len(trail)]
    IN  [seq |-> last.seq + 1, object |-> Stored(object), prev |-> last.curr,
         curr |-> Hash(last.curr, last.seq + 1, object)]

\* AuditService.append: the event after the last one the transaction can see, which
\* is its own if it has flushed one.
NextEvent(trail, pending, object) ==
    LET seen == trail \o pending
        last == IF seen = <<>> THEN [seq |-> 0, curr |-> Genesis] ELSE seen[Len(seen)]
    IN  [seq |-> last.seq + 1, object |-> Stored(object), prev |-> last.curr,
         curr |-> Hash(last.curr, last.seq + 1, object)]

\* What verify_chain checks of the i-th event: its number and link, and the hash
\* recomputed from the stored columns.
Linked(trail, i) ==
    /\ trail[i].seq = i
    /\ trail[i].prev = IF i = 1 THEN Genesis ELSE trail[i - 1].curr

Rehashed(e) == e.curr = Hash(e.prev, e.seq, e.object)

Phase == {"flush", "lock", "insert", "logged"}

Tx == [phase : Phase, rows : SUBSET Record, object : Object, pending : Seq(Event)]

ASSUME AuditAssumption ==
    /\ Persister \subseteq Session /\ NoOne \notin Session /\ NoTx \notin Tx
    /\ MaxEvents \in Nat /\ MaxAppends \in Nat \ {0}

TypeOK ==
    /\ events \in Seq(Event)
    /\ lock \in Session \cup {NoOne}
    /\ rowLock \in [Record -> Session \cup {NoOne}]
    /\ tx \in [Session -> Tx \cup {NoTx}]

Init ==
    /\ events = <<>>
    /\ lock = NoOne
    /\ rowLock = [r \in Record |-> NoOne]
    /\ tx = [s \in Session |-> NoTx]

---------------------------------------------------------------------------
(* A transaction: change rows, append, commit. *)

Begin(s, rows, object, phase) ==
    /\ tx[s] = NoTx /\ Len(events) < MaxEvents
    /\ tx' = [tx EXCEPT ![s] = [phase |-> phase, rows |-> rows, object |-> object,
                                pending |-> <<>>]]
    /\ UNCHANGED <<events, lock, rowLock>>

\* An API request or the sweep: the changes are flushed by the append.
BeginRequest(s) ==
    /\ s \notin Persister
    /\ \E rows \in SUBSET Record, object \in Record \cup {Blank} : Begin(s, rows, object, "lock")

\* The scheduler asks for an approval it has not flushed; schedules it has moved on
\* before are flushed with the occurrence.
BeginTick(s) ==
    /\ s \notin Persister
    /\ \E rows \in SUBSET Record, phase \in {"flush", "lock"} : Begin(s, rows, NoId, phase)

\* A worker has the changed row of its execution; results with a new asset or
\* finding are flushed as they are normalised.
BeginPersist(s) ==
    /\ s \in Persister
    /\ \E r \in Record, phase \in {"flush", "lock"} : Begin(s, {r}, r, phase)

\* Writing the changed rows waits for the transactions that have written them.
Free(rows, s) == \A r \in rows : rowLock[r] \in {s, NoOne}

LockRows(s) == rowLock' = [r \in Record |-> IF r \in tx[s].rows THEN s ELSE rowLock[r]]

Flush(s) ==
    /\ tx[s] # NoTx /\ tx[s].phase = "flush" /\ Free(tx[s].rows, s)
    /\ LockRows(s)
    /\ tx' = [tx EXCEPT ![s].phase = "lock"]
    /\ UNCHANGED <<events, lock>>

BadTakes(s) == TRUE

\* The advisory lock is free, or the transaction's own.
Takes(s) == lock \in {s, NoOne}

Lock(s) ==
    /\ tx[s] # NoTx /\ tx[s].phase = "lock" /\ Takes(s)
    /\ lock' = s
    /\ tx' = [tx EXCEPT ![s].phase = "insert"]
    /\ UNCHANGED <<events, rowLock>>

Insert(s) ==
    /\ tx[s] # NoTx /\ tx[s].phase = "insert" /\ Free(tx[s].rows, s)
    /\ LockRows(s)
    /\ tx' = [tx EXCEPT ![s].phase = "logged",
                        ![s].pending = Append(@, NextEvent(events, @, tx[s].object))]
    /\ UNCHANGED <<events, lock>>

\* The handler goes on to another change and its event.
AppendAgain(s) ==
    /\ tx[s] # NoTx /\ tx[s].phase = "logged" /\ Len(tx[s].pending) < MaxAppends
    /\ \E rows \in SUBSET Record :
         /\ s \in Persister => rows = {}
         /\ tx' = [tx EXCEPT ![s].phase = "lock", ![s].rows = @ \cup rows,
                             ![s].object = IF @ = NoId THEN Blank ELSE @]
    /\ UNCHANGED <<events, lock, rowLock>>

BadAdvisory(s) == lock

\* Locks are released with the transaction.
AdvisoryAfter(s) == IF lock = s THEN NoOne ELSE lock

End(s) ==
    /\ lock' = AdvisoryAfter(s)
    /\ rowLock' = [r \in Record |-> IF rowLock[r] = s THEN NoOne ELSE rowLock[r]]
    /\ tx' = [tx EXCEPT ![s] = NoTx]

Commit(s) ==
    /\ tx[s] # NoTx /\ tx[s].phase = "logged"
    /\ events' = events \o tx[s].pending
    /\ End(s)

\* The handler raises, or its process dies.
Rollback(s) ==
    /\ tx[s] # NoTx
    /\ End(s)
    /\ UNCHANGED events

WaitsFor(s, t) ==
    /\ tx[s] # NoTx /\ s # t
    /\ \/ tx[s].phase \in {"flush", "insert"} /\ \E r \in tx[s].rows : rowLock[r] = t
       \/ tx[s].phase = "lock" /\ lock = t

\* PostgreSQL aborts a transaction of a wait cycle.  Only the holder of the advisory
\* lock waits for rows while others wait for it, so every cycle has two members.
Deadlocked(s) == \E t \in Session : WaitsFor(s, t) /\ WaitsFor(t, s)

Victim(s) ==
    /\ Deadlocked(s)
    /\ End(s)
    /\ UNCHANGED events

---------------------------------------------------------------------------
Work(s) == Flush(s) \/ Lock(s) \/ Insert(s) \/ Commit(s)

Next ==
    \E s \in Session :
        \/ BeginRequest(s) \/ BeginTick(s) \/ BeginPersist(s)
        \/ Work(s) \/ AppendAgain(s) \/ Rollback(s) \/ Victim(s)

Spec == Init /\ [][Next]_vars

\* Transactions go on; strongly fair because PostgreSQL serves those that wait for
\* a lock in order.  Deadlocks are resolved.
Fairness ==
    /\ \A s \in Session : SF_vars(Work(s))
    /\ WF_vars(\E s \in Session : Victim(s))

FairSpec == Spec /\ Fairness

---------------------------------------------------------------------------
\* An event hashed when its object had no id yet.
HashedUnsaved(e) == e.object = Blank /\ e.curr = Hash(e.prev, e.seq, NoId)

Chain(trail) ==
    \A i \in 1..Len(trail) :
        Linked(trail, i) /\ (Rehashed(trail[i]) \/ HashedUnsaved(trail[i]))

\* Whatever transactions overlap, fail or deadlock, the committed events are one
\* unbroken chain without gaps or forks, and the only ones verify_chain reports are
\* those the scheduler hashed before their object had an id (schedule_service.py tick).
ChainHolds == Chain(events)

\* Every transaction comes to an end: nobody waits for the audit trail for ever.
TransactionsEnd == \A s \in Session : tx[s] # NoTx ~> tx[s] = NoTx

\* A worker's results are not thrown away because somebody stops the scan at that
\* moment ("lands the run in CANCELLED with partial results retained",
\* docs/ARCHITECTURE.md).  The code does not keep this: the worker holds its row and
\* asks for the advisory lock, the request holds the lock and asks for the row.
ResultsAreKept == \A w \in Persister : ~Deadlocked(w)

===========================================================================
