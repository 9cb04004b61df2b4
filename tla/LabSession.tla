----------------------------- MODULE LabSession ----------------------------
(***************************************************************************)
(* Sessions of a proof attempt: services/session_broker.py, listener.py,    *)
(* guided.py, terminal.py, stream.py and session_evidence.py, behind        *)
(* api/lab.py.  A request loads the session, its active lease and what is   *)
(* already recorded under its request id, decides, and commits later; other *)
(* requests commit in between.  What waits is an insert under a unique key: *)
(* a request id of a session, a sequence number of an attempt's stream.     *)
(*                                                                         *)
(* A fencing token is the lease's place in the list of leases.  Clocks are  *)
(* kept to what they are compared for: a lease or a terminal grant has run  *)
(* out or not; a session past its lifetime takes input as before, until a   *)
(* restart reconciles it.  Sessions are established and ended by the lab's   *)
(* runtime, one step each: no request does it.  Bad... operators are seeded  *)
(* faults.                                                                   *)
(***************************************************************************)
EXTENDS Naturals, Sequences, FiniteSets

CONSTANTS
    Attempt,    \* proof attempts
    Sess,       \* sessions
    Operator,   \* users that may see the target
    Admin,      \* those that are administrators
    Request,    \* request ids
    GuidedIds,  \* session_grants.guided_action_ids
    Client,     \* API processes that serve session requests
    MaxLeases,  \* bound: leases of all sessions
    MaxRecords, \* bound: records of all sessions, open requests included
    MaxActions, \* TOTAL_INVOCATION_LIMIT
    MaxEvents,  \* bound: stream events of an attempt
    NoSess, NoReq

ASSUME LabSessionAssumption ==
    /\ Admin \subseteq Operator
    /\ IsFiniteSet(Sess) /\ IsFiniteSet(Request) /\ IsFiniteSet(Client)
    /\ MaxLeases \in Nat /\ MaxRecords \in Nat /\ MaxActions \in Nat /\ MaxEvents \in Nat

VARIABLES
    sess,       \* lab_sessions
    lease,      \* controller_leases of each session, the token is the index
    terminal,   \* sessions with a terminal_grant that is active and has not run out
    rec,        \* interaction_records and terminal_frame_receipts by session and request id
    events,     \* the stream_events of each attempt: their seq, after those of execute
    req         \* the transaction of each client

vars == <<sess, lease, terminal, rec, events, req>>

InputOk == {"READY", "CONTROLLED"}

\* CLOSED, LOST and QUARANTINED, which nothing tells apart.
Ended == {"ENDED"}

Session == [attempt : Attempt, state : InputOk \cup Ended]

\* Inactive, or active and within expires_at or past it.
Lease == [holder : Operator, state : {"inactive", "fresh", "elapsed"}]

\* The two tables that deduplicate by request id.
Key == {"action", "frame"} \X Sess \X Request

\* REFUSED is a REJECTED interaction or a receipt that is not accepted, DONE one that has
\* run: DISPATCHED is never committed, and an unknown outcome counts as a completed one.
Record == {"NONE", "REFUSED", "DONE"}

\* A client that acquires a lease, or one that sends input.  seq is the number its
\* stream event takes, 0 before it has one.
Acquiring == [op : {"lease"}, s : Sess, holder : Operator, cur : 0..MaxLeases,
              extend : BOOLEAN, seen : InputOk \cup Ended]
Sending == [op : {"input"}, key : Key, result : Record, seq : 0..MaxEvents,
            stage : {"checked", "waits", "flushed"},
            ends : BOOLEAN, release : 0..MaxLeases]

ASSUME NoneAssumption == NoSess \notin Session /\ NoReq \notin Acquiring \cup Sending

TypeOK ==
    /\ sess \in [Sess -> Session \cup {NoSess}]
    /\ lease \in [Sess -> Seq(Lease)] /\ \A s \in Sess : Len(lease[s]) <= MaxLeases
    /\ terminal \subseteq Sess
    /\ rec \in [Key -> Record]
    /\ events \in [Attempt -> SUBSET (1..MaxEvents)]
    /\ req \in [Client -> Acquiring \cup Sending \cup {NoReq}]

Init ==
    /\ sess = [s \in Sess |-> NoSess]
    /\ lease = [s \in Sess |-> << >>]
    /\ terminal = {}
    /\ rec = [k \in Key |-> "NONE"]
    /\ events = [a \in Attempt |-> {}]
    /\ req = [c \in Client |-> NoReq]

---------------------------------------------------------------------------
(* Leases. *)

ActiveLeases(s) == {i \in 1..Len(lease[s]) : lease[s][i].state # "inactive"}

\* _active_lease: one of the active rows, in no particular order.
Current(s, i) == IF ActiveLeases(s) = {} THEN i = 0 ELSE i \in ActiveLeases(s)

BadDeactivate(ls, i) == IF i = 0 THEN ls ELSE [ls EXCEPT ![i].state = "ended"]

Deactivate(ls, i) == IF i = 0 THEN ls ELSE [ls EXCEPT ![i].state = "inactive"]

\* accepts_input, for a lease that has been loaded
Accepts(s, cur, token) ==
    /\ sess[s].state \in InputOk
    /\ cur # 0 /\ cur = token /\ lease[s][cur].state = "fresh"

Known(s) == sess[s] # NoSess

LeaseFree == Cardinality({p \in Sess \X (1..MaxLeases) : p[2] <= Len(lease[p[1]])}) < MaxLeases

\* acquire_lease up to its flush: refused, extended or replaced.  Only an administrator's
\* request may ask for a takeover.
Acquire(c, s, who, cur) ==
    /\ req[c] = NoReq /\ Known(s) /\ Current(s, cur)
    /\ LET held   == cur # 0 /\ lease[s][cur].state = "fresh"
           extend == held /\ lease[s][cur].holder = who
       IN  /\ held => extend \/ who \in Admin
           /\ extend \/ LeaseFree
           /\ req' = [req EXCEPT ![c] = [op |-> "lease", s |-> s, holder |-> who, cur |-> cur,
                                         extend |-> extend, seen |-> sess[s].state]]
    /\ UNCHANGED <<sess, lease, terminal, rec, events>>

BadExtended(ls, i) == [ls EXCEPT ![i].state = "fresh"]

\* An extension writes expires_at only: a lease that is inactive by now stays so.
Extended(ls, i) == [ls EXCEPT ![i].state = IF @ = "inactive" THEN @ ELSE "fresh"]

\* The session as acquire_lease leaves it, by the state it had loaded.
Controlled(state, seen) == IF seen = "READY" THEN "CONTROLLED" ELSE state

Acquired(c) ==
    /\ req[c] # NoReq /\ req[c].op = "lease"
    /\ LET r == req[c]
       IN  IF r.extend
           THEN /\ lease' = [lease EXCEPT ![r.s] = Extended(@, r.cur)]
                /\ sess' = sess
           ELSE /\ LeaseFree
                /\ lease' = [lease EXCEPT ![r.s] =
                      Append(Deactivate(@, r.cur), [holder |-> r.holder, state |-> "fresh"])]
                /\ sess' = [sess EXCEPT ![r.s].state = Controlled(@, r.seen)]
    /\ req' = [req EXCEPT ![c] = NoReq]
    /\ UNCHANGED <<terminal, rec, events>>

\* heartbeat: the token decides, not the clock, so it revives a lease that ran out.
Heartbeat(s, i) ==
    /\ Known(s) /\ i \in ActiveLeases(s) /\ lease[s][i].state = "elapsed"
    /\ lease' = [lease EXCEPT ![s] = Extended(@, i)]
    /\ UNCHANGED <<sess, terminal, rec, events, req>>

\* release_lease, with the state the session is given meanwhile
Released(s, state, i) ==
    /\ Current(s, i)
    /\ lease' = [lease EXCEPT ![s] = Deactivate(@, i)]
    /\ sess' = [sess EXCEPT ![s].state = IF state = "CONTROLLED" THEN "READY" ELSE state]

---------------------------------------------------------------------------
(* The life of a session, by the lab's runtime. *)

Live(a) == {s \in Sess : sess[s] # NoSess /\ sess[s].attempt = a /\ sess[s].state \in InputOk}

BadAdopted(a, associated) == IF associated THEN "READY" ELSE "ENDED"

\* broker.establish and verify: an additional or unassociated session is never adopted.
Adopted(a, associated) == IF associated /\ Live(a) = {} THEN "READY" ELSE "ENDED"

\* listener.establish, for a callback from within the lab boundary
Establish(s, a, associated) ==
    /\ sess[s] = NoSess
    /\ sess' = [sess EXCEPT ![s] = [attempt |-> a, state |-> Adopted(a, associated)]]
    /\ UNCHANGED <<lease, terminal, rec, events, req>>

\* quarantine, disconnect, listener.terminate
End(s, state) ==
    /\ Known(s) /\ \E i \in 0..MaxLeases : Released(s, state, i)
    /\ UNCHANGED <<terminal, rec, events, req>>

Disconnect(s) == Known(s) /\ End(s, sess[s].state)

Terminate(s) == End(s, "ENDED")

\* reconcile_sessions, of a session past its lifetime or whose attempt has ended
Reconcile(s) == Known(s) /\ sess[s].state \in InputOk /\ End(s, "ENDED")

---------------------------------------------------------------------------
(* Guided actions and terminal frames. *)

\* grant_terminal: whatever grant there was, a new one is active.
GrantTerminal(s) ==
    /\ Known(s) /\ sess[s].state \in InputOk
    /\ terminal' = terminal \cup {s}
    /\ UNCHANGED <<sess, lease, rec, events, req>>

\* The interactions that count against the session's budget.
Counted(s) == {r \in Request : rec[<<"action", s, r>>] = "DONE"}

\* dispatch's decision on a request whose record it has not found.
Dispatchable(s, action, cur, token) ==
    /\ action \in GuidedIds
    /\ Accepts(s, cur, token)
    /\ Cardinality(Counted(s)) < MaxActions

Sender(c) == req[c] # NoReq /\ req[c].op = "input"

Check(c, k, result, ends) ==
    /\ req[c] = NoReq /\ rec[k] = "NONE"
    /\ Cardinality({j \in Key : rec[j] # "NONE"}) + Cardinality({d \in Client : Sender(d)}) < MaxRecords
    /\ req' = [req EXCEPT ![c] = [op |-> "input", key |-> k, result |-> result, seq |-> 0,
                                  stage |-> "checked", ends |-> ends, release |-> 0]]
    /\ UNCHANGED <<sess, lease, terminal, rec, events>>

\* terminate ends the session when it runs to its end; any action may time out.
Dispatch(c, s, r, action, token, cur) ==
    /\ Known(s) /\ Current(s, cur)
    /\ IF Dispatchable(s, action, cur, token)
       THEN \E ends \in {FALSE, action = "terminate"} : Check(c, <<"action", s, r>>, "DONE", ends)
       ELSE Check(c, <<"action", s, r>>, "REFUSED", FALSE)

\* submit_frame; a frame of too many bytes is refused whatever the lease.
SubmitFrame(c, s, r, token, cur, fits) ==
    /\ Known(s) /\ Current(s, cur)
    /\ Check(c, <<"frame", s, r>>,
             IF s \in terminal /\ Accepts(s, cur, token) /\ fits THEN "DONE" ELSE "REFUSED", FALSE)

BadKeyTaken(c, k) == FALSE

\* The unique keys of request ids: rows committed, and rows others have flushed.
KeyTaken(c, k) ==
    rec[k] # "NONE" \/ \E d \in Client \ {c} : Sender(d) /\ req[d].key = k /\ req[d].stage # "checked"

AttemptOf(c) == sess[req[c].key[2]].attempt

\* The numbers others have flushed.
Numbered(a) == {d \in Client : Sender(d) /\ req[d].stage = "flushed" /\ AttemptOf(d) = a}

BadNextSeq(a) == 1 + Cardinality(events[a]) + Cardinality(Numbered(a))

\* _next_seq, by the rows that are committed
NextSeq(a) == 1 + Cardinality(events[a])

\* The record is flushed, which waits for the others' and fails on a committed one; then
\* the action runs; terminate looks for the lease to release; the output or the gap is
\* appended, which waits for a number another has taken.
Flush(c) ==
    /\ Sender(c) /\ req[c].stage = "checked" /\ req[c].result = "DONE"
    /\ ~KeyTaken(c, req[c].key)
    /\ \E i \in 0..MaxLeases :
          /\ IF req[c].ends THEN Current(req[c].key[2], i) ELSE i = 0
          /\ req' = [req EXCEPT ![c] =
               [@ EXCEPT !.release = i, !.seq = NextSeq(AttemptOf(c)),
                         !.stage = IF Numbered(AttemptOf(c)) = {} THEN "flushed" ELSE "waits"]]
    /\ req'[c].seq <= MaxEvents
    /\ UNCHANGED <<sess, lease, terminal, rec, events>>

\* The one that had the number is gone and has not committed it.
Wake(c) ==
    /\ Sender(c) /\ req[c].stage = "waits" /\ req[c].seq \notin events[AttemptOf(c)]
    /\ \A d \in Numbered(AttemptOf(c)) : req[d].seq # req[c].seq
    /\ req' = [req EXCEPT ![c].stage = "flushed"]
    /\ UNCHANGED <<sess, lease, terminal, rec, events>>

\* What is refused is only recorded.
Refused(c) ==
    /\ Sender(c) /\ req[c].result = "REFUSED"
    /\ ~KeyTaken(c, req[c].key)
    /\ rec' = [rec EXCEPT ![req[c].key] = "REFUSED"]
    /\ req' = [req EXCEPT ![c] = NoReq]
    /\ UNCHANGED <<sess, lease, terminal, events>>

\* The commit of the record, of its event, and of the end of the session.
Recorded(c) ==
    /\ Sender(c) /\ req[c].stage = "flushed"
    /\ LET k == req[c].key
       IN  /\ rec' = [rec EXCEPT ![k] = "DONE"]
           /\ events' = [events EXCEPT ![AttemptOf(c)] = @ \cup {req[c].seq}]
           /\ lease' = [lease EXCEPT ![k[2]] = Deactivate(@, req[c].release)]
           /\ sess' = IF req[c].ends THEN [sess EXCEPT ![k[2]].state = "ENDED"] ELSE sess
    /\ req' = [req EXCEPT ![c] = NoReq]
    /\ UNCHANGED terminal

HasRun(c) == Sender(c) /\ req[c].stage # "checked"

\* The transaction is rolled back: the process dies, or an insert meets a committed key.
\* What has run has run.
Rollback(c) ==
    /\ req[c] # NoReq
    /\ req' = [req EXCEPT ![c] = NoReq]
    /\ UNCHANGED <<sess, lease, terminal, rec, events>>

---------------------------------------------------------------------------
(* Time. *)

LeaseElapses(s, i) ==
    /\ i \in ActiveLeases(s) /\ lease[s][i].state = "fresh"
    /\ lease' = [lease EXCEPT ![s][i].state = "elapsed"]
    /\ UNCHANGED <<sess, terminal, rec, events, req>>

GrantElapses(s) ==
    /\ s \in terminal
    /\ terminal' = terminal \ {s}
    /\ UNCHANGED <<sess, lease, rec, events, req>>

Next ==
    \/ \E c \in Client, s \in Sess, cur \in 0..MaxLeases :
          \/ \E who \in Operator : Acquire(c, s, who, cur)
          \/ \E r \in Request, k \in 1..Len(lease[s]) :
                \/ \E a \in {"whoami", "terminate"} : Dispatch(c, s, r, a, k, cur)
                \/ \E fits \in BOOLEAN : SubmitFrame(c, s, r, k, cur, fits)
    \/ \E c \in Client : Acquired(c) \/ Flush(c) \/ Wake(c) \/ Refused(c) \/ Recorded(c) \/ Rollback(c)
    \/ \E s \in Sess, i \in 1..MaxLeases : Heartbeat(s, i) \/ LeaseElapses(s, i)
    \/ \E s \in Sess : Disconnect(s) \/ Terminate(s) \/ Reconcile(s) \/ GrantTerminal(s) \/ GrantElapses(s)
    \/ \E s \in Sess, a \in Attempt, ok \in BOOLEAN : Establish(s, a, ok)

Spec == Init /\ [][Next]_vars

---------------------------------------------------------------------------

\* acquire_lease (session_broker.py:119-142): a writer that has been fenced stays
\* fenced; a late extension, heartbeat or takeover never makes its token good again.
FencedStaysFenced ==
    [][\A s \in Sess : \A i \in 1..Len(lease[s]) :
          lease[s][i].state = "inactive" => lease'[s][i].state = "inactive"]_vars

\* establish (session_broker.py:58-80): a session takes input only when it is adopted
\* while its attempt has no other that does; once it has ended it takes input again only
\* by a request that had loaded it before (acquire_lease writes CONTROLLED over whatever
\* has been committed since).
LiveOnlyOnce ==
    [][\A a \in Attempt : \A s \in Live(a)' \ Live(a) :
          \/ sess[s] = NoSess /\ Live(a) = {}
          \/ \E c \in Client : /\ req[c] # NoReq /\ req[c].op = "lease" /\ req[c].s = s
                               /\ req[c].seen \in InputOk /\ req'[c] = NoReq]_vars

\* dispatch and submit_frame (guided.py:112-118, 134-142; terminal.py:92-97): whatever is
\* sent twice, at once or again after an answer was lost, acts in one transaction only,
\* and in none once there is a record.
ActsOnce ==
    \A k \in Key :
        Cardinality({c \in Client : HasRun(c) /\ req[c].key = k})
            + (IF rec[k] # "NONE" THEN 1 ELSE 0) <= 1

\* stream._append (stream.py:64-69): numbers have no gaps and are committed in order, so
\* a reader that has seen a number has missed none below it.
StreamInOrder ==
    [][\A a \in Attempt : \A n \in events'[a] \ events[a] : events[a] = 1..(n - 1)]_vars

===========================================================================
