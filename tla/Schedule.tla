------------------------------ MODULE Schedule -----------------------------
(***************************************************************************)
(* The scheduler of services/schedule_service.py and api/schedules.py: beat *)
(* starts a tick every 30 seconds whether or not the last one has ended, a *)
(* tick loads the due schedules once, inserts an occurrence for each slot,  *)
(* creates its execution, and moves the schedule on.  A passive occurrence  *)
(* is committed, with what the tick did before it, before its message is    *)
(* sent; all the rest waits for the commit that ends the tick.  What a tick *)
(* has not committed no other tick reads.                                   *)
(*                                                                         *)
(* The unit of time is the shortest interval, 15 minutes.  The worker, the  *)
(* queue and the approval requests are those of ScanHandlers; here an       *)
(* execution is only as far as the scheduler and the occurrence see it.     *)
(* No request changes what a schedule's attestation covers, so the tick's   *)
(* DENIED branch is left out.  Bad... operators are seeded faults.          *)
(***************************************************************************)
EXTENDS Integers, FiniteSets

CONSTANTS
    Sched,      \* schedules
    Daily,      \* those with recurrence DAILY, the others are INTERVAL
    Passive,    \* those of a passive profile, the others need an approval each time
    Skips,      \* those with overlap_policy SKIP, the others ALLOW
    Step,       \* the interval of each, or a day
    Ticker,     \* scheduler_tick tasks that may run at once
    MaxTime,    \* bound: the clock
    MaxCrashes, \* bound: ticks that die
    MaxEdits,   \* bound: schedules created, switched on or off, or deleted
    None

ASSUME ScheduleAssumption ==
    /\ IsFiniteSet(Sched) /\ Daily \cup Passive \cup Skips \subseteq Sched
    /\ Step \in [Sched -> Nat \ {0}]
    /\ MaxTime \in Nat /\ MaxCrashes \in Nat /\ MaxEdits \in Nat
    /\ None \notin Int /\ None \notin Sched

VARIABLES
    now,        \* the clock
    sched,      \* the schedules rows, None where there is none
    occ,        \* the schedule_occurrences rows, by schedule and slot
    made,       \* how many executions have been inserted for each slot
    tick,       \* what each tick has loaded and not yet committed
    crashes,
    edits

vars == <<now, sched, occ, made, tick, crashes, edits>>

Time == 0..MaxTime
Slot == 1..MaxTime

Row == [enabled : BOOLEAN, created : Time, next : Int, last : Int \cup {None}]

Occurrence == [state : {"RUNNING", "AWAITING_APPROVAL", "SKIPPED", "EXPIRED", "DENIED"},
               exec  : {None, "AWAITING_APPROVAL", "QUEUED", "ENDED"}]

\* No row is NULL.
ASSUME NoneAssumption == None \notin Row /\ None \notin Occurrence

Idle == [now |-> None, todo |-> {}, due |-> <<>>, wait |-> None,
         rows |-> <<>>, moved |-> <<>>]

TypeOK ==
    /\ now \in Time /\ crashes \in 0..MaxCrashes /\ edits \in 0..MaxEdits
    /\ sched \in [Sched -> Row \cup {None}]
    /\ occ \in [Sched -> [Slot -> Occurrence \cup {None}]]
    /\ made \in [Sched -> [Slot -> Nat]]
    /\ \A t \in Ticker : tick[t].todo \subseteq Sched /\ tick[t].wait \in tick[t].todo \cup {None}

---------------------------------------------------------------------------
(* Slots. *)

\* The first point of the grid base + n * step, n > 0, after t.
FirstAfter(base, step, t) == IF t < base THEN base + step ELSE base + step * ((t - base) \div step + 1)

\* next_run_after: INTERVAL counts from the last slot, DAILY from midnight.
NextRunAfter(s, row, t) ==
    IF s \in Daily THEN FirstAfter(0, Step[s], t)
    ELSE FirstAfter(IF row.last = None THEN row.created ELSE row.last, Step[s], t)

\* A schedule as POST creates it.
NewRow(s, at) ==
    LET row == [enabled |-> TRUE, created |-> at, next |-> 0, last |-> None]
    IN  [row EXCEPT !.next = NextRunAfter(s, row, at)]

Init ==
    /\ now = 0 /\ crashes = 0 /\ edits = 0
    /\ \E on, off \in SUBSET Sched :
         sched = [s \in Sched |-> IF s \in on THEN NewRow(s, 0)
                                ELSE IF s \in off THEN [NewRow(s, 0) EXCEPT !.enabled = FALSE]
                                ELSE None]
    /\ occ = [s \in Sched |-> [d \in Slot |-> None]]
    /\ made = [s \in Sched |-> [d \in Slot |-> 0]]
    /\ tick = [t \in Ticker |-> Idle]

---------------------------------------------------------------------------
(* An occurrence. *)

\* What an occurrence and its execution look like when the tick makes them.
Late(s, due, at) == at - due > Step[s]

ExecLive(o) == o # None /\ o.exec \in {"AWAITING_APPROVAL", "QUEUED"}

\* The row of slot <<s, d>> as tick t sees it: its own writes, else the committed one.
Seen(t, s, d) ==
    IF <<s, d>> \in DOMAIN tick[t].rows THEN tick[t].rows[<<s, d>>] ELSE occ[s][d]

\* _has_open_occurrence
HasOpenOccurrence(t, s, d) ==
    \E x \in Slot \ {d} :
        /\ ExecLive(Seen(t, s, x))
        /\ Seen(t, s, x).state \in {"RUNNING", "AWAITING_APPROVAL"}

Opened(t, s, d) ==
    IF Late(s, d, tick[t].now) THEN [state |-> "EXPIRED", exec |-> None]
    ELSE IF HasOpenOccurrence(t, s, d) /\ s \in Skips THEN [state |-> "SKIPPED", exec |-> None]
    ELSE IF s \in Passive THEN [state |-> "RUNNING", exec |-> "QUEUED"]
    ELSE [state |-> "AWAITING_APPROVAL", exec |-> "AWAITING_APPROVAL"]

---------------------------------------------------------------------------
(* The tick. *)

Running(t) == tick[t] # Idle

\* The unique index on (schedule_id, scheduled_for): an insert waits for the tick that
\* has inserted the same key and not committed it.
Held(t, s, d) == \E u \in Ticker \ {t} : <<s, d>> \in DOMAIN tick[u].rows

\* A tick that waits for a row and could have it has it long before beat's next tick.
HandedOver(u) == tick[u].wait # None /\ ~Held(u, tick[u].wait, tick[u].due[tick[u].wait])

Begin(t) ==
    /\ ~Running(t) /\ \A u \in Ticker : ~HandedOver(u)
    /\ LET due == {s \in Sched : sched[s] # None /\ sched[s].enabled /\ sched[s].next <= now}
       IN  /\ due # {}
           /\ tick' = [tick EXCEPT ![t] = [Idle EXCEPT !.now = now, !.todo = due,
                          !.due = [s \in due |-> sched[s].next]]]
    /\ UNCHANGED <<now, sched, occ, made, crashes, edits>>

Abort(t) ==
    /\ tick' = [tick EXCEPT ![t] = Idle]
    /\ UNCHANGED <<now, sched, occ, made, crashes, edits>>

BadWrite(rows, moved) ==
    /\ occ' = [s \in Sched |-> [d \in Slot |->
                 IF <<s, d>> \in DOMAIN rows /\ rows[<<s, d>>].exec # None
                 THEN rows[<<s, d>>] ELSE occ[s][d]]]
    /\ made' = [s \in Sched |-> [d \in Slot |->
                 IF <<s, d>> \in DOMAIN rows /\ rows[<<s, d>>].exec # None
                 THEN made[s][d] + 1 ELSE made[s][d]]]
    /\ sched' = [s \in Sched |->
                 IF s \in DOMAIN moved
                 THEN [sched[s] EXCEPT !.last = moved[s].last, !.next = moved[s].next]
                 ELSE sched[s]]

\* A commit: the occurrences and their executions, and the schedules moved so far,
\* of which only the two columns the tick has set are written.
Write(rows, moved) ==
    /\ occ' = [s \in Sched |-> [d \in Slot |->
                 IF <<s, d>> \in DOMAIN rows THEN rows[<<s, d>>] ELSE occ[s][d]]]
    /\ made' = [s \in Sched |-> [d \in Slot |->
                 IF <<s, d>> \in DOMAIN rows /\ rows[<<s, d>>].exec # None
                 THEN made[s][d] + 1 ELSE made[s][d]]]
    /\ sched' = [s \in Sched |->
                 IF s \in DOMAIN moved
                 THEN [sched[s] EXCEPT !.last = moved[s].last, !.next = moved[s].next]
                 ELSE sched[s]]

BadMoved(t, s, d) == [last |-> d, next |-> d]

\* last_run_at and next_run_at as the tick sets them after the slot.
Moved(t, s, d) ==
    [last |-> d, next |-> NextRunAfter(s, [sched[s] EXCEPT !.last = d], tick[t].now)]

BadAdvance(t, s, rows, moved) ==
    tick' = [tick EXCEPT ![t].todo = @ \ {s}, ![t].rows = rows, ![t].moved = moved]

Put(f, k, v) == [x \in DOMAIN f \cup {k} |-> IF x = k THEN v ELSE f[x]]

\* The tick goes on without schedule s.
Advance(t, s, rows, moved) ==
    tick' = [tick EXCEPT ![t].todo = @ \ {s}, ![t].wait = None,
                         ![t].rows = rows, ![t].moved = moved]

BadTaken(s, d) == FALSE

\* The SELECT before the insert, or the unique index at the insert.
Taken(s, d) == occ[s][d] # None

\* The passive occurrence that tick t has inserted and is about to commit.
Passing(t) == {p \in DOMAIN tick[t].rows : tick[t].rows[p].state = "RUNNING"}

\* One due schedule.  The tick fails with all it has not committed when the slot it
\* waited for was committed by another, or the schedule is gone.
Handle(t, s) ==
    LET d == tick[t].due[s]
        o == Opened(t, s, d)
        rows  == Put(tick[t].rows, <<s, d>>, o)
        moved == Put(tick[t].moved, s, Moved(t, s, d))
    IN  /\ s \in tick[t].todo /\ tick[t].wait \in {None, s} /\ Passing(t) = {}
        /\ CASE sched[s] = None -> Abort(t)
             [] sched[s] # None /\ Held(t, s, d) ->
                  /\ tick[t].wait = None
                  /\ tick' = [tick EXCEPT ![t].wait = s]
                  /\ UNCHANGED <<now, sched, occ, made, crashes, edits>>
             [] sched[s] # None /\ ~Held(t, s, d) /\ Taken(s, d) ->
                  IF tick[t].wait = s THEN Abort(t)
                  ELSE /\ Advance(t, s, tick[t].rows, moved)
                       /\ UNCHANGED <<now, sched, occ, made, crashes, edits>>
             [] OTHER ->
                  /\ IF o.state = "RUNNING"
                     THEN tick' = [tick EXCEPT ![t].rows = rows, ![t].wait = None]
                     ELSE Advance(t, s, rows, moved)
                  /\ UNCHANGED <<now, sched, occ, made, crashes, edits>>

\* The commit of a passive occurrence, before its message is sent.
Commit(t, s) ==
    LET d == tick[t].due[s]
    IN  /\ s \in tick[t].todo /\ Passing(t) = {<<s, d>>}
        /\ Write(tick[t].rows, tick[t].moved)
        /\ Advance(t, s, << >>, Put(<< >>, s, Moved(t, s, d)))
        /\ UNCHANGED <<now, crashes, edits>>

\* The commit that ends the tick.
Finish(t) ==
    /\ Running(t) /\ tick[t].todo = {}
    /\ Write(tick[t].rows, tick[t].moved)
    /\ tick' = [tick EXCEPT ![t] = Idle]
    /\ UNCHANGED <<now, crashes, edits>>

\* Two ticks that load the schedules in different orders can wait for each other;
\* PostgreSQL fails one of them.
WaitsFor(t, u) == tick[t].wait # None /\ <<tick[t].wait, tick[t].due[tick[t].wait]>> \in DOMAIN tick[u].rows

Deadlocked(t) == \E u \in Ticker : WaitsFor(t, u) /\ WaitsFor(u, t)

Victim(t) == Deadlocked(t) /\ Abort(t)

\* The worker process that runs the tick dies.
Crash(t) ==
    /\ Running(t) /\ crashes < MaxCrashes
    /\ crashes' = crashes + 1
    /\ tick' = [tick EXCEPT ![t] = Idle]
    /\ UNCHANGED <<now, sched, occ, made, edits>>

---------------------------------------------------------------------------
(* The API. *)

Edit == edits < MaxEdits /\ edits' = edits + 1

Create(s) ==
    /\ Edit
    /\ sched[s] = None
    /\ sched' = [sched EXCEPT ![s] = NewRow(s, now)]
    /\ UNCHANGED <<now, occ, made, tick, crashes>>

\* PATCH writes the one column; next_run_at is never unset, so it is kept.
Update(s, enabled) ==
    /\ Edit
    /\ sched[s] # None /\ sched[s].enabled # enabled
    /\ sched' = [sched EXCEPT ![s].enabled = enabled]
    /\ UNCHANGED <<now, occ, made, tick, crashes>>

\* An occurrence, committed or not, refers to its schedule.
Delete(s) ==
    /\ Edit
    /\ sched[s] # None
    /\ \A d \in Slot : occ[s][d] = None /\ \A t \in Ticker : <<s, d>> \notin DOMAIN tick[t].rows
    /\ sched' = [sched EXCEPT ![s] = None]
    /\ UNCHANGED <<now, occ, made, tick, crashes>>

SetOccurrence(s, d, o) ==
    /\ occ' = [occ EXCEPT ![s][d] = o]
    /\ UNCHANGED <<now, sched, made, tick, crashes, edits>>

\* The approval of an occurrence queues its execution at once.
CanDecide(o) == o.exec = "AWAITING_APPROVAL"

Approve(s, d) ==
    /\ occ[s][d] # None /\ CanDecide(occ[s][d])
    /\ SetOccurrence(s, d, [state |-> "RUNNING", exec |-> "QUEUED"])

Deny(s, d) ==
    /\ occ[s][d] # None /\ CanDecide(occ[s][d])
    /\ SetOccurrence(s, d, [state |-> "DENIED", exec |-> "ENDED"])

\* The rest of the life of an execution leaves its occurrence alone.
End(s, d) ==
    /\ ExecLive(occ[s][d])
    /\ SetOccurrence(s, d, [occ[s][d] EXCEPT !.exec = "ENDED"])

Pass ==
    /\ now < MaxTime
    /\ now' = now + 1
    /\ UNCHANGED <<sched, occ, made, tick, crashes, edits>>

Next ==
    \/ \E t \in Ticker : Begin(t) \/ Finish(t) \/ Victim(t) \/ Crash(t)
    \/ \E t \in Ticker, s \in Sched : Handle(t, s) \/ Commit(t, s)
    \/ \E s \in Sched : Create(s) \/ Delete(s) \/ \E b \in BOOLEAN : Update(s, b)
    \/ \E s \in Sched, d \in Slot : Approve(s, d) \/ Deny(s, d) \/ End(s, d)
    \/ Pass

\* Beat starts a tick every 30 seconds and a tick that lives goes on to its end;
\* PostgreSQL ends every deadlock.
Fairness ==
    \A t \in Ticker :
        /\ WF_vars(Begin(t)) /\ WF_vars(Victim(t))
        /\ WF_vars((\E s \in Sched : Handle(t, s) \/ Commit(t, s)) \/ Finish(t))

Spec == Init /\ [][Next]_vars /\ Fairness

---------------------------------------------------------------------------

\* tick (schedule_service.py:95-103): a slot is run once whatever ticks overlap, fail
\* or die between the commit of a passive occurrence (line 137) and the last one, and
\* whatever older next_run_at a slow tick writes back over a newer one.
OneExecutionPerSlot == \A s \in Sched, d \in Slot : made[s][d] <= 1

\* SCHED-03 of Trash_Scan_PRD.md, with overlap_policy SKIP (schedule_service.py:114-137):
\* the executions of such a schedule never overlap.
SkipNeverOverlaps ==
    \A s \in Skips : Cardinality({d \in Slot : ExecLive(occ[s][d])}) <= 1

\* tick (schedule_service.py:187-191): a schedule is moved past a slot only together
\* with, or after, the row that says what became of that slot.
AdvanceLeavesRow ==
    \A s \in Sched : sched[s] # None /\ sched[s].last # None => occ[s][sched[s].last] # None

\* tick: a due schedule is handled, although ticks die, fail on each other's rows and
\* lose the work they had done for schedules before it.
DueIsHandled ==
    \A s \in Sched :
        (sched[s] # None /\ sched[s].enabled /\ sched[s].next <= now)
            ~> (sched[s] = None \/ ~sched[s].enabled \/ sched[s].next > now)

===========================================================================
