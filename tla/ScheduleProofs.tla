--------------------------- MODULE ScheduleProofs --------------------------
(***************************************************************************)
(* Theorems about Schedule.  Whatever ticks overlap, stall, die or wait for *)
(* each other's rows: no slot is executed twice, and no schedule is moved   *)
(* past a slot of which there is no row.                                    *)
(*                                                                         *)
(* The reason is that the unique index keeps apart what two ticks have      *)
(* inserted and not committed: the key of an uncommitted row belongs to one *)
(* tick, and there is no committed row under it.  SkipNeverOverlaps is no   *)
(* theorem: the check of the overlap policy reads rows, and no index keeps  *)
(* two slots of one schedule apart.                                         *)
(***************************************************************************)
EXTENDS Schedule, TLAPS

Fields == {"now", "todo", "due", "wait", "rows", "moved"}

\* The slots for which tick t has inserted a row that is not committed.
Keys(t) == DOMAIN tick[t].rows

DueOK(t) ==
    \A s \in tick[t].todo :
        s \in DOMAIN tick[t].due /\ tick[t].due[s] \in Slot /\ tick[t].now \in Time

\* Nothing is committed under the key of a row that is not.
RowsOK(t) ==
    /\ Keys(t) \subseteq Sched \X Slot
    /\ \A p \in Keys(t) :
          /\ tick[t].rows[p] \in Occurrence
          /\ sched[p[1]] # None /\ occ[p[1]][p[2]] = None

\* A tick moves a schedule past a slot that has a row, committed or its own.
MovedOK(t) ==
    /\ DOMAIN tick[t].moved \subseteq Sched
    /\ \A s \in DOMAIN tick[t].moved :
          /\ tick[t].moved[s].next \in Int /\ tick[t].moved[s].next >= 1
          /\ tick[t].moved[s].last \in Slot
          /\ sched[s] # None
          /\ occ[s][tick[t].moved[s].last] # None \/ <<s, tick[t].moved[s].last>> \in Keys(t)

TodoOK(t) == tick[t].todo \subseteq Sched /\ tick[t].wait \in tick[t].todo \cup {None}

TickOK(t) == DOMAIN tick[t] = Fields /\ TodoOK(t) /\ DueOK(t) /\ RowsOK(t) /\ MovedOK(t)

\* The unique index: no two ticks have inserted the same slot.
RowsApart == \A t, u \in Ticker : t # u => Keys(t) \cap Keys(u) = {}

\* What was executed has its row.
MadeHasRow == \A s \in Sched, d \in Slot : made[s][d] = 0 \/ (occ[s][d] # None /\ made[s][d] = 1)

SlotsOK ==
    \A s \in Sched : sched[s] # None => sched[s].next >= 1 /\ sched[s].last \in Slot \cup {None}

TablesOK ==
    /\ now \in Time /\ crashes \in 0..MaxCrashes /\ edits \in 0..MaxEdits
    /\ sched \in [Sched -> Row \cup {None}]
    /\ occ \in [Sched -> [Slot -> Occurrence \cup {None}]]
    /\ made \in [Sched -> [Slot -> Nat]]

ScheduleInv ==
    /\ TablesOK
    /\ DOMAIN tick = Ticker
    /\ \A t \in Ticker : TickOK(t)
    /\ RowsApart /\ MadeHasRow /\ SlotsOK /\ AdvanceLeavesRow

---------------------------------------------------------------------------
(* Slots. *)

LEMMA OneStepOn ==
    ASSUME NEW step \in Nat \ {0}, NEW k \in Nat
    PROVE  step * (k + 1) \in Nat /\ step * (k + 1) >= 1
<1>1. step * (k + 1) = step * k + step
  OBVIOUS
<1>2. step * k \in Nat
  OBVIOUS
<1> QED BY <1>1, <1>2

\* The grid goes on from a base that is not negative to points that are positive.
LEMMA FirstAfterPositive ==
    ASSUME NEW base \in Nat, NEW step \in Nat \ {0}, NEW t \in Int
    PROVE  FirstAfter(base, step, t) \in Int /\ FirstAfter(base, step, t) >= 1
<1>1. CASE t < base
  BY <1>1 DEF FirstAfter
<1>2. CASE ~(t < base)
  <2> DEFINE k == (t - base) \div step
  <2>1. t - base \in Nat
    BY <1>2
  <2>2. k \in Nat
    BY <2>1
  <2> HIDE DEF k
  <2>3. step * (k + 1) \in Nat /\ step * (k + 1) >= 1
    BY <2>2, OneStepOn
  <2>4. FirstAfter(base, step, t) = base + step * (k + 1)
    BY <1>2 DEF FirstAfter, k
  <2> QED BY <2>3, <2>4
<1> QED BY <1>1, <1>2

LEMMA NextPositive ==
    ASSUME NEW s \in Sched, NEW row, row.created \in Time,
           row.last \in Nat \cup {None}, NEW t \in Int
    PROVE  NextRunAfter(s, row, t) \in Int /\ NextRunAfter(s, row, t) >= 1
<1>1. Step[s] \in Nat \ {0}
  BY ScheduleAssumption
<1>2. CASE s \in Daily
  BY <1>1, <1>2, FirstAfterPositive DEF NextRunAfter
<1>3. CASE s \notin Daily
  <2> DEFINE base == IF row.last = None THEN row.created ELSE row.last
  <2>1. base \in Nat
    BY ScheduleAssumption DEF Time
  <2> HIDE DEF base
  <2>2. FirstAfter(base, Step[s], t) \in Int /\ FirstAfter(base, Step[s], t) >= 1
    BY <1>1, <2>1, FirstAfterPositive
  <2>3. NextRunAfter(s, row, t) = FirstAfter(base, Step[s], t)
    BY <1>3 DEF NextRunAfter, base
  <2> QED BY <2>2, <2>3
<1> QED BY <1>2, <1>3

LEMMA NewRowOK ==
    ASSUME NEW s \in Sched, NEW at \in Time
    PROVE  /\ NewRow(s, at) \in Row /\ NewRow(s, at).next >= 1 /\ NewRow(s, at).last = None
           /\ NewRow(s, at).enabled = TRUE
<1> DEFINE row == [enabled |-> TRUE, created |-> at, next |-> 0, last |-> None]
<1> DEFINE n == NextRunAfter(s, row, at)
<1>1. n \in Int /\ n >= 1
  <2>1. row.created \in Time /\ row.last \in Nat \cup {None} /\ at \in Int
    BY ScheduleAssumption DEF Time
  <2> HIDE DEF row
  <2> QED BY <2>1, NextPositive
<1>2. NewRow(s, at) = [row EXCEPT !.next = n]
  BY Zenon DEF NewRow
<1> HIDE DEF n
<1>3. NewRow(s, at) = [enabled |-> TRUE, created |-> at, next |-> n, last |-> None]
  BY <1>2
<1> QED BY <1>1, <1>3 DEF Row

---------------------------------------------------------------------------
(* Steps of a tick. *)

LEMMA PutIs ==
    ASSUME NEW f, NEW k, NEW v
    PROVE  /\ DOMAIN Put(f, k, v) = DOMAIN f \cup {k} /\ Put(f, k, v)[k] = v
           /\ \A x \in DOMAIN f \ {k} : Put(f, k, v)[x] = f[x]
  BY DEF Put

\* A tick that does not move is left as it was by steps of others.
LEMMA TickKept ==
    ASSUME NEW u \in Ticker, TickOK(u), tick'[u] = tick[u],
           \A p \in Keys(u) : sched'[p[1]] # None /\ occ'[p[1]][p[2]] = None,
           \A s \in DOMAIN tick[u].moved : sched'[s] # None,
           \A s \in Sched, d \in Slot : occ[s][d] # None => occ'[s][d] # None
    PROVE  TickOK(u)'
<1>1. TodoOK(u)' /\ DueOK(u)' /\ RowsOK(u)'
  BY DEF TickOK, TodoOK, DueOK, RowsOK, Keys
<1>2. MovedOK(u)'
  <2> SUFFICES ASSUME NEW s \in DOMAIN tick[u].moved
      PROVE  /\ tick[u].moved[s].next \in Int /\ tick[u].moved[s].next >= 1
             /\ tick[u].moved[s].last \in Slot
             /\ sched'[s] # None
             /\ occ'[s][tick[u].moved[s].last] # None \/ <<s, tick[u].moved[s].last>> \in Keys(u)
    BY DEF MovedOK, TickOK, Keys
  <2> QED BY DEF TickOK, MovedOK
<1> QED BY <1>1, <1>2 DEF TickOK

\* The step of a tick that has nothing left in hand.
LEMMA IdleOK ==
    ASSUME NEW t \in Ticker, tick'[t] = Idle
    PROVE  TickOK(t)' /\ Keys(t)' = {}
  BY DEF TickOK, Idle, TodoOK, DueOK, RowsOK, MovedOK, Keys, Fields

\* A step that writes to no table but only to what tick t has in hand.
LEMMA OneTick ==
    ASSUME ScheduleInv, NEW t \in Ticker, DOMAIN tick' = Ticker,
           \A u \in Ticker \ {t} : tick'[u] = tick[u],
           UNCHANGED <<now, sched, occ, made>>, crashes' \in 0..MaxCrashes, edits' = edits,
           TickOK(t)', \A u \in Ticker \ {t} : Keys(t)' \cap Keys(u) = {}
    PROVE  ScheduleInv'
<1>1. TablesOK' /\ (DOMAIN tick = Ticker)'
  BY DEF ScheduleInv, TablesOK
<1>2. ASSUME NEW u \in Ticker PROVE TickOK(u)'
  <2>1. CASE u # t
    <3>1. tick'[u] = tick[u] /\ TickOK(u)
      BY <2>1 DEF ScheduleInv
    <3> QED BY <3>1 DEF TickOK, TodoOK, DueOK, RowsOK, MovedOK, Keys
  <2> QED BY <2>1
<1>3. RowsApart'
  <2>1. \A u \in Ticker \ {t} : Keys(u)' = Keys(u)
    BY DEF ScheduleInv, Keys
  <2> QED BY <2>1 DEF ScheduleInv, RowsApart
<1>4. MadeHasRow' /\ SlotsOK' /\ AdvanceLeavesRow'
  BY DEF ScheduleInv, MadeHasRow, SlotsOK, AdvanceLeavesRow
<1> QED BY <1>1, <1>2, <1>3, <1>4 DEF ScheduleInv

LEMMA AbortKeeps == ASSUME ScheduleInv, NEW t \in Ticker, Abort(t) PROVE ScheduleInv'
<1>1. DOMAIN tick' = Ticker /\ tick'[t] = Idle /\ \A u \in Ticker \ {t} : tick'[u] = tick[u]
  BY DEF Abort, ScheduleInv
<1>2. crashes' \in 0..MaxCrashes
  BY DEF Abort, ScheduleInv, TablesOK
<1> QED BY <1>1, <1>2, IdleOK, OneTick DEF Abort

LEMMA CrashKeeps == ASSUME ScheduleInv, NEW t \in Ticker, Crash(t) PROVE ScheduleInv'
<1>1. DOMAIN tick' = Ticker /\ tick'[t] = Idle /\ \A u \in Ticker \ {t} : tick'[u] = tick[u]
  BY DEF Crash, ScheduleInv
<1>2. crashes' \in 0..MaxCrashes
  BY ScheduleAssumption DEF Crash, ScheduleInv, TablesOK
<1> QED BY <1>1, <1>2, IdleOK, OneTick DEF Crash

LEMMA BeginKeeps == ASSUME ScheduleInv, NEW t \in Ticker, Begin(t) PROVE ScheduleInv'
<1> DEFINE due == {s \in Sched : sched[s] # None /\ sched[s].enabled /\ sched[s].next <= now}
<1> DEFINE r == [Idle EXCEPT !.now = now, !.todo = due, !.due = [s \in due |-> sched[s].next]]
<1>1. tick' = [tick EXCEPT ![t] = r] /\ UNCHANGED <<now, sched, occ, made, crashes, edits>>
  BY DEF Begin
<1>2. DOMAIN tick' = Ticker /\ tick'[t] = r /\ \A u \in Ticker \ {t} : tick'[u] = tick[u]
  BY <1>1 DEF ScheduleInv
<1>3. \A s \in due : sched[s].next \in Slot
  <2>1. \A s \in due : sched[s] \in Row /\ sched[s].next >= 1 /\ sched[s].next <= now
    BY DEF ScheduleInv, TablesOK, SlotsOK
  <2>2. now \in Time
    BY DEF ScheduleInv, TablesOK
  <2> QED BY <2>1, <2>2, ScheduleAssumption DEF Row, Time, Slot
<1>4. due \subseteq Sched
  OBVIOUS
<1> HIDE DEF due
<1>5. /\ DOMAIN r = Fields /\ r.now = now /\ r.todo = due /\ r.due = [s \in due |-> sched[s].next]
      /\ r.wait = None /\ r.rows = << >> /\ r.moved = << >>
  BY DEF Idle, Fields
<1> HIDE DEF r
<1>6. TickOK(t)'
  <2>1. TodoOK(t)' /\ DueOK(t)'
    BY <1>1, <1>2, <1>3, <1>4, <1>5 DEF TodoOK, DueOK, ScheduleInv, TablesOK
  <2>2. RowsOK(t)' /\ MovedOK(t)'
    BY <1>2, <1>5 DEF RowsOK, MovedOK, Keys
  <2> QED BY <1>2, <1>5, <2>1, <2>2 DEF TickOK
<1>7. Keys(t)' = {}
  BY <1>2, <1>5 DEF Keys
<1>8. crashes' \in 0..MaxCrashes
  BY <1>1 DEF ScheduleInv, TablesOK
<1> QED BY <1>1, <1>2, <1>6, <1>7, <1>8, OneTick

\* What the tick makes of a slot is an occurrence.
LEMMA OpenedOK == \A t \in Ticker, s \in Sched, d \in Slot : Opened(t, s, d) \in Occurrence
  BY DEF Opened, Occurrence

LEMMA MovedIs ==
    ASSUME ScheduleInv, NEW t \in Ticker, NEW s \in Sched, NEW d \in Slot,
           sched[s] # None, tick[t].now \in Time
    PROVE  /\ Moved(t, s, d).last = d
           /\ Moved(t, s, d).next \in Int /\ Moved(t, s, d).next >= 1
<1> DEFINE row == [sched[s] EXCEPT !.last = d]
<1>1. sched[s] \in Row
  BY DEF ScheduleInv, TablesOK
<1>2. row.created \in Time /\ row.last \in Nat \cup {None}
  BY <1>1 DEF Row, Slot
<1>3. tick[t].now \in Int
  BY DEF Time
<1> DEFINE n == NextRunAfter(s, row, tick[t].now)
<1>4. Moved(t, s, d) = [last |-> d, next |-> n]
  BY DEF Moved
<1> HIDE DEF row
<1>5. n \in Int /\ n >= 1
  BY <1>2, <1>3, NextPositive
<1> HIDE DEF n
<1> QED BY <1>4, <1>5

\* A due schedule: it waits for the row of another tick, finds the slot taken, or inserts.
LEMMA HandleKeeps ==
    ASSUME ScheduleInv, NEW t \in Ticker, NEW s \in Sched, Handle(t, s) PROVE ScheduleInv'
<1> DEFINE d == tick[t].due[s]
           o == Opened(t, s, d)
           rows  == Put(tick[t].rows, <<s, d>>, o)
           moved == Put(tick[t].moved, s, Moved(t, s, d))
<1>1. s \in tick[t].todo /\ tick[t].wait \in {None, s}
  BY DEF Handle
<1>2. TickOK(t) /\ DOMAIN tick = Ticker
  BY DEF ScheduleInv
<1>3. d \in Slot /\ tick[t].now \in Time
  BY <1>1, <1>2 DEF TickOK, DueOK
<1>4. o \in Occurrence
  BY <1>3, OpenedOK
<1>5. sched[s] # None => Moved(t, s, d).last = d /\ Moved(t, s, d).next \in Int /\ Moved(t, s, d).next >= 1
  BY <1>3, MovedIs
<1>6. crashes \in 0..MaxCrashes
  BY DEF ScheduleInv, TablesOK
<1>7. /\ DOMAIN moved = DOMAIN tick[t].moved \cup {s} /\ moved[s] = Moved(t, s, d)
      /\ \A x \in DOMAIN tick[t].moved \ {s} : moved[x] = tick[t].moved[x]
  <2> HIDE DEF d
  <2> QED BY DEF Put
<1>8. /\ DOMAIN rows = Keys(t) \cup {<<s, d>>} /\ rows[<<s, d>>] = o
      /\ \A x \in Keys(t) \ {<<s, d>>} : rows[x] = tick[t].rows[x]
  <2> HIDE DEF d, o
  <2> QED BY DEF Put, Keys
<1>a. CASE Abort(t)
  BY <1>a, AbortKeeps
<1>b. CASE /\ sched[s] # None /\ Held(t, s, d)
           /\ tick' = [tick EXCEPT ![t].wait = s]
           /\ UNCHANGED <<now, sched, occ, made, crashes, edits>>
  <2> DEFINE r == [tick[t] EXCEPT !.wait = s]
  <2>1. DOMAIN tick' = Ticker /\ tick'[t] = r /\ \A u \in Ticker \ {t} : tick'[u] = tick[u]
    BY <1>2, <1>b
  <2>2. /\ DOMAIN r = Fields /\ r.todo = tick[t].todo /\ r.due = tick[t].due /\ r.now = tick[t].now
        /\ r.rows = tick[t].rows /\ r.moved = tick[t].moved /\ r.wait = s
    BY <1>2 DEF TickOK, Fields
  <2> HIDE DEF r
  <2>3. TodoOK(t)' /\ DueOK(t)'
    BY <1>1, <1>2, <2>1, <2>2 DEF TickOK, TodoOK, DueOK
  <2>4. RowsOK(t)' /\ MovedOK(t)' /\ Keys(t)' = Keys(t)
    BY <1>2, <1>b, <2>1, <2>2 DEF TickOK, RowsOK, MovedOK, Keys
  <2>5. TickOK(t)'
    BY <2>1, <2>2, <2>3, <2>4 DEF TickOK
  <2>6. \A u \in Ticker \ {t} : Keys(t)' \cap Keys(u) = {}
    BY <2>4 DEF ScheduleInv, RowsApart
  <2> QED BY <1>6, <1>b, <2>1, <2>5, <2>6, OneTick
<1>c. CASE /\ sched[s] # None /\ Taken(s, d)
           /\ Advance(t, s, tick[t].rows, moved)
           /\ UNCHANGED <<now, sched, occ, made, crashes, edits>>
  <2> HIDE DEF d, o, rows
  <2>c. Advance(t, s, tick[t].rows, moved)
    BY <1>c
  <2> HIDE DEF moved
  <2> DEFINE r == [tick[t] EXCEPT !.todo = @ \ {s}, !.wait = None, !.rows = tick[t].rows, !.moved = moved]
  <2>1. DOMAIN tick' = Ticker /\ tick'[t] = r /\ \A u \in Ticker \ {t} : tick'[u] = tick[u]
    BY <1>2, <2>c DEF Advance
  <2>2. /\ DOMAIN r = Fields /\ r.todo = tick[t].todo \ {s} /\ r.due = tick[t].due /\ r.now = tick[t].now
        /\ r.rows = tick[t].rows /\ r.moved = moved /\ r.wait = None
    BY <1>2 DEF TickOK, Fields
  <2> HIDE DEF r
  <2>3. TodoOK(t)' /\ DueOK(t)'
    BY <1>1, <1>2, <2>1, <2>2 DEF TickOK, TodoOK, DueOK
  <2>4. RowsOK(t)' /\ Keys(t)' = Keys(t)
    BY <1>2, <1>c, <2>1, <2>2 DEF TickOK, RowsOK, Keys
  <2>m. MovedOK(t)'
    <3>1. \A x \in DOMAIN tick[t].moved \ {s} :
             /\ moved[x].next \in Int /\ moved[x].next >= 1 /\ moved[x].last \in Slot
             /\ sched[x] # None /\ (occ[x][moved[x].last] # None \/ <<x, moved[x].last>> \in Keys(t))
      BY <1>2, <1>7 DEF TickOK, MovedOK
    <3>2. /\ moved[s].next \in Int /\ moved[s].next >= 1 /\ moved[s].last \in Slot
          /\ sched[s] # None /\ occ[s][moved[s].last] # None
      BY <1>3, <1>5, <1>c, <1>7, <1>8 DEF Taken
    <3>3. DOMAIN moved \subseteq Sched
      BY <1>2, <1>7 DEF TickOK, MovedOK
    <3> QED BY <1>c, <1>7, <1>8, <2>1, <2>2, <2>4, <3>1, <3>2, <3>3 DEF MovedOK
  <2>5. TickOK(t)'
    BY <2>1, <2>2, <2>3, <2>4, <2>m DEF TickOK
  <2>6. \A u \in Ticker \ {t} : Keys(t)' \cap Keys(u) = {}
    BY <2>4 DEF ScheduleInv, RowsApart
  <2> QED BY <1>6, <1>c, <2>1, <2>5, <2>6, OneTick
<1>d. CASE /\ sched[s] # None /\ ~Held(t, s, d) /\ ~Taken(s, d)
           /\ IF o.state = "RUNNING"
              THEN tick' = [tick EXCEPT ![t].rows = rows, ![t].wait = None]
              ELSE Advance(t, s, rows, moved)
           /\ UNCHANGED <<now, sched, occ, made, crashes, edits>>
  <2> DEFINE todo_ == IF o.state = "RUNNING" THEN tick[t].todo ELSE tick[t].todo \ {s}
             moved_ == IF o.state = "RUNNING" THEN tick[t].moved ELSE moved
  <2>e. IF o.state = "RUNNING"
        THEN tick' = [tick EXCEPT ![t].rows = rows, ![t].wait = None]
        ELSE Advance(t, s, rows, moved)
    BY <1>d
  <2>d. sched[s] # None /\ ~Held(t, s, d) /\ ~Taken(s, d) /\ UNCHANGED <<now, sched, occ, made, crashes, edits>>
    BY <1>d
  <2>t. todo_ \subseteq tick[t].todo
    OBVIOUS
  <2>v. moved_ = tick[t].moved \/ moved_ = moved
    OBVIOUS
  <2> HIDE DEF d, o, rows, moved
  <2>1. DOMAIN tick' = Ticker /\ \A u \in Ticker \ {t} : tick'[u] = tick[u]
    BY <1>2, <2>e DEF Advance
  <2>2. /\ DOMAIN tick'[t] = Fields /\ tick'[t].todo = todo_ /\ tick'[t].due = tick[t].due
        /\ tick'[t].now = tick[t].now /\ tick'[t].rows = rows /\ tick'[t].moved = moved_
        /\ tick'[t].wait = None
    <3>1. CASE o.state = "RUNNING"
      BY <1>2, <2>e, <3>1 DEF TickOK, Fields
    <3>2. CASE o.state # "RUNNING"
      BY <1>2, <2>e, <3>2 DEF TickOK, Fields, Advance
    <3> QED BY <3>1, <3>2
  <2> HIDE DEF todo_, moved_
  <2>3. TodoOK(t)' /\ DueOK(t)'
    BY <1>1, <1>2, <2>1, <2>2, <2>t DEF TickOK, TodoOK, DueOK
  <2>k. Keys(t)' = Keys(t) \cup {<<s, d>>}
    BY <1>7, <1>8, <2>1, <2>2 DEF Keys
  <2>4. RowsOK(t)'
    <3>1. occ[s][d] = None
      BY <2>d DEF Taken
    <3>2. \A p \in Keys(t) : p \in Sched \X Slot /\ tick[t].rows[p] \in Occurrence
                              /\ sched[p[1]] # None /\ occ[p[1]][p[2]] = None
      BY <1>2 DEF TickOK, RowsOK
    <3>3. \A p \in Keys(t) \cup {<<s, d>>} :
             p \in Sched \X Slot /\ rows[p] \in Occurrence /\ sched[p[1]] # None /\ occ[p[1]][p[2]] = None
      BY <1>3, <1>4, <1>7, <1>8, <2>d, <3>1, <3>2
    <3> QED BY <2>1, <2>2, <2>d, <2>k, <3>3 DEF RowsOK
  <2>m. MovedOK(t)'
    <3>1. \A x \in DOMAIN tick[t].moved :
             /\ tick[t].moved[x].next \in Int /\ tick[t].moved[x].next >= 1 /\ tick[t].moved[x].last \in Slot
             /\ sched[x] # None
             /\ (occ[x][tick[t].moved[x].last] # None \/ <<x, tick[t].moved[x].last>> \in Keys(t))
      BY <1>2 DEF TickOK, MovedOK
    <3>2. /\ Moved(t, s, d).next \in Int /\ Moved(t, s, d).next >= 1 /\ Moved(t, s, d).last = d
          /\ d \in Slot /\ sched[s] # None /\ <<s, d>> \in Keys(t)'
      BY <1>3, <1>5, <2>d, <2>k
    <3>3. DOMAIN moved_ \subseteq Sched
      BY <1>2, <1>7, <1>8, <2>v DEF TickOK, MovedOK
    <3>4. \A x \in DOMAIN moved_ :
             /\ moved_[x].next \in Int /\ moved_[x].next >= 1 /\ moved_[x].last \in Slot
             /\ sched[x] # None
             /\ (occ[x][moved_[x].last] # None \/ <<x, moved_[x].last>> \in Keys(t)')
      <4>1. CASE moved_ = tick[t].moved
        BY <2>k, <3>1, <4>1
      <4>2. CASE moved_ = moved
        BY <1>7, <1>8, <2>k, <3>1, <3>2, <4>2
      <4> QED BY <2>v, <4>1, <4>2
    <3> QED BY <2>1, <2>2, <2>d, <3>3, <3>4 DEF MovedOK
  <2>5. TickOK(t)'
    BY <2>1, <2>2, <2>3, <2>4, <2>m DEF TickOK
  <2>6. \A u \in Ticker \ {t} : Keys(t)' \cap Keys(u) = {}
    BY <2>d, <2>k DEF ScheduleInv, RowsApart, Held, Keys
  <2> QED BY <1>6, <2>1, <2>5, <2>6, <2>d, OneTick
<1> QED BY <1>a, <1>b, <1>c, <1>d DEF Handle

---------------------------------------------------------------------------
(* The commits. *)

\* What the commit of all that tick t has in hand leaves of the tables.
LEMMA WriteTables ==
    ASSUME ScheduleInv, NEW t \in Ticker, Write(tick[t].rows, tick[t].moved),
           UNCHANGED <<now, crashes, edits>>
    PROVE  /\ TablesOK' /\ MadeHasRow' /\ SlotsOK' /\ AdvanceLeavesRow'
           /\ \A s \in Sched : sched[s] # None => sched'[s] # None
           /\ \A s \in Sched, d \in Slot : occ[s][d] # None => occ'[s][d] # None
           /\ \A p \in Keys(t) : occ'[p[1]][p[2]] # None
           /\ \A s \in DOMAIN tick[t].moved : occ'[s][tick[t].moved[s].last] # None
           /\ \A p \in (Sched \X Slot) \ Keys(t) : occ'[p[1]][p[2]] = occ[p[1]][p[2]]
<1> DEFINE rows == tick[t].rows
           moved == tick[t].moved
<1>1. TickOK(t) /\ TablesOK /\ MadeHasRow /\ SlotsOK /\ AdvanceLeavesRow
  BY DEF ScheduleInv
<1>2. \A s \in Sched, d \in Slot : <<s, d>> \in DOMAIN rows =>
         rows[<<s, d>>] \in Occurrence /\ sched[s] # None /\ occ[s][d] = None
  BY <1>1 DEF TickOK, RowsOK, Keys
<1>3. \A s \in DOMAIN moved :
         /\ s \in Sched
         /\ moved[s].next \in Int /\ moved[s].next >= 1 /\ moved[s].last \in Slot
         /\ sched[s] # None
         /\ occ[s][moved[s].last] # None \/ <<s, moved[s].last>> \in DOMAIN rows
  BY <1>1 DEF TickOK, MovedOK, Keys
<1>4. /\ occ' = [s \in Sched |-> [d \in Slot |->
                   IF <<s, d>> \in DOMAIN rows THEN rows[<<s, d>>] ELSE occ[s][d]]]
      /\ made' = [s \in Sched |-> [d \in Slot |->
                   IF <<s, d>> \in DOMAIN rows /\ rows[<<s, d>>].exec # None
                   THEN made[s][d] + 1 ELSE made[s][d]]]
      /\ sched' = [s \in Sched |->
                   IF s \in DOMAIN moved
                   THEN [sched[s] EXCEPT !.last = moved[s].last, !.next = moved[s].next]
                   ELSE sched[s]]
  BY DEF Write
<1>k. Keys(t) = DOMAIN rows /\ Keys(t) \subseteq Sched \X Slot
  BY <1>1 DEF Keys, TickOK, RowsOK
<1>m. tick[t].moved = moved
  OBVIOUS
<1> HIDE DEF rows, moved
<1>5. \A s \in Sched, d \in Slot :
         /\ <<s, d>> \in DOMAIN rows => occ'[s][d] = rows[<<s, d>>]
         /\ <<s, d>> \notin DOMAIN rows => occ'[s][d] = occ[s][d] /\ made'[s][d] = made[s][d]
         /\ made'[s][d] = made[s][d] + 1 \/ made'[s][d] = made[s][d]
  BY <1>4
<1>6. \A s \in Sched :
         /\ s \notin DOMAIN moved => sched'[s] = sched[s]
         /\ s \in DOMAIN moved => /\ sched'[s] \in Row /\ sched'[s] # None
                                  /\ sched'[s].last = moved[s].last /\ sched'[s].next = moved[s].next
  <2> SUFFICES ASSUME NEW s \in DOMAIN moved
      PROVE  /\ sched'[s] \in Row /\ sched'[s] # None
             /\ sched'[s].last = moved[s].last /\ sched'[s].next = moved[s].next
    BY <1>4
  <2>1. sched[s] \in Row
    BY <1>1, <1>3 DEF TablesOK
  <2>2. sched'[s] = [sched[s] EXCEPT !.last = moved[s].last, !.next = moved[s].next]
    BY <1>3, <1>4
  <2>3. moved[s].last \in Int /\ moved[s].next \in Int
    <3>1. moved[s].last \in Slot /\ moved[s].next \in Int
      BY <1>3
    <3> QED BY <3>1 DEF Slot
  <2>4. sched'[s] \in Row /\ sched'[s].last = moved[s].last /\ sched'[s].next = moved[s].next
    BY <2>1, <2>2, <2>3 DEF Row
  <2> QED BY <2>4, NoneAssumption
<1>7. \A s \in Sched, d \in Slot :
         /\ occ[s][d] # None => occ'[s][d] # None
         /\ <<s, d>> \in DOMAIN rows => occ'[s][d] # None
  <2>1. \A x \in Occurrence : x # None
    BY NoneAssumption
  <2> SUFFICES ASSUME NEW s \in Sched, NEW d \in Slot
      PROVE  /\ occ[s][d] # None => occ'[s][d] # None
             /\ <<s, d>> \in DOMAIN rows => occ'[s][d] # None
    OBVIOUS
  <2>2. <<s, d>> \in DOMAIN rows => occ'[s][d] = rows[<<s, d>>] /\ rows[<<s, d>>] # None
    BY <1>2, <1>5, <2>1
  <2>3. <<s, d>> \notin DOMAIN rows => occ'[s][d] = occ[s][d]
    BY <1>5
  <2> QED BY <2>2, <2>3
<1>8. \A p \in Keys(t) : occ'[p[1]][p[2]] # None
  <2> SUFFICES ASSUME NEW p \in Keys(t) PROVE occ'[p[1]][p[2]] # None
    OBVIOUS
  <2>1. p[1] \in Sched /\ p[2] \in Slot /\ <<p[1], p[2]>> \in DOMAIN rows
    BY <1>k
  <2> QED BY <1>7, <2>1
<1>9. \A s \in DOMAIN moved : occ'[s][moved[s].last] # None
  BY <1>3, <1>7
<1>10. TablesOK'
  <2>1. occ' \in [Sched -> [Slot -> Occurrence \cup {None}]]
    BY <1>1, <1>2, <1>4 DEF TablesOK
  <2>2. made' \in [Sched -> [Slot -> Nat]]
    <3>1. \A s \in Sched, d \in Slot : made[s][d] \in Nat
      BY <1>1 DEF TablesOK
    <3>2. \A s \in Sched, d \in Slot :
             (IF <<s, d>> \in DOMAIN rows /\ rows[<<s, d>>].exec # None
              THEN made[s][d] + 1 ELSE made[s][d]) \in Nat
      BY <3>1
    <3> QED BY <1>4, <3>2
  <2>3. sched' \in [Sched -> Row \cup {None}]
    <3>1. \A s \in Sched : sched'[s] \in Row \cup {None}
      BY <1>1, <1>6 DEF TablesOK
    <3> QED BY <1>4, <3>1
  <2> QED BY <1>1, <2>1, <2>2, <2>3 DEF TablesOK
<1>11. MadeHasRow'
  <2> SUFFICES ASSUME NEW s \in Sched, NEW d \in Slot
      PROVE  made'[s][d] = 0 \/ (occ'[s][d] # None /\ made'[s][d] = 1)
    BY DEF MadeHasRow
  <2>1. CASE <<s, d>> \in DOMAIN rows
    <3>1. occ[s][d] = None /\ made[s][d] = 0 /\ occ'[s][d] # None
      BY <1>1, <1>2, <1>7, <2>1 DEF MadeHasRow
    <3>2. made'[s][d] = made[s][d] + 1 \/ made'[s][d] = made[s][d]
      BY <1>5
    <3> QED BY <3>1, <3>2
  <2>2. CASE <<s, d>> \notin DOMAIN rows
    BY <1>1, <1>5, <2>2 DEF MadeHasRow
  <2> QED BY <2>1, <2>2
<1>12. SlotsOK'
  BY <1>1, <1>3, <1>6 DEF SlotsOK
<1>13. AdvanceLeavesRow'
  <2> SUFFICES ASSUME NEW s \in Sched, sched'[s] # None, sched'[s].last # None
      PROVE  occ'[s][sched'[s].last] # None
    BY DEF AdvanceLeavesRow
  <2>1. CASE s \in DOMAIN moved
    BY <1>6, <1>9, <2>1
  <2>2. CASE s \notin DOMAIN moved
    <3>1. sched[s] # None /\ sched[s].last \in Slot /\ occ[s][sched[s].last] # None
      BY <1>1, <1>6, <2>2 DEF SlotsOK, AdvanceLeavesRow
    <3> QED BY <1>6, <1>7, <2>2, <3>1
  <2> QED BY <2>1, <2>2
<1>14. \A s \in Sched : sched[s] # None => sched'[s] # None
  BY <1>6
<1>15. \A p \in (Sched \X Slot) \ Keys(t) : occ'[p[1]][p[2]] = occ[p[1]][p[2]]
  BY <1>5, <1>k
<1> QED BY <1>7, <1>8, <1>9, <1>10, <1>11, <1>12, <1>13, <1>14, <1>15, <1>m

\* A commit by tick t of all it has in hand, whatever is left for it to do.
LEMMA CommitKeeps ==
    ASSUME ScheduleInv, NEW t \in Ticker, Write(tick[t].rows, tick[t].moved),
           UNCHANGED <<now, crashes, edits>>, DOMAIN tick' = Ticker,
           \A u \in Ticker \ {t} : tick'[u] = tick[u],
           TickOK(t)', Keys(t)' = {}
    PROVE  ScheduleInv'
<1>1. /\ TablesOK' /\ MadeHasRow' /\ SlotsOK' /\ AdvanceLeavesRow'
      /\ \A s \in Sched : sched[s] # None => sched'[s] # None
      /\ \A s \in Sched, d \in Slot : occ[s][d] # None => occ'[s][d] # None
      /\ \A p \in (Sched \X Slot) \ Keys(t) : occ'[p[1]][p[2]] = occ[p[1]][p[2]]
  BY WriteTables
<1>2. ASSUME NEW u \in Ticker PROVE TickOK(u)'
  <2>1. CASE u # t
    <3>1. TickOK(u) /\ tick'[u] = tick[u] /\ Keys(t) \cap Keys(u) = {}
      BY <2>1 DEF ScheduleInv, RowsApart
    <3>2. \A p \in Keys(u) : /\ p \in (Sched \X Slot) \ Keys(t)
                             /\ sched[p[1]] # None /\ occ[p[1]][p[2]] = None
      BY <3>1 DEF TickOK, RowsOK
    <3>3. \A p \in Keys(u) : sched'[p[1]] # None /\ occ'[p[1]][p[2]] = None
      <4> SUFFICES ASSUME NEW p \in Keys(u)
          PROVE  sched'[p[1]] # None /\ occ'[p[1]][p[2]] = None
        OBVIOUS
      <4>1. p[1] \in Sched
        BY <3>2
      <4> QED BY <1>1, <3>2, <4>1
    <3>4. \A s \in DOMAIN tick[u].moved : sched'[s] # None
      BY <1>1, <3>1 DEF TickOK, MovedOK
    <3> QED BY <1>1, <3>1, <3>3, <3>4, TickKept
  <2> QED BY <2>1
<1>3. RowsApart'
  <2>1. \A u \in Ticker \ {t} : Keys(u)' = Keys(u)
    BY DEF Keys
  <2> QED BY <2>1 DEF ScheduleInv, RowsApart
<1> QED BY <1>1, <1>2, <1>3 DEF ScheduleInv

LEMMA FinishKeeps == ASSUME ScheduleInv, NEW t \in Ticker, Finish(t) PROVE ScheduleInv'
<1>1. DOMAIN tick' = Ticker /\ tick'[t] = Idle /\ \A u \in Ticker \ {t} : tick'[u] = tick[u]
  BY DEF Finish, ScheduleInv
<1> QED BY <1>1, IdleOK, CommitKeeps DEF Finish

\* The commit of a passive occurrence: the tick goes on, with the schedule moved.
LEMMA PassiveKeeps ==
    ASSUME ScheduleInv, NEW t \in Ticker, NEW s \in Sched, Commit(t, s) PROVE ScheduleInv'
<1> DEFINE d == tick[t].due[s]
           moved == Put(<< >>, s, Moved(t, s, d))
           r == [tick[t] EXCEPT !.todo = @ \ {s}, !.wait = None, !.rows = << >>, !.moved = moved]
<1>1. /\ s \in tick[t].todo /\ Passing(t) = {<<s, d>>}
      /\ Write(tick[t].rows, tick[t].moved) /\ UNCHANGED <<now, crashes, edits>>
      /\ Advance(t, s, << >>, moved)
  BY DEF Commit
<1>2. TickOK(t) /\ DOMAIN tick = Ticker
  BY DEF ScheduleInv
<1>3. d \in Slot /\ tick[t].now \in Time
  BY <1>1, <1>2 DEF TickOK, DueOK
<1>4. <<s, d>> \in Keys(t) /\ sched[s] # None
  <2>1. <<s, d>> \in Keys(t)
    BY <1>1 DEF Passing, Keys
  <2> QED BY <1>2, <2>1 DEF TickOK, RowsOK
<1>5. Moved(t, s, d).last = d /\ Moved(t, s, d).next \in Int /\ Moved(t, s, d).next >= 1
  BY <1>3, <1>4, MovedIs
<1>6. DOMAIN moved = {s} /\ moved[s] = Moved(t, s, d)
  <2> HIDE DEF d
  <2> QED BY DEF Put
<1> HIDE DEF d, moved
<1>7. tick' = [tick EXCEPT ![t] = r] /\ tick'[t] = r
  BY <1>1, <1>2 DEF Advance
<1>8. /\ DOMAIN r = Fields /\ r.todo = tick[t].todo \ {s} /\ r.due = tick[t].due /\ r.now = tick[t].now
      /\ r.rows = << >> /\ r.moved = moved /\ r.wait = None
  BY <1>2 DEF TickOK, Fields
<1> HIDE DEF r
<1>9. sched'[s] # None /\ occ'[s][d] # None
  <2>1. \A x \in Sched : sched[x] # None => sched'[x] # None
    BY <1>1, WriteTables
  <2>2. \A p \in Keys(t) : occ'[p[1]][p[2]] # None
    BY <1>1, WriteTables
  <2> QED BY <1>4, <2>1, <2>2
<1>10. TodoOK(t)' /\ DueOK(t)'
  BY <1>1, <1>2, <1>7, <1>8 DEF TickOK, TodoOK, DueOK
<1>11. Keys(t)' = {} /\ RowsOK(t)'
  BY <1>7, <1>8 DEF Keys, RowsOK
<1>12. MovedOK(t)'
  BY <1>3, <1>5, <1>6, <1>7, <1>8, <1>9 DEF MovedOK
<1>13. TickOK(t)'
  BY <1>7, <1>8, <1>10, <1>11, <1>12 DEF TickOK
<1>14. DOMAIN tick' = Ticker /\ \A u \in Ticker \ {t} : tick'[u] = tick[u]
  BY <1>2, <1>7
<1> QED BY <1>1, <1>11, <1>13, <1>14, CommitKeeps

---------------------------------------------------------------------------
(* The requests. *)

\* A step that writes the tables and leaves every tick what it needs of them.
LEMMA TablesStep ==
    ASSUME ScheduleInv, tick' = tick,
           TablesOK', MadeHasRow', SlotsOK', AdvanceLeavesRow',
           \A t \in Ticker : /\ \A p \in Keys(t) : sched'[p[1]] # None /\ occ'[p[1]][p[2]] = None
                             /\ \A s \in DOMAIN tick[t].moved : sched'[s] # None,
           \A s \in Sched, d \in Slot : occ[s][d] # None => occ'[s][d] # None
    PROVE  ScheduleInv'
<1>1. ASSUME NEW t \in Ticker PROVE TickOK(t)'
  <2>1. TickOK(t) /\ tick'[t] = tick[t]
    BY DEF ScheduleInv
  <2> QED BY <2>1, TickKept
<1>2. RowsApart' /\ (DOMAIN tick = Ticker)'
  BY DEF ScheduleInv, RowsApart, Keys
<1> QED BY <1>1, <1>2 DEF ScheduleInv

LEMMA UsedSchedules ==
    ASSUME ScheduleInv, NEW t \in Ticker
    PROVE  /\ \A p \in Keys(t) : p \in Sched \X Slot /\ sched[p[1]] # None /\ occ[p[1]][p[2]] = None
           /\ \A s \in DOMAIN tick[t].moved :
                 /\ s \in Sched /\ sched[s] # None /\ tick[t].moved[s].last \in Slot
                 /\ occ[s][tick[t].moved[s].last] # None \/ <<s, tick[t].moved[s].last>> \in Keys(t)
  BY DEF ScheduleInv, TickOK, RowsOK, MovedOK

\* Creation, and the switch: the row is there afterwards.
LEMMA RowWritten ==
    ASSUME ScheduleInv, NEW s \in Sched, NEW row \in Row, row.next >= 1,
           row.last = None \/ (sched[s] # None /\ row.last = sched[s].last),
           sched' = [sched EXCEPT ![s] = row],
           UNCHANGED <<now, occ, made, tick, crashes>>, edits' \in 0..MaxEdits
    PROVE  ScheduleInv'
<1>1. /\ TablesOK /\ SlotsOK /\ AdvanceLeavesRow /\ MadeHasRow
      /\ \A x \in Sched : sched[x] \in Row \cup {None}
  BY DEF ScheduleInv, TablesOK
<1>2. \A x \in Sched : sched'[x] = IF x = s THEN row ELSE sched[x]
  BY <1>1 DEF TablesOK
<1>3. row # None
  BY NoneAssumption
<1>4. TablesOK'
  BY <1>1 DEF TablesOK
<1>5. SlotsOK'
  BY <1>1, <1>2 DEF SlotsOK
<1>6. AdvanceLeavesRow'
  BY <1>1, <1>2 DEF AdvanceLeavesRow
<1>7. MadeHasRow'
  BY <1>1 DEF MadeHasRow
<1>8. \A t \in Ticker : /\ \A p \in Keys(t) : sched'[p[1]] # None /\ occ'[p[1]][p[2]] = None
                        /\ \A x \in DOMAIN tick[t].moved : sched'[x] # None
  <2> SUFFICES ASSUME NEW t \in Ticker
      PROVE  /\ \A p \in Keys(t) : sched'[p[1]] # None /\ occ'[p[1]][p[2]] = None
             /\ \A x \in DOMAIN tick[t].moved : sched'[x] # None
    OBVIOUS
  <2>1. \A p \in Keys(t) : p[1] \in Sched /\ sched[p[1]] # None /\ occ[p[1]][p[2]] = None
    BY UsedSchedules
  <2>2. \A x \in DOMAIN tick[t].moved : x \in Sched /\ sched[x] # None
    BY UsedSchedules
  <2> QED BY <1>2, <1>3, <2>1, <2>2
<1> QED BY <1>4, <1>5, <1>6, <1>7, <1>8, TablesStep

LEMMA EditCounts == ASSUME ScheduleInv, Edit PROVE edits' \in 0..MaxEdits
  BY ScheduleAssumption DEF ScheduleInv, TablesOK, Edit

LEMMA CreateKeeps == ASSUME ScheduleInv, NEW s \in Sched, Create(s) PROVE ScheduleInv'
<1>1. NewRow(s, now) \in Row /\ NewRow(s, now).next >= 1 /\ NewRow(s, now).last = None
  BY NewRowOK DEF ScheduleInv, TablesOK
<1>2. /\ edits' \in 0..MaxEdits /\ sched' = [sched EXCEPT ![s] = NewRow(s, now)]
      /\ UNCHANGED <<now, occ, made, tick, crashes>>
  BY EditCounts DEF Create
<1> QED BY <1>1, <1>2, RowWritten

LEMMA UpdateKeeps ==
    ASSUME ScheduleInv, NEW s \in Sched, NEW b \in BOOLEAN, Update(s, b) PROVE ScheduleInv'
<1> DEFINE row == [sched[s] EXCEPT !.enabled = b]
<1>1. sched[s] \in Row /\ sched[s] # None /\ sched[s].next >= 1
  BY DEF ScheduleInv, TablesOK, SlotsOK, Update
<1>2. row \in Row /\ row.next >= 1 /\ row.last = sched[s].last
  BY <1>1 DEF Row
<1>3. /\ edits' \in 0..MaxEdits /\ sched' = [sched EXCEPT ![s] = row]
      /\ UNCHANGED <<now, occ, made, tick, crashes>>
  <2>1. sched' = [sched EXCEPT ![s] = row]
    BY DEF Update, ScheduleInv, TablesOK
  <2> QED BY <2>1, EditCounts DEF Update
<1> QED BY <1>1, <1>2, <1>3, RowWritten

\* A schedule can be deleted only while no row, committed or not, refers to it.
LEMMA DeleteKeeps == ASSUME ScheduleInv, NEW s \in Sched, Delete(s) PROVE ScheduleInv'
<1>1. /\ TablesOK /\ SlotsOK /\ AdvanceLeavesRow /\ MadeHasRow
      /\ \A x \in Sched : sched[x] \in Row \cup {None}
  BY DEF ScheduleInv, TablesOK
<1>2. /\ sched' = [sched EXCEPT ![s] = None] /\ UNCHANGED <<now, occ, made, tick, crashes>>
      /\ edits' \in 0..MaxEdits
  BY EditCounts DEF Delete
<1>3. \A x \in Sched : sched'[x] = IF x = s THEN None ELSE sched[x]
  BY <1>1, <1>2 DEF TablesOK
<1>4. \A d \in Slot : occ[s][d] = None /\ \A t \in Ticker : <<s, d>> \notin Keys(t)
  BY DEF Delete, Keys
<1>5. TablesOK' /\ MadeHasRow' /\ SlotsOK' /\ AdvanceLeavesRow'
  <2>1. TablesOK'
    BY <1>1, <1>2 DEF TablesOK
  <2>2. SlotsOK' /\ AdvanceLeavesRow' /\ MadeHasRow'
    BY <1>1, <1>2, <1>3 DEF SlotsOK, AdvanceLeavesRow, MadeHasRow
  <2> QED BY <2>1, <2>2
<1>6. \A t \in Ticker : /\ \A p \in Keys(t) : sched'[p[1]] # None /\ occ'[p[1]][p[2]] = None
                        /\ \A x \in DOMAIN tick[t].moved : sched'[x] # None
  <2> SUFFICES ASSUME NEW t \in Ticker
      PROVE  /\ \A p \in Keys(t) : sched'[p[1]] # None /\ occ'[p[1]][p[2]] = None
             /\ \A x \in DOMAIN tick[t].moved : sched'[x] # None
    OBVIOUS
  <2>1. \A p \in Keys(t) : sched'[p[1]] # None /\ occ'[p[1]][p[2]] = None
    <3> SUFFICES ASSUME NEW p \in Keys(t)
        PROVE  sched'[p[1]] # None /\ occ'[p[1]][p[2]] = None
      OBVIOUS
    <3>1. p \in Sched \X Slot /\ sched[p[1]] # None /\ occ[p[1]][p[2]] = None
      BY UsedSchedules
    <3>2. p = <<p[1], p[2]>> /\ p[1] \in Sched /\ p[2] \in Slot
      BY <3>1
    <3>3. p[1] # s
      BY <1>4, <3>2
    <3> QED BY <1>2, <1>3, <3>1, <3>2, <3>3
  <2>2. \A x \in DOMAIN tick[t].moved : sched'[x] # None
    <3> SUFFICES ASSUME NEW x \in DOMAIN tick[t].moved PROVE sched'[x] # None
      OBVIOUS
    <3>1. /\ x \in Sched /\ sched[x] # None /\ tick[t].moved[x].last \in Slot
          /\ occ[x][tick[t].moved[x].last] # None \/ <<x, tick[t].moved[x].last>> \in Keys(t)
      BY UsedSchedules
    <3>2. x # s
      BY <1>4, <3>1
    <3> QED BY <1>3, <3>1, <3>2
  <2> QED BY <2>1, <2>2
<1>7. tick' = tick /\ \A x \in Sched, d \in Slot : occ[x][d] # None => occ'[x][d] # None
  BY <1>2
<1> QED BY <1>5, <1>6, <1>7, TablesStep

\* What becomes of an occurrence that is committed.
LEMMA OccurrenceKeeps ==
    ASSUME ScheduleInv, NEW s \in Sched, NEW d \in Slot, NEW o \in Occurrence,
           occ[s][d] # None, SetOccurrence(s, d, o)
    PROVE  ScheduleInv'
<1>1. TablesOK /\ SlotsOK /\ AdvanceLeavesRow /\ MadeHasRow
  BY DEF ScheduleInv
<1>2. occ' = [occ EXCEPT ![s][d] = o] /\ UNCHANGED <<now, sched, made, tick, crashes, edits>>
  BY DEF SetOccurrence
<1>3. o # None
  BY NoneAssumption
<1>4. \A x \in Sched, y \in Slot : occ'[x][y] = IF x = s /\ y = d THEN o ELSE occ[x][y]
  BY <1>1, <1>2 DEF TablesOK
<1>5. TablesOK'
  BY <1>1, <1>2 DEF TablesOK
<1>6. SlotsOK' /\ MadeHasRow'
  BY <1>1, <1>2, <1>3, <1>4 DEF SlotsOK, MadeHasRow
<1>7. AdvanceLeavesRow'
  BY <1>1, <1>2, <1>3, <1>4 DEF SlotsOK, AdvanceLeavesRow
<1>8. \A t \in Ticker : /\ \A p \in Keys(t) : sched'[p[1]] # None /\ occ'[p[1]][p[2]] = None
                        /\ \A x \in DOMAIN tick[t].moved : sched'[x] # None
  <2> SUFFICES ASSUME NEW t \in Ticker
      PROVE  /\ \A p \in Keys(t) : sched'[p[1]] # None /\ occ'[p[1]][p[2]] = None
             /\ \A x \in DOMAIN tick[t].moved : sched'[x] # None
    OBVIOUS
  <2>1. \A p \in Keys(t) : p[1] \in Sched /\ p[2] \in Slot /\ sched[p[1]] # None /\ occ[p[1]][p[2]] = None
    BY UsedSchedules
  <2>2. \A x \in DOMAIN tick[t].moved : x \in Sched /\ sched[x] # None
    BY UsedSchedules
  <2> QED BY <1>2, <1>4, <2>1, <2>2
<1>9. tick' = tick /\ \A x \in Sched, y \in Slot : occ[x][y] # None => occ'[x][y] # None
  BY <1>2, <1>3, <1>4
<1> QED BY <1>5, <1>6, <1>7, <1>8, <1>9, TablesStep

---------------------------------------------------------------------------
(* The theorems. *)

LEMMA ScheduleInitInv == ASSUME Init PROVE ScheduleInv
<1>1. PICK on, off \in SUBSET Sched :
        sched = [s \in Sched |-> IF s \in on THEN NewRow(s, 0)
                                 ELSE IF s \in off THEN [NewRow(s, 0) EXCEPT !.enabled = FALSE]
                                 ELSE None]
  BY DEF Init
<1>2. \A s \in Sched : \/ sched[s] = None
                       \/ sched[s] \in Row /\ sched[s].next >= 1 /\ sched[s].last = None
  <2> SUFFICES ASSUME NEW s \in Sched
      PROVE  sched[s] = None \/ (sched[s] \in Row /\ sched[s].next >= 1 /\ sched[s].last = None)
    OBVIOUS
  <2>1. 0 \in Time
    BY ScheduleAssumption DEF Time
  <2> DEFINE row == NewRow(s, 0)
  <2>2. row \in Row /\ row.next >= 1 /\ row.last = None
    BY <2>1, NewRowOK
  <2>3. sched[s] \in {None, row, [row EXCEPT !.enabled = FALSE]}
    BY <1>1
  <2> HIDE DEF row
  <2> QED BY <2>2, <2>3 DEF Row
<1>3. TablesOK
  BY <1>1, <1>2, ScheduleAssumption DEF Init, TablesOK, Time
<1>4. SlotsOK /\ AdvanceLeavesRow
  BY <1>2 DEF SlotsOK, AdvanceLeavesRow
<1>5. MadeHasRow
  BY DEF Init, MadeHasRow
<1>6. DOMAIN tick = Ticker /\ \A t \in Ticker : tick[t] = Idle
  BY DEF Init
<1>7. \A t \in Ticker : TickOK(t) /\ Keys(t) = {}
  BY <1>6 DEF TickOK, Idle, TodoOK, DueOK, RowsOK, MovedOK, Keys, Fields
<1>8. RowsApart
  BY <1>7 DEF RowsApart
<1> QED BY <1>3, <1>4, <1>5, <1>6, <1>7, <1>8 DEF ScheduleInv

LEMMA ScheduleStep == ScheduleInv /\ [Next]_vars => ScheduleInv'
<1> SUFFICES ASSUME ScheduleInv, [Next]_vars PROVE ScheduleInv'
  OBVIOUS
<1>1. ASSUME NEW t \in Ticker, Begin(t) \/ Finish(t) \/ Victim(t) \/ Crash(t) PROVE ScheduleInv'
  BY <1>1, BeginKeeps, FinishKeeps, AbortKeeps, CrashKeeps DEF Victim
<1>2. ASSUME NEW t \in Ticker, NEW s \in Sched, Handle(t, s) \/ Commit(t, s) PROVE ScheduleInv'
  BY <1>2, HandleKeeps, PassiveKeeps
<1>3. ASSUME NEW s \in Sched, Create(s) \/ Delete(s) \/ (\E b \in BOOLEAN : Update(s, b))
      PROVE  ScheduleInv'
  BY <1>3, CreateKeeps, DeleteKeeps, UpdateKeeps
<1>4. ASSUME NEW s \in Sched, NEW d \in Slot, Approve(s, d) \/ Deny(s, d) \/ End(s, d)
      PROVE  ScheduleInv'
  <2>1. occ[s][d] \in Occurrence \cup {None}
    BY DEF ScheduleInv, TablesOK
  <2>2. CASE Approve(s, d) \/ Deny(s, d)
    <3>1. PICK o \in Occurrence : SetOccurrence(s, d, o) /\ occ[s][d] # None
      BY <2>2 DEF Approve, Deny, Occurrence
    <3> QED BY <3>1, OccurrenceKeeps
  <2>3. CASE End(s, d)
    <3>1. occ[s][d] # None /\ SetOccurrence(s, d, [occ[s][d] EXCEPT !.exec = "ENDED"])
      BY <2>3 DEF End, ExecLive
    <3>2. [occ[s][d] EXCEPT !.exec = "ENDED"] \in Occurrence
      BY <2>1, <3>1 DEF Occurrence
    <3> QED BY <3>1, <3>2, OccurrenceKeeps
  <2> QED BY <1>4, <2>2, <2>3
<1>5. CASE Pass
  <2>1. tick' = tick /\ UNCHANGED <<sched, occ, made, crashes, edits>> /\ now' \in Time
    BY <1>5, ScheduleAssumption DEF Pass, ScheduleInv, TablesOK, Time
  <2>2. TablesOK' /\ MadeHasRow' /\ SlotsOK' /\ AdvanceLeavesRow'
    BY <2>1 DEF ScheduleInv, TablesOK, MadeHasRow, SlotsOK, AdvanceLeavesRow
  <2>3. \A t \in Ticker : /\ \A p \in Keys(t) : sched'[p[1]] # None /\ occ'[p[1]][p[2]] = None
                          /\ \A x \in DOMAIN tick[t].moved : sched'[x] # None
    BY <2>1, UsedSchedules
  <2> QED BY <2>1, <2>2, <2>3, TablesStep
<1>6. CASE UNCHANGED vars
  <2>1. tick' = tick /\ UNCHANGED <<now, sched, occ, made, crashes, edits>>
    BY <1>6 DEF vars
  <2>2. TablesOK' /\ MadeHasRow' /\ SlotsOK' /\ AdvanceLeavesRow'
    BY <2>1 DEF ScheduleInv, TablesOK, MadeHasRow, SlotsOK, AdvanceLeavesRow
  <2>3. \A t \in Ticker : /\ \A p \in Keys(t) : sched'[p[1]] # None /\ occ'[p[1]][p[2]] = None
                          /\ \A x \in DOMAIN tick[t].moved : sched'[x] # None
    BY <2>1, UsedSchedules
  <2> QED BY <2>1, <2>2, <2>3, TablesStep
<1> QED BY <1>1, <1>2, <1>3, <1>4, <1>5, <1>6 DEF Next

\* The inductive invariant of the scheduler, for any schedules, intervals and number of
\* ticks that run at once.
THEOREM ScheduleInvariance == Spec => []ScheduleInv
<1> QED BY ScheduleInitInv, ScheduleStep, PTL DEF Spec

\* Every variable of Schedule keeps its type.
THEOREM ScheduleTypeCorrect == Spec => []TypeOK
<1>1. ScheduleInv => TypeOK
  BY DEF ScheduleInv, TablesOK, TickOK, TodoOK, TypeOK
<1> QED BY <1>1, ScheduleInvariance, PTL

\* tick (schedule_service.py:95-103): no slot of a schedule is executed twice.
THEOREM SlotsRunOnce == Spec => []OneExecutionPerSlot
<1>1. ScheduleInv => OneExecutionPerSlot
  BY DEF ScheduleInv, TablesOK, MadeHasRow, OneExecutionPerSlot
<1> QED BY <1>1, ScheduleInvariance, PTL

\* tick (schedule_service.py:187-191): a schedule is never moved past a slot without a row.
THEOREM NoSlotIsPassedOver == Spec => []AdvanceLeavesRow
<1>1. ScheduleInv => AdvanceLeavesRow
  BY DEF ScheduleInv
<1> QED BY <1>1, ScheduleInvariance, PTL

=============================================================================
