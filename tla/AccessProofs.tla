---------------------------- MODULE AccessProofs ----------------------------
(***************************************************************************)
(* Access and Scope proved for any number of accounts, sessions, requests    *)
(* and rows.  The two share no variable: each has an invariant of its own.    *)
(***************************************************************************)
EXTENDS Access, Scope, FiniteSetTheorems, SequenceTheorems, TLAPS

---------------------------------------------------------------------------
(* Access. *)

SessionOps == {"change", "logout"}

\* What a request has loaded at its check: the sessions it is about.
CheckedOK(t) ==
    /\ sess[t.s] # NoSess
    /\ t.op \in {"reset", "disable"} => t.there \subseteq SessionsOf(t.u)
    /\ t.op = "change" => t.there \subseteq SessionsOf(t.u) \ {t.s}
    /\ t.op = "logout" => t.there = {t.s}
    /\ t.op \in {"create", "enable"} => t.there = {}

\* What it has executed and not committed: of the sessions it is about it revokes all those
\* that are not, and it writes no account but the one it disables or enables, which is
\* another's when it disables it.
HandledOK(t) ==
    /\ sess[t.s] # NoSess
    /\ \A x \in t.revokes : sess[x] # NoSess
    /\ \A x \in t.there : sess[x] # NoSess /\ (x \in t.revokes \/ sess[x].revoked)
    /\ t.writes => t.op \in {"disable", "enable"} /\ account[t.u] # NoUser
    /\ t.op = "disable" => t.u # sess[t.s].user

AccessInv ==
    /\ TypeOK
    /\ \A s \in ended : sess[s] # NoSess /\ sess[s].revoked
    /\ \A c \in Client : tx[c] \in Checked => CheckedOK(tx[c])
    /\ \A c \in Client : tx[c] \in Handled => HandledOK(tx[c])

\* A step deletes no account and no session, gives no session to another account, and takes
\* back no session that is revoked.
RowsKept ==
    /\ account' \in [User -> Account \cup {NoUser}]
    /\ sess' \in [Sess -> SessionRecord \cup {NoSess}]
    /\ \A u \in User : account[u] # NoUser => account'[u] # NoUser
    /\ \A s \in Sess : sess[s] # NoSess =>
          /\ sess'[s] # NoSess /\ sess'[s].user = sess[s].user
          /\ sess[s].revoked => sess'[s].revoked

\* A request is in one of its stages.
LEMMA StagesDiffer ==
  /\ \A t \in Opening : t \notin Checked /\ t \notin Handled
  /\ \A t \in Checked : t \notin Handled
  <1>1. \A t \in Opening : DOMAIN t = {"op", "u"}
    BY DEF Opening
  <1>2. \A t \in Checked : DOMAIN t = {"op", "s", "u", "there"}
    BY DEF Checked
  <1>3. \A t \in Handled : DOMAIN t = {"op", "s", "u", "there", "revokes", "writes"}
    BY DEF Handled
  <1> QED
    BY <1>1, <1>2, <1>3

LEMMA CheckedTyped ==
  ASSUME NEW t \in Checked
  PROVE  /\ t.s \in Sess /\ t.u \in User /\ t.there \subseteq Sess
         /\ t.op \in AdminOps \cup SessionOps
  BY DEF Checked, SessionOps

LEMMA HandledTyped ==
  ASSUME NEW t \in Handled
  PROVE  /\ t.s \in Sess /\ t.u \in User /\ t.there \subseteq Sess /\ t.revokes \subseteq Sess
         /\ t.writes \in BOOLEAN /\ t.op \in AdminOps \cup SessionOps
  BY DEF Handled, SessionOps

\* What was so of the rows a request has loaded stays so.
LEMMA CheckedStays ==
  ASSUME TypeOK, RowsKept, NEW t \in Checked, CheckedOK(t)
  PROVE  CheckedOK(t)'
  <1>1. t.s \in Sess
    BY CheckedTyped
  <1>2. \A u \in User : SessionsOf(u) \subseteq SessionsOf(u)'
    BY DEF RowsKept, SessionsOf
  <1>3. t.u \in User
    BY CheckedTyped
  <1> QED
    BY <1>1, <1>2, <1>3 DEF CheckedOK, RowsKept

LEMMA HandledStays ==
  ASSUME TypeOK, RowsKept, NEW t \in Handled, HandledOK(t)
  PROVE  HandledOK(t)'
  BY HandledTyped DEF HandledOK, RowsKept

\* The UPDATE that revokes sessions.
LEMMA RevokedKeeps ==
  ASSUME TypeOK, NEW S \in SUBSET Sess, \A x \in S : sess[x] # NoSess
  PROVE  /\ Revoked(S) \in [Sess -> SessionRecord \cup {NoSess}]
         /\ \A s \in Sess : sess[s] # NoSess =>
               /\ Revoked(S)[s] # NoSess /\ Revoked(S)[s].user = sess[s].user
               /\ s \in S \/ sess[s].revoked => Revoked(S)[s].revoked
  <1>1. \A s \in Sess : sess[s] # NoSess =>
           /\ [sess[s] EXCEPT !.revoked = TRUE] \in SessionRecord
           /\ [sess[s] EXCEPT !.revoked = TRUE].user = sess[s].user
           /\ [sess[s] EXCEPT !.revoked = TRUE].revoked
    BY DEF TypeOK, SessionRecord
  <1>2. \A s \in Sess : Revoked(S)[s] = IF s \in S THEN [sess[s] EXCEPT !.revoked = TRUE] ELSE sess[s]
    BY DEF Revoked
  <1>3. Revoked(S) \in [Sess -> SessionRecord \cup {NoSess}]
    <2>1. \A s \in Sess : (IF s \in S THEN [sess[s] EXCEPT !.revoked = TRUE] ELSE sess[s])
                              \in SessionRecord \cup {NoSess}
      BY <1>1 DEF TypeOK
    <2> QED
      BY <2>1 DEF Revoked
  <1>4. ASSUME NEW s \in Sess, sess[s] # NoSess
        PROVE  /\ Revoked(S)[s] # NoSess /\ Revoked(S)[s].user = sess[s].user
               /\ s \in S \/ sess[s].revoked => Revoked(S)[s].revoked
    <2>1. CASE s \in S
      BY <1>1, <1>2, <1>4, <2>1, NoneAssumption
    <2>2. CASE s \notin S
      BY <1>2, <1>4, <2>2
    <2> QED
      BY <2>1, <2>2
  <1> QED
    BY <1>3, <1>4

\* One session has another age.
LEMMA AgeKeeps ==
  ASSUME TypeOK, NEW s \in Sess, sess[s] # NoSess, NEW age \in {"recent", "elapsed"},
         sess' = [sess EXCEPT ![s].age = age], account' = account
  PROVE  RowsKept
  <1> DEFINE new == [sess[s] EXCEPT !.age = age]
  <1>1. sess[s] \in SessionRecord
    BY DEF TypeOK
  <1>2. new \in SessionRecord /\ new.user = sess[s].user /\ new.revoked = sess[s].revoked
    BY <1>1 DEF SessionRecord
  <1>3. sess' = [sess EXCEPT ![s] = new]
    OBVIOUS
  <1> HIDE DEF new
  <1> QED
    BY <1>2, <1>3, NoneAssumption DEF TypeOK, RowsKept

\* A login's row is a new one.
LEMMA OpenedKeeps ==
  ASSUME TypeOK, NEW u \in User, sess' \in Opened(u)
  PROVE  /\ sess' \in [Sess -> SessionRecord \cup {NoSess}]
         /\ \A s \in Sess : sess[s] # NoSess => sess'[s] = sess[s]
  <1> DEFINE new == [user |-> u, revoked |-> FALSE, age |-> "recent"]
  <1>1. new \in SessionRecord
    BY DEF SessionRecord
  <1>2. PICK s \in Sess : sess[s] = NoSess /\ sess' = [sess EXCEPT ![s] = new]
    BY DEF Opened
  <1> HIDE DEF new
  <1> QED
    BY <1>1, <1>2 DEF TypeOK

\* A step that keeps the rows keeps the invariant if the requests that move on load and
\* execute what CheckedOK and HandledOK say, and if what it ends is revoked.
LEMMA AccessStep ==
  ASSUME AccessInv, RowsKept,
         tx' \in [Client -> Opening \cup Checked \cup Handled \cup {NoTx}],
         \A c \in Client : \/ tx'[c] \in {tx[c], NoTx} \cup Opening
                           \/ tx'[c] \in Checked /\ CheckedOK(tx[c])'
                           \/ tx'[c] \in Handled /\ HandledOK(tx[c])',
         ended' \subseteq Sess, \A s \in ended' : sess'[s] # NoSess /\ sess'[s].revoked
  PROVE  AccessInv'
  <1>1. TypeOK /\ TypeOK'
    BY DEF AccessInv, RowsKept, TypeOK
  <1>2. ASSUME NEW c \in Client, tx'[c] \in Checked
        PROVE  CheckedOK(tx[c])'
    <2>1. CASE tx'[c] = tx[c]
      <3>1. PICK t \in Checked : t = tx[c]
        BY <1>2, <2>1
      <3>2. CheckedOK(t)
        BY <1>2, <2>1, <3>1 DEF AccessInv
      <3>3. CheckedOK(t)'
        BY <1>1, <3>2, CheckedStays
      <3> QED
        BY <2>1, <3>1, <3>3 DEF CheckedOK, SessionsOf
    <2>2. CASE tx'[c] # tx[c]
      BY <1>2, <2>2, NoneAssumption, StagesDiffer
    <2> QED
      BY <2>1, <2>2
  <1>3. ASSUME NEW c \in Client, tx'[c] \in Handled
        PROVE  HandledOK(tx[c])'
    <2>1. CASE tx'[c] = tx[c]
      <3>1. PICK t \in Handled : t = tx[c]
        BY <1>3, <2>1
      <3>2. HandledOK(t)
        BY <1>3, <2>1, <3>1 DEF AccessInv
      <3>3. HandledOK(t)'
        BY <1>1, <3>2, HandledStays
      <3> QED
        BY <2>1, <3>1, <3>3 DEF HandledOK
    <2>2. CASE tx'[c] # tx[c]
      BY <1>3, <2>2, NoneAssumption, StagesDiffer
    <2> QED
      BY <2>1, <2>2
  <1> QED
    BY <1>1, <1>2, <1>3 DEF AccessInv

\* One request moves on, or ends.
LEMMA OneRequest ==
  ASSUME AccessInv, NEW c \in Client, NEW t \in Opening \cup Checked \cup Handled \cup {NoTx},
         tx' = [tx EXCEPT ![c] = t]
  PROVE  /\ tx' \in [Client -> Opening \cup Checked \cup Handled \cup {NoTx}]
         /\ tx'[c] = t /\ \A d \in Client : d # c => tx'[d] = tx[d]
  BY DEF AccessInv, TypeOK

\* The sessions that have ended stay revoked while the rows are kept.
LEMMA EndedKept ==
  ASSUME AccessInv, RowsKept
  PROVE  ended \subseteq Sess /\ \A s \in ended : sess'[s] # NoSess /\ sess'[s].revoked
  BY DEF AccessInv, TypeOK, RowsKept

LEMMA SameRows ==
  ASSUME TypeOK, account' = account, sess' = sess
  PROVE  RowsKept
  BY DEF TypeOK, RowsKept

LEMMA OpeningStep ==
  ASSUME AccessInv, NEW c \in Client, NEW u \in User, Setup(c, u) \/ Login(c, u)
  PROVE  AccessInv'
  <1>1. PICK t \in Opening : tx' = [tx EXCEPT ![c] = t]
    <2>1. [op |-> "setup", u |-> u] \in Opening /\ [op |-> "login", u |-> u] \in Opening
      BY DEF Opening
    <2> QED
      BY <2>1 DEF Setup, Login
  <1>2. RowsKept /\ ended' = ended
    BY SameRows DEF Setup, Login, AccessInv
  <1> QED
    BY <1>1, <1>2, OneRequest, EndedKept, AccessStep

LEMMA RollbackStep ==
  ASSUME AccessInv, NEW c \in Client, Rollback(c)
  PROVE  AccessInv'
  <1>1. tx' = [tx EXCEPT ![c] = NoTx] /\ RowsKept /\ ended' = ended
    BY SameRows DEF Rollback, AccessInv
  <1> QED
    BY <1>1, OneRequest, EndedKept, AccessStep

LEMMA CommitLoginStep ==
  ASSUME AccessInv, NEW c \in Client, CommitLogin(c) \/ CommitSetup(c)
  PROVE  AccessInv' /\ RowsKept
  <1>1. tx[c] \in Opening /\ tx[c].u \in User
    <2>1. tx[c] # NoTx /\ tx[c].op \in {"setup", "login"}
      BY DEF CommitLogin, CommitSetup
    <2>2. tx[c] \in Opening \cup Checked \cup Handled
      BY <2>1 DEF AccessInv, TypeOK
    <2>3. tx[c] \notin Checked /\ tx[c] \notin Handled
      BY <2>1, CheckedTyped, HandledTyped DEF AdminOps, SessionOps
    <2>4. tx[c] \in Opening
      BY <2>2, <2>3
    <2> QED
      BY <2>4 DEF Opening
  <1>2. /\ sess' \in [Sess -> SessionRecord \cup {NoSess}]
        /\ \A s \in Sess : sess[s] # NoSess => sess'[s] = sess[s]
    BY <1>1, OpenedKeeps DEF CommitLogin, CommitSetup, AccessInv
  <1>3. /\ account' \in [User -> Account \cup {NoUser}]
        /\ \A u \in User : account[u] # NoUser => account'[u] # NoUser
    <2> DEFINE new == [role |-> "ADMINISTRATOR", active |-> TRUE]
    <2>1. new \in Account
      BY DEF Account
    <2>2. account' \in {account, [account EXCEPT ![tx[c].u] = new]}
      BY DEF CommitLogin, CommitSetup
    <2> HIDE DEF new
    <2> QED
      BY <1>1, <2>1, <2>2, NoneAssumption DEF AccessInv, TypeOK
  <1>4. RowsKept
    BY <1>2, <1>3 DEF RowsKept
  <1>5. tx' = [tx EXCEPT ![c] = NoTx] /\ ended' = ended
    BY DEF CommitLogin, CommitSetup
  <1> QED
    BY <1>4, <1>5, OneRequest, EndedKept, AccessStep

LEMMA AgeStep ==
  ASSUME AccessInv, NEW s \in Sess, Age(s)
  PROVE  AccessInv' /\ RowsKept
  <1>1. RowsKept
    BY AgeKeeps DEF Age, AccessInv
  <1>2. tx' = tx /\ ended' = ended
    BY DEF Age
  <1>3. tx' \in [Client -> Opening \cup Checked \cup Handled \cup {NoTx}]
    BY <1>2 DEF AccessInv, TypeOK
  <1> QED
    BY <1>1, <1>2, <1>3, EndedKept, AccessStep

LEMMA RefuseStep ==
  ASSUME AccessInv, NEW s \in Sess, Refuse(s)
  PROVE  AccessInv' /\ RowsKept
  <1>1. /\ sess' \in [Sess -> SessionRecord \cup {NoSess}]
        /\ \A x \in Sess : sess[x] # NoSess =>
              /\ sess'[x] # NoSess /\ sess'[x].user = sess[x].user
              /\ x \in {s} \/ sess[x].revoked => sess'[x].revoked
    <2>1. TypeOK /\ {s} \in SUBSET Sess /\ sess[s] # NoSess /\ sess' = Revoked({s})
      BY DEF Refuse, AccessInv
    <2> QED
      BY <2>1, RevokedKeeps
  <1>2. RowsKept
    BY <1>1 DEF Refuse, AccessInv, TypeOK, RowsKept
  <1>3. tx' = tx /\ ended' = ended \cup {s} /\ sess[s] # NoSess
    BY DEF Refuse
  <1>4. tx' \in [Client -> Opening \cup Checked \cup Handled \cup {NoTx}]
    BY <1>3 DEF AccessInv, TypeOK
  <1>5. ended' \subseteq Sess /\ \A x \in ended' : sess'[x] # NoSess /\ sess'[x].revoked
    BY <1>1, <1>2, <1>3, EndedKept
  <1> QED
    BY <1>2, <1>3, <1>4, <1>5, AccessStep

LEMMA CheckStep ==
  ASSUME AccessInv, NEW c \in Client, NEW s \in Sess, NEW u \in User,
         NEW op \in AdminOps \cup SessionOps, Check(c, s, op, u)
  PROVE  AccessInv' /\ RowsKept
  <1> DEFINE there == CASE op \in {"reset", "disable"} -> SessionsOf(u)
                        [] op = "change" -> SessionsOf(u) \ {s}
                        [] op = "logout" -> {s}
                        [] OTHER -> {}
             t == [op |-> op, s |-> s, u |-> u, there |-> there]
  <1>1. RowsKept /\ ended' = ended /\ sess' = sess /\ sess[s] # NoSess
    BY SameRows DEF Check, Usable, AccessInv
  <1>2. tx' = [tx EXCEPT ![c] = t]
    BY DEF Check
  <1>3. there \subseteq Sess
    BY DEF SessionsOf
  <1>4. /\ op \in {"reset", "disable"} => there = SessionsOf(u)
        /\ op = "change" => there = SessionsOf(u) \ {s}
        /\ op = "logout" => there = {s}
        /\ op \in {"create", "enable"} => there = {}
    OBVIOUS
  <1> HIDE DEF there
  <1>5. t \in Checked /\ t.op = op /\ t.s = s /\ t.u = u /\ t.there = there
    BY <1>3 DEF Checked, SessionOps
  <1> HIDE DEF t
  <1>6. /\ tx' \in [Client -> Opening \cup Checked \cup Handled \cup {NoTx}]
        /\ tx'[c] = t /\ \A d \in Client : d # c => tx'[d] = tx[d]
    BY <1>2, <1>5, OneRequest
  <1>7. CheckedOK(tx[c])'
    BY <1>1, <1>4, <1>5, <1>6 DEF CheckedOK, SessionsOf
  <1> QED
    BY <1>1, <1>5, <1>6, <1>7, EndedKept, AccessStep

LEMMA HandleStep ==
  ASSUME AccessInv, NEW c \in Client, Handle(c)
  PROVE  AccessInv' /\ RowsKept
  <1> DEFINE t == tx[c]
             revokes == Revokes(t.op, t.s, t.u)
             writes == \/ t.op = "disable" /\ account[t.u].active
                       \/ t.op = "enable" /\ ~account[t.u].active
             new == [op |-> t.op, s |-> t.s, u |-> t.u, there |-> t.there,
                     revokes |-> revokes, writes |-> writes]
  <1>1. t \in Checked /\ CheckedOK(t)
    BY DEF Handle, AccessInv
  <1>2. /\ t.s \in Sess /\ t.u \in User /\ t.there \subseteq Sess
        /\ t.op \in AdminOps \cup SessionOps /\ sess[t.s] # NoSess
    BY <1>1, CheckedTyped DEF CheckedOK
  <1>3. RowsKept
    <2>1. sess' = [sess EXCEPT ![t.s].age = "recent"] /\ account' = account
      BY DEF Handle, Touched
    <2> QED
      BY <1>2, <2>1, AgeKeeps DEF AccessInv
  <1>4. CASE Refused(t.op, t.s, t.u)
    <2>1. tx' = [tx EXCEPT ![c] = NoTx] /\ ended' = ended
      BY <1>4 DEF Handle
    <2> QED
      BY <1>3, <2>1, OneRequest, EndedKept, AccessStep
  <1>5. CASE ~Refused(t.op, t.s, t.u)
    <2>1. tx' = [tx EXCEPT ![c] = new] /\ ended' = ended
      BY <1>5 DEF Handle
    <2>2. revokes \subseteq Sess /\ \A x \in revokes : sess[x] # NoSess
      BY <1>2 DEF Revokes, SessionsOf
    <2>3. writes \in BOOLEAN /\ (writes => t.op \in {"disable", "enable"})
      OBVIOUS
    <2>4. \A x \in t.there : sess[x] # NoSess /\ (x \in revokes \/ sess[x].revoked)
      BY <1>1, <1>2 DEF CheckedOK, Revokes, SessionsOf, AdminOps, SessionOps
    <2>5. /\ t.op \in {"disable", "enable"} => account[t.u] # NoUser
          /\ t.op = "disable" => t.u # sess[t.s].user
      BY <1>5 DEF Refused
    <2> HIDE DEF revokes, writes
    <2>6. new \in Handled /\ new.op = t.op /\ new.s = t.s /\ new.u = t.u /\ new.there = t.there
          /\ new.revokes = revokes /\ new.writes = writes
      BY <1>2, <2>2, <2>3 DEF Handled, SessionOps
    <2> HIDE DEF new
    <2>7. /\ tx' \in [Client -> Opening \cup Checked \cup Handled \cup {NoTx}]
          /\ tx'[c] = new /\ \A d \in Client : d # c => tx'[d] = tx[d]
      BY <2>1, <2>6, OneRequest
    <2>8. HandledOK(tx[c])'
      <3> DEFINE op == t.op  s == t.s  u == t.u  there == t.there
      <3>1. /\ sess'[s] # NoSess /\ sess'[s].user = sess[s].user
            /\ \A x \in revokes : sess'[x] # NoSess
            /\ account' = account
        BY <1>2, <1>3, <2>2 DEF RowsKept, Handle
      <3>2. \A x \in there : sess'[x] # NoSess /\ (x \in revokes \/ sess'[x].revoked)
        BY <1>2, <1>3, <2>4 DEF RowsKept
      <3>3. (writes => op \in {"disable", "enable"} /\ account[u] # NoUser)
            /\ (op = "disable" => u # sess[s].user)
        BY <2>3, <2>5
      <3>4. /\ tx'[c].op = op /\ tx'[c].s = s /\ tx'[c].u = u /\ tx'[c].there = there
            /\ tx'[c].revokes = revokes /\ tx'[c].writes = writes
        BY <2>6, <2>7
      <3> HIDE DEF op, s, u, there
      <3> QED
        BY <3>1, <3>2, <3>3, <3>4 DEF HandledOK
    <2> QED
      BY <1>3, <2>1, <2>6, <2>7, <2>8, EndedKept, AccessStep
  <1> QED
    BY <1>4, <1>5

LEMMA CommitCreateStep ==
  ASSUME AccessInv, NEW c \in Client, CommitCreate(c)
  PROVE  AccessInv' /\ RowsKept
  <1>1. tx[c].u \in User /\ tx' = [tx EXCEPT ![c] = NoTx] /\ sess' = sess /\ ended' = ended
    BY HandledTyped DEF CommitCreate
  <1>2. /\ account' \in [User -> Account \cup {NoUser}]
        /\ \A u \in User : account[u] # NoUser => account'[u] # NoUser
    <2>1. \A role \in {"ADMINISTRATOR", "SCANNER"} : [role |-> role, active |-> FALSE] \in Account
      BY DEF Account
    <2> QED
      BY <1>1, <2>1 DEF CommitCreate, AccessInv, TypeOK
  <1>3. RowsKept
    BY <1>1, <1>2 DEF RowsKept, AccessInv, TypeOK
  <1> QED
    BY <1>1, <1>3, OneRequest, EndedKept, AccessStep

LEMMA CommitStep ==
  ASSUME AccessInv, NEW c \in Client, Commit(c)
  PROVE  AccessInv' /\ RowsKept
  <1> DEFINE t == tx[c]
  <1>1. t \in Handled /\ HandledOK(t)
    BY DEF Commit, AccessInv
  <1>2. /\ t.u \in User /\ t.there \subseteq Sess /\ t.revokes \subseteq Sess
        /\ \A x \in t.revokes : sess[x] # NoSess
    BY <1>1, HandledTyped DEF HandledOK
  <1>3. /\ tx' = [tx EXCEPT ![c] = NoTx] /\ sess' = Revoked(t.revokes) /\ ended' = ended \cup t.there
        /\ account' = IF t.writes THEN [account EXCEPT ![t.u].active = (t.op = "enable")] ELSE account
    BY DEF Commit
  <1>4. /\ sess' \in [Sess -> SessionRecord \cup {NoSess}]
        /\ \A s \in Sess : sess[s] # NoSess =>
              /\ sess'[s] # NoSess /\ sess'[s].user = sess[s].user
              /\ s \in t.revokes \/ sess[s].revoked => sess'[s].revoked
    <2>1. TypeOK /\ t.revokes \in SUBSET Sess
      BY <1>2 DEF AccessInv
    <2> QED
      BY <1>2, <1>3, <2>1, RevokedKeeps
  <1>5. /\ account' \in [User -> Account \cup {NoUser}]
        /\ \A u \in User : account[u] # NoUser => account'[u] # NoUser
    <2>1. CASE t.writes
      <3> DEFINE on == (t.op = "enable")
                 new == [account[t.u] EXCEPT !.active = on]
      <3>1. on \in BOOLEAN
        OBVIOUS
      <3> HIDE DEF on
      <3>2. account[t.u] \in Account
        BY <1>1, <1>2, <2>1 DEF HandledOK, AccessInv, TypeOK
      <3>3. new \in Account
        BY <3>1, <3>2 DEF Account
      <3>4. account' = [account EXCEPT ![t.u] = new]
        BY <1>3, <2>1 DEF on
      <3> HIDE DEF new
      <3> QED
        BY <1>2, <3>3, <3>4, NoneAssumption DEF AccessInv, TypeOK
    <2>2. CASE ~t.writes
      BY <1>3, <2>2 DEF AccessInv, TypeOK
    <2> QED
      BY <2>1, <2>2
  <1>6. RowsKept
    BY <1>4, <1>5 DEF RowsKept
  <1>7. ended' \subseteq Sess /\ \A x \in ended' : sess'[x] # NoSess /\ sess'[x].revoked
    <2>1. \A x \in t.there : sess[x] # NoSess /\ (x \in t.revokes \/ sess[x].revoked)
      BY <1>1 DEF HandledOK
    <2> QED
      BY <1>2, <1>3, <1>4, <1>6, <2>1, EndedKept
  <1> QED
    BY <1>3, <1>6, <1>7, OneRequest, AccessStep

LEMMA AccessNextStep ==
  ASSUME AccessInv, [Next]_vars
  PROVE  AccessInv'
  <1>1. CASE UNCHANGED vars
    <2>1. RowsKept /\ tx' = tx /\ ended' = ended
      BY <1>1, SameRows DEF vars, AccessInv
    <2>2. tx' \in [Client -> Opening \cup Checked \cup Handled \cup {NoTx}]
      BY <2>1 DEF AccessInv, TypeOK
    <2> QED
      BY <2>1, <2>2, EndedKept, AccessStep
  <1> QED
    BY <1>1, OpeningStep, CheckStep, RefuseStep, AgeStep, CommitLoginStep, HandleStep,
       CommitCreateStep, CommitStep, RollbackStep DEF Next, SessionOps

LEMMA AccessInitHolds == Init => AccessInv
  BY NoneAssumption DEF Init, AccessInv, TypeOK

\* AccessInv holds in every state that requests on accounts and sessions can reach.
THEOREM AccessInvariance == Spec => []AccessInv
  BY AccessInitHolds, AccessNextStep, PTL DEF Spec

\* Accounts, sessions and open requests keep their types (models/__init__.py, deps.py).
THEOREM AccessTypeCorrect == Spec => []TypeOK
  <1>1. AccessInv => TypeOK
    BY DEF AccessInv
  <1> QED
    BY <1>1, AccessInvariance, PTL

\* A session that a committed request was to end stays out, however many requests had
\* checked it before and whatever happens to its account later (get_current_session).
THEOREM EndedForGood == Spec => []EndedStaysOut
  <1>1. AccessInv => EndedStaysOut
    BY DEF AccessInv, EndedStaysOut, Usable
  <1> QED
    BY <1>1, AccessInvariance, PTL

\* No administrator is locked out but by the commit of a request whose own administrator has
\* been disabled since its check (update_account, require_admin): the last one is safe from
\* requests that do not overlap, whatever the number of accounts.
THEOREM LastAdminIsSafe == Spec => LastAdminByOverlap
  <1> DEFINE Good == ActiveAdmins # {} /\ ActiveAdmins' = {} =>
                \E c \in Client : /\ tx[c] \in Handled /\ tx'[c] = NoTx /\ tx[c].op = "disable"
                                  /\ sess[tx[c].s].user \notin ActiveAdmins
  <1>1. ASSUME account' = account
        PROVE  Good
    BY <1>1 DEF ActiveAdmins, Active
  <1>2. ASSUME AccessInv, NEW c \in Client, CommitSetup(c)
        PROVE  Good
    <2> DEFINE u == tx[c].u
    <2>1. account[u] = NoUser /\ account' = [account EXCEPT ![u] = [role |-> "ADMINISTRATOR", active |-> TRUE]]
      BY <1>2 DEF CommitSetup
    <2>2. \A v \in User : Active(v) => account'[v] = account[v]
      BY <1>2, <2>1 DEF AccessInv, TypeOK, Active
    <2>3. ActiveAdmins \subseteq ActiveAdmins'
      BY <2>2 DEF ActiveAdmins, Active
    <2> QED
      BY <2>3
  <1>3. ASSUME AccessInv, NEW c \in Client, CommitCreate(c)
        PROVE  Good
    <2>1. \A v \in User : Active(v) => account'[v] = account[v]
      BY <1>3 DEF CommitCreate, AccessInv, TypeOK, Active
    <2>2. ActiveAdmins \subseteq ActiveAdmins'
      BY <2>1 DEF ActiveAdmins, Active
    <2> QED
      BY <2>2
  <1>4. ASSUME AccessInv, NEW c \in Client, Commit(c)
        PROVE  Good
    <2> DEFINE t == tx[c]
    <2>1. t \in Handled /\ HandledOK(t) /\ tx'[c] = NoTx
      BY <1>4 DEF Commit, AccessInv, TypeOK
    <2>2. t.u \in User /\ t.s \in Sess
      BY <2>1, HandledTyped
    <2>3. \A v \in User : v # t.u => account'[v] = account[v]
      BY <1>4, <2>2 DEF Commit, AccessInv, TypeOK
    <2>4. CASE t.writes /\ t.op = "disable"
      <3>1. t.u # sess[t.s].user
        BY <2>1, <2>4 DEF HandledOK
      <3>2. \A v \in ActiveAdmins : v # t.u => v \in ActiveAdmins'
        BY <2>3 DEF ActiveAdmins, Active
      <3> QED
        BY <2>1, <2>4, <3>1, <3>2
    <2>5. CASE t.writes /\ t.op # "disable"
      <3>1. t.op = "enable" /\ account[t.u] # NoUser
        BY <2>1, <2>5 DEF HandledOK
      <3>2. account[t.u] \in Account
        BY <1>4, <2>2, <3>1 DEF AccessInv, TypeOK
      <3>3. account' = [account EXCEPT ![t.u].active = TRUE]
        BY <1>4, <2>5, <3>1 DEF Commit
      <3>4. [account[t.u] EXCEPT !.active = TRUE] \in Account
        BY <3>2 DEF Account
      <3>5. account'[t.u] \in Account /\ account'[t.u].active /\ account'[t.u].role = account[t.u].role
        BY <1>4, <2>2, <3>2, <3>3, <3>4 DEF AccessInv, TypeOK, Account
      <3>6. ActiveAdmins \subseteq ActiveAdmins'
        BY <2>3, <3>5, NoneAssumption DEF ActiveAdmins, Active
      <3> QED
        BY <3>6
    <2>6. CASE ~t.writes
      BY <1>1, <1>4, <2>6 DEF Commit
    <2> QED
      BY <2>4, <2>5, <2>6
  <1> HIDE DEF Good
  <1>5. AccessInv /\ [Next]_vars => Good
    <2> SUFFICES ASSUME AccessInv, [Next]_vars
                 PROVE  Good
      OBVIOUS
    <2>1. ASSUME NEW c \in Client, NEW u \in User, Setup(c, u) \/ Login(c, u)
          PROVE  Good
      BY <1>1, <2>1 DEF Setup, Login
    <2>2. ASSUME NEW c \in Client, NEW s \in Sess, NEW u \in User,
                 NEW op \in AdminOps \cup {"change", "logout"}, Check(c, s, op, u)
          PROVE  Good
      BY <1>1, <2>2 DEF Check
    <2>3. ASSUME NEW s \in Sess, Refuse(s) \/ Age(s)
          PROVE  Good
      BY <1>1, <2>3 DEF Refuse, Age
    <2>4. ASSUME NEW c \in Client, CommitLogin(c) \/ Handle(c) \/ Rollback(c)
          PROVE  Good
      BY <1>1, <2>4 DEF CommitLogin, Handle, Rollback
    <2>5. CASE UNCHANGED vars
      BY <1>1, <2>5 DEF vars
    <2> QED
      BY <1>2, <1>3, <1>4, <2>1, <2>2, <2>3, <2>4, <2>5 DEF Next
  <1>6. AccessInv /\ [Next]_vars => [Good]_vars
    BY <1>5
  <1> QED
    BY <1>6, AccessInvariance, PTL DEF Spec, LastAdminByOverlap, Good

---------------------------------------------------------------------------
(* Scope. *)

\* What the tables hold passed the checks of the requests that put it there.
ScopeInv ==
    /\ private \subseteq PrivateRange
    /\ deny \subseteq DenyRule
    /\ targets \subseteq [target : Target, public : BOOLEAN, active : BOOLEAN]

\* The number of subsets of a set of n elements.
LEMMA PowerOfTwo ==
  ASSUME NEW n \in Nat
  PROVE  2^n \in Nat \ {0}
  <1> DEFINE S == 1..n
  <1>1. IsFiniteSet(S) /\ Cardinality(S) = n
    <2>1. n \in Int /\ 1 \in Int
      OBVIOUS
    <2>2. IsFiniteSet(1..n) /\ Cardinality(1..n) = IF 1 > n THEN 0 ELSE n - 1 + 1
      BY <2>1, FS_Interval
    <2> QED
      BY <2>2
  <1> HIDE DEF S
  <1>2. IsFiniteSet(SUBSET S) /\ Cardinality(SUBSET S) = 2^n
    BY <1>1, FS_SUBSET
  <1>3. Cardinality(SUBSET S) \in Nat
    BY <1>2, FS_CardinalityType
  <1>4. SUBSET S # {}
    OBVIOUS
  <1>5. Cardinality(SUBSET S) # 0
    BY <1>2, <1>4, FS_EmptySet
  <1> QED
    BY <1>2, <1>3, <1>5

\* A network has a first and a last address, and they are in it.
LEMMA HostsBounds ==
  ASSUME NEW b \in Cidr
  PROVE  /\ b.net \in Hosts(b) /\ b.net + Size(b.len) - 1 \in Hosts(b)
         /\ b.len = AddressBits => Hosts(b) = {b.net}
  <1>1. AddressBits \in Nat /\ b.net \in Nat /\ b.len \in 0..AddressBits
    <2>1. AddressBits \in Nat
      BY ScopeAssumption
    <2>2. 2^AddressBits \in Nat \ {0}
      BY <2>1, PowerOfTwo
    <2>3. b.net \in Address /\ b.len \in 0..AddressBits
      BY DEF Cidr
    <2> QED
      BY <2>1, <2>2, <2>3 DEF Address
  <1>2. AddressBits - b.len \in Nat
    BY <1>1
  <1>3. Size(b.len) \in Nat \ {0}
    BY <1>2, PowerOfTwo DEF Size
  <1>4. b.len = AddressBits => Size(b.len) = 1
    <2>1. 2^0 = 1
      OBVIOUS
    <2>2. b.len = AddressBits => AddressBits - b.len = 0
      BY <1>1
    <2> QED
      BY <2>1, <2>2 DEF Size
  <1> QED
    BY <1>1, <1>3, <1>4 DEF Hosts

LEMMA NameTyped ==
  ASSUME NEW n \in Name
  PROVE  Len(n) \in Nat /\ Len(n) > 0 /\ DOMAIN n = 1..Len(n) /\ n = [i \in 1..Len(n) |-> n[i]]
  <1> DEFINE S == {n[i] : i \in DOMAIN n}
  <1>1. n \in Seq(S) /\ n # << >>
    BY ScopeAssumption
  <1> HIDE DEF S
  <1> QED
    BY <1>1, LenProperties, EmptySeq

\* is_subdomain by the labels from the end, and by what is left of a name from some label on.
LEMMA SuffixIsBelow ==
  ASSUME NEW n \in Name, NEW above \in Name
  PROVE  IsSuffix(above, n) <=> Below(n, above)
  <1> DEFINE ln == Len(n)
             la == Len(above)
  <1>1. /\ ln \in Nat /\ la \in Nat /\ la > 0 /\ ln > 0
        /\ n = [i \in 1..ln |-> n[i]] /\ above = [i \in 1..la |-> above[i]]
        /\ DOMAIN n = 1..ln /\ DOMAIN above = 1..la
    BY NameTyped
  <1> DEFINE last == \A i \in 1..la : above[i] = n[ln - la + i]
  <1>2. Below(n, above) <=> la <= ln /\ last
    <2>1. ASSUME NEW k \in 1..ln, SubSeq(n, k, ln) = above
          PROVE  la <= ln /\ last
      <3>1. above = [i \in 1..(ln - k + 1) |-> n[k + i - 1]]
        <4> DEFINE m == ln - k + 1
        <4>1. m \in Nat /\ k \in Nat
          BY <1>1
        <4>2. SubSeq(n, k, ln) = [i \in 1..m |-> n[k + i - 1]]
          BY <1>1, <4>1
        <4> QED
          BY <2>1, <4>2
      <3>2. 1..la = 1..(ln - k + 1)
        <4> DEFINE m == ln - k + 1
                   f == [i \in 1..m |-> n[k + i - 1]]
        <4>1. DOMAIN f = 1..m
          OBVIOUS
        <4>2. above = f
          BY <3>1
        <4> HIDE DEF f
        <4> QED
          BY <1>1, <4>1, <4>2
      <3>3. la = ln - k + 1
        BY <1>1, <3>2
      <3>4. \A i \in 1..la : above[i] = n[k + i - 1] /\ k + i - 1 = ln - la + i
        BY <1>1, <3>1, <3>3
      <3> QED
        BY <1>1, <3>3, <3>4
    <2>2. ASSUME la <= ln, last
          PROVE  \E k \in 1..ln : SubSeq(n, k, ln) = above
      <3> DEFINE k == ln - la + 1
      <3>1. k \in 1..ln /\ ln - k + 1 = la
        BY <1>1, <2>2
      <3>2. SubSeq(n, k, ln) = [i \in 1..la |-> n[k + i - 1]]
        BY <1>1, <3>1
      <3>3. \A i \in 1..la : n[k + i - 1] = above[i]
        BY <1>1, <2>2
      <3>4. [i \in 1..la |-> n[k + i - 1]] = [i \in 1..la |-> above[i]]
        BY <3>3
      <3> QED
        BY <1>1, <3>1, <3>2, <3>4
    <2> QED
      BY <2>1, <2>2 DEF Below
  <1>3. IsSuffix(above, n) <=> la <= ln /\ last
    <2> DEFINE ra == Reverse(above)
               rn == Reverse(n)
    <2>1. /\ ra = [i \in 1..la |-> above[la - i + 1]] /\ rn = [i \in 1..ln |-> n[ln - i + 1]]
          /\ Len(ra) = la /\ Len(rn) = ln
      BY <1>1 DEF Reverse
    <2>2. IsSuffix(above, n) <=> la <= ln /\ SubSeq(ra, 1, la) = SubSeq(rn, 1, la)
      BY <2>1 DEF IsSuffix, IsPrefix
    <2>3. SubSeq(ra, 1, la) = [i \in 1..la |-> above[la - i + 1]]
      BY <1>1, <2>1
    <2>4. la <= ln => SubSeq(rn, 1, la) = [i \in 1..la |-> n[ln - i + 1]]
      BY <1>1, <2>1
    <2>5. [i \in 1..la |-> above[la - i + 1]] = [i \in 1..la |-> n[ln - i + 1]]
             <=> \A i \in 1..la : above[la - i + 1] = n[ln - i + 1]
      OBVIOUS
    <2>6. (\A i \in 1..la : above[la - i + 1] = n[ln - i + 1]) <=> last
      <3>1. ASSUME \A i \in 1..la : above[la - i + 1] = n[ln - i + 1], NEW j \in 1..la
            PROVE  above[j] = n[ln - la + j]
        <4>1. la - j + 1 \in 1..la /\ la - (la - j + 1) + 1 = j /\ ln - (la - j + 1) + 1 = ln - la + j
          BY <1>1
        <4> QED
          BY <3>1, <4>1
      <3>2. ASSUME last, NEW i \in 1..la
            PROVE  above[la - i + 1] = n[ln - i + 1]
        <4>1. la - i + 1 \in 1..la /\ ln - la + (la - i + 1) = ln - i + 1
          BY <1>1
        <4> QED
          BY <3>2, <4>1
      <3> QED
        BY <3>1, <3>2
    <2> HIDE DEF last
    <2> QED
      BY <2>2, <2>3, <2>4, <2>5, <2>6
  <1> QED
    BY <1>2, <1>3

\* What an active scan of t sends to that is allowed.
LEMMA AllowedIsSound ==
  ASSUME ScopeInv, NEW t \in Target, NEW resolved \in Resolutions(t), Allowed(t, resolved)
  PROVE  /\ Reach(t, resolved) # {}
         /\ \/ Reach(t, resolved) \subseteq Approved
            \/ t.kind = "DOMAIN" /\ BelowApproved(t.name)
         /\ t.kind = "CIDR" => Reach(t, {}) \subseteq UNION {Hosts(b) : b \in PrivateBlocks}
         /\ \A r \in deny :
               /\ t.kind = "DOMAIN" => t.name \notin RuleNames(r)
               /\ t.kind # "CIDR" => Reach(t, resolved) \cap RuleAddresses(r) = {}
               /\ t.kind = "CIDR" => RuleAddresses(r) \cap
                     {t.net.net, t.net.net + Size(t.net.len) - 1} = {}
  <1>1. \/ t.kind = "IPV4" /\ t.net \in Single
        \/ t.kind = "CIDR" /\ t.net \in Cidr
        \/ t.kind = "DOMAIN" /\ t.name \in HostName
    BY DEF Target
  <1>2. \A b \in Boundaries : \/ b.kind = "DOMAIN" /\ b.name \in Name
                              \/ b.kind \in {"IPV4", "CIDR"}
    <2>1. Boundaries \subseteq Target
      BY DEF Boundaries, ScopeInv
    <2>2. \A b \in Target : \/ b.kind = "DOMAIN" /\ b.name \in HostName
                            \/ b.kind \in {"IPV4", "CIDR"}
      BY DEF Target
    <2> QED
      BY <2>1, <2>2 DEF HostName
  <1>3. \A b \in Boundaries : b.kind \in {"IPV4", "CIDR"} => Hosts(b.net) \subseteq Approved
    BY DEF Approved, Reach
  <1>4. \A a : WithinAnyCidr(a, private) => a \in Approved
    BY DEF WithinAnyCidr, Approved
  <1>5. CASE t.kind = "DOMAIN"
    <2>1. Reach(t, resolved) = resolved /\ resolved # {} /\ t.name \in HostName /\ t.name \in Name
      BY <1>1, <1>5 DEF Reach, Allowed, HostName
    <2>2. resolved \subseteq Approved \/ BelowApproved(t.name)
      <3> SUFFICES ASSUME ~BelowApproved(t.name), NEW a \in resolved
                   PROVE  a \in Approved
        OBVIOUS
      <3>1. WithinAnyCidr(a, private) \/ WithinPublicBoundary(t, a, Boundaries)
        BY <1>5 DEF Allowed
      <3>2. ASSUME WithinPublicBoundary(t, a, Boundaries)
            PROVE  a \in Approved
        <4>1. PICK b \in Boundaries : \/ b.kind = "DOMAIN" /\ IsSuffix(b.name, t.name)
                                      \/ b.kind \in {"IPV4", "CIDR"} /\ a \in Hosts(b.net)
          BY <3>2 DEF WithinPublicBoundary
        <4>2. CASE b.kind = "DOMAIN" /\ IsSuffix(b.name, t.name)
          BY <1>2, <2>1, <4>2, SuffixIsBelow DEF BelowApproved
        <4>3. CASE b.kind \in {"IPV4", "CIDR"} /\ a \in Hosts(b.net)
          BY <1>3, <4>3
        <4> QED
          BY <4>1, <4>2, <4>3
      <3> QED
        BY <1>4, <3>1, <3>2
    <2>3. ASSUME NEW r \in deny
          PROVE  t.name \notin RuleNames(r) /\ resolved \cap RuleAddresses(r) = {}
      <3>1. ~DomainDenied(t.name, deny) /\ \A a \in resolved : ~IpDenied(a, deny)
        BY <1>5 DEF Allowed, Denied
      <3>2. r.type = "DOMAIN_SUFFIX" => r.name \in Name
        BY DEF ScopeInv, DenyRule
      <3>3. t.name \notin RuleNames(r)
        BY <2>1, <3>1, <3>2, SuffixIsBelow DEF DomainDenied, RuleNames
      <3>4. resolved \cap RuleAddresses(r) = {}
        BY <3>1 DEF IpDenied, RuleAddresses
      <3> QED
        BY <3>3, <3>4
    <2> QED
      BY <1>5, <2>1, <2>2, <2>3
  <1>6. ASSUME t.kind \in {"IPV4", "CIDR"}, NEW r \in deny
        PROVE  RuleAddresses(r) \cap LiteralIps(t) = {}
    <2>1. \A a \in LiteralIps(t) : ~IpDenied(a, deny)
      BY DEF Allowed, Denied
    <2> QED
      BY <2>1 DEF IpDenied, RuleAddresses
  <1>7. t.kind \in {"IPV4", "CIDR"} =>
           /\ Reach(t, resolved) = Hosts(t.net) /\ Reach(t, {}) = Hosts(t.net)
           /\ LiteralIps(t) = {t.net.net, t.net.net + Size(t.net.len) - 1}
    BY DEF Reach, LiteralIps
  <1>8. CASE t.kind = "CIDR"
    <2>1. PICK c \in private : Hosts(t.net) \subseteq Hosts(c)
      BY <1>8 DEF Allowed, Contained
    <2>2. Hosts(t.net) \subseteq Approved
      BY <2>1 DEF Approved
    <2>3. Hosts(t.net) \subseteq UNION {Hosts(b) : b \in PrivateBlocks}
      BY <2>1 DEF ScopeInv, PrivateRange
    <2>4. Hosts(t.net) # {}
      BY <1>1, <1>8, HostsBounds
    <2> QED
      BY <1>6, <1>7, <1>8, <2>2, <2>3, <2>4
  <1>9. CASE t.kind = "IPV4"
    <2>1. Hosts(t.net) = {t.net.net} /\ t.net.net \in LiteralIps(t)
      BY <1>1, <1>7, <1>9, HostsBounds DEF Single
    <2>2. t.net.net \in Approved
      <3>1. WithinAnyCidr(t.net.net, private) \/ WithinPublicBoundary(t, t.net.net, Boundaries)
        BY <1>9, <2>1 DEF Allowed
      <3>2. WithinPublicBoundary(t, t.net.net, Boundaries) => t.net.net \in Approved
        BY <1>3, <1>9 DEF WithinPublicBoundary
      <3> QED
        BY <1>4, <3>1, <3>2
    <2> QED
      BY <1>6, <1>7, <1>9, <2>1, <2>2
  <1> QED
    BY <1>1, <1>5, <1>8, <1>9

LEMMA ScopeStep ==
  ASSUME ScopeInv, [ScopeNext]_scopeVars
  PROVE  ScopeInv'
  <1>1. ASSUME NEW c \in PrivateRange, AddPrivateCidr(c) \/ RemovePrivateCidr(c)
        PROVE  ScopeInv'
    BY <1>1 DEF AddPrivateCidr, RemovePrivateCidr, ScopeInv
  <1>2. ASSUME NEW r \in DenyRule, AddDenyRule(r) \/ RemoveDenyRule(r)
        PROVE  ScopeInv'
    BY <1>2 DEF AddDenyRule, RemoveDenyRule, ScopeInv
  <1>3. ASSUME NEW t \in Target, NEW public \in BOOLEAN, CreateTarget(t, public)
        PROVE  ScopeInv'
    <2> DEFINE row == [target |-> t, public |-> public, active |-> TRUE]
    <2>1. row \in [target : Target, public : BOOLEAN, active : BOOLEAN]
      OBVIOUS
    <2>2. targets' = targets \cup {row} /\ private' = private /\ deny' = deny
      BY <1>3 DEF CreateTarget
    <2> HIDE DEF row
    <2> QED
      BY <2>1, <2>2 DEF ScopeInv
  <1>4. ASSUME NEW x \in targets, ArchiveTarget(x) \/ DeleteTarget(x)
        PROVE  ScopeInv'
    BY <1>4 DEF ArchiveTarget, DeleteTarget, ScopeInv
  <1>5. CASE UNCHANGED scopeVars
    BY <1>5 DEF scopeVars, ScopeInv
  <1> QED
    BY <1>1, <1>2, <1>3, <1>4, <1>5 DEF ScopeNext

LEMMA ScopeInitHolds == ScopeInit => ScopeInv
  BY BuiltinAssumption DEF ScopeInit, ScopeInv

\* The tables hold what add_private_cidr, _normalise_deny_value and canonicalize_target let in.
THEOREM ScopeInvariance == ScopeSpec => []ScopeInv
  BY ScopeInitHolds, ScopeStep, PTL DEF ScopeSpec

\* Whatever the addresses' width, the names and the number of rows, a scan that
\* evaluate_active_scope allows stays within what is approved and clear of every deny rule.
THEOREM ScansStayInScope == ScopeSpec => []ScopeSound
  <1>1. ScopeInv => ScopeSound
    BY AllowedIsSound DEF ScopeSound
  <1> QED
    BY <1>1, ScopeInvariance, PTL

=============================================================================
