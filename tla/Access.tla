------------------------------- MODULE Access -------------------------------
(***************************************************************************)
(* Accounts and web sessions (api/auth.py, deps.py, admin.py): first-run     *)
(* setup, login, the check every request passes, and the requests that end   *)
(* sessions or change accounts.                                             *)
(*                                                                         *)
(* A request is two transactions.  The first is the check of its session,    *)
(* whose last_seen_at it writes; the second is its handler, which executes   *)
(* its statements and commits later.  Requests overlap, and a request keeps  *)
(* the account rows its check has loaded.                                    *)
(*                                                                         *)
(* A password is not modelled: a login is one with the right password, and   *)
(* what a change of password does to sessions is what matters.  Both limits  *)
(* of a session make it elapsed.  Handlers that touch no account and no      *)
(* session end with their check.                                            *)
(* Bad... operators are seeded faults.                                       *)
(***************************************************************************)
EXTENDS Naturals, FiniteSets

CONSTANTS
    User,       \* bound: account rows
    Sess,       \* bound: session rows
    Client,     \* bound: requests served at once
    NoUser, NoSess, NoTx

VARIABLES
    account,    \* users
    sess,       \* sessions
    tx,         \* the open requests
    ended       \* history: the sessions that a committed request was to end

vars == <<account, sess, tx, ended>>

Account == [role : {"ADMINISTRATOR", "SCANNER"}, active : BOOLEAN]

SessionRecord == [user : User, revoked : BOOLEAN, age : {"recent", "elapsed"}]

AdminOps == {"create", "reset", "enable", "disable"}

Opening == [op : {"setup", "login"}, u : User]
Checked == [op : AdminOps \cup {"change", "logout"}, s : Sess, u : User, there : SUBSET Sess]
Handled == [op : AdminOps \cup {"change", "logout"}, s : Sess, u : User, there : SUBSET Sess,
            revokes : SUBSET Sess, writes : BOOLEAN]

ASSUME NoneAssumption ==
    /\ NoUser \notin Account /\ NoSess \notin SessionRecord
    /\ NoTx \notin Opening \cup Checked \cup Handled

TypeOK ==
    /\ account \in [User -> Account \cup {NoUser}]
    /\ sess \in [Sess -> SessionRecord \cup {NoSess}]
    /\ tx \in [Client -> Opening \cup Checked \cup Handled \cup {NoTx}]
    /\ ended \subseteq Sess

Init ==
    /\ account = [u \in User |-> NoUser]
    /\ sess = [s \in Sess |-> NoSess]
    /\ tx = [c \in Client |-> NoTx]
    /\ ended = {}

Active(u) == account[u] # NoUser /\ account[u].active

ActiveAdmins == {u \in User : Active(u) /\ account[u].role = "ADMINISTRATOR"}

SessionsOf(u) == {s \in Sess : sess[s] # NoSess /\ sess[s].user = u}

BadRevoked(S) == [s \in Sess |-> IF s \in S THEN [sess[s] EXCEPT !.age = "revoked"] ELSE sess[s]]

\* The UPDATE of sessions, and of no other column
Revoked(S) == [s \in Sess |-> IF s \in S THEN [sess[s] EXCEPT !.revoked = TRUE] ELSE sess[s]]

\* The row of a login; without a free one the bound is reached.
Opened(u) == {[sess EXCEPT ![s] = [user |-> u, revoked |-> FALSE, age |-> "recent"]] :
                 s \in {x \in Sess : sess[x] = NoSess}}

---------------------------------------------------------------------------
(* Setup and login. *)

\* first_run_setup finds no account.
Setup(c, u) ==
    /\ tx[c] = NoTx /\ \A v \in User : account[v] = NoUser
    /\ tx' = [tx EXCEPT ![c] = [op |-> "setup", u |-> u]]
    /\ UNCHANGED <<account, sess, ended>>

CommitSetup(c) ==
    /\ tx[c] # NoTx /\ tx[c].op = "setup"
    /\ LET u == tx[c].u
       IN  /\ account[u] = NoUser
           /\ account' = [account EXCEPT ![u] = [role |-> "ADMINISTRATOR", active |-> TRUE]]
           /\ sess' \in Opened(u)
    /\ tx' = [tx EXCEPT ![c] = NoTx]
    /\ UNCHANGED ended

\* login finds the account active and the password right.
Login(c, u) ==
    /\ tx[c] = NoTx /\ Active(u)
    /\ tx' = [tx EXCEPT ![c] = [op |-> "login", u |-> u]]
    /\ UNCHANGED <<account, sess, ended>>

CommitLogin(c) ==
    /\ tx[c] # NoTx /\ tx[c].op = "login"
    /\ sess' \in Opened(tx[c].u)
    /\ tx' = [tx EXCEPT ![c] = NoTx]
    /\ UNCHANGED <<account, ended>>

---------------------------------------------------------------------------
(* get_current_session *)

Usable(s) ==
    /\ sess[s] # NoSess /\ ~sess[s].revoked /\ sess[s].age # "elapsed"
    /\ Active(sess[s].user)

\* The session is found good; `there' are the sessions the request is about, as it arrives.
Check(c, s, op, u) ==
    /\ tx[c] = NoTx /\ Usable(s)
    /\ op \in AdminOps => account[sess[s].user].role = "ADMINISTRATOR"
    /\ op \in {"change", "logout"} => u = sess[s].user
    /\ tx' = [tx EXCEPT ![c] =
          [op |-> op, s |-> s, u |-> u,
           there |-> CASE op \in {"reset", "disable"} -> SessionsOf(u)
                       [] op = "change" -> SessionsOf(u) \ {s}
                       [] op = "logout" -> {s}
                       [] OTHER -> {}]]
    /\ UNCHANGED <<account, sess, ended>>

\* It has outlived a limit, or its account is disabled: the check revokes it.
Refuse(s) ==
    /\ sess[s] # NoSess /\ ~sess[s].revoked
    /\ sess[s].age = "elapsed" \/ ~Active(sess[s].user)
    /\ sess' = Revoked({s})
    /\ ended' = ended \cup {s}
    /\ UNCHANGED <<account, tx>>

---------------------------------------------------------------------------
(* The handlers. *)

\* The sessions a handler revokes, as its UPDATE finds them.
Revokes(op, s, u) ==
    CASE op \in {"reset", "disable"} -> {x \in SessionsOf(u) : ~sess[x].revoked}
      [] op = "change" -> {x \in SessionsOf(u) : ~sess[x].revoked} \ {s}
      [] op = "logout" -> {s}
      [] OTHER -> {}

BadRefused(op, s, u) == IF op = "create" THEN account[u] # NoUser ELSE account[u] = NoUser

\* 404, 409 and 400
Refused(op, s, u) ==
    \/ op = "create" /\ account[u] # NoUser
    \/ op # "create" /\ account[u] = NoUser
    \/ op = "disable" /\ u = sess[s].user

BadTouched(s) == [sess[s] EXCEPT !.age = "recent", !.revoked = FALSE]

\* last_seen_at, and no other column
Touched(s) == [sess[s] EXCEPT !.age = "recent"]

\* The check commits, and the handler executes its statements or gives up.  An attribute
\* that has the new value already is not written.
Handle(c) ==
    /\ tx[c] # NoTx /\ tx[c] \in Checked
    /\ LET t == tx[c]
       IN  /\ sess' = [sess EXCEPT ![t.s] = Touched(t.s)]
           /\ IF Refused(t.op, t.s, t.u)
              THEN tx' = [tx EXCEPT ![c] = NoTx]
              ELSE tx' = [tx EXCEPT ![c] =
                      [op |-> t.op, s |-> t.s, u |-> t.u, there |-> t.there,
                       revokes |-> Revokes(t.op, t.s, t.u),
                       writes |-> \/ t.op = "disable" /\ account[t.u].active
                                  \/ t.op = "enable" /\ ~account[t.u].active]]
    /\ UNCHANGED <<account, ended>>

\* create_account: disabled until an administrator enables it, and refused by the
\* unique user name if another request has created it meanwhile
CommitCreate(c) ==
    /\ tx[c] # NoTx /\ tx[c] \in Handled /\ tx[c].op = "create"
    /\ \/ /\ account[tx[c].u] = NoUser
          /\ \E role \in {"ADMINISTRATOR", "SCANNER"} :
                account' = [account EXCEPT ![tx[c].u] = [role |-> role, active |-> FALSE]]
       \/ account[tx[c].u] # NoUser /\ UNCHANGED account
    /\ tx' = [tx EXCEPT ![c] = NoTx]
    /\ UNCHANGED <<sess, ended>>

\* update_account, reset_password, change_password and logout
Commit(c) ==
    /\ tx[c] # NoTx /\ tx[c] \in Handled /\ tx[c].op # "create"
    /\ LET t == tx[c]
       IN  /\ account' = IF t.writes THEN [account EXCEPT ![t.u].active = (t.op = "enable")]
                         ELSE account
           /\ sess' = Revoked(t.revokes)
           /\ ended' = ended \cup t.there
    /\ tx' = [tx EXCEPT ![c] = NoTx]

\* A request that dies, or that a constraint refuses, leaves nothing.
Rollback(c) ==
    /\ tx[c] # NoTx
    /\ tx' = [tx EXCEPT ![c] = NoTx]
    /\ UNCHANGED <<account, sess, ended>>

\* Time, which matters to a session until it is revoked: a request is far shorter than
\* the limits.
Age(s) ==
    /\ sess[s] # NoSess /\ ~sess[s].revoked
    /\ \A c \in Client : tx[c] \in Checked => tx[c].s # s
    /\ sess' = [sess EXCEPT ![s].age = "elapsed"]
    /\ UNCHANGED <<account, tx, ended>>

Next ==
    \/ \E c \in Client, u \in User : Setup(c, u) \/ Login(c, u)
    \/ \E c \in Client, s \in Sess, u \in User, op \in AdminOps \cup {"change", "logout"} : Check(c, s, op, u)
    \/ \E s \in Sess : Refuse(s) \/ Age(s)
    \/ \E c \in Client : \/ CommitSetup(c) \/ CommitLogin(c) \/ Handle(c)
                         \/ CommitCreate(c) \/ Commit(c) \/ Rollback(c)

Spec == Init /\ [][Next]_vars

---------------------------------------------------------------------------
(* Properties. *)

\* A session that was open when a logout, a reset, a disabling, another session's change
\* of password or a failed check arrived, and which that request was to end, is never
\* good again once the request has committed: not by a request that had checked it before,
\* not by an account that is enabled again (get_current_session, AUTH-04).
EndedStaysOut == \A s \in ended : ~Usable(s)

\* Administrators who do not overlap cannot lock everybody out: the step that leaves no
\* active administrator is the commit of one who has been disabled since the check of the
\* request (update_account, require_admin).
LastAdminByOverlap ==
    [][ActiveAdmins # {} /\ ActiveAdmins' = {} =>
          \E c \in Client : /\ tx[c] \in Handled /\ tx'[c] = NoTx /\ tx[c].op = "disable"
                            /\ sess[tx[c].s].user \notin ActiveAdmins]_vars

===========================================================================
