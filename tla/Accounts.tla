------------------------------ MODULE Accounts ------------------------------
(***************************************************************************)
(* Accounts and sessions: the first-run setup, the login and the logout    *)
(* (src/src/vahub/web/auth.py), a person's own password and what admins do *)
(* to accounts (src/src/vahub/web/users.py), the tables users and sessions *)
(* (src/src/vahub/storage/store.py), and the commands that change the same *)
(* database from another process (src/src/vahub/cli/user.py).              *)
(*                                                                         *)
(* A request is a task; an action is the code from one await to the next.  *)
(* Hashing and verifying run in a thread, so other requests run meanwhile. *)
(* The changes of admins are serialised by one lock; logins, a change of   *)
(* one's own password and the command line do not take it.                 *)
(***************************************************************************)
EXTENDS Naturals, FiniteSets

CONSTANTS
  Names,        (* the usernames                                           *)
  Passwords,    (* the passwords that are long enough                      *)
  MaxSessions,  (* bound on the sessions that are issued                   *)
  Tasks,        (* requests and commands under way at once                 *)
  NoOne,        (* no account, no task; a password that is nobody's        *)
  Limit,        (* failures for a name before the throttle locks it        *)
  MaxOps        (* bound on the requests and commands                      *)

ASSUME AccountsAssumption ==
  /\ NoOne \notin Names \cup Tasks \cup Passwords
  /\ Passwords # {}
  /\ IsFiniteSet(Tasks)
  /\ Limit \in Nat \ {0}
  /\ MaxSessions \in Nat /\ MaxOps \in Nat

(* Session tokens, each issued once.  They are drawn at random; here they  *)
(* are numbered as they are issued.                                        *)
Sids == 1..MaxSessions

VARIABLES
  users,      (* users[u]: its row; role "none" when there is none          *)
  sessions,   (* sessions[s]: whose session it is, NoOne when no row        *)
  fails,      (* fails[u]: recent failures in the login throttle            *)
  lock,       (* the task that holds the lock of the routes for admins      *)
  task,       (* task[t]: the place of the task and its locals              *)
  ops,        (* how many requests and commands there have been             *)
  issued,     (* history: whom each token was ever issued to                *)
  revoked,    (* history: the tokens issued to an account before a change   *)
              (* of it that ends sessions was reported done                 *)
  claims,     (* history: how often the first-run setup made an account     *)
  bypassed    (* history: did the command line demote, disable or remove    *)

vars == <<users, sessions, fails, lock, task, ops, issued, revoked, claims, bypassed>>
history == <<issued, revoked, claims, bypassed>>

NoUser == [role |-> "none", on |-> FALSE, pw |-> NoOne, weak |-> FALSE]
User(r, p) == [role |-> r, on |-> TRUE, pw |-> p, weak |-> FALSE]

Kinds == {"create", "reset", "role", "enable", "disable", "remove", "own"}

(* Where a task can be.  "claim": hashed, about to insert the first user;  *)
(* "verify": the password is being verified; "rehash", "issue": a login    *)
(* that succeeded; "lock": waiting for the lock; "write", "drop": before   *)
(* the statements of a change of an account.                               *)
Places == {"idle", "claim", "verify", "rehash", "issue", "lock", "write", "drop"}

Idle == [at |-> "idle", kind |-> "none", user |-> NoOne, pw |-> NoOne,
         role |-> "none", seen |-> NoUser, cli |-> FALSE]

Exists(u) == users[u].role # "none"
Admin(u) == users[u].role = "admin" /\ users[u].on      (* count_admins     *)
LastAdminWouldGo(u) == \A v \in Names \ {u} : ~Admin(v)

(* session_identity: the role is the account's, now; an account that is    *)
(* disabled or gone has no sessions that resolve.                          *)
Resolves(s) == sessions[s] # NoOne /\ Exists(sessions[s]) /\ users[sessions[s]].on

Live(u) == {s \in Sids : sessions[s] = u}
Issued(u) == {s \in Sids : issued[s] = u}
Without(u) == [s \in Sids |-> IF sessions[s] = u THEN NoOne ELSE sessions[s]]

Goto(t, p) == task' = [task EXCEPT ![t].at = p]
Done(t) == task' = [task EXCEPT ![t] = Idle]
Start(t, r) ==
  /\ task[t] = Idle
  /\ ops < MaxOps
  /\ ops' = ops + 1
  /\ task' = [task EXCEPT ![t] = r]

(* A new hub, or the database of an earlier run: an account with a hash of *)
(* weaker parameters than today's, others of any role, everybody signed in.*)
Init ==
  /\ \/ /\ users = [u \in Names |-> NoUser]
        /\ sessions = [s \in Sids |-> NoOne]
     \/ \E a \in Names, p \in Passwords, r \in [Names -> {"admin", "user"}] :
          /\ users = [u \in Names |-> [User(r[u], p) EXCEPT !.weak = (u = a)]]
          /\ r[a] = "admin"
          /\ sessions \in [Sids -> Names \cup {NoOne}]
          /\ \A u \in Names : Cardinality(Live(u)) = 1
          /\ \A s \in Sids : sessions[s] # NoOne => s <= Cardinality(Names)
  /\ fails = [u \in Names |-> 0]
  /\ lock = NoOne
  /\ task = [t \in Tasks |-> Idle]
  /\ ops = 0
  /\ issued = sessions
  /\ revoked = {}
  /\ claims = 0
  /\ bypassed = FALSE

-----------------------------------------------------------------------------
(* First run: count_users, hash, create_first_user.                        *)

Setup(t, u, p) ==
  /\ \A v \in Names : ~Exists(v)
  /\ Start(t, [Idle EXCEPT !.at = "claim", !.kind = "setup", !.user = u, !.pw = p])
  /\ UNCHANGED <<users, sessions, fails, lock, history>>

ClaimWhen(t, free) ==
  /\ task[t].at = "claim"
  /\ IF free THEN /\ users' = [users EXCEPT ![task[t].user] = User("admin", task[t].pw)]
                  /\ claims' = claims + 1
                  /\ Goto(t, "issue")
             ELSE Done(t) /\ UNCHANGED <<users, claims>>
  /\ UNCHANGED <<sessions, fails, lock, ops, issued, revoked, bypassed>>

(* Mutant of Claim: the INSERT has no WHERE NOT EXISTS; two first visitors *)
(* of different names both get their row.                                  *)
ClaimBlindly(t) == ClaimWhen(t, ~Exists(task[t].user))

Claim(t) == ClaimWhen(t, \A v \in Names : ~Exists(v))

-----------------------------------------------------------------------------
(* The login: throttle, get_user, verify in a thread, then the session.    *)

LoginWithin(t, u, p, limit) ==
  /\ fails[u] < limit
  /\ Start(t, [Idle EXCEPT !.at = "verify", !.kind = "login", !.user = u,
                           !.pw = p, !.seen = users[u]])
  /\ UNCHANGED <<users, sessions, fails, lock, history>>

(* Mutant of Login: locked after the limit, not at it.                     *)
LoginOnceMore(t, u, p) == LoginWithin(t, u, p, Limit + 1)

Login(t, u, p) == LoginWithin(t, u, p, Limit)

(* An account that does not exist is verified against a hash that matches  *)
(* nothing.                                                                *)
Verified(t) ==
  LET l == task[t] IN
  /\ l.at = "verify" /\ l.kind = "login"
  /\ IF l.seen.role # "none" /\ l.seen.on /\ l.seen.pw = l.pw
       THEN /\ fails' = [fails EXCEPT ![l.user] = 0]
            /\ Goto(t, IF l.seen.weak THEN "rehash" ELSE "issue")
       ELSE /\ fails' = [fails EXCEPT ![l.user] = @ + 1]
            /\ Done(t)
  /\ UNCHANGED <<users, sessions, lock, ops, history>>

SetPassword(u, p) ==
  users' = IF Exists(u) THEN [users EXCEPT ![u].pw = p, ![u].weak = FALSE] ELSE users

(* The password that was verified is hashed and stored again.              *)
Rehash(t) ==
  /\ task[t].at = "rehash"
  /\ SetPassword(task[t].user, task[t].pw)
  /\ Goto(t, "issue")
  /\ UNCHANGED <<sessions, fails, lock, ops, history>>

Issue(t) ==
  /\ task[t].at = "issue"
  /\ \E s \in Sids :
       /\ issued[s] = NoOne /\ \A i \in 1..(s - 1) : issued[i] # NoOne
       /\ sessions' = [sessions EXCEPT ![s] = task[t].user]
       /\ issued' = [issued EXCEPT ![s] = task[t].user]
  /\ Done(t)
  /\ UNCHANGED <<users, fails, lock, ops, revoked, claims, bypassed>>

(* A logout, or a session whose time is up: its row counts no more.        *)
SessionEnds(s) ==
  /\ sessions[s] # NoOne
  /\ sessions' = [sessions EXCEPT ![s] = NoOne]
  /\ UNCHANGED <<users, fails, lock, task, ops, history>>

Ages(u, least) ==
  /\ fails[u] >= least
  /\ fails' = [fails EXCEPT ![u] = @ - 1]
  /\ UNCHANGED <<users, sessions, lock, task, ops, history>>

(* Mutant of FailureAges: a name without failures is aged too.             *)
FailureAgesUnder(u) == Ages(u, 0)

(* The oldest failure leaves the window of the throttle.                   *)
FailureAges(u) == Ages(u, 1)

-----------------------------------------------------------------------------
(* One's own password: the current one is verified, the new one hashed,    *)
(* both in threads.  A session token is all a request carries.             *)

ChangeOwn(t, s, old, new) ==
  /\ Resolves(s)
  /\ Start(t, [Idle EXCEPT !.at = "verify", !.kind = "own", !.user = sessions[s],
                           !.pw = new, !.seen = users[sessions[s]]])
  /\ users[sessions[s]].pw = old
  /\ UNCHANGED <<users, sessions, fails, lock, history>>

OwnVerified(t) ==
  /\ task[t].at = "verify" /\ task[t].kind = "own"
  /\ Goto(t, "write")
  /\ UNCHANGED <<users, sessions, fails, lock, ops, history>>

-----------------------------------------------------------------------------
(* What an admin does to an account, and the same from the command line.   *)

(* What the request says: a password to set, a role to give, or neither.   *)
Says(k, p, r) ==
  /\ p # NoOne <=> k \in {"create", "reset"}
  /\ r # "none" <=> k \in {"create", "role"}

(* The role of the caller is read once, here; nobody demotes, disables,    *)
(* removes or resets themselves.  The new password is hashed in a thread.  *)
Request(t, s, k, u, p, r) ==
  /\ Says(k, p, r)
  /\ Resolves(s) /\ users[sessions[s]].role = "admin"
  /\ k \in {"create", "enable"} \/ (k = "role" /\ r = "admin") \/ sessions[s] # u
  /\ Start(t, [Idle EXCEPT !.at = "lock", !.kind = k, !.user = u, !.pw = p,
                           !.role = r])
  /\ UNCHANGED <<users, sessions, fails, lock, history>>

TakesAdmin(k, r) == k \in {"disable", "remove"} \/ (k = "role" /\ r # "admin")

(* Under the lock: does the account exist, and would the last admin go?    *)
LockedBy(t, holder) ==
  LET l == task[t]
      fine == IF l.kind = "create" THEN ~Exists(l.user)
              ELSE /\ Exists(l.user)
                   /\ TakesAdmin(l.kind, l.role) => ~LastAdminWouldGo(l.user)
  IN  /\ l.at = "lock" /\ lock = NoOne
      /\ IF fine THEN lock' = holder /\ Goto(t, "write")
                 ELSE Done(t) /\ UNCHANGED lock
      /\ UNCHANGED <<users, sessions, fails, ops, history>>

(* Mutant of Locked: the check is not made under the lock.                 *)
LockedNot(t) == LockedBy(t, NoOne)

Locked(t) == LockedBy(t, t)

(* `vahub user`: no session, no lock; it looks at the tables and decides.  *)
(* The first account is an admin whatever was asked.                       *)
Command(t, k, u, p, r) ==
  /\ Says(k, p, r)
  /\ k \in {"create", "role"} => (Exists(u) <=> k # "create")
  /\ Start(t, [Idle EXCEPT !.at = "write", !.kind = k, !.user = u, !.pw = p,
                           !.cli = TRUE,
                           !.role = IF k = "create" /\ \A v \in Names : ~Exists(v)
                                      THEN "admin" ELSE r])
  /\ UNCHANGED <<users, sessions, fails, lock, history>>

Release(t) == lock' = IF lock = t THEN NoOne ELSE lock

(* The first statement of a change.  It may find that the account is gone, *)
(* or, for a new one, that it is there.                                    *)
Write(t) ==
  LET l == task[t]
      u == l.user
      more == l.kind \in {"reset", "disable", "remove", "own"}
      missed == ~Exists(u) /\ l.kind \in {"reset", "enable", "disable"}
  IN  /\ l.at = "write"
      /\ \/ /\ l.kind = "create"
            /\ users' = IF Exists(u) THEN users ELSE [users EXCEPT ![u] = User(l.role, l.pw)]
            /\ UNCHANGED sessions
         \/ /\ l.kind = "role"
            /\ users' = IF Exists(u) THEN [users EXCEPT ![u].role = l.role] ELSE users
            /\ UNCHANGED sessions
         \/ /\ l.kind \in {"enable", "disable"}
            /\ users' = IF Exists(u) THEN [users EXCEPT ![u].on = (l.kind = "enable")] ELSE users
            /\ UNCHANGED sessions
         \/ l.kind \in {"reset", "own"} /\ SetPassword(u, l.pw) /\ UNCHANGED sessions
         \/ l.kind = "remove" /\ sessions' = Without(u) /\ UNCHANGED users
      /\ bypassed' = (bypassed \/ (l.cli /\ TakesAdmin(l.kind, l.role)))
      /\ IF more /\ ~missed THEN Goto(t, "drop") /\ UNCHANGED lock
                            ELSE Done(t) /\ Release(t)
      /\ UNCHANGED <<fails, ops, issued, revoked, claims>>

(* The second statement, and the answer: the sessions of the account are   *)
(* deleted, or, when it is removed, its row.  A person who changed their   *)
(* own password is given a new session.                                    *)
Reported(t, gone) ==
  LET l == task[t]
      u == l.user
  IN  /\ l.at = "drop"
      /\ IF l.kind = "remove" THEN users' = [users EXCEPT ![u] = NoUser] /\ UNCHANGED sessions
                              ELSE sessions' = gone /\ UNCHANGED users
      /\ revoked' = IF l.kind = "remove" THEN revoked ELSE revoked \cup Issued(u)
      /\ IF l.kind = "own" THEN Goto(t, "issue") ELSE Done(t)
      /\ Release(t)
      /\ UNCHANGED <<fails, ops, issued, claims, bypassed>>

(* Mutant of Drop: one session of the account is overlooked.               *)
DropOne(t) == Reported(t, IF Live(task[t].user) = {} THEN sessions
                          ELSE [sessions EXCEPT ![CHOOSE s \in Live(task[t].user) : TRUE] = NoOne])

Drop(t) == Reported(t, Without(task[t].user))

(* The statement a task waits for raises, its hub dies, or the command is  *)
(* interrupted: what was written stays written.                            *)
Abandon(t) ==
  /\ task[t] # Idle
  /\ Done(t)
  /\ Release(t)
  /\ UNCHANGED <<users, sessions, fails, ops, history>>

-----------------------------------------------------------------------------
Arrives(t) ==
  \/ \E u \in Names, p \in Passwords : Setup(t, u, p)
  \/ \E u \in Names, p \in Passwords \cup {NoOne} : Login(t, u, p)
  \/ \E s \in Sids, p, q \in Passwords : ChangeOwn(t, s, p, q)
  \/ \E k \in Kinds \ {"own"}, u \in Names, p \in Passwords \cup {NoOne},
        r \in {"admin", "user", "none"} :
       (\E s \in Sids : Request(t, s, k, u, p, r)) \/ Command(t, k, u, p, r)

Continues(t) ==
  \/ Claim(t) \/ Verified(t) \/ Rehash(t) \/ Issue(t) \/ OwnVerified(t)
  \/ Locked(t) \/ Write(t) \/ Drop(t) \/ Abandon(t)

Next ==
  \/ \E t \in Tasks : Arrives(t) \/ Continues(t)
  \/ \E s \in Sids : SessionEnds(s)
  \/ \E u \in Names : FailureAges(u)

Spec == Init /\ [][Next]_vars

-----------------------------------------------------------------------------
(* Properties.                                                             *)

Rows == [role : {"none", "user", "admin"}, on : BOOLEAN,
         pw : Passwords \cup {NoOne}, weak : BOOLEAN]
Locals == [at : Places, kind : Kinds \cup {"none", "setup", "login"},
           user : Names \cup {NoOne}, pw : Passwords \cup {NoOne},
           role : {"none", "user", "admin"}, seen : Rows, cli : BOOLEAN]

(* Every variable has its type.                                            *)
TypeOK ==
  /\ users \in [Names -> Rows]
  /\ sessions \in [Sids -> Names \cup {NoOne}]
  /\ fails \in [Names -> Nat]
  /\ lock \in Tasks \cup {NoOne}
  /\ task \in [Tasks -> Locals]
  /\ ops \in 0..MaxOps
  /\ issued \in [Sids -> Names \cup {NoOne}]
  /\ revoked \in SUBSET Sids
  /\ claims \in Nat
  /\ bypassed \in BOOLEAN

(* The web never leaves the hub without an admin who can sign in: not by   *)
(* two admins who act on one another at once, and not by one whose role is *)
(* gone before the change is made.  Only the command line may.             *)
AdminRemains ==
  (\E u \in Names : Exists(u)) /\ ~bypassed => \E u \in Names : Admin(u)

(* Two first visitors cannot both claim the hub.                           *)
OneOwner == claims <= 1 \/ bypassed

(* A reset, a change of one's own password or a disable that was reported  *)
(* done has ended every session the account had till then, also those      *)
(* issued while it was under way, and for good: they do not come back when *)
(* the account is enabled again.                                           *)
RevokedStaysGone == \A s \in revoked : sessions[s] = NoOne

(* Logins for one name that overlap get past the throttle together, but no *)
(* more of them than there are requests under way.                         *)
ThrottleHolds == \A u \in Names : fails[u] < Limit + Cardinality(Tasks)

=============================================================================
