--------------------------- MODULE AccountsProofs ---------------------------
(***************************************************************************)
(* What Accounts promises, for any number of names, sessions, requests and *)
(* commands.                                                               *)
(***************************************************************************)
EXTENDS Accounts, FiniteSetTheorems, TLAPS

SomeoneExists == \E u \in Names : Exists(u)
SomeAdmin == \E u \in Names : Admin(u)
OtherAdmin(u) == \E v \in Names \ {u} : Admin(v)

(* What is known, while a task waits, of what it has looked at.  A change  *)
(* of the web that takes an admin away holds the lock and leaves another   *)
(* admin; an account that is no admin is made only where one exists.       *)
Pending(t) ==
  LET l == task[t]
      takes == l.at \in {"write", "drop"} /\ TakesAdmin(l.kind, l.role)
  IN  /\ l.at \in {"lock", "write"} /\ l.kind = "create" /\ l.role # "admin"
           => SomeoneExists
      /\ takes /\ ~l.cli => lock = t /\ OtherAdmin(l.user)
      /\ takes /\ l.cli => l.at = "write"

AdminInv ==
  ~bypassed => /\ SomeoneExists => SomeAdmin
               /\ claims # 0 => SomeoneExists
               /\ claims <= 1
               /\ \A t \in Tasks : Pending(t)

TaskInv == \A t \in Tasks : task[t].at # "idle" => task[t].user \in Names

SessionInv ==
  \A s \in Sids : /\ sessions[s] # NoOne => issued[s] = sessions[s]
                  /\ s \in revoked => sessions[s] = NoOne /\ issued[s] # NoOne

(* The logins that have passed the throttle and have no outcome yet.       *)
Verifying(u) ==
  {t \in Tasks : task[t].at = "verify" /\ task[t].kind = "login" /\ task[t].user = u}

ThrottleInv ==
  \A u \in Names : fails[u] + Cardinality(Verifying(u)) < Limit + Cardinality(Tasks)

IInv == TypeOK /\ AdminInv /\ TaskInv /\ SessionInv /\ ThrottleInv

-----------------------------------------------------------------------------
(* Types.                                                                  *)

LEMMA IdleType == Idle \in Locals
  BY DEF Idle, Locals, Places, Kinds, NoUser, Rows

(* What the three ways of moving a task do to the tasks.                   *)
LEMMA GotoTask ==
  ASSUME task \in [Tasks -> Locals], NEW t \in Tasks, NEW p \in Places, Goto(t, p)
  PROVE  /\ task' \in [Tasks -> Locals]
         /\ task'[t] = [task[t] EXCEPT !.at = p]
         /\ \A q \in Tasks \ {t} : task'[q] = task[q]
<1>1. [task[t] EXCEPT !.at = p] \in Locals
  BY DEF Locals
<1> QED
  BY <1>1 DEF Goto

LEMMA DoneTask ==
  ASSUME task \in [Tasks -> Locals], NEW t \in Tasks, Done(t)
  PROVE  /\ task' \in [Tasks -> Locals]
         /\ task'[t] = Idle
         /\ \A q \in Tasks \ {t} : task'[q] = task[q]
  BY IdleType DEF Done

LEMMA StartTask ==
  ASSUME task \in [Tasks -> Locals], NEW t \in Tasks, NEW l \in Locals, Start(t, l)
  PROVE  /\ task' \in [Tasks -> Locals]
         /\ task'[t] = l /\ task[t] = Idle
         /\ \A q \in Tasks \ {t} : task'[q] = task[q]
  BY DEF Start

-----------------------------------------------------------------------------
LEMMA UserTypes == \A p \in Passwords \cup {NoOne}, r \in {"none", "user", "admin"} :
                     User(r, p) \in Rows
  BY DEF User, Rows

LEMMA InitTypes == Init => TypeOK
<1> SUFFICES ASSUME Init PROVE TypeOK
  OBVIOUS
<1>1. NoUser \in Rows
  BY DEF NoUser, Rows
<1>2. users \in [Names -> Rows] /\ sessions \in [Sids -> Names \cup {NoOne}]
  <2>1. CASE /\ users = [u \in Names |-> NoUser]
             /\ sessions = [s \in Sids |-> NoOne]
    BY <1>1, <2>1
  <2>2. CASE \E a \in Names, p \in Passwords, r \in [Names -> {"admin", "user"}] :
               /\ users = [u \in Names |-> [User(r[u], p) EXCEPT !.weak = (u = a)]]
               /\ sessions \in [Sids -> Names \cup {NoOne}]
    <3>1. PICK a \in Names, p \in Passwords, r \in [Names -> {"admin", "user"}] :
               /\ users = [u \in Names |-> [User(r[u], p) EXCEPT !.weak = (u = a)]]
               /\ sessions \in [Sids -> Names \cup {NoOne}]
      BY <2>2
    <3>2. \A u \in Names : [User(r[u], p) EXCEPT !.weak = (u = a)] \in Rows
      BY DEF User, Rows
    <3> QED
      BY <3>1, <3>2
  <2> QED
    BY <2>1, <2>2 DEF Init
<1>3. /\ fails = [u \in Names |-> 0] /\ lock = NoOne /\ task = [t \in Tasks |-> Idle]
      /\ ops = 0 /\ issued = sessions /\ revoked = {} /\ claims = 0 /\ bypassed = FALSE
  BY DEF Init
<1>4. task \in [Tasks -> Locals]
  BY <1>3, IdleType
<1>5. ops \in 0..MaxOps
  BY <1>3, AccountsAssumption
<1>6. fails \in [Names -> Nat] /\ claims \in Nat /\ revoked \in SUBSET Sids /\ bypassed \in BOOLEAN
  BY <1>3
<1> QED
  BY <1>2, <1>3, <1>4, <1>5, <1>6 DEF TypeOK

(* A request or command that arrives has its locals from the caller.       *)
LEMMA ArrivalTypes ==
  ASSUME TypeOK, NEW t \in Tasks, Arrives(t)
  PROVE  \E l \in Locals : Start(t, l) /\ l.user \in Names
<1> DEFINE Goal == \E l \in Locals : Start(t, l) /\ l.user \in Names
<1>0. users \in [Names -> Rows] /\ sessions \in [Sids -> Names \cup {NoOne}] /\ NoUser \in Rows
  BY DEF TypeOK, NoUser, Rows
<1>4. ASSUME NEW u \in Names, NEW p \in Passwords \cup {NoOne},
             Setup(t, u, p) \/ Login(t, u, p)
      PROVE  Goal
  <2> DEFINE c == [Idle EXCEPT !.at = "claim", !.kind = "setup", !.user = u, !.pw = p]
             v == [Idle EXCEPT !.at = "verify", !.kind = "login", !.user = u, !.pw = p,
                               !.seen = users[u]]
  <2>1. c \in Locals /\ v \in Locals /\ c.user = u /\ v.user = u
    BY <1>0 DEF Idle, Locals, Places
  <2>2. Start(t, c) \/ Start(t, v)
    BY <1>4 DEF Setup, Login, LoginWithin
  <2> QED
    BY <2>1, <2>2
<1>5. ASSUME NEW s \in Sids, NEW p \in Passwords, NEW q \in Passwords,
             ChangeOwn(t, s, p, q)
      PROVE  Goal
  <2> DEFINE v == [Idle EXCEPT !.at = "verify", !.kind = "own", !.user = sessions[s],
                               !.pw = q, !.seen = users[sessions[s]]]
  <2>1. sessions[s] \in Names
    BY <1>0, <1>5 DEF ChangeOwn, Resolves
  <2>2. v \in Locals /\ v.user = sessions[s]
    BY <1>0, <2>1 DEF Idle, Locals, Places, Kinds
  <2>3. Start(t, v)
    BY <1>5 DEF ChangeOwn
  <2> QED
    BY <2>1, <2>2, <2>3
<1>6. ASSUME NEW k \in Kinds, NEW u \in Names, NEW p \in Passwords \cup {NoOne},
             NEW r \in {"admin", "user", "none"}, NEW s \in Sids, Request(t, s, k, u, p, r)
      PROVE  Goal
  <2> DEFINE v == [Idle EXCEPT !.at = "lock", !.kind = k, !.user = u, !.pw = p, !.role = r]
  <2>1. v \in Locals /\ v.user = u
    BY <1>0 DEF Idle, Locals, Places
  <2>2. Start(t, v)
    BY <1>6 DEF Request
  <2> QED
    BY <2>1, <2>2
<1>7. ASSUME NEW k \in Kinds, NEW u \in Names, NEW p \in Passwords \cup {NoOne},
             NEW r \in {"admin", "user", "none"}, Command(t, k, u, p, r)
      PROVE  Goal
  <2> DEFINE given == IF k = "create" /\ \A v \in Names : ~Exists(v) THEN "admin" ELSE r
             c == [Idle EXCEPT !.at = "write", !.kind = k, !.user = u, !.pw = p,
                               !.cli = TRUE, !.role = given]
  <2>1. given \in {"admin", "user", "none"}
    OBVIOUS
  <2> HIDE DEF given
  <2>2. c \in Locals /\ c.user = u
    BY <1>0, <2>1 DEF Idle, Locals, Places
  <2>3. Start(t, c)
    BY <1>7 DEF Command, given
  <2> QED
    BY <2>2, <2>3
<1>8. CASE \E u \in Names, p \in Passwords : Setup(t, u, p)
  BY <1>8, <1>4
<1>9. CASE \E u \in Names, p \in Passwords \cup {NoOne} : Login(t, u, p)
  BY <1>9, <1>4
<1>10. CASE \E s \in Sids, p, q \in Passwords : ChangeOwn(t, s, p, q)
  BY <1>10, <1>5
<1>11. CASE \E k \in Kinds \ {"own"}, u \in Names, p \in Passwords \cup {NoOne},
              r \in {"admin", "user", "none"} :
             (\E s \in Sids : Request(t, s, k, u, p, r)) \/ Command(t, k, u, p, r)
  <2>1. PICK k \in Kinds, u \in Names, p \in Passwords \cup {NoOne},
             r \in {"admin", "user", "none"} :
               (\E s \in Sids : Request(t, s, k, u, p, r)) \/ Command(t, k, u, p, r)
    BY <1>11
  <2>2. CASE \E s \in Sids : Request(t, s, k, u, p, r)
    BY <2>2, <1>6
  <2>3. CASE Command(t, k, u, p, r)
    BY <2>3, <1>7
  <2> QED
    BY <2>1, <2>2, <2>3
<1> QED
  BY <1>8, <1>9, <1>10, <1>11 DEF Arrives

(* The tasks, the users and the rest of the variables are typed apart.     *)
LEMMA TaskStep ==
  ASSUME TypeOK, [Next]_vars
  PROVE  task' \in [Tasks -> Locals] /\ ops' \in 0..MaxOps
<1> USE DEF TypeOK
<1>0. /\ task \in [Tasks -> Locals] /\ ops \in 0..MaxOps /\ MaxOps \in Nat
      /\ {"claim", "verify", "rehash", "issue", "lock", "write", "drop"} \subseteq Places
  BY AccountsAssumption DEF Places
<1>1. ASSUME NEW t \in Tasks, Continues(t)
      PROVE  ops' = ops /\ (Done(t) \/ \E p \in Places : Goto(t, p))
  BY <1>0, <1>1 DEF Continues, Claim, ClaimWhen, Verified, Rehash, Issue, OwnVerified, Locked, LockedBy,
       Write, Drop, Reported, Abandon
<1>2. ASSUME NEW t \in Tasks, Continues(t)
      PROVE  task' \in [Tasks -> Locals] /\ ops' \in 0..MaxOps
  BY <1>0, <1>1, <1>2, DoneTask, GotoTask
<1>3. ASSUME NEW t \in Tasks, NEW l \in Locals, Start(t, l)
      PROVE  task' \in [Tasks -> Locals] /\ ops' \in 0..MaxOps
  BY <1>0, <1>3, StartTask DEF Start
<1>8. ASSUME (\E s \in Sids : SessionEnds(s)) \/ (\E u \in Names : FailureAges(u)) \/ UNCHANGED vars
      PROVE  task' \in [Tasks -> Locals] /\ ops' \in 0..MaxOps
  BY <1>0, <1>8 DEF SessionEnds, FailureAges, Ages, vars
<1>9. ASSUME NEW t \in Tasks, Arrives(t)
      PROVE  \E l \in Locals : Start(t, l)
  BY <1>9, ArrivalTypes
<1> QED
  BY <1>2, <1>3, <1>8, <1>9 DEF Next

LEMMA SetPasswordType ==
  ASSUME users \in [Names -> Rows], NEW u, NEW p \in Passwords \cup {NoOne}, SetPassword(u, p)
  PROVE  users' \in [Names -> Rows]
  BY DEF SetPassword, Rows

LEMMA WriteTypes ==
  ASSUME TypeOK, NEW t \in Tasks, Write(t)
  PROVE  users' \in [Names -> Rows] /\ sessions' \in [Sids -> Names \cup {NoOne}]
<1> DEFINE l == task[t]
<1>1. /\ l.pw \in Passwords \cup {NoOne} /\ l.role \in {"none", "user", "admin"}
      /\ users \in [Names -> Rows] /\ sessions \in [Sids -> Names \cup {NoOne}]
  BY DEF TypeOK, Locals
<1>2. Without(l.user) \in [Sids -> Names \cup {NoOne}]
  BY <1>1 DEF Without
<1>3. CASE l.kind = "create"
  <2>1. User(l.role, l.pw) \in Rows
    BY <1>1, UserTypes
  <2>2. UNCHANGED sessions /\ users' \in {users, [users EXCEPT ![l.user] = User(l.role, l.pw)]}
    BY <1>3 DEF Write
  <2> QED
    BY <1>1, <2>1, <2>2
<1>4. CASE l.kind = "role"
  <2>1. UNCHANGED sessions /\ users' \in {users, [users EXCEPT ![l.user].role = l.role]}
    BY <1>4 DEF Write
  <2> QED
    BY <1>1, <2>1 DEF Rows
<1>5. CASE l.kind \in {"enable", "disable"}
  <2>1. UNCHANGED sessions /\ \E b \in BOOLEAN : users' \in {users, [users EXCEPT ![l.user].on = b]}
    <3>1. (l.kind = "enable") \in BOOLEAN
      OBVIOUS
    <3>2. \/ users' = users
          \/ users' = [users EXCEPT ![l.user].on = (l.kind = "enable")]
      BY <1>5 DEF Write
    <3> QED
      BY <1>5, <3>1, <3>2 DEF Write
  <2> QED
    BY <1>1, <2>1 DEF Rows
<1>6. CASE l.kind \in {"reset", "own"}
  <2>1. UNCHANGED sessions /\ SetPassword(l.user, l.pw)
    BY <1>6 DEF Write
  <2> QED
    BY <1>1, <2>1, SetPasswordType
<1>7. CASE l.kind = "remove"
  BY <1>1, <1>2, <1>7 DEF Write
<1>8. l.kind \in {"create", "role", "enable", "disable", "reset", "own", "remove"}
  BY DEF Write
<1> QED
  BY <1>3, <1>4, <1>5, <1>6, <1>7, <1>8

LEMMA NextTypes == TypeOK /\ [Next]_vars => TypeOK'
<1> SUFFICES ASSUME TypeOK, [Next]_vars PROVE TypeOK'
  OBVIOUS
<1>0. /\ users \in [Names -> Rows] /\ sessions \in [Sids -> Names \cup {NoOne}]
      /\ fails \in [Names -> Nat] /\ lock \in Tasks \cup {NoOne}
      /\ issued \in [Sids -> Names \cup {NoOne}] /\ revoked \in SUBSET Sids
      /\ claims \in Nat /\ bypassed \in BOOLEAN
      /\ \A t \in Tasks : task[t].user \in Names \cup {NoOne} /\ task[t].pw \in Passwords \cup {NoOne}
  BY DEF TypeOK, Locals
<1> DEFINE Rest == /\ users' \in [Names -> Rows] /\ sessions' \in [Sids -> Names \cup {NoOne}]
                   /\ fails' \in [Names -> Nat] /\ lock' \in Tasks \cup {NoOne}
                   /\ issued' \in [Sids -> Names \cup {NoOne}] /\ revoked' \in SUBSET Sids
                   /\ claims' \in Nat /\ bypassed' \in BOOLEAN
<1>1. ASSUME NEW t \in Tasks, NEW u \in Names, NEW p \in Passwords \cup {NoOne},
             Setup(t, u, p) \/ Login(t, u, p)
      PROVE  Rest
  BY <1>0, <1>1 DEF Setup, Login, LoginWithin, history
<1>2. ASSUME NEW t \in Tasks, NEW s \in Sids, NEW p \in Passwords, NEW q \in Passwords,
             ChangeOwn(t, s, p, q)
      PROVE  Rest
  BY <1>0, <1>2 DEF ChangeOwn, history
<1>3. ASSUME NEW t \in Tasks, NEW k, NEW u, NEW p, NEW r, NEW s,
             Request(t, s, k, u, p, r) \/ Command(t, k, u, p, r)
      PROVE  Rest
  BY <1>0, <1>3 DEF Request, Command, history
<1>4. ASSUME NEW t \in Tasks, Arrives(t)
      PROVE  Rest
  <2>1. CASE \E u \in Names, p \in Passwords \cup {NoOne} : Setup(t, u, p) \/ Login(t, u, p)
    BY <2>1, <1>1
  <2>2. CASE \E s \in Sids, p, q \in Passwords : ChangeOwn(t, s, p, q)
    BY <2>2, <1>2
  <2>3. CASE \E k, u, p, r, s : Request(t, s, k, u, p, r) \/ Command(t, k, u, p, r)
    BY <2>3, <1>3
  <2> QED
    BY <1>4, <2>1, <2>2, <2>3 DEF Arrives
<1>5. ASSUME NEW t \in Tasks, Claim(t)
      PROVE  Rest
  <2>1. User("admin", task[t].pw) \in Rows
    BY <1>0, UserTypes
  <2> QED
    BY <1>0, <1>5, <2>1 DEF Claim, ClaimWhen
<1>6. ASSUME NEW t \in Tasks, Verified(t) \/ OwnVerified(t)
      PROVE  Rest
  BY <1>0, <1>6 DEF Verified, OwnVerified, history
<1>7. ASSUME NEW t \in Tasks, Rehash(t)
      PROVE  Rest
  BY <1>0, <1>7, SetPasswordType DEF Rehash, history
<1>8. ASSUME NEW t \in Tasks, Issue(t)
      PROVE  Rest
  BY <1>0, <1>8 DEF Issue
<1>9. ASSUME NEW t \in Tasks, Locked(t) \/ Abandon(t)
      PROVE  Rest
  BY <1>0, <1>9 DEF Locked, LockedBy, Abandon, Release, history
<1>10. ASSUME NEW t \in Tasks, Write(t)
       PROVE  Rest
  <2>1. bypassed' \in BOOLEAN
    BY <1>0, <1>10 DEF Write
  <2>2. lock' \in Tasks \cup {NoOne} /\ UNCHANGED <<fails, issued, revoked, claims>>
    BY <1>0, <1>10 DEF Write, Release
  <2> QED
    BY <1>0, <1>10, <2>1, <2>2, WriteTypes
<1>11. ASSUME NEW t \in Tasks, Drop(t)
       PROVE  Rest
  <2>1. Without(task[t].user) \in [Sids -> Names \cup {NoOne}] /\ NoUser \in Rows
    BY <1>0 DEF Without, NoUser, Rows
  <2>2. Issued(task[t].user) \subseteq Sids
    BY DEF Issued
  <2> QED
    BY <1>0, <1>11, <2>1, <2>2 DEF Drop, Reported, Release
<1>12. ASSUME (\E s \in Sids : SessionEnds(s)) \/ UNCHANGED vars
       PROVE  Rest
  BY <1>0, <1>12 DEF SessionEnds, vars, history
<1>13. ASSUME NEW u \in Names, FailureAges(u)
       PROVE  Rest
  BY <1>0, <1>13 DEF FailureAges, Ages, history
<1>14. Rest
  BY <1>4, <1>5, <1>6, <1>7, <1>8, <1>9, <1>10, <1>11, <1>12, <1>13 DEF Next, Continues
<1> QED
  BY <1>14, TaskStep DEF TypeOK

-----------------------------------------------------------------------------
(* Whom a task is about, and the sessions.                                 *)

LEMMA TaskUsers == TypeOK /\ TaskInv /\ [Next]_vars => TaskInv'
<1> SUFFICES ASSUME TypeOK, TaskInv, [Next]_vars PROVE TaskInv'
  OBVIOUS
<1>0. task \in [Tasks -> Locals]
  BY DEF TypeOK
<1>1. ASSUME NEW t \in Tasks, Continues(t)
      PROVE  TaskInv'
  <2>1. CASE Done(t)
    BY <1>0, <2>1, DoneTask DEF TaskInv, Idle
  <2>2. CASE task[t].at # "idle" /\ \E p \in Places : Goto(t, p)
    <3>1. PICK p \in Places : Goto(t, p)
      BY <2>2
    <3>2. task'[t].user = task[t].user /\ \A q \in Tasks \ {t} : task'[q] = task[q]
      BY <1>0, <3>1, GotoTask DEF Locals
    <3> QED
      BY <2>2, <3>2 DEF TaskInv
  <2>3. {"claim", "verify", "rehash", "issue", "lock", "write", "drop"} \subseteq Places
    BY DEF Places
  <2> QED
    BY <1>1, <2>1, <2>2, <2>3 DEF Continues, Claim, ClaimWhen, Verified, Rehash, Issue,
       OwnVerified, Locked, LockedBy, Write, Drop, Reported, Abandon
<1>2. ASSUME NEW t \in Tasks, NEW l \in Locals, Start(t, l), l.user \in Names
      PROVE  TaskInv'
  BY <1>0, <1>2, StartTask DEF TaskInv
<1>3. ASSUME NEW t \in Tasks, Arrives(t)
      PROVE  \E l \in Locals : Start(t, l) /\ l.user \in Names
  BY <1>3, ArrivalTypes
<1>4. CASE (\E s \in Sids : SessionEnds(s)) \/ (\E u \in Names : FailureAges(u)) \/ UNCHANGED vars
  BY <1>4 DEF SessionEnds, FailureAges, Ages, vars, TaskInv
<1> QED
  BY <1>1, <1>2, <1>3, <1>4 DEF Next

(* The actions that do not touch the sessions and their history.           *)
LEMMA QuietSessions ==
  ASSUME NEW t \in Tasks, Arrives(t) \/ Claim(t) \/ Verified(t) \/ Rehash(t) \/ OwnVerified(t)
                          \/ Locked(t) \/ Abandon(t)
  PROVE  UNCHANGED <<sessions, issued, revoked>>
<1>1. CASE Arrives(t)
  <2>1. CASE \E u \in Names, p \in Passwords \cup {NoOne} : Setup(t, u, p) \/ Login(t, u, p)
    BY <2>1 DEF Setup, Login, LoginWithin, history
  <2>2. CASE \E s \in Sids, p, q \in Passwords : ChangeOwn(t, s, p, q)
    BY <2>2 DEF ChangeOwn, history
  <2>3. CASE \E k, u, p, r, s : Request(t, s, k, u, p, r) \/ Command(t, k, u, p, r)
    BY <2>3 DEF Request, Command, history
  <2> QED
    BY <1>1, <2>1, <2>2, <2>3 DEF Arrives
<1>2. CASE Claim(t) \/ Verified(t) \/ Rehash(t) \/ OwnVerified(t) \/ Locked(t) \/ Abandon(t)
  BY <1>2 DEF Claim, ClaimWhen, Verified, Rehash, OwnVerified, Locked, LockedBy, Abandon, history
<1> QED
  BY <1>1, <1>2

LEMMA SessionsStep == TypeOK /\ TaskInv /\ SessionInv /\ [Next]_vars => SessionInv'
<1> SUFFICES ASSUME TypeOK, TaskInv, SessionInv, [Next]_vars PROVE SessionInv'
  OBVIOUS
<1>0. /\ sessions \in [Sids -> Names \cup {NoOne}] /\ issued \in [Sids -> Names \cup {NoOne}]
      /\ NoOne \notin Names
  BY AccountsAssumption DEF TypeOK
<1>1. ASSUME NEW t \in Tasks, Issue(t)
      PROVE  SessionInv'
  <2>1. PICK s \in Sids : /\ issued[s] = NoOne
                          /\ sessions' = [sessions EXCEPT ![s] = task[t].user]
                          /\ issued' = [issued EXCEPT ![s] = task[t].user]
    BY <1>1 DEF Issue
  <2>2. s \notin revoked /\ UNCHANGED revoked
    BY <1>1, <2>1 DEF SessionInv, Issue
  <2> QED
    BY <1>0, <2>1, <2>2 DEF SessionInv
<1>2. ASSUME NEW u, sessions' = Without(u), UNCHANGED <<issued, revoked>>
      PROVE  SessionInv'
  BY <1>0, <1>2 DEF SessionInv, Without
<1>3. ASSUME NEW t \in Tasks, Write(t)
      PROVE  SessionInv'
  <2>1. UNCHANGED <<issued, revoked>> /\ (UNCHANGED sessions \/ sessions' = Without(task[t].user))
    BY <1>3 DEF Write
  <2>2. CASE UNCHANGED sessions
    BY <2>1, <2>2 DEF SessionInv
  <2> QED
    BY <1>2, <2>1, <2>2
<1>4. ASSUME NEW t \in Tasks, Drop(t)
      PROVE  SessionInv'
  <2> DEFINE u == task[t].user
  <2>1. u \in Names /\ UNCHANGED issued
    BY <1>4 DEF Drop, Reported, TaskInv
  <2>2. CASE task[t].kind = "remove"
    BY <1>4, <2>1, <2>2 DEF Drop, Reported, SessionInv
  <2>3. CASE task[t].kind # "remove"
    <3>1. sessions' = Without(u) /\ revoked' = revoked \cup Issued(u)
      BY <1>4, <2>3 DEF Drop, Reported
    <3>2. \A s \in Sids : sessions'[s] = IF sessions[s] = u THEN NoOne ELSE sessions[s]
      BY <3>1 DEF Without
    <3> QED
      BY <1>0, <2>1, <3>1, <3>2 DEF SessionInv, Issued
  <2> QED
    BY <2>2, <2>3
<1>5. ASSUME NEW s \in Sids, SessionEnds(s)
      PROVE  SessionInv'
  BY <1>0, <1>5 DEF SessionEnds, SessionInv, history
<1>6. CASE (\E u \in Names : FailureAges(u)) \/ UNCHANGED vars
  BY <1>6 DEF FailureAges, Ages, SessionInv, history, vars
<1>7. ASSUME NEW t \in Tasks, Arrives(t) \/ Claim(t) \/ Verified(t) \/ Rehash(t) \/ OwnVerified(t)
                              \/ Locked(t) \/ Abandon(t)
      PROVE  SessionInv'
  BY <1>7, QuietSessions DEF SessionInv
<1> QED
  BY <1>1, <1>3, <1>4, <1>5, <1>6, <1>7 DEF Next, Continues

-----------------------------------------------------------------------------
(* The throttle.                                                           *)

LEMMA VerifyingCard ==
  ASSUME NEW u
  PROVE  /\ IsFiniteSet(Verifying(u)) /\ Cardinality(Verifying(u)) \in Nat
         /\ Cardinality(Verifying(u)) <= Cardinality(Tasks) /\ Cardinality(Tasks) \in Nat
<1>1. IsFiniteSet(Tasks) /\ Verifying(u) \subseteq Tasks
  BY AccountsAssumption DEF Verifying
<1> QED
  BY <1>1, FS_Subset, FS_CardinalityType

(* A name fares no worse when it has no more failures and no more logins   *)
(* that wait for their outcome.                                            *)
LEMMA NoWorse ==
  ASSUME TypeOK, ThrottleInv, NEW u \in Names, fails'[u] \in Nat, fails'[u] <= fails[u],
         NEW V, V \subseteq Verifying(u)
  PROVE  fails'[u] + Cardinality(V) < Limit + Cardinality(Tasks)
<1>1. IsFiniteSet(Verifying(u)) /\ Cardinality(Verifying(u)) \in Nat /\ Cardinality(Tasks) \in Nat
  BY VerifyingCard
<1>2. Cardinality(V) \in Nat /\ Cardinality(V) <= Cardinality(Verifying(u))
  BY <1>1, FS_Subset, FS_CardinalityType
<1>3. fails[u] + Cardinality(Verifying(u)) < Limit + Cardinality(Tasks)
  BY DEF ThrottleInv
<1>4. fails[u] \in Nat /\ Limit \in Nat
  BY AccountsAssumption DEF TypeOK
<1> QED
  BY <1>1, <1>2, <1>3, <1>4

LEMMA ThrottleSame ==
  ASSUME TypeOK, TypeOK', ThrottleInv, \A u \in Names : fails'[u] <= fails[u],
         \A q \in Tasks : \/ task'[q] = task[q]
                          \/ task'[q].at # "verify" \/ task'[q].kind # "login"
  PROVE  ThrottleInv'
<1> SUFFICES ASSUME NEW u \in Names
             PROVE  (fails[u] + Cardinality(Verifying(u)))' < Limit + Cardinality(Tasks)
  BY DEF ThrottleInv
<1>1. Verifying(u)' \subseteq Verifying(u)
  BY DEF Verifying
<1>2. fails'[u] \in Nat /\ fails'[u] <= fails[u]
  BY DEF TypeOK
<1>3. fails'[u] + Cardinality(Verifying(u)') < Limit + Cardinality(Tasks)
  BY <1>1, <1>2, NoWorse
<1> QED
  BY <1>3

LEMMA LoginThrottle ==
  ASSUME TypeOK, TypeOK', ThrottleInv, NEW t \in Tasks, NEW u \in Names, NEW p, Login(t, u, p)
  PROVE  ThrottleInv'
<1> DEFINE l == [Idle EXCEPT !.at = "verify", !.kind = "login", !.user = u,
                             !.pw = p, !.seen = users[u]]
<1>1. Start(t, l) /\ UNCHANGED fails /\ fails[u] < Limit
  BY DEF Login, LoginWithin
<1>2. task \in [Tasks -> Locals] /\ fails \in [Names -> Nat] /\ Limit \in Nat
  BY AccountsAssumption DEF TypeOK
<1>3. /\ task'[t] = l /\ \A q \in Tasks \ {t} : task'[q] = task[q]
      /\ l.user = u
  BY <1>1, <1>2 DEF Start, Idle
<1> SUFFICES ASSUME NEW v \in Names
             PROVE  (fails[v] + Cardinality(Verifying(v)))' < Limit + Cardinality(Tasks)
  BY DEF ThrottleInv
<1>4. CASE v = u
  <2>1. IsFiniteSet(Tasks) /\ Verifying(v)' \subseteq Tasks
    BY AccountsAssumption DEF Verifying
  <2>2. /\ Cardinality(Verifying(v)') \in Nat /\ Cardinality(Tasks) \in Nat
        /\ Cardinality(Verifying(v)') <= Cardinality(Tasks)
    BY <2>1, FS_Subset, FS_CardinalityType
  <2>3. fails'[v] + Cardinality(Verifying(v)') < Limit + Cardinality(Tasks)
    BY <1>1, <1>2, <1>4, <2>2
  <2> QED
    BY <2>3
<1>5. CASE v # u
  <2>1. Verifying(v)' \subseteq Verifying(v)
    BY <1>3, <1>5 DEF Verifying
  <2>2. fails'[v] + Cardinality(Verifying(v)') < Limit + Cardinality(Tasks)
    BY <1>1, <1>2, <2>1, NoWorse
  <2> QED
    BY <2>2
<1> QED
  BY <1>4, <1>5

LEMMA VerifiedThrottle ==
  ASSUME TypeOK, TypeOK', TaskInv, ThrottleInv, NEW t \in Tasks, Verified(t)
  PROVE  ThrottleInv'
<1>0. PICK u \in Names : u = task[t].user
  BY DEF TaskInv, Verified
<1>1. /\ task \in [Tasks -> Locals] /\ fails \in [Names -> Nat] /\ fails' \in [Names -> Nat]
      /\ Limit \in Nat /\ t \in Verifying(u)
  BY <1>0, AccountsAssumption DEF TypeOK, Verified, Verifying
<1>2. {"rehash", "issue"} \subseteq Places
  BY DEF Places
<1>3. /\ task'[t].at # "verify"
      /\ \A q \in Tasks \ {t} : task'[q] = task[q]
  <2>1. CASE Done(t)
    BY <1>1, <2>1, DoneTask DEF Idle
  <2>2. CASE \E p \in Places \ {"verify"} : Goto(t, p)
    <3>1. PICK p \in Places \ {"verify"} : Goto(t, p)
      BY <2>2
    <3>2. task'[t] = [task[t] EXCEPT !.at = p] /\ \A q \in Tasks \ {t} : task'[q] = task[q]
      BY <1>1, <3>1, GotoTask
    <3> QED
      BY <1>1, <3>2 DEF Locals
  <2> QED
    BY <1>2, <2>1, <2>2 DEF Verified
<1>4. fails'[u] <= fails[u] + 1 /\ \A v \in Names \ {u} : fails'[v] = fails[v]
  BY <1>0, <1>1 DEF Verified
<1> SUFFICES ASSUME NEW v \in Names
             PROVE  (fails[v] + Cardinality(Verifying(v)))' < Limit + Cardinality(Tasks)
  BY DEF ThrottleInv
<1>5. CASE v = u
  <2>1. Verifying(u)' \subseteq Verifying(u) \ {t}
    BY <1>0, <1>3 DEF Verifying
  <2>2. /\ IsFiniteSet(Verifying(u)) /\ Cardinality(Verifying(u)) \in Nat /\ Cardinality(Tasks) \in Nat
    BY VerifyingCard
  <2>3. /\ IsFiniteSet(Verifying(u) \ {t})
        /\ Cardinality(Verifying(u) \ {t}) = Cardinality(Verifying(u)) - 1
    BY <1>1, <2>2, FS_RemoveElement
  <2>4. /\ Cardinality(Verifying(u)') <= Cardinality(Verifying(u)) - 1
        /\ Cardinality(Verifying(u)') \in Nat
    BY <2>1, <2>3, FS_Subset, FS_CardinalityType
  <2>5. fails[u] + Cardinality(Verifying(u)) < Limit + Cardinality(Tasks)
    BY <1>1 DEF ThrottleInv
  <2>6. fails'[u] + Cardinality(Verifying(u)') < Limit + Cardinality(Tasks)
    <3>1. fails[u] \in Nat /\ fails'[u] \in Nat /\ fails'[u] <= fails[u] + 1
      BY <1>1, <1>4
    <3> QED
      BY <1>1, <2>2, <2>4, <2>5, <3>1
  <2> QED
    BY <1>5, <2>6
<1>6. CASE v # u
  <2>1. Verifying(v)' \subseteq Verifying(v)
    BY <1>3 DEF Verifying
  <2>2. fails'[v] + Cardinality(Verifying(v)') < Limit + Cardinality(Tasks)
    <3>1. fails'[v] \in Nat /\ fails'[v] <= fails[v]
      BY <1>1, <1>4, <1>6
    <3> QED
      BY <2>1, <3>1, NoWorse
  <2> QED
    BY <2>2
<1> QED
  BY <1>5, <1>6

(* A request or command other than a login leaves the throttle as it is.   *)
LEMMA ArrivalThrottle ==
  ASSUME TypeOK, NEW t \in Tasks, Arrives(t)
  PROVE  \/ \E u \in Names, p \in Passwords \cup {NoOne} : Login(t, u, p)
         \/ \E l : Start(t, l) /\ ~(l.at = "verify" /\ l.kind = "login") /\ UNCHANGED fails
<1>1. CASE \E u \in Names, p \in Passwords : Setup(t, u, p)
  BY <1>1 DEF Setup, Idle
<1>2. CASE \E s \in Sids, p, q \in Passwords : ChangeOwn(t, s, p, q)
  BY <1>2 DEF ChangeOwn, Idle
<1>3. ASSUME NEW k, NEW u, NEW p, NEW r, NEW s, Request(t, s, k, u, p, r)
      PROVE  \E l : Start(t, l) /\ ~(l.at = "verify" /\ l.kind = "login") /\ UNCHANGED fails
  BY <1>3 DEF Request, Idle
<1>4. ASSUME NEW k, NEW u, NEW p, NEW r, Command(t, k, u, p, r)
      PROVE  \E l : Start(t, l) /\ ~(l.at = "verify" /\ l.kind = "login") /\ UNCHANGED fails
  BY <1>4 DEF Command, Idle
<1> QED
  BY <1>1, <1>2, <1>3, <1>4 DEF Arrives

LEMMA ThrottleStep == TypeOK /\ TaskInv /\ ThrottleInv /\ [Next]_vars => ThrottleInv'
<1> SUFFICES ASSUME TypeOK, TaskInv, ThrottleInv, [Next]_vars PROVE ThrottleInv'
  OBVIOUS
<1>0. TypeOK'
  BY NextTypes
<1>1. task \in [Tasks -> Locals] /\ fails \in [Names -> Nat] /\ fails' \in [Names -> Nat]
  BY <1>0 DEF TypeOK
<1>2. ASSUME UNCHANGED fails, NEW t \in Tasks, \A q \in Tasks \ {t} : task'[q] = task[q],
             task'[t] = task[t] \/ ~(task'[t].at = "verify" /\ task'[t].kind = "login")
      PROVE  ThrottleInv'
  <2>1. \A u \in Names : fails'[u] <= fails[u]
    BY <1>1, <1>2
  <2> QED
    BY <1>0, <1>2, <2>1, ThrottleSame
<1>3. ASSUME NEW t \in Tasks, Arrives(t)
      PROVE  ThrottleInv'
  <2>1. ASSUME NEW l, Start(t, l), ~(l.at = "verify" /\ l.kind = "login"), UNCHANGED fails
        PROVE  ThrottleInv'
    <3>1. task'[t] = l /\ \A q \in Tasks \ {t} : task'[q] = task[q]
      BY <1>1, <2>1 DEF Start
    <3> QED
      BY <1>2, <2>1, <3>1
  <2> QED
    BY <1>0, <1>3, <2>1, ArrivalThrottle, LoginThrottle
<1>4. ASSUME NEW t \in Tasks, UNCHANGED fails, Done(t) \/ \E p \in Places \ {"verify"} : Goto(t, p)
      PROVE  ThrottleInv'
  <2>1. CASE Done(t)
    BY <1>1, <1>2, <1>4, <2>1, DoneTask DEF Idle
  <2>2. CASE \E p \in Places \ {"verify"} : Goto(t, p)
    <3>1. PICK p \in Places \ {"verify"} : Goto(t, p)
      BY <2>2
    <3>2. task'[t] = [task[t] EXCEPT !.at = p] /\ \A q \in Tasks \ {t} : task'[q] = task[q]
      BY <1>1, <3>1, GotoTask
    <3>3. task'[t].at # "verify"
      BY <1>1, <3>2 DEF Locals
    <3> QED
      BY <1>2, <1>4, <3>2, <3>3
  <2> QED
    BY <1>4, <2>1, <2>2
<1>5. ASSUME NEW t \in Tasks, Continues(t), ~Verified(t)
      PROVE  ThrottleInv'
  <2>1. {"rehash", "issue", "write", "drop"} \subseteq Places \ {"verify"}
    BY DEF Places
  <2>2. UNCHANGED fails /\ (Done(t) \/ \E p \in Places \ {"verify"} : Goto(t, p))
    BY <1>5, <2>1 DEF Continues, Claim, ClaimWhen, Rehash, Issue, OwnVerified, Locked, LockedBy,
       Write, Drop, Reported, Abandon
  <2> QED
    BY <1>4, <2>2
<1>6. ASSUME NEW u \in Names, FailureAges(u)
      PROVE  ThrottleInv'
  <2>1. fails' = [fails EXCEPT ![u] = @ - 1] /\ UNCHANGED task
    BY <1>6 DEF FailureAges, Ages
  <2>2. \A v \in Names : fails'[v] <= fails[v]
    BY <1>1, <2>1
  <2> QED
    BY <1>0, <2>1, <2>2, ThrottleSame
<1>7. CASE (\E s \in Sids : SessionEnds(s)) \/ UNCHANGED vars
  <2>1. UNCHANGED <<fails, task>>
    BY <1>7 DEF SessionEnds, vars
  <2>2. \A v \in Names : fails'[v] <= fails[v]
    BY <1>1, <2>1
  <2> QED
    BY <1>0, <2>1, <2>2, ThrottleSame
<1> QED
  BY <1>0, <1>3, <1>5, <1>6, <1>7, VerifiedThrottle DEF Next

-----------------------------------------------------------------------------
(* The admins.                                                             *)

(* A step of one task keeps AdminInv when the task itself keeps its part   *)
(* of it, and either no admin goes or the task holds the lock.             *)
LEMMA AdminStep ==
  ASSUME AdminInv, ~bypassed, NEW t \in Tasks,
         \A q \in Tasks \ {t} : task'[q] = task[q] /\ (lock = q => lock' = q),
         lock = t \/ \A u \in Names : Admin(u) => Admin(u)',
         SomeoneExists => SomeoneExists', SomeoneExists' => SomeAdmin',
         claims' <= 1, claims' # 0 => SomeoneExists',
         Pending(t)'
  PROVE  AdminInv'
<1>1. ASSUME NEW q \in Tasks \ {t}
      PROVE  Pending(q)'
  <2>1. Pending(q)
    BY DEF AdminInv
  <2>2. task'[q] = task[q] /\ (lock = q => lock' = q)
    OBVIOUS
  <2>3. ASSUME OtherAdmin(task[q].user), lock = q
        PROVE  \E v \in Names \ {task'[q].user} : Admin(v)'
    BY <2>2, <2>3 DEF OtherAdmin
  <2>4. (\E v \in Names \ {task'[q].user} : Admin(v)') => OtherAdmin(task[q].user)'
    BY DEF OtherAdmin
  <2> QED
    BY <2>1, <2>2, <2>3, <2>4 DEF Pending
<1> QED
  BY <1>1 DEF AdminInv

(* It does when no row gains or loses a role or its being enabled.         *)
LEMMA QuietAdmin ==
  ASSUME AdminInv, ~bypassed, NEW t \in Tasks,
         \A q \in Tasks \ {t} : task'[q] = task[q] /\ (lock = q => lock' = q),
         \A u \in Names : users'[u].role = users[u].role /\ users'[u].on = users[u].on,
         UNCHANGED claims, Pending(t)'
  PROVE  AdminInv'
<1>1. \A u \in Names : (Exists(u)' <=> Exists(u)) /\ (Admin(u)' <=> Admin(u))
  BY DEF Exists, Admin
<1>2. (SomeoneExists' <=> SomeoneExists) /\ (SomeAdmin' <=> SomeAdmin)
  BY <1>1 DEF SomeoneExists, SomeAdmin
<1>3. (SomeoneExists => SomeAdmin) /\ (claims # 0 => SomeoneExists) /\ claims <= 1
  BY DEF AdminInv
<1> QED
  BY <1>1, <1>2, <1>3, AdminStep

LEMMA SetPasswordKeeps ==
  ASSUME users \in [Names -> Rows], NEW u, NEW p, SetPassword(u, p)
  PROVE  \A v \in Names : users'[v].role = users[v].role /\ users'[v].on = users[v].on
  BY DEF SetPassword, Rows

LEMMA ArrivalAdmin ==
  ASSUME TypeOK, AdminInv, ~bypassed, NEW t \in Tasks, Arrives(t)
  PROVE  AdminInv'
<1>0. task \in [Tasks -> Locals] /\ sessions \in [Sids -> Names \cup {NoOne}]
  BY DEF TypeOK
<1>1. ASSUME NEW l, Start(t, l), UNCHANGED <<users, lock, claims>>,
             l.at \in {"claim", "verify"} \/ (l.kind = "create" /\ l.role # "admin" => SomeoneExists),
             l.at \in {"write", "drop"} => l.at = "write" /\ l.cli
      PROVE  AdminInv'
  <2>1. task'[t] = l /\ \A q \in Tasks \ {t} : task'[q] = task[q]
    BY <1>0, <1>1 DEF Start
  <2>2. SomeoneExists' <=> SomeoneExists
    BY <1>1 DEF SomeoneExists, Exists
  <2>3. Pending(t)'
    BY <1>1, <2>1, <2>2 DEF Pending
  <2> QED
    BY <1>1, <2>1, <2>3, QuietAdmin
<1>2. CASE \E u \in Names, p \in Passwords \cup {NoOne} : Setup(t, u, p) \/ Login(t, u, p)
  BY <1>1, <1>2 DEF Setup, Login, LoginWithin, history, Idle
<1>3. CASE \E s \in Sids, p, q \in Passwords : ChangeOwn(t, s, p, q)
  BY <1>1, <1>3 DEF ChangeOwn, history, Idle
<1>4. ASSUME NEW k, NEW u, NEW p, NEW r, NEW s \in Sids, Request(t, s, k, u, p, r)
      PROVE  AdminInv'
  <2>1. SomeoneExists
    BY <1>0, <1>4 DEF Request, Resolves, SomeoneExists
  <2> QED
    BY <1>1, <1>4, <2>1 DEF Request, history, Idle
<1>5. ASSUME NEW k, NEW u, NEW p, NEW r, Command(t, k, u, p, r)
      PROVE  AdminInv'
  <2> DEFINE given == IF k = "create" /\ \A v \in Names : ~Exists(v) THEN "admin" ELSE r
             c == [Idle EXCEPT !.at = "write", !.kind = k, !.user = u, !.pw = p,
                               !.cli = TRUE, !.role = given]
  <2>1. c.at = "write" /\ c.cli /\ c.kind = k /\ c.role = given
    BY DEF Idle
  <2>2. k = "create" /\ given # "admin" => SomeoneExists
    BY DEF SomeoneExists
  <2>3. Start(t, c) /\ UNCHANGED <<users, lock, claims>>
    BY <1>5 DEF Command, history
  <2> QED
    BY <1>1, <2>1, <2>2, <2>3
<1> QED
  BY <1>2, <1>3, <1>4, <1>5 DEF Arrives

(* A task that goes on without touching roles, or ends.                    *)
LEMMA GoesOnAdmin ==
  ASSUME TypeOK, AdminInv, ~bypassed, NEW t \in Tasks,
         Done(t) \/ (\E p \in {"rehash", "issue"} : Goto(t, p)) \/ OwnVerified(t),
         lock' = lock \/ Release(t), UNCHANGED claims,
         \A u \in Names : users'[u].role = users[u].role /\ users'[u].on = users[u].on
  PROVE  AdminInv'
<1>1. task \in [Tasks -> Locals] /\ NoOne \notin Tasks
  BY AccountsAssumption DEF TypeOK
<1>2. {"rehash", "issue", "write"} \subseteq Places
  BY DEF Places
<1>3. \A q \in Tasks \ {t} : lock = q => lock' = q
  BY DEF Release
<1>4. CASE Done(t)
  <2>1. task'[t] = Idle /\ \A q \in Tasks \ {t} : task'[q] = task[q]
    BY <1>1, <1>4, DoneTask
  <2>2. Pending(t)'
    BY <2>1 DEF Pending, Idle
  <2> QED
    BY <1>3, <2>1, <2>2, QuietAdmin
<1>5. CASE (\E p \in {"rehash", "issue"} : Goto(t, p)) \/ OwnVerified(t)
  <2>1. PICK p \in {"rehash", "issue", "write"} :
               Goto(t, p) /\ (p = "write" => task[t].kind = "own")
    BY <1>5 DEF OwnVerified
  <2>2. task'[t] = [task[t] EXCEPT !.at = p] /\ \A q \in Tasks \ {t} : task'[q] = task[q]
    BY <1>1, <1>2, <2>1, GotoTask
  <2>3. task'[t].at = p /\ task'[t].kind = task[t].kind
    BY <1>1, <2>2 DEF Locals
  <2>4. Pending(t)'
    BY <2>1, <2>3 DEF Pending, TakesAdmin
  <2> QED
    BY <1>3, <2>2, <2>4, QuietAdmin
<1> QED
  BY <1>4, <1>5

LEMMA ClaimAdmin ==
  ASSUME TypeOK, TaskInv, AdminInv, ~bypassed, NEW t \in Tasks, Claim(t)
  PROVE  AdminInv'
<1>1. /\ task \in [Tasks -> Locals] /\ users \in [Names -> Rows] /\ claims \in Nat
      /\ task[t].user \in Names /\ UNCHANGED lock
  BY DEF TypeOK, TaskInv, Claim, ClaimWhen
<1>2. CASE \A v \in Names : ~Exists(v)
  <2>1. /\ users' = [users EXCEPT ![task[t].user] = User("admin", task[t].pw)]
        /\ claims' = claims + 1 /\ Goto(t, "issue")
    BY <1>2 DEF Claim, ClaimWhen
  <2>2. claims = 0
    BY <1>2 DEF AdminInv, SomeoneExists
  <2>3. SomeoneExists' /\ SomeAdmin'
    <3>1. PICK u \in Names : u = task[t].user
      BY <1>1
    <3>2. users'[u].role = "admin" /\ users'[u].on
      BY <1>1, <2>1, <3>1 DEF User
    <3> QED
      BY <3>2 DEF SomeoneExists, SomeAdmin, Exists, Admin
  <2>4. task'[t].at = "issue" /\ \A q \in Tasks \ {t} : task'[q] = task[q]
    <3>1. "issue" \in Places
      BY DEF Places
    <3>2. task'[t] = [task[t] EXCEPT !.at = "issue"] /\ \A q \in Tasks \ {t} : task'[q] = task[q]
      BY <1>1, <2>1, <3>1, GotoTask
    <3> QED
      BY <1>1, <3>2 DEF Locals
  <2>5. Pending(t)'
    BY <2>4 DEF Pending
  <2>6. \A u \in Names : ~Admin(u)
    BY <1>2 DEF Admin, Exists
  <2> QED
    BY <1>1, <2>1, <2>2, <2>3, <2>4, <2>5, <2>6, AdminStep
<1>3. CASE ~(\A v \in Names : ~Exists(v))
  <2>1. Done(t) /\ UNCHANGED <<users, claims, lock>>
    BY <1>3 DEF Claim, ClaimWhen
  <2> QED
    BY <2>1, GoesOnAdmin
<1> QED
  BY <1>2, <1>3

LEMMA LockedAdmin ==
  ASSUME TypeOK, AdminInv, ~bypassed, NEW t \in Tasks, Locked(t)
  PROVE  AdminInv'
<1>1. task \in [Tasks -> Locals] /\ NoOne \notin Tasks /\ task[t].at = "lock" /\ lock = NoOne
  BY AccountsAssumption DEF TypeOK, Locked, LockedBy
<1>2. UNCHANGED <<users, claims>>
  BY DEF Locked, LockedBy, history
<1>3. CASE Done(t) /\ UNCHANGED lock
  BY <1>2, <1>3, GoesOnAdmin
<1>4. CASE /\ lock' = t /\ Goto(t, "write")
           /\ task[t].kind # "create" /\ TakesAdmin(task[t].kind, task[t].role)
                => ~LastAdminWouldGo(task[t].user)
  <2>1. "write" \in Places
    BY DEF Places
  <2>2. task'[t] = [task[t] EXCEPT !.at = "write"] /\ \A q \in Tasks \ {t} : task'[q] = task[q]
    BY <1>1, <1>4, <2>1, GotoTask
  <2>3. /\ task'[t].at = "write" /\ task'[t].kind = task[t].kind
        /\ task'[t].role = task[t].role /\ task'[t].user = task[t].user
    BY <1>1, <2>2 DEF Locals
  <2>4. task[t].kind = "create" /\ task[t].role # "admin" => SomeoneExists
    BY <1>1 DEF AdminInv, Pending
  <2>5. (SomeoneExists <=> SomeoneExists') /\ \A u \in Names : Admin(u) <=> Admin(u)'
    BY <1>2 DEF SomeoneExists, Exists, Admin
  <2>6. TakesAdmin(task[t].kind, task[t].role) => OtherAdmin(task[t].user)
    BY <1>4 DEF OtherAdmin, LastAdminWouldGo, TakesAdmin
  <2>7. OtherAdmin(task[t].user) => OtherAdmin(task[t].user)'
    BY <2>3, <2>5 DEF OtherAdmin
  <2>8. Pending(t)'
    BY <1>4, <2>3, <2>4, <2>5, <2>6, <2>7 DEF Pending, TakesAdmin
  <2> QED
    BY <1>1, <1>2, <2>2, <2>8, QuietAdmin
<1> QED
  BY <1>3, <1>4 DEF Locked, LockedBy

(* The first statement of a change: what is left of the admins.            *)
LEMMA WriteAdmins ==
  ASSUME TypeOK, TaskInv, AdminInv, ~bypassed, NEW t \in Tasks, Write(t), ~bypassed'
  PROVE  /\ lock = t \/ \A v \in Names : Admin(v) => Admin(v)'
         /\ SomeoneExists => SomeoneExists'
         /\ SomeoneExists' => SomeAdmin'
         /\ \A v \in Names \ {task[t].user} : Admin(v)' <=> Admin(v)
<1>0. PICK u \in Names : u = task[t].user
  BY DEF TaskInv, Write
<1>1. users \in [Names -> Rows] /\ task[t].at = "write"
  BY DEF TypeOK, Write
<1>2. SomeoneExists => SomeAdmin
  BY DEF AdminInv
<1>3. ASSUME \A v \in Names : users'[v].role = users[v].role /\ users'[v].on = users[v].on
      PROVE  /\ \A v \in Names : (Admin(v) <=> Admin(v)') /\ (Exists(v) <=> Exists(v)')
             /\ SomeoneExists' => SomeAdmin'
             /\ SomeoneExists => SomeoneExists'
  <2>1. \A v \in Names : (Admin(v) <=> Admin(v)') /\ (Exists(v) <=> Exists(v)')
    BY <1>3 DEF Admin, Exists
  <2> QED
    BY <1>2, <2>1 DEF SomeoneExists, SomeAdmin
<1>4. ASSUME UNCHANGED users
      PROVE  \A v \in Names : users'[v].role = users[v].role /\ users'[v].on = users[v].on
  BY <1>4
<1>5. ASSUME \A v \in Names \ {u} : users'[v] = users[v]
      PROVE  \A v \in Names \ {u} : (Admin(v)' <=> Admin(v)) /\ (Exists(v)' <=> Exists(v))
  BY <1>5 DEF Admin, Exists
<1>6. CASE task[t].kind = "create" /\ ~Exists(u)
  <2>1. users' = [users EXCEPT ![u] = User(task[t].role, task[t].pw)]
    BY <1>0, <1>6 DEF Write
  <2>2. /\ \A v \in Names \ {u} : users'[v] = users[v]
        /\ users'[u].role = task[t].role /\ users'[u].on
    BY <1>1, <2>1 DEF User
  <2>3. task[t].role # "admin" => SomeoneExists
    BY <1>1, <1>6 DEF AdminInv, Pending
  <2>4. ~Admin(u) /\ (task[t].role = "admin" => Admin(u)')
    BY <1>6, <2>2 DEF Admin, Exists
  <2> QED
    BY <1>0, <1>2, <1>5, <1>6, <2>2, <2>3, <2>4 DEF SomeoneExists, SomeAdmin
<1>7. ASSUME TakesAdmin(task[t].kind, task[t].role)
      PROVE  lock = t /\ OtherAdmin(u)
  <2>1. ~task[t].cli
    BY <1>7 DEF Write
  <2> QED
    BY <1>0, <1>1, <1>7, <2>1 DEF AdminInv, Pending
<1>8. CASE \/ task[t].kind = "role" /\ Exists(u)
           \/ task[t].kind \in {"enable", "disable"} /\ Exists(u)
  <2>1. \/ task[t].kind = "role" /\ users' = [users EXCEPT ![u].role = task[t].role]
        \/ /\ task[t].kind \in {"enable", "disable"}
           /\ users' = [users EXCEPT ![u].on = (task[t].kind = "enable")]
    BY <1>0, <1>8 DEF Write
  <2>2. \A v \in Names \ {u} : users'[v] = users[v]
    BY <1>1, <2>1
  <2>3. CASE TakesAdmin(task[t].kind, task[t].role)
    <3>1. PICK v \in Names \ {u} : Admin(v)
      BY <1>7, <2>3 DEF OtherAdmin
    <3>2. Admin(v)' /\ Exists(v)'
      BY <1>5, <2>2, <3>1 DEF Admin, Exists
    <3> QED
      BY <1>0, <1>5, <1>7, <2>2, <2>3, <3>2 DEF SomeoneExists, SomeAdmin
  <2>4. CASE ~TakesAdmin(task[t].kind, task[t].role)
    <3>1. \/ users'[u].role = "admin" /\ users'[u].on = users[u].on
          \/ users'[u].role = users[u].role /\ users'[u].on
      <4>1. CASE task[t].kind = "role" /\ users' = [users EXCEPT ![u].role = "admin"]
        BY <1>1, <4>1 DEF Rows
      <4>2. CASE users' = [users EXCEPT ![u].on = TRUE]
        BY <1>1, <4>2 DEF Rows
      <4>3. task[t].kind # "disable" /\ (task[t].kind = "role" => task[t].role = "admin")
        BY <2>4 DEF TakesAdmin
      <4>4. task[t].kind = "enable" => (task[t].kind = "enable") = TRUE
        OBVIOUS
      <4> QED
        BY <2>1, <4>1, <4>2, <4>3, <4>4
    <3>2. (Admin(u) => Admin(u)') /\ Exists(u)'
      BY <1>8, <3>1 DEF Admin, Exists
    <3>3. SomeoneExists
      BY <1>8 DEF SomeoneExists
    <3> QED
      BY <1>0, <1>2, <1>5, <2>2, <3>2, <3>3 DEF SomeoneExists, SomeAdmin
  <2> QED
    BY <2>3, <2>4
<1>9. CASE \/ task[t].kind = "create" /\ Exists(u)
           \/ task[t].kind \in {"role", "enable", "disable"} /\ ~Exists(u)
           \/ task[t].kind = "remove"
  <2>1. UNCHANGED users
    BY <1>0, <1>9 DEF Write
  <2> QED
    BY <1>3, <1>4, <2>1
<1>10. CASE task[t].kind \in {"reset", "own"}
  <2>1. SetPassword(task[t].user, task[t].pw)
    BY <1>10 DEF Write
  <2> QED
    BY <1>1, <1>3, <2>1, SetPasswordKeeps
<1>11. task[t].kind \in {"create", "role", "enable", "disable", "reset", "own", "remove"}
  BY DEF Write
<1> QED
  BY <1>6, <1>8, <1>9, <1>10, <1>11

LEMMA WriteAdmin ==
  ASSUME TypeOK, TaskInv, AdminInv, ~bypassed, NEW t \in Tasks, Write(t), ~bypassed'
  PROVE  AdminInv'
<1>0. PICK u \in Names : u = task[t].user
  BY DEF TaskInv, Write
<1>1. task \in [Tasks -> Locals] /\ "drop" \in Places /\ task[t].at = "write" /\ UNCHANGED claims
  BY DEF TypeOK, Places, Write
<1>2. (claims # 0 => SomeoneExists) /\ claims <= 1
  BY DEF AdminInv
<1>3. CASE Done(t) /\ Release(t)
  <2>1. task'[t] = Idle /\ \A q \in Tasks \ {t} : task'[q] = task[q]
    BY <1>1, <1>3, DoneTask
  <2>2. Pending(t)'
    BY <2>1 DEF Pending, Idle
  <2>3. \A q \in Tasks \ {t} : lock = q => lock' = q
    BY <1>3 DEF Release
  <2> QED
    BY <1>1, <1>2, <2>1, <2>2, <2>3, WriteAdmins, AdminStep
<1>4. CASE Goto(t, "drop") /\ UNCHANGED lock
  <2>1. task'[t] = [task[t] EXCEPT !.at = "drop"] /\ \A q \in Tasks \ {t} : task'[q] = task[q]
    BY <1>1, <1>4, GotoTask
  <2>2. /\ task'[t].at = "drop" /\ task'[t].kind = task[t].kind /\ task'[t].cli = task[t].cli
        /\ task'[t].role = task[t].role /\ task'[t].user = u
    BY <1>0, <1>1, <2>1 DEF Locals
  <2>3. TakesAdmin(task[t].kind, task[t].role) => ~task[t].cli /\ lock = t /\ OtherAdmin(u)
    BY <1>0, <1>1 DEF Write, AdminInv, Pending
  <2>4. OtherAdmin(u) => OtherAdmin(u)'
    BY <1>0, WriteAdmins DEF OtherAdmin
  <2>5. Pending(t)'
    BY <1>4, <2>2, <2>3, <2>4 DEF Pending
  <2> QED
    BY <1>1, <1>2, <1>4, <2>1, <2>5, WriteAdmins, AdminStep
<1> QED
  BY <1>3, <1>4 DEF Write

(* The second statement: only a removal touches a row, and it holds the    *)
(* lock and leaves another admin.                                          *)
LEMMA DropAdmin ==
  ASSUME TypeOK, TaskInv, AdminInv, ~bypassed, NEW t \in Tasks, Drop(t)
  PROVE  AdminInv'
<1>0. PICK u \in Names : u = task[t].user
  BY DEF TaskInv, Drop, Reported
<1>1. /\ task \in [Tasks -> Locals] /\ users \in [Names -> Rows] /\ task[t].at = "drop"
      /\ UNCHANGED claims /\ Release(t)
  BY DEF TypeOK, Drop, Reported
<1>2. CASE task[t].kind = "remove"
  <2>1. users' = [users EXCEPT ![u] = NoUser] /\ Done(t)
    BY <1>0, <1>2 DEF Drop, Reported
  <2>2. lock = t /\ OtherAdmin(u)
    BY <1>0, <1>1, <1>2 DEF AdminInv, Pending, TakesAdmin
  <2>3. PICK v \in Names \ {u} : Admin(v)
    BY <2>2 DEF OtherAdmin
  <2>4. Admin(v)' /\ Exists(v)'
    BY <1>1, <2>1, <2>3 DEF Admin, Exists
  <2>5. SomeoneExists' /\ SomeAdmin'
    BY <2>4 DEF SomeoneExists, SomeAdmin
  <2>6. task'[t] = Idle /\ \A q \in Tasks \ {t} : task'[q] = task[q]
    BY <1>1, <2>1, DoneTask
  <2>7. Pending(t)'
    BY <2>6 DEF Pending, Idle
  <2>8. claims' <= 1
    BY <1>1 DEF AdminInv
  <2> QED
    BY <1>1, <2>2, <2>5, <2>6, <2>7, <2>8, AdminStep DEF Release
<1>3. CASE task[t].kind # "remove"
  <2>1. UNCHANGED users /\ (Goto(t, "issue") \/ Done(t))
    BY <1>3 DEF Drop, Reported
  <2> QED
    BY <1>1, <2>1, GoesOnAdmin
<1> QED
  BY <1>2, <1>3

LEMMA BypassedStays == [Next]_vars /\ ~bypassed' /\ TypeOK => ~bypassed
<1> SUFFICES ASSUME [Next]_vars, ~bypassed', TypeOK PROVE ~bypassed
  OBVIOUS
<1>1. ASSUME NEW t \in Tasks, Arrives(t)
      PROVE  UNCHANGED bypassed
  <2>1. CASE \E u \in Names, p \in Passwords \cup {NoOne} : Setup(t, u, p) \/ Login(t, u, p)
    BY <2>1 DEF Setup, Login, LoginWithin, history
  <2>2. CASE \E s \in Sids, p, q \in Passwords : ChangeOwn(t, s, p, q)
    BY <2>2 DEF ChangeOwn, history
  <2>3. CASE \E k, u, p, r, s : Request(t, s, k, u, p, r) \/ Command(t, k, u, p, r)
    BY <2>3 DEF Request, Command, history
  <2> QED
    BY <1>1, <2>1, <2>2, <2>3 DEF Arrives
<1>2. ASSUME NEW t \in Tasks, Continues(t)
      PROVE  ~bypassed
  BY <1>2 DEF Continues, Claim, ClaimWhen, Verified, Rehash, Issue, OwnVerified, Locked, LockedBy,
     Write, Drop, Reported, Abandon, history
<1>3. CASE (\E s \in Sids : SessionEnds(s)) \/ (\E u \in Names : FailureAges(u)) \/ UNCHANGED vars
  BY <1>3 DEF SessionEnds, FailureAges, Ages, vars, history
<1> QED
  BY <1>1, <1>2, <1>3 DEF Next

LEMMA AdminsStep == TypeOK /\ TaskInv /\ AdminInv /\ [Next]_vars => AdminInv'
<1> SUFFICES ASSUME TypeOK, TaskInv, AdminInv, [Next]_vars, ~bypassed' PROVE AdminInv'
  BY DEF AdminInv
<1>0. ~bypassed
  BY BypassedStays
<1>1. ASSUME NEW t \in Tasks, Verified(t) \/ Rehash(t) \/ Issue(t) \/ OwnVerified(t) \/ Abandon(t)
      PROVE  AdminInv'
  <2>1. \A u \in Names : users'[u].role = users[u].role /\ users'[u].on = users[u].on
    <3>1. CASE Rehash(t)
      BY <3>1, SetPasswordKeeps DEF Rehash, TypeOK
    <3>2. CASE UNCHANGED users
      BY <3>2
    <3> QED
      BY <1>1, <3>1, <3>2 DEF Verified, Issue, OwnVerified, Abandon
  <2>2. Done(t) \/ (\E p \in {"rehash", "issue"} : Goto(t, p)) \/ OwnVerified(t)
    BY <1>1 DEF Verified, Rehash, Issue, Abandon
  <2>3. (lock' = lock \/ Release(t)) /\ UNCHANGED claims
    BY <1>1 DEF Verified, Rehash, Issue, OwnVerified, Abandon, history
  <2> QED
    BY <1>0, <2>1, <2>2, <2>3, GoesOnAdmin
<1>2. CASE (\E s \in Sids : SessionEnds(s)) \/ (\E u \in Names : FailureAges(u)) \/ UNCHANGED vars
  <2>1. UNCHANGED <<users, lock, task, claims, bypassed>>
    BY <1>2 DEF SessionEnds, FailureAges, Ages, vars, history
  <2> QED
    BY <2>1 DEF AdminInv, SomeoneExists, SomeAdmin, Pending, OtherAdmin, Exists, Admin
<1> QED
  BY <1>0, <1>1, <1>2, ArrivalAdmin, ClaimAdmin, LockedAdmin, WriteAdmin, DropAdmin
     DEF Next, Continues

-----------------------------------------------------------------------------
(* The inductive invariant.                                                *)

LEMMA InitAdmins == Init => AdminInv
<1> SUFFICES ASSUME Init PROVE AdminInv
  OBVIOUS
<1>1. /\ task = [t \in Tasks |-> Idle] /\ claims = 0
      /\ \/ users = [u \in Names |-> NoUser]
         \/ \E a \in Names, p \in Passwords, r \in [Names -> {"admin", "user"}] :
              /\ users = [u \in Names |-> [User(r[u], p) EXCEPT !.weak = (u = a)]]
              /\ r[a] = "admin"
  BY DEF Init
<1>2. \A t \in Tasks : Pending(t)
  BY <1>1 DEF Pending, Idle
<1>3. CASE users = [u \in Names |-> NoUser]
  BY <1>1, <1>2, <1>3 DEF AdminInv, SomeoneExists, Exists, NoUser
<1>4. CASE \E a \in Names, p \in Passwords, r \in [Names -> {"admin", "user"}] :
             /\ users = [u \in Names |-> [User(r[u], p) EXCEPT !.weak = (u = a)]]
             /\ r[a] = "admin"
  <2>1. PICK a \in Names, p \in Passwords, r \in [Names -> {"admin", "user"}] :
               /\ users = [u \in Names |-> [User(r[u], p) EXCEPT !.weak = (u = a)]]
               /\ r[a] = "admin"
    BY <1>4
  <2>2. users[a].role = "admin" /\ users[a].on
    BY <2>1 DEF User
  <2>3. SomeAdmin
    BY <2>2 DEF SomeAdmin, Admin
  <2> QED
    BY <1>1, <1>2, <2>3 DEF AdminInv
<1> QED
  BY <1>1, <1>3, <1>4

LEMMA InitInv == Init => IInv
<1> SUFFICES ASSUME Init PROVE IInv
  OBVIOUS
<1>1. /\ task = [t \in Tasks |-> Idle] /\ fails = [u \in Names |-> 0]
      /\ issued = sessions /\ revoked = {}
  BY DEF Init
<1>2. TaskInv /\ SessionInv
  BY <1>1 DEF TaskInv, SessionInv, Idle
<1>3. ASSUME NEW u \in Names
      PROVE  fails[u] + Cardinality(Verifying(u)) < Limit + Cardinality(Tasks)
  <2>1. Verifying(u) = {}
    BY <1>1 DEF Verifying, Idle
  <2>2. Cardinality(Verifying(u)) = 0 /\ Cardinality(Tasks) \in Nat /\ fails[u] = 0
    BY <1>1, <2>1, VerifyingCard, FS_EmptySet
  <2> QED
    BY <2>2, AccountsAssumption
<1> QED
  BY <1>2, <1>3, InitTypes, InitAdmins DEF IInv, ThrottleInv

LEMMA NextInv == IInv /\ [Next]_vars => IInv'
  BY NextTypes, TaskUsers, SessionsStep, ThrottleStep, AdminsStep DEF IInv

(* Whatever the users, the requests and the commands do, IInv holds.       *)
THEOREM Invariance == Spec => []IInv
  BY InitInv, NextInv, PTL DEF Spec

(* Every variable has its type.                                            *)
THEOREM TypeCorrectness == Spec => []TypeOK
<1>1. IInv => TypeOK
  BY DEF IInv
<1> QED
  BY <1>1, Invariance, PTL

(* The web never leaves a hub that has accounts without an admin who can   *)
(* sign in: the check under the lock of web/users.py is enough, although   *)
(* the role of the caller is read before it.                               *)
THEOREM AnAdminRemains == Spec => []AdminRemains
<1>1. IInv => AdminRemains
  BY DEF IInv, AdminInv, AdminRemains, SomeoneExists, SomeAdmin
<1> QED
  BY <1>1, Invariance, PTL

(* The first-run setup makes one account at most, however many first       *)
(* visitors are between their count of the users and their INSERT.         *)
THEOREM OneFirstOwner == Spec => []OneOwner
<1>1. IInv => OneOwner
  BY DEF IInv, AdminInv, OneOwner
<1> QED
  BY <1>1, Invariance, PTL

(* A session that a reported change of the password, or a disable, has     *)
(* ended never resolves again.                                             *)
THEOREM RevokedForGood == Spec => []RevokedStaysGone
<1>1. IInv => RevokedStaysGone
  BY DEF IInv, TypeOK, SessionInv, RevokedStaysGone
<1> QED
  BY <1>1, Invariance, PTL

(* Logins that overlap overshoot the limit of the throttle by less than    *)
(* the number of requests under way.                                       *)
THEOREM ThrottleBound == Spec => []ThrottleHolds
<1>1. ASSUME IInv, NEW u \in Names
      PROVE  fails[u] < Limit + Cardinality(Tasks)
  <2>1. /\ fails[u] \in Nat /\ Limit \in Nat /\ Cardinality(Tasks) \in Nat
        /\ Cardinality(Verifying(u)) \in Nat
        /\ fails[u] + Cardinality(Verifying(u)) < Limit + Cardinality(Tasks)
    BY <1>1, AccountsAssumption, VerifyingCard DEF IInv, TypeOK, ThrottleInv
  <2> QED
    BY <2>1
<1>2. IInv => ThrottleHolds
  BY <1>1 DEF ThrottleHolds
<1> QED
  BY <1>2, Invariance, PTL

=============================================================================
