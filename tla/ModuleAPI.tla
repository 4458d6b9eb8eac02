----------------------------- MODULE ModuleAPI -----------------------------
(***************************************************************************)
(* The one path every tool call of the hub takes                           *)
(* (src/src/vahub/core/moduleapi.py) with the table pending_calls it keeps *)
(* its confirmations in (src/src/vahub/storage/store.py).                  *)
(*                                                                         *)
(* A task is one asyncio task: a web request, an agent turn or a scheduled *)
(* routine.  Between two awaits a task runs alone, so one action is the    *)
(* code from one await to the next.  A statement on the store is atomic    *)
(* and is an action of its own, because other tasks run before and after   *)
(* it.  Calls that are refused without a trace (unknown module, reserved   *)
(* name, module not ready, row not pending) change nothing and are         *)
(* stuttering steps.                                                       *)
(***************************************************************************)
EXTENDS Naturals, FiniteSets

CONSTANTS
  Tasks,       (* the asyncio tasks that use the API                       *)
  NoTask,      (* the owner of a free lock                                 *)
  Modules,     (* the modules of the supervisor                            *)
  Calls,       (* the calls: each a principal, a tool and its arguments    *)
  Target,      (* Target[x] is the module that call x names                *)
  Verdict,     (* Verdict[x] is what the policy gate says of call x        *)
  OwnerMay,    (* the calls of the signed-in owner, through call_read,     *)
               (* that are not destructive: the gate is not asked          *)
  Routine,     (* the calls whose principal is the scheduler               *)
  Rows,        (* the ids of pending_calls                                 *)
  NoRow,       (* the row of a call that needs no confirmation             *)
  TTL,         (* confirm_ttl_s                                            *)
  MaxTime      (* bound on the clock                                       *)

ASSUME ModuleAPIAssumption ==
  /\ NoTask \notin Tasks
  /\ NoRow \notin Rows
  /\ Calls # {}
  /\ Target \in [Calls -> Modules]
  /\ Verdict \in [Calls -> {"allow", "confirm", "deny"}]
  /\ OwnerMay \subseteq Calls
  /\ Routine \subseteq Calls
  /\ TTL \in Nat
  /\ MaxTime \in Nat

VARIABLES
  now,       (* time.time()                                                *)
  status,    (* status[r]: the column status, "absent" before the INSERT   *)
  frozen,    (* frozen[r]: the columns principal, module, tool and args    *)
  expires,   (* expires[r]: the column expires_at                           *)
  health,    (* health[m]: is the module down, open (a client but not      *)
             (* READY) or ready                                            *)
  lock,      (* lock[m]: the task that holds mod.lock                      *)
  task,      (* task[t]: where the task is, and its local variables        *)
  log,       (* log[r]: the results the audit table holds for the approved *)
             (* call of row r; the rows of other calls are left out        *)
  claimed,   (* history: the rows whose compare-and-set succeeded          *)
  sent,      (* history: requests handed to a client on behalf of a row    *)
  lost       (* history: rows whose task ended, or whose audit row could   *)
             (* not be written, after the claim                            *)

dbVars == <<status, frozen, expires>>
histVars == <<claimed, sent, lost>>
vars == <<now, dbVars, health, lock, task, log, histVars>>

Statuses == {"absent", "pending", "confirmed", "expired", "cancelled"}
Results == {"denied", "ok", "failed", "module_not_ready"}

(* Where a task can be: each is the await it is suspended at.  Its locals  *)
(* are the call, the row, whether the client it captured is still open     *)
(* (conn), and the result it is about to record (note).                    *)
Places ==
  {"idle", "sweep", "insert", "audit_ask", "cancel_read", "cancel_write",
   "decide", "expire", "claim", "claimed", "lock", "flight", "audit"}

AnyCall == CHOOSE x \in Calls : TRUE

Idle == [pc |-> "idle", call |-> AnyCall, row |-> NoRow, conn |-> FALSE,
         note |-> "ok"]

At(t, p) == task[t].pc = p
Goto(t, p) == task' = [task EXCEPT ![t].pc = p]
Return(t) == task' = [task EXCEPT ![t] = Idle]

(* The outcome is known: what is left is its audit row.                    *)
Conclude(t, result) ==
  task' = [task EXCEPT ![t] = [@ EXCEPT !.pc = "audit", !.note = result]]

Dest(t) == Target[task[t].call]

(* A task stands for row r from its winning claim to its audit row.        *)
Carries(t, r) ==
  task[t].row = r /\ task[t].pc \in {"claimed", "lock", "flight", "audit"}

Release(t) == [m \in Modules |-> IF lock[m] = t THEN NoTask ELSE lock[m]]

Init ==
  /\ now = 0
  /\ status = [r \in Rows |-> "absent"]
  /\ frozen = [r \in Rows |-> AnyCall]
  /\ expires = [r \in Rows |-> 0]
  /\ health = [m \in Modules |-> "down"]
  /\ lock = [m \in Modules |-> NoTask]
  /\ task = [t \in Tasks |-> Idle]
  /\ log = [r \in Rows |-> {}]
  /\ claimed = {}
  /\ sent = [r \in Rows |-> 0]
  /\ lost = {}

-----------------------------------------------------------------------------
(* ModuleAPI.call and call_read: what happens before the first await.      *)

(* The gate denies: only the audit row remains to be written.              *)
Deny(t, x) ==
  /\ At(t, "idle")
  /\ health[Target[x]] = "ready"
  /\ Verdict[x] = "deny"
  /\ x \notin OwnerMay
  /\ task' = [task EXCEPT ![t] = [Idle EXCEPT !.pc = "audit", !.call = x,
                                              !.note = "denied"]]
  /\ UNCHANGED <<now, dbVars, health, lock, log, histVars>>

(* The gate allows, or the owner acts on a tool that is not destructive:   *)
(* the client is captured here and used once the lock is ours.             *)
Allow(t, x) ==
  /\ At(t, "idle")
  /\ health[Target[x]] = "ready"
  /\ Verdict[x] = "allow" \/ x \in OwnerMay
  /\ task' = [task EXCEPT ![t] = [Idle EXCEPT !.pc = "lock", !.call = x,
                                              !.conn = TRUE]]
  /\ UNCHANGED <<now, dbVars, health, lock, log, histVars>>

(* Bound: a question is asked only while an unused id is left for it.  The *)
(* code draws a fresh uuid for each.                                       *)
IdLeft ==
  Cardinality({t \in Tasks : task[t].pc \in {"sweep", "insert"}})
    < Cardinality({r \in Rows : status[r] = "absent"})

(* The gate wants a human: _create_pending is entered.                     *)
Ask(t, x) ==
  /\ At(t, "idle")
  /\ IdLeft
  /\ health[Target[x]] = "ready"
  /\ Verdict[x] = "confirm"
  /\ x \notin OwnerMay
  /\ task' = [task EXCEPT ![t] = [Idle EXCEPT !.pc = "sweep", !.call = x]]
  /\ UNCHANGED <<now, dbVars, health, lock, log, histVars>>

(* Store.expire_pending: every row that is due, not only this task's.      *)
Lapsed == {r \in Rows : status[r] = "pending" /\ expires[r] <= now}

Sweep(t) ==
  /\ At(t, "sweep")
  /\ status' = [r \in Rows |-> IF r \in Lapsed THEN "expired" ELSE status[r]]
  /\ Goto(t, "insert")
  /\ UNCHANGED <<now, frozen, expires, health, lock, log, histVars>>

(* Store.create_pending, after which the question is published.            *)
Insert(t, r) ==
  /\ At(t, "insert")
  /\ status[r] = "absent"
  /\ status' = [status EXCEPT ![r] = "pending"]
  /\ frozen' = [frozen EXCEPT ![r] = task[t].call]
  /\ expires' = [expires EXCEPT ![r] = now + TTL]
  /\ task' = [task EXCEPT ![t] = [@ EXCEPT !.pc = "audit_ask", !.row = r]]
  /\ UNCHANGED <<now, health, lock, log, histVars>>

(* The audit row of the question.  A routine then withdraws the question   *)
(* it has just asked (SchedulerService._run_steps); anyone else is done.   *)
AuditAsk(t) ==
  /\ At(t, "audit_ask")
  /\ IF task[t].call \in Routine THEN Goto(t, "cancel_read") ELSE Return(t)
  /\ UNCHANGED <<now, dbVars, health, lock, log, histVars>>

-----------------------------------------------------------------------------
(* ModuleAPI.cancel: read the row, look at it, write it.                   *)

CancelRead(t) ==
  /\ At(t, "cancel_read")
  /\ IF status[task[t].row] = "pending" THEN Goto(t, "cancel_write")
                                        ELSE Return(t)
  /\ UNCHANGED <<now, dbVars, health, lock, log, histVars>>

(* Mutant of CancelWrite: the other spelling, which no reader knows.       *)
CancelMisspelt(t) ==
  /\ At(t, "cancel_write")
  /\ status' = [status EXCEPT ![task[t].row] = "canceled"]
  /\ Return(t)
  /\ UNCHANGED <<now, frozen, expires, health, lock, log, histVars>>

(* set_pending_status names the row and nothing else: whatever happened to *)
(* it since CancelRead is overwritten.                                     *)
CancelWrite(t) ==
  /\ At(t, "cancel_write")
  /\ status' = [status EXCEPT ![task[t].row] = "cancelled"]
  /\ Return(t)
  /\ UNCHANGED <<now, frozen, expires, health, lock, log, histVars>>

-----------------------------------------------------------------------------
(* ModuleAPI.confirm: a human says yes to row r.                           *)

(* Mutant of ConfirmRead: the arguments the model has in its context now.  *)
ConfirmLiveArgs(t, r) ==
  /\ At(t, "idle")
  /\ status[r] = "pending"
  /\ \E x \in Calls :
       task' = [task EXCEPT ![t] = [Idle EXCEPT !.pc = "decide", !.row = r,
                                                !.call = x]]
  /\ UNCHANGED <<now, dbVars, health, lock, log, histVars>>

(* get_pending; a row that is missing or not pending ends it.              *)
ConfirmRead(t, r) ==
  /\ At(t, "idle")
  /\ status[r] = "pending"
  /\ task' = [task EXCEPT ![t] = [Idle EXCEPT !.pc = "decide", !.row = r,
                                              !.call = frozen[r]]]
  /\ UNCHANGED <<now, dbVars, health, lock, log, histVars>>

(* Back from the store: the clock, then the module, are looked at.         *)
Decide(t) ==
  /\ At(t, "decide")
  /\ \/ /\ now > expires[task[t].row]
        /\ Goto(t, "expire")
     \/ /\ now <= expires[task[t].row]
        /\ health[Dest(t)] = "ready"
        /\ Goto(t, "claim")
     \/ /\ now <= expires[task[t].row]
        /\ health[Dest(t)] # "ready"
        /\ Return(t)
  /\ UNCHANGED <<now, dbVars, health, lock, log, histVars>>

(* set_pending_status(pid, "expired"), again whatever the row has become.  *)
ExpireWrite(t) ==
  /\ At(t, "expire")
  /\ status' = [status EXCEPT ![task[t].row] = "expired"]
  /\ Return(t)
  /\ UNCHANGED <<now, frozen, expires, health, lock, log, histVars>>

(* One UPDATE; the task goes on if it changed the row.                     *)
ClaimWhen(t, claimable) ==
  /\ At(t, "claim")
  /\ IF claimable
       THEN /\ status' = [status EXCEPT ![task[t].row] = "confirmed"]
            /\ claimed' = claimed \cup {task[t].row}
            /\ Goto(t, "claimed")
       ELSE /\ Return(t)
            /\ UNCHANGED <<status, claimed>>
  /\ UNCHANGED <<now, frozen, expires, health, lock, log, sent, lost>>

(* Mutants of Claim: a WHERE that names only the id, and one that excludes *)
(* only rows confirmed before.                                             *)
ClaimAlways(t) == ClaimWhen(t, TRUE)
ClaimLapsed(t) == ClaimWhen(t, status[task[t].row] # "confirmed")

(* Store.consume_pending: the compare-and-set.                             *)
Claim(t) == ClaimWhen(t, status[task[t].row] = "pending")

-----------------------------------------------------------------------------
(* ModuleAPI._dispatch.                                                    *)

(* Mutant of Dispatch: without a client, a bare error and no audit row.    *)
DispatchBareError(t) ==
  /\ At(t, "claimed")
  /\ IF health[Dest(t)] = "down"
       THEN Return(t)
       ELSE task' = [task EXCEPT ![t] = [@ EXCEPT !.pc = "lock",
                                                  !.conn = TRUE]]
  /\ UNCHANGED <<now, dbVars, health, lock, log, histVars>>

(* Mutant of Dispatch: without a client, the question is asked again.      *)
DispatchReopens(t) ==
  /\ At(t, "claimed")
  /\ IF health[Dest(t)] = "down"
       THEN /\ Conclude(t, "module_not_ready")
            /\ status' = [status EXCEPT ![task[t].row] = "pending"]
       ELSE /\ task' = [task EXCEPT ![t] = [@ EXCEPT !.pc = "lock", !.conn = TRUE]]
            /\ UNCHANGED status
  /\ UNCHANGED <<now, frozen, expires, health, lock, log, histVars>>

(* The module was ready before the claim; it may have no client now.  One  *)
(* that is starting again has one, and readiness is not asked again.       *)
Dispatch(t) ==
  /\ At(t, "claimed")
  /\ IF health[Dest(t)] = "down"
       THEN Conclude(t, "module_not_ready")
       ELSE task' = [task EXCEPT ![t] = [@ EXCEPT !.pc = "lock",
                                                  !.conn = TRUE]]
  /\ UNCHANGED <<now, dbVars, health, lock, log, histVars>>

(* call_tool under the lock; a client closed while the task waited refuses *)
(* the request.                                                            *)
Request(t) ==
  /\ lock' = [lock EXCEPT ![Dest(t)] = t]
  /\ IF task[t].conn
       THEN /\ Goto(t, "flight")
            /\ sent' = IF task[t].row = NoRow THEN sent
                       ELSE [sent EXCEPT ![task[t].row] = @ + 1]
       ELSE /\ Conclude(t, "failed")
            /\ UNCHANGED sent
  /\ UNCHANGED <<now, dbVars, health, log, claimed, lost>>

(* Mutant of Acquire: the call does not wait for the module's lock.        *)
AcquireUnlocked(t) == At(t, "lock") /\ Request(t)

Acquire(t) == At(t, "lock") /\ lock[Dest(t)] = NoTask /\ Request(t)

(* The module answers: the lock is given back before the audit row.        *)
Reply(t) ==
  /\ At(t, "flight")
  /\ task[t].conn
  /\ \E result \in {"ok", "failed"} : Conclude(t, result)
  /\ lock' = Release(t)
  /\ UNCHANGED <<now, dbVars, health, log, histVars>>

FailAs(t, result) ==
  /\ At(t, "flight")
  /\ Conclude(t, result)
  /\ UNCHANGED <<now, dbVars, health, lock, log, histVars>>

(* Mutants of Fail: no timeout, so that only a closed client ends a wait;  *)
(* and an answer that never came, recorded as a call that was never made.  *)
FailWithoutTimeout(t) == ~task[t].conn /\ FailAs(t, "failed")
FailNotReady(t) == FailAs(t, "module_not_ready")

(* A timeout, an error of the protocol or a closed client: the audit row   *)
(* is written with the lock held.                                          *)
Fail(t) == FailAs(t, "failed")

(* _audit and the return to the caller.  A store that refuses the row does *)
(* not fail the call: the record is lost.                                  *)
Audit(t) ==
  /\ At(t, "audit")
  /\ \/ /\ log' = [r \in Rows |-> IF r = task[t].row
                                  THEN log[r] \cup {task[t].note} ELSE log[r]]
        /\ UNCHANGED lost
     \/ /\ lost' = lost \cup ({task[t].row} \ {NoRow})
        /\ UNCHANGED log
  /\ lock' = Release(t)
  /\ Return(t)
  /\ UNCHANGED <<now, dbVars, health, claimed, sent>>

-----------------------------------------------------------------------------
(* The task is cancelled, or the statement it waits for raises: the        *)
(* exception leaves every frame and the lock with it.                      *)
Abandon(t) ==
  /\ ~At(t, "idle")
  /\ lost' = lost \cup {r \in Rows : Carries(t, r)}
  /\ lock' = Release(t)
  /\ Return(t)
  /\ UNCHANGED <<now, dbVars, health, log, claimed, sent>>

(* The hub dies and is started again: only the database is left.           *)
Crash ==
  /\ lost' = lost \cup {r \in Rows : \E t \in Tasks : Carries(t, r)}
  /\ lock' = [m \in Modules |-> NoTask]
  /\ task' = [t \in Tasks |-> Idle]
  /\ health' = [m \in Modules |-> "down"]
  /\ UNCHANGED <<now, dbVars, log, claimed, sent>>

Tick ==
  /\ now < MaxTime
  /\ now' = now + 1
  /\ UNCHANGED <<dbVars, health, lock, task, log, histVars>>

(* What the supervisor does to a module, as this path sees it: it opens a  *)
(* client, finds the module well or unwell, and closes the client, which   *)
(* every task that captured it finds closed from then on.                  *)
SetHealth(m, h) ==
  /\ health[m] # h
  /\ h = "ready" => health[m] = "open"
  /\ health' = [health EXCEPT ![m] = h]
  /\ UNCHANGED <<now, dbVars, lock, log, histVars>>

OpenClient(m) == health[m] = "down" /\ SetHealth(m, "open") /\ UNCHANGED task
Unwell(m) == health[m] = "ready" /\ SetHealth(m, "open") /\ UNCHANGED task
Well(m) == SetHealth(m, "ready") /\ UNCHANGED task

CloseClient(m) ==
  /\ SetHealth(m, "down")
  /\ task' = [t \in Tasks |-> IF Dest(t) = m THEN [task[t] EXCEPT !.conn = FALSE]
                                            ELSE task[t]]

(* What a task does when nobody else need do anything for it.              *)
Continue(t) ==
  \/ Sweep(t)
  \/ \E r \in Rows : Insert(t, r)
  \/ AuditAsk(t)
  \/ CancelRead(t)
  \/ CancelWrite(t)
  \/ Decide(t)
  \/ ExpireWrite(t)
  \/ Claim(t)
  \/ Dispatch(t)
  \/ Fail(t)
  \/ Audit(t)

Next ==
  \/ \E t \in Tasks, x \in Calls : Deny(t, x) \/ Allow(t, x) \/ Ask(t, x)
  \/ \E t \in Tasks, r \in Rows : ConfirmRead(t, r)
  \/ \E t \in Tasks : Continue(t) \/ Acquire(t) \/ Reply(t) \/ Abandon(t)
  \/ \E m \in Modules : OpenClient(m) \/ Well(m) \/ Unwell(m) \/ CloseClient(m)
  \/ Crash
  \/ Tick

Spec == Init /\ [][Next]_vars

(* Every await of a task ends: the store answers, a request times out, and *)
(* asyncio.Lock serves its waiters in the order they came, so a waiter that *)
(* finds the lock free again and again is served.  Nothing obliges a module *)
(* to answer, nor a human, the clock or the supervisor to act.             *)
Fairness ==
  \A t \in Tasks : WF_vars(Continue(t)) /\ SF_vars(Acquire(t))

FairSpec == Spec /\ Fairness

-----------------------------------------------------------------------------
Locals ==
  [pc : Places, call : Calls, row : Rows \cup {NoRow}, conn : BOOLEAN,
   note : Results]

(* Every variable has its type.                                            *)
TypeOK ==
  /\ now \in Nat
  /\ status \in [Rows -> Statuses]
  /\ frozen \in [Rows -> Calls]
  /\ expires \in [Rows -> Nat]
  /\ health \in [Modules -> {"down", "open", "ready"}]
  /\ lock \in [Modules -> Tasks \cup {NoTask}]
  /\ task \in [Tasks -> Locals]
  /\ log \in [Rows -> SUBSET Results]
  /\ claimed \in SUBSET Rows
  /\ sent \in [Rows -> Nat]
  /\ lost \in SUBSET Rows

(* "A single human approval cannot fire the frozen destructive call twice" *)
(* (_confirm): whatever is confirmed, cancelled, swept or restarted in     *)
(* between, the call of a row is handed to a module at most once.          *)
AtMostOnce == \A r \in Rows : sent[r] <= 1

(* "What the user approves is what runs" (create_pending): a call the gate *)
(* wants confirmed is in a module only on behalf of a row that was claimed *)
(* and that froze this very call.                                          *)
OnlyApprovedRuns ==
  \A t \in Tasks :
    (At(t, "flight") /\ Verdict[task[t].call] # "allow"
                    /\ task[t].call \notin OwnerMay)
      => \E r \in claimed : task[t].row = r /\ frozen[r] = task[t].call

(* An approval never vanishes: a claimed row is being carried out, or the  *)
(* audit table tells how it ended, or the hub lost the task or the record. *)
NoSilentApproval ==
  \A r \in claimed :
    r \in lost \/ log[r] # {} \/ \E t \in Tasks : Carries(t, r)

(* The audit table tells the truth: one outcome for a row, "ok" only for a *)
(* call that was handed over, "module_not_ready" only for one that was not. *)
AuditIsTrue ==
  \A r \in Rows :
    /\ \A a, b \in log[r] : a = b
    /\ "ok" \in log[r] => sent[r] = 1
    /\ "module_not_ready" \in log[r] => sent[r] = 0

(* "One in-flight call per module" (_dispatch): never two answers awaited. *)
OneInFlight ==
  \A t, u \in Tasks :
    At(t, "flight") /\ At(u, "flight") /\ Dest(t) = Dest(u) => t = u

(* A question once settled is never open again and never asks something    *)
(* else, whichever of the five writers of the row comes last.              *)
NeverReopened ==
  [][\A r \in Rows :
       status[r] # "absent" =>
         /\ frozen'[r] = frozen[r]
         /\ status'[r] # "absent"
         /\ status[r] # "pending" => status'[r] # "pending"]_vars

(* Every caller is answered: no call, confirmation or cancellation hangs   *)
(* on a module that does not answer, on a lock or on a lost race.          *)
EveryCallReturns == \A t \in Tasks : ~At(t, "idle") ~> At(t, "idle")

(* The abstract promise, with the row as a human sees it.                  *)
Answer ==
  [r \in Rows |->
     IF r \in claimed THEN "granted"
     ELSE CASE status[r] = "absent" -> "none"
            [] status[r] = "pending" -> "open"
            [] OTHER -> "withdrawn"]

Confirmations == INSTANCE Approval WITH answer <- Answer, runs <- sent

ImplementsApproval == Confirmations!ASpec

(* The inductive invariant behind the properties above.  A task past       *)
(* get_pending or create_pending knows its row; what it is about is what   *)
(* the row froze; a task in flight holds the lock of its module.           *)
RowHeld == {"audit_ask", "cancel_read", "cancel_write", "decide", "expire",
            "claim", "claimed"}

WellTyped == TypeOK /\ \A t \in Tasks : task[t].pc \in RowHeld => task[t].row \in Rows

TaskInv(t) ==
  /\ task[t].pc \in {"audit_ask", "cancel_read", "cancel_write", "decide", "expire",
                    "claim", "claimed", "lock", "flight"}
       => (task[t].row \in Rows => /\ status[task[t].row] # "absent"
                                  /\ frozen[task[t].row] = task[t].call)
  /\ (task[t].pc \in {"lock", "flight"} /\ task[t].row = NoRow)
       => Verdict[task[t].call] = "allow" \/ task[t].call \in OwnerMay
  /\ At(t, "flight") => lock[Dest(t)] = t

(* A claimed row is settled and somebody answers for it; any other row has *)
(* neither been sent nor logged.                                           *)
RowInv(r) ==
  /\ r \in claimed => /\ status[r] \notin {"absent", "pending"}
                      /\ r \in lost \/ log[r] # {} \/ \E t \in Tasks : Carries(t, r)
  /\ r \notin claimed => sent[r] = 0 /\ log[r] = {}
  /\ sent[r] \in {0, 1}
  /\ \A a, b \in log[r] : a = b
  /\ "ok" \in log[r] => sent[r] = 1
  /\ "module_not_ready" \in log[r] => sent[r] = 0

(* One task carries a claimed row, and how often the row was sent follows  *)
(* from where that task is.                                                *)
CarryInv(t, r) ==
  Carries(t, r) =>
    /\ r \in claimed
    /\ log[r] = {}
    /\ task[t].pc \in {"claimed", "lock"} => sent[r] = 0
    /\ At(t, "flight") => sent[r] = 1
    /\ At(t, "audit") => /\ task[t].note = "ok" => sent[r] = 1
                         /\ task[t].note = "module_not_ready" => sent[r] = 0
    /\ \A u \in Tasks : Carries(u, r) => u = t

IInv ==
  /\ WellTyped
  /\ \A t \in Tasks : TaskInv(t)
  /\ \A r \in Rows : RowInv(r)
  /\ \A t \in Tasks, r \in Rows : CarryInv(t, r)

(* A routine "must not leave a destructive confirmation card sitting for a *)
(* signed-in human to approve out of band" (_run_steps): a question whose  *)
(* row says it was cancelled was not carried out.                          *)
CancelledNeverRuns ==
  \A r \in Rows : status[r] = "cancelled" => sent[r] = 0

=============================================================================
