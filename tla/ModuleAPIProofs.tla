-------------------------- MODULE ModuleAPIProofs --------------------------
(***************************************************************************)
(* Proofs about the call path, for any tasks, modules, calls and rows.     *)
(*                                                                         *)
(* All of them rest on IInv of ModuleAPI.  A row is carried by one task    *)
(* from its winning claim to its audit row, and how often it was sent is a *)
(* function of where that task is (CarryInv); every other row is either    *)
(* untouched or settled (RowInv).  One lemma per action shows that it      *)
(* keeps IInv; QuietStep serves the actions of tasks that carry no row,    *)
(* CarrierMoves those that move a carrier on.                              *)
(***************************************************************************)
EXTENDS ModuleAPI, TLAPS

(* The locals of an idle task are well typed.                              *)
LEMMA IdleType == Idle \in Locals /\ AnyCall \in Calls /\ Idle.pc = "idle"
BY ModuleAPIAssumption DEF Idle, AnyCall, Locals, Places, Results

(* A task that only moves to p keeps its other locals.                     *)
LEMMA GotoFacts ==
  ASSUME TypeOK, NEW t \in Tasks, NEW p \in Places, Goto(t, p)
  PROVE  /\ task' \in [Tasks -> Locals]
         /\ task'[t] = [task[t] EXCEPT !.pc = p]
         /\ task'[t].pc = p
         /\ task'[t].call = task[t].call /\ task'[t].row = task[t].row
         /\ task'[t].conn = task[t].conn /\ task'[t].note = task[t].note
         /\ \A u \in Tasks \ {t} : task'[u] = task[u]
<1> DEFINE new == [task[t] EXCEPT !.pc = p]
<1>1. task[t] \in Locals
  BY DEF TypeOK
<1>2. /\ new \in Locals
      /\ new.pc = p /\ new.call = task[t].call /\ new.row = task[t].row
      /\ new.conn = task[t].conn /\ new.note = task[t].note
  BY <1>1 DEF Locals
<1>3. task' = [task EXCEPT ![t] = new]
  BY DEF Goto
<1> HIDE DEF new
<1>4. /\ task' \in [Tasks -> Locals]
      /\ task'[t] = new
      /\ \A u \in Tasks \ {t} : task'[u] = task[u]
  BY <1>2, <1>3 DEF TypeOK
<1> QED
  BY <1>2, <1>4 DEF new

(* A task that concludes is at "audit" with its result.                    *)
LEMMA ConcludeFacts ==
  ASSUME TypeOK, NEW t \in Tasks, NEW result \in Results, Conclude(t, result)
  PROVE  /\ task' \in [Tasks -> Locals]
         /\ task'[t].pc = "audit" /\ task'[t].note = result
         /\ task'[t].call = task[t].call /\ task'[t].row = task[t].row
         /\ \A u \in Tasks \ {t} : task'[u] = task[u]
<1> DEFINE new == [task[t] EXCEPT !.pc = "audit", !.note = result]
<1>1. task[t] \in Locals
  BY DEF TypeOK
<1>2. /\ new \in Locals /\ new.pc = "audit" /\ new.note = result
      /\ new.call = task[t].call /\ new.row = task[t].row
  BY <1>1 DEF Locals, Places
<1>3. task' = [task EXCEPT ![t] = new]
  BY DEF Conclude
<1> HIDE DEF new
<1>4. /\ task' \in [Tasks -> Locals]
      /\ task'[t] = new
      /\ \A u \in Tasks \ {t} : task'[u] = task[u]
  BY <1>2, <1>3 DEF TypeOK
<1> QED
  BY <1>2, <1>4

(* The rows a step does not concern: t carries them neither before nor     *)
(* after it, and nothing that is recorded about them changes.              *)
LEMMA QuietRow ==
  ASSUME IInv, NEW t \in Tasks, NEW r \in Rows,
         \A u \in Tasks \ {t} : task'[u] = task[u],
         ~Carries(t, r), ~Carries(t, r)',
         r \in claimed' <=> r \in claimed,
         sent'[r] = sent[r], log'[r] = log[r],
         r \in lost => r \in lost',
         r \in claimed => status'[r] \notin {"absent", "pending"}
  PROVE  RowInv(r)' /\ \A u \in Tasks : CarryInv(u, r)'
<1>1. \A u \in Tasks : Carries(u, r)' <=> Carries(u, r)
  BY DEF Carries
<1>2. RowInv(r)'
  BY <1>1 DEF IInv, RowInv
<1>3. ASSUME NEW u \in Tasks, Carries(u, r)'
      PROVE  CarryInv(u, r)'
  <2>1. Carries(u, r) /\ task'[u] = task[u]
    BY <1>1, <1>3
  <2> QED
    BY <1>1, <2>1 DEF IInv, CarryInv, At
<1> QED
  BY <1>2, <1>3 DEF CarryInv

(* A task that returned is idle and carries no row.                        *)
LEMMA ReturnFacts ==
  ASSUME TypeOK, NEW t \in Tasks, Return(t)
  PROVE  /\ task' \in [Tasks -> Locals]
         /\ task'[t] = Idle /\ task'[t].pc = "idle"
         /\ \A r \in Rows : ~Carries(t, r)'
         /\ \A u \in Tasks \ {t} : task'[u] = task[u]
BY IdleType DEF TypeOK, Return, Carries

(* What a step of t leaves true of the other tasks.                        *)
LEMMA Elsewhere ==
  ASSUME IInv, NEW t \in Tasks,
         \A u \in Tasks \ {t} : task'[u] = task[u],
         \A r \in Rows : status[r] # "absent"
                           => status'[r] # "absent" /\ frozen'[r] = frozen[r],
         \A m \in Modules, u \in Tasks \ {t} : lock[m] = u => lock'[m] = u
  PROVE  \A u \in Tasks \ {t} : TaskInv(u)'
<1> SUFFICES ASSUME NEW u \in Tasks \ {t} PROVE TaskInv(u)'
  OBVIOUS
<1>1. task'[u] = task[u] /\ TaskInv(u) /\ Dest(u) \in Modules
  BY ModuleAPIAssumption DEF IInv, WellTyped, TypeOK, Locals, Dest
<1> QED
  BY <1>1 DEF TaskInv, At, Dest

(* A step of a task that carries no row and records nothing: what is left  *)
(* to show is its own part of the invariant and what it does to the table. *)
LEMMA QuietStep ==
  ASSUME IInv, NEW t \in Tasks, WellTyped', TaskInv(t)',
         UNCHANGED <<lock, claimed, sent, log, lost>>,
         \A u \in Tasks \ {t} : task'[u] = task[u],
         \A q \in Rows : ~Carries(t, q) /\ ~Carries(t, q)',
         \A q \in Rows : status[q] # "absent" =>
           /\ status'[q] # "absent" /\ frozen'[q] = frozen[q]
           /\ q \in claimed => status'[q] \notin {"absent", "pending"}
  PROVE  IInv'
<1>1. \A u \in Tasks \ {t} : TaskInv(u)'
  BY Elsewhere
<1>2. \A q \in claimed : q \in Rows /\ status'[q] \notin {"absent", "pending"}
  BY DEF IInv, RowInv, WellTyped, TypeOK
<1>3. ASSUME NEW q \in Rows
      PROVE  RowInv(q)' /\ \A u \in Tasks : CarryInv(u, q)'
  BY <1>2, QuietRow
<1> QED
  BY <1>1, <1>3 DEF IInv

(* The gate denies.                                                        *)
LEMMA DenyStep ==
  ASSUME IInv, NEW t \in Tasks, NEW x \in Calls, Deny(t, x)
  PROVE  IInv'
<1> USE ModuleAPIAssumption DEF At, dbVars, histVars, Deny
<1>1. TypeOK /\ WellTyped /\ task[t] \in Locals
  BY DEF IInv, WellTyped, TypeOK
<1>2. /\ task' \in [Tasks -> Locals]
      /\ \A u \in Tasks \ {t} : task'[u] = task[u]
      /\ task'[t].pc \in RowHeld => task'[t].row \in Rows
      /\ \A q \in Rows : ~Carries(t, q) /\ ~Carries(t, q)'
  BY <1>1, IdleType, ZenonT(60)
     DEF Goto, Return, Idle, WellTyped, TypeOK, Locals, Places, Results, RowHeld, Carries
<1>3. WellTyped'
  BY <1>1, <1>2 DEF Locals, WellTyped, TypeOK, Statuses
<1>4. TaskInv(t)'
  BY <1>1, <1>2, IdleType DEF Goto, Return, Idle, IInv, TaskInv, Dest, Locals, RowHeld, WellTyped, TypeOK
<1>5. \A q \in Rows : status[q] # "absent" =>
        /\ status'[q] # "absent" /\ frozen'[q] = frozen[q]
        /\ q \in claimed => status'[q] \notin {"absent", "pending"}
  BY <1>1 DEF IInv, RowInv, WellTyped, TypeOK
<1> QED
  BY <1>2, <1>3, <1>4, <1>5, QuietStep

(* The gate allows, or the owner acts.                                     *)
LEMMA AllowStep ==
  ASSUME IInv, NEW t \in Tasks, NEW x \in Calls, Allow(t, x)
  PROVE  IInv'
<1> USE ModuleAPIAssumption DEF At, dbVars, histVars, Allow
<1>1. TypeOK /\ WellTyped /\ task[t] \in Locals
  BY DEF IInv, WellTyped, TypeOK
<1>2. /\ task' \in [Tasks -> Locals]
      /\ \A u \in Tasks \ {t} : task'[u] = task[u]
      /\ task'[t].pc \in RowHeld => task'[t].row \in Rows
      /\ \A q \in Rows : ~Carries(t, q) /\ ~Carries(t, q)'
  BY <1>1, IdleType, ZenonT(60)
     DEF Goto, Return, Idle, WellTyped, TypeOK, Locals, Places, Results, RowHeld, Carries
<1>3. WellTyped'
  BY <1>1, <1>2 DEF Locals, WellTyped, TypeOK, Statuses
<1>4. TaskInv(t)'
  BY <1>1, <1>2, IdleType DEF Goto, Return, Idle, IInv, TaskInv, Dest, Locals, RowHeld, WellTyped, TypeOK
<1>5. \A q \in Rows : status[q] # "absent" =>
        /\ status'[q] # "absent" /\ frozen'[q] = frozen[q]
        /\ q \in claimed => status'[q] \notin {"absent", "pending"}
  BY <1>1 DEF IInv, RowInv, WellTyped, TypeOK
<1> QED
  BY <1>2, <1>3, <1>4, <1>5, QuietStep

(* _create_pending is entered.                                             *)
LEMMA AskStep ==
  ASSUME IInv, NEW t \in Tasks, NEW x \in Calls, Ask(t, x)
  PROVE  IInv'
<1> USE ModuleAPIAssumption DEF At, dbVars, histVars, Ask
<1>1. TypeOK /\ WellTyped /\ task[t] \in Locals
  BY DEF IInv, WellTyped, TypeOK
<1>2. /\ task' \in [Tasks -> Locals]
      /\ \A u \in Tasks \ {t} : task'[u] = task[u]
      /\ task'[t].pc \in RowHeld => task'[t].row \in Rows
      /\ \A q \in Rows : ~Carries(t, q) /\ ~Carries(t, q)'
  BY <1>1, IdleType, ZenonT(60)
     DEF Goto, Return, Idle, WellTyped, TypeOK, Locals, Places, Results, RowHeld, Carries
<1>3. WellTyped'
  BY <1>1, <1>2 DEF Locals, WellTyped, TypeOK, Statuses
<1>4. TaskInv(t)'
  BY <1>1, <1>2, IdleType DEF Goto, Return, Idle, IInv, TaskInv, Dest, Locals, RowHeld, WellTyped, TypeOK
<1>5. \A q \in Rows : status[q] # "absent" =>
        /\ status'[q] # "absent" /\ frozen'[q] = frozen[q]
        /\ q \in claimed => status'[q] \notin {"absent", "pending"}
  BY <1>1 DEF IInv, RowInv, WellTyped, TypeOK
<1> QED
  BY <1>2, <1>3, <1>4, <1>5, QuietStep

(* confirm reads a pending row.                                            *)
LEMMA ConfirmReadStep ==
  ASSUME IInv, NEW t \in Tasks, NEW r \in Rows, ConfirmRead(t, r)
  PROVE  IInv'
<1> USE ModuleAPIAssumption DEF At, dbVars, histVars, ConfirmRead
<1>1. TypeOK /\ WellTyped /\ task[t] \in Locals
  BY DEF IInv, WellTyped, TypeOK
<1>2. /\ task' \in [Tasks -> Locals]
      /\ \A u \in Tasks \ {t} : task'[u] = task[u]
      /\ task'[t].pc \in RowHeld => task'[t].row \in Rows
      /\ \A q \in Rows : ~Carries(t, q) /\ ~Carries(t, q)'
  BY <1>1, IdleType, ZenonT(60)
     DEF Goto, Return, Idle, WellTyped, TypeOK, Locals, Places, Results, RowHeld, Carries
<1>3. WellTyped'
  BY <1>1, <1>2 DEF Locals, WellTyped, TypeOK, Statuses
<1>4. TaskInv(t)'
  BY <1>1, <1>2, IdleType DEF Goto, Return, Idle, IInv, TaskInv, Dest, Locals, RowHeld, WellTyped, TypeOK
<1>5. \A q \in Rows : status[q] # "absent" =>
        /\ status'[q] # "absent" /\ frozen'[q] = frozen[q]
        /\ q \in claimed => status'[q] \notin {"absent", "pending"}
  BY <1>1 DEF IInv, RowInv, WellTyped, TypeOK
<1> QED
  BY <1>2, <1>3, <1>4, <1>5, QuietStep

(* expire_pending.                                                         *)
LEMMA SweepStep ==
  ASSUME IInv, NEW t \in Tasks, Sweep(t)
  PROVE  IInv'
<1> USE ModuleAPIAssumption DEF At, dbVars, histVars, Sweep
<1>1. TypeOK /\ WellTyped /\ task[t] \in Locals
  BY DEF IInv, WellTyped, TypeOK
<1>2. /\ task' \in [Tasks -> Locals]
      /\ \A u \in Tasks \ {t} : task'[u] = task[u]
      /\ task'[t].pc \in RowHeld => task'[t].row \in Rows
      /\ \A q \in Rows : ~Carries(t, q) /\ ~Carries(t, q)'
  BY <1>1, GotoFacts, ReturnFacts DEF WellTyped, TypeOK, Locals, Places, Results, RowHeld, Carries
<1>3. WellTyped'
  BY <1>1, <1>2 DEF Locals, WellTyped, TypeOK, Statuses, Lapsed
<1>4. TaskInv(t)'
  <2>1. task'[t].pc = "insert"
    BY <1>1, GotoFacts, ReturnFacts DEF Places
  <2> QED
    BY <2>1 DEF TaskInv
<1>5. \A q \in Rows : status[q] # "absent" =>
        /\ status'[q] # "absent" /\ frozen'[q] = frozen[q]
        /\ q \in claimed => status'[q] \notin {"absent", "pending"}
  BY <1>1 DEF IInv, RowInv, WellTyped, TypeOK, Lapsed
<1> QED
  BY <1>2, <1>3, <1>4, <1>5, QuietStep

(* create_pending freezes the call in a row not used before.               *)
LEMMA InsertStep ==
  ASSUME IInv, NEW t \in Tasks, NEW r \in Rows, Insert(t, r)
  PROVE  IInv'
<1> USE ModuleAPIAssumption DEF At, dbVars, histVars, Insert
<1>1. TypeOK /\ WellTyped /\ task[t] \in Locals
  BY DEF IInv, WellTyped, TypeOK
<1>2. /\ task' \in [Tasks -> Locals]
      /\ \A u \in Tasks \ {t} : task'[u] = task[u]
      /\ task'[t].pc \in RowHeld => task'[t].row \in Rows
      /\ \A q \in Rows : ~Carries(t, q) /\ ~Carries(t, q)'
  BY <1>1, IdleType, ZenonT(60)
     DEF Goto, Return, Idle, WellTyped, TypeOK, Locals, Places, Results, RowHeld, Carries
<1>3. WellTyped'
  BY <1>1, <1>2, task[t].call \in Calls, now + TTL \in Nat DEF Locals, WellTyped, TypeOK, Statuses
<1>4. TaskInv(t)'
  BY <1>1, <1>2, IdleType DEF Goto, Return, Idle, IInv, TaskInv, Dest, Locals, RowHeld, WellTyped, TypeOK
<1>5. \A q \in Rows : status[q] # "absent" =>
        /\ status'[q] # "absent" /\ frozen'[q] = frozen[q]
        /\ q \in claimed => status'[q] \notin {"absent", "pending"}
  BY <1>1 DEF IInv, RowInv, WellTyped, TypeOK
<1> QED
  BY <1>2, <1>3, <1>4, <1>5, QuietStep

(* The question is audited.                                                *)
LEMMA AuditAskStep ==
  ASSUME IInv, NEW t \in Tasks, AuditAsk(t)
  PROVE  IInv'
<1> USE ModuleAPIAssumption DEF At, dbVars, histVars, AuditAsk
<1>1. TypeOK /\ WellTyped /\ task[t] \in Locals
  BY DEF IInv, WellTyped, TypeOK
<1>2. /\ task' \in [Tasks -> Locals]
      /\ \A u \in Tasks \ {t} : task'[u] = task[u]
      /\ task'[t].pc \in RowHeld => task'[t].row \in Rows
      /\ \A q \in Rows : ~Carries(t, q) /\ ~Carries(t, q)'
  BY <1>1, GotoFacts, ReturnFacts DEF WellTyped, TypeOK, Locals, Places, Results, RowHeld, Carries
<1>3. WellTyped'
  BY <1>1, <1>2 DEF Locals, WellTyped, TypeOK, Statuses
<1>4. TaskInv(t)'
  <2>1. TaskInv(t)
    BY DEF IInv
  <2>2. CASE Return(t)
    BY <1>1, <2>2, ReturnFacts DEF TaskInv
  <2>3. CASE Goto(t, "cancel_read")
    <3>1. /\ task'[t].pc = "cancel_read"
          /\ task'[t].row = task[t].row /\ task'[t].call = task[t].call
      BY <1>1, <2>3, GotoFacts DEF Places
    <3> QED
      BY <2>1, <3>1 DEF TaskInv
  <2> QED
    BY <2>2, <2>3
<1>5. \A q \in Rows : status[q] # "absent" =>
        /\ status'[q] # "absent" /\ frozen'[q] = frozen[q]
        /\ q \in claimed => status'[q] \notin {"absent", "pending"}
  BY <1>1 DEF IInv, RowInv, WellTyped, TypeOK
<1> QED
  BY <1>2, <1>3, <1>4, <1>5, QuietStep

(* cancel reads the row.                                                   *)
LEMMA CancelReadStep ==
  ASSUME IInv, NEW t \in Tasks, CancelRead(t)
  PROVE  IInv'
<1> USE ModuleAPIAssumption DEF At, dbVars, histVars, CancelRead
<1>1. TypeOK /\ WellTyped /\ task[t] \in Locals
  BY DEF IInv, WellTyped, TypeOK
<1>2. /\ task' \in [Tasks -> Locals]
      /\ \A u \in Tasks \ {t} : task'[u] = task[u]
      /\ task'[t].pc \in RowHeld => task'[t].row \in Rows
      /\ \A q \in Rows : ~Carries(t, q) /\ ~Carries(t, q)'
  BY <1>1, GotoFacts, ReturnFacts DEF WellTyped, TypeOK, Locals, Places, Results, RowHeld, Carries
<1>3. WellTyped'
  BY <1>1, <1>2 DEF Locals, WellTyped, TypeOK, Statuses
<1>4. TaskInv(t)'
  <2>1. TaskInv(t)
    BY DEF IInv
  <2>2. CASE Return(t)
    BY <1>1, <2>2, ReturnFacts DEF TaskInv
  <2>3. CASE Goto(t, "cancel_write")
    <3>1. /\ task'[t].pc = "cancel_write"
          /\ task'[t].row = task[t].row /\ task'[t].call = task[t].call
      BY <1>1, <2>3, GotoFacts DEF Places
    <3> QED
      BY <2>1, <3>1 DEF TaskInv
  <2> QED
    BY <2>2, <2>3
<1>5. \A q \in Rows : status[q] # "absent" =>
        /\ status'[q] # "absent" /\ frozen'[q] = frozen[q]
        /\ q \in claimed => status'[q] \notin {"absent", "pending"}
  BY <1>1 DEF IInv, RowInv, WellTyped, TypeOK
<1> QED
  BY <1>2, <1>3, <1>4, <1>5, QuietStep

(* cancel writes the row, whatever it has become.                          *)
LEMMA CancelWriteStep ==
  ASSUME IInv, NEW t \in Tasks, CancelWrite(t)
  PROVE  IInv'
<1> USE ModuleAPIAssumption DEF At, dbVars, histVars, CancelWrite
<1>1. TypeOK /\ WellTyped /\ task[t] \in Locals
  BY DEF IInv, WellTyped, TypeOK
<1>2. /\ task' \in [Tasks -> Locals]
      /\ \A u \in Tasks \ {t} : task'[u] = task[u]
      /\ task'[t].pc \in RowHeld => task'[t].row \in Rows
      /\ \A q \in Rows : ~Carries(t, q) /\ ~Carries(t, q)'
  BY <1>1, GotoFacts, ReturnFacts DEF WellTyped, TypeOK, Locals, Places, Results, RowHeld, Carries
<1>3. WellTyped'
  BY <1>1, <1>2 DEF Locals, WellTyped, TypeOK, Statuses
<1>4. TaskInv(t)'
  BY <1>1, <1>2, GotoFacts, ReturnFacts DEF IInv, TaskInv, Dest, Locals, RowHeld, WellTyped, TypeOK
<1>5. \A q \in Rows : status[q] # "absent" =>
        /\ status'[q] # "absent" /\ frozen'[q] = frozen[q]
        /\ q \in claimed => status'[q] \notin {"absent", "pending"}
  BY <1>1 DEF IInv, RowInv, WellTyped, TypeOK
<1> QED
  BY <1>2, <1>3, <1>4, <1>5, QuietStep

(* confirm looks at the clock and the module.                              *)
LEMMA DecideStep ==
  ASSUME IInv, NEW t \in Tasks, Decide(t)
  PROVE  IInv'
<1> USE ModuleAPIAssumption DEF At, dbVars, histVars, Decide
<1>1. TypeOK /\ WellTyped /\ task[t] \in Locals
  BY DEF IInv, WellTyped, TypeOK
<1>2. /\ task' \in [Tasks -> Locals]
      /\ \A u \in Tasks \ {t} : task'[u] = task[u]
      /\ task'[t].pc \in RowHeld => task'[t].row \in Rows
      /\ \A q \in Rows : ~Carries(t, q) /\ ~Carries(t, q)'
  BY <1>1, GotoFacts, ReturnFacts DEF WellTyped, TypeOK, Locals, Places, Results, RowHeld, Carries
<1>3. WellTyped'
  BY <1>1, <1>2 DEF Locals, WellTyped, TypeOK, Statuses
<1>4. TaskInv(t)'
  <2>1. TaskInv(t)
    BY DEF IInv
  <2>2. CASE Return(t)
    BY <1>1, <2>2, ReturnFacts DEF TaskInv
  <2>3. CASE Goto(t, "expire") \/ Goto(t, "claim")
    <3>1. /\ task'[t].pc \in {"expire", "claim"}
          /\ task'[t].row = task[t].row /\ task'[t].call = task[t].call
      BY <1>1, <2>3, GotoFacts DEF Places
    <3> QED
      BY <2>1, <3>1 DEF TaskInv
  <2> QED
    BY <2>2, <2>3
<1>5. \A q \in Rows : status[q] # "absent" =>
        /\ status'[q] # "absent" /\ frozen'[q] = frozen[q]
        /\ q \in claimed => status'[q] \notin {"absent", "pending"}
  BY <1>1 DEF IInv, RowInv, WellTyped, TypeOK
<1> QED
  BY <1>2, <1>3, <1>4, <1>5, QuietStep

(* confirm marks the row expired, whatever it has become.                  *)
LEMMA ExpireWriteStep ==
  ASSUME IInv, NEW t \in Tasks, ExpireWrite(t)
  PROVE  IInv'
<1> USE ModuleAPIAssumption DEF At, dbVars, histVars, ExpireWrite
<1>1. TypeOK /\ WellTyped /\ task[t] \in Locals
  BY DEF IInv, WellTyped, TypeOK
<1>2. /\ task' \in [Tasks -> Locals]
      /\ \A u \in Tasks \ {t} : task'[u] = task[u]
      /\ task'[t].pc \in RowHeld => task'[t].row \in Rows
      /\ \A q \in Rows : ~Carries(t, q) /\ ~Carries(t, q)'
  BY <1>1, GotoFacts, ReturnFacts DEF WellTyped, TypeOK, Locals, Places, Results, RowHeld, Carries
<1>3. WellTyped'
  BY <1>1, <1>2 DEF Locals, WellTyped, TypeOK, Statuses
<1>4. TaskInv(t)'
  BY <1>1, <1>2, GotoFacts, ReturnFacts DEF IInv, TaskInv, Dest, Locals, RowHeld, WellTyped, TypeOK
<1>5. \A q \in Rows : status[q] # "absent" =>
        /\ status'[q] # "absent" /\ frozen'[q] = frozen[q]
        /\ q \in claimed => status'[q] \notin {"absent", "pending"}
  BY <1>1 DEF IInv, RowInv, WellTyped, TypeOK
<1> QED
  BY <1>2, <1>3, <1>4, <1>5, QuietStep

(* The row a task carries after the step, alone.                           *)
LEMMA CarriedRow ==
  ASSUME NEW t \in Tasks, NEW r \in Rows,
         Carries(t, r)', \A u \in Tasks \ {t} : ~Carries(u, r)',
         r \in claimed', status'[r] \notin {"absent", "pending"},
         log'[r] = {}, sent'[r] \in {0, 1},
         task'[t].pc \in {"claimed", "lock"} => sent'[r] = 0,
         task'[t].pc = "flight" => sent'[r] = 1,
         task'[t].pc = "audit" => /\ task'[t].note = "ok" => sent'[r] = 1
                                  /\ task'[t].note = "module_not_ready"
                                       => sent'[r] = 0
  PROVE  RowInv(r)' /\ \A u \in Tasks : CarryInv(u, r)'
<1>1. RowInv(r)'
  BY DEF RowInv
<1>2. \A u \in Tasks : CarryInv(u, r)'
  BY DEF CarryInv, At
<1> QED
  BY <1>1, <1>2

(* Nobody carries a row but the task that does.                            *)
LEMMA LoneCarrier ==
  ASSUME IInv, NEW t \in Tasks, NEW r \in Rows, Carries(t, r),
         \A u \in Tasks \ {t} : task'[u] = task[u]
  PROVE  /\ \A u \in Tasks \ {t} : ~Carries(u, r)'
         /\ r \in claimed /\ log[r] = {}
         /\ status[r] \notin {"absent", "pending"}
<1>1. CarryInv(t, r) /\ RowInv(r)
  BY DEF IInv
<1> QED
  BY <1>1 DEF CarryInv, RowInv, Carries

(* consume_pending: the winner begins to carry the row.                    *)
LEMMA ClaimStep ==
  ASSUME IInv, NEW t \in Tasks, Claim(t)
  PROVE  IInv'
<1> USE ModuleAPIAssumption DEF At, dbVars, histVars, Claim, ClaimWhen
<1> SUFFICES ASSUME NEW p, p = task[t].row
             PROVE  IInv'
  OBVIOUS
<1>1. /\ TypeOK /\ WellTyped /\ task[t] \in Locals
      /\ p \in Rows /\ TaskInv(t)
      /\ \A q \in Rows : ~Carries(t, q)
  BY DEF IInv, WellTyped, TypeOK, RowHeld, Carries
<1>2. CASE status[p] = "pending"
  <2>1. /\ Goto(t, "claimed")
        /\ status' = [status EXCEPT ![p] = "confirmed"]
        /\ claimed' = claimed \cup {p}
        /\ UNCHANGED <<now, frozen, expires, health, lock, log, sent, lost>>
    BY <1>2
  <2>2. /\ task' \in [Tasks -> Locals]
        /\ task'[t].pc = "claimed" /\ task'[t].row = p
        /\ task'[t].call = task[t].call
        /\ \A u \in Tasks \ {t} : task'[u] = task[u]
    BY <1>1, <2>1, GotoFacts DEF Places
  <2>3. WellTyped'
    BY <1>1, <2>1, <2>2 DEF WellTyped, TypeOK, Statuses
  <2>4. TaskInv(t)'
    BY <1>1, <2>1, <2>2 DEF TaskInv, TypeOK
  <2>5. \A u \in Tasks \ {t} : TaskInv(u)'
    BY <1>1, <2>1, <2>2, Elsewhere DEF TypeOK
  <2>6. p \notin claimed /\ sent[p] = 0 /\ log[p] = {}
    BY <1>1, <1>2 DEF IInv, RowInv
  <2>7. \A u \in Tasks \ {t} : ~Carries(u, p)'
    BY <1>1, <2>2, <2>6 DEF IInv, CarryInv, Carries
  <2>8. RowInv(p)' /\ \A u \in Tasks : CarryInv(u, p)'
    <3>1. Carries(t, p)' /\ p \in claimed' /\ status'[p] = "confirmed"
      BY <1>1, <2>1, <2>2 DEF Carries, TypeOK
    <3>2. task'[t].pc \notin {"flight", "audit"} /\ log'[p] = {} /\ sent'[p] = 0
      BY <2>1, <2>2, <2>6
    <3> QED
      BY <1>1, <2>7, <3>1, <3>2, CarriedRow
  <2>9. ASSUME NEW q \in Rows \ {p}
        PROVE  RowInv(q)' /\ \A u \in Tasks : CarryInv(u, q)'
    <3>1. ~Carries(t, q) /\ ~Carries(t, q)'
      BY <1>1, <2>2 DEF Carries
    <3>2. q \in claimed => status'[q] \notin {"absent", "pending"}
      BY <1>1, <2>1 DEF IInv, RowInv, TypeOK
    <3> QED
      BY <2>1, <2>2, <3>1, <3>2, QuietRow
  <2> QED
    BY <2>3, <2>4, <2>5, <2>8, <2>9 DEF IInv
<1>3. CASE status[p] # "pending"
  <2>1. Return(t) /\ UNCHANGED <<now, dbVars, health, lock, log, histVars>>
    BY <1>3
  <2>2. /\ task' \in [Tasks -> Locals]
        /\ task'[t].pc = "idle"
        /\ \A q \in Rows : ~Carries(t, q)'
        /\ \A u \in Tasks \ {t} : task'[u] = task[u]
    BY <1>1, <2>1, ReturnFacts
  <2>3. WellTyped'
    BY <1>1, <2>1, <2>2 DEF WellTyped, TypeOK, RowHeld
  <2>4. \A u \in Tasks : TaskInv(u)'
    <3>1. TaskInv(t)'
      BY <2>2 DEF TaskInv
    <3> QED
      BY <2>1, <2>2, <3>1, Elsewhere
  <2>5. \A q \in Rows : RowInv(q)' /\ \A u \in Tasks : CarryInv(u, q)'
    BY <1>1, <2>1, <2>2, QuietRow DEF IInv, RowInv
  <2> QED
    BY <2>3, <2>4, <2>5 DEF IInv
<1> QED
  BY <1>2, <1>3

(* A step of t that only moves it on, whatever it carries: Dispatch,       *)
(* Request, Reply, Fail.  What the row must satisfy is left to the caller. *)
LEMMA CarrierMoves ==
  ASSUME IInv, NEW t \in Tasks,
         \A u \in Tasks \ {t} : task'[u] = task[u],
         task'[t].row = task[t].row,
         task[t].pc \in {"claimed", "lock", "flight"},
         task'[t].pc \in {"lock", "flight", "audit"},
         UNCHANGED <<dbVars, log, claimed, lost>>,
         \A q \in Rows : q # task[t].row => sent'[q] = sent[q],
         task[t].row \in Rows =>
           /\ sent'[task[t].row] \in {0, 1}
           /\ task'[t].pc = "lock" => sent'[task[t].row] = 0
           /\ task'[t].pc = "flight" => sent'[task[t].row] = 1
           /\ task'[t].pc = "audit" =>
                /\ task'[t].note = "ok" => sent'[task[t].row] = 1
                /\ task'[t].note = "module_not_ready" => sent'[task[t].row] = 0
  PROVE  \A q \in Rows : RowInv(q)' /\ \A u \in Tasks : CarryInv(u, q)'
<1> USE DEF dbVars
<1>1. ASSUME NEW q \in Rows, q = task[t].row
      PROVE  RowInv(q)' /\ \A u \in Tasks : CarryInv(u, q)'
  <2>1. Carries(t, q) /\ Carries(t, q)'
    BY <1>1 DEF Carries
  <2>2. /\ \A u \in Tasks \ {t} : ~Carries(u, q)'
        /\ q \in claimed' /\ log'[q] = {}
        /\ status'[q] \notin {"absent", "pending"}
    BY <2>1, LoneCarrier
  <2> QED
    BY <1>1, <2>1, <2>2, CarriedRow
<1>2. ASSUME NEW q \in Rows, q # task[t].row
      PROVE  RowInv(q)' /\ \A u \in Tasks : CarryInv(u, q)'
  <2>1. ~Carries(t, q) /\ ~Carries(t, q)'
    BY <1>2 DEF Carries
  <2>2. q \in claimed => status'[q] \notin {"absent", "pending"}
    BY DEF IInv, RowInv
  <2> QED
    BY <1>2, <2>1, <2>2, QuietRow
<1> QED
  BY <1>1, <1>2

(* _dispatch captures the client, or finds none.                           *)
LEMMA DispatchStep ==
  ASSUME IInv, NEW t \in Tasks, Dispatch(t)
  PROVE  IInv'
<1> USE ModuleAPIAssumption DEF At, dbVars, histVars, Dispatch
<1>1. /\ TypeOK /\ WellTyped /\ task[t] \in Locals
      /\ task[t].row \in Rows /\ TaskInv(t)
  BY DEF IInv, WellTyped, TypeOK, RowHeld
<1>2. sent[task[t].row] = 0
  BY <1>1 DEF IInv, CarryInv, Carries
<1>3. /\ task' \in [Tasks -> Locals]
      /\ task'[t].row = task[t].row /\ task'[t].call = task[t].call
      /\ \/ task'[t].pc = "lock"
         \/ task'[t].pc = "audit" /\ task'[t].note = "module_not_ready"
      /\ \A u \in Tasks \ {t} : task'[u] = task[u]
  <2>1. CASE Conclude(t, "module_not_ready")
    BY <1>1, <2>1, ConcludeFacts DEF Results
  <2>2. CASE task' = [task EXCEPT ![t] = [@ EXCEPT !.pc = "lock", !.conn = TRUE]]
    <3> DEFINE new == [task[t] EXCEPT !.pc = "lock", !.conn = TRUE]
    <3>1. /\ new \in Locals /\ new.pc = "lock"
          /\ new.call = task[t].call /\ new.row = task[t].row
      BY <1>1 DEF Locals, Places
    <3>2. task' = [task EXCEPT ![t] = new]
      BY <2>2
    <3> HIDE DEF new
    <3>3. /\ task' \in [Tasks -> Locals] /\ task'[t] = new
          /\ \A u \in Tasks \ {t} : task'[u] = task[u]
      BY <1>1, <3>1, <3>2 DEF TypeOK
    <3> QED
      BY <3>1, <3>3
  <2> QED
    BY <2>1, <2>2
<1>4. WellTyped'
  BY <1>1, <1>3 DEF WellTyped, TypeOK, RowHeld
<1>5. TaskInv(t)'
  BY <1>1, <1>3 DEF TaskInv
<1>6. \A u \in Tasks \ {t} : TaskInv(u)'
  BY <1>3, Elsewhere
<1>7. \A q \in Rows : RowInv(q)' /\ \A u \in Tasks : CarryInv(u, q)'
  BY <1>1, <1>2, <1>3, CarrierMoves
<1> QED
  BY <1>4, <1>5, <1>6, <1>7 DEF IInv

(* call_tool under the lock: the only place where sent grows.              *)
LEMMA AcquireStep ==
  ASSUME IInv, NEW t \in Tasks, Acquire(t)
  PROVE  IInv'
<1> USE ModuleAPIAssumption DEF At, dbVars, histVars, Acquire, Request
<1> SUFFICES ASSUME NEW p, p = task[t].row
             PROVE  IInv'
  OBVIOUS
<1>1. /\ TypeOK /\ WellTyped /\ task[t] \in Locals
      /\ TaskInv(t) /\ Dest(t) \in Modules
  BY DEF IInv, WellTyped, TypeOK, Locals, Dest
<1>2. p \in Rows => sent[p] = 0
  BY <1>1 DEF IInv, CarryInv, Carries
<1>3. /\ task' \in [Tasks -> Locals]
      /\ task'[t].row = p /\ task'[t].call = task[t].call
      /\ \/ task'[t].pc = "flight"
         \/ task'[t].pc = "audit" /\ task'[t].note = "failed" /\ sent' = sent
      /\ \A u \in Tasks \ {t} : task'[u] = task[u]
  <2>1. CASE task[t].conn
    BY <1>1, <2>1, GotoFacts DEF Places
  <2>2. CASE ~task[t].conn
    BY <1>1, <2>2, ConcludeFacts DEF Results
  <2> QED
    BY <2>1, <2>2
<1>4. /\ sent' \in [Rows -> Nat]
      /\ \A q \in Rows : q # p => sent'[q] = sent[q]
      /\ p \in Rows /\ task'[t].pc = "flight" => sent'[p] = 1
  <2>1. CASE task[t].conn
    <3>1. sent' = IF p = NoRow THEN sent ELSE [sent EXCEPT ![p] = @ + 1]
      BY <2>1
    <3>2. CASE p = NoRow
      BY <1>1, <3>1, <3>2 DEF TypeOK
    <3>3. CASE p # NoRow
      <4>1. p \in Rows
        BY <1>1, <3>3 DEF Locals
      <4>2. sent' = [sent EXCEPT ![p] = 1]
        <5>1. sent[p] + 1 = 1
          BY <1>2, <4>1
        <5> QED
          BY <3>1, <3>3, <5>1
      <4> QED
        BY <1>1, <4>1, <4>2 DEF TypeOK
    <3> QED
      BY <3>2, <3>3
  <2>2. CASE ~task[t].conn
    <3>1. task'[t].pc = "audit" /\ sent' = sent
      BY <1>1, <2>2, ConcludeFacts DEF Results
    <3> QED
      BY <1>1, <3>1 DEF TypeOK
  <2> QED
    BY <2>1, <2>2
<1>5. WellTyped'
  BY <1>1, <1>3, <1>4 DEF WellTyped, TypeOK, RowHeld
<1>6. TaskInv(t)'
  BY <1>1, <1>3 DEF TaskInv, Dest, TypeOK
<1>7. \A u \in Tasks \ {t} : TaskInv(u)'
  BY <1>1, <1>3, Elsewhere DEF TypeOK
<1>8. \A q \in Rows : RowInv(q)' /\ \A u \in Tasks : CarryInv(u, q)'
  BY <1>1, <1>2, <1>3, <1>4, CarrierMoves
<1> QED
  BY <1>5, <1>6, <1>7, <1>8 DEF IInv

(* The module answers.                                                     *)
LEMMA ReplyStep ==
  ASSUME IInv, NEW t \in Tasks, Reply(t)
  PROVE  IInv'
<1> USE ModuleAPIAssumption DEF At, dbVars, histVars, Reply, Release
<1>1. TypeOK /\ WellTyped /\ task[t] \in Locals /\ TaskInv(t)
  BY DEF IInv, WellTyped, TypeOK
<1>2. task[t].row \in Rows => sent[task[t].row] = 1
  BY <1>1 DEF IInv, CarryInv, Carries
<1>3. /\ task' \in [Tasks -> Locals]
      /\ task'[t].row = task[t].row
      /\ task'[t].pc = "audit" /\ task'[t].note \in {"ok", "failed"}
      /\ \A u \in Tasks \ {t} : task'[u] = task[u]
  BY <1>1, ConcludeFacts DEF Results
<1>4. WellTyped'
  BY <1>1, <1>3 DEF WellTyped, TypeOK, RowHeld
<1>5. TaskInv(t)'
  BY <1>3 DEF TaskInv
<1>6. \A u \in Tasks \ {t} : TaskInv(u)'
  BY <1>1, <1>3, Elsewhere DEF TypeOK
<1>7. \A q \in Rows : RowInv(q)' /\ \A u \in Tasks : CarryInv(u, q)'
  BY <1>1, <1>2, <1>3, CarrierMoves
<1> QED
  BY <1>4, <1>5, <1>6, <1>7 DEF IInv

(* The request fails.                                                      *)
LEMMA FailStep ==
  ASSUME IInv, NEW t \in Tasks, Fail(t)
  PROVE  IInv'
<1> USE ModuleAPIAssumption DEF At, dbVars, histVars, Fail, FailAs
<1>1. TypeOK /\ WellTyped /\ task[t] \in Locals /\ TaskInv(t)
  BY DEF IInv, WellTyped, TypeOK
<1>2. task[t].row \in Rows => sent[task[t].row] = 1
  BY <1>1 DEF IInv, CarryInv, Carries
<1>3. /\ task' \in [Tasks -> Locals]
      /\ task'[t].row = task[t].row
      /\ task'[t].pc = "audit" /\ task'[t].note = "failed"
      /\ \A u \in Tasks \ {t} : task'[u] = task[u]
  BY <1>1, ConcludeFacts DEF Results
<1>4. WellTyped'
  BY <1>1, <1>3 DEF WellTyped, TypeOK, RowHeld
<1>5. TaskInv(t)'
  BY <1>3 DEF TaskInv
<1>6. \A u \in Tasks \ {t} : TaskInv(u)'
  BY <1>3, Elsewhere
<1>7. \A q \in Rows : RowInv(q)' /\ \A u \in Tasks : CarryInv(u, q)'
  BY <1>1, <1>2, <1>3, CarrierMoves
<1> QED
  BY <1>4, <1>5, <1>6, <1>7 DEF IInv

(* The audit row ends what the claim began.                                *)
LEMMA AuditStep ==
  ASSUME IInv, NEW t \in Tasks, Audit(t)
  PROVE  IInv'
<1> USE ModuleAPIAssumption DEF At, dbVars, histVars, Audit, Release
<1> SUFFICES ASSUME NEW p, p = task[t].row
             PROVE  IInv'
  OBVIOUS
<1>1. TypeOK /\ WellTyped /\ task[t] \in Locals
  BY DEF IInv, WellTyped, TypeOK
<1>2. /\ task' \in [Tasks -> Locals]
      /\ task'[t].pc = "idle"
      /\ \A q \in Rows : ~Carries(t, q)'
      /\ \A u \in Tasks \ {t} : task'[u] = task[u]
  BY <1>1, ReturnFacts
<1>3. /\ log' \in [Rows -> SUBSET Results] /\ lost' \in SUBSET Rows
      /\ lost \subseteq lost'
      /\ \A q \in Rows : q # p => log'[q] = log[q]
      /\ p \in Rows => \/ log'[p] = log[p] \cup {task[t].note}
                       \/ log'[p] = log[p] /\ p \in lost'
  BY <1>1 DEF TypeOK, Locals
<1>4. WellTyped'
  BY <1>1, <1>2, <1>3 DEF WellTyped, TypeOK, RowHeld
<1>5. \A u \in Tasks : TaskInv(u)'
  <2>1. TaskInv(t)'
    BY <1>2 DEF TaskInv
  <2> QED
    BY <1>1, <1>2, <2>1, Elsewhere DEF TypeOK
<1>6. ASSUME NEW q \in Rows, q # p
      PROVE  RowInv(q)' /\ \A u \in Tasks : CarryInv(u, q)'
  <2>1. ~Carries(t, q)
    BY <1>6 DEF Carries
  <2> QED
    BY <1>2, <1>3, <1>6, <2>1, QuietRow DEF IInv, RowInv
<1>7. ASSUME p \in Rows
      PROVE  RowInv(p)' /\ \A u \in Tasks : CarryInv(u, p)'
  <2>1. Carries(t, p)
    BY DEF Carries
  <2>2. CarryInv(t, p) /\ RowInv(p)
    BY <1>7 DEF IInv
  <2>3. \A u \in Tasks : ~Carries(u, p)'
    BY <1>2, <1>7, <2>1, LoneCarrier
  <2>4. RowInv(p)'
    BY <1>3, <1>7, <2>1, <2>2 DEF RowInv, CarryInv
  <2> QED
    BY <2>3, <2>4 DEF CarryInv
<1> QED
  BY <1>4, <1>5, <1>6, <1>7 DEF IInv

(* The task is cancelled: what it carried is lost.                         *)
LEMMA AbandonStep ==
  ASSUME IInv, NEW t \in Tasks, Abandon(t)
  PROVE  IInv'
<1> USE ModuleAPIAssumption DEF At, dbVars, histVars, Abandon, Release
<1>1. TypeOK /\ WellTyped /\ task[t] \in Locals
  BY DEF IInv, WellTyped, TypeOK
<1>2. /\ task' \in [Tasks -> Locals]
      /\ task'[t].pc = "idle"
      /\ \A q \in Rows : ~Carries(t, q)'
      /\ \A u \in Tasks \ {t} : task'[u] = task[u]
  BY <1>1, ReturnFacts
<1>3. WellTyped'
  BY <1>1, <1>2 DEF WellTyped, TypeOK, RowHeld
<1>4. \A u \in Tasks : TaskInv(u)'
  <2>1. TaskInv(t)'
    BY <1>2 DEF TaskInv
  <2> QED
    BY <1>1, <1>2, <2>1, Elsewhere DEF TypeOK
<1>5. ASSUME NEW q \in Rows, ~Carries(t, q)
      PROVE  RowInv(q)' /\ \A u \in Tasks : CarryInv(u, q)'
  BY <1>2, <1>5, QuietRow DEF IInv, RowInv
<1>6. ASSUME NEW q \in Rows, Carries(t, q)
      PROVE  RowInv(q)' /\ \A u \in Tasks : CarryInv(u, q)'
  <2>1. \A u \in Tasks : ~Carries(u, q)'
    BY <1>2, <1>6, LoneCarrier
  <2>2. q \in claimed /\ q \in lost' /\ RowInv(q)
    BY <1>6, <1>2, LoneCarrier DEF IInv
  <2> QED
    BY <2>1, <2>2 DEF RowInv, CarryInv
<1> QED
  BY <1>3, <1>4, <1>5, <1>6 DEF IInv

(* The hub dies: what was carried is lost, the table is not.               *)
LEMMA CrashStep ==
  ASSUME IInv, Crash
  PROVE  IInv'
<1> USE ModuleAPIAssumption DEF At, dbVars, histVars, Crash
<1>1. \A t \in Tasks : task'[t] = Idle /\ task'[t].pc = "idle"
  BY IdleType
<1>2. WellTyped'
  BY <1>1, IdleType DEF IInv, WellTyped, TypeOK, RowHeld
<1>3. \A u \in Tasks : TaskInv(u)'
  BY <1>1 DEF TaskInv
<1>4. \A u \in Tasks, q \in Rows : CarryInv(u, q)'
  BY <1>1 DEF CarryInv, Carries
<1>5. \A q \in Rows : RowInv(q)'
  BY DEF IInv, RowInv
<1> QED
  BY <1>2, <1>3, <1>4, <1>5 DEF IInv

(* The supervisor and the clock change nothing this invariant is about but *)
(* the flag conn.                                                          *)
LEMMA EnvironmentStep ==
  ASSUME IInv,
         \/ \E m \in Modules : \/ OpenClient(m) \/ Well(m) \/ Unwell(m)
                               \/ CloseClient(m)
         \/ Tick
  PROVE  IInv'
<1> USE ModuleAPIAssumption DEF dbVars, histVars
<1>1. TypeOK /\ WellTyped
  BY DEF IInv, WellTyped
<1>2. /\ UNCHANGED <<status, frozen, expires, lock, log, claimed, sent, lost>>
      /\ health' \in [Modules -> {"down", "open", "ready"}]
      /\ now' \in Nat
  BY <1>1 DEF TypeOK, OpenClient, Well, Unwell, CloseClient, SetHealth, Tick
<1>3. /\ task' \in [Tasks -> Locals]
      /\ \A t \in Tasks : /\ task'[t].pc = task[t].pc
                          /\ task'[t].call = task[t].call
                          /\ task'[t].row = task[t].row
                          /\ task'[t].note = task[t].note
  <2>1. CASE UNCHANGED task
    BY <1>1, <2>1 DEF TypeOK
  <2>2. ASSUME NEW m \in Modules, CloseClient(m)
        PROVE  /\ task' \in [Tasks -> Locals]
               /\ \A t \in Tasks : /\ task'[t].pc = task[t].pc
                                   /\ task'[t].call = task[t].call
                                   /\ task'[t].row = task[t].row
                                   /\ task'[t].note = task[t].note
    <3> DEFINE new(t) == [task[t] EXCEPT !.conn = FALSE]
    <3>1. ASSUME NEW t \in Tasks
          PROVE  /\ new(t) \in Locals
                 /\ new(t).pc = task[t].pc /\ new(t).call = task[t].call
                 /\ new(t).row = task[t].row /\ new(t).note = task[t].note
      <4>1. task[t] \in Locals
        BY <1>1 DEF TypeOK
      <4> QED
        BY <4>1 DEF Locals
    <3>2. task' = [t \in Tasks |-> IF Dest(t) = m THEN new(t) ELSE task[t]]
      BY <2>2 DEF CloseClient
    <3> HIDE DEF new
    <3> QED
      BY <1>1, <3>1, <3>2 DEF TypeOK
  <2> QED
    BY <2>1, <2>2 DEF OpenClient, Well, Unwell, Tick
<1>4. \A t \in Tasks, q \in Rows : Carries(t, q)' <=> Carries(t, q)
  BY <1>3 DEF Carries
<1>5. WellTyped'
  BY <1>1, <1>2, <1>3 DEF WellTyped, TypeOK
<1>6. ASSUME NEW u \in Tasks PROVE TaskInv(u)'
  <2>1. TaskInv(u)
    BY DEF IInv
  <2> QED
    BY <1>2, <1>3, <2>1 DEF TaskInv, At, Dest
<1>7. ASSUME NEW q \in Rows PROVE RowInv(q)'
  <2>1. RowInv(q)
    BY DEF IInv
  <2> QED
    BY <1>2, <1>4, <2>1 DEF RowInv
<1>8. ASSUME NEW u \in Tasks, NEW q \in Rows PROVE CarryInv(u, q)'
  <2>1. CarryInv(u, q)
    BY DEF IInv
  <2> QED
    BY <1>2, <1>3, <1>4, <2>1 DEF CarryInv, At
<1> QED
  BY <1>5, <1>6, <1>7, <1>8 DEF IInv

(* A step that changes nothing.                                            *)
LEMMA StutterStep ==
  ASSUME IInv, UNCHANGED vars
  PROVE  IInv'
<1> USE DEF vars, dbVars, histVars
<1>1. WellTyped'
  BY DEF IInv, WellTyped, TypeOK
<1>2. \A u \in Tasks : TaskInv(u)'
  BY DEF IInv, TaskInv, At, Dest
<1>3. \A q \in Rows : RowInv(q)'
  BY DEF IInv, RowInv, Carries
<1>4. \A u \in Tasks, q \in Rows : CarryInv(u, q)'
  BY DEF IInv, CarryInv, Carries, At
<1> QED
  BY <1>1, <1>2, <1>3, <1>4 DEF IInv

(* The invariant holds at the start ...                                    *)
LEMMA InitInvariant == Init => IInv
<1> SUFFICES ASSUME Init PROVE IInv
  OBVIOUS
<1> USE ModuleAPIAssumption, IdleType DEF Init
<1>1. \A t \in Tasks : task[t].pc = "idle"
  OBVIOUS
<1>2. WellTyped
  BY <1>1 DEF WellTyped, TypeOK, Statuses, RowHeld
<1>3. \A t \in Tasks : TaskInv(t)
  BY <1>1 DEF TaskInv, At
<1>4. \A r \in Rows : RowInv(r)
  BY DEF RowInv
<1>5. \A t \in Tasks, r \in Rows : CarryInv(t, r)
  BY <1>1 DEF CarryInv, Carries
<1> QED
  BY <1>2, <1>3, <1>4, <1>5 DEF IInv

(* ... and every step keeps it.                                            *)
LEMMA NextInvariant == IInv /\ [Next]_vars => IInv'
<1> SUFFICES ASSUME IInv, [Next]_vars PROVE IInv'
  OBVIOUS
<1>1. ASSUME NEW t \in Tasks, NEW x \in Calls, Deny(t, x) \/ Allow(t, x) \/ Ask(t, x)
      PROVE  IInv'
  BY <1>1, DenyStep, AllowStep, AskStep
<1>2. ASSUME NEW t \in Tasks, NEW r \in Rows, ConfirmRead(t, r)
      PROVE  IInv'
  BY <1>2, ConfirmReadStep
<1>3. ASSUME NEW t \in Tasks, Continue(t)
      PROVE  IInv'
  BY <1>3, SweepStep, InsertStep, AuditAskStep, CancelReadStep, CancelWriteStep,
     DecideStep, ExpireWriteStep, ClaimStep, DispatchStep, FailStep, AuditStep
  DEF Continue
<1>4. ASSUME NEW t \in Tasks, Acquire(t) \/ Reply(t) \/ Abandon(t)
      PROVE  IInv'
  BY <1>4, AcquireStep, ReplyStep, AbandonStep
<1>5. CASE Crash
  BY <1>5, CrashStep
<1>6. CASE \/ \E m \in Modules : OpenClient(m) \/ Well(m) \/ Unwell(m) \/ CloseClient(m)
           \/ Tick
  BY <1>6, EnvironmentStep
<1>7. CASE UNCHANGED vars
  BY <1>7, StutterStep
<1> QED
  BY <1>1, <1>2, <1>3, <1>4, <1>5, <1>6, <1>7 DEF Next

(* IInv, the strengthening of every invariant below, holds in every        *)
(* reachable state: for any number of tasks, modules, calls and rows.      *)
THEOREM Invariance == Spec => []IInv
<1> QED
  BY InitInvariant, NextInvariant, PTL DEF Spec

(* Every variable of the call path keeps its type.                         *)
THEOREM TypeCorrectness == Spec => []TypeOK
<1>1. IInv => TypeOK
  BY DEF IInv, WellTyped
<1> QED
  BY <1>1, Invariance, PTL

(* A frozen call is handed to its module at most once, however many        *)
(* confirmations, sweeps, crashes and restarts there are.                  *)
THEOREM ApprovalFiresOnce == Spec => []AtMostOnce
<1>1. IInv => AtMostOnce
  BY DEF IInv, RowInv, AtMostOnce
<1> QED
  BY <1>1, Invariance, PTL

(* A call that needs a confirmation is in its module only for a claimed    *)
(* row that froze exactly this call.                                       *)
THEOREM ApprovedIsWhatRuns == Spec => []OnlyApprovedRuns
<1>1. ASSUME IInv, NEW t \in Tasks, At(t, "flight"),
             Verdict[task[t].call] # "allow", task[t].call \notin OwnerMay
      PROVE  \E r \in claimed : task[t].row = r /\ frozen[r] = task[t].call
  <2>1. task[t].row \in Rows
    BY <1>1 DEF IInv, WellTyped, TypeOK, Locals, TaskInv, At
  <2>2. Carries(t, task[t].row)
    BY <1>1 DEF Carries, At
  <2>3. task[t].row \in claimed
    BY <1>1, <2>1, <2>2 DEF IInv, CarryInv
  <2>4. frozen[task[t].row] = task[t].call
    BY <1>1, <2>1 DEF IInv, TaskInv, At
  <2> QED
    BY <2>3, <2>4
<1>2. IInv => OnlyApprovedRuns
  BY <1>1 DEF OnlyApprovedRuns
<1> QED
  BY <1>2, Invariance, PTL

(* A claimed row is always answered for: by a task, by the audit table, or *)
(* by a loss the hub can be shown to have suffered.                        *)
THEOREM ApprovalIsAccountedFor == Spec => []NoSilentApproval
<1>1. ASSUME IInv, NEW r \in claimed
      PROVE  r \in lost \/ log[r] # {} \/ \E t \in Tasks : Carries(t, r)
  <2>1. r \in Rows
    BY <1>1 DEF IInv, WellTyped, TypeOK
  <2> QED
    BY <1>1, <2>1 DEF IInv, RowInv
<1>2. IInv => NoSilentApproval
  BY <1>1 DEF NoSilentApproval
<1> QED
  BY <1>2, Invariance, PTL

(* The outcome in the audit table is unique and agrees with what was sent. *)
THEOREM AuditSoundness == Spec => []AuditIsTrue
<1>1. IInv => AuditIsTrue
  BY DEF IInv, RowInv, AuditIsTrue
<1> QED
  BY <1>1, Invariance, PTL

(* No module ever has two calls in flight.                                 *)
THEOREM MutualExclusion == Spec => []OneInFlight
<1>1. ASSUME IInv, NEW t \in Tasks, NEW u \in Tasks, At(t, "flight"),
             At(u, "flight"), Dest(t) = Dest(u)
      PROVE  t = u
  <2>1. lock[Dest(t)] = t /\ lock[Dest(u)] = u
    BY <1>1 DEF IInv, TaskInv
  <2> QED
    BY <1>1, <2>1
<1>2. IInv => OneInFlight
  BY <1>1 DEF OneInFlight
<1> QED
  BY <1>2, Invariance, PTL

-----------------------------------------------------------------------------
(* What a step may do to the rows of pending_calls.                        *)

(* The five writers of status, and what each leaves alone.                 *)
LEMMA RowWrites ==
  ASSUME TypeOK, [Next]_vars, NEW r \in Rows, status[r] # "absent"
  PROVE  /\ frozen'[r] = frozen[r]
         /\ status'[r] # "absent"
         /\ status[r] # "pending" => status'[r] # "pending"
<1> USE DEF dbVars, histVars, TypeOK
<1>1. ASSUME NEW t \in Tasks, Sweep(t)
      PROVE  /\ frozen' = frozen
             /\ status'[r] \in {status[r], "expired"}
  BY <1>1 DEF Sweep
<1>2. ASSUME NEW t \in Tasks, NEW q \in Rows, Insert(t, q)
      PROVE  frozen'[r] = frozen[r] /\ status'[r] = status[r]
  BY <1>2 DEF Insert
<1>3. ASSUME NEW t \in Tasks, CancelWrite(t) \/ ExpireWrite(t)
      PROVE  /\ frozen' = frozen
             /\ status'[r] \in {status[r], "cancelled", "expired"}
  BY <1>3 DEF CancelWrite, ExpireWrite
<1>4. ASSUME NEW t \in Tasks, Claim(t)
      PROVE  frozen' = frozen /\ status'[r] \in {status[r], "confirmed"}
  BY <1>4 DEF Claim, ClaimWhen
<1>5. ASSUME NEW t \in Tasks, NEW x \in Calls, Deny(t, x) \/ Allow(t, x) \/ Ask(t, x)
      PROVE  UNCHANGED <<frozen, status>>
  BY <1>5 DEF Deny, Allow, Ask
<1>6. ASSUME NEW t \in Tasks, NEW q \in Rows, ConfirmRead(t, q)
      PROVE  UNCHANGED <<frozen, status>>
  BY <1>6 DEF ConfirmRead
<1>7. ASSUME NEW t \in Tasks,
             \/ AuditAsk(t) \/ CancelRead(t) \/ Decide(t) \/ Dispatch(t)
             \/ Reply(t) \/ Fail(t) \/ Audit(t) \/ Acquire(t) \/ Abandon(t)
      PROVE  UNCHANGED <<frozen, status>>
  BY <1>7 DEF AuditAsk, CancelRead, Decide, Dispatch, Reply, Fail, FailAs,
              Audit, Acquire, Request, Abandon
<1>8. ASSUME NEW m \in Modules,
             OpenClient(m) \/ Well(m) \/ Unwell(m) \/ CloseClient(m)
      PROVE  UNCHANGED <<frozen, status>>
  BY <1>8 DEF OpenClient, Well, Unwell, CloseClient, SetHealth
<1>9. CASE Crash \/ Tick \/ UNCHANGED vars
  BY <1>9 DEF Crash, Tick, vars
<1> QED
  BY <1>1, <1>2, <1>3, <1>4, <1>5, <1>6, <1>7, <1>8, <1>9
  DEF Next, Continue

(* Whatever the order of its writers, a settled row is never pending again *)
(* and what it froze never changes.                                        *)
THEOREM SettledForGood == Spec => NeverReopened
<1>1. TypeOK /\ [Next]_vars =>
        [\A r \in Rows :
           status[r] # "absent" =>
             /\ frozen'[r] = frozen[r]
             /\ status'[r] # "absent"
             /\ status[r] # "pending" => status'[r] # "pending"]_vars
  BY RowWrites
<1> QED
  BY <1>1, TypeCorrectness, PTL DEF Spec, NeverReopened

-----------------------------------------------------------------------------
(* The refinement of Approval.                                             *)

(* The refinement mapping, case by case.                                   *)
LEMMA AnswerIs ==
  ASSUME NEW r \in Rows
  PROVE  /\ r \in claimed => Answer[r] = "granted"
         /\ r \notin claimed /\ status[r] = "absent" => Answer[r] = "none"
         /\ r \notin claimed /\ status[r] = "pending" => Answer[r] = "open"
         /\ r \notin claimed /\ status[r] \notin {"absent", "pending"}
              => Answer[r] = "withdrawn"
BY DEF Answer

(* A row that is written over while it is pending, or was settled before,  *)
(* is withdrawn; one that was claimed stays granted.                       *)
LEMMA OverwriteWithdraws ==
  ASSUME IInv, NEW p \in Rows, status[p] # "absent",
         NEW s \in {"cancelled", "expired"},
         status' = [status EXCEPT ![p] = s], UNCHANGED <<claimed, sent>>
  PROVE  Confirmations!ANext
<1> DEFINE S == IF Answer[p] = "open" THEN {p} ELSE {}
<1>1. S \in SUBSET Rows /\ \A r \in S : Answer[r] = "open"
  OBVIOUS
<1>2. status \in [Rows -> Statuses]
  BY DEF IInv, WellTyped, TypeOK
<1>3. ASSUME NEW r \in Rows
      PROVE  Answer'[r] = IF r \in S THEN "withdrawn" ELSE Answer[r]
  <2>1. CASE r # p
    <3>1. status'[r] = status[r] /\ r \notin S
      BY <1>2, <2>1
    <3> QED
      BY <3>1 DEF Answer
  <2>2. CASE r = p /\ p \in claimed
    BY <2>2 DEF Answer
  <2>3. CASE r = p /\ p \notin claimed
    <3>1. status'[p] = s /\ Answer'[p] = "withdrawn"
      BY <1>2, <2>3 DEF Answer
    <3>2. Answer[p] \in {"open", "withdrawn"}
      BY <2>3, AnswerIs
    <3> QED
      BY <2>3, <3>1, <3>2
  <2> QED
    BY <2>1, <2>2, <2>3
<1>4. Answer' = [r \in Rows |-> IF r \in S THEN "withdrawn" ELSE Answer[r]]
  BY <1>3 DEF Answer
<1>5. Confirmations!Withdraw(S)
  BY <1>1, <1>4 DEF Confirmations!Withdraw
<1> QED
  BY <1>1, <1>5 DEF Confirmations!ANext

(* expire_pending withdraws the open rows that are due.                    *)
LEMMA SweepWithdraws ==
  ASSUME IInv, NEW t \in Tasks, Sweep(t)
  PROVE  Confirmations!ANext
<1>1. Lapsed \in SUBSET Rows /\ \A r \in Lapsed : Answer[r] = "open"
  BY DEF IInv, RowInv, Lapsed, Answer
<1>2. ASSUME NEW r \in Rows
      PROVE  Answer'[r] = IF r \in Lapsed THEN "withdrawn" ELSE Answer[r]
  BY <1>1 DEF Sweep, Answer, histVars, IInv, RowInv, Lapsed
<1>3. Answer' = [r \in Rows |-> IF r \in Lapsed THEN "withdrawn" ELSE Answer[r]]
  BY <1>2 DEF Answer
<1>4. Confirmations!Withdraw(Lapsed)
  BY <1>1, <1>3 DEF Confirmations!Withdraw, Sweep, histVars
<1> QED
  BY <1>1, <1>4 DEF Confirmations!ANext

(* create_pending opens a question.                                        *)
LEMMA InsertOpens ==
  ASSUME IInv, NEW t \in Tasks, NEW r \in Rows, Insert(t, r)
  PROVE  Confirmations!ANext
<1>1. status \in [Rows -> Statuses] /\ r \notin claimed /\ Answer[r] = "none"
  BY DEF IInv, WellTyped, TypeOK, RowInv, Insert, Answer
<1>2. ASSUME NEW q \in Rows
      PROVE  Answer'[q] = IF q = r THEN "open" ELSE Answer[q]
  BY <1>1 DEF Insert, histVars, Answer
<1>3. Answer' = [Answer EXCEPT ![r] = "open"]
  BY <1>2 DEF Answer
<1>4. Confirmations!Open(r)
  BY <1>1, <1>3 DEF Confirmations!Open, Insert, histVars
<1> QED
  BY <1>4 DEF Confirmations!ANext

(* consume_pending grants an open question or changes nothing.             *)
LEMMA ClaimGrants ==
  ASSUME IInv, NEW t \in Tasks, Claim(t)
  PROVE  Confirmations!ANext \/ UNCHANGED Confirmations!avars
<1> SUFFICES ASSUME NEW p, p = task[t].row
             PROVE  Confirmations!ANext \/ UNCHANGED Confirmations!avars
  OBVIOUS
<1>1. status \in [Rows -> Statuses] /\ p \in Rows
  BY DEF IInv, WellTyped, TypeOK, RowHeld, Claim, ClaimWhen, At
<1>2. CASE status[p] = "pending"
  <2>1. p \notin claimed /\ Answer[p] = "open"
    BY <1>1, <1>2 DEF IInv, RowInv, Answer
  <2>2. ASSUME NEW q \in Rows
        PROVE  Answer'[q] = IF q = p THEN "granted" ELSE Answer[q]
    BY <1>1, <1>2, <2>1 DEF Claim, ClaimWhen, Answer
  <2>3. Answer' = [Answer EXCEPT ![p] = "granted"]
    BY <2>2 DEF Answer
  <2>4. Confirmations!Grant(p)
    BY <2>1, <2>3 DEF Confirmations!Grant, Claim, ClaimWhen
  <2> QED
    BY <1>1, <2>4 DEF Confirmations!ANext
<1>3. CASE status[p] # "pending"
  BY <1>3 DEF Claim, ClaimWhen, Confirmations!avars, Answer
<1> QED
  BY <1>2, <1>3

(* A request runs a granted question that has not run.                     *)
LEMMA RequestRuns ==
  ASSUME IInv, NEW t \in Tasks, Acquire(t)
  PROVE  Confirmations!ANext \/ UNCHANGED Confirmations!avars
<1> SUFFICES ASSUME NEW p, p = task[t].row
             PROVE  Confirmations!ANext \/ UNCHANGED Confirmations!avars
  OBVIOUS
<1>1. UNCHANGED Answer
  BY DEF Acquire, Request, dbVars, Answer
<1>2. CASE ~task[t].conn \/ p = NoRow
  BY <1>1, <1>2 DEF Acquire, Request, Confirmations!avars
<1>3. CASE task[t].conn /\ p # NoRow
  <2>1. p \in Rows
    BY <1>3 DEF IInv, WellTyped, TypeOK, Locals
  <2>2. Carries(t, p)
    BY DEF Acquire, At, Carries
  <2>3. p \in claimed /\ sent[p] = 0
    BY <2>1, <2>2 DEF IInv, CarryInv, Acquire, At
  <2>4. Answer[p] = "granted"
    BY <2>1, <2>3, AnswerIs
  <2>5. sent' = [sent EXCEPT ![p] = 1]
    <3>1. sent[p] + 1 = 1
      BY <2>3
    <3> QED
      BY <1>3, <3>1 DEF Acquire, Request
  <2>6. Confirmations!Run(p)
    BY <1>1, <2>3, <2>4, <2>5 DEF Confirmations!Run
  <2> QED
    BY <2>1, <2>6 DEF Confirmations!ANext
<1> QED
  BY <1>2, <1>3

(* Every step maps to a step of Approval or to a stutter.                  *)
LEMMA NextRefines ==
  ASSUME IInv, [Next]_vars
  PROVE  Confirmations!ANext \/ UNCHANGED Confirmations!avars
<1> USE DEF dbVars, histVars
<1>1. ASSUME UNCHANGED <<status, claimed, sent>>
      PROVE  UNCHANGED Confirmations!avars
  BY <1>1 DEF Confirmations!avars, Answer
<1>2. ASSUME NEW t \in Tasks, CancelWrite(t) \/ ExpireWrite(t)
      PROVE  Confirmations!ANext
  <2>1. task[t].row \in Rows /\ status[task[t].row] # "absent"
    BY <1>2 DEF IInv, WellTyped, TaskInv, RowHeld, CancelWrite, ExpireWrite, At
  <2> QED
    BY <1>2, <2>1, OverwriteWithdraws DEF CancelWrite, ExpireWrite
<1>3. ASSUME NEW t \in Tasks, NEW x \in Calls, Deny(t, x) \/ Allow(t, x) \/ Ask(t, x)
      PROVE  UNCHANGED <<status, claimed, sent>>
  BY <1>3 DEF Deny, Allow, Ask
<1>4. ASSUME NEW t \in Tasks, NEW q \in Rows, ConfirmRead(t, q)
      PROVE  UNCHANGED <<status, claimed, sent>>
  BY <1>4 DEF ConfirmRead
<1>5. ASSUME NEW t \in Tasks,
             \/ AuditAsk(t) \/ CancelRead(t) \/ Decide(t) \/ Dispatch(t)
             \/ Reply(t) \/ Fail(t) \/ Audit(t) \/ Abandon(t)
      PROVE  UNCHANGED <<status, claimed, sent>>
  BY <1>5 DEF AuditAsk, CancelRead, Decide, Dispatch, Reply, Fail, FailAs,
              Audit, Abandon
<1>6. ASSUME NEW m \in Modules,
             OpenClient(m) \/ Well(m) \/ Unwell(m) \/ CloseClient(m)
      PROVE  UNCHANGED <<status, claimed, sent>>
  BY <1>6 DEF OpenClient, Well, Unwell, CloseClient, SetHealth
<1>7. CASE Crash \/ Tick \/ UNCHANGED vars
  BY <1>1, <1>7 DEF Crash, Tick, vars
<1> QED
  BY <1>1, <1>2, <1>3, <1>4, <1>5, <1>6, <1>7, SweepWithdraws, InsertOpens,
     ClaimGrants, RequestRuns DEF Next, Continue

(* The call path implements the abstract confirmation: a question is asked *)
(* once, settled once, and carried out at most once, only if granted.      *)
THEOREM Refinement == Spec => ImplementsApproval
<1>1. Init => Confirmations!AInit
  BY DEF Init, Confirmations!AInit, Answer
<1>2. IInv /\ [Next]_vars => [Confirmations!ANext]_(Confirmations!avars)
  BY NextRefines
<1> QED
  BY <1>1, <1>2, Invariance, PTL DEF Spec, ImplementsApproval, Confirmations!ASpec

=============================================================================
