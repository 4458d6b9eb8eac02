-------------------------- MODULE SupervisorProofs --------------------------
(***************************************************************************)
(* What Supervisor promises, for any number of modules, retries and        *)
(* operations, and for any configuration and environment of the hub.       *)
(***************************************************************************)
EXTENDS Supervisor, TLAPS

(* An operation that stops m is under way; it still waits for the loop.    *)
Stopping(m) == op.on = m /\ op.kind # "bounce"
Waiting(m) == op.on = m /\ op.at = "task"

(* A process is there while it is being spawned, or while proc names it,   *)
(* and then the loop attends to it.  A loop that was cancelled may leave   *)
(* one behind to whoever cancelled it.                                     *)
Attended == {"handshake", "reject_close", "reject_kill", "abort", "wait", "unwind"}

ChildInv(m) ==
  /\ children[m] = IF mod[m].held \/ loop[m] = "spawning" THEN 1 ELSE 0
  /\ mod[m].held => loop[m] \in Attended \/ (loop[m] = "done" /\ (Stopping(m) \/ ~Up))
  /\ loop[m] = "unwind" => Stopping(m) \/ ~Up

(* A loop that runs belongs to a known module, has retries left, and is    *)
(* tracked, unless it was just cancelled.                                  *)
LoopInv(m) ==
  /\ loop[m] \notin Over => tracked[m] \/ Waiting(m)
  /\ loop[m] \notin Over => mod[m].restarts <= MaxRetries
  /\ ~mod[m].known => ~mod[m].held /\ loop[m] \in Over /\ ~tracked[m]

(* Without its key a module is not run, unless it is being stopped.        *)
KeyInv(m) ==
  /\ mod[m].state = "unconfigured" => ~mod[m].held /\ loop[m] \in Over
  /\ Missing(m) => (~mod[m].held /\ loop[m] \in Over) \/ Stopping(m)
  /\ children[m] > 0 => env[m] # Unset \/ Stopping(m)

(* Only the loop that waits for the exit of its process says ready.        *)
ReadyInv(m) ==
  Up => /\ loop[m] = "wait" => mod[m].client
        /\ mod[m].known /\ mod[m].state \in {"ready", "degraded"}
             => loop[m] \in {"wait", "probe", "close"} \/ Stopping(m)

(* What an operation that waits has done already.                          *)
OpInv ==
  \/ Idle
  \/ /\ Up /\ op.on \in Names /\ op.kind # "none"
     /\ op.at \in {"task", "kill"}
     /\ op.kind = "bounce" => op.at = "kill"
     /\ op.kind # "bounce" => ~tracked[op.on] /\ mod[op.on].known
     /\ op.kind # "bounce" /\ op.at = "kill" => loop[op.on] \in Over

ModuleInv(m) == ChildInv(m) /\ LoopInv(m) /\ KeyInv(m) /\ ReadyInv(m)

IInv == TypeOK /\ OpInv /\ \A m \in Names : ModuleInv(m)

-----------------------------------------------------------------------------
(* Steps that touch one module, and the modules they leave alone.          *)

Rows == [known : BOOLEAN, state : States, held : BOOLEAN, client : BOOLEAN,
         restarts : 0..(MaxRetries + 1), since : BOOLEAN]

SameRow(n) ==
  /\ mod'[n] = mod[n] /\ loop'[n] = loop[n] /\ tracked'[n] = tracked[n]
  /\ children'[n] = children[n] /\ env'[n] = env[n] /\ config'[n] = config[n]

LEMMA RowTypes ==
  ASSUME TypeOK
  PROVE  /\ mod \in [Names -> Rows] /\ loop \in [Names -> Places]
         /\ tracked \in [Names -> BOOLEAN] /\ children \in [Names -> Nat]
         /\ env \in [Names -> Values \cup {Unset}] /\ config \in [Names -> Values \cup {Unset}]
         /\ NoName \notin Names /\ Unset \notin Values /\ MaxRetries \in Nat
         /\ \A m \in Names : ChildEnv(m) \in Values \cup {Unset}
  BY SupervisorAssumption DEF TypeOK, Rows, ChildEnv

(* What OneModule asks of the module itself is the work of each action.    *)
LEMMA OneModule ==
  ASSUME IInv, NEW m \in Names, TypeOK', OpInv', ModuleInv(m)', UNCHANGED hub,
         \A n \in Names \ {m} : /\ SameRow(n)
                                /\ Stopping(n) => Stopping(n)'
                                /\ Waiting(n) => Waiting(n)'
  PROVE  IInv'
<1>1. Up' <=> Up
  BY DEF Up
<1>2. ASSUME NEW n \in Names \ {m}
      PROVE  ModuleInv(n)'
  <2>1. ModuleInv(n) /\ SameRow(n) /\ (Stopping(n) => Stopping(n)') /\ (Waiting(n) => Waiting(n)')
    BY DEF IInv
  <2>2. Missing(n)' <=> Missing(n)
    BY <2>1 DEF Missing, Resolved, SameRow
  <2>3. ChildInv(n)' /\ LoopInv(n)' /\ KeyInv(n)' /\ ReadyInv(n)'
    BY <1>1, <2>1, <2>2 DEF ModuleInv, ChildInv, LoopInv, KeyInv, ReadyInv, SameRow
  <2> QED
    BY <2>3 DEF ModuleInv
<1> QED
  BY <1>2 DEF IInv

(* A step of the loop of m, or of its process, during whatever operation.  *)
LEMMA RowStep ==
  ASSUME IInv, NEW m \in Names, UNCHANGED others,
         mod' \in [Names -> Rows], loop' \in [Names -> Places],
         children' \in [Names -> Nat], env' \in [Names -> Values \cup {Unset}],
         \A n \in Names \ {m} : /\ mod'[n] = mod[n] /\ loop'[n] = loop[n]
                                /\ children'[n] = children[n] /\ env'[n] = env[n],
         mod'[m].known = mod[m].known, loop[m] \in Over => loop'[m] \in Over,
         ModuleInv(m)'
  PROVE  IInv'
<1>1. TypeOK /\ OpInv /\ UNCHANGED <<tracked, config, disk, op, ops, hub>>
  BY DEF IInv, others
<1>3. TypeOK'
  BY <1>1 DEF TypeOK, Rows
<1>4. \A n \in Names \ {m} : SameRow(n)
  BY <1>1 DEF SameRow
<1>6. \A n \in Names : mod'[n].known = mod[n].known /\ (loop[n] \in Over => loop'[n] \in Over)
  BY <1>4 DEF SameRow
<1>7. OpInv'
  BY <1>1, <1>6 DEF OpInv, Idle, Up
<1>8. \A n : (Stopping(n)' <=> Stopping(n)) /\ (Waiting(n)' <=> Waiting(n))
  BY <1>1 DEF Stopping, Waiting
<1> QED
  BY <1>1, <1>3, <1>4, <1>7, <1>8, OneModule

-----------------------------------------------------------------------------
(* The loop of a module.                                                   *)

LEMMA OpenLoop ==
  ASSUME IInv, NEW m \in Names, loop[m] \notin Over
  PROVE  /\ mod[m].known /\ mod[m].restarts \in 0..MaxRetries
         /\ Missing(m) => Stopping(m)
         /\ mod[m].state # "unconfigured"
         /\ tracked[m] \/ Waiting(m)
<1>1. ModuleInv(m) /\ mod[m] \in Rows /\ MaxRetries \in Nat
  BY RowTypes DEF IInv
<1> QED
  BY <1>1 DEF ModuleInv, LoopInv, KeyInv, Rows

(* A failure is registered when there is no process.                       *)
LEMMA FailureStep ==
  ASSUME IInv, NEW m \in Names, loop[m] \notin Over, children[m] = 0, ~mod[m].held,
         Failure(m), UNCHANGED <<children, env, others>>
  PROVE  IInv'
<1>0. /\ mod \in [Names -> Rows] /\ loop \in [Names -> Places] /\ MaxRetries \in Nat
      /\ children \in [Names -> Nat] /\ env \in [Names -> Values \cup {Unset}]
      /\ UNCHANGED <<tracked, config, op, hub>>
  BY RowTypes DEF IInv, others
<1>1. mod[m].known /\ mod[m].restarts \in 0..MaxRetries /\ (Missing(m) => Stopping(m))
      /\ (tracked[m] \/ Waiting(m))
  BY OpenLoop
<1>2. PICK r \in 1..(MaxRetries + 1) :
        /\ mod' = [mod EXCEPT ![m].restarts = r, ![m].since = FALSE, ![m].client = FALSE,
                              ![m].state = IF r > MaxRetries THEN "failed" ELSE "starting"]
        /\ loop' = [loop EXCEPT ![m] = IF r > MaxRetries THEN "done" ELSE "backoff"]
  <2>1. PICK forgiven \in {FALSE, mod[m].since} :
          LET r == IF forgiven THEN 1 ELSE mod[m].restarts + 1
          IN  /\ mod' = [mod EXCEPT ![m].restarts = r, ![m].since = FALSE, ![m].client = FALSE,
                              ![m].state = IF r > MaxRetries THEN "failed" ELSE "starting"]
              /\ loop' = [loop EXCEPT ![m] = IF r > MaxRetries THEN "done" ELSE "backoff"]
    BY DEF Failure, FailureWithin, Move
  <2>2. (IF forgiven THEN 1 ELSE mod[m].restarts + 1) \in 1..(MaxRetries + 1)
    BY <1>0, <1>1
  <2> QED
    BY <2>1, <2>2
<1>3. {"failed", "starting"} \subseteq States /\ {"done", "backoff"} \subseteq Places
  BY DEF States, Places
<1>4. mod' \in [Names -> Rows] /\ loop' \in [Names -> Places]
  <2>1. loop' \in [Names -> Places]
    BY <1>0, <1>2, <1>3
  <2>2. PICK s \in States : mod' = [mod EXCEPT ![m].restarts = r, ![m].since = FALSE,
                                           ![m].client = FALSE, ![m].state = s]
    BY <1>2, <1>3
  <2>3. r \in 0..(MaxRetries + 1)
    BY <1>0
  <2>4. [mod[m] EXCEPT !.restarts = r, !.since = FALSE, !.client = FALSE, !.state = s] \in Rows
    BY <1>0, <2>3, ZenonT(60) DEF Rows
  <2>5. mod' = [mod EXCEPT ![m] = [mod[m] EXCEPT !.restarts = r, !.since = FALSE,
                                                !.client = FALSE, !.state = s]]
    BY <1>0, <2>2, Zenon
  <2> QED
    BY <1>0, <2>1, <2>4, <2>5
<1>5. /\ mod'[m].known /\ ~mod'[m].held /\ mod'[m].restarts = r
      /\ mod'[m].state \in {"failed", "starting"}
      /\ loop'[m] = IF r > MaxRetries THEN "done" ELSE "backoff"
  BY <1>0, <1>1, <1>2 DEF Rows
<1>6. \A n \in Names \ {m} : mod'[n] = mod[n] /\ loop'[n] = loop[n]
  BY <1>0, <1>2
<1>7. (Missing(m)' <=> Missing(m)) /\ (Stopping(m)' <=> Stopping(m)) /\ (Waiting(m)' <=> Waiting(m))
  BY <1>0 DEF Missing, Resolved, Stopping, Waiting
<1>8. ChildInv(m)'
  BY <1>5 DEF ChildInv
<1>9. LoopInv(m)'
  BY <1>0, <1>1, <1>5, <1>7 DEF LoopInv, Over
<1>10. KeyInv(m)'
  BY <1>1, <1>5, <1>7 DEF KeyInv
<1>11. ReadyInv(m)'
  BY <1>5 DEF ReadyInv
<1> QED
  BY <1>0, <1>1, <1>4, <1>5, <1>6, <1>8, <1>9, <1>10, <1>11, RowStep DEF ModuleInv

(* The other steps of a loop move it, and touch its row by little.         *)
LEMMA LoopActionTypes ==
  ASSUME IInv, NEW m \in Names,
         Begin(m) \/ Spawned(m) \/ Ready(m) \/ Reject(m) \/ RejectClosed(m) \/ RejectKilled(m)
         \/ Aborted(m) \/ Probe(m) \/ Exited(m) \/ ProbeEnded(m) \/ Closed(m) \/ Unwound(m)
  PROVE  loop[m] \notin Over /\ UNCHANGED others /\ UNCHANGED <<tracked, config, op, hub>>
  BY DEF Begin, Spawned, Ready, Reject, RejectClosed, RejectKilled, Aborted, Probe, Exited,
     ProbeEnded, Closed, Unwound, Over, others

(* A step that neither spawns nor fails: it leaves what the loop attends   *)
(* to attended, and does not call a module unconfigured.                   *)
LEMMA MoveStep ==
  ASSUME IInv, NEW m \in Names, loop[m] \notin Over, loop[m] # "spawning",
         UNCHANGED <<children, env, others>>,
         mod' \in [Names -> Rows], NEW p \in Places \ {"spawning", "none", "unwind"},
         Move(m, p) \/ (p = loop[m] /\ UNCHANGED loop),
         \A n \in Names \ {m} : mod'[n] = mod[n],
         mod'[m].known = mod[m].known, mod'[m].held = mod[m].held,
         mod'[m].restarts = mod[m].restarts, mod'[m].state # "unconfigured",
         mod[m].held => p \in Attended \/ (p = "done" /\ (Stopping(m) \/ ~Up)),
         Up /\ p = "wait" => mod'[m].client,
         Up /\ mod'[m].state \in {"ready", "degraded"}
           => p \in {"wait", "probe", "close"} \/ Stopping(m)
  PROVE  IInv'
<1>0. /\ mod \in [Names -> Rows] /\ loop \in [Names -> Places] /\ MaxRetries \in Nat
      /\ children \in [Names -> Nat] /\ env \in [Names -> Values \cup {Unset}]
      /\ UNCHANGED <<tracked, config, op, hub>>
  BY RowTypes DEF IInv, others
<1>1. mod[m].known /\ mod[m].restarts \in 0..MaxRetries /\ (Missing(m) => Stopping(m))
      /\ (tracked[m] \/ Waiting(m))
  BY OpenLoop
<1>2. loop' = [loop EXCEPT ![m] = p]
  BY <1>0 DEF Move
<1>3. loop' \in [Names -> Places] /\ loop'[m] = p /\ \A n \in Names \ {m} : loop'[n] = loop[n]
  BY <1>0, <1>2
<1>4. /\ (Missing(m)' <=> Missing(m)) /\ (Stopping(m)' <=> Stopping(m))
      /\ (Waiting(m)' <=> Waiting(m)) /\ (Up' <=> Up)
  BY <1>0 DEF Missing, Resolved, Stopping, Waiting, Up
<1>5. ChildInv(m) /\ KeyInv(m)
  BY DEF IInv, ModuleInv
<1>6. ChildInv(m)'
  BY <1>3, <1>4, <1>5 DEF ChildInv
<1>7. LoopInv(m)'
  BY <1>0, <1>1, <1>4 DEF LoopInv
<1>8. KeyInv(m)'
  BY <1>1, <1>4, <1>5 DEF KeyInv
<1>9. ReadyInv(m)'
  BY <1>3, <1>4 DEF ReadyInv
<1> QED
  BY <1>0, <1>1, <1>3, <1>6, <1>7, <1>8, <1>9, RowStep DEF ModuleInv

LEMMA BeginStep ==
  ASSUME IInv, NEW m \in Names, Begin(m)
  PROVE  IInv'
<1>0. /\ mod \in [Names -> Rows] /\ loop \in [Names -> Places] /\ MaxRetries \in Nat
      /\ children \in [Names -> Nat] /\ env \in [Names -> Values \cup {Unset}]
      /\ ChildEnv(m) \in Values \cup {Unset}
      /\ loop[m] \notin Over /\ UNCHANGED others /\ UNCHANGED <<tracked, config, op, hub>>
      /\ loop[m] \in {"new", "backoff"}
  BY RowTypes, LoopActionTypes DEF IInv, Begin
<1>1. mod[m].known /\ mod[m].restarts \in 0..MaxRetries /\ (Missing(m) => Stopping(m))
      /\ (tracked[m] \/ Waiting(m)) /\ mod[m].state # "unconfigured"
  BY <1>0, OpenLoop
<1>2. ChildInv(m) /\ ReadyInv(m)
  BY DEF IInv, ModuleInv
<1>3. ~mod[m].held /\ children[m] = 0
  BY <1>0, <1>2 DEF ChildInv, Attended
<1>4. CASE Move(m, "done") /\ UNCHANGED <<mod, env, children>> /\ ~Up
  <2>1. "done" \in Places \ {"spawning", "none", "unwind"}
    BY DEF Places
  <2> QED
    BY <1>0, <1>1, <1>3, <1>4, <2>1, MoveStep
<1>5. CASE Failure(m) /\ UNCHANGED <<env, children>>
  BY <1>0, <1>3, <1>5, FailureStep
<1>6. CASE /\ Move(m, "spawning") /\ SetState(m, "starting")
           /\ env' = [env EXCEPT ![m] = ChildEnv(m)]
           /\ children' = [children EXCEPT ![m] = @ + 1]
  <2>1. "starting" \in States /\ "spawning" \in Places
    BY DEF States, Places
  <2>2. mod' = [mod EXCEPT ![m].state = "starting"] /\ loop' = [loop EXCEPT ![m] = "spawning"]
    BY <1>6 DEF SetState, Move
  <2>3. mod' \in [Names -> Rows] /\ loop' \in [Names -> Places]
        /\ children' \in [Names -> Nat] /\ env' \in [Names -> Values \cup {Unset}]
    BY <1>0, <1>6, <2>1, <2>2 DEF Rows
  <2>4. /\ loop'[m] = "spawning" /\ children'[m] = 1 /\ env'[m] = ChildEnv(m)
        /\ mod'[m].known /\ ~mod'[m].held /\ mod'[m].restarts = mod[m].restarts
        /\ mod'[m].state = "starting"
    BY <1>0, <1>1, <1>3, <1>6, <2>2 DEF Rows
  <2>5. \A n \in Names \ {m} : /\ mod'[n] = mod[n] /\ loop'[n] = loop[n]
                               /\ children'[n] = children[n] /\ env'[n] = env[n]
    BY <1>0, <1>6, <2>2
  <2>6. (Missing(m)' <=> Missing(m)) /\ (Stopping(m)' <=> Stopping(m)) /\ (Waiting(m)' <=> Waiting(m))
    BY <1>0 DEF Missing, Resolved, Stopping, Waiting
  <2>7. ~Missing(m) => ChildEnv(m) # Unset
    BY DEF Missing, Resolved, ChildEnv
  <2>8. ChildInv(m)' /\ ReadyInv(m)'
    BY <2>4 DEF ChildInv, ReadyInv
  <2>9. LoopInv(m)'
    BY <1>0, <1>1, <2>4, <2>6 DEF LoopInv
  <2>10. KeyInv(m)'
    BY <1>1, <2>4, <2>6, <2>7 DEF KeyInv
  <2> QED
    BY <1>0, <1>1, <2>3, <2>4, <2>5, <2>8, <2>9, <2>10, RowStep DEF ModuleInv
<1> QED
  BY <1>4, <1>5, <1>6 DEF Begin, SpawnOrFail

LEMMA SpawnedStep ==
  ASSUME IInv, NEW m \in Names, Spawned(m)
  PROVE  IInv'
<1>0. /\ mod \in [Names -> Rows] /\ loop \in [Names -> Places] /\ MaxRetries \in Nat
      /\ children \in [Names -> Nat] /\ env \in [Names -> Values \cup {Unset}]
      /\ loop[m] \notin Over /\ UNCHANGED others /\ UNCHANGED <<tracked, config, op, hub>>
      /\ loop[m] = "spawning" /\ UNCHANGED <<children, env>>
  BY RowTypes, LoopActionTypes DEF IInv, Spawned
<1>1. mod[m].known /\ mod[m].restarts \in 0..MaxRetries /\ (Missing(m) => Stopping(m))
      /\ (tracked[m] \/ Waiting(m)) /\ mod[m].state # "unconfigured"
  BY <1>0, OpenLoop
<1>2. ChildInv(m) /\ KeyInv(m) /\ ReadyInv(m)
  BY DEF IInv, ModuleInv
<1>3. "handshake" \in Places
  BY DEF Places
<1>4. /\ mod' = [mod EXCEPT ![m].held = TRUE, ![m].client = TRUE]
      /\ loop' = [loop EXCEPT ![m] = "handshake"]
  BY DEF Spawned, Move
<1>5. mod' \in [Names -> Rows] /\ loop' \in [Names -> Places]
  BY <1>0, <1>3, <1>4 DEF Rows
<1>6. /\ loop'[m] = "handshake" /\ mod'[m].held /\ mod'[m].known
      /\ mod'[m].restarts = mod[m].restarts /\ mod'[m].state = mod[m].state
      /\ \A n \in Names \ {m} : mod'[n] = mod[n] /\ loop'[n] = loop[n]
  BY <1>0, <1>1, <1>4 DEF Rows
<1>7. /\ (Missing(m)' <=> Missing(m)) /\ (Stopping(m)' <=> Stopping(m))
      /\ (Waiting(m)' <=> Waiting(m)) /\ (Up' <=> Up)
  BY <1>0 DEF Missing, Resolved, Stopping, Waiting, Up
<1>8. ChildInv(m)'
  BY <1>0, <1>2, <1>6 DEF ChildInv, Attended
<1>9. LoopInv(m)'
  BY <1>0, <1>1, <1>6, <1>7 DEF LoopInv
<1>10. KeyInv(m)'
  <2>1. children'[m] = children[m] /\ env'[m] = env[m]
    BY <1>0
  <2> QED
    BY <1>1, <1>2, <1>6, <1>7, <2>1 DEF KeyInv
<1>11. ReadyInv(m)'
  <2>1. ~(Up /\ mod[m].state \in {"ready", "degraded"}) \/ Stopping(m)
    BY <1>0, <1>1, <1>2 DEF ReadyInv
  <2> QED
    BY <1>6, <1>7, <2>1 DEF ReadyInv
<1> QED
  BY <1>0, <1>1, <1>5, <1>6, <1>8, <1>9, <1>10, <1>11, RowStep DEF ModuleInv

LEMMA LoopSteps ==
  ASSUME IInv, NEW m \in Names, LoopStep(m) \/ Ready(m) \/ Probe(m)
  PROVE  IInv'
<1>0. mod \in [Names -> Rows] /\ loop \in [Names -> Places] /\ ChildInv(m) /\ ReadyInv(m)
  BY RowTypes DEF IInv, ModuleInv
<1>1. /\ {"reject_close", "reject_kill", "done", "probe", "close", "wait"} \subseteq Places \ {"spawning", "none", "unwind"}
      /\ {"ready", "degraded"} \subseteq States
  BY DEF Places, States
<1> DEFINE Others == \A n \in Names \ {m} : mod'[n] = mod[n]
           Kept == mod'[m].known = mod[m].known /\ mod'[m].held = mod[m].held
                   /\ mod'[m].restarts = mod[m].restarts
<1>2. ASSUME UNCHANGED mod PROVE mod' \in [Names -> Rows] /\ Others /\ Kept /\ mod'[m] = mod[m]
  BY <1>0, <1>2
<1>3. ASSUME mod' = [mod EXCEPT ![m].client = FALSE]
      PROVE  mod' \in [Names -> Rows] /\ Others /\ Kept /\ mod'[m].state = mod[m].state
  BY <1>0, <1>3 DEF Rows
<1>4. ASSUME loop[m] \notin Over
      PROVE  mod[m].known /\ mod[m].state # "unconfigured"
  BY <1>4, OpenLoop
<1>5. CASE Reject(m)
  <2>1. loop[m] = "handshake" /\ Move(m, "reject_close") /\ UNCHANGED <<mod, children, env, others>>
    BY <1>5 DEF Reject
  <2>2. loop[m] \notin Over /\ "reject_close" \in Attended
    BY <2>1 DEF Over, Attended
  <2>3. ~(Up /\ mod[m].state \in {"ready", "degraded"}) \/ Stopping(m)
    BY <1>0, <1>4, <2>1, <2>2 DEF ReadyInv
  <2> QED
    BY <1>0, <1>1, <1>2, <1>4, <2>1, <2>2, <2>3, MoveStep
<1>6. CASE RejectClosed(m)
  <2>1. /\ loop[m] = "reject_close" /\ Move(m, "reject_kill")
        /\ mod' = [mod EXCEPT ![m].client = FALSE] /\ UNCHANGED <<children, env, others>>
    BY <1>6 DEF RejectClosed
  <2>2. loop[m] \notin Over /\ "reject_kill" \in Attended
    BY <2>1 DEF Over, Attended
  <2>3. ~(Up /\ mod[m].state \in {"ready", "degraded"}) \/ Stopping(m)
    BY <1>0, <1>4, <2>1, <2>2 DEF ReadyInv
  <2> QED
    BY <1>0, <1>1, <1>3, <1>4, <2>1, <2>2, <2>3, MoveStep
<1>7. CASE RejectKilled(m)
  <2>1. loop[m] = "reject_kill" /\ ~mod[m].held /\ Failure(m) /\ UNCHANGED <<children, env, others>>
    BY <1>7 DEF RejectKilled
  <2>2. loop[m] \notin Over /\ children[m] = 0
    BY <1>0, <2>1 DEF Over, ChildInv
  <2> QED
    BY <2>1, <2>2, FailureStep
<1>8. CASE Aborted(m) \/ Unwound(m)
  <2>1. /\ loop[m] \in {"abort", "unwind"} /\ Move(m, "done") /\ UNCHANGED <<children, env, others>>
        /\ UNCHANGED mod \/ mod' = [mod EXCEPT ![m].client = FALSE]
    BY <1>8 DEF Aborted, Unwound
  <2>2. loop[m] \notin Over /\ loop[m] # "spawning"
    BY <2>1 DEF Over
  <2>3. ~(Up /\ mod[m].state \in {"ready", "degraded"}) \/ Stopping(m)
    BY <1>0, <1>4, <2>1, <2>2 DEF ReadyInv
  <2>4. ~mod[m].held \/ Stopping(m) \/ ~Up
    BY <1>0, <1>8 DEF Aborted, Unwound, ChildInv
  <2>5. mod' \in [Names -> Rows] /\ Others /\ Kept /\ mod'[m].state = mod[m].state
    BY <1>2, <1>3, <2>1
  <2> QED
    BY <1>1, <1>4, <2>1, <2>2, <2>3, <2>4, <2>5, MoveStep
<1>9. CASE Ready(m)
  <2>1. /\ loop[m] = "handshake" /\ Move(m, "wait") /\ mod[m].client
        /\ mod' = [mod EXCEPT ![m].state = "ready", ![m].since = TRUE]
        /\ UNCHANGED <<children, env, others>>
    BY <1>9 DEF Ready
  <2>2. loop[m] \notin Over /\ "wait" \in Attended
    BY <2>1 DEF Over, Attended
  <2>3. mod' \in [Names -> Rows] /\ Others /\ Kept /\ mod'[m].state = "ready" /\ mod'[m].client
    BY <1>0, <1>1, <2>1 DEF Rows
  <2> QED
    BY <1>1, <2>1, <2>2, <2>3, MoveStep
<1>10. CASE Probe(m)
  <2>1. PICK s \in {"ready", "degraded"} : mod' = [mod EXCEPT ![m].state = s]
    BY <1>10 DEF Probe, SetState
  <2>2. loop[m] = "wait" /\ mod[m].client /\ UNCHANGED <<loop, children, env, others>>
    BY <1>10 DEF Probe
  <2>3. loop[m] \notin Over /\ "wait" \in Attended
    BY <2>2 DEF Over, Attended
  <2>4. mod' \in [Names -> Rows] /\ Others /\ Kept /\ mod'[m].state = s /\ mod'[m].client
    BY <1>0, <1>1, <2>1, <2>2 DEF Rows
  <2> QED
    BY <1>1, <2>2, <2>3, <2>4, MoveStep
<1>11. CASE Exited(m)
  <2>1. loop[m] = "wait" /\ ~mod[m].held /\ Move(m, "probe") /\ UNCHANGED <<mod, children, env, others>>
    BY <1>11 DEF Exited
  <2>2. loop[m] \notin Over
    BY <2>1 DEF Over
  <2> QED
    BY <1>1, <1>2, <1>4, <2>1, <2>2, MoveStep
<1>12. CASE ProbeEnded(m)
  <2>1. loop[m] = "probe" /\ Move(m, "close") /\ UNCHANGED <<mod, children, env, others>>
    BY <1>12 DEF ProbeEnded
  <2>2. loop[m] \notin Over /\ ~mod[m].held
    BY <1>0, <2>1 DEF Over, ChildInv, Attended
  <2> QED
    BY <1>1, <1>2, <1>4, <2>1, <2>2, MoveStep
<1>13. CASE Closed(m)
  <2>1. loop[m] = "close" /\ UNCHANGED <<children, env, others>>
    BY <1>13 DEF Closed
  <2>2. loop[m] \notin Over /\ ~mod[m].held /\ children[m] = 0
    BY <1>0, <2>1 DEF Over, ChildInv, Attended
  <2>3. CASE Up
    BY <1>13, <2>1, <2>2, <2>3, FailureStep DEF Closed
  <2>4. CASE ~Up
    <3>1. mod' = [mod EXCEPT ![m].client = FALSE] /\ Move(m, "done")
      BY <1>13, <2>4 DEF Closed
    <3> QED
      BY <1>1, <1>3, <1>4, <2>1, <2>2, <2>4, <3>1, MoveStep
  <2> QED
    BY <2>3, <2>4
<1> QED
  BY <1>5, <1>6, <1>7, <1>8, <1>9, <1>10, <1>11, <1>12, <1>13, BeginStep, SpawnedStep DEF LoopStep

-----------------------------------------------------------------------------
(* The operations of the web layer, and the exit of a process.             *)

LEMMA ExitStep ==
  ASSUME IInv, NEW m \in Names, ProcessExits(m)
  PROVE  IInv'
<1>0. /\ TypeOK /\ OpInv /\ ModuleInv(m)
      /\ mod \in [Names -> Rows] /\ loop \in [Names -> Places] /\ children \in [Names -> Nat]
      /\ NoName \notin Names
  BY RowTypes DEF IInv
<1>1. /\ mod[m].held /\ mod' = [mod EXCEPT ![m].held = FALSE]
      /\ children' = [children EXCEPT ![m] = @ - 1]
      /\ op' = IF op.kind = "bounce" /\ op.on = m THEN NoOp ELSE op
      /\ UNCHANGED <<loop, tracked, env, config, disk, ops, hub>>
  BY DEF ProcessExits
<1>2. children[m] = 1
  BY <1>0, <1>1 DEF ModuleInv, ChildInv
<1>3. mod' \in [Names -> Rows] /\ children' \in [Names -> Nat] /\ children'[m] = 0
  <2>1. children' = [children EXCEPT ![m] = 0]
    BY <1>1, <1>2
  <2>2. children' \in [Names -> Nat] /\ children'[m] = 0
    BY <1>0, <2>1
  <2>3. mod' \in [Names -> Rows]
    BY <1>0, <1>1 DEF Rows
  <2> QED
    BY <2>2, <2>3
<1>4. /\ ~mod'[m].held /\ mod'[m].known = mod[m].known /\ mod'[m].restarts = mod[m].restarts
      /\ mod'[m].state = mod[m].state /\ mod'[m].client = mod[m].client
      /\ \A n \in Names \ {m} : mod'[n] = mod[n] /\ children'[n] = children[n]
  BY <1>0, <1>1 DEF Rows
<1>5. TypeOK'
  BY <1>0, <1>1, <1>3 DEF TypeOK, Rows, NoOp
<1>6. /\ \A n \in Names : (Stopping(n)' <=> Stopping(n)) /\ (Waiting(n) => Waiting(n)')
      /\ OpInv'
  <2>1. CASE op.kind = "bounce" /\ op.on = m
    <3>1. op' = NoOp /\ op.at = "kill"
      BY <1>0, <1>1, <2>1 DEF OpInv, Idle, NoOp
    <3> QED
      BY <1>0, <2>1, <3>1 DEF Stopping, Waiting, NoOp, OpInv, Idle
  <2>2. CASE op' = op
    <3>1. \A n \in Names : mod'[n].known = mod[n].known
      BY <1>4
    <3> QED
      BY <1>0, <1>1, <2>2, <3>1 DEF Stopping, Waiting, OpInv, Idle, Up
  <2> QED
    BY <1>1, <2>1, <2>2
<1>7. (Missing(m)' <=> Missing(m)) /\ (Up' <=> Up)
  BY <1>1 DEF Missing, Resolved, Up
<1>8. loop[m] # "spawning" /\ (loop[m] = "unwind" => Stopping(m) \/ ~Up)
  BY <1>0, <1>1 DEF ModuleInv, ChildInv, Attended
<1>9. ChildInv(m)'
  BY <1>1, <1>3, <1>4, <1>6, <1>7, <1>8 DEF ChildInv
<1>10. LoopInv(m)'
  BY <1>0, <1>1, <1>4, <1>6 DEF ModuleInv, LoopInv
<1>11. KeyInv(m)'
  BY <1>0, <1>1, <1>3, <1>4, <1>6, <1>7 DEF ModuleInv, KeyInv
<1>12. ReadyInv(m)'
  BY <1>0, <1>1, <1>4, <1>6, <1>7 DEF ModuleInv, ReadyInv
<1>13. \A n \in Names \ {m} : SameRow(n)
  BY <1>1, <1>4 DEF SameRow
<1> QED
  BY <1>1, <1>5, <1>6, <1>9, <1>10, <1>11, <1>12, <1>13, OneModule DEF ModuleInv

(* An operation cancels the loop of a module, and waits for it to end.     *)
LEMMA StopStep ==
  ASSUME IInv, NEW m \in Names, NEW kind \in {"load", "unset", "remove"},
         Up, Idle, mod[m].known, StopFor(m, kind), UNCHANGED <<env, hub>>, ops' \in Nat,
         config' \in [Names -> Values \cup {Unset}], disk' \in [Names -> BOOLEAN],
         \A n \in Names \ {m} : config'[n] = config[n]
  PROVE  IInv'
<1>0. /\ TypeOK /\ ModuleInv(m)
      /\ mod \in [Names -> Rows] /\ loop \in [Names -> Places] /\ children \in [Names -> Nat]
      /\ tracked \in [Names -> BOOLEAN] /\ NoName \notin Names
  BY RowTypes DEF IInv
<1>1. /\ op' = [kind |-> kind, on |-> m, at |-> "task"]
      /\ tracked' = [tracked EXCEPT ![m] = FALSE]
      /\ loop' = [loop EXCEPT ![m] = Cancelled(@)]
      /\ children' = [children EXCEPT ![m] = Reaped(loop[m], @)]
      /\ UNCHANGED mod
  BY DEF StopFor
<1>2. \A p \in Places : /\ Cancelled(p) \in Places \ {"spawning", "wait"}
                        /\ Cancelled(p) \notin Over => p \notin Over
                        /\ p \in Attended => Cancelled(p) \in Attended \cup {"done"}
  BY DEF Cancelled, Places, Over, Attended
<1>3. ChildInv(m)
  BY <1>0 DEF ModuleInv
<1>4. Reaped(loop[m], children[m]) = IF mod[m].held THEN 1 ELSE 0
  BY <1>3 DEF Reaped, ChildInv, Attended
<1>5. /\ loop' \in [Names -> Places] /\ tracked' \in [Names -> BOOLEAN]
      /\ children' \in [Names -> Nat]
  BY <1>0, <1>1, <1>2, <1>4
<1>6. /\ loop'[m] = Cancelled(loop[m]) /\ ~tracked'[m]
      /\ children'[m] = IF mod[m].held THEN 1 ELSE 0
      /\ \A n \in Names \ {m} : loop'[n] = loop[n] /\ tracked'[n] = tracked[n] /\ children'[n] = children[n]
  BY <1>0, <1>1, <1>4
<1>7. TypeOK'
  BY <1>0, <1>1, <1>5 DEF TypeOK, Rows
<1>8. Stopping(m)' /\ Waiting(m)' /\ \A n \in Names : ~Stopping(n) /\ ~Waiting(n)
  BY <1>0, <1>1 DEF Stopping, Waiting, Idle, NoOp
<1>9. OpInv'
  BY <1>1, <1>6 DEF OpInv, Up
<1>10. loop[m] \in Places /\ (Up' <=> Up)
  BY <1>0 DEF Up
<1>11. ChildInv(m)'
  <2>1. mod[m].held => loop[m] \in Attended \cup {"done"}
    BY <1>3 DEF ChildInv
  <2>2. mod[m].held => Cancelled(loop[m]) \in Attended \cup {"done"}
    BY <2>1 DEF Attended, Cancelled
  <2>3. Cancelled(loop[m]) # "spawning"
    BY <1>2, <1>10
  <2> QED
    BY <1>1, <1>6, <1>8, <2>2, <2>3 DEF ChildInv
<1>12. LoopInv(m)'
  BY <1>0, <1>1, <1>2, <1>6, <1>8, <1>10 DEF ModuleInv, LoopInv
<1>13. KeyInv(m)'
  BY <1>0, <1>1, <1>2, <1>6, <1>8, <1>10 DEF ModuleInv, KeyInv
<1>14. ReadyInv(m)'
  BY <1>2, <1>6, <1>8, <1>10 DEF ReadyInv
<1>15. \A n \in Names \ {m} : SameRow(n)
  BY <1>1, <1>6 DEF SameRow
<1> QED
  BY <1>7, <1>8, <1>9, <1>11, <1>12, <1>13, <1>14, <1>15, OneModule DEF ModuleInv

(* An operation ends, and with it the loop is over, or there is a new one. *)
LEMMA EndStep ==
  ASSUME IInv, NEW m \in Names, Up, Idle \/ op.on = m, op' = NoOp, UNCHANGED hub, ops' \in Nat,
         mod' \in [Names -> Rows], loop' \in [Names -> Places], tracked' \in [Names -> BOOLEAN],
         UNCHANGED <<children, env>>, children[m] = 0,
         config' \in [Names -> Values \cup {Unset}], disk' \in [Names -> BOOLEAN],
         \A n \in Names \ {m} : /\ mod'[n] = mod[n] /\ loop'[n] = loop[n]
                                /\ tracked'[n] = tracked[n] /\ config'[n] = config[n],
         ~mod'[m].held, mod'[m].state \notin {"ready", "degraded"} \/ ~mod'[m].known,
         \/ loop'[m] \in Over /\ (mod'[m].known \/ ~tracked'[m])
         \/ /\ loop'[m] = "new" /\ tracked'[m] /\ mod'[m].known /\ mod'[m].restarts = 0
            /\ mod'[m].state # "unconfigured" /\ ~Missing(m)'
  PROVE  IInv'
<1>0. TypeOK /\ children \in [Names -> Nat] /\ NoName \notin Names /\ MaxRetries \in Nat
      /\ env \in [Names -> Values \cup {Unset}]
  BY RowTypes DEF IInv
<1>1. TypeOK'
  BY <1>0 DEF TypeOK, Rows, NoOp
<1>2. OpInv'
  BY DEF OpInv, Idle
<1>3. \A n \in Names \ {m} : SameRow(n) /\ ~Stopping(n) /\ ~Waiting(n)
  BY <1>0 DEF SameRow, Stopping, Waiting, Idle, NoOp
<1>4. loop'[m] \in {"none", "done", "new"} /\ children'[m] = 0
  BY DEF Over
<1>5. ChildInv(m)' /\ ReadyInv(m)'
  BY <1>4 DEF ChildInv, ReadyInv
<1>6. LoopInv(m)'
  BY <1>0 DEF LoopInv, Over
<1>7. KeyInv(m)'
  BY <1>4 DEF KeyInv
<1> QED
  BY <1>1, <1>2, <1>3, <1>5, <1>6, <1>7, OneModule DEF ModuleInv

(* What is known of a module that no operation is at work on.              *)
LEMMA AtRest ==
  ASSUME IInv, NEW m \in Names, Up, ~Stopping(m), loop[m] \in Over
  PROVE  ~mod[m].held /\ children[m] = 0
<1>1. ChildInv(m)
  BY DEF IInv, ModuleInv
<1> QED
  BY <1>1 DEF ChildInv, Over, Attended

LEMMA NotRunning ==
  ASSUME IInv, NEW m \in Names, Idle, ~Running(m)
  PROVE  loop[m] \in Over /\ ~Stopping(m)
<1>1. LoopInv(m) /\ NoName \notin Names
  BY RowTypes DEF IInv, ModuleInv
<1> QED
  BY <1>1 DEF LoopInv, Running, Over, Waiting, Stopping, Idle, NoOp

LEMMA LaunchStep ==
  ASSUME IInv, NEW m \in Names, Up, Idle \/ op.on = m, op' = NoOp, UNCHANGED hub, ops' \in Nat,
         loop[m] \in Over, ~mod[m].held, NEW absent, absent <=> Missing(m)',
         NEW object \in Rows, object.known, ~object.held, object.restarts = 0,
         Launch(m, absent, object), UNCHANGED <<children, env>>,
         config' \in [Names -> Values \cup {Unset}], disk' \in [Names -> BOOLEAN],
         \A n \in Names \ {m} : config'[n] = config[n]
  PROVE  IInv'
<1>0. /\ mod \in [Names -> Rows] /\ loop \in [Names -> Places]
      /\ tracked \in [Names -> BOOLEAN] /\ ChildInv(m)
  BY RowTypes DEF IInv, ModuleInv
<1>1. children[m] = 0
  BY <1>0 DEF ChildInv, Over
<1>2. {"unconfigured", "starting"} \subseteq States /\ {"none", "new"} \subseteq Places
  BY DEF States, Places
<1>3. PICK s \in States : /\ s = IF absent THEN "unconfigured" ELSE "starting"
                          /\ mod' = [mod EXCEPT ![m] = [object EXCEPT !.state = s]]
  BY <1>2 DEF Launch
<1>4. [object EXCEPT !.state = s] \in Rows
  BY DEF Rows
<1>5. /\ mod' \in [Names -> Rows] /\ mod'[m] = [object EXCEPT !.state = s]
      /\ \A n \in Names \ {m} : mod'[n] = mod[n]
  BY <1>0, <1>3, <1>4
<1>6. mod'[m].known /\ ~mod'[m].held /\ mod'[m].restarts = 0 /\ mod'[m].state = s
  BY <1>5 DEF Rows
<1>7. /\ tracked' = [tracked EXCEPT ![m] = ~absent]
      /\ loop' = [loop EXCEPT ![m] = IF absent THEN "none" ELSE "new"]
  BY DEF Launch
<1>8. /\ tracked' \in [Names -> BOOLEAN] /\ loop' \in [Names -> Places]
      /\ tracked'[m] = ~absent /\ loop'[m] = IF absent THEN "none" ELSE "new"
      /\ \A n \in Names \ {m} : loop'[n] = loop[n] /\ tracked'[n] = tracked[n]
  BY <1>0, <1>2, <1>7
<1>9. CASE absent
  <2>1. loop'[m] \in Over /\ s = "unconfigured"
    BY <1>3, <1>8, <1>9 DEF Over
  <2> QED
    BY <1>1, <1>5, <1>6, <1>8, <2>1, EndStep
<1>10. CASE ~absent
  <2>1. loop'[m] = "new" /\ tracked'[m] /\ s = "starting" /\ ~Missing(m)'
    BY <1>3, <1>8, <1>10
  <2> QED
    BY <1>1, <1>5, <1>6, <1>8, <2>1, EndStep
<1> QED
  BY <1>9, <1>10

LEMMA FreshRow ==
  /\ Fresh("stopped") \in Rows /\ Forgotten \in Rows
  /\ Fresh("stopped").known /\ ~Fresh("stopped").held /\ Fresh("stopped").restarts = 0
  /\ ~Forgotten.known /\ ~Forgotten.held /\ Forgotten.state = "stopped"
<1>1. "stopped" \in States /\ 0 \in 0..(MaxRetries + 1)
  BY SupervisorAssumption DEF States
<1>2. /\ Fresh("stopped") \in Rows /\ Fresh("stopped").known /\ ~Fresh("stopped").held
      /\ Fresh("stopped").restarts = 0 /\ Fresh("stopped").state = "stopped"
  BY <1>1 DEF Fresh, Rows
<1>3. Forgotten = [Fresh("stopped") EXCEPT !.known = FALSE]
  BY DEF Forgotten
<1> QED
  BY <1>2, <1>3 DEF Rows

LEMMA LoadStep ==
  ASSUME IInv, NEW m \in Names, Up, Idle, UNCHANGED <<env, hub>>, ops' \in Nat,
         NEW absent, absent <=> Missing(m)', Load(m, absent),
         config' \in [Names -> Values \cup {Unset}], disk' \in [Names -> BOOLEAN],
         \A n \in Names \ {m} : config'[n] = config[n]
  PROVE  IInv'
<1>1. LoopInv(m)
  BY DEF IInv, ModuleInv
<1>2. CASE Running(m)
  <2>1. mod[m].known
    BY <1>1, <1>2 DEF LoopInv, Running
  <2> QED
    BY <1>2, <2>1, StopStep DEF Load
<1>3. CASE ~Running(m)
  <2>1. loop[m] \in Over /\ ~mod[m].held
    BY <1>3, NotRunning, AtRest
  <2>2. Launch(m, absent, Fresh("stopped")) /\ UNCHANGED <<children, op>>
    BY <1>3 DEF Load
  <2>3. op' = NoOp
    BY <2>2 DEF Idle
  <2> QED
    BY <2>1, <2>2, <2>3, FreshRow, LaunchStep
<1> QED
  BY <1>2, <1>3

LEMMA ApplyStep ==
  ASSUME IInv, NEW m \in Names, Up, Idle, UNCHANGED <<env, hub>>, ops' \in Nat,
         NEW absent, absent <=> Missing(m)', Apply(m, absent),
         config' \in [Names -> Values \cup {Unset}], disk' \in [Names -> BOOLEAN],
         \A n \in Names \ {m} : config'[n] = config[n]
  PROVE  IInv'
<1>0. /\ mod \in [Names -> Rows] /\ loop \in [Names -> Places] /\ children \in [Names -> Nat]
      /\ tracked \in [Names -> BOOLEAN] /\ env \in [Names -> Values \cup {Unset}]
      /\ TypeOK /\ ModuleInv(m) /\ NoName \notin Names /\ MaxRetries \in Nat
  BY RowTypes DEF IInv
<1>1. CASE ~mod[m].known /\ Load(m, absent)
  BY <1>1, LoadStep
<1>2. CASE mod[m].known /\ StopFor(m, "unset")
  BY <1>2, StopStep
<1>3. CASE /\ mod[m].known /\ absent /\ ~Running(m) /\ SetState(m, "unconfigured")
           /\ UNCHANGED <<loop, tracked, children, op>>
  <2>1. loop[m] \in Over /\ ~mod[m].held /\ children[m] = 0
    BY <1>3, NotRunning, AtRest
  <2>2. "unconfigured" \in States /\ mod' = [mod EXCEPT ![m].state = "unconfigured"] /\ op' = NoOp
    BY <1>3 DEF States, SetState, Idle
  <2>3. /\ mod' \in [Names -> Rows] /\ \A n \in Names \ {m} : mod'[n] = mod[n]
        /\ mod'[m].known /\ ~mod'[m].held /\ mod'[m].state = "unconfigured"
    BY <1>0, <1>3, <2>1, <2>2 DEF Rows
  <2> QED
    BY <1>0, <1>3, <2>1, <2>2, <2>3, EndStep
<1>4. CASE /\ mod[m].known /\ ~absent /\ Running(m)
           /\ mod' = [mod EXCEPT ![m].restarts = 0]
           /\ op' = IF mod[m].held THEN [kind |-> "bounce", on |-> m, at |-> "kill"] ELSE NoOp
           /\ UNCHANGED <<loop, tracked, children>>
  <2>1. /\ mod' \in [Names -> Rows] /\ \A n \in Names \ {m} : mod'[n] = mod[n]
        /\ mod'[m].known /\ mod'[m].held = mod[m].held /\ mod'[m].restarts = 0
        /\ mod'[m].state = mod[m].state /\ mod'[m].client = mod[m].client
    BY <1>0, <1>4 DEF Rows
  <2>2. TypeOK'
    BY <1>0, <1>4, <2>1 DEF TypeOK, Rows, NoOp
  <2>3. \A n \in Names : ~Stopping(n) /\ ~Waiting(n)
    BY <1>0 DEF Stopping, Waiting, Idle, NoOp
  <2>4. OpInv'
    BY <1>4 DEF OpInv, Idle, Up
  <2>5. (Up' <=> Up) /\ ~Missing(m)'
    BY <1>4 DEF Up
  <2>6. ChildInv(m)'
    BY <1>0, <1>4, <2>1, <2>3, <2>5 DEF ModuleInv, ChildInv
  <2>7. LoopInv(m)'
    BY <1>0, <1>4, <2>1, <2>3 DEF ModuleInv, LoopInv
  <2>8. KeyInv(m)'
    BY <1>0, <1>4, <2>1, <2>3, <2>5 DEF ModuleInv, KeyInv
  <2>9. ReadyInv(m)'
    BY <1>0, <1>4, <2>1, <2>3, <2>5 DEF ModuleInv, ReadyInv
  <2>10. \A n \in Names \ {m} : SameRow(n)
    BY <1>0, <1>4, <2>1 DEF SameRow
  <2> QED
    BY <2>2, <2>3, <2>4, <2>6, <2>7, <2>8, <2>9, <2>10, OneModule DEF ModuleInv
<1>5. CASE /\ mod[m].known /\ ~absent /\ ~Running(m)
           /\ Launch(m, FALSE, [mod[m] EXCEPT !.restarts = 0])
           /\ UNCHANGED <<children, op>>
  <2>1. loop[m] \in Over /\ ~mod[m].held
    BY <1>5, NotRunning, AtRest
  <2>2. op' = NoOp
    BY <1>5 DEF Idle
  <2> DEFINE object == [mod[m] EXCEPT !.restarts = 0]
  <2>3. object \in Rows /\ object.known /\ ~object.held /\ object.restarts = 0
    BY <1>0, <1>5, <2>1 DEF Rows
  <2> HIDE DEF object
  <2>4. Launch(m, absent, object)
    BY <1>5 DEF object, Launch
  <2> QED
    BY <1>5, <2>1, <2>2, <2>3, <2>4, LaunchStep
<1> QED
  BY <1>1, <1>2, <1>3, <1>4, <1>5 DEF Apply

LEMMA InstallStep ==
  ASSUME IInv, NEW m \in Names, Install(m)
  PROVE  IInv'
<1>1. /\ Up /\ Idle /\ UNCHANGED <<env, hub, config>> /\ ops' = ops + 1
      /\ disk' = [disk EXCEPT ![m] = TRUE] /\ Load(m, Missing(m))
  BY DEF Install, StartOp
<1>2. /\ ops' \in Nat /\ disk' \in [Names -> BOOLEAN]
      /\ config' \in [Names -> Values \cup {Unset}] /\ \A n \in Names \ {m} : config'[n] = config[n]
  BY <1>1 DEF IInv, TypeOK
<1>3. Missing(m) <=> Missing(m)'
  BY <1>1 DEF Missing, Resolved
<1> QED
  BY <1>1, <1>2, <1>3, LoadStep

LEMMA ConfigureStep ==
  ASSUME IInv, NEW m \in Names, NEW v \in Values \cup {Unset}, Configure(m, v)
  PROVE  IInv'
<1>1. /\ Up /\ Idle /\ UNCHANGED <<env, hub, disk>> /\ ops' = ops + 1
      /\ config' = [config EXCEPT ![m] = v] /\ Apply(m, Resolved(m, v) = Unset)
  BY DEF Configure, StartOp, Store
<1>2. /\ ops' \in Nat /\ disk' \in [Names -> BOOLEAN]
      /\ config' \in [Names -> Values \cup {Unset}] /\ \A n \in Names \ {m} : config'[n] = config[n]
      /\ config'[m] = v
  BY <1>1 DEF IInv, TypeOK
<1>3. (Resolved(m, v) = Unset) <=> Missing(m)'
  BY <1>2 DEF Missing, Resolved
<1> QED
  BY <1>1, <1>2, <1>3, ApplyStep

LEMMA DeleteTypes ==
  ASSUME TypeOK, NEW m \in Names, Delete(m)
  PROVE  /\ config' \in [Names -> Values \cup {Unset}] /\ disk' \in [Names -> BOOLEAN]
         /\ \A n \in Names \ {m} : config'[n] = config[n]
  BY DEF TypeOK, Delete, Store

LEMMA RemoveStep ==
  ASSUME IInv, NEW m \in Names, Remove(m)
  PROVE  IInv'
<1>1. Up /\ Idle /\ UNCHANGED <<env, hub>> /\ ops' = ops + 1 /\ TypeOK /\ ModuleInv(m)
  BY DEF Remove, StartOp, IInv
<1>2. ops' \in Nat
  BY <1>1 DEF TypeOK
<1>3. CASE mod[m].known /\ StopFor(m, "remove") /\ UNCHANGED <<config, disk>>
  <2>1. config' \in [Names -> Values \cup {Unset}] /\ disk' \in [Names -> BOOLEAN]
    BY <1>1, <1>3 DEF TypeOK
  <2> QED
    BY <1>1, <1>2, <1>3, <2>1, StopStep
<1>4. CASE ~mod[m].known /\ Delete(m) /\ UNCHANGED <<mod, loop, tracked, children, op>>
  <2>1. ~mod[m].held /\ loop[m] \in Over /\ ~tracked[m] /\ children[m] = 0
    BY <1>1, <1>4 DEF ModuleInv, LoopInv, ChildInv, Over
  <2>2. /\ mod' \in [Names -> Rows] /\ loop' \in [Names -> Places] /\ tracked' \in [Names -> BOOLEAN]
        /\ op' = NoOp
    BY <1>1, <1>4, RowTypes DEF Idle
  <2> QED
    BY <1>1, <1>2, <1>4, <2>1, <2>2, DeleteTypes, EndStep
<1> QED
  BY <1>3, <1>4 DEF Remove

LEMMA TaskEndedStep ==
  ASSUME IInv, TaskEnded
  PROVE  IInv'
<1>0. TypeOK /\ OpInv /\ NoName \notin Names
  BY RowTypes DEF IInv
<1>1. /\ op.at = "task" /\ loop[op.on] \in Over /\ op' = [op EXCEPT !.at = "kill"]
      /\ UNCHANGED <<mod, loop, tracked, children, env, config, disk, ops, hub>>
  BY DEF TaskEnded
<1>2. PICK m \in Names : m = op.on
  BY <1>0, <1>1 DEF OpInv, Idle, NoOp
<1>3. op.kind # "none" /\ op.kind # "bounce" /\ ~tracked[m] /\ mod[m].known /\ Up
  BY <1>0, <1>1, <1>2 DEF OpInv, Idle, NoOp
<1>4. op'.at = "kill" /\ op'.on = m /\ op'.kind = op.kind
  BY <1>0, <1>1, <1>2 DEF TypeOK
<1>5. TypeOK'
  BY <1>0, <1>1 DEF TypeOK
<1>6. OpInv'
  BY <1>1, <1>2, <1>3, <1>4 DEF OpInv, Up
<1>7. /\ \A n \in Names : Stopping(n)' <=> Stopping(n)
      /\ \A n \in Names \ {m} : ~Waiting(n)
      /\ Up' <=> Up
      /\ Missing(m)' <=> Missing(m)
  BY <1>1, <1>2, <1>4 DEF Stopping, Waiting, Up, Missing, Resolved
<1>8. ModuleInv(m)
  BY DEF IInv
<1>9. ChildInv(m)' /\ LoopInv(m)' /\ KeyInv(m)' /\ ReadyInv(m)'
  BY <1>1, <1>2, <1>7, <1>8 DEF ModuleInv, ChildInv, LoopInv, KeyInv, ReadyInv
<1>10. \A n \in Names \ {m} : SameRow(n)
  BY <1>1 DEF SameRow
<1> QED
  BY <1>1, <1>5, <1>6, <1>7, <1>9, <1>10, OneModule DEF ModuleInv

LEMMA StoppedStep ==
  ASSUME IInv, Stopped
  PROVE  IInv'
<1>0. /\ TypeOK /\ OpInv /\ NoName \notin Names /\ mod \in [Names -> Rows]
      /\ loop \in [Names -> Places] /\ tracked \in [Names -> BOOLEAN]
  BY RowTypes DEF IInv
<1>1. op.at = "kill" /\ op.kind # "bounce" /\ op' = NoOp /\ UNCHANGED <<children, env, ops, hub>>
  BY DEF Stopped
<1>2. PICK m \in Names : m = op.on
  BY <1>0, <1>1 DEF OpInv, Idle, NoOp
<1>3. ~mod[m].held /\ loop[m] \in Over /\ mod[m].known /\ ~tracked[m] /\ Up /\ ops' \in Nat
  BY <1>0, <1>1, <1>2 DEF OpInv, Idle, NoOp, Stopped, TypeOK
<1>4. ModuleInv(m)
  BY DEF IInv
<1>5. children[m] = 0
  BY <1>3, <1>4 DEF ModuleInv, ChildInv, Over
<1>6. ASSUME UNCHANGED <<config, disk>>
      PROVE  /\ config' \in [Names -> Values \cup {Unset}] /\ disk' \in [Names -> BOOLEAN]
             /\ \A n \in Names \ {m} : config'[n] = config[n]
             /\ Missing(m) <=> Missing(m)'
  BY <1>0, <1>6 DEF TypeOK, Missing, Resolved
<1>7. CASE Launch(m, Missing(m), Fresh("stopped")) /\ UNCHANGED <<config, disk>>
  BY <1>1, <1>2, <1>3, <1>6, <1>7, FreshRow, LaunchStep
<1>8. CASE /\ mod' = [mod EXCEPT ![m].state = "unconfigured", ![m].client = FALSE]
           /\ UNCHANGED <<loop, tracked, config, disk>>
  <2>1. "unconfigured" \in States
    BY DEF States
  <2>2. /\ mod' \in [Names -> Rows] /\ \A n \in Names \ {m} : mod'[n] = mod[n]
        /\ mod'[m].known /\ ~mod'[m].held /\ mod'[m].state = "unconfigured"
    BY <1>0, <1>3, <1>8, <2>1 DEF Rows
  <2> QED
    BY <1>0, <1>1, <1>2, <1>3, <1>5, <1>6, <1>8, <2>2, EndStep
<1>9. CASE Forget(m)
  <2>1. /\ mod' = [mod EXCEPT ![m] = Forgotten] /\ loop' = [loop EXCEPT ![m] = "none"]
        /\ tracked' = [tracked EXCEPT ![m] = FALSE] /\ Delete(m)
    BY <1>9 DEF Forget
  <2>2. "none" \in Places /\ "none" \in Over
    BY DEF Places, Over
  <2>3. /\ mod' \in [Names -> Rows] /\ loop' \in [Names -> Places] /\ tracked' \in [Names -> BOOLEAN]
        /\ mod'[m] = Forgotten /\ loop'[m] \in Over /\ ~tracked'[m]
        /\ \A n \in Names \ {m} : mod'[n] = mod[n] /\ loop'[n] = loop[n] /\ tracked'[n] = tracked[n]
    BY <1>0, <2>1, <2>2, FreshRow
  <2>4. ~mod'[m].held /\ ~mod'[m].known
    BY <2>3, FreshRow
  <2>5. /\ config' \in [Names -> Values \cup {Unset}] /\ disk' \in [Names -> BOOLEAN]
        /\ \A n \in Names \ {m} : config'[n] = config[n]
    BY <1>0, <2>1, DeleteTypes
  <2> QED
    BY <1>1, <1>2, <1>3, <1>5, <2>3, <2>4, <2>5, EndStep
<1> QED
  BY <1>2, <1>7, <1>8, <1>9 DEF Stopped

-----------------------------------------------------------------------------
(* The shutdown: no operation is under way, and none begins.               *)

LEMMA HubFrame ==
  ASSUME IInv, Idle, UNCHANGED <<env, config, op>>, ~Up', TypeOK',
         \A m \in Names :
           /\ mod'[m].known = mod[m].known /\ mod'[m].held = mod[m].held
           /\ mod'[m].restarts = mod[m].restarts
           /\ mod'[m].state = "unconfigured" => mod[m].state = "unconfigured"
           /\ loop[m] \in Over => loop'[m] \in Over
           /\ loop'[m] \notin Over => tracked'[m]
           /\ tracked'[m] => tracked[m]
           /\ children'[m] = IF mod'[m].held \/ loop'[m] = "spawning" THEN 1 ELSE 0
           /\ mod[m].held => loop'[m] \in Attended \cup {"done"}
           /\ children'[m] <= children[m]
  PROVE  IInv'
<1>1. OpInv'
  BY DEF OpInv, Idle
<1>2. ASSUME NEW m \in Names
      PROVE  ModuleInv(m)'
  <2>1. ModuleInv(m) /\ NoName \notin Names /\ children[m] \in Nat /\ children'[m] \in Nat
    BY RowTypes DEF IInv, TypeOK
  <2>2. ~Stopping(m) /\ (Missing(m)' <=> Missing(m))
    BY <2>1 DEF Stopping, Idle, NoOp, Missing, Resolved
  <2>3. ChildInv(m)'
    BY DEF ChildInv
  <2>4. LoopInv(m)'
    BY <2>1 DEF ModuleInv, LoopInv
  <2>5. KeyInv(m)'
    BY <2>1, <2>2 DEF ModuleInv, KeyInv
  <2>6. ReadyInv(m)'
    BY DEF ReadyInv
  <2> QED
    BY <2>3, <2>4, <2>5, <2>6 DEF ModuleInv
<1> QED
  BY <1>1, <1>2 DEF IInv

(* The walk of stop() visits a module, or ends and cancels every loop.     *)
LEMMA WalkStep ==
  ASSUME IInv, Idle, NEW left \in SUBSET Names, Walk(left),
         UNCHANGED <<tracked, env, config, disk, op, ops>>, mod' \in [Names -> Rows],
         \A m \in Names : /\ mod'[m].known = mod[m].known /\ mod'[m].held = mod[m].held
                          /\ mod'[m].restarts = mod[m].restarts /\ mod'[m].state = mod[m].state
  PROVE  IInv'
<1>0. /\ TypeOK /\ loop \in [Names -> Places] /\ children \in [Names -> Nat] /\ NoName \notin Names
  BY RowTypes DEF IInv
<1>1. ASSUME NEW m \in Names
      PROVE  /\ children[m] = IF mod[m].held \/ loop[m] = "spawning" THEN 1 ELSE 0
             /\ mod[m].held => loop[m] \in Attended \cup {"done"}
             /\ loop[m] \notin Over => tracked[m]
             /\ loop[m] \in Places /\ children[m] \in Nat
  <2>1. ChildInv(m) /\ LoopInv(m) /\ ~Waiting(m)
    BY <1>0 DEF IInv, ModuleInv, Waiting, Idle, NoOp
  <2> QED
    BY <1>0, <2>1 DEF ChildInv, LoopInv
<1>2. CASE \E m \in left, skipped \in SUBSET {q \in left : Quiet(q)} :
             /\ hub' = [phase |-> "killing", todo |-> left \ (skipped \cup {m}), killing |-> m]
             /\ UNCHANGED <<loop, children>>
  <2>1. TypeOK' /\ ~Up'
    BY <1>0, <1>2 DEF TypeOK, Rows, Up
  <2> QED
    BY <1>0, <1>1, <1>2, <2>1, HubFrame
<1>3. CASE /\ hub' = [phase |-> "joining", todo |-> {}, killing |-> NoName]
           /\ loop' = [m \in Names |-> IF tracked[m] THEN Cancelled(loop[m]) ELSE loop[m]]
           /\ children' = [m \in Names |-> IF tracked[m] THEN Reaped(loop[m], children[m])
                                                        ELSE children[m]]
  <2>1. \A p \in Places : /\ Cancelled(p) \in Places \ {"spawning"}
                          /\ p \in Over => Cancelled(p) \in Over
                          /\ p \in Attended \cup {"done"} => Cancelled(p) \in Attended \cup {"done"}
    BY DEF Cancelled, Places, Over, Attended
  <2>2. ASSUME NEW m \in Names
        PROVE  /\ loop'[m] \in Places /\ children'[m] \in Nat
               /\ loop[m] \in Over => loop'[m] \in Over
               /\ loop'[m] \notin Over => tracked'[m]
               /\ children'[m] = IF mod'[m].held \/ loop'[m] = "spawning" THEN 1 ELSE 0
               /\ mod[m].held => loop'[m] \in Attended \cup {"done"}
               /\ children'[m] <= children[m]
    <3>1. CASE tracked[m]
      <4>1. loop'[m] = Cancelled(loop[m]) /\ children'[m] = Reaped(loop[m], children[m])
        BY <1>3, <3>1
      <4>2. loop[m] = "spawning" => ~mod[m].held
        BY <1>1 DEF Attended
      <4>3. Reaped(loop[m], children[m]) = IF mod[m].held THEN 1 ELSE 0
        BY <1>1, <4>2 DEF Reaped
      <4> QED
        BY <1>1, <2>1, <3>1, <4>1, <4>3
    <3>2. CASE ~tracked[m]
      <4>1. loop'[m] = loop[m] /\ children'[m] = children[m]
        BY <1>3, <3>2
      <4> QED
        BY <1>1, <3>2, <4>1
    <3> QED
      BY <3>1, <3>2
  <2>3. loop' \in [Names -> Places] /\ children' \in [Names -> Nat]
    BY <1>3, <2>2
  <2>4. TypeOK' /\ ~Up'
    BY <1>0, <1>3, <2>3 DEF TypeOK, Rows, Up
  <2> QED
    BY <2>2, <2>4, HubFrame
<1> QED
  BY <1>2, <1>3 DEF Walk

LEMMA HubSteps ==
  ASSUME IInv, BeginStop \/ HubStep
  PROVE  IInv'
<1>0. /\ TypeOK /\ OpInv /\ mod \in [Names -> Rows] /\ loop \in [Names -> Places]
      /\ children \in [Names -> Nat] /\ NoName \notin Names
  BY RowTypes DEF IInv
<1>1. CASE BeginStop
  BY <1>0, <1>1, WalkStep DEF BeginStop
<1>2. CASE Visited
  <2>1. Idle /\ hub.todo \in SUBSET Names
    BY <1>0, <1>2 DEF Visited, OpInv, Up, TypeOK
  <2>2. mod' = [mod EXCEPT ![hub.killing].client = FALSE]
    BY <1>2 DEF Visited
  <2>3. /\ mod' \in [Names -> Rows]
        /\ \A m \in Names : /\ mod'[m].known = mod[m].known /\ mod'[m].held = mod[m].held
                            /\ mod'[m].restarts = mod[m].restarts /\ mod'[m].state = mod[m].state
    BY <1>0, <2>2, ZenonT(60) DEF Rows
  <2> QED
    BY <1>2, <2>1, <2>3, WalkStep DEF Visited
<1>3. CASE Joined
  <2>1. Idle /\ ~Up
    BY <1>0, <1>3 DEF Joined, OpInv, Up
  <2>2. /\ hub' = [hub EXCEPT !.phase = "stopped"] /\ tracked' = [m \in Names |-> FALSE]
        /\ mod' = [m \in Names |-> IF mod[m].state \in {"unconfigured", "failed"} THEN mod[m]
                                   ELSE [mod[m] EXCEPT !.state = "stopped"]]
        /\ UNCHANGED <<loop, children, env, config, disk, op, ops>>
    BY <1>3 DEF Joined
  <2>3. "stopped" \in States
    BY DEF States
  <2>4. ASSUME NEW m \in Names
        PROVE  /\ mod'[m] \in Rows
               /\ mod'[m].known = mod[m].known /\ mod'[m].held = mod[m].held
               /\ mod'[m].restarts = mod[m].restarts
               /\ mod'[m].state = "unconfigured" => mod[m].state = "unconfigured"
    <3>1. mod[m] \in Rows /\ mod'[m] \in {mod[m], [mod[m] EXCEPT !.state = "stopped"]}
      BY <1>0, <2>2
    <3> QED
      BY <2>3, <3>1 DEF Rows
  <2>5. mod' \in [Names -> Rows] /\ tracked' \in [Names -> BOOLEAN]
    BY <2>2, <2>4
  <2>6. hub' \in [phase : {"up", "killing", "joining", "stopped"},
                  todo : SUBSET Names, killing : Names \cup {NoName}] /\ ~Up'
    BY <1>0, <2>2 DEF TypeOK, Up
  <2>7. TypeOK'
    BY <1>0, <2>2, <2>5, <2>6 DEF TypeOK, Rows
  <2>8. ASSUME NEW m \in Names
        PROVE  /\ loop'[m] \in Over /\ loop'[m] = loop[m] /\ ~tracked'[m]
               /\ children'[m] = IF mod'[m].held \/ loop'[m] = "spawning" THEN 1 ELSE 0
               /\ mod[m].held => loop'[m] \in Attended \cup {"done"}
               /\ children'[m] <= children[m]
    <3>1. ChildInv(m) /\ LoopInv(m) /\ ~Waiting(m) /\ children[m] \in Nat
      BY <1>0, <2>1 DEF IInv, ModuleInv, Waiting, Idle, NoOp
    <3>2. loop[m] \in Over
      BY <1>3, <3>1 DEF Joined, LoopInv, Over
    <3> QED
      BY <2>2, <2>4, <3>1, <3>2 DEF ChildInv
  <2> QED
    BY <2>1, <2>2, <2>4, <2>6, <2>7, <2>8, HubFrame
<1> QED
  BY <1>1, <1>2, <1>3 DEF HubStep

-----------------------------------------------------------------------------
(* The inductive invariant.                                                *)

LEMMA InitInv == Init => IInv
<1> SUFFICES ASSUME Init PROVE IInv
  OBVIOUS
<1>1. /\ config \in [Names -> Values \cup {Unset}] /\ disk = [m \in Names |-> m \in Installed]
      /\ mod = [m \in Names |-> IF m \notin Installed THEN Forgotten
                                ELSE Fresh(IF Missing(m) THEN "unconfigured" ELSE "stopped")]
      /\ loop = [m \in Names |-> IF m \in Installed /\ ~Missing(m) THEN "new" ELSE "none"]
      /\ tracked = [m \in Names |-> m \in Installed /\ ~Missing(m)]
      /\ children = [m \in Names |-> 0] /\ env = [m \in Names |-> Unset]
      /\ op = NoOp /\ ops = 0 /\ hub = [phase |-> "up", todo |-> {}, killing |-> NoName]
  BY DEF Init
<1>2. \A s \in States : /\ Fresh(s) \in Rows /\ Fresh(s).known /\ ~Fresh(s).held
                        /\ Fresh(s).restarts = 0 /\ Fresh(s).state = s
  BY SupervisorAssumption DEF Fresh, Rows
<1>3. {"unconfigured", "stopped"} \subseteq States /\ {"new", "none"} \subseteq Places
  BY DEF States, Places
<1>4. ASSUME NEW m \in Names
      PROVE  /\ mod[m] \in Rows /\ loop[m] \in Places /\ tracked[m] \in BOOLEAN
             /\ children[m] = 0 /\ ~mod[m].held /\ mod[m].state \in {"unconfigured", "stopped"}
             /\ loop[m] \in Over \/ (/\ loop[m] = "new" /\ tracked[m] /\ mod[m].known
                                     /\ mod[m].restarts = 0 /\ mod[m].state = "stopped"
                                     /\ ~Missing(m))
             /\ mod[m].known \/ (loop[m] \in Over /\ ~tracked[m])
  <2>1. /\ loop[m] = IF m \in Installed /\ ~Missing(m) THEN "new" ELSE "none"
        /\ tracked[m] = (m \in Installed /\ ~Missing(m)) /\ children[m] = 0
    BY <1>1
  <2>2. CASE m \notin Installed
    <3>1. mod[m] = Forgotten
      BY <1>1, <2>2
    <3> QED
      BY <1>3, <2>1, <2>2, <3>1, FreshRow DEF Over
  <2>3. CASE m \in Installed
    <3>1. mod[m] = Fresh(IF Missing(m) THEN "unconfigured" ELSE "stopped")
      BY <1>1, <2>3
    <3> QED
      BY <1>2, <1>3, <2>1, <2>3, <3>1 DEF Over
  <2> QED
    BY <2>2, <2>3
<1>5. mod \in [Names -> Rows] /\ loop \in [Names -> Places] /\ tracked \in [Names -> BOOLEAN]
  BY <1>1, <1>4
<1>6. TypeOK
  BY <1>1, <1>5 DEF TypeOK, Rows, NoOp
<1>7. ASSUME NEW m \in Names
      PROVE  ModuleInv(m)
  <2>1. loop[m] \in {"none", "done", "new"} /\ MaxRetries \in Nat
    BY <1>4, SupervisorAssumption DEF Over
  <2>2. ChildInv(m) /\ ReadyInv(m)
    BY <1>4, <2>1 DEF ChildInv, ReadyInv
  <2>3. LoopInv(m)
    BY <1>4, <2>1 DEF LoopInv, Over
  <2>4. KeyInv(m)
    BY <1>4 DEF KeyInv
  <2> QED
    BY <2>2, <2>3, <2>4 DEF ModuleInv
<1>8. OpInv
  BY <1>1 DEF OpInv, Idle
<1> QED
  BY <1>6, <1>7, <1>8 DEF IInv

LEMMA NextInv == IInv /\ [Next]_vars => IInv'
<1> SUFFICES ASSUME IInv, [Next]_vars PROVE IInv'
  OBVIOUS
<1>1. CASE UNCHANGED vars
  <2>1. UNCHANGED <<mod, loop, tracked, children, env, config, disk, op, ops, hub>>
    BY <1>1 DEF vars
  <2>2. TypeOK' /\ OpInv'
    BY <2>1 DEF IInv, TypeOK, OpInv, Idle, Up
  <2>3. ASSUME NEW m \in Names
        PROVE  ModuleInv(m)'
    BY <2>1 DEF IInv, ModuleInv, ChildInv, LoopInv, KeyInv, ReadyInv, Stopping, Waiting, Up,
       Missing, Resolved
  <2> QED
    BY <2>2, <2>3 DEF IInv
<1> QED
  BY <1>1, LoopSteps, ExitStep, InstallStep, RemoveStep, ConfigureStep, TaskEndedStep,
     StoppedStep, HubSteps DEF Next, OpStep

(* Whatever crashes, operations and shutdowns overlap, IInv holds.         *)
THEOREM Invariance == Spec => []IInv
  BY InitInv, NextInv, PTL DEF Spec

(* Every variable has its type.                                            *)
THEOREM TypeCorrectness == Spec => []TypeOK
<1>1. IInv => TypeOK
  BY DEF IInv
<1> QED
  BY <1>1, Invariance, PTL

(* A module never has two processes: a new loop starts only when the old   *)
(* one is over and _stop_module has ended the process it left behind.      *)
THEOREM OneProcess == Spec => []OneChild
<1>1. IInv => OneChild
  BY DEF IInv, ModuleInv, ChildInv, OneChild
<1> QED
  BY <1>1, Invariance, PTL

(* A removed module has neither process nor loop.                          *)
THEOREM RemovalIsComplete == Spec => []RemovedIsGone
<1>1. ASSUME IInv, NEW m \in Names, ~mod[m].known
      PROVE  children[m] = 0 /\ loop[m] \in Over
  BY <1>1 DEF IInv, ModuleInv, ChildInv, LoopInv, Over
<1>2. IInv => RemovedIsGone
  BY <1>1 DEF RemovedIsGone
<1> QED
  BY <1>2, Invariance, PTL

(* A module without its key runs only until the operation that took the    *)
(* key has stopped it, wherever the key was looked for.                    *)
THEOREM NoKeyNoProcess == Spec => []UnconfiguredNeverRuns
<1>1. ASSUME IInv, NEW m \in Names
      PROVE  /\ mod[m].state = "unconfigured" \/ (Missing(m) /\ Idle)
                  => children[m] = 0 /\ loop[m] \in Over
             /\ Idle /\ children[m] > 0 => env[m] # Unset
  <2>1. ChildInv(m) /\ KeyInv(m) /\ NoName \notin Names
    BY <1>1, RowTypes DEF IInv, ModuleInv
  <2>2. Idle => ~Stopping(m)
    BY <2>1 DEF Idle, Stopping, NoOp
  <2> QED
    BY <2>1, <2>2 DEF ChildInv, KeyInv, Over
<1>2. IInv => UnconfiguredNeverRuns
  BY <1>1 DEF UnconfiguredNeverRuns
<1> QED
  BY <1>2, Invariance, PTL

(* A module that is shown as ready has its loop waiting for its exit and   *)
(* can be called while it lives, or its state is about to change.          *)
THEOREM ReadyIsAlive == Spec => []NoGhostReady
<1>1. ASSUME IInv, NEW m \in Names, Up, Shown(m) \in {"ready", "degraded"}
      PROVE  \/ loop[m] = "wait" /\ (mod[m].held => mod[m].client)
             \/ loop[m] \in {"probe", "close"}
             \/ op.on = m
  <2>1. ReadyInv(m)
    BY <1>1 DEF IInv, ModuleInv
  <2>2. mod[m].known /\ mod[m].state \in {"ready", "degraded"}
    BY <1>1 DEF Shown
  <2> QED
    BY <1>1, <2>1, <2>2 DEF ReadyInv, Stopping
<1>2. IInv => NoGhostReady
  BY <1>1 DEF NoGhostReady
<1> QED
  BY <1>2, Invariance, PTL

=============================================================================
