----------------------------- MODULE Supervisor -----------------------------
(***************************************************************************)
(* The life of the modules (src/src/vahub/core/supervisor.py): one loop    *)
(* per module that spawns its process, shakes hands, waits for its exit    *)
(* and tries again; the operations the web layer runs on a live hub        *)
(* (src/src/vahub/web/modules.py), one at a time under its install lock;   *)
(* and the shutdown of the hub.                                            *)
(*                                                                         *)
(* An action runs from one await to the next.  A task that is cancelled    *)
(* gets the exception at the await it is suspended at, and two of these    *)
(* awaits swallow it: see Cancelled.                                       *)
(***************************************************************************)
EXTENDS Naturals, FiniteSets

CONSTANTS
  Names,        (* the modules                                             *)
  NoName,       (* no module                                               *)
  Installed,    (* the modules whose manifest is on disk at the start      *)
  Values,       (* the values the required configuration key can have      *)
  Unset,        (* ... and that it has none                                *)
  Scoped,       (* Scoped[m]: the value exported for module m alone        *)
  Shared,       (* the value exported for whoever names the key            *)
  MaxRetries,   (* restart.max_retries                                     *)
  MaxOps        (* bound on the operations of the web layer                *)

ASSUME SupervisorAssumption ==
  /\ NoName \notin Names
  /\ Installed \subseteq Names
  /\ Values # {}
  /\ Unset \notin Values
  /\ Scoped \in [Names -> Values \cup {Unset}]
  /\ Shared \in Values \cup {Unset}
  /\ MaxRetries \in Nat
  /\ MaxOps \in Nat

VARIABLES
  mod,       (* mod[m]: the Module object, as far as others read it        *)
  loop,      (* loop[m]: the await its _supervise task is suspended at     *)
  tracked,   (* tracked[m]: is that task in _tasks                         *)
  children,  (* children[m]: how many of its processes are alive           *)
  env,       (* env[m]: the configuration its last process was given       *)
  config,    (* config[m]: the stored configuration, which every operation *)
             (* copies to the snapshot _db_config before it looks at it    *)
  disk,      (* disk[m]: is its manifest installed                         *)
  op,        (* the operation of the web layer that is under way           *)
  ops,       (* how many there have been                                   *)
  hub        (* the shutdown: its phase, the modules stop() has still to   *)
             (* visit, and the one whose process it waits for              *)

vars == <<mod, loop, tracked, children, env, config, disk, op, ops, hub>>

States == {"unconfigured", "starting", "ready", "degraded", "failed", "stopped"}

(* mod[m].known: in the dictionary modules.  mod[m].held: proc names a     *)
(* process that lives.  mod[m].client: client is not None.  mod[m].since:  *)
(* ready_since is set.                                                     *)
Fresh(s) ==
  [known |-> TRUE, state |-> s, held |-> FALSE, client |-> FALSE,
   restarts |-> 0, since |-> FALSE]

Forgotten == [Fresh("stopped") EXCEPT !.known = FALSE]

(* Where a loop can be.  "spawning" is create_subprocess_exec after the     *)
(* fork, "reject_*" and "abort" the ways out of a handshake that failed or *)
(* was cancelled, "probe" and "close" the ends of _run_until_exit,         *)
(* "unwind" the same with a cancellation on its way.                       *)
Places ==
  {"none", "new", "spawning", "handshake", "reject_close", "reject_kill",
   "abort", "wait", "probe", "close", "unwind", "backoff", "done"}

Over == {"none", "done"}

Up == hub.phase = "up"
Running(m) == tracked[m] /\ loop[m] # "done"     (* Supervisor._running    *)

(* Two readers of the configuration: resolve_config_value, which decides   *)
(* whether a module is configured, and _child_env, which gives its process *)
(* what it declares.  The host's environment wins over what is stored.     *)
Resolved(m, stored) ==
  IF Scoped[m] # Unset THEN Scoped[m] ELSE IF Shared # Unset THEN Shared ELSE stored

ChildEnv(m) ==
  CASE Scoped[m] # Unset -> Scoped[m]
    [] Scoped[m] = Unset /\ Shared # Unset -> Shared
    [] OTHER -> config[m]

Missing(m) == Resolved(m, config[m]) = Unset     (* missing_config         *)

(* What the list of modules says of one that is installed.                 *)
Shown(m) ==
  IF ~disk[m] THEN "absent" ELSE IF mod[m].known THEN mod[m].state ELSE "stopped"

NoOp == [kind |-> "none", on |-> NoName, at |-> "none"]

SetState(m, s) == mod' = [mod EXCEPT ![m].state = s]
Move(m, p) == loop' = [loop EXCEPT ![m] = p]

(* task.cancel(): where the loop goes from the await it is suspended at.   *)
(* The await on the health task suppresses CancelledError and so does      *)
(* McpClient.close: a cancellation that arrives there is lost.             *)
Cancelled(p) ==
  CASE p \in {"new", "spawning", "reject_kill", "backoff"} -> "done"
    [] p = "handshake" -> "abort"
    [] p = "wait" -> "unwind"
    [] OTHER -> p

(* asyncio kills the child of a create_subprocess_exec that is cancelled.  *)
Reaped(p, n) == IF p = "spawning" THEN n - 1 ELSE n

Init ==
  /\ config \in [Names -> Values \cup {Unset}]
  /\ disk = [m \in Names |-> m \in Installed]
  /\ mod = [m \in Names |->
              IF m \notin Installed THEN Forgotten
              ELSE Fresh(IF Missing(m) THEN "unconfigured" ELSE "stopped")]
  /\ loop = [m \in Names |-> IF m \in Installed /\ ~Missing(m) THEN "new" ELSE "none"]
  /\ tracked = [m \in Names |-> m \in Installed /\ ~Missing(m)]
  /\ children = [m \in Names |-> 0]
  /\ env = [m \in Names |-> Unset]
  /\ op = NoOp
  /\ ops = 0
  /\ hub = [phase |-> "up", todo |-> {}, killing |-> NoName]

-----------------------------------------------------------------------------
(* The loop of a module: _supervise, _spawn_and_init, _run_until_exit.     *)

others == <<tracked, config, disk, op, ops, hub>>

(* Mutant of Failure: the state is left as it was.                         *)
FailureUnseen(m) ==
  /\ mod' = [mod EXCEPT ![m].restarts = @ + 1, ![m].client = FALSE]
  /\ Move(m, IF mod[m].restarts + 1 > MaxRetries THEN "done" ELSE "backoff")

FailureWithin(m, retries) ==
  \E forgiven \in {FALSE, mod[m].since} :
    LET r == IF forgiven THEN 1 ELSE mod[m].restarts + 1
        spent == r > retries
    IN  /\ mod' = [mod EXCEPT ![m].restarts = r, ![m].since = FALSE,
                              ![m].client = FALSE,
                              ![m].state = IF spent THEN "failed" ELSE "starting"]
        /\ Move(m, IF spent THEN "done" ELSE "backoff")

(* Mutant of Failure: the limit is off by one.                             *)
FailureOnceMore(m) == FailureWithin(m, MaxRetries + 1)

(* _register_failure, then the backoff or the end of the loop.  A module   *)
(* that had been ready for reset_after_s is forgiven its failures.         *)
Failure(m) == FailureWithin(m, MaxRetries)

(* The top of the loop.  The environment of the child is computed, and the *)
(* child forked, before create_subprocess_exec suspends; or it raises.     *)
SpawnOrFail(m) ==
  \/ /\ Move(m, "spawning")
     /\ SetState(m, "starting")
     /\ env' = [env EXCEPT ![m] = ChildEnv(m)]
     /\ children' = [children EXCEPT ![m] = @ + 1]
  \/ /\ Failure(m)
     /\ UNCHANGED <<env, children>>

(* Mutant of Begin: while True.                                            *)
BeginAnyway(m) ==
  /\ loop[m] \in {"new", "backoff"}
  /\ SpawnOrFail(m)
  /\ UNCHANGED others

Begin(m) ==
  /\ loop[m] \in {"new", "backoff"}
  /\ IF Up THEN SpawnOrFail(m)
           ELSE Move(m, "done") /\ UNCHANGED <<mod, env, children>>
  /\ UNCHANGED others

(* The process is there: proc and client are set, initialize is sent.      *)
Spawned(m) ==
  /\ loop[m] = "spawning"
  /\ mod' = [mod EXCEPT ![m].held = TRUE, ![m].client = TRUE]
  /\ Move(m, "handshake")
  /\ UNCHANGED <<children, env, others>>

Ready(m) ==
  /\ loop[m] = "handshake"
  /\ mod[m].client
  /\ mod' = [mod EXCEPT ![m].state = "ready", ![m].since = TRUE]
  /\ Move(m, "wait")
  /\ UNCHANGED <<children, env, others>>

(* Mutant of Reject: no timeout, so that only a dead process ends it.      *)
RejectOnExit(m) ==
  /\ loop[m] = "handshake"
  /\ ~mod[m].held
  /\ Move(m, "reject_close")
  /\ UNCHANGED <<mod, children, env, others>>

(* The handshake fails or exceeds startup_timeout_s: close and kill.  It   *)
(* fails with an answer that is no object, announces no tools or lists     *)
(* none.                                                                   *)
Reject(m) ==
  /\ loop[m] = "handshake"
  /\ Move(m, "reject_close")
  /\ UNCHANGED <<mod, children, env, others>>

RejectClosed(m) ==
  /\ loop[m] = "reject_close"
  /\ mod' = [mod EXCEPT ![m].client = FALSE]
  /\ Move(m, "reject_kill")
  /\ UNCHANGED <<children, env, others>>

RejectKilled(m) ==
  /\ loop[m] = "reject_kill"
  /\ ~mod[m].held
  /\ Failure(m)
  /\ UNCHANGED <<children, env, others>>

(* Cancelled in the handshake: the client is closed but not forgotten, and *)
(* the process killed, before the exception goes on.                       *)
Aborted(m) ==
  /\ loop[m] = "abort"
  /\ ~mod[m].held
  /\ Move(m, "done")
  /\ UNCHANGED <<mod, children, env, others>>

(* The health loop lives as long as the wait for the exit.                 *)
Probe(m) ==
  /\ loop[m] = "wait"
  /\ mod[m].client
  /\ \E s \in {"ready", "degraded"} : mod[m].state # s /\ SetState(m, s)
  /\ UNCHANGED <<loop, children, env, others>>

Exited(m) ==
  /\ loop[m] = "wait"
  /\ ~mod[m].held
  /\ Move(m, "probe")
  /\ UNCHANGED <<mod, children, env, others>>

ProbeEnded(m) ==
  /\ loop[m] = "probe"
  /\ Move(m, "close")
  /\ UNCHANGED <<mod, children, env, others>>

Closed(m) ==
  /\ loop[m] = "close"
  /\ IF Up THEN Failure(m)
           ELSE /\ mod' = [mod EXCEPT ![m].client = FALSE]
                /\ Move(m, "done")
  /\ UNCHANGED <<children, env, others>>

Unwound(m) ==
  /\ loop[m] = "unwind"
  /\ mod' = [mod EXCEPT ![m].client = FALSE]
  /\ Move(m, "done")
  /\ UNCHANGED <<children, env, others>>

(* What the loop does whether or not the module ever answers.              *)
LoopStep(m) ==
  \/ Begin(m)
  \/ Spawned(m)
  \/ Reject(m)
  \/ RejectClosed(m)
  \/ RejectKilled(m)
  \/ Aborted(m)
  \/ Exited(m)
  \/ ProbeEnded(m)
  \/ Closed(m)
  \/ Unwound(m)

-----------------------------------------------------------------------------
(* The operations of the web layer.                                        *)

Idle == op = NoOp

StartOp == Up /\ Idle /\ ops < MaxOps /\ ops' = ops + 1 /\ UNCHANGED <<env, hub>>

(* _stop_module up to its first await: the task leaves _tasks and is       *)
(* cancelled.                                                              *)
StopFor(m, kind) ==
  /\ op' = [kind |-> kind, on |-> m, at |-> "task"]
  /\ tracked' = [tracked EXCEPT ![m] = FALSE]
  /\ loop' = [loop EXCEPT ![m] = Cancelled(@)]
  /\ children' = [children EXCEPT ![m] = Reaped(loop[m], @)]
  /\ UNCHANGED mod

(* A new instance of Module, and a loop for it if it is configured.        *)
Launch(m, absent, object) ==
  /\ mod' = [mod EXCEPT ![m] = [object EXCEPT !.state =
                                  IF absent THEN "unconfigured" ELSE "starting"]]
  /\ tracked' = [tracked EXCEPT ![m] = ~absent]
  /\ loop' = [loop EXCEPT ![m] = IF absent THEN "none" ELSE "new"]

(* Mutant of Load: the previous instance is not stopped first.             *)
LoadOver(m, absent) ==
  /\ Launch(m, absent, Fresh("stopped"))
  /\ UNCHANGED <<children, op>>

(* _load_module: replace the running instance, or just start one.          *)
Load(m, absent) ==
  IF Running(m) THEN StopFor(m, "load")
  ELSE /\ Launch(m, absent, Fresh("stopped"))
       /\ UNCHANGED <<children, op>>

(* POST /modules: install or reinstall.                                    *)
Install(m) ==
  /\ StartOp
  /\ disk' = [disk EXCEPT ![m] = TRUE]
  /\ Load(m, Missing(m))
  /\ UNCHANGED config

(* Mutant of Apply: a module that lost its key is left running.            *)
ApplyLenient(m, absent) ==
  /\ mod[m].known /\ absent
  /\ SetState(m, "unconfigured")
  /\ UNCHANGED <<loop, tracked, children, op>>

(* _apply_config.  A loop that has no process yet is not bounced.          *)
Apply(m, absent) ==
  \/ ~mod[m].known /\ Load(m, absent)
  \/ /\ mod[m].known /\ absent /\ Running(m)
     /\ StopFor(m, "unset")
  \/ /\ mod[m].known /\ absent /\ ~Running(m)
     /\ SetState(m, "unconfigured")
     /\ UNCHANGED <<loop, tracked, children, op>>
  \/ /\ mod[m].known /\ ~absent /\ Running(m)
     /\ mod' = [mod EXCEPT ![m].restarts = 0]
     /\ op' = IF mod[m].held THEN [kind |-> "bounce", on |-> m, at |-> "kill"]
                             ELSE NoOp
     /\ UNCHANGED <<loop, tracked, children>>
  \/ /\ mod[m].known /\ ~absent /\ ~Running(m)
     /\ Launch(m, FALSE, [mod[m] EXCEPT !.restarts = 0])
     /\ UNCHANGED <<children, op>>

(* The database and the snapshot of it that the supervisor reads.          *)
Store(m, v) == config' = [config EXCEPT ![m] = v]

(* PUT and DELETE /modules/{name}/config/{key}.                            *)
Configure(m, v) ==
  /\ StartOp
  /\ disk[m]
  /\ Store(m, v)
  /\ Apply(m, Resolved(m, v) = Unset)
  /\ UNCHANGED disk

(* The manifest goes, then the tree, then the stored configuration.  An    *)
(* error in the files ends it there: nothing is gone, or the manifest is   *)
(* and the configuration is not.                                           *)
Delete(m) ==
  \/ UNCHANGED <<disk, config>>
  \/ /\ disk' = [disk EXCEPT ![m] = FALSE]
     /\ Store(m, Unset) \/ UNCHANGED config

(* What is left of a removal once the module is stopped.                   *)
Forget(m) ==
  /\ mod' = [mod EXCEPT ![m] = Forgotten]
  /\ loop' = [loop EXCEPT ![m] = "none"]
  /\ tracked' = [tracked EXCEPT ![m] = FALSE]
  /\ Delete(m)

(* Mutant of Remove: the row is dropped, the loop left to its cancellation. *)
RemoveAtOnce(m) ==
  /\ StartOp
  /\ mod[m].known
  /\ mod' = [mod EXCEPT ![m] = Forgotten]
  /\ loop' = [loop EXCEPT ![m] = Cancelled(@)]
  /\ children' = [children EXCEPT ![m] = Reaped(loop[m], @)]
  /\ tracked' = [tracked EXCEPT ![m] = FALSE]
  /\ config' = [config EXCEPT ![m] = Unset]
  /\ disk' = [disk EXCEPT ![m] = FALSE]
  /\ UNCHANGED op

(* DELETE /modules/{name}.                                                 *)
Remove(m) ==
  /\ StartOp
  /\ \/ /\ mod[m].known
        /\ StopFor(m, "remove")
        /\ UNCHANGED <<config, disk>>
     \/ /\ ~mod[m].known
        /\ Delete(m)
        /\ UNCHANGED <<mod, loop, tracked, children, op>>

(* The rest of _stop_module and of the operation that called it.  The      *)
(* process a cancelled loop leaves behind is killed here.                  *)
TaskEnded ==
  /\ op.at = "task"
  /\ loop[op.on] \in Over
  /\ op' = [op EXCEPT !.at = "kill"]
  /\ UNCHANGED <<mod, loop, tracked, children, env, config, disk, ops, hub>>

Stopped ==
  /\ op.at = "kill"
  /\ op.kind # "bounce"
  /\ ~mod[op.on].held
  /\ \/ op.kind = "load" /\ Launch(op.on, Missing(op.on), Fresh("stopped"))
                         /\ UNCHANGED <<config, disk>>
     \/ op.kind = "unset" /\ mod' = [mod EXCEPT ![op.on].state = "unconfigured",
                                                ![op.on].client = FALSE]
                          /\ UNCHANGED <<loop, tracked, config, disk>>
     \/ op.kind = "remove" /\ Forget(op.on)
  /\ op' = NoOp
  /\ UNCHANGED <<children, env, ops, hub>>

OpStep == TaskEnded \/ Stopped

-----------------------------------------------------------------------------
(* Processes, and the shutdown of the hub: Supervisor.stop.                *)

BeingKilled(m) ==
  \/ loop[m] \in {"reject_kill", "abort"}
  \/ op.on = m /\ op.at = "kill"
  \/ hub.killing = m

(* A process exits, by itself or because _kill signals it (SIGTERM, then   *)
(* SIGKILL).  The bounce of restart() ends with it: the loop is woken by   *)
(* the same exit and respawns only after its backoff.                      *)
ProcessExits(m) ==
  /\ mod[m].held
  /\ mod' = [mod EXCEPT ![m].held = FALSE]
  /\ children' = [children EXCEPT ![m] = @ - 1]
  /\ op' = IF op.kind = "bounce" /\ op.on = m THEN NoOp ELSE op
  /\ UNCHANGED <<loop, tracked, env, config, disk, ops, hub>>

Killed(m) == BeingKilled(m) /\ ProcessExits(m)

(* stop() walks over the modules that are left; it does not suspend for    *)
(* one that has neither process nor client.  After the last it cancels     *)
(* every task in _tasks, still without suspending.                         *)
Quiet(m) == ~mod[m].held /\ ~mod[m].client

Walk(left) ==
  \/ \E m \in left, skipped \in SUBSET {q \in left : Quiet(q)} :
       /\ ~Quiet(m)
       /\ hub' = [phase |-> "killing", todo |-> left \ (skipped \cup {m}), killing |-> m]
       /\ UNCHANGED <<loop, children>>
  \/ /\ \A m \in left : Quiet(m)
     /\ hub' = [phase |-> "joining", todo |-> {}, killing |-> NoName]
     /\ loop' = [m \in Names |-> IF tracked[m] THEN Cancelled(loop[m]) ELSE loop[m]]
     /\ children' = [m \in Names |-> IF tracked[m] THEN Reaped(loop[m], children[m])
                                                  ELSE children[m]]

(* The web server has drained before stop() is called.                     *)
BeginStop ==
  /\ Up /\ Idle
  /\ Walk({m \in Names : mod[m].known})
  /\ UNCHANGED <<mod, tracked, env, config, disk, op, ops>>

(* The process is dead, the client is closed: on to the next module.       *)
Visited ==
  /\ hub.phase = "killing"
  /\ ~mod[hub.killing].held
  /\ mod' = [mod EXCEPT ![hub.killing].client = FALSE]
  /\ Walk(hub.todo)
  /\ UNCHANGED <<tracked, env, config, disk, op, ops>>

Joined ==
  /\ hub.phase = "joining"
  /\ \A m \in Names : tracked[m] => loop[m] = "done"
  /\ hub' = [hub EXCEPT !.phase = "stopped"]
  /\ tracked' = [m \in Names |-> FALSE]
  /\ mod' = [m \in Names |->
               IF mod[m].state \in {"unconfigured", "failed"} THEN mod[m]
               ELSE [mod[m] EXCEPT !.state = "stopped"]]
  /\ UNCHANGED <<loop, children, env, config, disk, op, ops>>

HubStep == Visited \/ Joined

Next ==
  \/ \E m \in Names : LoopStep(m) \/ Ready(m) \/ Probe(m) \/ ProcessExits(m)
  \/ \E m \in Names : Install(m) \/ Remove(m)
  \/ \E m \in Names, v \in Values \cup {Unset} : Configure(m, v)
  \/ OpStep
  \/ BeginStop
  \/ HubStep

Spec == Init /\ [][Next]_vars

(* The loop is never suspended for good: what it awaits ends or times out, *)
(* and a signalled process dies.  No module need answer or die by itself,  *)
(* and no operator need act.                                               *)
Fairness ==
  /\ \A m \in Names : WF_vars(LoopStep(m)) /\ WF_vars(Killed(m))
  /\ WF_vars(OpStep)
  /\ WF_vars(HubStep)

FairSpec == Spec /\ Fairness

-----------------------------------------------------------------------------
(* Every variable has its type.                                            *)
TypeOK ==
  /\ mod \in [Names -> [known : BOOLEAN, state : States, held : BOOLEAN,
                        client : BOOLEAN, restarts : 0..(MaxRetries + 1),
                        since : BOOLEAN]]
  /\ loop \in [Names -> Places]
  /\ tracked \in [Names -> BOOLEAN]
  /\ children \in [Names -> Nat]
  /\ env \in [Names -> Values \cup {Unset}]
  /\ config \in [Names -> Values \cup {Unset}]
  /\ disk \in [Names -> BOOLEAN]
  /\ op \in [kind : {"none", "load", "unset", "remove", "bounce"},
             on : Names \cup {NoName}, at : {"none", "task", "kill"}]
  /\ ops \in Nat
  /\ hub \in [phase : {"up", "killing", "joining", "stopped"},
              todo : SUBSET Names, killing : Names \cup {NoName}]

(* A reinstall "does not leave the old process running against the old     *)
(* code" (_load_module): a module never has two processes, whatever        *)
(* crashes, bounces and reinstalls overlap.                                *)
OneChild == \A m \in Names : children[m] <= 1

(* A module that was removed has neither a process nor a loop that could   *)
(* start one (_remove_module).                                             *)
RemovedIsGone ==
  \A m \in Names : ~mod[m].known => children[m] = 0 /\ loop[m] \in Over

(* A module without a key it requires runs only until the operation that   *)
(* took the key has stopped it (_apply_config); and the two readers of the *)
(* configuration agree: no process is left running without the key.        *)
UnconfiguredNeverRuns ==
  \A m \in Names :
    /\ mod[m].state = "unconfigured" \/ (Missing(m) /\ Idle)
      => children[m] = 0 /\ loop[m] \in Over
    /\ Idle /\ children[m] > 0 => env[m] # Unset

(* A dead module is not shown as ready for longer than it takes to notice: *)
(* the loop of a ready module waits for its exit, and calls can reach it   *)
(* while it lives; or the loop, or an operation, is about to say otherwise. *)
NoGhostReady ==
  \A m \in Names :
    Up /\ Shown(m) \in {"ready", "degraded"}
      => \/ loop[m] = "wait" /\ (mod[m].held => mod[m].client)
         \/ loop[m] \in {"probe", "close"}
         \/ op.on = m

(* Starting ends: ready, failed, unconfigured or stopped, but not a        *)
(* handshake without end or a backoff without end.                         *)
StartingSettles ==
  \A m \in Names : mod[m].state = "starting" ~> mod[m].state # "starting"

(* Once stop() runs it ends, wherever its cancellations find the loops and *)
(* although some of them are lost.                                         *)
ShutdownCompletes == ~Up ~> hub.phase = "stopped"

(* "a supervise loop can never outlive the module as an untracked orphan   *)
(* (which stop() at shutdown would then never reach)" (_remove_module): a  *)
(* loop that goes on spawning is one that stop() would cancel.             *)
NoUntrackedLoop ==
  \A m \in Names :
    loop[m] \in {"new", "spawning", "handshake", "wait", "backoff"}
      => tracked[m]

(* "a child outliving the hub is an orphan" (test_supervisor.py).  The     *)
(* code does not keep this: a module that is being spawned when stop()     *)
(* passes it gets its process afterwards, and nobody ends it.              *)
NoOrphan == hub.phase = "stopped" => \A m \in Names : children[m] = 0

(* "restart it if it is running so it picks up the new values"             *)
(* (_apply_config): once the operation has returned, a module that became  *)
(* ready runs with the configuration the hub has for it.  The code does    *)
(* not keep this where the process was being spawned at the time.          *)
ConfigApplied ==
  \A m \in Names :
    Idle /\ Up /\ mod[m].held /\ mod[m].state = "ready" => env[m] = Resolved(m, config[m])

=============================================================================
