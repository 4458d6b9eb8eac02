# A formal model of vahub

vahub is a hub for home modules: a Python asyncio process that runs each
module as a child process, speaks a line-delimited JSON-RPC to it, and lets a
language model, a scheduler and signed-in people call the modules' tools
through one policy gate. This directory holds TLA+ modules translated from its
source (`src/src/vahub/`), the TLC configurations that check them on small
instances, and proofs checked by TLAPS. `PROJECT.json` is the index: components,
runs, mutants, the source lines each definition stands for, findings, hazards
and theorems.

1. [Inventory](#1-inventory)
2. [How the code becomes a model](#2-how-the-code-becomes-a-model)
3. [The modules](#3-the-modules)
4. [The runs](#4-the-runs)
5. [The proofs](#5-the-proofs)
6. [What the model found](#6-what-the-model-found)
7. [What is not modelled](#7-what-is-not-modelled)
8. [Plan](#8-plan)

## 1. Inventory

Everything runs on one event loop in one process, except the module processes,
the SQLite thread of aiosqlite, and the threads of `asyncio.to_thread`
(password hashing, installation). Tasks interleave at awaits only.

| Component | State | Operations | Called by, calls | Hard because | Correct if |
|---|---|---|---|---|---|
| Call path, `core/moduleapi.py` | none of its own; rows of `pending_calls` and `tool_calls`; `mod.lock` of each module | `call`, `call_read`, `confirm`, `cancel` | web routes, agent loop, scheduler; calls gate, store, client, bus | every statement and every request is an await; tasks die; modules die between a check and its use | an approval fires once, for what was frozen, and leaves a record; one call in flight per module; every caller is answered |
| Policy gate, `agent/policy.py`, `config/models.py` | the policy, fixed at start | `evaluate`, `visible_to`, `cls_for`; validators at load | call path, catalog, scheduler | four sources of severity (rule, manifest, principal, default), and manifests change at run time | the agent never acts destructively unasked; permission comes from rules alone |
| Supervisor, `core/supervisor.py` | `modules`, `_tasks`, `_db_config`, `_stopping`; for each module its state, process, client, retry count | `discover`, `start`, `restart`, `load_module`, `apply_config`, `stop_module`, `remove_module`, `stop`; a loop and a health loop per module | runtime, web routes; calls client, bus | cancellation of a loop at any await; processes that hang, crash, or ignore signals; operations that overlap a respawn | one process per module; none left after removal or shutdown; starting ends |
| RPC client, `core/mcpclient.py` | `_next_id`, `_pending`, `_closed`, the reader task | `request`, `close`, the read loop | supervisor, call path | replies that are late, twice, out of order, malformed; close against request | a caller gets its own answer or none; nobody waits on a closed client |
| Store, `storage/store.py` | SQLite: pending and executed calls, conversations, budget, users, sessions, settings, schedules, module configuration | one statement per method, migrations at start | everybody | statements of two tasks interleave; few methods are transactions | each table's own rules, below |
| Catalog, `core/catalog.py` | none | `list_tools`, `for_principal`, `resolve` | agent loop, web | must agree with the gate | shows what may be called |
| Runtime, `core/runtime.py` | all components, the adapters, background tasks | `run`, `_shutdown`, `apply_model_config`, `_persist_module_state` | process, web | order of shutdown; adapters replaced under turns | everything is stopped; the newest settings win |
| Web routes, `web/modules.py`, `web/manage.py`, `web/app.py`, `web/api.py` | `install_lock` | install, remove, set and unset a key; settings; reads | people; call supervisor, installer, store | an operation waits for another while the module changes | after an operation the hub does what was asked; the page shows what runs |
| Scheduler, `scheduler/service.py` | `_schedules`, `_dynamic`, `_locks`, jobs of APScheduler | `start`, `sync_from_store`, `add_dynamic`, `remove_dynamic`, `set_dynamic_enabled`, `run_schedule`, `run_now`, `stop` | cron, web, built-in tools; calls the call path | edits race with one another and with runs | a removed schedule never fires; runs do not overlap |
| Agent loop and sessions, `agent/loop.py`, `agent/session.py` | histories, the adapter, the daily budget | `run_turn`, `set_llm`; `get_or_create`, `trim`, eviction | web, websocket; calls model, catalog, call path, store | turns of one session overlap; the deadline; trimming under a turn | every tool call in a history has its answer after it; budgets hold |
| Event bus and live view, `core/bus.py`, `web/ws.py` | subscriptions, bounded queues | `publish`, `subscribe`, `unsubscribe`, `events` | everybody | two policies for a full queue; close against a full queue | bounded; a closed subscription ends its consumer |
| Accounts, `web/auth.py`, `web/users.py`, tables `users`, `sessions` | accounts, sessions, throttle buckets, `lock` | setup, login, logout, own password, create, reset, role, enable, delete | people | slow hashing between check and use; two administrators | one first owner; always an enabled admin; a reset ends every session |
| Installer, `modules/installer.py`, `modules/store.py` | module directories, records, manifests, staging and backup directories | `install`, `upgrade`, `remove`, `prune_incomplete` | web, command line | a failure or a crash between any two changes of the disk; processes that share it without a lock | the hub finds a whole module or none |
| Built-in module, `core/builtins.py` | settings in the store | dashboard cards, places, schedules | the call path, in process | read, change, write back across awaits | no update is lost |
| Adapters, configuration, contracts, verification, command line | none that lasts | | | I/O, parsing, dialogue | not modelled, section 7 |

## 2. How the code becomes a model

**Atomicity.** Between two awaits a task runs alone, so one action is the code
from one await to the next, with every guard and assignment on the way. A
statement on the store is atomic (the connection is in autocommit mode) and is
an action, because other tasks run before and after it. Where several awaits in
a row are not told apart by anything another task can do, they are one action;
the comments of the module say where.

**Failure.** A task may be cancelled, or the statement it waits for may raise,
at every await (`Abandon`). The hub may die at any time and start again with
its database (`Crash`). A module process may exit, hang, answer late, twice or
nonsense at any time.

**Data.** A call is one model value standing for principal, tool and arguments;
what the gate says of it is the constant `Verdict`, which `Gate` justifies. A
clock is a number up to a bound. A glob is the set of names it matches. A
constraint is the set of values that pass all its tests.

## 3. The modules

| Module | Models | State | Actions |
|---|---|---|---|
| `Approval` | what a confirmation promises | the answer to each question, how often its call ran | open, grant, withdraw, run |
| `ModuleAPI` | `core/moduleapi.py` and the statements on `pending_calls` and `tool_calls` | the rows, each module's health and lock, each task's place and locals, the audit table; three history variables | one for each stretch between awaits of `call`, `call_read`, `confirm`, `cancel`, `_dispatch`, `_audit`; `Abandon`, `Crash`, `Tick`; the module's health |
| `Gate` | `agent/policy.py`, the validators of `config/models.py`, the owner's path of the call path, the scheduler's guard against destructive routines, the catalog filter | the policy, what manifests declare | `Declare`; the decisions are operators |
| `Supervisor` | `core/supervisor.py`, the operations of `web/modules.py`, the shutdown | for each module: the `Module` object, the await its loop is at, whether the loop is tracked, how many processes live, what they were given; stored configuration, manifest on disk; the operation under way; the shutdown | the loop's stretches, the operations up to and after their awaits, `ProcessExits`, the walk of `stop()` |
| `McpClient` | `core/mcpclient.py` | phase of the close, the reader, the id counter, the map of waiters, the callers | `Request`, `GiveUp`, `Resume`, `Read`, `ReaderEnds`, `Close`, `Closed` |
| `Accounts` | `web/auth.py`, `web/users.py`, `cli/user.py`, the tables `users` and `sessions` | the rows, the login throttle, the lock of the routes, each request's or command's place and locals | setup, login and one's own password from await to await; a request of an admin or a command, its check under the lock, its first and its second statement; `Abandon` |
| `Routines` | `scheduler/service.py`, the card tools of `core/builtins.py`, the routes to both in `web/manage.py`, the table `dyn_schedules` | the table, the entries, the jobs, the runs with their locks, the queue of the database, the cards | `Boot`, `Sync`, `Stop`, `Crash`; an edit and its answer; a tick, a run on request, its steps; a card tool's read and save, the page's save |
| `Installer` | `modules/installer.py`, `modules/store.py`, `cli/module.py` | the manifests, the trees, each process's command and place, the backups | `Command`, `Take`; one action per change of the disk of an install, an undo and a removal; `Retry`, `Killed` |
| `Conversation` | `agent/loop.py`, `agent/session.py`, the routes of `web/api.py` that start a turn, the translation of a history in `agent/llm/anthropic.py` | the sessions in order of use, their histories, the turns, the tokens of the day | `Continue`, `Create`; the loop from await to await; every way a turn ends |
| `LiveView` | `core/bus.py`, `web/ws.py`, `Runtime._persist_module_state` | subscriptions, their queues and flags, each consumer's place, the merged queue and the connection of a page | `Publish`, `Connect` to `Release` of a page, `Take`, `Feed`, `Send`, `Save`, `Stall`, `Shutdown` |
| `*Proofs` | theorems about the module they extend | | |
| `MC*` | instances for TLC | | |

They meet as follows. `ModuleAPI` implements `Approval` (a refinement, checked
and proved). `Gate!Evaluate` is what `ModuleAPI`'s constant `Verdict` stands
for, and `Gate!OwnerMayCall` what `OwnerMay` stands for: every assignment of
verdicts is allowed, so nothing proved of the call path depends on a policy.
`Supervisor` drives what `ModuleAPI` sees as `OpenClient`, `Well`, `Unwell` and
`CloseClient`: a client that is open but not ready is a module in its handshake
or degraded. `McpClient` is behind `Acquire`, `Reply` and `Fail`. A step of a
routine (`Routines!StepDone`) and a tool call of a turn (`Conversation!ToolReturned`)
are calls of `ModuleAPI`, which answers every one of them (`EveryCallReturns`);
the lock `core` that keeps two card tools apart is the one of `OneInFlight`.
`LiveView` carries the questions that `ModuleAPI` asks and the states that
`Supervisor` sets. What `Installer` publishes is `Supervisor`'s `disk`.

### ModuleAPI

A task is `idle` or at one of twelve awaits. `call` branches on the verdict:
`Deny` leads to the audit row, `Allow` to the lock, `Ask` to `Sweep`
(`expire_pending`), `Insert` (`create_pending`) and the audit row; a routine
then withdraws what it asked (`CancelRead`, `CancelWrite`). `confirm` is
`ConfirmRead`, `Decide` (clock, then readiness), `ExpireWrite` or `Claim` (the
compare-and-set), `Dispatch` (is there a client?), `Acquire` (lock and
request), `Reply` or `Fail`, `Audit`. Two details of the code are kept because
properties depend on them: `set_pending_status` names the row and not its
status, so `CancelWrite` and `ExpireWrite` overwrite whatever the row has
become; and a failed call writes its audit row inside `async with mod.lock`
while an answered one has left it. `Dispatch` asks for a client and not for
readiness, as the code does: a confirmed call may go to a module that is in its
handshake again. Rejections that leave no trace (unknown module, reserved name,
not ready) are stuttering steps. The health probe, which takes the same lock
for at most its timeout, is not a task here: to the others it is one more
holder that lets go.

### Supervisor

A loop is at one of eleven places, each an await of `_supervise`,
`_spawn_and_init` or `_run_until_exit`. `Cancelled` says what a cancellation
does at each: most end the loop or lead to its cleanup; at `probe` (the health
task) and `close` (the client) the code suppresses `CancelledError`, so the
cancellation is lost. The web layer's `install_lock` and the supervisor's
`_lifecycle` make operations exclusive, so one variable `op` holds the one under way, with the
two awaits that matter (the loop's end, the process's end). `held` is
`mod.proc` naming a live process, `children` the processes there are: they
differ while one is being spawned, which is where two of the findings are.
The initial states are all combinations of configured and unconfigured modules.
The required key of a module may come from the database, from the host's
environment under the module's prefix, or from there unprefixed; two places of
the code look for it through one resolver, `_refresh_config` (`Missing`) and
`_child_env` (`ChildEnv`), at different times; `UnconfiguredNeverRuns` says that
no process comes of it that has no value. `Shown` is what
the list of modules tells the page.

### Gate

`Evaluate`, `VisibleTo`, `OwnerMayCall`, `Schedulable` and the validators are operators
over a policy, a manifest and a call. The initial states are all loadable
policies; `Declare` changes what a module says of a tool. One principal runs
the model's output (`Agent`); any name may be asked about, configured or not.

### McpClient

A request is its number. Answers are any written id in any accepted spelling
(number, whole float, digits) at any time, any number of times, and messages
whose id is no id. `GiveUp` is the timeout or a cancellation, and can win even
when the answer is there but its caller has not run. `close` is two actions,
since it awaits its reader.

### Accounts

A request is `idle` or at one of seven awaits. Hashing and verifying run in a
thread, so a login holds what it read of the account (`seen`) while others
change it. The routes of admins share one lock; logins, one's own password and
`vahub user`, which is another process on the same database, do not take it.
`Locked` is what is looked at under the lock, `Write` the first statement,
`Drop` the second with the answer. `SessionEnds` is a logout and the end of a
session's time alike. The first states are an empty database and one in which
everybody is signed in.

### Routines

A routine is in three places: its row, its entry in memory, its job. An edit
checks memory, awaits a statement and changes memory, and statements are
answered in the order they were asked, since aiosqlite serves a connection from
one thread with a queue; the model keeps that queue, because the agreement of the
three rests on it. Runs are timed or asked for; both take the routine's lock or
skip. An update that is answered after the removal of its routine puts it back
in memory, and its job too if it was enabled (`revived`). A card tool reads the
list and writes it back with the lock of `core` held; the page saves a whole list
without it, which is the one way an update is overwritten (`stray`).

### Installer

Each action is one change of the disk (`rename`, deletion, a written file), so
`Killed` and the failure of a step come between any two. A tree is its version,
whether it is whole, and the version its record names; a deletion goes file by
file, so that a tree may stay `Torn`. The web process allows one installation at
a time; a terminal is another process. No two of them are told to work on one
module at once (guard of `Command`): nothing in the code prevents that, and the
properties do not speak of it. The age by which old backups are deleted is that
of the directory's last change, which renaming does not touch, so a backup of
an installation under way may be taken for an old one (`Prune`). The deleting
(`PruneFiles`) has a directory open and follows it: when the other installation
fails and renames its backup back, or has renamed it back before the first file
went, the files that go are those of an installed module. `prey` is where that
directory now is (`Carried` by every rename), `pruned` the processes and `torn`
the modules that have lost files in this way. A torn module is whole again with
the next manifest that is written for it.

### Conversation

A turn is `idle` or at the check of the day's usage, the storing of what was
said, a call of the model, a tool call, or the storing of the reply. A history
is a sequence of roles; a message of the assistant carries how many tool calls
it asks for, a note on modules that are down carries whose turn it belongs to.
The model answers anything, the tools too, the deadline may pass at any look at
it. Nothing keeps a client from starting a turn in a session that has one under
way; `overlapped` remembers where that happened. `Converted` is the history as
Anthropic is sent it.

### LiveView

Events are numbers in the order of publication. `events()` is `Take` and
`NextTurn`: the flag is looked at before each `get`, the sentinel ends it.
A page is a connection from its handshake to its end, three tasks of which the
first to end ends it. A browser may stop reading for ever (`Stall`), which the
hub cannot tell from one that has nothing to read.

## 4. The runs

| Run | Checks | Instance | Distinct states |
|---|---|---|---|
| `confirmations` | 6 invariants, the action property `NeverReopened`, the refinement `ImplementsApproval`, `EveryCallReturns` under fairness | 2 tasks, 1 question, 1 module, a call of every verdict; clock to 2, questions live for 1 | 202,934 |
| `cancel_race` | finding | 2 tasks, 1 question | |
| `module_lifecycle` | 5 invariants, `StartingSettles`, `ShutdownCompletes` under fairness | 2 modules (one installed, one with its key from the environment), 1 value and unset, 1 retry, 4 operations | 230,718 |
| `lost_cancellation` | finding | 2 modules, 2 values, 1 retry, 2 operations | |
| `policy_gate` | 5 invariants | 2 tools, 1 argument with 1 value, 2 principals | 1,445,136 |
| `rpc_client` | 4 invariants, `CloseReleases` under fairness | 3 callers, 4 requests | 9,023 |
| `accounts` | 5 invariants | 2 names, 1 password and a wrong one, 3 sessions, 2 tasks, 3 operations; with symmetry | 749,961 |
| `routines` | 3 invariants | 1 routine of the file, 1 of the table, 2 runs of 2 steps, 2 card tools, 2 cards, 3 edits, 1 restart; with symmetry | 1,731,856 |
| `installation` | 2 invariants, the action property `ManifestIsLast` | 2 modules, 2 versions, 2 processes, commands that name 3 modules in all, 1 kill; with symmetry | 5,296,870 |
| `failed_install` | finding | one command | |
| `live_view` | `DeliveredOrDropped` under fairness | 1 page and the mirror, 4 events a topic, queues of 2 and 1 | 83,845 |
| `conversations` | 2 invariants | 2 turns at once, 3 in all, 2 sessions of which 1 is kept, 4 messages kept, 3 model calls a turn, up to 2 tool calls each; with symmetry | 3,805,745 |

**What they show.**

- `confirmations`: two people who confirm one question, a person and the expiry
  sweep, a routine and a person, a task that is cancelled and one that takes
  over, a hub that dies between the claim and the call: the call of a question
  is handed over at most once, is the one that was frozen, and its outcome is in
  the audit table or the loss is known. Every call ends, whatever the module does.
- `module_lifecycle`: no overlap of crash, respawn, reinstall, removal and
  shutdown gives a module two processes, leaves a removed one with a process or
  loop, runs one without its key, or shows a dead one as ready; starting ends
  and shutdown completes, even where cancellations are lost.
- `policy_gate`: for every loadable policy and manifest of that size the agent
  never acts destructively unasked, permission comes from rules alone, the
  catalog shows what may be called, the owner's path stays in its class, and a
  step that passed the guard of the routines is never destructive unattended,
  whatever manifest has come since.
- `rpc_client`: replies never cross over, waiters do not leak, closing releases
  everybody.
- `accounts`: two first visitors do not both become owner; whatever two admins
  do to one another, and whoever was demoted between the check of their role and
  their change, an admin who can sign in remains; a session that a reset, a
  disable or one's own change of password ended does not come back; overlapping
  logins pass the throttle by no more than the requests there are.
- `routines`: when no edit is under way, table, memory and jobs agree about
  every routine made at run time, those without a row included, also after
  statements that raised and a restart in the middle. The one way in which they
  come apart is an update answered after a removal, and what is left then is
  stated exactly; a routine never runs on top of itself; of two card tools none
  loses the other's card.
- `installation`: a manifest appears or changes only over a whole tree with the
  record of that version; what fails before publication leaves the module as it
  was, unless another installation was deleting its backup. What is discovered is
  whole but at the moment between two renames or of an undoing, and, until the
  module is installed again, after a kill at that moment or a deletion of files
  from its live backup. So a removal that fails half-way, an installation over
  what it left and every failure without those two never show half a tree. A
  module left without its directory by a kill between the two renames (the old
  manifest stays, nobody puts the backup back) is excepted, not excluded.
- `conversations`: whatever was trimmed or evicted, the model is sent the
  instructions first and only notes of turns under way; without overlap every
  tool call has its answer right behind it, and what Anthropic is sent
  alternates and pairs as its API demands. The day is overrun by at most
  what the turns that overlap may use.
- `live_view`: an event that was published to a subscriber reaches it, or its
  stream ends so that the page can reconnect; no consumer is left waiting on a
  queue that is not filled any more, also where the sentinel found no room.

**Why the bounds are enough.** Every race of the call path is between two tasks
on one row, or one task and a crash; its safety and the refinement are proved
for any number of rows, tasks and modules (section 5), so the run needs one
question, and can afford fairness. A clock of 2 with a life of 1 passes the
expiry of a question. Two modules are needed for the walk of `stop()` to wait
for one while the other is spawned; four operations for an install, two changes
of the key and a removal of the same module; one retry lets the budget be spent
and forgiven. Two tools let one rule be destructive and another not, one value
lets a constraint admit or refuse; a third principal would behave like the
second. Four requests with three callers let a request be made while an answer
to an earlier one, abandoned by the same caller, is on its way. Two names are
the least for two admins who act on one another, three operations allow a
change that overlaps a change and a login after both. Two runs and one lock per
routine are the least for an overlap; three edits make a routine, switch it and
remove it. Three modules to name let an installation follow a removal that failed,
beside another process that prunes. A store of four messages is trimmed in the middle of a
turn with two tool calls; a store of one session evicts one in use. A
queue of two is full while its consumer holds an event and the next queue, of
one, is full as well.

**Bounds that are not in the code**: `MaxTime` (guard of `Tick`), `Rows` (guard
`IdLeft`: the code draws a fresh uuid), `MaxOps` (`StartOp`; `Accounts!Start`),
`MaxId` (`Request`), `MaxSessions` (`Issue`), `MaxEdits` and `MaxCrashes` (`Edit`,
`CardTool`, `PageSaves`, `Crash`), `MaxCommands` and `MaxCrashes` (`Command`, the modules named in all;
`Killed`), `MaxRequests` and `Batch` (`Begin`, `Answers`), `MaxEvents`
(`Publish`).

**Deadlock** is checked in `ModuleAPI` and `Gate`. The supervisor's model
really stops when the hub has stopped, the client's when it is closed and
nobody waits, the live view's when the bus is closed; the other models stop
where their bound on requests, edits or commands is spent. Their runs switch
the check off.

**Fairness.** A task that can run, runs: what it awaits ends by itself, by a
timeout, or by a signal that a process cannot refuse (`_kill` sends SIGKILL
after SIGTERM). So the steps of a task, of a supervise loop, of an operation,
of the shutdown and of a consumer of the bus are weakly fair. Taking the
module's lock is strongly fair, because `asyncio.Lock` wakes its waiters in the
order they came. Nothing obliges a module to answer, to become ready or to
exit, a person to confirm, an operator to act, the clock to advance, or a reply
to arrive: `Reply`, `Ready`, `Probe`, `ProcessExits` (unless it is being
killed), `Read`, `GiveUp` and the start of any operation are not fair. In the
client's run even the timeout is not, to show that closing releases the callers
without it. A browser that is not stuck takes what is sent to it; one that is
stuck owes nothing, and nothing is claimed of it.

**Mutants.** Every property of a passing run names a definition and a changed
form of it that the run refutes: a compare-and-set without its WHERE, a call
that ignores the lock, a reinstall that does not stop the old instance, a gate
that takes the rule's class for the effective one, an id taken from a bool, a
check of the last admin outside the lock, a trim that stops at an answer of the
assistant. They are defined next to what they change, with a comment.

## 5. The proofs

The theorems hold for all values of the constants that satisfy the modules'
assumptions (named, at the top of each module; TLC evaluates them).

**`ModuleAPIProofs`.** The invariants are not inductive as stated: `sent[r] <= 1`
says nothing about who may still send. The strengthening is `IInv`: a task
*carries* a row from its winning claim to its audit row; a row has at most one
carrier, and how often it was sent is a function of where that carrier is
(`CarryInv`); a claimed row is settled and either carried, logged or lost, and
any other was neither sent nor logged (`RowInv`); a task past the read of a row
is about what the row froze, and a task in flight holds the lock (`TaskInv`).
A lemma for each action shows that it keeps `IInv`; `QuietStep` serves the
actions that no carrier takes, `CarrierMoves` those that move one on.
From it follow `TypeOK`, `AtMostOnce`, `OnlyApprovedRuns`, `NoSilentApproval`,
`AuditIsTrue`, `OneInFlight`, the action property `NeverReopened`, and the
refinement of `Approval`, action by action: `Insert` opens, `Claim` grants,
`Sweep`, `CancelWrite` and `ExpireWrite` withdraw (or change nothing that the
mapping shows, where they overwrite a claimed row), `Acquire` runs, all others
stutter.

**`GateProofs`.** The policy never changes, so loadability is inductive;
the rest follows from it by cases on the verdict. The order of the classes is
a lemma on `Stronger`. That the catalog is complete covers both ways a tool gets
lost, its module's state and the gate's filter. A step that passed the guard of
the routines has no destructive rule, so what makes it destructive is a manifest
that raises its class above the rule's, and that denies it.

**`McpClientProofs`.** `IInv`: ids are issued once and never exceed the
counter, no two callers have the same, the map holds exactly the ids of the
unresolved callers, and a closed client has none.

**`AccountsProofs`.** `AdminRemains` says nothing of what is about to be
written. `Pending` adds what is known of a task that waits: a change of the web
that takes an admin away holds the lock, and there is an admin other than the
one it is about; a change of the command line that does so has not been written
yet (else it would be `bypassed`); an account that is no admin is only made
where one exists, because a request needs a session that resolves and the
command line makes the first account an admin. `AdminStep` is the argument that
everything else rests on: a step keeps this if it takes no admin away or its
task holds the lock, for no other task that relies on another admin can hold it
then. `SessionInv` ties a session to whom it was issued to, which the set of
revoked sessions is defined by; that a token is never issued twice is all that
is needed of them. `ThrottleInv` counts the logins that have passed the throttle
and have no outcome together with the failures: their sum, not the failures
alone, is what a step cannot push over the bound.

**`SupervisorProofs`.** How many processes a module has is not a fact about the
list of processes alone: `ChildInv` derives it from the place of the module's
loop and from what an operation holds. While a loop is in its handshake or
watches its module there is one, elsewhere none, and what a cancelled loop
leaves behind belongs to the operation, or to the shutdown, that cancelled it.
`LoopInv` says that a running loop is the one that is tracked, or has just been
cancelled, and has retries left; `KeyInv` that a module without its key is run
only while it is being stopped; `OpInv` what each operation has established at
each of its awaits. `OneModule` reduces the invariant to a statement about one
row; `RowStep` serves the steps of a loop, `EndStep` the ends of operations and
`HubFrame` what concerns the hub alone. From it follow `TypeOK`, `OneChild`,
`RemovedIsGone`, `UnconfiguredNeverRuns` and `NoGhostReady`.

**`RoutinesProofs`.** `MemoryInv` is `MemoryAgrees` without its premise:
table and memory agree, or disagree in the one way that `Agree` describes, in
every state of a hub that is up, because the edits are answered in the order in
which they were asked and an update of a row that is
gone changes no table. `RunInv`: a run that is under way has the lock of its
routine and no two have the same, from which `RunEnds`, `RunStarts` and
`RunsCut` follow for the end, the start and the cancellation by `stop`.
`CardInv`: a tool that waits for the database holds "core" and has one call in
the queue, and the list it is about to save is what should be there after it;
`HeadAnswered` says what remains of this when the head of the queue is taken.

**`InstallerProofs`.** `PlaceInv` says what a process knows of its module at each
place of an install: up to the build the module is as it was found, or another
process has deleted files of it (`pruned`); from there until the scripts are
corrected what was put aside is what was found, or was torn likewise; from the
move on the tree is that of the new version, and no pruning has it open, because
it came from staging. `OwnInv`, that no two processes have to do with one module,
makes this stable: `StepOf` is what a step of another process may do, and
`OthersKnow`, `OthersWhole` and `StepLeaves` that it disturbs nothing but through
a pruning, of which `PruneKeeps` and `PruneFilesKeeps` say what it may do.
`PreyInv` says that what a pruning has open is there, wherever the renames have
`Carried` it. `DiscoveredIsWhole` is inductive with `MayGoBack`: what may be put
back when an install fails was whole when it was found, or its module counts as
torn already; so it does not matter how much of a backup is left when it is
renamed back. `ManifestIsLast` is a fact about one action in a state that
satisfies the invariant. The exclusion is an assumption of the model, not of the
code: see section 7.

**`ConversationProofs`.** Three arguments.

*The budget.* `spent` alone says nothing of what the turns past the check may
still spend. `Credits` is the set of the tokens each of them may use, one by one:
a turn that is admitted finds the day under its limit, an answer takes as many
credits as it adds to `spent`, and no other step makes any. So the sum of both
is bounded by what all turns at once may use, whatever order they come in.

*The histories.* `Paired` is not inductive: while a batch of calls is under way
the history owes answers. `Owes(h, n)` is `Paired` but for the last `n` of them,
and `owed` of the turn is that `n`. `HistoryInv` holds of every session, whoever
overlaps in it: the instructions first and once, at most one note of a turn and
only of one that is on it. `AloneInv` says the rest of the sessions that no two
turns have used at once. The two places where a history is cut rest on one
operator: what `RemoveFirst` of the note, and the `SubSeq` of a trim, leave is
`Cut(h, a, b)`, and a cut that does not fall between a call and its answers
keeps `Owes` (`CutOwes`); that `Trimmed` stops at a user's words is what makes
its cut one of these (`TrimCuts`, `TrimmedSuits`). `Settled` is what a turn has
to leave behind, and `Moves` that it is enough; `Leaves`, `Finishes`, `CallsNext`
and `Batches` serve the actions. The number
that `Create` gives a new session is in use nowhere: `TableInv` and `Fits` keep
what is in use at most `requests`.

*The translation.* That a history which owes nothing becomes one that Anthropic
accepts is a statement about a recursive function, proved for every length. The
library's induction takes an operator as a parameter, which the provers cannot
instantiate; `Least` derives the least-number principle from the well-foundedness
of finite sets, and `UpTo` from it the induction for a set of numbers. With these
`Converts` shows that the function exists and what its steps are, and `Halfway`
is its loop invariant: after `i` messages the translation is `Sound` but for the
answers to the last calls, and the message that is next in the history is one of
them. `Adds` and `Replies` are its two steps, for what may follow when no answer
is owed and for an answer; each covers the message that is begun and the one that
goes on.

**Only model-checked:** `DeliveredOrDropped`, the one property of `LiveView`, and
liveness everywhere else: `EveryCallReturns`, `StartingSettles`,
`ShutdownCompletes` and `CloseReleases` need ENABLED, which the prover does not
handle. What the `violation` runs refute is no theorem. Every invariant and
every action property of the runs that pass is one.

## 6. What the model found

Each of these is a run that TLC refutes, with the line of the repository that
says otherwise in `PROJECT.json`.

- `cancel_race`: `cancel` reads and then writes a row in two statements. A
  confirmation in between is overwritten: the call runs, the row reads
  cancelled. A compare-and-set like that of `consume_pending` closes it.
- `lost_cancellation`: `_stop_module` cancels a loop once. If the loop is
  waiting for its health task or its client's close, the cancellation is
  suppressed there and the loop respawns, untracked, with the operation waiting
  for it under the lifecycle lock.
- `failed_install`: `_publish` deletes the previous tree before the record and
  the manifest are written. If one of them cannot be, the installation fails
  with the previous version gone: new files under the old manifest, and, when
  the record was written, a second attempt finds nothing to do.

Three more are stated as properties and refuted by TLC under the constants of
`MCSupervisor` and `MCInstaller`; they are kept in `Supervisor` and `Installer`
and not among the runs:

- `NoOrphan`: `stop()` kills the processes it sees in one pass. A module whose
  process appears after the pass went by is only cancelled and outlives the hub.
- `ConfigApplied`: `restart` bounces a process, and while one is being spawned
  there is none yet; its environment has been computed before, so the module
  comes up with the old value.
- `PruningSparesModules`: `prune_incomplete` says that "only the dotted working
  directories are touched; an installed module is never one" (`store.py:291-292`).
  It takes the backup of an installation under way for an old one, opens it, and
  the installation fails and renames it back: what is deleted from is the
  installed module.

Met while modelling, visible in the models' behaviours or at their edge, and
not stated as properties:

- A login that verified the old password before a reset issues its session
  after it (`Accounts!Issue`), and with an old hash it also writes the old
  password back (`Rehash`). `RevokedStaysGone` speaks of the sessions issued
  before the change was done.
- `delete_user` deletes sessions and then the account; a session issued
  between the two belongs to nobody, and to whoever is next given that name.
- `set_dynamic_enabled`, overtaken by a removal, puts the routine back in memory
  without a row: if it enables, with its job, so that a removed routine goes on
  firing. It is no longer editable, so that nobody can remove it again, till the
  next restart (`revived`; `MemoryAgrees` says that this is all that happens).
- The guard against destructive routines looks at the policy of the day a routine
  is made. Routines of the table are not looked at again at the start
  (`sync_from_store`), so one made under an earlier policy runs as the gate of
  today decides, which asks the scheduler nothing it is not told to ask.
- A subscription of the mirror of module states that was dropped for being slow
  is not made again: the states in the database stay as they were until the
  restart (`DeliveredOrDropped` counts it as over).
- `set_llm` says that a turn under way keeps the adapter it began with
  (`agent/loop.py:87-90`); the loop reads `self._llm` for each call.
- `/chat` accepts a message of blanks only; the translation for Anthropic drops
  a message with no text, so the last message sent may be the assistant's.
- A turn in a session that has one under way may lose the pairing of calls and
  answers (`overlapped` excuses it); the provider refuses the history and the
  turn ends politely, but the next ones meet the same history until it is trimmed.

The positive properties are stated so that these do not contradict them: a
removal that waits for a loop which lost its cancellation has not finished, so
`RemovedIsGone` holds; `AtMostOnce` and the refinement count a row as granted by
its claim, whatever is written over it.

## 7. What is not modelled

Whole components: speech adapters, registry client, module verification
(network and subprocess I/O around no state); configuration loading, the
formats of manifests and registry but for `resolve_config_value` (parsing);
`vahub init`, `doctor`, `run`, `audit`, `config` (sequential dialogue and
checks); migrations (one transaction each, before anything starts); logging,
metrics, headers, origin checks. Password hashing, SQLite and APScheduler are
libraries; what their users rely on is in the modules as external.

Inside what is modelled:

- `Supervisor`: the environment of a child is the value of one required key; the
  standard error of a module is not drained; the built-in module, which has a
  client and no process, is not one of its names.
- `ModuleAPI`: the bus events of the call path are not sent; the health probe is
  one more holder of the lock.
- `Accounts`: display names, the throttle of one's own password, proxy subjects,
  the sliding expiry of a session.
- `Routines`: cron expressions (a tick may come at any time), places and other
  settings, which are single statements. Rows whose schedule does not parse, and
  an expression that is no cron (`sync_from_store` and `_register` pass over
  them): only `add_dynamic` writes rows, after the same parsers, so that they
  occur only in a table that something else, or another version, has written.
- `Installer`: what is fetched and built; errors of the undoing itself; two
  processes at work on one module.
- `Conversation`: the change of the day, which resets the usage; the replacement
  of the adapter (`ModelSettings` in the plan); text beside tool calls; the
  other provider's format, which is the history itself.
- `LiveView`: the policy `drop_oldest`, to which nothing in the hub subscribes.

## 8. Plan

In order of importance.

1. `ModelSettings`: `put_models`, `apply_model_config` and the adapter that turns
   hold, as a module of its own; its refusal while another is applied, and the
   close of an adapter that a call still uses.
2. `Supervisor` and `ModuleAPI` composed: the health that the call path sees as a
   refinement mapping of the supervisor's variables, and `Gate!Evaluate` in place
   of the constant `Verdict`.
