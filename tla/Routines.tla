------------------------------ MODULE Routines ------------------------------
(***************************************************************************)
(* The routines and the cards of the dashboard: the scheduler              *)
(* (src/src/vahub/scheduler/service.py), the tools of the built-in module  *)
(* "core" that edit both (src/src/vahub/core/builtins.py), the owner's     *)
(* routes to the same data (src/src/vahub/web/manage.py) and their tables  *)
(* (src/src/vahub/storage/store.py).                                       *)
(*                                                                         *)
(* A routine is in three places: the table of the database, the entries in *)
(* memory and the jobs that tick.  An edit checks memory, awaits one       *)
(* statement of the database, and then changes memory.  The database has   *)
(* one connection served by one thread: it answers in the order in which   *)
(* it was asked, so the awaits are a queue.                                *)
(*                                                                         *)
(* Only add_dynamic inserts rows, after the same parsers have taken the    *)
(* cron line and the steps that read them back: that a row, or its cron    *)
(* line, is refused when it is loaded is left out.                         *)
(***************************************************************************)
EXTENDS Naturals, Sequences, FiniteSets

CONSTANTS
  Files,      (* the routines of the configuration file                    *)
  FileOn,     (* those of them that are enabled                            *)
  Dyn,        (* the ids that routines made at run time are given          *)
  Runs,       (* the tasks that run a routine                              *)
  Turns,      (* the tasks that call the card tools of "core"              *)
  Cards,      (* the cards                                                 *)
  Nobody,     (* no task, no routine, no card                              *)
  Steps,      (* the steps of a routine                                    *)
  MaxEdits,   (* bound on the edits of routines and of cards               *)
  MaxCrashes  (* bound on the restarts of the hub                          *)

ASSUME RoutinesAssumption ==
  /\ FileOn \subseteq Files
  /\ Files \cap Dyn = {}
  /\ Nobody \notin Files \cup Dyn \cup Runs \cup Turns \cup Cards
  /\ Steps \in Nat \ {0} /\ MaxEdits \in Nat /\ MaxCrashes \in Nat

Ids == Files \cup Dyn

VARIABLES
  hub,        (* "down", "booting" (the scheduler ticks, the table is not   *)
              (* loaded), "up", "stopping"                                 *)
  table,      (* dyn_schedules: "on", "off", or "none" where there is no row*)
  entry,      (* _schedules: the entry in memory                           *)
  dynamic,    (* _dynamic: the ids that may be edited                      *)
  job,        (* the jobs of the ticking scheduler                         *)
  run,        (* run[r]: what a run is doing                               *)
  locked,     (* the routines whose lock is taken                          *)
  queue,      (* the calls of the database that have no answer yet         *)
  cards,      (* the setting "ui:dashboard"                                *)
  tool,       (* tool[t]: what a card tool is doing                        *)
  core,       (* who holds the lock of the module "core"                   *)
  edits,      (* how many edits there were                                 *)
  crashes,    (* how often the hub was restarted                           *)
  given,      (* the ids that were given to a routine: each is given once  *)
  revived,    (* history: the routines that an edit answered after their   *)
              (* removal has put back in memory                            *)
  kept,       (* history: the cards that should be on the dashboard        *)
  stray       (* history: did the page save between a tool's read and save *)

schedules == <<table, entry, dynamic, job, given, revived>>
running == <<run, locked>>
board == <<cards, tool, core, kept, stray>>
vars == <<hub, table, entry, dynamic, job, run, locked, queue, cards, tool,
          core, edits, crashes, given, revived, kept, stray>>

(* A call of the database: the statement, and whom or what it is about.    *)
Call(op, id, to) == [op |-> op, id |-> id, to |-> to, by |-> Nobody, cards |-> {}]
CardCall(op, t, set) == [op |-> op, id |-> Nobody, to |-> "none", by |-> t, cards |-> set]

NoRun == [at |-> "idle", id |-> Nobody, step |-> 0, timed |-> FALSE]
NoTool == [at |-> "idle", op |-> "none", card |-> Nobody]

OnOff(b) == IF b THEN "on" ELSE "off"
FromFile == [i \in Ids |-> IF i \in Files THEN OnOff(i \in FileOn) ELSE "none"]

Init ==
  /\ hub = "down"
  /\ table \in [Dyn -> {"none", "on", "off"}]
  /\ entry = [i \in Ids |-> "none"]
  /\ dynamic = {} /\ job = {}
  /\ run = [r \in Runs |-> NoRun]
  /\ locked = {}
  /\ queue = <<>>
  /\ cards \in SUBSET Cards
  /\ tool = [t \in Turns |-> NoTool]
  /\ core = Nobody
  /\ edits = 0 /\ crashes = 0
  /\ given = {i \in Dyn : table[i] # "none"} /\ revived = {}
  /\ kept = cards
  /\ stray = FALSE

-----------------------------------------------------------------------------
(* The life of the scheduler.                                              *)

(* start: the file's routines, those that are enabled as jobs.             *)
Boot ==
  /\ hub = "down"
  /\ hub' = "booting"
  /\ entry' = FromFile
  /\ job' = FileOn
  /\ UNCHANGED <<table, dynamic, given, revived, running, queue, board, edits, crashes>>

(* sync_from_store: the rows of the table.                                 *)
Sync ==
  LET rows == {i \in Dyn : table[i] # "none"} IN
  /\ hub = "booting"
  /\ hub' = "up"
  /\ entry' = [i \in Ids |-> IF i \in rows THEN table[i] ELSE entry[i]]
  /\ dynamic' = dynamic \cup rows
  /\ job' = job \cup {i \in rows : table[i] = "on"}
  /\ UNCHANGED <<table, given, revived, running, queue, board, edits, crashes>>

(* stop: nothing ticks any more and the runs it fired are cancelled; a run *)
(* that was asked for goes on.                                             *)
Stop ==
  LET cut == {r \in Runs : run[r].timed} IN
  /\ hub \in {"booting", "up"}
  /\ hub' = "stopping"
  /\ job' = {}
  /\ run' = [r \in Runs |-> IF r \in cut THEN NoRun ELSE run[r]]
  /\ locked' = locked \ {run[r].id : r \in cut}
  /\ UNCHANGED <<table, entry, dynamic, given, revived, queue, board, edits, crashes>>

(* The process ends, in order or not: what is in memory is lost, and so    *)
(* are the calls of the database that were not carried out.                *)
Crash ==
  /\ hub # "down"
  /\ crashes < MaxCrashes
  /\ crashes' = crashes + 1
  /\ hub' = "down"
  /\ entry' = [i \in Ids |-> "none"]
  /\ dynamic' = {} /\ job' = {} /\ revived' = {}
  /\ run' = [r \in Runs |-> NoRun]
  /\ locked' = {}
  /\ queue' = <<>>
  /\ tool' = [t \in Turns |-> NoTool]
  /\ core' = Nobody
  /\ UNCHANGED <<table, given, cards, edits, kept, stray>>

-----------------------------------------------------------------------------
(* Edits of the routines, by the routes and by the tools of "core".        *)

(* An edit checks memory and asks for one statement.                       *)
Edit(call) ==
  /\ hub = "up"
  /\ edits < MaxEdits
  /\ edits' = edits + 1
  /\ queue' = Append(queue, call)
  /\ given' = given \cup {call.id}
  /\ UNCHANGED <<hub, table, entry, dynamic, job, revived, running, board, crashes>>

(* add_dynamic: the steps are fine and none is destructive; the id is new. *)
AddDynamic(i) ==
  /\ i \notin given
  /\ Edit(Call("insert", i, "on"))

RemoveDynamic(i) == i \in dynamic /\ Edit(Call("delete", i, "none"))

SetDynamicEnabled(i, on) ==
  /\ i \in dynamic /\ entry[i] # "none"
  /\ Edit(Call("update", i, OnOff(on)))

(* What an edit does when its statement is done, `to` being the state the  *)
(* routine is given: _register, or _unregister, while the scheduler ticks. *)
Registered(i, to) ==
  /\ entry' = [entry EXCEPT ![i] = to]
  /\ job' = IF hub # "up" THEN job ELSE IF to = "on" THEN job \cup {i} ELSE job \ {i}

AnswerOf(c, jobs) ==
  LET i == c.id IN
  /\ c.op \in {"insert", "delete", "update"}
  /\ table' = IF c.op = "update" /\ table[i] = "none" THEN table
              ELSE [table EXCEPT ![i] = c.to]
  /\ dynamic' = CASE c.op = "insert" -> dynamic \cup {i}
                  [] c.op = "delete" -> dynamic \ {i}
                  [] c.op = "update" -> dynamic
  /\ jobs
  /\ revived' = IF c.op = "update" /\ table[i] = "none" THEN revived \cup {i} ELSE revived \ {i}
  /\ queue' = Tail(queue)
  /\ UNCHANGED <<hub, given, running, board, edits, crashes>>

(* Mutant of EditDone: a routine that is disabled keeps its job.           *)
EditDoneKeepsJob ==
  /\ queue # <<>>
  /\ LET c == Head(queue) IN
       AnswerOf(c, /\ entry' = [entry EXCEPT ![c.id] = c.to]
                   /\ job' = IF hub = "up" /\ c.to = "on" THEN job \cup {c.id} ELSE job)

EditDone ==
  /\ queue # <<>>
  /\ LET c == Head(queue) IN AnswerOf(c, Registered(c.id, c.to))

-----------------------------------------------------------------------------
(* Runs.                                                                   *)

(* run_schedule: skipped when the routine's lock is taken.                 *)
Enter(r, i, timed, free) ==
  /\ run[r].at = "idle"
  /\ entry[i] # "none"
  /\ free
  /\ run' = [run EXCEPT ![r] = [at |-> "step", id |-> i, step |-> 1, timed |-> timed]]
  /\ locked' = locked \cup {i}
  /\ UNCHANGED <<hub, schedules, queue, board, edits, crashes>>

(* A tick: a job has one timed run at a time.                              *)
FireWhen(r, i, free) ==
  /\ hub \in {"booting", "up"}
  /\ i \in job
  /\ \A q \in Runs : ~(run[q].timed /\ run[q].id = i)
  /\ Enter(r, i, TRUE, free)

(* Mutant of Fire: only the runs that tick are looked at.                  *)
FireOver(r, i) == FireWhen(r, i, TRUE)

Fire(r, i) == FireWhen(r, i, i \notin locked)

RunNow(r, i) == hub = "up" /\ Enter(r, i, FALSE, i \notin locked)

(* A step answers: the next one, or the end; a step that fails ends the    *)
(* run, and a question it raised is cancelled first.                       *)
StepDone(r, result) ==
  /\ hub # "down"
  /\ run[r].at = "step"
  /\ \/ /\ result = "ok" /\ run[r].step < Steps
        /\ run' = [run EXCEPT ![r].step = @ + 1]
        /\ UNCHANGED locked
     \/ /\ result = "confirm"
        /\ run' = [run EXCEPT ![r].at = "cancel"]
        /\ UNCHANGED locked
     \/ /\ result = "fail" \/ (result = "ok" /\ run[r].step = Steps)
        /\ run' = [run EXCEPT ![r] = NoRun]
        /\ locked' = locked \ {run[r].id}
  /\ UNCHANGED <<hub, schedules, queue, board, edits, crashes>>

QuestionCancelled(r) ==
  /\ run[r].at = "cancel"
  /\ run' = [run EXCEPT ![r] = NoRun]
  /\ locked' = locked \ {run[r].id}
  /\ UNCHANGED <<hub, schedules, queue, board, edits, crashes>>

-----------------------------------------------------------------------------
(* The dashboard: a tool of "core" reads the list and writes it back under *)
(* the lock of the module; the page saves the whole list in one statement. *)

CardTool(t, op, c, free, holder) ==
  /\ hub = "up"
  /\ tool[t] = NoTool
  /\ free
  /\ edits < MaxEdits
  /\ edits' = edits + 1
  /\ core' = holder
  /\ tool' = [tool EXCEPT ![t] = [at |-> "read", op |-> op, card |-> c]]
  /\ queue' = Append(queue, CardCall("read", t, {}))
  /\ UNCHANGED <<hub, schedules, running, cards, crashes, kept, stray>>

(* Mutant of ToolCalled: the call does not take the lock of "core".        *)
ToolCalledUnlocked(t, op, c) == CardTool(t, op, c, TRUE, core)

ToolCalled(t, op, c) == CardTool(t, op, c, core = Nobody, t)

PageSaves(set) ==
  /\ hub = "up"
  /\ edits < MaxEdits
  /\ edits' = edits + 1
  /\ queue' = Append(queue, CardCall("page", Nobody, set))
  /\ UNCHANGED <<hub, schedules, running, board, crashes>>

With(set, l) == IF l.op = "add" THEN set \cup {l.card} ELSE set \ {l.card}

CardsRead ==
  LET t == Head(queue).by IN
  /\ queue # <<>> /\ Head(queue).op = "read"
  /\ tool' = [tool EXCEPT ![t].at = "save"]
  /\ queue' = Append(Tail(queue), CardCall("save", t, With(cards, tool[t])))
  /\ UNCHANGED <<hub, schedules, running, cards, core, edits, crashes, kept, stray>>

CardsSaved ==
  LET c == Head(queue)
      t == c.by
  IN  /\ queue # <<>> /\ c.op = "save"
      /\ cards' = c.cards
      /\ kept' = With(kept, tool[t])
      /\ tool' = [tool EXCEPT ![t] = NoTool]
      /\ core' = IF core = t THEN Nobody ELSE core
      /\ queue' = Tail(queue)
      /\ UNCHANGED <<hub, schedules, running, edits, crashes, stray>>

PageSaved ==
  /\ queue # <<>> /\ Head(queue).op = "page"
  /\ cards' = Head(queue).cards
  /\ kept' = Head(queue).cards
  /\ stray' = (stray \/ \E t \in Turns : tool[t].at = "save")
  /\ queue' = Tail(queue)
  /\ UNCHANGED <<hub, schedules, running, tool, core, edits, crashes>>

(* The statement at the head of the queue raises: the caller gets the      *)
(* error and nothing after it is done.                                     *)
Raises ==
  /\ queue # <<>>
  /\ LET t == Head(queue).by IN
       /\ tool' = IF t = Nobody THEN tool ELSE [tool EXCEPT ![t] = NoTool]
       /\ core' = IF core = t THEN Nobody ELSE core
  /\ queue' = Tail(queue)
  /\ UNCHANGED <<hub, schedules, running, cards, edits, crashes, kept, stray>>

-----------------------------------------------------------------------------
Next ==
  \/ Boot \/ Sync \/ Stop \/ Crash
  \/ \E i \in Dyn : AddDynamic(i) \/ RemoveDynamic(i) \/ \E on \in BOOLEAN : SetDynamicEnabled(i, on)
  \/ EditDone \/ CardsRead \/ CardsSaved \/ PageSaved \/ Raises
  \/ \E r \in Runs :
       \/ \E i \in Ids : Fire(r, i) \/ RunNow(r, i)
       \/ \E result \in {"ok", "fail", "confirm"} : StepDone(r, result)
       \/ QuestionCancelled(r)
  \/ \E t \in Turns, c \in Cards, op \in {"add", "remove"} : ToolCalled(t, op, c)
  \/ \E set \in SUBSET Cards : PageSaves(set)

Spec == Init /\ [][Next]_vars

-----------------------------------------------------------------------------
(* Properties.                                                             *)

Quiet == hub = "up" /\ queue = <<>>

(* When no edit is under way, the table, the memory and the jobs agree on  *)
(* every routine made at run time: it is in memory, may be edited and ticks*)
(* exactly as its row says, and one without a row does none of it; whatever*)
(* edits overlapped, whatever statement raised, and after a restart in the *)
(* middle of an edit.  The one exception is a routine that was enabled or  *)
(* disabled while it was being removed: it is back in memory, ticks if it  *)
(* was enabled, and can no longer be edited or removed.                    *)
Agree(i) == IF i \in revived
  THEN table[i] = "none" /\ entry[i] # "none" /\ i \notin dynamic /\ (i \in job <=> entry[i] = "on")
  ELSE entry[i] = table[i] /\ (i \in dynamic <=> table[i] # "none") /\ (i \in job <=> table[i] = "on")

MemoryAgrees == Quiet => \A i \in Dyn : Agree(i)

(* A routine never runs on top of itself: not a timed run on one that was  *)
(* asked for, not after it was disabled and enabled, or removed, under the *)
(* run.                                                                    *)
OneAtATime ==
  \A i \in Ids : Cardinality({r \in Runs : run[r].id = i}) <= 1

(* A card that was pinned stays, and one that was removed is gone, however *)
(* calls of the card tools overlap; a page that saves its own list while a *)
(* tool is between its read and its save is the one exception.             *)
CardsKept == stray \/ cards = kept

=============================================================================
