----------------------------- MODULE McpClient -----------------------------
(***************************************************************************)
(* The client of one module (src/src/vahub/core/mcpclient.py): requests    *)
(* with an id, one reader that resolves the future an answer's id names,   *)
(* timeouts, and the end of the connection from either side.               *)
(*                                                                         *)
(* The module answers what it was asked, when and as often as it likes, in *)
(* any order, and writes the id as a number or as a text; it also sends    *)
(* messages whose ids are no ids.  An answer is the number of the request  *)
(* it is an answer to.                                                     *)
(*                                                                         *)
(* Several callers use a client at once: mod.lock is held for tool calls   *)
(* and health probes, but not for the handshake, and a confirmed call may  *)
(* reach a client that is still shaking hands (ModuleAPI.Dispatch).        *)
(***************************************************************************)
EXTENDS Naturals

CONSTANTS
  Callers,       (* the tasks that make requests                           *)
  MaxId          (* bound on the number of requests                        *)

ASSUME McpClientAssumption == MaxId \in Nat

VARIABLES
  phase,         (* close(): open, closing (_closed is set) or closed      *)
  reading,       (* the read loop runs                                     *)
  nextId,        (* _next_id                                               *)
  pending,       (* the keys of _pending                                   *)
  written,       (* the ids of the requests the module has been sent       *)
  caller         (* caller[c]: the id of its request, 0 if it makes none;  *)
                 (* what became of the future it waits for; and which      *)
                 (* request it has the answer to, 0 if none                *)

vars == <<phase, reading, nextId, pending, written, caller>>

Ids == 1..MaxId

Idle == [id |-> 0, got |-> "nothing", says |-> 0]

Unresolved(c) == caller[c].id # 0 /\ caller[c].got = "nothing"

Return(c) == caller' = [caller EXCEPT ![c] = Idle]

Init ==
  /\ phase = "open"
  /\ reading = TRUE
  /\ nextId = 0
  /\ pending = {}
  /\ written = {}
  /\ caller = [c \in Callers |-> Idle]

-----------------------------------------------------------------------------
(* The write side.                                                         *)

RequestWith(c, id) ==
  /\ phase = "open"
  /\ caller[c].id = 0
  /\ nextId < MaxId
  /\ nextId' = nextId + 1
  /\ \/ /\ pending' = pending \cup {id}
        /\ written' = written \cup {id}
        /\ caller' = [caller EXCEPT ![c].id = id]
     \/ UNCHANGED <<pending, written, caller>>
  /\ UNCHANGED <<phase, reading>>

(* Mutant of Request: the counter is read before it is incremented.        *)
RequestFromZero(c) == RequestWith(c, nextId)

(* Mutant of Request: a closed client is not asked whether it is.          *)
RequestAnyway(c) ==
  /\ caller[c].id = 0
  /\ nextId < MaxId
  /\ nextId' = nextId + 1
  /\ pending' = pending \cup {nextId + 1}
  /\ written' = written \cup {nextId + 1}
  /\ caller' = [caller EXCEPT ![c].id = nextId + 1]
  /\ UNCHANGED <<phase, reading>>

(* A request is registered and written; or the pipe refuses it, and it is  *)
(* taken off the map again.  A closed client refuses at once, and nothing  *)
(* changes.  Nobody asks whether the reader still runs.                    *)
Request(c) == RequestWith(c, nextId + 1)

(* Mutant of GiveUp: the waiter is left in the map.                        *)
GiveUpQuietly(c) ==
  /\ caller[c].id # 0
  /\ Return(c)
  /\ UNCHANGED <<phase, reading, nextId, pending, written>>

(* The timeout, or a cancellation of the caller: the waiter is dropped.    *)
(* Either can still win when the answer is there but the caller has not    *)
(* run yet.                                                                *)
GiveUp(c) ==
  /\ caller[c].id # 0
  /\ pending' = pending \ {caller[c].id}
  /\ Return(c)
  /\ UNCHANGED <<phase, reading, nextId, written>>

Resume(c) ==
  /\ caller[c].id # 0
  /\ caller[c].got # "nothing"
  /\ Return(c)
  /\ UNCHANGED <<phase, reading, nextId, pending, written>>

-----------------------------------------------------------------------------
(* The read side.                                                          *)

(* How an id can be written, and the one it names: _key.  True is a bool,  *)
(* though it equals 1.                                                     *)
Sloppy == {"int", "whole_float", "digits"}
Unusable == {"bool", "fraction", "null", "word"}

Messages ==
  {[form |-> f, n |-> n, says |-> n] : f \in Sloppy, n \in written}
  \cup {[form |-> f, n |-> 1, says |-> 0] : f \in Unusable}

(* Mutant of Key: isinstance(True, int).                                   *)
KeyOfBool(msg) == IF msg.form \in Sloppy \cup {"bool"} THEN {msg.n} ELSE {}

Key(msg) == IF msg.form \in Sloppy THEN {msg.n} ELSE {}

(* _dispatch of a message with a result or an error: the waiter whose id   *)
(* it names is taken off the map and resolved.  Without one the answer is  *)
(* an orphan, and is dropped.  A message that is no answer changes nothing *)
(* here: what the module asks of the hub is refused, a notification logged. *)
Read(msg) ==
  /\ reading
  /\ phase = "open"
  /\ Key(msg) \cap pending # {}
  /\ pending' = pending \ Key(msg)
  /\ caller' = [c \in Callers |->
                  IF Unresolved(c) /\ caller[c].id \in Key(msg)
                  THEN [caller[c] EXCEPT !.got = "answer", !.says = msg.says]
                  ELSE caller[c]]
  /\ UNCHANGED <<phase, reading, nextId, written>>

-----------------------------------------------------------------------------
(* The end.                                                                *)

(* Mutant of FailAll: the map is emptied and nobody is told.               *)
FailAllSilently ==
  /\ pending' = {}
  /\ UNCHANGED caller

FailAll ==
  /\ pending' = {}
  /\ caller' = [c \in Callers |->
                  IF Unresolved(c) /\ caller[c].id \in pending
                  THEN [caller[c] EXCEPT !.got = "error"] ELSE caller[c]]

(* End of file, a line that is too long, or the cancellation by close().   *)
ReaderEnds ==
  /\ reading
  /\ reading' = FALSE
  /\ FailAll
  /\ UNCHANGED <<phase, nextId, written>>

(* close() up to its await.                                                *)
Close ==
  /\ phase = "open"
  /\ phase' = "closing"
  /\ UNCHANGED <<reading, nextId, pending, written, caller>>

Closed ==
  /\ phase = "closing"
  /\ ~reading
  /\ phase' = "closed"
  /\ FailAll
  /\ UNCHANGED <<reading, nextId, written>>

Next ==
  \/ \E c \in Callers : Request(c) \/ GiveUp(c) \/ Resume(c)
  \/ \E msg \in Messages : Read(msg)
  \/ ReaderEnds
  \/ Close
  \/ Closed

Spec == Init /\ [][Next]_vars

(* A task that can run runs, and the reader of a client being closed has   *)
(* been cancelled.  No answer, no end of file and no timeout is assumed.   *)
Fairness ==
  /\ \A c \in Callers : WF_vars(Resume(c))
  /\ WF_vars(phase = "closing" /\ ReaderEnds)
  /\ WF_vars(Closed)

FairSpec == Spec /\ Fairness

-----------------------------------------------------------------------------
(* Every variable has its type.                                            *)
TypeOK ==
  /\ phase \in {"open", "closing", "closed"}
  /\ reading \in BOOLEAN
  /\ nextId \in 0..MaxId
  /\ pending \in SUBSET Ids
  /\ written \in SUBSET Ids
  /\ caller \in [Callers -> [id : 0..MaxId, says : 0..MaxId,
                          got : {"nothing", "error", "answer"}]]

(* "Handing a late reply to the next caller is how 'turn on the hallway    *)
(* light' ends up answering with the state of the living room": whatever   *)
(* is late, repeated, out of order or misnumbered, a caller is handed the  *)
(* answer to its own request or none.                                      *)
OwnAnswerOnly ==
  \A c \in Callers :
    caller[c].got = "answer" => caller[c].says = caller[c].id

(* The map holds the requests that are waited for, and no others: no       *)
(* waiter leaks, and none is forgotten while an answer may still come.     *)
WaitersAreKnown ==
  pending = {caller[c].id : c \in {x \in Callers : Unresolved(x)}}

(* Once the client is closed nobody waits on it, not even a caller that    *)
(* came while it was being closed.                                         *)
ClosedIsQuiet == phase = "closed" => \A c \in Callers : ~Unresolved(c)

(* Closing the client releases every caller, without waiting for their     *)
(* timeouts.                                                               *)
CloseReleases == phase = "closing" ~> \A c \in Callers : caller[c].id = 0

(* The inductive invariant behind these: a caller that makes no request    *)
(* has no outcome, no two requests share an id, every id was issued, and a *)
(* closed client has forgotten all of them.                                *)
CallerInv(c) ==
  /\ caller[c].id = 0 => caller[c].got = "nothing"
  /\ caller[c].id <= nextId
  /\ caller[c].got = "answer" => caller[c].says = caller[c].id
  /\ \A d \in Callers : caller[c].id # 0 /\ caller[d].id = caller[c].id => d = c

IInv ==
  /\ TypeOK
  /\ WaitersAreKnown
  /\ \A c \in Callers : CallerInv(c)
  /\ phase = "closed" => pending = {}

=============================================================================
