---------------------------- MODULE Conversation ----------------------------
(***************************************************************************)
(* Turns of the agent: the loop of model calls and tool calls              *)
(* (src/src/vahub/agent/loop.py), the conversation histories it sends to   *)
(* the model (src/src/vahub/agent/session.py) and their translation for    *)
(* one provider (src/src/vahub/agent/llm/anthropic.py), the tokens of the  *)
(* day (src/src/vahub/storage/store.py), and the two routes that start a   *)
(* turn (src/src/vahub/web/api.py).                                        *)
(*                                                                         *)
(* An action is the code of a turn from one await to the next.  Nothing    *)
(* keeps a client from starting a turn in a session that has one under     *)
(* way: `overlapped` records where that happened.                          *)
(*                                                                         *)
(* A message is its role and, for one of the assistant that asks for tool  *)
(* calls, how many; for a note on modules that are down, of which turn.    *)
(* The model, the tools and the clock are free to do anything; so is the   *)
(* catalog, which may lack what the model asks for.                        *)
(***************************************************************************)
EXTENDS Naturals, Sequences, FiniteSets, SequencesExt

CONSTANTS
  Turns,          (* requests under way at once                            *)
  Ids,            (* session ids                                           *)
  NoId,
  MaxSessions,    (* max_sessions                                          *)
  MaxMessages,    (* max_messages                                          *)
  Iterations,     (* iterations_per_turn                                   *)
  TurnLimit,      (* tokens_per_turn                                       *)
  DayLimit,       (* tokens_per_day                                        *)
  CallMax,        (* the most tokens that one call of the model uses       *)
  Batch,          (* bound on the tool calls in one answer                 *)
  MaxRequests     (* bound on the turns that are started                   *)

ASSUME ConversationAssumption ==
  /\ IsFiniteSet(Turns) /\ NoId \notin Ids
  /\ {MaxSessions, MaxMessages, Iterations, TurnLimit, DayLimit, CallMax} \subseteq Nat \ {0}
  /\ {Batch, MaxRequests} \subseteq Nat

(* Session objects, numbered as they are made: at most one for a turn.     *)
Objects == 1..MaxRequests
NoObject == 0

VARIABLES
  table,       (* the sessions of the store, least recently used first     *)
  name,        (* name[o]: the id of a session                             *)
  msgs,        (* msgs[o]: its history                                     *)
  turn,        (* turn[t]: the place of the turn and its locals            *)
  spent,       (* the tokens of the day, as in budget_usage                *)
  requests,    (* how many turns have been started                         *)
  overlapped   (* history: sessions that two turns have used at once       *)

vars == <<table, name, msgs, turn, spent, requests, overlapped>>

(* "check": reading the day's usage; "open": storing what was said;        *)
(* "model": the call of the model is under way; "tool": a tool call is;    *)
(* "close": the reply is appended and is being stored.                     *)
Idle == [at |-> "idle", on |-> NoObject, calls |-> 0, tokens |-> 0,
         owed |-> 0, noted |-> FALSE]

Msg(r) == [role |-> r, asks |-> 0, of |-> {}]
Asks(n) == [Msg("assistant") EXCEPT !.asks = n]
Note(t) == [Msg("note") EXCEPT !.of = {t}]
Results(n) == [i \in 1..n |-> Msg("tool")]

Init ==
  /\ table = <<>>
  /\ name = [o \in Objects |-> NoId]
  /\ msgs = [o \in Objects |-> <<>>]
  /\ turn = [t \in Turns |-> Idle]
  /\ spent = 0
  /\ requests = 0
  /\ overlapped = {}

Users(o) == {t \in Turns : turn[t].on = o}
At(t, place) == turn[t].at = place

-----------------------------------------------------------------------------
(* touch(): a session that was evicted keeps its time, which nobody reads. *)
Touched(tab, o) == IF Contains(tab, o) THEN Append(RemoveFirst(tab, o), o) ELSE tab

Known(id) == {o \in Range(table) : name[o] = id}
Evict(tab) == IF Len(tab) <= MaxSessions THEN tab ELSE Tail(tab)

(* An object that neither the store nor a turn refers to is no more.       *)
Collected(o, tab, inUse) == o \notin Range(tab) /\ inUse = {}
Swept(h, o, tab, inUse) == IF Collected(o, tab, inUse) THEN <<>> ELSE h

(* get_or_create, and run_turn as far as the read of the day's usage.  A   *)
(* spoken turn gets here once its words were understood; until then it has *)
(* touched nothing.                                                        *)
Begin(t, o) ==
  /\ At(t, "idle")
  /\ requests < MaxRequests
  /\ requests' = requests + 1
  /\ turn' = [turn EXCEPT ![t] = [Idle EXCEPT !.at = "check", !.on = o]]
  /\ UNCHANGED spent

Continue(t, id) ==
  \E o \in Known(id) :
    /\ Begin(t, o)
    /\ table' = Touched(table, o)
    /\ overlapped' = IF Users(o) # {} THEN overlapped \cup {o} ELSE overlapped
    /\ UNCHANGED <<name, msgs>>

Create(t, id) ==
  LET o == requests + 1
  IN /\ Known(id) = {}
     /\ Begin(t, o)
     /\ name' = [name EXCEPT ![o] = id]
     /\ table' = Evict(Append(table, o))
     /\ msgs' = [x \in Objects |-> IF x = o THEN <<>> ELSE Swept(msgs[x], x, table', Users(x))]
     /\ UNCHANGED overlapped

-----------------------------------------------------------------------------
(* trim(): the system message and the latest messages, from the first user *)
(* message among them on.  A note is a system message, and may begin them. *)
MidTurn == {"tool", "assistant"}

Kept(h, skip) ==
  LET head == IF Head(h).role = "system" THEN 1 ELSE 0
      body == SubSeq(h, head + 1, Len(h))
      keep == IF MaxMessages - head > 1 THEN MaxMessages - head ELSE 1
      from == IF Len(body) > keep THEN Len(body) - keep ELSE 0
      stops == {i \in (from + 1)..Len(body) : body[i].role \notin skip}
      start == IF stops = {} THEN Len(body) + 1
               ELSE CHOOSE i \in stops : \A j \in stops : i <= j
  IN IF Len(h) <= MaxMessages THEN h
     ELSE SubSeq(h, 1, head) \o SubSeq(body, start, Len(body))

TrimmedToCall(h) == Kept(h, {"tool"})              (* mutant *)
Trimmed(h) == Kept(h, MidTurn)

(* The note on modules that are down is removed when its turn is over, by  *)
(* its identity.                                                           *)
Unnoted(h, t) == RemoveFirst(h, Note(t))

Left(t, h) == LET o == turn[t].on IN Swept(h, o, table, Users(o) \ {t})

(* The return of run_turn and the trim of the route, in one go.            *)
Returned(t, h) ==
  /\ msgs' = [msgs EXCEPT ![turn[t].on] = Left(t, Trimmed(Unnoted(h, t)))]
  /\ table' = Touched(table, turn[t].on)
  /\ turn' = [turn EXCEPT ![t] = Idle]

-----------------------------------------------------------------------------
OverBudgetLater == spent > DayLimit                (* mutant *)
OverBudget == spent >= DayLimit

Refused(t) ==
  /\ At(t, "check")
  /\ OverBudget
  /\ Returned(t, msgs[turn[t].on])
  /\ UNCHANGED <<name, spent, requests, overlapped>>

(* The first message of a history is the instructions of the hub.          *)
Admitted(t) ==
  /\ At(t, "check")
  /\ ~OverBudget
  /\ msgs' = [msgs EXCEPT ![turn[t].on] = IF @ = <<>> THEN <<Msg("system")>> ELSE @]
  /\ turn' = [turn EXCEPT ![t].at = "open"]
  /\ UNCHANGED <<table, name, spent, requests, overlapped>>

(* The catalog is built, a note and the words of the user are appended,    *)
(* and the model is called with the history.                               *)
Opened(t) ==
  /\ At(t, "open")
  /\ \E noted \in BOOLEAN :
       /\ msgs' = [msgs EXCEPT ![turn[t].on] =
                     @ \o (IF noted THEN <<Note(t)>> ELSE <<>>) \o <<Msg("user")>>]
       /\ turn' = [turn EXCEPT ![t].at = "model", ![t].calls = 1, ![t].noted = noted]
  /\ UNCHANGED <<table, name, spent, requests, overlapped>>

(* _finish: the reply is appended before it is stored.                     *)
Finish(t, h, tokens) ==
  /\ msgs' = [msgs EXCEPT ![turn[t].on] = Append(h, Msg("assistant"))]
  /\ table' = Touched(table, turn[t].on)
  /\ turn' = [turn EXCEPT ![t].at = "close", ![t].tokens = tokens, ![t].owed = 0]

(* After the answers to a batch: stop, or call the model once more.  The   *)
(* deadline is read again before that call.                                *)
NextCall(t, h, tokens, late) ==
  IF tokens > TurnLimit \/ turn[t].calls = Iterations \/ late
  THEN Finish(t, h, tokens)
  ELSE /\ msgs' = [msgs EXCEPT ![turn[t].on] = h]
       /\ turn' = [turn EXCEPT ![t].at = "model", ![t].calls = @ + 1, ![t].tokens = tokens,
                               ![t].owed = 0]
       /\ UNCHANGED table

(* The tool calls that are answered at once: all that come after the       *)
(* deadline, and any that name a tool this turn was not offered.           *)
AtOnce(owed, late) == IF late THEN {owed} ELSE 0..owed

(* The tool calls of a batch, one after the other.  Every one is answered. *)
Batched(t, h, owed, tokens) ==
  \E late \in BOOLEAN : \E atOnce \in AtOnce(owed, late) :
    LET h1 == h \o Results(atOnce)
    IN IF atOnce = owed THEN NextCall(t, h1, tokens, late)
       ELSE /\ msgs' = [msgs EXCEPT ![turn[t].on] = h1]
            /\ turn' = [turn EXCEPT ![t].at = "tool", ![t].owed = owed - atOnce,
                                    ![t].tokens = tokens]
            /\ UNCHANGED table

(* What can be read in the body of an answer: tool calls, and the tokens   *)
(* used, which the provider may fail to report.                            *)
Answers == [calls : 0..Batch, reported : 0..CallMax]

(* _account: where nothing is reported the tokens are estimated, so that   *)
(* no call of the model is free.                                           *)
Used(answer) == IF answer.reported = 0 THEN 1..CallMax ELSE {answer.reported}

(* The model answers; what the call used is added to the day's usage and   *)
(* to the turn's.  Without tool calls the answer is the reply.             *)
Answered(t) ==
  /\ At(t, "model")
  /\ \E answer \in Answers : \E used \in Used(answer) :
       LET h == msgs[turn[t].on]
           n == answer.calls
           tokens == turn[t].tokens + used
       IN /\ spent' = spent + used
          /\ IF n = 0 THEN Finish(t, h, tokens)
             ELSE Batched(t, Append(h, Asks(n)), n, tokens)
  /\ UNCHANGED <<name, requests, overlapped>>

(* The model fails or the deadline of the turn ends the wait for it: the   *)
(* turn ends politely.  A model whose adapter is replaced fails this way.  *)
ModelFails(t) ==
  /\ At(t, "model")
  /\ Finish(t, msgs[turn[t].on], turn[t].tokens)
  /\ UNCHANGED <<name, spent, requests, overlapped>>

(* ModuleAPI.call has answered; it never raises.                           *)
ToolReturned(t) ==
  /\ At(t, "tool")
  /\ LET h == Append(msgs[turn[t].on], Msg("tool"))
     IN IF turn[t].owed = 1
        THEN \E late \in BOOLEAN : NextCall(t, h, turn[t].tokens, late)
        ELSE Batched(t, h, turn[t].owed - 1, turn[t].tokens)
  /\ UNCHANGED <<name, spent, requests, overlapped>>

Closed(t) ==
  /\ At(t, "close")
  /\ Returned(t, msgs[turn[t].on])
  /\ UNCHANGED <<name, spent, requests, overlapped>>

(* The store fails: the turn ends with its note removed, and no trim.  A   *)
(* charge that fails loses the answer with it.                             *)
Raises(t) ==
  /\ turn[t].at \in {"check", "open", "model", "close"}
  /\ msgs' = [msgs EXCEPT ![turn[t].on] = Left(t, Unnoted(@, t))]
  /\ turn' = [turn EXCEPT ![t] = Idle]
  /\ UNCHANGED <<table, name, spent, requests, overlapped>>

-----------------------------------------------------------------------------
(* A history as the Messages API of Anthropic is sent it: system messages  *)
(* are lifted out, a tool result is a block of a user message, and         *)
(* neighbours of one role become one message.  A message with no text in   *)
(* it is dropped, but a reply always has some, and so, here, have the      *)
(* words of a user.  Text beside tool calls is left out.                   *)
Side(m) == IF m.role = "assistant" THEN "assistant" ELSE "user"

Blocks(m) ==
  IF m.asks > 0 THEN [i \in 1..m.asks |-> "use"]
  ELSE <<IF m.role = "tool" THEN "result" ELSE "text">>

Appended(out, m) ==
  IF out # <<>> /\ Last(out).role = Side(m)
  THEN [out EXCEPT ![Len(out)].blocks = @ \o Blocks(m)]
  ELSE Append(out, [role |-> Side(m), blocks |-> Blocks(m)])

Converted(h) ==
  LET out[i \in 0..Len(h)] ==
        IF i = 0 THEN <<>>
        ELSE IF h[i].role \in {"system", "note"} THEN out[i - 1] ELSE Appended(out[i - 1], h[i])
  IN out[Len(h)]

Next ==
  \E t \in Turns :
    \/ \E id \in Ids : Continue(t, id) \/ Create(t, id)
    \/ Refused(t) \/ Admitted(t) \/ Opened(t)
    \/ Answered(t) \/ ModelFails(t) \/ ToolReturned(t)
    \/ Closed(t) \/ Raises(t)

Spec == Init /\ [][Next]_vars

-----------------------------------------------------------------------------
(* What a turn can use: the limit is looked at after each batch of calls.  *)
TurnMost == TurnLimit + CallMax

(* The daily budget is read when a turn begins and charged after each call *)
(* of the model, with awaits in between: turns that overlap pass the check *)
(* together.  The day is overrun by no more than that.                     *)
DayIsBounded == spent <= DayLimit - 1 + Cardinality(Turns) * TurnMost

(* "Dropping it as the oldest message would quietly remove a security      *)
(* property", and history that starts in the middle of a turn is refused   *)
(* by the providers (session.py): whatever was trimmed, whichever turns    *)
(* overlap, the model is sent the instructions first and no note but those *)
(* of turns under way; and where turns have not overlapped, it is sent a   *)
(* history that begins with a user's words and has every tool call         *)
(* answered, right behind it - also in the form that Anthropic wants,      *)
(* where the answers to all the calls of a message lead the next one.      *)
Begins(h) ==
  \A i \in 2..Len(h) : (\A j \in 2..(i - 1) : h[j].role = "note") =>
                          h[i].role \in {"note", "user"}
Paired(h) ==
  \A i \in DOMAIN h :
    /\ h[i].role = "tool" => \E j \in 1..(i - 1) :
         /\ h[j].asks >= i - j
         /\ \A k \in (j + 1)..i : h[k].role = "tool"
    /\ \A k \in (i + 1)..(i + h[i].asks) : k \in DOMAIN h /\ h[k].role = "tool"

Count(m, block) == Cardinality({i \in DOMAIN m.blocks : m.blocks[i] = block})

Accepted(out) ==
  /\ Head(out).role = "user" /\ Last(out).role = "user"
  /\ \A i \in DOMAIN out :
       LET uses == Count(out[i], "use")
           asked == IF i = 1 THEN 0 ELSE Count(out[i - 1], "use")
       IN /\ uses > 0 => out[i].role = "assistant" /\ i < Len(out)
          /\ Count(out[i], "result") = asked
          /\ \A j \in 1..asked : out[i].blocks[j] = "result"

SentIsWellFormed ==
  \A t \in Turns : At(t, "model") =>
    LET o == turn[t].on
        h == msgs[o]
    IN /\ Head(h).role = "system"
       /\ \A i \in DOMAIN h : \A u \in h[i].of : turn[u].on = o /\ turn[u].noted
       /\ o \notin overlapped => Begins(h) /\ Paired(h) /\ Accepted(Converted(h))

=============================================================================
