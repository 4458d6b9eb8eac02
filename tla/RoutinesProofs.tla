--------------------------- MODULE RoutinesProofs ---------------------------
(***************************************************************************)
(* What Routines promises, for any number of routines, runs, card tools,   *)
(* cards, edits and restarts.                                              *)
(***************************************************************************)
EXTENDS Routines, FiniteSetTheorems, TLAPS

RunLocals == [at : {"idle", "step", "cancel"}, id : Ids \cup {Nobody}, step : Nat, timed : BOOLEAN]
ToolLocals == [at : {"idle", "read", "save"}, op : {"none", "add", "remove"},
               card : Cards \cup {Nobody}]
EditCalls == [op : {"insert", "update"}, id : Dyn, to : {"on", "off"}, by : {Nobody}, cards : {{}}]
Deletions == [op : {"delete"}, id : Dyn, to : {"none"}, by : {Nobody}, cards : {{}}]
CardCalls == [op : {"read", "save"}, id : {Nobody}, to : {"none"}, by : Turns,
              cards : SUBSET Cards]
PageCalls == [op : {"page"}, id : {Nobody}, to : {"none"}, by : {Nobody}, cards : SUBSET Cards]
Calls == EditCalls \cup Deletions \cup CardCalls \cup PageCalls

TypeInv ==
  /\ hub \in {"down", "booting", "up", "stopping"}
  /\ table \in [Dyn -> {"none", "on", "off"}]
  /\ entry \in [Ids -> {"none", "on", "off"}]
  /\ dynamic \subseteq Ids /\ job \subseteq Ids /\ revived \subseteq Dyn
  /\ run \in [Runs -> RunLocals]
  /\ locked \subseteq Ids
  /\ queue \in Seq(Calls)
  /\ cards \in SUBSET Cards /\ kept \in SUBSET Cards
  /\ tool \in [Turns -> ToolLocals]
  /\ core \in Turns \cup {Nobody}
  /\ stray \in BOOLEAN

(* Memory agrees with the table at every moment of a hub that is up: what  *)
(* a statement writes and what its edit then does in memory match.         *)
MemoryInv ==
  /\ hub \in {"down", "booting"} => queue = <<>> /\ dynamic = {} /\ revived = {}
  /\ hub = "booting" => job \cap Dyn = {} /\ \A i \in Dyn : entry[i] = "none"
  /\ hub = "up" => \A i \in Dyn : Agree(i)

(* A run has the lock of its routine, and no two have the same.            *)
RunInv ==
  \A r \in Runs :
    /\ run[r].at # "idle" => run[r].id \in locked
    /\ run[r].at = "idle" => run[r] = NoRun
    /\ \A q \in Runs \ {r} : run[r].at # "idle" => run[q].id # run[r].id

(* The tool that holds "core" has at most one call in the queue, and what  *)
(* it is about to save is what should be there afterwards.                 *)
Mine(t, k) == queue[k].by = t
CardInv ==
  /\ \A t \in Turns : tool[t] # NoTool => core = t
  /\ \A t \in Turns : tool[t].at # "idle" => tool[t].card \in Cards
  /\ \A k \in 1..Len(queue), t \in Turns :
       Mine(t, k) => /\ tool[t].at = queue[k].op
                     /\ ~stray /\ queue[k].op = "save" => queue[k].cards = With(kept, tool[t])
  /\ \A j, k \in 1..Len(queue), t \in Turns : Mine(t, j) /\ Mine(t, k) => j = k
  /\ CardsKept

IInv == TypeInv /\ MemoryInv /\ RunInv /\ CardInv


-----------------------------------------------------------------------------
(* The calls of the database.                                              *)

(* The call at the head of the queue says by its operation what it is.     *)
LEMMA HeadOfQueue ==
  ASSUME TypeInv, queue # <<>>
  PROVE  /\ Head(queue) \in Calls
         /\ Tail(queue) \in Seq(Calls)
         /\ Head(queue).op \in {"insert", "update"} => Head(queue) \in EditCalls
         /\ Head(queue).op = "delete" => Head(queue) \in Deletions
         /\ Head(queue).op \in {"read", "save"} => Head(queue) \in CardCalls
         /\ Head(queue).op = "page" => Head(queue) \in PageCalls
<1>1. Head(queue) \in Calls /\ Tail(queue) \in Seq(Calls)
  BY DEF TypeInv
<1> QED
  BY <1>1 DEF Calls, EditCalls, Deletions, CardCalls, PageCalls

(* What a step that asks the database, or is answered, leaves in the queue.*)
LEMMA Asked ==
  ASSUME NEW S, NEW q \in Seq(S), NEW c \in S
  PROVE  /\ Append(q, c) \in Seq(S)
         /\ Len(Append(q, c)) = Len(q) + 1
         /\ \A k \in 1..Len(q) : Append(q, c)[k] = q[k]
         /\ Append(q, c)[Len(q) + 1] = c
  OBVIOUS

LEMMA Answered ==
  ASSUME NEW S, NEW q \in Seq(S), q # <<>>
  PROVE  /\ Tail(q) \in Seq(S)
         /\ Len(Tail(q)) = Len(q) - 1
         /\ Len(q) \in Nat \ {0}
         /\ \A k \in 1..Len(Tail(q)) : Tail(q)[k] = q[k + 1] /\ k + 1 \in 1..Len(q)
         /\ q[1] = Head(q)
  OBVIOUS

(* The calls that edits make.                                              *)
LEMMA CallsMade ==
  /\ \A i \in Dyn, to \in {"on", "off"}, op \in {"insert", "update"} : Call(op, i, to) \in EditCalls
  /\ \A i \in Dyn : Call("delete", i, "none") \in Deletions
  /\ \A t \in Turns, set \in SUBSET Cards : CardCall("read", t, set) \in CardCalls
  /\ \A t \in Turns, set \in SUBSET Cards : CardCall("save", t, set) \in CardCalls
  /\ \A set \in SUBSET Cards : CardCall("page", Nobody, set) \in PageCalls
  BY DEF Call, CardCall, EditCalls, Deletions, CardCalls, PageCalls

LEMMA Nobodies ==
  /\ Nobody \notin Ids /\ Nobody \notin Runs /\ Nobody \notin Turns /\ Nobody \notin Cards
  /\ Files \subseteq Ids /\ Dyn \subseteq Ids /\ FileOn \subseteq Ids /\ FileOn \cap Dyn = {}
  /\ Steps \in Nat \ {0}
  BY RoutinesAssumption DEF Ids

LEMMA LocalsTyped ==
  NoRun \in RunLocals /\ NoTool \in ToolLocals
  BY DEF NoRun, NoTool, RunLocals, ToolLocals

LEMMA ToolLocal ==
  \A l \in ToolLocals : [l EXCEPT !.at = "save"] \in ToolLocals
  BY DEF ToolLocals

LEMMA RunLocal ==
  /\ \A i \in Ids, timed \in BOOLEAN :
       [at |-> "step", id |-> i, step |-> 1, timed |-> timed] \in RunLocals
  /\ \A l \in RunLocals : [l EXCEPT !.step = @ + 1] \in RunLocals
  /\ \A l \in RunLocals : [l EXCEPT !.at = "cancel"] \in RunLocals
  BY DEF RunLocals

-----------------------------------------------------------------------------
(* Types.                                                                  *)

LEMMA InitTyped == Init => TypeInv
<1> SUFFICES ASSUME Init PROVE TypeInv
  OBVIOUS
<1>1. queue \in Seq(Calls)
  BY DEF Init
<1>2. table \in [Dyn -> {"none", "on", "off"}]
  BY Zenon DEF Init
<1>3. run \in [Runs -> RunLocals] /\ tool \in [Turns -> ToolLocals]
  BY LocalsTyped, Zenon DEF Init
<1>4. entry \in [Ids -> {"none", "on", "off"}]
  BY Zenon DEF Init
<1>5. /\ hub \in {"down", "booting", "up", "stopping"}
      /\ dynamic \subseteq Ids /\ job \subseteq Ids /\ revived \subseteq Dyn /\ locked \subseteq Ids
      /\ cards \in SUBSET Cards /\ kept \in SUBSET Cards
      /\ core \in Turns \cup {Nobody}
  BY DEF Init
<1>6. stray \in BOOLEAN
  BY Zenon DEF Init
<1> QED
  BY <1>1, <1>2, <1>3, <1>4, <1>5, <1>6, Zenon DEF TypeInv

LEMMA EditTyped ==
  ASSUME TypeInv, NEW i \in Dyn,
         AddDynamic(i) \/ RemoveDynamic(i) \/ \E on \in BOOLEAN : SetDynamicEnabled(i, on)
  PROVE  /\ TypeInv'
         /\ hub = "up" /\ \E call \in EditCalls \cup Deletions : queue' = Append(queue, call)
         /\ UNCHANGED <<hub, table, entry, dynamic, job, revived, running, board, crashes>>
<1>1. PICK call \in EditCalls \cup Deletions : Edit(call)
  BY CallsMade DEF AddDynamic, RemoveDynamic, SetDynamicEnabled, OnOff
<1>2. call \in Calls
  BY <1>1 DEF Calls
<1>3. queue' \in Seq(Calls)
  BY <1>1, <1>2, Asked DEF Edit, TypeInv
<1> QED
  BY <1>1, <1>3 DEF Edit, TypeInv, running, board

LEMMA EditDoneTyped ==
  ASSUME TypeInv, EditDone
  PROVE  TypeInv'
<1> DEFINE c == Head(queue)
<1>0. queue # <<>> /\ c.op \in {"insert", "delete", "update"}
  BY DEF EditDone, AnswerOf
<1>1. c.id \in Dyn /\ c.to \in {"none", "on", "off"}
  BY <1>0, HeadOfQueue DEF EditCalls, Deletions
<1>2. queue' \in Seq(Calls)
  BY <1>0, HeadOfQueue DEF EditDone, AnswerOf
<1>3. c.id \in Ids
  BY <1>1, Nobodies
<1>4. table' \in [Dyn -> {"none", "on", "off"}]
  BY <1>1 DEF EditDone, AnswerOf, TypeInv
<1>5. /\ entry' \in [Ids -> {"none", "on", "off"}] /\ dynamic' \subseteq Ids /\ job' \subseteq Ids
      /\ revived' \subseteq Dyn
  BY <1>0, <1>1, <1>3 DEF EditDone, AnswerOf, Registered, TypeInv
<1> QED
  BY <1>2, <1>4, <1>5 DEF EditDone, AnswerOf, running, board, TypeInv

LEMMA LifeTyped ==
  ASSUME TypeInv, Boot \/ Sync \/ Stop \/ Crash
  PROVE  TypeInv'
<1>1. CASE Boot
  <2>1. FromFile \in [Ids -> {"none", "on", "off"}]
    BY DEF FromFile, OnOff
  <2> QED
    BY <1>1, <2>1, Nobodies DEF Boot, TypeInv, running, board
<1>2. CASE Sync
  <2>1. entry' \in [Ids -> {"none", "on", "off"}]
    BY <1>2 DEF Sync, TypeInv
  <2>2. dynamic' \subseteq Ids /\ job' \subseteq Ids
    BY <1>2, Nobodies DEF Sync, TypeInv
  <2> QED
    BY <1>2, <2>1, <2>2 DEF Sync, TypeInv, running, board
<1>3. CASE Stop
  <2>1. run' \in [Runs -> RunLocals]
    BY <1>3, LocalsTyped DEF Stop, TypeInv
  <2>2. locked' \subseteq Ids
    BY <1>3 DEF Stop, TypeInv
  <2> QED
    BY <1>3, <2>1, <2>2 DEF Stop, TypeInv, board
<1>4. CASE Crash
  <2>1. queue' \in Seq(Calls)
    BY <1>4 DEF Crash
  <2> QED
    BY <1>4, <2>1, LocalsTyped DEF Crash, TypeInv
<1> QED
  BY <1>1, <1>2, <1>3, <1>4

LEMMA RunTyped ==
  ASSUME TypeInv, NEW r \in Runs,
         \/ \E i \in Ids : Fire(r, i) \/ RunNow(r, i)
         \/ \E result \in {"ok", "fail", "confirm"} : StepDone(r, result)
         \/ QuestionCancelled(r)
  PROVE  TypeInv'
<1>1. run' \in [Runs -> RunLocals] /\ locked' \subseteq Ids
  <2>1. CASE \E i \in Ids : Fire(r, i) \/ RunNow(r, i)
    <3>1. PICK i \in Ids, timed \in BOOLEAN, free \in BOOLEAN : Enter(r, i, timed, free)
      BY <2>1, Zenon DEF Fire, FireWhen, RunNow
    <3>2. PICK l \in RunLocals : run' = [run EXCEPT ![r] = l]
      BY <3>1, RunLocal, Zenon DEF Enter
    <3> QED
      BY <3>1, <3>2 DEF Enter, TypeInv
  <2>2. CASE \E result \in {"ok", "fail", "confirm"} : StepDone(r, result)
    <3>1. [run[r] EXCEPT !.step = @ + 1] \in RunLocals /\ [run[r] EXCEPT !.at = "cancel"] \in RunLocals
      BY RunLocal DEF TypeInv
    <3>2. \E l \in RunLocals : run' = [run EXCEPT ![r] = l]
      BY <2>2, <3>1, LocalsTyped DEF StepDone
    <3>3. locked' \subseteq locked
      BY <2>2 DEF StepDone
    <3> QED
      BY <3>2, <3>3 DEF TypeInv
  <2>3. CASE QuestionCancelled(r)
    BY <2>3, LocalsTyped DEF QuestionCancelled, TypeInv
  <2> QED
    BY <2>1, <2>2, <2>3
<1>2. UNCHANGED <<hub, schedules, queue, board>>
  BY DEF Fire, FireWhen, RunNow, Enter, StepDone, QuestionCancelled
<1> QED
  BY <1>1, <1>2 DEF TypeInv, schedules, board

LEMMA WithTyped ==
  ASSUME NEW set \in SUBSET Cards, NEW l \in ToolLocals, l.card \in Cards
  PROVE  With(set, l) \in SUBSET Cards
  BY DEF With

(* The call at the head of the queue is where the tool that made it is.    *)
LEMMA HeadIsMine ==
  ASSUME TypeInv, CardInv, queue # <<>>, NEW t \in Turns, Head(queue).by = t
  PROVE  /\ tool[t].at = Head(queue).op
         /\ ~stray /\ Head(queue).op = "save" => Head(queue).cards = With(kept, tool[t])
<1>1. 1 \in 1..Len(queue) /\ queue[1] = Head(queue)
  BY Answered DEF TypeInv
<1> QED
  BY <1>1 DEF CardInv, Mine

LEMMA BoardTyped ==
  ASSUME TypeInv, CardInv,
         \/ \E t \in Turns, c \in Cards, op \in {"add", "remove"} : ToolCalled(t, op, c)
         \/ \E set \in SUBSET Cards : PageSaves(set)
         \/ CardsRead \/ CardsSaved \/ PageSaved \/ Raises
  PROVE  TypeInv'
<1>0. UNCHANGED <<hub, schedules, running>>
  BY DEF ToolCalled, CardTool, PageSaves, CardsRead, CardsSaved, PageSaved, Raises, board
<1>1. CASE \E t \in Turns, c \in Cards, op \in {"add", "remove"} : ToolCalled(t, op, c)
  <2>1. PICK t \in Turns, c \in Cards, op \in {"add", "remove"} : ToolCalled(t, op, c)
    BY <1>1
  <2>2. [at |-> "read", op |-> op, card |-> c] \in ToolLocals
    BY DEF ToolLocals
  <2>3. CardCall("read", t, {}) \in Calls
    BY CallsMade DEF Calls
  <2>4. queue' \in Seq(Calls)
    BY <2>1, <2>3, Asked DEF ToolCalled, CardTool, TypeInv
  <2> QED
    BY <1>0, <2>1, <2>2, <2>4 DEF ToolCalled, CardTool, TypeInv, schedules, running
<1>2. CASE \E set \in SUBSET Cards : PageSaves(set)
  <2>1. PICK set \in SUBSET Cards : PageSaves(set)
    BY <1>2
  <2>2. CardCall("page", Nobody, set) \in Calls
    BY CallsMade DEF Calls
  <2>3. queue' \in Seq(Calls)
    BY <2>1, <2>2, Asked DEF PageSaves, TypeInv
  <2> QED
    BY <1>0, <2>1, <2>3 DEF PageSaves, TypeInv, schedules, running, board
<1>3. CASE CardsRead
  <2> DEFINE t == Head(queue).by
  <2>1. t \in Turns /\ Tail(queue) \in Seq(Calls)
    BY <1>3, HeadOfQueue DEF CardsRead, CardCalls
  <2>2. [tool[t] EXCEPT !.at = "save"] \in ToolLocals
    <3>1. tool[t] \in ToolLocals
      BY <2>1 DEF TypeInv
    <3> QED
      BY <3>1, ToolLocal
  <2>3. tool[t].at = "read"
    BY <1>3, <2>1, HeadIsMine DEF CardsRead
  <2>4. tool[t] \in ToolLocals /\ tool[t].card \in Cards
    BY <2>1, <2>3 DEF TypeInv, CardInv
  <2>5. CardCall("save", t, With(cards, tool[t])) \in Calls
    BY <2>1, <2>4, WithTyped, CallsMade DEF Calls, TypeInv
  <2>6. queue' \in Seq(Calls)
    BY <1>3, <2>1, <2>5, Asked DEF CardsRead
  <2>7. tool' \in [Turns -> ToolLocals]
    BY <1>3, <2>2 DEF CardsRead, TypeInv
  <2> QED
    BY <1>0, <1>3, <2>6, <2>7 DEF CardsRead, TypeInv, schedules, running
<1>4. CASE CardsSaved
  <2> DEFINE c == Head(queue)
             t == c.by
  <2>1. t \in Turns /\ Tail(queue) \in Seq(Calls) /\ c.cards \in SUBSET Cards
    BY <1>4, HeadOfQueue DEF CardsSaved, CardCalls
  <2>2. tool[t].at = "save"
    BY <1>4, <2>1, HeadIsMine DEF CardsSaved
  <2>3. With(kept, tool[t]) \in SUBSET Cards
    BY <2>1, <2>2, WithTyped DEF TypeInv, CardInv
  <2>4. tool' \in [Turns -> ToolLocals]
    BY <1>4, LocalsTyped DEF CardsSaved, TypeInv
  <2> QED
    BY <1>0, <1>4, <2>1, <2>3, <2>4 DEF CardsSaved, TypeInv, schedules, running
<1>5. CASE PageSaved
  <2>1. Tail(queue) \in Seq(Calls) /\ Head(queue).cards \in SUBSET Cards
    BY <1>5, HeadOfQueue DEF PageSaved, PageCalls
  <2>2. stray' \in BOOLEAN
    BY <1>5 DEF PageSaved, TypeInv
  <2>3. UNCHANGED <<tool, core>> /\ cards' \in SUBSET Cards /\ kept' \in SUBSET Cards /\ queue' \in Seq(Calls)
    BY <1>5, <2>1 DEF PageSaved
  <2> QED
    BY <1>0, <2>2, <2>3 DEF TypeInv, schedules, running
<1>6. CASE Raises
  <2>1. Tail(queue) \in Seq(Calls)
    BY <1>6, HeadOfQueue DEF Raises
  <2>2. tool' \in [Turns -> ToolLocals] /\ core' \in Turns \cup {Nobody}
    BY <1>6, LocalsTyped DEF Raises, TypeInv
  <2>3. UNCHANGED <<cards, kept, stray>> /\ queue' \in Seq(Calls)
    BY <1>6, <2>1 DEF Raises
  <2> QED
    BY <1>0, <2>2, <2>3 DEF TypeInv, schedules, running
<1> QED
  BY <1>1, <1>2, <1>3, <1>4, <1>5, <1>6

-----------------------------------------------------------------------------
(* Memory and the table.                                                   *)

LEMMA MemoryFrame ==
  ASSUME MemoryInv, UNCHANGED <<hub, schedules>>, hub = "booting" => queue' = queue,
         hub = "down" => queue' = queue
  PROVE  MemoryInv'
  BY DEF MemoryInv, Agree, schedules

LEMMA MemoryStep ==
  ASSUME TypeInv, MemoryInv, [Next]_vars
  PROVE  MemoryInv'
<1>1. CASE Boot
  <2>1. FileOn \cap Dyn = {} /\ \A i \in Dyn : FromFile[i] = "none"
    BY Nobodies, RoutinesAssumption DEF FromFile
  <2> QED
    BY <1>1, <2>1 DEF Boot, MemoryInv
<1>2. CASE Sync
  <2>1. ASSUME NEW i \in Dyn PROVE Agree(i)'
    <3>1. i \notin job /\ i \in Ids /\ i \notin dynamic /\ i \notin revived /\ entry[i] = "none"
      BY <1>2, Nobodies DEF Sync, MemoryInv
    <3> QED
      BY <1>2, <3>1 DEF Sync, Agree
  <2> QED
    BY <1>2, <2>1 DEF Sync, MemoryInv
<1>3. CASE Stop
  BY <1>3 DEF Stop, MemoryInv
<1>4. CASE Crash
  BY <1>4 DEF Crash, MemoryInv
<1>5. CASE \E i \in Dyn : AddDynamic(i) \/ RemoveDynamic(i) \/ \E on \in BOOLEAN : SetDynamicEnabled(i, on)
  BY <1>5, EditTyped DEF MemoryInv, Agree
<1>6. CASE EditDone
  <2> DEFINE c == Head(queue)
  <2>0. queue # <<>> /\ c.op \in {"insert", "delete", "update"}
    BY <1>6 DEF EditDone, AnswerOf
  <2>1. /\ c.id \in Dyn /\ c.id \in Ids
        /\ c.op = "delete" => c.to = "none"
        /\ c.op # "delete" => c.to \in {"on", "off"}
    BY <2>0, HeadOfQueue, Nobodies DEF EditCalls, Deletions
  <2>2. hub' = hub /\ hub \notin {"down", "booting"}
    BY <1>6, <2>0 DEF EditDone, AnswerOf, MemoryInv
  <2>3. ASSUME hub = "up", NEW i \in Dyn PROVE Agree(i)'
    <3>1. CASE i # c.id
      BY <1>6, <2>0, <2>1, <2>3, <3>1 DEF EditDone, AnswerOf, Registered, Agree, MemoryInv, TypeInv
    <3>2. CASE i = c.id
      <4>1. /\ entry'[i] = c.to /\ (i \in job' <=> c.to = "on")
            /\ dynamic' = CASE c.op = "insert" -> dynamic \cup {i}
                            [] c.op = "delete" -> dynamic \ {i}
                            [] c.op = "update" -> dynamic
        BY <1>6, <2>1, <2>3, <3>2 DEF EditDone, AnswerOf, Registered, TypeInv
      <4>2. CASE c.op = "update" /\ table[i] = "none"
        <5>1. i \in revived' /\ table'[i] = "none" /\ i \notin dynamic'
          BY <1>6, <2>0, <2>3, <3>2, <4>1, <4>2 DEF EditDone, AnswerOf, Agree, MemoryInv
        <5> QED
          BY <2>1, <4>1, <4>2, <5>1 DEF Agree
      <4>3. CASE ~(c.op = "update" /\ table[i] = "none")
        <5>1. i \notin revived' /\ table'[i] = c.to
          BY <1>6, <2>0, <3>2, <4>3 DEF EditDone, AnswerOf, TypeInv
        <5>2. i \in dynamic' <=> c.to # "none"
          BY <2>0, <2>1, <2>3, <3>2, <4>1, <4>3 DEF Agree, MemoryInv
        <5> QED
          BY <4>1, <5>1, <5>2 DEF Agree
      <4> QED
        BY <4>2, <4>3
    <3> QED
      BY <3>1, <3>2
  <2> QED
    BY <2>2, <2>3 DEF MemoryInv
<1>7. CASE \/ \E r \in Runs : \/ \E i \in Ids : Fire(r, i) \/ RunNow(r, i)
                              \/ \E result \in {"ok", "fail", "confirm"} : StepDone(r, result)
                              \/ QuestionCancelled(r)
  <2>1. UNCHANGED <<hub, schedules, queue>>
    BY <1>7 DEF Fire, FireWhen, RunNow, Enter, StepDone, QuestionCancelled
  <2> QED
    BY <2>1, MemoryFrame
<1>8. CASE \/ \E t \in Turns, c \in Cards, op \in {"add", "remove"} : ToolCalled(t, op, c)
           \/ \E set \in SUBSET Cards : PageSaves(set)
  <2>1. hub = "up" /\ UNCHANGED <<hub, schedules>>
    BY <1>8 DEF ToolCalled, CardTool, PageSaves
  <2> QED
    BY <2>1, MemoryFrame
<1>9. CASE CardsRead \/ CardsSaved \/ PageSaved \/ Raises
  <2>1. queue # <<>> /\ UNCHANGED <<hub, schedules>>
    BY <1>9 DEF CardsRead, CardsSaved, PageSaved, Raises
  <2> QED
    BY <2>1, MemoryFrame DEF MemoryInv
<1>10. CASE UNCHANGED vars
  BY <1>10, MemoryFrame DEF vars, schedules
<1> QED
  BY <1>1, <1>2, <1>3, <1>4, <1>5, <1>6, <1>7, <1>8, <1>9, <1>10 DEF Next

-----------------------------------------------------------------------------
(* Runs and locks.                                                         *)

(* A run that ends gives back the lock of its routine, and no other's.     *)
LEMMA RunEnds ==
  ASSUME TypeInv, RunInv, NEW r \in Runs, run[r].at # "idle",
         run' = [run EXCEPT ![r] = NoRun], locked' = locked \ {run[r].id}
  PROVE  RunInv'
<1> SUFFICES ASSUME NEW p \in Runs
             PROVE  /\ run'[p].at # "idle" => run'[p].id \in locked'
                    /\ run'[p].at = "idle" => run'[p] = NoRun
                    /\ \A q \in Runs \ {p} : run'[p].at # "idle" => run'[q].id # run'[p].id
  BY DEF RunInv
<1>1. NoRun.at = "idle" /\ NoRun.id = Nobody
  BY DEF NoRun
<1>2. CASE p = r
  BY <1>1, <1>2 DEF TypeInv
<1>3. CASE p # r
  <2>1. run'[p] = run[p] /\ run'[r] = NoRun
    BY <1>3 DEF TypeInv
  <2>2. run[p].at # "idle" => run[p].id # run[r].id /\ run[p].id \in locked
    BY <1>3 DEF RunInv
  <2>3. run[p].at # "idle" => run[p].id # Nobody
    BY <2>2, Nobodies DEF TypeInv
  <2>4. ASSUME NEW q \in Runs \ {p}, run[p].at # "idle" PROVE run'[q].id # run[p].id
    BY <1>1, <2>1, <2>3, <2>4 DEF RunInv, TypeInv
  <2> QED
    BY <2>1, <2>2, <2>4 DEF RunInv
<1> QED
  BY <1>2, <1>3

(* A run that goes on keeps its routine.                                   *)
LEMMA RunGoesOn ==
  ASSUME TypeInv, RunInv, NEW r \in Runs, run[r].at # "idle", NEW l \in RunLocals,
         l.id = run[r].id, l.at # "idle",
         run' = [run EXCEPT ![r] = l], locked' = locked
  PROVE  RunInv'
<1>1. \A p \in Runs : /\ run'[p].id = run[p].id
                      /\ run'[p].at = "idle" <=> run[p].at = "idle"
                      /\ run'[p].at = "idle" => run'[p] = run[p]
  BY DEF TypeInv
<1> QED
  BY <1>1 DEF RunInv

LEMMA RunStarts ==
  ASSUME TypeInv, RunInv, NEW r \in Runs, NEW i \in Ids, NEW timed \in BOOLEAN,
         Enter(r, i, timed, i \notin locked)
  PROVE  RunInv'
<1> DEFINE l == [at |-> "step", id |-> i, step |-> 1, timed |-> timed]
<1>1. /\ i \notin locked /\ run' = [run EXCEPT ![r] = l] /\ locked' = locked \cup {i}
      /\ l.at = "step" /\ l.id = i
  BY DEF Enter
<1> HIDE DEF l
<1>2. run'[r] = l /\ \A p \in Runs \ {r} : run'[p] = run[p]
  BY <1>1 DEF TypeInv
<1>3. \A p \in Runs : run[p].at = "idle" => run[p].id = Nobody
  BY DEF RunInv, NoRun
<1>4. \A p \in Runs : run[p].id # i
  BY <1>1, <1>3, Nobodies DEF RunInv
<1>5. ASSUME NEW p \in Runs
      PROVE  /\ run'[p].at # "idle" => run'[p].id \in locked'
             /\ run'[p].at = "idle" => run'[p] = NoRun
             /\ \A q \in Runs \ {p} : run'[p].at # "idle" => run'[q].id # run'[p].id
  <2>1. CASE p = r
    BY <1>1, <1>2, <1>4, <2>1
  <2>2. CASE p # r
    BY <1>1, <1>2, <1>4, <2>2 DEF RunInv
  <2> QED
    BY <2>1, <2>2
<1> QED
  BY <1>5 DEF RunInv

(* The runs that are cut when the scheduler stops leave no lock behind.    *)
LEMMA RunsCut ==
  ASSUME TypeInv, RunInv, Stop
  PROVE  RunInv'
<1> DEFINE cut == {r \in Runs : run[r].timed}
<1>1. /\ \A p \in Runs : p \in cut => run'[p] = NoRun
      /\ \A p \in Runs : p \notin cut => run'[p] = run[p]
      /\ locked' = locked \ {run[r].id : r \in cut}
  BY DEF Stop
<1>2. NoRun.at = "idle" /\ NoRun.id = Nobody
  BY DEF NoRun
<1>3. ASSUME NEW p \in Runs
      PROVE  /\ run'[p].at # "idle" => run'[p].id \in locked'
             /\ run'[p].at = "idle" => run'[p] = NoRun
             /\ \A q \in Runs \ {p} : run'[p].at # "idle" => run'[q].id # run'[p].id
  <2>1. CASE p \in cut
    BY <1>1, <1>2, <2>1
  <2>2. CASE p \notin cut
    <3>1. run'[p] = run[p] /\ (run[p].at = "idle" => run[p] = NoRun)
      BY <1>1, <2>2 DEF RunInv
    <3>2. run[p].at # "idle" => \A q \in Runs \ {p} : run[q].id # run[p].id
      BY DEF RunInv
    <3>3. run[p].at # "idle" => run[p].id # Nobody
      BY <1>2, Nobodies, <3>2 DEF RunInv, TypeInv, RunLocals
    <3>4. run[p].at # "idle" => run[p].id \in locked'
      BY <1>1, <2>2, <3>2 DEF RunInv
    <3>5. ASSUME run[p].at # "idle", NEW q \in Runs \ {p} PROVE run'[q].id # run[p].id
      BY <1>1, <1>2, <3>2, <3>3, <3>5
    <3> QED
      BY <3>1, <3>4, <3>5
  <2> QED
    BY <2>1, <2>2
<1> QED
  BY <1>3 DEF RunInv

LEMMA RunStep ==
  ASSUME TypeInv, RunInv, [Next]_vars
  PROVE  RunInv'
<1>1. CASE Stop
  BY <1>1, RunsCut
<1>2. CASE Crash
  <2>1. NoRun.at = "idle"
    BY DEF NoRun
  <2> QED
    BY <1>2, <2>1 DEF Crash, RunInv
<1>3. CASE \E r \in Runs, i \in Ids : Fire(r, i) \/ RunNow(r, i)
  <2>1. PICK r \in Runs, i \in Ids, timed \in BOOLEAN : Enter(r, i, timed, i \notin locked)
    BY <1>3, Zenon DEF Fire, FireWhen, RunNow
  <2> QED
    BY <2>1, RunStarts
<1>4. CASE \E r \in Runs, result \in {"ok", "fail", "confirm"} : StepDone(r, result)
  <2>1. PICK r \in Runs, result \in {"ok", "fail", "confirm"} : StepDone(r, result)
    BY <1>4
  <2>2. run[r] \in RunLocals /\ run[r].at = "step"
    BY <2>1 DEF StepDone, TypeInv
  <2>3. CASE run' = [run EXCEPT ![r].step = @ + 1] /\ UNCHANGED locked
    <3>1. DEFINE l == [run[r] EXCEPT !.step = @ + 1]
    <3>2. l \in RunLocals /\ l.id = run[r].id /\ l.at = "step"
      BY <2>2 DEF RunLocals
    <3>3. run' = [run EXCEPT ![r] = l]
      BY <2>3, Zenon
    <3> QED
      BY <2>2, <2>3, <3>2, <3>3, RunGoesOn
  <2>4. CASE run' = [run EXCEPT ![r].at = "cancel"] /\ UNCHANGED locked
    <3>1. DEFINE l == [run[r] EXCEPT !.at = "cancel"]
    <3>2. l \in RunLocals /\ l.id = run[r].id /\ l.at = "cancel"
      BY <2>2 DEF RunLocals
    <3>3. run' = [run EXCEPT ![r] = l]
      BY <2>4, Zenon
    <3> QED
      BY <2>2, <2>4, <3>2, <3>3, RunGoesOn
  <2>5. CASE run' = [run EXCEPT ![r] = NoRun] /\ locked' = locked \ {run[r].id}
    BY <2>2, <2>5, RunEnds
  <2> QED
    BY <2>1, <2>3, <2>4, <2>5 DEF StepDone
<1>5. CASE \E r \in Runs : QuestionCancelled(r)
  BY <1>5, RunEnds DEF QuestionCancelled
<1>6. CASE UNCHANGED running
  BY <1>6 DEF RunInv, running
<1>7. CASE \E i \in Dyn : AddDynamic(i) \/ RemoveDynamic(i) \/ \E on \in BOOLEAN : SetDynamicEnabled(i, on)
  BY <1>6, <1>7, EditTyped
<1>8. CASE Boot \/ Sync \/ EditDone \/ CardsRead \/ CardsSaved \/ PageSaved \/ Raises
  BY <1>6, <1>8 DEF Boot, Sync, EditDone, AnswerOf, CardsRead, CardsSaved, PageSaved, Raises
<1>9. CASE \/ \E t \in Turns, c \in Cards, op \in {"add", "remove"} : ToolCalled(t, op, c)
           \/ \E set \in SUBSET Cards : PageSaves(set)
  BY <1>6, <1>9 DEF ToolCalled, CardTool, PageSaves
<1>10. CASE UNCHANGED vars
  BY <1>6, <1>10 DEF vars, running
<1> QED
  BY <1>1, <1>2, <1>3, <1>4, <1>5, <1>7, <1>8, <1>9, <1>10 DEF Next

-----------------------------------------------------------------------------
(* The cards.                                                              *)

(* A call that no card tool made changes nothing for those that one made.  *)
LEMMA CardAppend ==
  ASSUME TypeInv, CardInv, NEW c \in Calls, c.by \notin Turns, queue' = Append(queue, c),
         UNCHANGED board
  PROVE  CardInv'
<1>1. /\ Len(queue') = Len(queue) + 1 /\ Len(queue) \in Nat
      /\ \A k \in 1..Len(queue) : queue'[k] = queue[k]
      /\ queue'[Len(queue) + 1] = c
  BY Asked DEF TypeInv
<1>2. ASSUME NEW k \in 1..Len(queue'), NEW t \in Turns, Mine(t, k)'
      PROVE  k \in 1..Len(queue) /\ Mine(t, k) /\ queue'[k] = queue[k]
  <2>1. k \in 1..Len(queue) \/ k = Len(queue) + 1
    BY <1>1
  <2>2. k # Len(queue) + 1
    BY <1>1, <1>2 DEF Mine
  <2> QED
    BY <1>1, <1>2, <2>1, <2>2 DEF Mine
<1>3. UNCHANGED <<cards, tool, core, kept, stray>>
  BY DEF board
<1> HIDE DEF Mine
<1>4. \A k \in 1..Len(queue'), t \in Turns :
        Mine(t, k)' => /\ tool'[t].at = queue'[k].op
                       /\ ~stray' /\ queue'[k].op = "save" => queue'[k].cards = With(kept', tool'[t])
  BY <1>2, <1>3 DEF CardInv
<1>5. \A j, k \in 1..Len(queue'), t \in Turns : Mine(t, j)' /\ Mine(t, k)' => j = k
  BY <1>2 DEF CardInv
<1> QED
  BY <1>3, <1>4, <1>5, Zenon DEF CardInv, CardsKept, With

(* The call at the head is answered, and what is left says nothing of the  *)
(* tool that made it.                                                      *)
LEMMA HeadAnswered ==
  ASSUME TypeInv, CardInv, queue # <<>>, queue' = Tail(queue)
  PROVE  /\ Len(queue') + 1 = Len(queue) /\ Len(queue') \in Nat
         /\ \A k \in 1..Len(queue') : k + 1 \in 1..Len(queue) /\ queue'[k] = queue[k + 1]
         /\ \A k \in 1..Len(queue'), t \in Turns : Mine(t, k)' => Head(queue).by # t /\ Mine(t, k + 1)
         /\ \A j, k \in 1..Len(queue'), t \in Turns : Mine(t, j)' /\ Mine(t, k)' => j = k
<1>1. /\ Len(queue') + 1 = Len(queue) /\ Len(queue') \in Nat
      /\ \A k \in 1..Len(queue') : k + 1 \in 1..Len(queue) /\ queue'[k] = queue[k + 1]
      /\ 1 \in 1..Len(queue) /\ queue[1] = Head(queue)
  BY Answered DEF TypeInv
<1>2. ASSUME NEW k \in 1..Len(queue'), NEW t \in Turns, Mine(t, k)'
      PROVE  Head(queue).by # t /\ Mine(t, k + 1)
  <2>1. Mine(t, k + 1) /\ k + 1 \in 1..Len(queue) /\ k + 1 # 1
    BY <1>1, <1>2 DEF Mine
  <2>2. ~Mine(t, 1)
    BY <1>1, <2>1 DEF CardInv
  <2> QED
    BY <1>1, <2>1, <2>2 DEF Mine
<1>3. ASSUME NEW j \in 1..Len(queue'), NEW k \in 1..Len(queue'), NEW t \in Turns, Mine(t, j)', Mine(t, k)'
      PROVE  j = k
  <2>1. j + 1 = k + 1
    BY <1>1, <1>2, <1>3 DEF CardInv
  <2> QED
    BY <2>1
<1> QED
  BY <1>1, <1>2, <1>3

(* A tool that waits for the database holds "core".                        *)
LEMMA HolderAsks ==
  ASSUME TypeInv, CardInv, NEW k \in 1..Len(queue), NEW t \in Turns, Mine(t, k)
  PROVE  tool[t] # NoTool /\ core = t
<1>1. queue[k] \in Calls
  BY DEF TypeInv
<1>2. queue[k].op # "idle"
  BY <1>1 DEF Calls, EditCalls, Deletions, CardCalls, PageCalls
<1> QED
  BY <1>2 DEF CardInv, NoTool

LEMMA CardStep ==
  ASSUME TypeInv, CardInv, [Next]_vars
  PROVE  CardInv'
<1>1. CASE \E t \in Turns, c \in Cards, op \in {"add", "remove"} : ToolCalled(t, op, c)
  <2>1. PICK t \in Turns, c \in Cards, op \in {"add", "remove"} : ToolCalled(t, op, c)
    BY <1>1
  <2> DEFINE l == [at |-> "read", op |-> op, card |-> c]
             call == CardCall("read", t, {})
  <2>2. /\ core = Nobody /\ core' = t /\ tool' = [tool EXCEPT ![t] = l]
        /\ queue' = Append(queue, call) /\ UNCHANGED <<cards, kept, stray>>
    BY <2>1 DEF ToolCalled, CardTool
  <2>3. l.at = "read" /\ l.card \in Cards /\ call.op = "read" /\ call.by = t /\ call \in Calls
    BY CallsMade DEF CardCall, Calls
  <2> HIDE DEF l, call
  <2>4. \A u \in Turns : tool[u] = NoTool /\ tool[u].at = "idle"
    BY <2>2, Nobodies DEF CardInv, NoTool
  <2>5. tool'[t] = l /\ \A u \in Turns \ {t} : tool'[u] = NoTool
    BY <2>2, <2>4 DEF TypeInv
  <2>6. /\ Len(queue') = Len(queue) + 1 /\ Len(queue) \in Nat
        /\ \A k \in 1..Len(queue) : queue'[k] = queue[k]
        /\ queue'[Len(queue) + 1] = call
    BY <2>2, <2>3, Asked DEF TypeInv
  <2>7. \A k \in 1..Len(queue), u \in Turns : ~Mine(u, k)
    BY <2>4, HolderAsks
  <2>8. ASSUME NEW k \in 1..Len(queue'), NEW u \in Turns, Mine(u, k)'
        PROVE  k = Len(queue) + 1 /\ u = t
    <3>1. k \in 1..Len(queue) \/ k = Len(queue) + 1
      BY <2>6
    <3>2. k \notin 1..Len(queue)
      BY <2>6, <2>7, <2>8 DEF Mine
    <3> QED
      BY <2>3, <2>6, <2>8, <3>1, <3>2 DEF Mine
  <2>9. \A k \in 1..Len(queue'), u \in Turns :
          Mine(u, k)' => /\ tool'[u].at = queue'[k].op
                         /\ ~stray' /\ queue'[k].op = "save" => queue'[k].cards = With(kept', tool'[u])
    BY <2>3, <2>5, <2>6, <2>8
  <2>10. \A u \in Turns : /\ tool'[u] # NoTool => core' = u
                          /\ tool'[u].at # "idle" => tool'[u].card \in Cards
    BY <2>2, <2>3, <2>5 DEF NoTool
  <2>11. CardsKept'
    BY <2>2 DEF CardInv, CardsKept
  <2> HIDE DEF Mine
  <2> QED
    BY <2>8, <2>9, <2>10, <2>11, Zenon DEF CardInv, With
<1>2. CASE \E set \in SUBSET Cards : PageSaves(set)
  <2>1. PICK set \in SUBSET Cards : PageSaves(set)
    BY <1>2
  <2>2. CardCall("page", Nobody, set) \in Calls /\ CardCall("page", Nobody, set).by \notin Turns
    BY CallsMade, Nobodies DEF Calls, CardCall
  <2> QED
    BY <2>1, <2>2, CardAppend DEF PageSaves
<1>3. CASE \E i \in Dyn : AddDynamic(i) \/ RemoveDynamic(i) \/ \E on \in BOOLEAN : SetDynamicEnabled(i, on)
  <2>1. PICK call \in EditCalls \cup Deletions : queue' = Append(queue, call) /\ UNCHANGED board
    BY <1>3, EditTyped
  <2>2. call \in Calls /\ call.by \notin Turns
    BY Nobodies DEF Calls, EditCalls, Deletions
  <2> QED
    BY <2>1, <2>2, CardAppend
<1>4. CASE CardsRead
  <2> DEFINE t == Head(queue).by
             l == [tool[t] EXCEPT !.at = "save"]
             call == CardCall("save", t, With(cards, tool[t]))
  <2>1. t \in Turns /\ queue # <<>> /\ Head(queue).op = "read"
    BY <1>4, HeadOfQueue DEF CardsRead, CardCalls
  <2>2. /\ tool' = [tool EXCEPT ![t] = l] /\ queue' = Append(Tail(queue), call)
        /\ UNCHANGED <<cards, core, kept, stray>>
    BY <1>4, Zenon DEF CardsRead
  <2>3. tool[t].at = "read" /\ core = t /\ tool[t].card \in Cards
    BY <2>1, HeadIsMine DEF CardInv, NoTool
  <2>4. /\ l.at = "save" /\ l.op = tool[t].op /\ l.card = tool[t].card
        /\ call.op = "save" /\ call.by = t /\ call.cards = With(cards, tool[t]) /\ call \in Calls
    <3>1. tool[t] \in ToolLocals
      BY <2>1 DEF TypeInv
    <3>2. call \in CardCalls
      BY <2>1, <2>3, <3>1, WithTyped, CallsMade DEF TypeInv
    <3> QED
      BY <3>1, <3>2 DEF ToolLocals, CardCall, Calls
  <2>5. With(kept, l) = With(kept, tool[t])
    BY <2>4 DEF With
  <2> HIDE DEF l, call
  <2>6. tool'[t] = l /\ \A u \in Turns \ {t} : tool'[u] = tool[u]
    BY <2>1, <2>2 DEF TypeInv
  <2>7. PICK rest \in Seq(Calls) : rest = Tail(queue)
    BY <2>1, HeadOfQueue
  <2>8. /\ Len(rest) + 1 = Len(queue) /\ Len(rest) \in Nat
        /\ \A k \in 1..Len(rest) : k + 1 \in 1..Len(queue) /\ rest[k] = queue[k + 1]
        /\ 1 \in 1..Len(queue) /\ queue[1].by = t
    BY <2>1, <2>7, Answered DEF TypeInv
  <2>9. /\ Len(queue') = Len(rest) + 1
        /\ \A k \in 1..Len(rest) : queue'[k] = rest[k]
        /\ queue'[Len(rest) + 1] = call
    BY <2>2, <2>4, <2>7, Asked
  <2>10. \A k \in 1..Len(rest) : rest[k].by \notin Turns
    <3> SUFFICES ASSUME NEW k \in 1..Len(rest), rest[k].by \in Turns PROVE FALSE
      OBVIOUS
    <3>1. k + 1 \in 1..Len(queue) /\ Mine(rest[k].by, k + 1) /\ k + 1 # 1
      BY <2>8 DEF Mine
    <3>2. rest[k].by = t
      BY <2>3, <3>1, HolderAsks
    <3>3. Mine(t, 1) /\ Mine(t, k + 1)
      BY <2>8, <3>1, <3>2 DEF Mine
    <3> QED
      BY <2>1, <2>8, <3>1, <3>3 DEF CardInv
  <2>11. ASSUME NEW k \in 1..Len(queue'), NEW u \in Turns, Mine(u, k)'
         PROVE  k = Len(queue') /\ u = t /\ queue'[k] = call
    <3>1. k \in 1..Len(rest) \/ k = Len(rest) + 1
      BY <2>8, <2>9
    <3>2. k \notin 1..Len(rest)
      BY <2>9, <2>10, <2>11 DEF Mine
    <3> QED
      BY <2>4, <2>9, <2>11, <3>1, <3>2 DEF Mine
  <2>12. ~stray' => call.cards = With(kept', l)
    BY <2>2, <2>4, <2>5 DEF CardInv, CardsKept
  <2>13. \A k \in 1..Len(queue'), u \in Turns :
           Mine(u, k)' => /\ tool'[u].at = queue'[k].op
                          /\ ~stray' /\ queue'[k].op = "save" => queue'[k].cards = With(kept', tool'[u])
    BY <2>4, <2>6, <2>11, <2>12
  <2>14. \A u \in Turns : /\ tool'[u] # NoTool => core' = u
                          /\ tool'[u].at # "idle" => tool'[u].card \in Cards
    BY <2>1, <2>2, <2>3, <2>4, <2>6 DEF CardInv
  <2>15. CardsKept'
    BY <2>2 DEF CardInv, CardsKept
  <2>16. \A j, k \in 1..Len(queue'), u \in Turns : Mine(u, j)' /\ Mine(u, k)' => j = k
    BY <2>11
  <2> HIDE DEF Mine
  <2> QED
    BY <2>13, <2>14, <2>15, <2>16, Zenon DEF CardInv
<1>5. CASE CardsSaved
  <2> DEFINE t == Head(queue).by
  <2>1. t \in Turns /\ queue # <<>> /\ Head(queue).op = "save"
    BY <1>5, HeadOfQueue DEF CardsSaved, CardCalls
  <2>2. /\ tool' = [tool EXCEPT ![t] = NoTool] /\ queue' = Tail(queue)
        /\ cards' = Head(queue).cards /\ kept' = With(kept, tool[t]) /\ stray' = stray
        /\ core' = IF core = t THEN Nobody ELSE core
    BY <1>5 DEF CardsSaved
  <2>3. core = t /\ (~stray => Head(queue).cards = With(kept, tool[t]))
    BY <2>1, HeadIsMine DEF CardInv, NoTool
  <2>4. \A u \in Turns : tool'[u] = NoTool
    BY <2>1, <2>2, <2>3 DEF CardInv, TypeInv
  <2>5. \A k \in 1..Len(queue'), u \in Turns : ~Mine(u, k)'
    BY <2>1, <2>2, <2>3, HeadAnswered, HolderAsks
  <2>6. NoTool.at = "idle"
    BY DEF NoTool
  <2>7. CardsKept'
    BY <2>2, <2>3 DEF CardsKept
  <2> HIDE DEF Mine
  <2> QED
    BY <2>4, <2>5, <2>6, <2>7, Zenon DEF CardInv
<1>6. CASE PageSaved
  <2>1. /\ queue # <<>> /\ queue' = Tail(queue) /\ cards' = kept'
        /\ stray' = (stray \/ \E t \in Turns : tool[t].at = "save") /\ UNCHANGED <<tool, core>>
    BY <1>6 DEF PageSaved
  <2>2. ASSUME NEW k \in 1..Len(queue'), NEW u \in Turns, Mine(u, k)'
        PROVE  tool'[u].at = queue'[k].op /\ (queue'[k].op = "save" => stray')
    <3>1. k + 1 \in 1..Len(queue) /\ queue'[k] = queue[k + 1] /\ Mine(u, k + 1)
      BY <2>1, <2>2, HeadAnswered
    <3>2. tool[u].at = queue[k + 1].op
      BY <3>1 DEF CardInv
    <3> QED
      BY <2>1, <3>1, <3>2
  <2>3. \A j, k \in 1..Len(queue'), u \in Turns : Mine(u, j)' /\ Mine(u, k)' => j = k
    BY <2>1, HeadAnswered
  <2>4. \A u \in Turns : /\ tool'[u] # NoTool => core' = u
                         /\ tool'[u].at # "idle" => tool'[u].card \in Cards
    BY <2>1 DEF CardInv
  <2> HIDE DEF Mine
  <2> QED
    BY <2>1, <2>2, <2>3, <2>4, Zenon DEF CardInv, CardsKept, With
<1>7. CASE Raises
  <2> DEFINE t == Head(queue).by
  <2>1. /\ queue # <<>> /\ queue' = Tail(queue) /\ UNCHANGED <<cards, kept, stray>>
        /\ tool' = IF t = Nobody THEN tool ELSE [tool EXCEPT ![t] = NoTool]
        /\ core' = IF core = t THEN Nobody ELSE core
    BY <1>7 DEF Raises
  <2>2. t \in Turns \cup {Nobody}
    BY <2>1, HeadOfQueue DEF Calls, EditCalls, Deletions, CardCalls, PageCalls
  <2>3. \A u \in Turns : IF u = t THEN tool'[u] = NoTool ELSE tool'[u] = tool[u] /\ (core = u => core' = u)
    BY <2>1, <2>2, Nobodies DEF TypeInv
  <2>4. ASSUME NEW k \in 1..Len(queue'), NEW u \in Turns, Mine(u, k)'
        PROVE  /\ u # t /\ k + 1 \in 1..Len(queue) /\ queue'[k] = queue[k + 1] /\ Mine(u, k + 1)
               /\ tool'[u] = tool[u]
    BY <2>1, <2>3, <2>4, HeadAnswered
  <2>5. \A j, k \in 1..Len(queue'), u \in Turns : Mine(u, j)' /\ Mine(u, k)' => j = k
    BY <2>1, HeadAnswered
  <2>6. NoTool.at = "idle"
    BY DEF NoTool
  <2>7. \A u \in Turns : /\ tool'[u] # NoTool => core' = u
                         /\ tool'[u].at # "idle" => tool'[u].card \in Cards
    BY <2>3, <2>6 DEF CardInv
  <2>8. \A k \in 1..Len(queue'), u \in Turns :
          Mine(u, k)' => /\ tool'[u].at = queue'[k].op
                         /\ ~stray' /\ queue'[k].op = "save" => queue'[k].cards = With(kept', tool'[u])
    BY <2>1, <2>4 DEF CardInv
  <2>9. CardsKept'
    BY <2>1 DEF CardInv, CardsKept
  <2> HIDE DEF Mine
  <2> QED
    BY <2>5, <2>7, <2>8, <2>9, Zenon DEF CardInv, With
<1>8. CASE EditDone
  <2>1. queue # <<>> /\ queue' = Tail(queue) /\ UNCHANGED board
    BY <1>8 DEF EditDone, AnswerOf
  <2>2. UNCHANGED <<cards, tool, core, kept, stray>>
    BY <2>1 DEF board
  <2>3. \A k \in 1..Len(queue'), u \in Turns :
          Mine(u, k)' => k + 1 \in 1..Len(queue) /\ queue'[k] = queue[k + 1] /\ Mine(u, k + 1)
    BY <2>1, HeadAnswered
  <2>4. \A j, k \in 1..Len(queue'), u \in Turns : Mine(u, j)' /\ Mine(u, k)' => j = k
    BY <2>1, HeadAnswered
  <2>5. \A k \in 1..Len(queue'), u \in Turns :
          Mine(u, k)' => /\ tool'[u].at = queue'[k].op
                         /\ ~stray' /\ queue'[k].op = "save" => queue'[k].cards = With(kept', tool'[u])
    BY <2>2, <2>3 DEF CardInv
  <2>6. CardsKept'
    BY <2>2 DEF CardInv, CardsKept
  <2>7. \A u \in Turns : /\ tool'[u] # NoTool => core' = u
                         /\ tool'[u].at # "idle" => tool'[u].card \in Cards
    BY <2>2 DEF CardInv
  <2> HIDE DEF Mine
  <2> QED
    BY <2>4, <2>5, <2>6, <2>7, Zenon DEF CardInv, With
<1>9. CASE Crash
  <2>1. NoTool.at = "idle"
    BY DEF NoTool
  <2>2. /\ \A t \in Turns : tool'[t] = NoTool
        /\ 1..Len(queue') = {} /\ CardsKept'
    BY <1>9 DEF Crash, CardInv, CardsKept
  <2> QED
    BY <2>1, <2>2 DEF CardInv
<1>10. CASE UNCHANGED <<queue, board>>
  <2>1. UNCHANGED <<queue, cards, tool, core, kept, stray>>
    BY <1>10 DEF board
  <2>2. CardsKept'
    BY <2>1 DEF CardInv, CardsKept
  <2> QED
    BY <2>1, <2>2, Zenon DEF CardInv, Mine
<1>11. CASE Boot \/ Sync \/ Stop
  BY <1>10, <1>11 DEF Boot, Sync, Stop
<1>12. CASE \/ \E r \in Runs : \/ \E i \in Ids : Fire(r, i) \/ RunNow(r, i)
                               \/ \E result \in {"ok", "fail", "confirm"} : StepDone(r, result)
                               \/ QuestionCancelled(r)
  BY <1>10, <1>12 DEF Fire, FireWhen, RunNow, Enter, StepDone, QuestionCancelled
<1>13. CASE UNCHANGED vars
  BY <1>10, <1>13 DEF vars, board
<1> QED
  BY <1>1, <1>2, <1>3, <1>4, <1>5, <1>6, <1>7, <1>8, <1>9, <1>11, <1>12, <1>13 DEF Next

-----------------------------------------------------------------------------
(* The invariant and what follows from it.                                 *)

LEMMA InitInv == Init => IInv
<1> SUFFICES ASSUME Init PROVE IInv
  OBVIOUS
<1>1. TypeInv
  BY InitTyped
<1>2. MemoryInv
  BY DEF Init, MemoryInv
<1>3. RunInv
  BY Zenon DEF Init, RunInv, NoRun
<1>4. CardInv
  <2>1. NoTool.at = "idle"
    BY DEF NoTool
  <2>2. (\A t \in Turns : tool[t] = NoTool) /\ 1..Len(queue) = {} /\ CardsKept
    BY DEF Init, CardsKept
  <2> QED
    BY <2>1, <2>2 DEF CardInv
<1> QED
  BY <1>1, <1>2, <1>3, <1>4 DEF IInv

LEMMA TypeStep ==
  ASSUME TypeInv, CardInv, [Next]_vars
  PROVE  TypeInv'
<1>1. CASE UNCHANGED vars
  BY <1>1 DEF vars, TypeInv
<1> QED
  BY <1>1, LifeTyped, EditTyped, EditDoneTyped, RunTyped, BoardTyped DEF Next

(* The invariant holds in every state, and all that follows rests on it.   *)
THEOREM Invariance == Spec => []IInv
<1>1. IInv /\ [Next]_vars => IInv'
  BY TypeStep, MemoryStep, RunStep, CardStep DEF IInv
<1> QED
  BY InitInv, <1>1, PTL DEF Spec

(* No table, entry, lock, call or card is ever of the wrong kind.          *)
THEOREM TypeCorrectness == Spec => []TypeInv
<1>1. IInv => TypeInv
  BY DEF IInv
<1> QED
  BY <1>1, Invariance, PTL

(* When no edit is under way, the table, the memory and the jobs agree on  *)
(* every routine made at run time, with or without a row, except for those *)
(* that an edit answered after their removal has put back                  *)
(* (Routines.MemoryAgrees; SchedulerService.add_dynamic, remove_dynamic,   *)
(* set_dynamic_enabled and sync_from_store).                               *)
THEOREM StoredRoutines == Spec => []MemoryAgrees
<1>1. IInv => MemoryAgrees
  BY DEF IInv, MemoryInv, MemoryAgrees, Quiet
<1> QED
  BY <1>1, Invariance, PTL

(* A routine never runs on top of itself, whoever starts it                *)
(* (Routines.OneAtATime; SchedulerService.run_schedule).                   *)
THEOREM RunsOfARoutine == Spec => []OneAtATime
<1>1. ASSUME IInv, NEW i \in Ids PROVE Cardinality({r \in Runs : run[r].id = i}) <= 1
  <2> DEFINE R == {r \in Runs : run[r].id = i}
  <2>1. \A r \in R : run[r].at # "idle"
    BY <1>1, Nobodies DEF IInv, RunInv, NoRun
  <2>2. \A r, q \in R : r = q
    BY <1>1, <2>1 DEF IInv, RunInv
  <2>3. CASE R = {}
    BY <2>3, FS_EmptySet
  <2>4. CASE R # {}
    <3>1. PICK r : R = {r}
      BY <2>2, <2>4
    <3> QED
      BY <3>1, FS_Singleton
  <2> QED
    BY <2>3, <2>4
<1>2. IInv => OneAtATime
  BY <1>1 DEF OneAtATime
<1> QED
  BY <1>2, Invariance, PTL

(* A pinned card stays and a removed one is gone, unless the page saves    *)
(* its own list between a tool's read and its save (Routines.CardsKept;    *)
(* the card tools of CoreModule, under the lock of the module).            *)
THEOREM CardsStay == Spec => []CardsKept
<1>1. IInv => CardsKept
  BY DEF IInv, CardInv
<1> QED
  BY <1>1, Invariance, PTL

=============================================================================
