-------------------------- MODULE McpClientProofs --------------------------
(***************************************************************************)
(* What McpClient promises, for any number of callers and requests.        *)
(***************************************************************************)
EXTENDS McpClient, TLAPS

(* The future of a request is found by its id: what the map says of an id  *)
(* is what the one caller with that id waits for.                          *)
LEMMA OneWaiter ==
  ASSUME IInv, NEW c \in Callers, NEW d \in Callers,
         caller[c].id # 0, caller[d].id = caller[c].id
  PROVE  c = d
  BY DEF IInv, CallerInv

LEMMA InitInvariant == Init => IInv
<1> SUFFICES ASSUME Init PROVE IInv
  OBVIOUS
<1>1. TypeOK
  BY McpClientAssumption DEF Init, TypeOK, Idle, Ids
<1>2. WaitersAreKnown
  <2>1. \A c \in Callers : ~Unresolved(c)
    BY DEF Init, Unresolved, Idle
  <2> QED
    BY <2>1 DEF Init, WaitersAreKnown
<1>3. \A c \in Callers : CallerInv(c)
  <2>1. \A c \in Callers : caller[c].id = 0 /\ caller[c].got = "nothing"
    BY DEF Init, Idle
  <2>2. nextId = 0
    BY DEF Init
  <2>3. \A c \in Callers : caller[c].id <= nextId
    <3>1. 0 <= 0
      OBVIOUS
    <3> QED
      BY <2>1, <2>2, <3>1, Zenon
  <2>4. \A c \in Callers : caller[c].got # "answer"
    BY <2>1
  <2> QED
    BY <2>1, <2>3, <2>4 DEF CallerInv
<1> QED
  BY <1>1, <1>2, <1>3 DEF IInv, Init

(* A request takes the next id, which no caller has.                       *)
LEMMA RequestStep ==
  ASSUME IInv, NEW c \in Callers, Request(c)
  PROVE  IInv'
<1> DEFINE id == nextId + 1
<1> USE DEF Request, RequestWith
<1>1. id \in Ids /\ id \in 0..MaxId /\ id # 0
  BY McpClientAssumption DEF IInv, TypeOK, Ids
<1>2. TypeOK'
  BY <1>1 DEF IInv, TypeOK
<1>3. CASE UNCHANGED <<pending, written, caller>>
  <2>1. WaitersAreKnown' /\ (phase' = "closed" => pending' = {})
    BY <1>3 DEF IInv, WaitersAreKnown, Unresolved
  <2>2. \A d \in Callers : CallerInv(d)'
    BY <1>3 DEF IInv, CallerInv, TypeOK
  <2> QED
    BY <1>2, <2>1, <2>2 DEF IInv
<1>4. CASE /\ pending' = pending \cup {id}
           /\ caller' = [caller EXCEPT ![c].id = id]
  <2>1. /\ caller'[c].id = id /\ caller'[c].got = "nothing"
        /\ \A d \in Callers : d # c => caller'[d] = caller[d]
    BY <1>4 DEF IInv, TypeOK, CallerInv
  <2>2. \A d \in Callers : caller[d].id <= nextId /\ caller[d].id \in Nat /\ nextId \in Nat
    BY DEF IInv, TypeOK, CallerInv
  <2>3. \A d \in Callers : CallerInv(d)'
    <3> SUFFICES ASSUME NEW d \in Callers PROVE CallerInv(d)'
      OBVIOUS
    <3>1. \A x \in Callers : caller'[x].id <= nextId'
      BY <2>1, <2>2
    <3>2. \A x \in Callers : x # c => caller'[x].id # id
      BY <2>1, <2>2
    <3> QED
      BY <1>1, <2>1, <3>1, <3>2 DEF IInv, CallerInv
  <2>4. WaitersAreKnown'
    BY <1>1, <1>4, <2>1 DEF IInv, WaitersAreKnown, Unresolved
  <2> QED
    BY <1>2, <2>3, <2>4 DEF IInv
<1> QED
  BY <1>3, <1>4

(* A caller that leaves, with or without its outcome, takes its own id off *)
(* the map and nobody else's.                                              *)
LEMMA ReturnKeeps ==
  ASSUME IInv, NEW c \in Callers, caller[c].id # 0, Return(c),
         pending' = pending \ {caller[c].id},
         UNCHANGED <<phase, reading, nextId, written>>
  PROVE  IInv'
<1>1. /\ caller'[c] = Idle
      /\ \A d \in Callers : d # c => caller'[d] = caller[d]
  BY DEF Return, IInv, TypeOK
<1>2. TypeOK'
  BY McpClientAssumption DEF IInv, TypeOK, Return, Idle
<1>3. WaitersAreKnown'
  <2>1. \A d \in Callers : d # c => caller[d].id # caller[c].id
    BY OneWaiter
  <2> QED
    BY <1>1, <2>1 DEF IInv, WaitersAreKnown, Unresolved, Idle
<1>4. \A d \in Callers : CallerInv(d)'
  BY <1>1 DEF IInv, CallerInv, Idle, TypeOK
<1> QED
  BY <1>2, <1>3, <1>4 DEF IInv

LEMMA GiveUpStep ==
  ASSUME IInv, NEW c \in Callers, GiveUp(c)
  PROVE  IInv'
  BY ReturnKeeps DEF GiveUp

LEMMA ResumeStep ==
  ASSUME IInv, NEW c \in Callers, Resume(c)
  PROVE  IInv'
<1>1. caller[c].id \notin pending
  <2>1. \A d \in Callers : Unresolved(d) => caller[d].id # caller[c].id
    BY OneWaiter DEF Resume, Unresolved
  <2> QED
    BY <2>1 DEF IInv, WaitersAreKnown
<1>2. pending' = pending \ {caller[c].id}
  BY <1>1 DEF Resume
<1> QED
  BY <1>2, ReturnKeeps DEF Resume

(* An answer resolves the request its id names with what it says of that   *)
(* request: an id that is none names no waiter.                            *)
LEMMA ReadStep ==
  ASSUME IInv, NEW msg \in Messages, Read(msg)
  PROVE  IInv'
<1>1. Key(msg) = {msg.n} /\ msg.says = msg.n /\ msg.n \in Ids
  <2>1. msg.form \in Sloppy /\ Key(msg) = {msg.n}
    BY DEF Read, Key
  <2>2. PICK f \in Sloppy, n \in written : msg = [form |-> f, n |-> n, says |-> n]
    <3>1. \A f \in Unusable : f \notin Sloppy
      BY DEF Sloppy, Unusable
    <3>2. \A f \in Unusable : msg # [form |-> f, n |-> 1, says |-> 0]
      BY <2>1, <3>1
    <3> QED
      BY <3>2 DEF Messages
  <2> QED
    BY <2>1, <2>2 DEF IInv, TypeOK
<1>2. msg.n # 0 /\ msg.n \in 0..MaxId
  BY <1>1, McpClientAssumption DEF Ids
<1>3. PICK c \in Callers : Unresolved(c) /\ caller[c].id = msg.n
  BY <1>1 DEF Read, IInv, WaitersAreKnown
<1>4. /\ caller'[c] = [caller[c] EXCEPT !.got = "answer", !.says = msg.n]
      /\ \A d \in Callers : d # c => caller'[d] = caller[d]
  BY <1>1, <1>3, OneWaiter DEF Read, Unresolved
<1>5. TypeOK'
  BY <1>1, <1>2 DEF Read, IInv, TypeOK
<1>6. /\ caller'[c].id = msg.n /\ caller'[c].got = "answer" /\ caller'[c].says = msg.n
      /\ caller[c].id = msg.n
  BY <1>3, <1>4 DEF IInv, TypeOK
<1>7. \A d \in Callers : /\ caller'[d].id = caller[d].id
                         /\ Unresolved(d)' <=> Unresolved(d) /\ d # c
  BY <1>4, <1>6 DEF Unresolved
<1>8. pending' = pending \ {msg.n} /\ nextId' = nextId /\ phase' = "open"
  BY <1>1 DEF Read
<1>9. WaitersAreKnown'
  <2>1. \A d \in Callers : d # c => caller[d].id # msg.n
    BY <1>2, <1>6, OneWaiter
  <2>2. pending = {caller[d].id : d \in {x \in Callers : Unresolved(x)}}
    BY DEF IInv, WaitersAreKnown
  <2>3. pending' = {caller[d].id : d \in {x \in Callers : Unresolved(x) /\ x # c}}
    BY <1>3, <1>8, <2>1, <2>2
  <2> QED
    BY <1>7, <2>3 DEF WaitersAreKnown
<1>10. \A d \in Callers : CallerInv(d)'
  <2>1. \A d \in Callers : caller'[d].got = "answer" => caller'[d].says = caller'[d].id
    BY <1>4, <1>6 DEF IInv, CallerInv
  <2>2. \A d \in Callers : caller'[d].id = 0 => caller'[d].got = "nothing"
    BY <1>2, <1>4, <1>6 DEF IInv, CallerInv
  <2> QED
    BY <1>7, <1>8, <2>1, <2>2 DEF IInv, CallerInv
<1> QED
  BY <1>5, <1>8, <1>9, <1>10 DEF IInv

(* Everyone on the map is told that there will be no answer.               *)
LEMMA FailAllKeeps ==
  ASSUME IInv, FailAll, UNCHANGED <<nextId, written>>,
         phase' \in {"open", "closing", "closed"}, reading' \in BOOLEAN
  PROVE  IInv'
<1>1. \A c \in Callers : /\ caller'[c].id = caller[c].id
                         /\ caller'[c].says = caller[c].says
                         /\ caller'[c].got = IF Unresolved(c) THEN "error" ELSE caller[c].got
  BY DEF FailAll, IInv, TypeOK, WaitersAreKnown
<1>2. TypeOK'
  BY DEF IInv, TypeOK, FailAll
<1>3. WaitersAreKnown'
  BY <1>1 DEF WaitersAreKnown, Unresolved, FailAll
<1>4. \A c \in Callers : CallerInv(c)'
  BY <1>1 DEF IInv, CallerInv, Unresolved
<1> QED
  BY <1>2, <1>3, <1>4 DEF IInv, FailAll

LEMMA CloseStep ==
  ASSUME IInv, Close
  PROVE  IInv'
  BY DEF IInv, Close, TypeOK, WaitersAreKnown, Unresolved, CallerInv

LEMMA StutterStep ==
  ASSUME IInv, UNCHANGED vars
  PROVE  IInv'
  BY DEF IInv, vars, TypeOK, WaitersAreKnown, Unresolved, CallerInv

LEMMA NextInvariant == IInv /\ [Next]_vars => IInv'
<1> SUFFICES ASSUME IInv, [Next]_vars PROVE IInv'
  OBVIOUS
<1>1. ASSUME NEW c \in Callers, Request(c) \/ GiveUp(c) \/ Resume(c)
      PROVE  IInv'
  BY <1>1, RequestStep, GiveUpStep, ResumeStep
<1>2. ASSUME NEW msg \in Messages, Read(msg)
      PROVE  IInv'
  BY <1>2, ReadStep
<1>3. CASE ReaderEnds
  BY <1>3, FailAllKeeps DEF ReaderEnds, IInv, TypeOK
<1>4. CASE Close
  BY <1>4, CloseStep
<1>5. CASE Closed
  BY <1>5, FailAllKeeps DEF Closed, IInv, TypeOK
<1>6. CASE UNCHANGED vars
  BY <1>6, StutterStep
<1> QED
  BY <1>1, <1>2, <1>3, <1>4, <1>5, <1>6 DEF Next

(* IInv holds in every reachable state.                                    *)
THEOREM Invariance == Spec => []IInv
<1> QED
  BY InitInvariant, NextInvariant, PTL DEF Spec

(* Every variable of the client keeps its type.                            *)
THEOREM TypeCorrectness == Spec => []TypeOK
<1>1. IInv => TypeOK
  BY DEF IInv
<1> QED
  BY <1>1, Invariance, PTL

(* No caller is ever handed the answer to another request.                 *)
THEOREM NoCrossTalk == Spec => []OwnAnswerOnly
<1>1. IInv => OwnAnswerOnly
  BY DEF IInv, CallerInv, OwnAnswerOnly
<1> QED
  BY <1>1, Invariance, PTL

(* No waiter leaks and none is forgotten.                                  *)
THEOREM NoLeak == Spec => []WaitersAreKnown
<1>1. IInv => WaitersAreKnown
  BY DEF IInv
<1> QED
  BY <1>1, Invariance, PTL

(* Nobody waits on a closed client.                                        *)
THEOREM QuietAfterClose == Spec => []ClosedIsQuiet
<1>1. IInv => ClosedIsQuiet
  BY DEF IInv, WaitersAreKnown, ClosedIsQuiet
<1> QED
  BY <1>1, Invariance, PTL

=============================================================================
