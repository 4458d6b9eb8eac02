-------------------------- MODULE ConversationProofs --------------------------
(***************************************************************************)
(* What Conversation promises, for any number of turns, sessions and       *)
(* requests and any limits: the histories that are sent to the model are   *)
(* well formed, whatever overlaps, and the overrun of the daily budget is  *)
(* bounded.                                                                *)
(***************************************************************************)
EXTENDS Conversation, FiniteSetTheorems, SequenceTheorems, TLAPS

Places == {"idle", "check", "open", "model", "tool", "close"}
Roles == {"system", "note", "user", "assistant", "tool"}
Locals == [at : Places, on : 0..MaxRequests, calls : Nat, tokens : Nat, owed : Nat,
           noted : BOOLEAN]

(* Only an assistant asks for tool calls, and only a note is of a turn.    *)
Messages ==
  {m \in [role : Roles, asks : Nat, of : SUBSET Turns] :
     /\ m.asks > 0 => m.role = "assistant"
     /\ m.role # "note" => m.of = {}
     /\ m.role = "note" => \E t \in Turns : m = Note(t)}

TypeInv ==
  /\ table \in Seq(Objects)
  /\ name \in [Objects -> Ids \cup {NoId}]
  /\ msgs \in [Objects -> Seq(Messages)]
  /\ turn \in [Turns -> Locals]
  /\ spent \in Nat
  /\ requests \in 0..MaxRequests
  /\ overlapped \subseteq Objects

(* What a turn that has come to l knows, h being the history it is on.     *)
Fits(l, h) ==
  /\ l.at = "idle" => l = Idle
  /\ l.at # "idle" => l.on \in 1..requests
  /\ l.at \in {"check", "open"} => ~l.noted /\ l.tokens = 0
  /\ l.at = "tool" <=> l.owed > 0
  /\ l.at = "model" => l.tokens <= TurnLimit
  /\ l.at = "tool" => l.tokens <= TurnMost
  /\ l.at \in {"open", "model", "tool", "close"} => h # <<>>

PlaceInv == \A t \in Turns : Fits(turn[t], msgs[turn[t].on])

TableInv == \A i \in DOMAIN table : table[i] <= requests

-----------------------------------------------------------------------------
(* A history begins with the instructions, has no other system message     *)
(* than notes, and one note of a turn.                                     *)
Instructed(h) ==
  /\ h # <<>> => h[1].role = "system"
  /\ \A i \in 2..Len(h) : h[i].role # "system"
Once(h) == \A i, j \in DOMAIN h : h[i].of \cap h[j].of # {} => i = j

(* The notes in a history are those of turns under way.                    *)
NotedBy(o) == \A i \in DOMAIN msgs[o] : \A u \in msgs[o][i].of : turn[u].on = o /\ turn[u].noted

HistoryInv == \A o \in Objects : Instructed(msgs[o]) /\ Once(msgs[o]) /\ NotedBy(o)

(* Paired, but for n answers to the last tool calls.                       *)
Owes(h, n) ==
  /\ \A i \in DOMAIN h : h[i].role = "tool" => \E j \in 1..(i - 1) :
       /\ h[j].asks >= i - j
       /\ \A k \in (j + 1)..i : h[k].role = "tool"
  /\ \A i \in DOMAIN h :
       /\ i + h[i].asks <= Len(h) + n
       /\ \A k \in (i + 1)..(i + h[i].asks) : k \in DOMAIN h => h[k].role = "tool"
  /\ n > 0 => \E j \in DOMAIN h : j + h[j].asks = Len(h) + n

Spoken(h) == \E i \in DOMAIN h : h[i].role = "user"

(* What a turn at l finds in the history h of a session that is its own.   *)
Suits(l, h) ==
  /\ Owes(h, l.owed)
  /\ l.at \in {"model", "tool"} => Spoken(h)
  /\ l.at = "model" => Last(h).role \in {"user", "tool"}

(* What holds of a session that two turns have never used at once.         *)
Alone(o) ==
  /\ \A t, u \in Turns : turn[t].on = o /\ turn[u].on = o => t = u
  /\ Begins(msgs[o])
  /\ (\A t \in Turns : turn[t].on # o) => Owes(msgs[o], 0)
  /\ \A t \in Turns : turn[t].on = o => Suits(turn[t], msgs[o])

AloneInv == \A o \in Objects \ overlapped : Alone(o)

-----------------------------------------------------------------------------
(* What a turn may still spend, token by token.                            *)
Remaining(t) == IF turn[t].at \in {"open", "model", "tool"} THEN TurnMost - turn[t].tokens ELSE 0
Credits == {c \in Turns \X (1..TurnMost) : c[2] <= Remaining(c[1])}

BudgetInv == spent + Cardinality(Credits) <= DayLimit - 1 + Cardinality(Turns) * TurnMost

IInv == TypeInv /\ PlaceInv /\ TableInv /\ HistoryInv /\ AloneInv /\ BudgetInv

-----------------------------------------------------------------------------
(* Every nonempty set of naturals has a least element.                     *)
LEMMA Least ==
  ASSUME NEW P, P \subseteq Nat, NEW k \in P
  PROVE  \E x \in P : \A y \in P : x <= y
<1> DEFINE below(n) == 0..(n - 1)
           T == {below(x) : x \in P}
<1>1. IsWellFoundedOn(StrictSubsetOrdering(Nat), FiniteSubsetsOf(Nat))
  BY FS_StrictSubsetOrderingWellFounded
<1>2. T \subseteq FiniteSubsetsOf(Nat) /\ T # {}
  <2>1. \A x \in P : IsFiniteSet(below(x)) BY FS_Interval
  <2> QED BY <2>1 DEF FiniteSubsetsOf
<1>3. \E b \in T : \A c \in T : ~ (<<c, b>> \in StrictSubsetOrdering(Nat))
  BY <1>1, <1>2, WFMin
<1>4. PICK x \in P : \A y \in P : <<below(y), below(x)>> \notin StrictSubsetOrdering(Nat)
  BY <1>3
<1>5. ASSUME NEW y \in P, y < x PROVE FALSE
  <2>1. below(y) \subseteq below(x) /\ y \in below(x) /\ y \notin below(y) BY <1>5
  <2>2. below(y) \in SUBSET Nat /\ below(x) \in SUBSET Nat OBVIOUS
  <2>3. <<below(y), below(x)>> \in StrictSubsetOrdering(Nat)
    BY <2>1, <2>2 DEF StrictSubsetOrdering
  <2> QED BY <2>3, <1>4
<1> QED BY <1>5

(* Induction, for a set of naturals.                                       *)
LEMMA UpTo ==
  ASSUME NEW n \in Nat, NEW S, 0 \in S, \A i \in 0..(n - 1) : i \in S => i + 1 \in S
  PROVE  0..n \subseteq S
<1> SUFFICES ASSUME NEW k \in 0..n, k \notin S PROVE FALSE OBVIOUS
<1> DEFINE Q == {i \in 0..n : i \notin S}
<1>0. Q \subseteq Nat /\ k \in Q OBVIOUS
<1> HIDE DEF Q
<1>1. PICK x \in Q : \A y \in Q : x <= y BY <1>0, Least
<1> USE DEF Q
<1>2. x - 1 \in 0..(n - 1) BY <1>1
<1>3. x - 1 \in S BY <1>1, <1>2
<1> QED BY <1>1, <1>2, <1>3

-----------------------------------------------------------------------------
(* The messages that are appended.                                         *)
LEMMA MsgIs ==
  ASSUME NEW r \in {"system", "user", "assistant", "tool"}
  PROVE  /\ Msg(r) \in Messages
         /\ Msg(r).role = r /\ Msg(r).asks = 0 /\ Msg(r).of = {}
BY DEF Msg, Messages, Roles

LEMMA AsksIs ==
  ASSUME NEW n \in Nat
  PROVE  /\ Asks(n) \in Messages
         /\ Asks(n).role = "assistant" /\ Asks(n).asks = n /\ Asks(n).of = {}
BY DEF Asks, Msg, Messages, Roles

LEMMA NoteIs ==
  ASSUME NEW t \in Turns
  PROVE  /\ Note(t) \in Messages
         /\ Note(t).role = "note" /\ Note(t).asks = 0 /\ Note(t).of = {t}
<1>1. Note(t) = [role |-> "note", asks |-> 0, of |-> {t}] BY DEF Note, Msg
<1>2. Note(t) \in [role : Roles, asks : Nat, of : SUBSET Turns] BY <1>1 DEF Roles
<1>3. Note(t).role = "note" /\ Note(t).asks = 0 /\ Note(t).of = {t} BY <1>1
<1>4. Note(t) \in Messages BY <1>2, <1>3 DEF Messages
<1> QED BY <1>3, <1>4

LEMMA ResultsAre ==
  ASSUME NEW n \in Nat
  PROVE  /\ Results(n) \in Seq(Messages) /\ Len(Results(n)) = n
         /\ \A i \in 1..n : Results(n)[i] = Msg("tool")
BY MsgIs DEF Results

(* A message of the assistant, of a user or of a tool is of no turn.       *)
LEMMA MessageIs ==
  ASSUME NEW m \in Messages
  PROVE  /\ m.role \in Roles /\ m.asks \in Nat /\ m.of \subseteq Turns
         /\ m.asks > 0 => m.role = "assistant"
         /\ m.role # "note" => m.of = {}
         /\ m.role = "note" => \E t \in Turns : m = Note(t) /\ m.of = {t}
         /\ \A t \in m.of : m = Note(t) /\ m.role = "note"
<1>1. m.role = "note" => \E t \in Turns : m = Note(t) /\ m.of = {t} BY NoteIs DEF Messages
<1>2. \A t \in m.of : m = Note(t) /\ m.role = "note" BY <1>1 DEF Messages
<1> QED BY <1>1, <1>2 DEF Messages

-----------------------------------------------------------------------------
(* A history without what is between its places a and b, which is all that *)
(* a trim and the removal of a note do to one.                             *)
Cut(h, a, b) == SubSeq(h, 1, a) \o SubSeq(h, b, Len(h))

LEMMA CutOf ==
  ASSUME NEW S, NEW h \in Seq(S), NEW a \in 0..Len(h), NEW b \in (a + 1)..(Len(h) + 1)
  PROVE  /\ Cut(h, a, b) \in Seq(S)
         /\ Len(Cut(h, a, b)) = Len(h) - (b - a - 1)
         /\ DOMAIN Cut(h, a, b) = 1..(Len(h) - (b - a - 1))
         /\ \A i \in 1..a : Cut(h, a, b)[i] = h[i]
         /\ \A i \in (a + 1)..(Len(h) - (b - a - 1)) : Cut(h, a, b)[i] = h[i + (b - a - 1)]
<1> DEFINE s == SubSeq(h, 1, a)  e == SubSeq(h, b, Len(h))
<1>0. Len(h) \in Nat /\ \A i \in 1..Len(h) : h[i] \in S BY LenProperties, ElementOfSeq
<1>1. s \in Seq(S) /\ Len(s) = a /\ \A i \in 1..a : s[i] = h[i]
  <2>1. \A i \in 1..a : h[i] \in S BY <1>0
  <2> QED BY <2>1, <1>0, SubSeqProperties, Z3
<1>2. e \in Seq(S) /\ Len(e) = Len(h) - b + 1 /\ \A i \in 1..(Len(h) - b + 1) : e[i] = h[b + i - 1]
  <2>1. \A i \in b..Len(h) : h[i] \in S BY <1>0
  <2> QED BY <2>1, <1>0, SubSeqProperties, Z3
<1>3. /\ s \o e \in Seq(S) /\ Len(s \o e) = Len(s) + Len(e)
      /\ \A i \in 1..(Len(s) + Len(e)) : (s \o e)[i] = IF i <= Len(s) THEN s[i] ELSE e[i - Len(s)]
  BY <1>1, <1>2, ConcatProperties
<1>4. DOMAIN (s \o e) = 1..Len(s \o e) BY <1>3, LenProperties
<1> HIDE DEF s, e
<1>5. \A i \in 1..a : (s \o e)[i] = h[i] BY <1>0, <1>1, <1>2, <1>3
<1>6. ASSUME NEW i \in (a + 1)..(Len(h) - (b - a - 1)) PROVE (s \o e)[i] = h[i + (b - a - 1)]
  <2>1. i \in 1..(Len(s) + Len(e)) /\ i > Len(s) /\ i - Len(s) \in 1..(Len(h) - b + 1)
    BY <1>0, <1>1, <1>2
  <2> QED BY <2>1, <1>0, <1>1, <1>2, <1>3
<1>7. Len(s \o e) = Len(h) - (b - a - 1) BY <1>0, <1>1, <1>2, <1>3
<1>8. Cut(h, a, b) = s \o e BY DEF Cut, s, e
<1> QED BY <1>3, <1>4, <1>5, <1>6, <1>7, <1>8

(* The same of a history.                                                  *)
LEMMA CutIs ==
  ASSUME NEW h \in Seq(Messages), NEW a \in 0..Len(h), NEW b \in (a + 1)..(Len(h) + 1)
  PROVE  /\ Cut(h, a, b) \in Seq(Messages)
         /\ Len(Cut(h, a, b)) = Len(h) - (b - a - 1)
         /\ DOMAIN Cut(h, a, b) = 1..(Len(h) - (b - a - 1))
         /\ \A i \in 1..a : Cut(h, a, b)[i] = h[i]
         /\ \A i \in (a + 1)..(Len(h) - (b - a - 1)) : Cut(h, a, b)[i] = h[i + (b - a - 1)]
BY CutOf

(* A place of what is left, and where it was.                              *)
LEMMA CutFrom ==
  ASSUME NEW h \in Seq(Messages), NEW a \in 0..Len(h), NEW b \in (a + 1)..(Len(h) + 1),
         NEW i \in DOMAIN Cut(h, a, b)
  PROVE  \E k \in DOMAIN h :
           /\ Cut(h, a, b)[i] = h[k]
           /\ i <= a => k = i
           /\ i > a => k = i + (b - a - 1) /\ k >= b
<1>1. Len(h) \in Nat /\ DOMAIN h = 1..Len(h) BY LenProperties
<1>2. CASE i <= a
  <2>1. i \in 1..a /\ i \in DOMAIN h BY <1>1, <1>2, CutIs
  <2>2. Cut(h, a, b)[i] = h[i] BY <2>1, <1>1, CutIs
  <2> QED BY <2>1, <2>2
<1>3. CASE i > a
  <2> DEFINE k == i + (b - a - 1)
  <2>1. i \in (a + 1)..(Len(h) - (b - a - 1)) BY <1>1, <1>3, CutIs
  <2>2. k \in DOMAIN h /\ k >= b BY <2>1, <1>1
  <2>3. Cut(h, a, b)[i] = h[k] BY <2>1, <1>1, CutIs
  <2> QED BY <2>1, <2>2, <2>3, <1>1
<1> QED BY <1>1, <1>2, <1>3, CutIs

LEMMA CutKeeps ==
  ASSUME NEW h \in Seq(Messages), NEW a \in 1..Len(h), NEW b \in (a + 1)..(Len(h) + 1),
         Instructed(h), Once(h)
  PROVE  /\ Cut(h, a, b) # <<>> /\ Instructed(Cut(h, a, b)) /\ Once(Cut(h, a, b))
         /\ \A i \in DOMAIN Cut(h, a, b) : \E k \in DOMAIN h : Cut(h, a, b)[i] = h[k]
<1> DEFINE c == Cut(h, a, b)
<1>1. Len(h) \in Nat /\ DOMAIN h = 1..Len(h) BY LenProperties
<1>a. a \in 0..Len(h) BY <1>1
<1>0. /\ c \in Seq(Messages) /\ Len(c) = Len(h) - (b - a - 1)
      /\ DOMAIN c = 1..(Len(h) - (b - a - 1))
      /\ \A i \in 1..a : c[i] = h[i]
  BY <1>a, CutIs
<1>2. /\ c \in Seq(Messages) /\ Len(c) = Len(h) - (b - a - 1) /\ Len(c) >= a
      /\ DOMAIN c = 1..Len(c) /\ c[1] = h[1]
  <2> HIDE DEF c
  <2> QED BY <1>1, <1>0
<1>3. \A i \in DOMAIN c : \E k \in DOMAIN h :
        c[i] = h[k] /\ (i <= a => k = i) /\ (i > a => k = i + (b - a - 1) /\ k >= b)
  BY <1>1, CutFrom
<1> HIDE DEF c
<1>4. c # <<>> BY <1>1, <1>2
<1>5. h # <<>> BY <1>1
<1>6. Instructed(c) BY <1>1, <1>2, <1>3, <1>5 DEF Instructed
<1>7. ASSUME NEW i \in DOMAIN c, NEW j \in DOMAIN c, c[i].of \cap c[j].of # {} PROVE i = j
  <2>1. PICK k \in DOMAIN h :
          c[i] = h[k] /\ (i <= a => k = i) /\ (i > a => k = i + (b - a - 1) /\ k >= b)
    BY <1>3
  <2>2. PICK l \in DOMAIN h :
          c[j] = h[l] /\ (j <= a => l = j) /\ (j > a => l = j + (b - a - 1) /\ l >= b)
    BY <1>3
  <2>3. k = l BY <2>1, <2>2, <1>7 DEF Once
  <2> QED BY <2>1, <2>2, <2>3, <1>1, <1>2
<1> QED BY <1>3, <1>4, <1>6, <1>7 DEF c, Once

(* A place between two others stays between them when all three move.      *)
LEMMA Moved ==
  ASSUME NEW i \in Nat, NEW k \in Nat, NEW n \in Nat, NEW d \in Nat, i + 1 <= k, k <= n
  PROVE  k + d \in (i + d + 1)..(n + d)
OBVIOUS

(* Nothing is cut between a tool call and its answer.                      *)
LEMMA CutOwes ==
  ASSUME NEW h \in Seq(Messages), NEW a \in 1..Len(h), NEW b \in (a + 1)..(Len(h) + 1),
         Owes(h, 0), b <= Len(h) => h[b].role # "tool",
         \A j \in 1..a : j + h[j].asks <= a
  PROVE  Owes(Cut(h, a, b), 0)
<1> DEFINE c == Cut(h, a, b)  d == b - a - 1
<1>1. Len(h) \in Nat /\ DOMAIN h = 1..Len(h) /\ \A i \in DOMAIN h : h[i].asks \in Nat
  BY LenProperties, ElementOfSeq, MessageIs
<1>a. a \in 0..Len(h) BY <1>1
<1>0. /\ Len(c) = Len(h) - d /\ DOMAIN c = 1..(Len(h) - d)
      /\ \A i \in 1..a : c[i] = h[i]
      /\ \A i \in (a + 1)..(Len(h) - d) : c[i] = h[i + d]
  BY <1>a, CutIs
<1>2. /\ Len(c) = Len(h) - d /\ DOMAIN c = 1..Len(c) /\ d \in Nat
      /\ \A i \in 1..a : c[i] = h[i]
      /\ \A i \in (a + 1)..Len(c) : c[i] = h[i + d]
  <2>1. d \in Nat BY <1>1 DEF d
  <2> HIDE DEF c, d
  <2> QED BY <2>1, <1>0
<1> HIDE DEF c, d
<1>3. a \in Nat /\ b = a + d + 1 /\ Len(c) \in Nat /\ a <= Len(c) BY <1>1, <1>2 DEF d
<1>4. ASSUME NEW i \in DOMAIN c, c[i].role = "tool"
      PROVE  \E j \in 1..(i - 1) : c[j].asks >= i - j /\ \A k \in (j + 1)..i : c[k].role = "tool"
  <2>1. CASE i <= a
    <3>1. PICK j \in 1..(i - 1) : h[j].asks >= i - j /\ \A k \in (j + 1)..i : h[k].role = "tool"
      <4>1. i \in DOMAIN h /\ h[i].role = "tool" BY <1>1, <1>2, <1>3, <1>4, <2>1
      <4> QED BY <4>1 DEF Owes
    <3>2. j \in 1..a /\ c[j] = h[j] BY <3>1, <1>2, <1>3, <2>1
    <3>3. \A k \in (j + 1)..i : k \in 1..a /\ c[k] = h[k] BY <3>1, <1>2, <1>3, <2>1
    <3> QED BY <3>1, <3>2, <3>3
  <2>2. CASE i > a
    <3>0. PICK e : e = i + d OBVIOUS
    <3>n. i \in Nat /\ i <= Len(c) BY <1>2, <1>3, <1>4
    <3>d. d \in Nat /\ Len(c) = Len(h) - d BY <1>2
    <3>e. e \in 1..Len(h) /\ e >= b
      <4> HIDE <1>4
      <4> QED BY <3>0, <3>n, <3>d, <1>1, <1>3, <2>2
    <3>1. e \in DOMAIN h /\ h[e].role = "tool"
      <4>1. i \in (a + 1)..Len(c) BY <3>n, <1>3, <2>2
      <4>2. c[i] = h[e] BY <4>1, <3>0, <1>2
      <4> QED BY <4>2, <3>e, <1>1, <1>4
    <3>2. PICK j \in 1..(e - 1) :
            h[j].asks >= e - j /\ \A k \in (j + 1)..e : h[k].role = "tool"
      BY <3>1 DEF Owes
    <3>j. j \in Nat /\ j < e /\ j <= Len(h) /\ j \in 1..Len(h)
      <4>1. e \in Nat /\ j \in 1..(e - 1) /\ Len(h) \in Nat /\ e <= Len(h) BY <3>e, <1>1
      <4> QED BY <4>1
    <3>3. j >= b
      <4>1. b \notin (j + 1)..e
        <5>1. b <= Len(h) BY <3>e, <1>3, <3>d, <1>1
        <5>2. h[b].role # "tool" BY <5>1
        <5> QED BY <5>2, <3>2
      <4>2. b \in Nat BY <1>3, <3>d
      <4>3. e \in Nat BY <3>e, <1>1
      <4> QED BY <4>1, <4>2, <4>3, <3>e, <3>j
    <3>q. PICK q : q = j - d OBVIOUS
    <3>4. q \in Nat /\ q \in (a + 1)..(i - 1) /\ q \in (a + 1)..Len(c) /\ q + d = j
      BY <3>0, <3>n, <3>d, <3>j, <3>3, <3>q, <1>3
    <3>5. c[q].asks >= i - q
      <4>1. c[q] = h[j] BY <3>4, <1>2
      <4>2. i - q = e - j BY <3>0, <3>n, <3>d, <3>j, <3>q
      <4> QED BY <4>1, <4>2, <3>2
    <3>6. ASSUME NEW k \in (q + 1)..i PROVE c[k].role = "tool"
      <4>1. k \in Nat /\ k \in (a + 1)..Len(c) /\ k + d \in (j + 1)..e
        <5>1. k \in Nat /\ q + 1 <= k /\ k <= i BY <3>6, <3>4, <3>n
        <5>2. k \in (a + 1)..Len(c)
          <6>1. a + 1 <= q BY <3>4, <3>n, <1>3
          <6> QED BY <5>1, <6>1, <3>4, <3>n, <1>3
        <5>3. k + d \in (j + 1)..e
          <6>1. k + d \in (q + d + 1)..(i + d) BY <5>1, <3>4, <3>n, <3>d, Moved
          <6> QED BY <6>1, <3>0, <3>4
        <5> QED BY <5>1, <5>2, <5>3
      <4>2. c[k] = h[k + d] BY <4>1, <1>2
      <4> QED BY <4>1, <4>2, <3>2
    <3>7. q \in 1..(i - 1) BY <3>4, <3>n, <1>3
    <3> QED BY <3>7, <3>5, <3>6
  <2>3. i <= a \/ i > a BY <1>2, <1>3
  <2> QED BY <2>1, <2>2, <2>3
<1>5. ASSUME NEW i \in DOMAIN c
      PROVE  /\ i + c[i].asks <= Len(c) + 0
             /\ \A k \in (i + 1)..(i + c[i].asks) : k \in DOMAIN c => c[k].role = "tool"
  <2>1. CASE i <= a
    <3>1. c[i] = h[i] /\ i \in DOMAIN h /\ i + c[i].asks <= a BY <1>1, <1>2, <1>3, <2>1
    <3>2. \A k \in (i + 1)..(i + h[i].asks) : k \in DOMAIN h => h[k].role = "tool"
      BY <3>1 DEF Owes
    <3>3. ASSUME NEW k \in (i + 1)..(i + c[i].asks) PROVE c[k].role = "tool"
      <4>1. k \in 1..a /\ k \in DOMAIN h BY <3>1, <1>1, <1>2, <1>3
      <4> QED BY <4>1, <3>1, <3>2, <1>2
    <3>4. h[i].asks \in Nat BY <3>1, <1>1
    <3> QED BY <3>1, <3>3, <3>4, <1>3
  <2>2. CASE i > a
    <3>1. c[i] = h[i + d] /\ i + d \in DOMAIN h BY <1>1, <1>2, <1>3, <2>2
    <3>2. /\ i + d + h[i + d].asks <= Len(h) + 0
          /\ \A k \in (i + d + 1)..(i + d + h[i + d].asks) : k \in DOMAIN h => h[k].role = "tool"
      BY <3>1 DEF Owes
    <3>3. ASSUME NEW k \in (i + 1)..(i + c[i].asks), k \in DOMAIN c PROVE c[k].role = "tool"
      <4>1. k \in (a + 1)..Len(c) /\ k + d \in DOMAIN h
            /\ k + d \in (i + d + 1)..(i + d + h[i + d].asks)
        <5>1. h[i + d].asks \in Nat BY <3>1, <1>1
        <5>2. i \in Nat /\ k \in Nat BY <3>3, <1>2, <1>3
        <5>3. i + c[i].asks = i + h[i + d].asks BY <3>1
        <5>4. k <= Len(c) /\ Len(c) = Len(h) - d /\ d \in Nat BY <3>3, <1>2
        <5>5. k >= i + 1 /\ k <= i + h[i + d].asks
          <6>1. k \in (i + 1)..(i + c[i].asks) BY <3>3
          <6> QED BY <6>1, <5>1, <5>2, <5>3
        <5>6. k + d \in 1..Len(h)
          <6>1. k >= 1 BY <5>1, <5>2, <5>5
          <6> QED BY <6>1, <5>2, <5>4, <1>1
        <5>7. k \in (a + 1)..Len(c) BY <5>2, <5>4, <5>5, <1>3, <2>2
        <5>8. k + d \in (i + d + 1)..(i + d + h[i + d].asks)
          <6> DEFINE n == h[i + d].asks
          <6>1. n \in Nat /\ i + n \in Nat /\ i + n + d = i + d + n
            <7> HIDE DEF n
            <7>1. n \in Nat BY <5>1 DEF n
            <7> QED BY <7>1, <5>2, <5>4
          <6>2. k + d \in (i + d + 1)..(i + n + d) BY <5>2, <5>4, <5>5, <6>1, Moved
          <6> QED BY <6>1, <6>2
        <5> QED BY <5>6, <5>7, <5>8, <1>1
      <4> QED BY <4>1, <3>2, <1>2
    <3>4. i + c[i].asks <= Len(c) + 0
      <4>1. i \in Nat /\ Len(c) = Len(h) - d /\ d \in Nat BY <1>2, <1>3
      <4>2. h[i + d].asks \in Nat BY <3>1, <1>1
      <4>3. i + d + h[i + d].asks <= Len(h) + 0 BY <3>2
      <4>4. c[i].asks = h[i + d].asks BY <3>1
      <4> QED BY <4>1, <4>2, <4>3, <4>4, <1>1
    <3> QED BY <3>3, <3>4
  <2> QED BY <2>1, <2>2, <1>2, <1>3
<1> QED BY <1>4, <1>5 DEF Owes, c

(* What is not an answer may be cut out of a history that owes none.       *)
LEMMA NotInside ==
  ASSUME NEW h \in Seq(Messages), Owes(h, 0), NEW p \in DOMAIN h, h[p].asks = 0,
         h[p].role # "tool"
  PROVE  /\ p + 1 <= Len(h) => h[p + 1].role # "tool"
         /\ \A j \in 1..(p - 1) : j + h[j].asks <= p - 1
<1>1. Len(h) \in Nat /\ DOMAIN h = 1..Len(h) /\ \A i \in DOMAIN h : h[i].asks \in Nat
  BY LenProperties, ElementOfSeq, MessageIs
<1>2. ASSUME p + 1 <= Len(h), h[p + 1].role = "tool" PROVE FALSE
  <2>0. PICK e : e = p + 1 OBVIOUS
  <2>1. e \in DOMAIN h /\ h[e].role = "tool" BY <2>0, <1>1, <1>2
  <2>2. PICK j \in 1..(e - 1) : h[j].asks >= e - j /\ \A k \in (j + 1)..e : h[k].role = "tool"
    BY <2>1 DEF Owes
  <2>3. p \notin (j + 1)..e BY <2>2
  <2>4. j = p BY <2>3, <2>2, <2>0, <1>1
  <2>5. h[p].asks >= e - p BY <2>2, <2>4
  <2> QED BY <2>5, <2>0, <1>1
<1>3. ASSUME NEW j \in 1..(p - 1), j + h[j].asks > p - 1 PROVE FALSE
  <2>1. j \in DOMAIN h /\ h[j].asks \in Nat BY <1>1
  <2>2. \A k \in (j + 1)..(j + h[j].asks) : k \in DOMAIN h => h[k].role = "tool"
    BY <2>1 DEF Owes
  <2>3. p \in (j + 1)..(j + h[j].asks) BY <2>1, <1>1, <1>3
  <2> QED BY <2>2, <2>3
<1>4. \A j \in 1..(p - 1) : j + h[j].asks <= p - 1 BY <1>1, <1>3
<1> QED BY <1>2, <1>4

(* trim() keeps a history, or its first message and the latest from one    *)
(* on that does not belong to the middle of a turn.                        *)
LEMMA TrimCuts ==
  ASSUME NEW h \in Seq(Messages), Instructed(h), h # <<>>, Trimmed(h) # h
  PROVE  \E b \in 2..(Len(h) + 1) :
           /\ Trimmed(h) = Cut(h, 1, b)
           /\ b <= Len(h) => h[b].role \notin MidTurn
<1> DEFINE head == IF Head(h).role = "system" THEN 1 ELSE 0
           body == SubSeq(h, head + 1, Len(h))
           keep == IF MaxMessages - head > 1 THEN MaxMessages - head ELSE 1
           from == IF Len(body) > keep THEN Len(body) - keep ELSE 0
           stops == {i \in (from + 1)..Len(body) : body[i].role \notin MidTurn}
           start == IF stops = {} THEN Len(body) + 1
                    ELSE CHOOSE i \in stops : \A j \in stops : i <= j
<1>1. /\ Len(h) \in Nat /\ Len(h) >= 1 /\ MaxMessages \in Nat
      /\ \A i \in 1..Len(h) : h[i] \in Messages
  BY EmptySeq, LenProperties, ElementOfSeq, ConversationAssumption
<1>2. Head(h).role = "system" BY <1>1 DEF Instructed
<1>4. Trimmed(h) = SubSeq(h, 1, head) \o SubSeq(body, start, Len(body))
  <2>1. Trimmed(h) = Kept(h, MidTurn) BY DEF Trimmed
  <2> QED BY <2>1 DEF Kept
<1>4a. head = 1 BY <1>2
<1> HIDE DEF head
<1>3. /\ body \in Seq(Messages) /\ Len(body) = Len(h) - 1
      /\ \A i \in 1..(Len(h) - 1) : body[i] = h[i + 1]
  <2>0. body = SubSeq(h, 2, Len(h)) BY <1>4a
  <2> HIDE DEF body
  <2>1. \A i \in 2..Len(h) : h[i] \in Messages BY <1>1
  <2>2. /\ SubSeq(h, 2, Len(h)) \in Seq(Messages)
        /\ Len(SubSeq(h, 2, Len(h))) = IF 2 <= Len(h) THEN Len(h) - 2 + 1 ELSE 0
        /\ \A i \in 1..(Len(h) - 2 + 1) : SubSeq(h, 2, Len(h))[i] = h[2 + i - 1]
    BY <2>1, <1>1, SubSeqProperties, Z3
  <2>3. \A i \in 1..(Len(h) - 1) : body[i] = h[i + 1] BY <2>0, <2>2, <1>1
  <2>4. body \in Seq(Messages) /\ Len(body) = IF 2 <= Len(h) THEN Len(h) - 2 + 1 ELSE 0
    BY <2>0, <2>2, Zenon
  <2>5. Len(body) = Len(h) - 1
    <3>1. CASE 2 <= Len(h) BY <3>1, <2>4, <1>1
    <3>2. CASE Len(h) = 1 BY <3>2, <2>4
    <3>3. Len(h) \in Nat BY <1>1
    <3>4. Len(h) # 0 BY <1>1
    <3>6. \A n \in Nat : n = 0 \/ n = 1 \/ 2 <= n OBVIOUS
    <3>5. 2 <= Len(h) \/ Len(h) = 1 BY <3>3, <3>4, <3>6, Zenon
    <3> QED BY <3>1, <3>2, <3>5
  <2> QED BY <2>3, <2>4, <2>5
<1> HIDE DEF body
<1>5. keep \in Nat /\ from \in Nat BY <1>1, <1>3, <1>4a
<1> HIDE DEF keep, from
<1>6. stops \subseteq Nat /\ stops \subseteq 1..Len(body) BY <1>1, <1>3, <1>5
<1>7. start \in 1..(Len(body) + 1)
  <2>1. CASE stops = {} BY <2>1, <1>1, <1>3
  <2>2. CASE stops # {}
    <3> HIDE DEF stops
    <3>1. \E i \in stops : \A j \in stops : i <= j BY <2>2, <1>6, Least
    <3>2. start \in stops BY <3>1, <2>2
    <3> HIDE DEF start
    <3> QED BY <3>2, <1>1, <1>3, <1>6
  <2> QED BY <2>1, <2>2
<1>8. start <= Len(body) => body[start].role \notin MidTurn
  <2>1. CASE stops = {} BY <2>1, <1>1, <1>3
  <2>2. CASE stops # {}
    <3>1. stops # {} => start \in stops
      <4> HIDE DEF stops
      <4>1. \E i \in stops : \A j \in stops : i <= j BY <2>2, <1>6, Least
      <4> QED BY <4>1
    <3> QED BY <3>1, <2>2
  <2> QED BY <2>1, <2>2
<1> HIDE DEF stops, start
<1>9. SubSeq(body, start, Len(body)) = SubSeq(h, start + 1, Len(h))
  <2> DEFINE x == SubSeq(body, start, Len(body))  y == SubSeq(h, start + 1, Len(h))
  <2>1. start \in Int /\ Len(body) \in Int /\ Len(h) \in Int BY <1>1, <1>3, <1>7
  <2>2. /\ x \in Seq(Messages) /\ Len(x) = IF start <= Len(body) THEN Len(body) - start + 1 ELSE 0
        /\ \A i \in 1..(Len(body) - start + 1) : x[i] = body[start + i - 1]
    <3>1. \A i \in start..Len(body) : body[i] \in Messages BY <1>1, <1>3, <1>7
    <3> QED BY <3>1, <2>1, SubSeqProperties, Z3
  <2>3. /\ y \in Seq(Messages) /\ Len(y) = IF start + 1 <= Len(h) THEN Len(h) - (start + 1) + 1 ELSE 0
        /\ \A i \in 1..(Len(h) - (start + 1) + 1) : y[i] = h[start + 1 + i - 1]
    <3>1. \A i \in (start + 1)..Len(h) : h[i] \in Messages BY <1>1, <1>3, <1>7
    <3> QED BY <3>1, <2>1, SubSeqProperties, Z3
  <2> HIDE DEF x, y
  <2>4. Len(x) = Len(y) /\ Len(x) = Len(h) - start BY <2>2, <2>3, <1>1, <1>3, <1>7
  <2>5. \A i \in 1..Len(x) : x[i] = y[i] BY <2>1, <2>2, <2>3, <2>4, <1>1, <1>3, <1>7
  <2>6. x = y BY <2>2, <2>3, <2>4, <2>5, SeqEqual
  <2> QED BY <2>6 DEF x, y
<1>10. start + 1 \in 2..(Len(h) + 1) BY <1>1, <1>3, <1>7
<1>11. start + 1 <= Len(h) => h[start + 1].role \notin MidTurn BY <1>1, <1>3, <1>7, <1>8
<1> QED BY <1>4, <1>4a, <1>9, <1>10, <1>11 DEF Cut

LEMMA RemoveFirstCuts ==
  ASSUME NEW S, NEW s \in Seq(S), NEW e, Contains(s, e)
  PROVE  \E p \in 1..Len(s) : s[p] = e /\ RemoveFirst(s, e) = Cut(s, p - 1, p + 1)
<1> DEFINE I == {i \in 1..Len(s) : s[i] = e}
<1>1. I # {} /\ I \subseteq Nat BY LenProperties DEF Contains
<1>2. PICK x \in I : \A y \in I : x <= y BY <1>1, Least
<1>3. Min(I) \in I BY <1>2 DEF Min
<1>4. RemoveFirst(s, e) = RemoveAt(s, Min(I)) BY <1>1 DEF RemoveFirst, SelectInSeq, Contains
<1> QED BY <1>3, <1>4 DEF RemoveAt, Cut

(* What is removed as a note of a turn is one: the history is cut there.   *)
LEMMA UnnotedCuts ==
  ASSUME NEW h \in Seq(Messages), Instructed(h), Once(h), NEW t \in Turns
  PROVE  \/ Unnoted(h, t) = h /\ \A i \in DOMAIN h : t \notin h[i].of
         \/ \E p \in 2..Len(h) :
              /\ h[p] = Note(t) /\ Unnoted(h, t) = Cut(h, p - 1, p + 1)
              /\ \A i \in DOMAIN h : t \in h[i].of => i = p
<1>1. /\ Len(h) \in Nat /\ DOMAIN h = 1..Len(h) /\ \A i \in DOMAIN h : h[i] \in Messages
  BY LenProperties, ElementOfSeq
<1>2. \A i \in DOMAIN h : t \in h[i].of => h[i] = Note(t) BY <1>1, MessageIs
<1>3. Note(t).of = {t} /\ Note(t).role = "note" BY NoteIs
<1>4. CASE ~ Contains(h, Note(t))
  <2>1. Unnoted(h, t) = h BY <1>4 DEF Unnoted, RemoveFirst, Contains
  <2> QED BY <2>1, <1>1, <1>2, <1>4 DEF Contains
<1>5. CASE Contains(h, Note(t))
  <2>1. PICK p \in 1..Len(h) : h[p] = Note(t) /\ RemoveFirst(h, Note(t)) = Cut(h, p - 1, p + 1)
    BY <1>5, RemoveFirstCuts
  <2>5. p \in DOMAIN h /\ h[p] = Note(t) BY <2>1, <1>1
  <2>6. Unnoted(h, t) = Cut(h, p - 1, p + 1) BY <2>1 DEF Unnoted
  <2>7. p # 1 BY <2>5, <1>1, <1>3 DEF Instructed
  <2>8. p \in 2..Len(h) BY <2>5, <2>7, <1>1
  <2>9. \A i \in DOMAIN h : t \in h[i].of => i = p BY <2>5, <1>3 DEF Once
  <2> QED BY <2>5, <2>6, <2>8, <2>9
<1> QED BY <1>4, <1>5

(* What the end of a turn makes of a history: the note is removed, and     *)
(* perhaps the history trimmed.                                            *)
LEMMA Inherits ==
  ASSUME NEW h \in Seq(Messages), Instructed(h), Once(h), NEW t \in Turns
  PROVE  LET c == Unnoted(h, t)
         IN /\ c \in Seq(Messages) /\ Instructed(c) /\ Once(c)
            /\ h # <<>> => c # <<>>
            /\ \A i \in DOMAIN c : t \notin c[i].of /\ \E k \in DOMAIN h : c[i] = h[k]
<1> DEFINE c == Unnoted(h, t)
<1>1. /\ Len(h) \in Nat /\ DOMAIN h = 1..Len(h) BY LenProperties
<1>2. CASE c = h /\ \A i \in DOMAIN h : t \notin h[i].of BY <1>2
<1>3. ASSUME NEW p \in 2..Len(h), h[p] = Note(t), c = Cut(h, p - 1, p + 1),
             \A i \in DOMAIN h : t \in h[i].of => i = p
      PROVE  /\ c \in Seq(Messages) /\ Instructed(c) /\ Once(c) /\ c # <<>>
             /\ \A i \in DOMAIN c : t \notin c[i].of /\ \E k \in DOMAIN h : c[i] = h[k]
  <2>0. PICK a, b : a = p - 1 /\ b = p + 1 OBVIOUS
  <2>1. /\ a \in 1..Len(h) /\ a \in 0..Len(h) /\ b \in (a + 1)..(Len(h) + 1)
        /\ c = Cut(h, a, b) /\ p \in Nat
    BY <1>1, <1>3, <2>0
  <2>2. c \in Seq(Messages) BY <2>1, CutIs
  <2>3. /\ c # <<>> /\ Instructed(c) /\ Once(c)
        /\ \A i \in DOMAIN c : \E k \in DOMAIN h : c[i] = h[k]
    BY <2>1, CutKeeps
  <2>4. ASSUME NEW i \in DOMAIN c PROVE t \notin c[i].of
    <3>1. PICK k \in DOMAIN h : c[i] = h[k] /\ (i <= a => k = i) /\ (i > a => k >= b)
      BY <2>1, CutFrom
    <3>2. i \in Nat BY <2>2, LenProperties
    <3>3. k # p BY <3>1, <3>2, <2>0, <2>1
    <3> QED BY <3>1, <3>3, <1>3
  <2> QED BY <2>2, <2>3, <2>4
<1> HIDE DEF c
<1>4. /\ c \in Seq(Messages) /\ Instructed(c) /\ Once(c)
      /\ h # <<>> => c # <<>>
      /\ \A i \in DOMAIN c : t \notin c[i].of /\ \E k \in DOMAIN h : c[i] = h[k]
  BY <1>2, <1>3, UnnotedCuts DEF c
<1> QED BY <1>4 DEF c

LEMMA InheritsTrimmed ==
  ASSUME NEW h \in Seq(Messages), Instructed(h), Once(h)
  PROVE  LET c == Trimmed(h)
         IN /\ c \in Seq(Messages) /\ Instructed(c) /\ Once(c)
            /\ h # <<>> => c # <<>>
            /\ \A i \in DOMAIN c : \E k \in DOMAIN h : c[i] = h[k]
<1> DEFINE c == Trimmed(h)
<1>1. /\ Len(h) \in Nat /\ DOMAIN h = 1..Len(h) BY LenProperties
<1>2. CASE c = h BY <1>2
<1>3. CASE c # h
  <2>1. h # <<>>
    <3> SUFFICES ASSUME h = <<>> PROVE FALSE OBVIOUS
    <3>1. Len(h) = 0 /\ MaxMessages \in Nat BY ConversationAssumption
    <3> QED BY <3>1, <1>3 DEF Trimmed, Kept
  <2>2. PICK b \in 2..(Len(h) + 1) : c = Cut(h, 1, b) BY <2>1, <1>3, TrimCuts
  <2>3. 1 \in 1..Len(h) /\ 1 \in 0..Len(h) /\ b \in (1 + 1)..(Len(h) + 1)
    BY <2>1, <1>1, EmptySeq
  <2>4. c \in Seq(Messages) BY <2>2, <2>3, CutIs
  <2>5. /\ c # <<>> /\ Instructed(c) /\ Once(c)
        /\ \A i \in DOMAIN c : \E k \in DOMAIN h : c[i] = h[k]
    BY <2>2, <2>3, CutKeeps
  <2> QED BY <2>4, <2>5
<1> QED BY <1>2, <1>3

(* The removal of a note keeps a history of a session that is a turn's     *)
(* own, and so does a trim where no note is left.                          *)
LEMMA UnnotedSuits ==
  ASSUME NEW h \in Seq(Messages), Instructed(h), Once(h), NEW t \in Turns,
         Begins(h), Owes(h, 0)
  PROVE  Begins(Unnoted(h, t)) /\ Owes(Unnoted(h, t), 0)
<1>1. /\ Len(h) \in Nat /\ DOMAIN h = 1..Len(h) BY LenProperties
<1>2. ASSUME NEW p \in 2..Len(h), h[p] = Note(t) PROVE Begins(Cut(h, p - 1, p + 1))
                                                    /\ Owes(Cut(h, p - 1, p + 1), 0)
  <2>0. PICK a, b : a = p - 1 /\ b = p + 1 OBVIOUS
  <2> DEFINE c == Cut(h, a, b)
  <2>1. /\ a \in 1..Len(h) /\ a \in 0..Len(h) /\ b \in (a + 1)..(Len(h) + 1)
        /\ p \in DOMAIN h /\ p \in Nat
    BY <1>1, <2>0
  <2>2. h[p].role = "note" /\ h[p].asks = 0 BY <1>2, NoteIs
  <2>3. Owes(c, 0)
    <3>1. /\ b <= Len(h) => h[b].role # "tool"
          /\ \A j \in 1..a : j + h[j].asks <= a
      BY <2>0, <2>1, <2>2, NotInside
    <3> QED BY <3>1, <2>1, CutOwes
  <2>4. /\ Len(c) = Len(h) - 1
        /\ \A i \in 1..(p - 1) : c[i] = h[i]
        /\ \A i \in p..(Len(h) - 1) : c[i] = h[i + 1]
    <3>1. /\ Len(c) = Len(h) - (b - a - 1)
          /\ \A i \in 1..a : c[i] = h[i]
          /\ \A i \in (a + 1)..(Len(h) - (b - a - 1)) : c[i] = h[i + (b - a - 1)]
      BY <2>1, CutIs
    <3>2. b - a - 1 = 1 /\ a + 1 = p BY <2>0, <2>1
    <3> HIDE DEF c
    <3> QED BY <3>1, <3>2, <2>0
  <2> HIDE DEF c
  <2>5. ASSUME NEW i \in 2..Len(c), \A j \in 2..(i - 1) : c[j].role = "note"
        PROVE  c[i].role \in {"note", "user"}
    <3>1. CASE i < p
      <4>1. c[i] = h[i] /\ i \in 2..Len(h) BY <3>1, <2>4, <1>1
      <4>2. \A j \in 2..(i - 1) : h[j].role = "note"
        <5> TAKE j \in 2..(i - 1)
        <5>1. j \in 1..(p - 1) BY <3>1, <1>1
        <5> QED BY <5>1, <2>4, <2>5
      <4> QED BY <4>1, <4>2 DEF Begins
    <3>2. CASE i >= p
      <4>0. PICK k : k = i + 1 OBVIOUS
      <4>1. c[i] = h[k] /\ k \in 2..Len(h) BY <4>0, <3>2, <2>4, <1>1
      <4>2. \A j \in 2..(k - 1) : h[j].role = "note"
        <5> TAKE j \in 2..(k - 1)
        <5>1. CASE j < p
          <6>1. j \in 1..(p - 1) /\ j \in 2..(i - 1) BY <5>1, <4>0, <3>2, <1>1
          <6> QED BY <6>1, <2>4, <2>5
        <5>2. CASE j = p BY <5>2, <2>2
        <5>3. CASE j > p
          <6>1. j - 1 \in p..(Len(h) - 1) /\ j - 1 \in 2..(i - 1) /\ (j - 1) + 1 = j
            BY <5>3, <4>0, <4>1, <3>2, <1>1
          <6> QED BY <6>1, <2>4, <2>5
        <5> QED BY <5>1, <5>2, <5>3, <4>0, <1>1
      <4> QED BY <4>1, <4>2 DEF Begins
    <3> QED BY <3>1, <3>2, <2>4, <1>1
  <2>6. Begins(c) BY <2>5 DEF Begins
  <2> QED BY <2>0, <2>3, <2>6 DEF c
<1> QED BY <1>2, UnnotedCuts

LEMMA TrimmedSuits ==
  ASSUME NEW h \in Seq(Messages), Instructed(h), Begins(h), Owes(h, 0),
         \A i \in DOMAIN h : h[i].of = {}
  PROVE  Begins(Trimmed(h)) /\ Owes(Trimmed(h), 0)
<1>1. /\ Len(h) \in Nat /\ DOMAIN h = 1..Len(h) /\ \A i \in DOMAIN h : h[i] \in Messages
  BY LenProperties, ElementOfSeq
<1>2. CASE Trimmed(h) = h BY <1>2
<1>3. CASE Trimmed(h) # h
  <2>1. h # <<>>
    <3> SUFFICES ASSUME h = <<>> PROVE FALSE OBVIOUS
    <3>1. Len(h) = 0 /\ MaxMessages \in Nat BY ConversationAssumption
    <3> QED BY <3>1, <1>3 DEF Trimmed, Kept
  <2>2. PICK b \in 2..(Len(h) + 1) :
          Trimmed(h) = Cut(h, 1, b) /\ (b <= Len(h) => h[b].role \notin MidTurn)
    BY <2>1, <1>3, TrimCuts
  <2> DEFINE c == Cut(h, 1, b)
  <2>3. 1 \in 1..Len(h) /\ 1 \in 0..Len(h) /\ b \in (1 + 1)..(Len(h) + 1) /\ 1 \in DOMAIN h
    BY <2>1, <1>1, EmptySeq
  <2>4. h[1].role = "system" /\ h[1].asks = 0
    <3>1. h[1].role = "system" BY <2>1 DEF Instructed
    <3>2. h[1] \in Messages BY <1>1, <2>3
    <3>3. h[1].asks \in Nat /\ (h[1].asks > 0 => h[1].role = "assistant") BY <3>2, MessageIs
    <3> QED BY <3>1, <3>3
  <2>5. Owes(c, 0)
    <3>1. b <= Len(h) => h[b].role # "tool" BY <2>2 DEF MidTurn
    <3>2. \A j \in 1..1 : j + h[j].asks <= 1 BY <2>4
    <3> QED BY <3>1, <3>2, <2>3, CutOwes
  <2>6. b <= Len(h) => h[b].role = "user"
    <3>1. ASSUME b <= Len(h) PROVE h[b].role = "user"
      <4>1. h[b] \in Messages /\ h[b].of = {} /\ h[b].role # "system"
        BY <3>1, <1>1 DEF Instructed
      <4>2. h[b].role # "note" BY <4>1, MessageIs
      <4>3. h[b].role \in Roles /\ h[b].role \notin {"tool", "assistant"}
        BY <4>1, <3>1, <2>2, MessageIs DEF MidTurn
      <4> QED BY <4>1, <4>2, <4>3 DEF Roles
    <3> QED BY <3>1
  <2>7. /\ Len(c) = Len(h) - (b - 1 - 1)
        /\ \A i \in (1 + 1)..(Len(h) - (b - 1 - 1)) : c[i] = h[i + (b - 1 - 1)]
    BY <2>3, CutIs
  <2> HIDE DEF c
  <2>8. Len(c) >= 2 => b <= Len(h) /\ c[2] = h[b]
    <3>1. ASSUME Len(c) >= 2 PROVE b <= Len(h) /\ c[2] = h[b]
      <4>1. b <= Len(h) /\ 2 \in (1 + 1)..(Len(h) - (b - 1 - 1)) /\ 2 + (b - 1 - 1) = b
        BY <3>1, <2>7, <1>1
      <4> QED BY <4>1, <2>7
    <3> QED BY <3>1
  <2>9. ASSUME NEW i \in 2..Len(c), \A j \in 2..(i - 1) : c[j].role = "note"
        PROVE  c[i].role \in {"note", "user"}
    <3>1. Len(c) \in Int /\ Len(c) >= 2 BY <2>7, <2>9, <1>1
    <3>2. c[2].role = "user" BY <3>1, <2>8, <2>6
    <3>3. i = 2
      <4>1. i > 2 => 2 \in 2..(i - 1) OBVIOUS
      <4> QED BY <4>1, <3>2, <2>9
    <3> QED BY <3>2, <3>3
  <2>10. Begins(c) BY <2>9 DEF Begins
  <2> QED BY <2>2, <2>5, <2>10 DEF c
<1> QED BY <1>2, <1>3

-----------------------------------------------------------------------------
(* A history that was appended to.                                         *)
Grown(h, g) == Len(h) <= Len(g) /\ \A i \in 1..Len(h) : g[i] = h[i]

LEMMA AppendIs ==
  ASSUME NEW h \in Seq(Messages), NEW m \in Messages
  PROVE  LET g == Append(h, m)
         IN /\ g \in Seq(Messages) /\ Grown(h, g)
            /\ Len(g) = Len(h) + 1 /\ g[Len(h) + 1] = m /\ Last(g) = m
            /\ g = h \o <<m>>
<1> DEFINE g == Append(h, m)
<1>1. Len(h) \in Nat BY LenProperties
<1>2. /\ g \in Seq(Messages) /\ Len(g) = Len(h) + 1
      /\ \A i \in 1..Len(h) : g[i] = h[i]
      /\ g[Len(h) + 1] = m
  BY AppendProperties
<1>3. g = h \o <<m>> BY AppendIsConcat
<1> HIDE DEF g
<1>4. Last(g) = m BY <1>2 DEF Last
<1>5. Grown(h, g) BY <1>1, <1>2 DEF Grown
<1> QED BY <1>2, <1>3, <1>4, <1>5 DEF g

LEMMA ResultsAppended ==
  ASSUME NEW h \in Seq(Messages), NEW n \in Nat
  PROVE  LET g == h \o Results(n)
         IN /\ g \in Seq(Messages) /\ Grown(h, g) /\ Len(g) = Len(h) + n
            /\ \A i \in (Len(h) + 1)..(Len(h) + n) : g[i] = Msg("tool")
<1> DEFINE e == Results(n)  g == h \o e
<1>1. Len(h) \in Nat BY LenProperties
<1>2. e \in Seq(Messages) /\ Len(e) = n /\ \A i \in 1..n : e[i] = Msg("tool") BY ResultsAre
<1> HIDE DEF e
<1>3. /\ g \in Seq(Messages) /\ Len(g) = Len(h) + Len(e)
      /\ \A i \in 1..(Len(h) + Len(e)) : g[i] = IF i <= Len(h) THEN h[i] ELSE e[i - Len(h)]
  BY <1>2, ConcatProperties
<1> HIDE DEF g
<1>4. Grown(h, g) BY <1>1, <1>2, <1>3 DEF Grown
<1>5. ASSUME NEW i \in (Len(h) + 1)..(Len(h) + n) PROVE g[i] = Msg("tool")
  <2>1. i - Len(h) \in 1..n /\ i \in 1..(Len(h) + Len(e)) /\ ~(i <= Len(h)) BY <1>1, <1>2
  <2> QED BY <2>1, <1>2, <1>3
<1> QED BY <1>2, <1>3, <1>4, <1>5 DEF g, e

(* A result is a batch of one.                                             *)
LEMMA OneResult ==
  ASSUME NEW h \in Seq(Messages)
  PROVE  Append(h, Msg("tool")) = h \o Results(1)
<1>1. Msg("tool") \in Messages BY MsgIs
<1>2. Append(h, Msg("tool")) = h \o <<Msg("tool")>> BY <1>1, AppendIs
<1>3. <<Msg("tool")>> = Results(1)
  <2>1. <<Msg("tool")>> \in Seq(Messages) /\ Len(<<Msg("tool")>>) = 1 BY <1>1
  <2>2. Results(1) \in Seq(Messages) /\ Len(Results(1)) = 1 /\ Results(1)[1] = Msg("tool")
    <3>1. 1 \in Nat /\ 1 \in 1..1 OBVIOUS
    <3> QED BY <3>1, ResultsAre
  <2> QED BY <2>1, <2>2, SeqEqual
<1> QED BY <1>2, <1>3

LEMMA GrownBegins ==
  ASSUME NEW h \in Seq(Messages), NEW g \in Seq(Messages), Grown(h, g),
         Instructed(h), h # <<>>, Begins(h), Spoken(h)
  PROVE  Begins(g) /\ Spoken(g)
<1>1. /\ Len(h) \in Nat /\ DOMAIN h = 1..Len(h) /\ Len(g) \in Nat /\ DOMAIN g = 1..Len(g)
  BY LenProperties
<1>2. Spoken(g) BY <1>1 DEF Spoken, Grown
<1>3. PICK u \in DOMAIN h : h[u].role = "user" BY DEF Spoken
<1>4. u \in 2..Len(h) BY <1>1, <1>3 DEF Instructed
<1>5. ASSUME NEW i \in 2..Len(g), \A j \in 2..(i - 1) : g[j].role = "note"
      PROVE  g[i].role \in {"note", "user"}
  <2>1. u \notin 2..(i - 1) BY <1>1, <1>3, <1>5 DEF Grown
  <2>2. i \in 2..Len(h) BY <2>1, <1>1, <1>4
  <2>3. \A j \in 2..(i - 1) : h[j].role = "note" BY <1>1, <1>5, <2>2 DEF Grown
  <2>4. h[i].role \in {"note", "user"} BY <2>2, <2>3 DEF Begins
  <2> QED BY <2>4, <2>2, <1>1 DEF Grown
<1> QED BY <1>2, <1>5 DEF Begins

(* Notes and the words of a user may begin a history.                      *)
LEMMA OpenedBegins ==
  ASSUME NEW h \in Seq(Messages), NEW g \in Seq(Messages), Grown(h, g), Begins(h),
         \A i \in (Len(h) + 1)..Len(g) : g[i].role \in {"note", "user"}
  PROVE  Begins(g)
<1>1. /\ Len(h) \in Nat /\ Len(g) \in Nat BY LenProperties
<1>2. ASSUME NEW i \in 2..Len(g), \A j \in 2..(i - 1) : g[j].role = "note"
      PROVE  g[i].role \in {"note", "user"}
  <2>1. CASE i <= Len(h)
    <3>1. \A j \in 2..(i - 1) : h[j].role = "note" BY <1>1, <1>2, <2>1 DEF Grown
    <3>2. h[i].role \in {"note", "user"} BY <2>1, <3>1, <1>1 DEF Begins
    <3> QED BY <3>2, <2>1, <1>1 DEF Grown
  <2>2. CASE i > Len(h) BY <2>2, <1>1
  <2> QED BY <2>1, <2>2, <1>1
<1> QED BY <1>2 DEF Begins

LEMMA GrownKeeps ==
  ASSUME NEW h \in Seq(Messages), NEW g \in Seq(Messages), Grown(h, g),
         Instructed(h), h # <<>>, Once(h),
         \A i \in (Len(h) + 1)..Len(g) : g[i].role # "system" /\ g[i].of = {}
  PROVE  /\ Instructed(g) /\ Once(g) /\ g # <<>>
         /\ \A i \in DOMAIN g : \A u \in g[i].of : \E k \in DOMAIN h : u \in h[k].of
<1>1. /\ Len(h) \in Nat /\ DOMAIN h = 1..Len(h) /\ Len(g) \in Nat /\ DOMAIN g = 1..Len(g)
      /\ Len(h) # 0
  BY LenProperties, EmptySeq
<1>2. g # <<>> BY <1>1 DEF Grown
<1>3. Instructed(g) BY <1>1 DEF Instructed, Grown
<1>4. \A i \in DOMAIN g : g[i].of # {} => i \in DOMAIN h /\ g[i] = h[i] BY <1>1 DEF Grown
<1>5. Once(g) BY <1>4 DEF Once
<1> QED BY <1>2, <1>3, <1>4, <1>5

(* What is not an answer may follow a history that owes none, and it owes  *)
(* the answers that it asks for.                                           *)
LEMMA AppendOwes ==
  ASSUME NEW h \in Seq(Messages), NEW m \in Messages, m.role # "tool", Owes(h, 0)
  PROVE  Owes(Append(h, m), m.asks)
<1> DEFINE g == Append(h, m)  n == Len(h) + 1
<1>1. /\ Len(h) \in Nat /\ DOMAIN h = 1..Len(h) /\ \A i \in DOMAIN h : h[i].asks \in Nat
      /\ m.asks \in Nat
  BY LenProperties, ElementOfSeq, MessageIs
<1>2. /\ g \in Seq(Messages) /\ Len(g) = n /\ g[n] = m
      /\ \A i \in 1..Len(h) : g[i] = h[i]
  BY AppendIs DEF Grown
<1>3. DOMAIN g = 1..n BY <1>2, LenProperties
<1> HIDE DEF g
<1>4. ASSUME NEW i \in DOMAIN g, g[i].role = "tool"
      PROVE  \E j \in 1..(i - 1) : g[j].asks >= i - j /\ \A k \in (j + 1)..i : g[k].role = "tool"
  <2>1. i \in DOMAIN h /\ h[i].role = "tool" BY <1>1, <1>2, <1>3, <1>4
  <2>2. PICK j \in 1..(i - 1) : h[j].asks >= i - j /\ \A k \in (j + 1)..i : h[k].role = "tool"
    BY <2>1 DEF Owes
  <2>3. g[j] = h[j] /\ \A k \in (j + 1)..i : g[k] = h[k] BY <2>1, <1>1, <1>2
  <2> QED BY <2>2, <2>3
<1>5. ASSUME NEW i \in DOMAIN g
      PROVE  /\ i + g[i].asks <= Len(g) + m.asks
             /\ \A k \in (i + 1)..(i + g[i].asks) : k \in DOMAIN g => g[k].role = "tool"
  <2>1. CASE i = n BY <2>1, <1>1, <1>2, <1>3
  <2>2. CASE i # n
    <3>1. i \in DOMAIN h /\ g[i] = h[i] BY <2>2, <1>1, <1>2, <1>3
    <3>2. /\ i + h[i].asks <= Len(h) + 0
          /\ \A k \in (i + 1)..(i + h[i].asks) : k \in DOMAIN h => h[k].role = "tool"
      BY <3>1 DEF Owes
    <3>3. ASSUME NEW k \in (i + 1)..(i + g[i].asks) PROVE g[k].role = "tool"
      <4>1. h[i].asks \in Nat /\ i \in Nat BY <3>1, <1>1
      <4>2. k \in (i + 1)..(i + h[i].asks) /\ k \in DOMAIN h BY <4>1, <3>1, <3>2, <1>1
      <4> QED BY <4>2, <3>2, <1>1, <1>2
    <3>4. i + g[i].asks <= Len(g) + m.asks
      <4>1. h[i].asks \in Nat /\ i \in Nat BY <3>1, <1>1
      <4> QED BY <4>1, <3>1, <3>2, <1>1, <1>2
    <3> QED BY <3>3, <3>4
  <2> QED BY <2>1, <2>2
<1>6. n \in DOMAIN g /\ n + g[n].asks = Len(g) + m.asks BY <1>1, <1>2, <1>3
<1> QED BY <1>4, <1>5, <1>6 DEF Owes, g

(* Answers come off what is owed.                                          *)
LEMMA ResultsOwe ==
  ASSUME NEW h \in Seq(Messages), NEW n \in Nat, NEW k \in 0..n, Owes(h, n)
  PROVE  Owes(h \o Results(k), n - k)
<1> DEFINE g == h \o Results(k)
<1>1. /\ Len(h) \in Nat /\ DOMAIN h = 1..Len(h) /\ \A i \in DOMAIN h : h[i].asks \in Nat
  BY LenProperties, ElementOfSeq, MessageIs
<1>2. /\ g \in Seq(Messages) /\ Len(g) = Len(h) + k
      /\ \A i \in (Len(h) + 1)..(Len(h) + k) : g[i].role = "tool" /\ g[i].asks = 0
      /\ \A i \in 1..Len(h) : g[i] = h[i]
  <2>1. k \in Nat OBVIOUS
  <2>2. /\ g \in Seq(Messages) /\ Grown(h, g) /\ Len(g) = Len(h) + k
        /\ \A i \in (Len(h) + 1)..(Len(h) + k) : g[i] = Msg("tool")
    BY <2>1, ResultsAppended
  <2> QED BY <2>2, MsgIs DEF Grown
<1>3. DOMAIN g = 1..(Len(h) + k) /\ k \in Nat BY <1>2, LenProperties
<1> HIDE DEF g
<1>4. ASSUME NEW i \in DOMAIN g, g[i].role = "tool"
      PROVE  \E j \in 1..(i - 1) : g[j].asks >= i - j /\ \A l \in (j + 1)..i : g[l].role = "tool"
  <2>1. CASE i \in DOMAIN h
    <3>1. PICK j \in 1..(i - 1) : h[j].asks >= i - j /\ \A l \in (j + 1)..i : h[l].role = "tool"
      BY <2>1, <1>1, <1>2, <1>4 DEF Owes
    <3>2. g[j] = h[j] /\ \A l \in (j + 1)..i : g[l] = h[l] BY <2>1, <1>1, <1>2
    <3> QED BY <3>1, <3>2
  <2>2. CASE i \notin DOMAIN h
    <3>1. i \in (Len(h) + 1)..(Len(h) + k) /\ n > 0 BY <2>2, <1>1, <1>3
    <3>2. PICK j \in DOMAIN h : j + h[j].asks = Len(h) + n BY <3>1 DEF Owes
    <3>3. \A l \in (j + 1)..(j + h[j].asks) : l \in DOMAIN h => h[l].role = "tool"
      BY <3>2 DEF Owes
    <3>4. j \in 1..(i - 1) /\ g[j] = h[j] /\ h[j].asks \in Nat BY <3>1, <3>2, <1>1, <1>2
    <3>5. g[j].asks >= i - j BY <3>1, <3>2, <3>4, <1>1
    <3>6. ASSUME NEW l \in (j + 1)..i PROVE g[l].role = "tool"
      <4>1. CASE l \in DOMAIN h
        <5>1. l \in (j + 1)..(j + h[j].asks) BY <4>1, <3>1, <3>2, <3>4, <1>1
        <5> QED BY <5>1, <4>1, <3>3, <1>1, <1>2
      <4>2. CASE l \notin DOMAIN h
        <5>1. l \in (Len(h) + 1)..(Len(h) + k) BY <4>2, <3>1, <3>4, <1>1
        <5> QED BY <5>1, <1>2
      <4> QED BY <4>1, <4>2
    <3> QED BY <3>4, <3>5, <3>6
  <2> QED BY <2>1, <2>2
<1>5. ASSUME NEW i \in DOMAIN g
      PROVE  /\ i + g[i].asks <= Len(g) + (n - k)
             /\ \A l \in (i + 1)..(i + g[i].asks) : l \in DOMAIN g => g[l].role = "tool"
  <2>1. CASE i \notin DOMAIN h
    <3>1. i \in (Len(h) + 1)..(Len(h) + k) BY <2>1, <1>1, <1>3
    <3>2. g[i].asks = 0 BY <3>1, <1>2
    <3> QED BY <3>1, <3>2, <1>1, <1>2
  <2>2. CASE i \in DOMAIN h
    <3>1. g[i] = h[i] /\ h[i].asks \in Nat /\ i \in Nat BY <2>2, <1>1, <1>2
    <3>2. /\ i + h[i].asks <= Len(h) + n
          /\ \A l \in (i + 1)..(i + h[i].asks) : l \in DOMAIN h => h[l].role = "tool"
      BY <2>2 DEF Owes
    <3>3. ASSUME NEW l \in (i + 1)..(i + g[i].asks), l \in DOMAIN g PROVE g[l].role = "tool"
      <4>1. CASE l \in DOMAIN h BY <4>1, <3>1, <3>2, <1>1, <1>2
      <4>2. CASE l \notin DOMAIN h
        <5>1. l \in (Len(h) + 1)..(Len(h) + k) BY <4>2, <3>3, <1>1, <1>3
        <5> QED BY <5>1, <1>2
      <4> QED BY <4>1, <4>2
    <3>4. i + g[i].asks <= Len(g) + (n - k) BY <3>1, <3>2, <1>1, <1>2, <1>3
    <3> QED BY <3>3, <3>4
  <2> QED BY <2>1, <2>2
<1>6. n - k > 0 => \E j \in DOMAIN g : j + g[j].asks = Len(g) + (n - k)
  <2>1. ASSUME n - k > 0 PROVE \E j \in DOMAIN g : j + g[j].asks = Len(g) + (n - k)
    <3>1. n > 0 BY <2>1, <1>3
    <3>2. PICK j \in DOMAIN h : j + h[j].asks = Len(h) + n BY <3>1 DEF Owes
    <3>3. j \in DOMAIN g /\ g[j] = h[j] /\ h[j].asks \in Nat BY <3>2, <1>1, <1>2, <1>3
    <3>4. j + g[j].asks = Len(g) + (n - k) BY <3>2, <3>3, <1>1, <1>2, <1>3
    <3> QED BY <3>3, <3>4
  <2> QED BY <2>1
<1> QED BY <1>4, <1>5, <1>6 DEF Owes, g

-----------------------------------------------------------------------------
LEMMA IdleIs == Idle \in Locals /\ Idle.at = "idle" /\ Idle.on = 0 /\ Idle.owed = 0
                /\ Idle.noted = FALSE /\ Idle.tokens = 0
<1>1. MaxRequests \in Nat BY ConversationAssumption
<1>2. 0 \in 0..MaxRequests BY <1>1
<1> QED BY <1>2 DEF Idle, Locals, Places, NoObject

LEMMA OnIs ==
  ASSUME TypeInv, PlaceInv, NEW t \in Turns
  PROVE  /\ turn[t] \in Locals /\ requests \in Nat /\ MaxRequests \in Nat
         /\ turn[t].at = "idle" => turn[t] = Idle /\ turn[t].on = 0
         /\ turn[t].at # "idle" => turn[t].on \in Objects /\ turn[t].on \in 1..requests
                                   /\ msgs[turn[t].on] \in Seq(Messages)
<1>1. turn[t] \in Locals /\ requests \in 0..MaxRequests /\ MaxRequests \in Nat
  BY ConversationAssumption DEF TypeInv
<1>2. /\ turn[t].at = "idle" => turn[t] = Idle
      /\ turn[t].at # "idle" => turn[t].on \in 1..requests
  BY DEF PlaceInv, Fits
<1>3. turn[t].at # "idle" => turn[t].on \in Objects BY <1>1, <1>2 DEF Objects
<1> QED BY <1>1, <1>2, <1>3, IdleIs DEF TypeInv

(* The turn t, on o, may come to l and leave the history g.                *)
Settled(t, o, l, g) ==
  /\ l \in Locals /\ g \in Seq(Messages)
  /\ l = Idle \/ l.on = o
  /\ Fits(l, g) /\ Instructed(g) /\ Once(g)
  /\ \A i \in DOMAIN g : \A u \in g[i].of :
       \/ u = t /\ l.on = o /\ l.noted
       \/ u # t /\ \E k \in DOMAIN msgs[o] : u \in msgs[o][k].of
  /\ msgs[o] # <<>> => g # <<>> \/ \A u \in Turns : turn[u].on = o => u = t
  /\ o \notin overlapped => Begins(g) /\ IF l = Idle THEN Owes(g, 0) ELSE Suits(l, g)

(* A turn under way goes on or ends, and leaves the history g.             *)
LEMMA Moves ==
  ASSUME TypeInv, PlaceInv, HistoryInv, AloneInv,
         NEW t \in Turns, turn[t].at # "idle",
         NEW o \in Objects, o = turn[t].on,
         NEW l, NEW g, Settled(t, o, l, g),
         turn' = [turn EXCEPT ![t] = l], msgs' = [msgs EXCEPT ![o] = g],
         requests' = requests, overlapped' = overlapped
  PROVE  PlaceInv' /\ HistoryInv' /\ AloneInv'
<1>0. /\ l \in Locals /\ g \in Seq(Messages)
      /\ l = Idle \/ l.on = o
      /\ Fits(l, g) /\ Instructed(g) /\ Once(g)
      /\ \A i \in DOMAIN g : \A u \in g[i].of :
           \/ u = t /\ l.on = o /\ l.noted
           \/ u # t /\ \E k \in DOMAIN msgs[o] : u \in msgs[o][k].of
      /\ msgs[o] # <<>> => g # <<>> \/ \A u \in Turns : turn[u].on = o => u = t
      /\ o \notin overlapped => Begins(g) /\ IF l = Idle THEN Owes(g, 0) ELSE Suits(l, g)
  BY DEF Settled
<1> USE <1>0
<1>1. /\ turn \in [Turns -> Locals] /\ msgs \in [Objects -> Seq(Messages)]
      /\ turn'[t] = l /\ \A u \in Turns : u # t => turn'[u] = turn[u]
      /\ msgs'[o] = g /\ \A x \in Objects : x # o => msgs'[x] = msgs[x]
  BY DEF TypeInv
<1>2. /\ Idle.on = 0 /\ Idle.at = "idle" /\ 0 \notin Objects /\ o # 0
  BY IdleIs DEF Objects
<1>3. PlaceInv'
  <2>1. ASSUME NEW u \in Turns PROVE Fits(turn[u], msgs[turn[u].on])'
    <3>1. CASE u = t /\ l = Idle
      BY <3>1, <1>1, <1>2 DEF Fits
    <3>2. CASE u = t /\ l.on = o
      BY <3>2, <1>1 DEF Fits
    <3>3. CASE u # t /\ turn[u].on # o
      <4>1. Fits(turn[u], msgs[turn[u].on]) BY DEF PlaceInv
      <4>2. CASE turn[u].at = "idle" BY <4>1, <4>2, <3>3, <1>1, <1>2 DEF Fits
      <4>3. CASE turn[u].at # "idle"
        <5>1. turn[u].on \in Objects BY <4>3, OnIs
        <5> QED BY <5>1, <4>1, <3>3, <1>1 DEF Fits
      <4> QED BY <4>2, <4>3
    <3>4. CASE u # t /\ turn[u].on = o
      <4>1. Fits(turn[u], msgs[o]) BY <3>4 DEF PlaceInv
      <4>2. msgs[o] # <<>> => g # <<>> BY <3>4
      <4> QED BY <4>1, <4>2, <3>4, <1>1 DEF Fits
    <3> QED BY <3>1, <3>2, <3>3, <3>4
  <2> QED BY <2>1 DEF PlaceInv
<1>4. HistoryInv'
  <2>1. ASSUME NEW x \in Objects
        PROVE  /\ Instructed(msgs'[x]) /\ Once(msgs'[x])
               /\ \A i \in DOMAIN msgs'[x] : \A u \in msgs'[x][i].of :
                    turn'[u].on = x /\ turn'[u].noted
    <3>0. /\ Instructed(msgs[x]) /\ Once(msgs[x])
          /\ \A i \in DOMAIN msgs[x] : \A u \in msgs[x][i].of :
                    turn[u].on = x /\ turn[u].noted
          /\ \A i \in DOMAIN msgs[x] : msgs[x][i].of \subseteq Turns
      <4>1. msgs[x] \in Seq(Messages) BY <1>1
      <4>2. \A i \in DOMAIN msgs[x] : msgs[x][i].of \subseteq Turns
        BY <4>1, LenProperties, ElementOfSeq, MessageIs
      <4> QED BY <4>2 DEF HistoryInv, NotedBy
    <3>1. CASE x # o
      <4>1. msgs'[x] = msgs[x] BY <3>1, <1>1
      <4>2. ASSUME NEW i \in DOMAIN msgs[x], NEW u \in msgs[x][i].of
            PROVE  turn'[u].on = x /\ turn'[u].noted
        <5>1. u \in Turns /\ turn[u].on = x /\ turn[u].noted BY <3>0
        <5>2. u # t BY <5>1, <3>1
        <5>3. turn'[u] = turn[u] BY <5>1, <5>2, <1>1
        <5> QED BY <5>1, <5>3
      <4> QED BY <4>1, <4>2, <3>0
    <3>2. CASE x = o
      <4>1. msgs'[x] = g BY <3>2, <1>1
      <4>2. ASSUME NEW i \in DOMAIN g, NEW u \in g[i].of
            PROVE  turn'[u].on = x /\ turn'[u].noted
        <5>1. CASE u = t /\ l.on = o /\ l.noted BY <5>1, <3>2, <1>1
        <5>2. CASE u # t /\ \E k \in DOMAIN msgs[o] : u \in msgs[o][k].of
          <6>1. u \in Turns /\ turn[u].on = o /\ turn[u].noted BY <5>2, <3>0, <3>2
          <6>2. turn'[u] = turn[u] BY <6>1, <5>2, <1>1
          <6> QED BY <6>1, <6>2, <3>2
        <5> QED BY <5>1, <5>2
      <4> QED BY <4>1, <4>2
    <3> QED BY <3>1, <3>2
  <2> QED BY <2>1 DEF HistoryInv, NotedBy
<1>5. AloneInv'
  <2>1. ASSUME NEW x \in Objects, x \notin overlapped PROVE Alone(x)'
    <3>0. /\ \A u, v \in Turns : turn[u].on = x /\ turn[v].on = x => u = v
          /\ Begins(msgs[x])
          /\ (\A u \in Turns : turn[u].on # x) => Owes(msgs[x], 0)
          /\ \A u \in Turns : turn[u].on = x => Suits(turn[u], msgs[x])
      BY <2>1 DEF AloneInv, Alone
    <3>1. \A u \in Turns : turn'[u].on = x => turn[u].on = x
      BY <1>1, <1>2, <2>1
    <3>2. \A u, v \in Turns : turn'[u].on = x /\ turn'[v].on = x => u = v BY <3>0, <3>1
    <3>3. CASE x # o
      <4>1. msgs'[x] = msgs[x] BY <3>3, <1>1
      <4>2. \A u \in Turns : turn[u].on = x => turn'[u] = turn[u] BY <1>1, <3>3
      <4>3. \A u \in Turns : turn'[u].on = x => Suits(turn'[u], msgs[x])
        BY <4>2, <3>0, <3>1
      <4>4. (\A u \in Turns : turn'[u].on # x) => Owes(msgs[x], 0) BY <4>2, <3>0
      <4> QED BY <4>1, <4>3, <4>4, <3>0, <3>2 DEF Alone
    <3>4. CASE x = o
      <4>1. msgs'[x] = g /\ Begins(g) BY <3>4, <2>1, <1>1
      <4>2. \A u \in Turns : turn'[u].on = x => u = t BY <3>0, <3>1, <3>4
      <4>3. CASE l = Idle
        <5>1. Owes(g, 0) BY <4>3, <2>1, <3>4
        <5>2. \A u \in Turns : turn'[u].on # x BY <4>2, <4>3, <1>1, <1>2, <3>4
        <5> QED BY <4>1, <5>1, <5>2 DEF Alone
      <4>4. CASE l # Idle
        <5>1. Suits(l, g) BY <4>4, <2>1, <3>4
        <5>2. turn'[t].on = x BY <4>4, <1>1, <3>4
        <5> QED BY <4>1, <4>2, <5>1, <5>2, <3>2, <1>1 DEF Alone
      <4> QED BY <4>3, <4>4
    <3> QED BY <3>3, <3>4
  <2> QED BY <2>1 DEF AloneInv
<1> QED BY <1>3, <1>4, <1>5

-----------------------------------------------------------------------------
LEMMA TouchedIs ==
  ASSUME NEW tab \in Seq(Objects), NEW o
  PROVE  /\ Touched(tab, o) \in Seq(Objects)
         /\ \A i \in DOMAIN Touched(tab, o) : \E k \in DOMAIN tab : Touched(tab, o)[i] = tab[k]
<1>1. Len(tab) \in Nat /\ DOMAIN tab = 1..Len(tab) /\ \A i \in DOMAIN tab : tab[i] \in Objects
  BY LenProperties, ElementOfSeq
<1>2. CASE ~ Contains(tab, o) BY <1>2 DEF Touched
<1>3. CASE Contains(tab, o)
  <2>1. PICK p \in 1..Len(tab) : tab[p] = o /\ RemoveFirst(tab, o) = Cut(tab, p - 1, p + 1)
    BY <1>3, RemoveFirstCuts
  <2>2. PICK a, b : a = p - 1 /\ b = p + 1 OBVIOUS
  <2>3. a \in 0..Len(tab) /\ b \in (a + 1)..(Len(tab) + 1) BY <1>1, <2>2
  <2> DEFINE c == Cut(tab, a, b)
  <2>4. /\ c \in Seq(Objects) /\ Len(c) = Len(tab) - (b - a - 1)
        /\ DOMAIN c = 1..(Len(tab) - (b - a - 1))
        /\ \A i \in 1..a : c[i] = tab[i]
        /\ \A i \in (a + 1)..(Len(tab) - (b - a - 1)) : c[i] = tab[i + (b - a - 1)]
    BY <2>3, CutOf, SMTT(30)
  <2> HIDE DEF c
  <2>5. b - a - 1 = 1 /\ a \in Nat BY <2>2, <2>3, <1>1
  <2>6. ASSUME NEW i \in DOMAIN c PROVE \E k \in DOMAIN tab : c[i] = tab[k]
    <3>1. CASE i <= a
      <4>1. i \in 1..a /\ i \in DOMAIN tab BY <3>1, <2>3, <2>4, <2>5, <1>1
      <4> QED BY <4>1, <2>4
    <3>2. CASE i > a
      <4>1. i \in (a + 1)..(Len(tab) - (b - a - 1)) /\ i + 1 \in DOMAIN tab
        BY <3>2, <2>3, <2>4, <2>5, <1>1
      <4> QED BY <4>1, <2>4, <2>5
    <3> QED BY <3>1, <3>2, <2>4, <2>5, <1>1
  <2>7. Touched(tab, o) = Append(c, o) BY <1>3, <2>1, <2>2 DEF Touched, c
  <2>8. o \in Objects BY <2>1, <1>1
  <2>9. Append(c, o) \in Seq(Objects) /\ Len(Append(c, o)) = Len(c) + 1
        /\ (\A i \in 1..Len(c) : Append(c, o)[i] = c[i]) /\ Append(c, o)[Len(c) + 1] = o
    BY <2>4, <2>8, AppendProperties
  <2>10. ASSUME NEW i \in DOMAIN Append(c, o)
         PROVE  \E k \in DOMAIN tab : Append(c, o)[i] = tab[k]
    <3>1. Len(c) \in Nat /\ DOMAIN c = 1..Len(c) /\ i \in 1..(Len(c) + 1)
      BY <2>4, <2>9, LenProperties
    <3>2. CASE i = Len(c) + 1 BY <3>2, <2>1, <2>9, <1>1
    <3>3. CASE i # Len(c) + 1 BY <3>1, <3>3, <2>6, <2>9
    <3> QED BY <3>2, <3>3
  <2> QED BY <2>7, <2>9, <2>10
<1> QED BY <1>2, <1>3

(* The inductive invariant, but for the budget.                            *)
Sessions == TypeInv /\ PlaceInv /\ TableInv /\ HistoryInv /\ AloneInv

LEMMA MovesTable ==
  ASSUME Sessions, NEW t \in Turns, turn[t].at # "idle",
         NEW l \in Locals, NEW g \in Seq(Messages),
         turn' = [turn EXCEPT ![t] = l], msgs' = [msgs EXCEPT ![turn[t].on] = g],
         table' = table \/ table' = Touched(table, turn[t].on),
         name' = name, requests' = requests, overlapped' = overlapped, spent' \in Nat
  PROVE  TypeInv' /\ TableInv'
<1>1. table \in Seq(Objects) /\ TableInv /\ TypeInv BY DEF Sessions, TypeInv
<1>2. /\ table' \in Seq(Objects)
      /\ \A i \in DOMAIN table' : \E k \in DOMAIN table : table'[i] = table[k]
  BY <1>1, TouchedIs
<1>3. TypeInv' BY <1>1, <1>2 DEF TypeInv
<1>4. TableInv' BY <1>1, <1>2 DEF TableInv
<1> QED BY <1>3, <1>4

(* The history of a turn that is over.                                     *)
LEMMA Leaves ==
  ASSUME Sessions, NEW t \in Turns, turn[t].at \in {"check", "open", "model", "close"},
         NEW o \in Objects, o = turn[t].on, NEW g,
         g = Unnoted(msgs[o], t) \/ g = Trimmed(Unnoted(msgs[o], t)),
         turn' = [turn EXCEPT ![t] = Idle], msgs' = [msgs EXCEPT ![o] = Left(t, g)],
         table' = table \/ table' = Touched(table, o),
         name' = name, spent' = spent, requests' = requests, overlapped' = overlapped
  PROVE  Sessions'
<1>0. /\ TypeInv /\ PlaceInv /\ HistoryInv /\ AloneInv /\ turn[t].at # "idle"
      /\ msgs[o] \in Seq(Messages) /\ spent \in Nat
  BY DEF Sessions, TypeInv
<1> DEFINE h == msgs[o]  c == Unnoted(h, t)
<1>1. h \in Seq(Messages) /\ Instructed(h) /\ Once(h) BY <1>0 DEF HistoryInv
<1>2. /\ c \in Seq(Messages) /\ Instructed(c) /\ Once(c) /\ (h # <<>> => c # <<>>)
      /\ \A i \in DOMAIN c : t \notin c[i].of /\ \E k \in DOMAIN h : c[i] = h[k]
  BY <1>1, Inherits
<1>3. \A i \in DOMAIN h : \A u \in h[i].of : u \in Turns /\ turn[u].on = o
  <2>1. \A i \in DOMAIN h : h[i].of \subseteq Turns
    BY <1>1, LenProperties, ElementOfSeq, MessageIs
  <2> QED BY <2>1, <1>0 DEF HistoryInv, NotedBy
<1>4. o \notin overlapped =>
        /\ Begins(c) /\ Owes(c, 0) /\ \A i \in DOMAIN c : c[i].of = {}
  <2>1. ASSUME o \notin overlapped
        PROVE  Begins(c) /\ Owes(c, 0) /\ \A i \in DOMAIN c : c[i].of = {}
    <3>1. Alone(o) BY <2>1, <1>0 DEF AloneInv
    <3>2. Begins(h) /\ Owes(h, turn[t].owed) BY <3>1 DEF Alone, Suits
    <3>3. turn[t].owed = 0
      <4>1. Fits(turn[t], h) /\ turn[t].owed \in Nat BY <1>0, OnIs DEF PlaceInv, Locals
      <4> QED BY <4>1 DEF Fits
    <3>4. Begins(c) /\ Owes(c, 0) BY <3>2, <3>3, <1>1, UnnotedSuits
    <3>5. \A i \in DOMAIN c : \A u \in c[i].of : u = t
      <4>1. \A i \in DOMAIN c : \A u \in c[i].of : u \in Turns /\ turn[u].on = o BY <1>2, <1>3
      <4> QED BY <4>1, <3>1 DEF Alone
    <3> QED BY <3>4, <3>5, <1>2
  <2> QED BY <2>1
<1> HIDE DEF c
<1>5. /\ g \in Seq(Messages) /\ Instructed(g) /\ Once(g) /\ (h # <<>> => g # <<>>)
      /\ \A i \in DOMAIN g : \E k \in DOMAIN c : g[i] = c[k]
  <2>1. CASE g = c BY <2>1, <1>2
  <2>2. CASE g = Trimmed(c) BY <2>2, <1>2, InheritsTrimmed
  <2> QED BY <2>1, <2>2 DEF c
<1>6. o \notin overlapped => Begins(g) /\ Owes(g, 0)
  <2>1. CASE g = c BY <2>1, <1>4
  <2>2. CASE g = Trimmed(c) BY <2>2, <1>2, <1>4, TrimmedSuits
  <2> QED BY <2>1, <2>2 DEF c
<1> DEFINE e == Left(t, g)
<1>7. \/ e = g
      \/ e = <<>> /\ \A u \in Turns : turn[u].on = o => u = t
  BY DEF Left, Swept, Collected, Users
<1> HIDE DEF e
<1>8. /\ <<>> \in Seq(Messages) /\ Instructed(<<>>) /\ Once(<<>>) /\ DOMAIN <<>> = {}
      /\ Begins(<<>>) /\ Owes(<<>>, 0)
  <2>1. <<>> \in Seq(Messages) /\ Len(<<>>) = 0 /\ DOMAIN <<>> = {} OBVIOUS
  <2> QED BY <2>1 DEF Instructed, Once, Begins, Owes
<1>9. e \in Seq(Messages) /\ Instructed(e) /\ Once(e) BY <1>5, <1>7, <1>8
<1>10. \A i \in DOMAIN e : \A u \in e[i].of : u # t /\ \E k \in DOMAIN msgs[o] : u \in msgs[o][k].of
  BY <1>2, <1>5, <1>7, <1>8
<1>11. h # <<>> => e # <<>> \/ \A u \in Turns : turn[u].on = o => u = t BY <1>5, <1>7
<1>12. o \notin overlapped => Begins(e) /\ Owes(e, 0) BY <1>6, <1>7, <1>8
<1>13. Idle \in Locals /\ Fits(Idle, e) BY IdleIs DEF Fits
<1>14. msgs' = [msgs EXCEPT ![o] = e] BY DEF e
<1> HIDE DEF h
<1>15. PlaceInv' /\ HistoryInv' /\ AloneInv'
  <2>1. \A i \in DOMAIN e : \A u \in e[i].of :
          \/ u = t /\ Idle.on = o /\ Idle.noted
          \/ u # t /\ \E k \in DOMAIN msgs[o] : u \in msgs[o][k].of
    BY <1>10
  <2>2. msgs[o] # <<>> => e # <<>> \/ \A u \in Turns : turn[u].on = o => u = t BY <1>11 DEF h
  <2>3. o \notin overlapped => Begins(e) /\ IF Idle = Idle THEN Owes(e, 0) ELSE Suits(Idle, e)
    BY <1>12
  <2>4. Idle = Idle \/ Idle.on = o OBVIOUS
  <2>5. Settled(t, o, Idle, e) BY <2>1, <2>2, <2>3, <1>9, <1>13 DEF Settled
  <2> QED BY <2>5, <1>0, <1>14, Moves
<1>16. TypeInv' /\ TableInv' BY <1>0, <1>9, <1>13, <1>14, MovesTable
<1> QED BY <1>15, <1>16 DEF Sessions

-----------------------------------------------------------------------------
(* A history that a turn between its opening and its end may leave, which  *)
(* owes n answers if the session is the turn's own.                        *)
Carries(t, g, n) ==
  /\ g \in Seq(Messages) /\ g # <<>> /\ Instructed(g) /\ Once(g)
  /\ \A i \in DOMAIN g : \A u \in g[i].of :
       \E k \in DOMAIN msgs[turn[t].on] : u \in msgs[turn[t].on][k].of
  /\ turn[t].on \notin overlapped => Begins(g) /\ Spoken(g) /\ Owes(g, n)

LEMMA CarriesNow ==
  ASSUME Sessions, NEW t \in Turns, turn[t].at \in {"model", "tool"}
  PROVE  Carries(t, msgs[turn[t].on], turn[t].owed)
<1> DEFINE o == turn[t].on  h == msgs[o]
<1>1. TypeInv /\ PlaceInv /\ HistoryInv /\ AloneInv BY DEF Sessions
<1>2. o \in Objects /\ h \in Seq(Messages) BY <1>1, OnIs
<1>3. h # <<>> BY <1>1 DEF PlaceInv, Fits
<1>4. Instructed(h) /\ Once(h) BY <1>1, <1>2 DEF HistoryInv
<1>5. o \notin overlapped => Begins(h) /\ Spoken(h) /\ Owes(h, turn[t].owed)
  <2>1. ASSUME o \notin overlapped PROVE Begins(h) /\ Spoken(h) /\ Owes(h, turn[t].owed)
    <3>1. Alone(o) BY <2>1, <1>1, <1>2 DEF AloneInv
    <3>2. Begins(h) /\ Suits(turn[t], h) BY <3>1 DEF Alone
    <3> QED BY <3>2 DEF Suits
  <2> QED BY <2>1
<1> QED BY <1>2, <1>3, <1>4, <1>5 DEF Carries

LEMMA CarriesAppend ==
  ASSUME NEW t \in Turns, NEW g, Carries(t, g, 0),
         NEW m \in Messages, m.role \in {"user", "assistant"}
  PROVE  Carries(t, Append(g, m), m.asks)
<1> DEFINE e == Append(g, m)
<1>1. /\ g \in Seq(Messages) /\ g # <<>> /\ Instructed(g) /\ Once(g)
      /\ \A i \in DOMAIN g : \A u \in g[i].of :
           \E k \in DOMAIN msgs[turn[t].on] : u \in msgs[turn[t].on][k].of
      /\ turn[t].on \notin overlapped => Begins(g) /\ Spoken(g) /\ Owes(g, 0)
  BY DEF Carries
<1>2. Len(g) \in Nat /\ m.of = {} /\ m.role # "system" /\ m.role # "tool"
  BY <1>1, LenProperties, MessageIs
<1>3. e \in Seq(Messages) /\ Grown(g, e) /\ Len(e) = Len(g) + 1 /\ e[Len(g) + 1] = m
  BY <1>1, AppendIs
<1> HIDE DEF e
<1>4. \A i \in (Len(g) + 1)..Len(e) : e[i].role # "system" /\ e[i].of = {} BY <1>2, <1>3
<1>5. /\ Instructed(e) /\ Once(e) /\ e # <<>>
      /\ \A i \in DOMAIN e : \A u \in e[i].of : \E k \in DOMAIN g : u \in g[k].of
  BY <1>1, <1>3, <1>4, GrownKeeps
<1>6. turn[t].on \notin overlapped => Begins(e) /\ Spoken(e) BY <1>1, <1>3, GrownBegins
<1>7. turn[t].on \notin overlapped => Owes(e, m.asks) BY <1>1, <1>2, AppendOwes DEF e
<1>8. \A i \in DOMAIN e : \A u \in e[i].of :
        \E k \in DOMAIN msgs[turn[t].on] : u \in msgs[turn[t].on][k].of
  BY <1>1, <1>5
<1>9. Carries(t, e, m.asks) BY <1>3, <1>5, <1>6, <1>7, <1>8 DEF Carries
<1> QED BY <1>9 DEF e

LEMMA CarriesResults ==
  ASSUME NEW t \in Turns, NEW g, NEW n \in Nat, Carries(t, g, n), NEW k \in 0..n
  PROVE  /\ Carries(t, g \o Results(k), n - k)
         /\ k > 0 => Last(g \o Results(k)).role = "tool"
<1> DEFINE e == g \o Results(k)
<1>1. /\ g \in Seq(Messages) /\ g # <<>> /\ Instructed(g) /\ Once(g)
      /\ \A i \in DOMAIN g : \A u \in g[i].of :
           \E j \in DOMAIN msgs[turn[t].on] : u \in msgs[turn[t].on][j].of
      /\ turn[t].on \notin overlapped => Begins(g) /\ Spoken(g) /\ Owes(g, n)
  BY DEF Carries
<1>2. Len(g) \in Nat /\ k \in Nat BY <1>1, LenProperties
<1>3. /\ e \in Seq(Messages) /\ Grown(g, e) /\ Len(e) = Len(g) + k
      /\ \A i \in (Len(g) + 1)..(Len(g) + k) : e[i] = Msg("tool")
  BY <1>1, <1>2, ResultsAppended
<1> HIDE DEF e
<1>4. \A i \in (Len(g) + 1)..Len(e) : e[i].role # "system" /\ e[i].of = {} BY <1>3, MsgIs
<1>5. /\ Instructed(e) /\ Once(e) /\ e # <<>>
      /\ \A i \in DOMAIN e : \A u \in e[i].of : \E j \in DOMAIN g : u \in g[j].of
  BY <1>1, <1>3, <1>4, GrownKeeps
<1>6. turn[t].on \notin overlapped => Begins(e) /\ Spoken(e) BY <1>1, <1>3, GrownBegins
<1>7. turn[t].on \notin overlapped => Owes(e, n - k) BY <1>1, ResultsOwe DEF e
<1>8. \A i \in DOMAIN e : \A u \in e[i].of :
        \E j \in DOMAIN msgs[turn[t].on] : u \in msgs[turn[t].on][j].of
  BY <1>1, <1>5
<1>9. Carries(t, e, n - k) BY <1>3, <1>5, <1>6, <1>7, <1>8 DEF Carries
<1>10. k > 0 => Last(e).role = "tool"
  <2>1. k > 0 => e[Len(e)] = Msg("tool") BY <1>2, <1>3
  <2> QED BY <2>1, MsgIs DEF Last
<1> QED BY <1>9, <1>10 DEF e

LEMMA GoesOn ==
  ASSUME Sessions, NEW t \in Turns, turn[t].at # "idle",
         NEW l \in Locals, l.on = turn[t].on, l.noted = turn[t].noted,
         NEW g, Carries(t, g, l.owed), Fits(l, g),
         l.at = "model" => Last(g).role \in {"user", "tool"},
         turn' = [turn EXCEPT ![t] = l], msgs' = [msgs EXCEPT ![turn[t].on] = g],
         table' = table \/ table' = Touched(table, turn[t].on),
         name' = name, requests' = requests, overlapped' = overlapped, spent' \in Nat
  PROVE  Sessions'
<1>1. TypeInv /\ PlaceInv /\ HistoryInv /\ AloneInv BY DEF Sessions
<1>2. PICK o \in Objects : o = turn[t].on BY <1>1, OnIs
<1>3. /\ g \in Seq(Messages) /\ g # <<>> /\ Instructed(g) /\ Once(g)
      /\ \A i \in DOMAIN g : \A u \in g[i].of : \E k \in DOMAIN msgs[o] : u \in msgs[o][k].of
      /\ o \notin overlapped => Begins(g) /\ Spoken(g) /\ Owes(g, l.owed)
  BY <1>2 DEF Carries
<1>4. l # Idle BY <1>2, IdleIs DEF Objects
<1>5. \A i \in DOMAIN g : \A u \in g[i].of :
        \/ u = t /\ l.on = o /\ l.noted
        \/ u # t /\ \E k \in DOMAIN msgs[o] : u \in msgs[o][k].of
  <2>1. \A k \in DOMAIN msgs[o] : \A u \in msgs[o][k].of : turn[u].on = o /\ turn[u].noted
    BY <1>1 DEF HistoryInv, NotedBy
  <2> QED BY <2>1, <1>2, <1>3
<1>6. o \notin overlapped => Suits(l, g) BY <1>3 DEF Suits
<1>7. Settled(t, o, l, g) BY <1>2, <1>3, <1>4, <1>5, <1>6 DEF Settled
<1>8. PlaceInv' /\ HistoryInv' /\ AloneInv' BY <1>1, <1>2, <1>7, Moves
<1>9. TypeInv' /\ TableInv' BY <1>3, MovesTable
<1> QED BY <1>8, <1>9 DEF Sessions

(* The place that a turn came to, with the tokens it has used.             *)
Onward(t, tokens) ==
  \E l \in Locals : /\ turn' = [turn EXCEPT ![t] = l] /\ l.tokens = tokens
                    /\ l.at \in {"model", "tool", "close"}

LEMMA Finishes ==
  ASSUME Sessions, NEW t \in Turns, turn[t].at \in {"model", "tool"},
         NEW g, Carries(t, g, 0), NEW tokens \in Nat, Finish(t, g, tokens),
         name' = name, requests' = requests, overlapped' = overlapped, spent' \in Nat
  PROVE  Sessions' /\ Onward(t, tokens)
<1>1. TypeInv /\ PlaceInv BY DEF Sessions
<1>2. turn[t] \in Locals /\ turn[t].on \in 1..requests /\ turn \in [Turns -> Locals]
  BY <1>1, OnIs DEF TypeInv
<1> DEFINE l == [turn[t] EXCEPT !.at = "close", !.tokens = tokens, !.owed = 0]
           e == Append(g, Msg("assistant"))
<1>3. l \in Locals BY <1>2 DEF Locals, Places
<1>4. /\ l.at = "close" /\ l.on = turn[t].on /\ l.owed = 0 /\ l.tokens = tokens
      /\ l.noted = turn[t].noted
  BY <1>2 DEF Locals
<1>5. turn' = [turn EXCEPT ![t] = l] BY <1>2 DEF Finish
<1>6. Carries(t, e, 0) BY MsgIs, CarriesAppend
<1>7. msgs' = [msgs EXCEPT ![turn[t].on] = e] /\ table' = Touched(table, turn[t].on)
  BY DEF Finish
<1> HIDE DEF l, e
<1>8. Fits(l, e) BY <1>2, <1>4, <1>6 DEF Fits, Carries
<1>9. Sessions' BY <1>3, <1>4, <1>5, <1>6, <1>7, <1>8, GoesOn
<1> QED BY <1>3, <1>4, <1>5, <1>9 DEF Onward

LEMMA CallsNext ==
  ASSUME Sessions, NEW t \in Turns, turn[t].at \in {"model", "tool"},
         NEW g, Carries(t, g, 0), Last(g).role = "tool", NEW tokens \in Nat,
         NEW late \in BOOLEAN, NextCall(t, g, tokens, late),
         name' = name, requests' = requests, overlapped' = overlapped, spent' \in Nat
  PROVE  Sessions' /\ Onward(t, tokens)
<1>1. CASE tokens > TurnLimit \/ turn[t].calls = Iterations \/ late
  <2>1. Finish(t, g, tokens) BY <1>1 DEF NextCall
  <2> QED BY <2>1, Finishes
<1>2. CASE ~(tokens > TurnLimit \/ turn[t].calls = Iterations \/ late)
  <2>1. TypeInv /\ PlaceInv BY DEF Sessions
  <2>2. turn[t] \in Locals /\ turn[t].on \in 1..requests /\ turn \in [Turns -> Locals]
    BY <2>1, OnIs DEF TypeInv
  <2> DEFINE l == [turn[t] EXCEPT !.at = "model", !.calls = turn[t].calls + 1, !.tokens = tokens,
                                  !.owed = 0]
  <2>3. l \in Locals
    <3>1. PICK c \in Nat : c = turn[t].calls + 1 BY <2>2 DEF Locals
    <3>2. [turn[t] EXCEPT !.at = "model", !.calls = c, !.tokens = tokens, !.owed = 0] \in Locals
      BY <2>2 DEF Locals, Places
    <3> QED BY <3>1, <3>2
  <2>4. /\ l.at = "model" /\ l.on = turn[t].on /\ l.owed = 0 /\ l.tokens = tokens
        /\ l.noted = turn[t].noted
    BY <2>2 DEF Locals
  <2>5. turn' = [turn EXCEPT ![t] = l] BY <1>2, <2>2 DEF NextCall
  <2>6. msgs' = [msgs EXCEPT ![turn[t].on] = g] /\ table' = table BY <1>2 DEF NextCall
  <2> HIDE DEF l
  <2>7. tokens <= TurnLimit
    <3>1. TurnLimit \in Nat BY ConversationAssumption
    <3> QED BY <3>1, <1>2
  <2>8. Fits(l, g) BY <2>2, <2>4, <2>7 DEF Fits, Carries
  <2>10. Carries(t, g, l.owed) /\ Last(g).role \in {"user", "tool"} BY <2>4
  <2>9. Sessions' BY <2>3, <2>4, <2>5, <2>6, <2>8, <2>10, GoesOn
  <2> QED BY <2>3, <2>4, <2>5, <2>9 DEF Onward
<1> QED BY <1>1, <1>2

LEMMA Batches ==
  ASSUME Sessions, NEW t \in Turns, turn[t].at \in {"model", "tool"},
         NEW g, NEW owed \in Nat, owed > 0, Carries(t, g, owed),
         NEW tokens \in Nat, tokens <= TurnMost, Batched(t, g, owed, tokens),
         name' = name, requests' = requests, overlapped' = overlapped, spent' \in Nat
  PROVE  Sessions' /\ Onward(t, tokens)
<1>0. PICK late \in BOOLEAN : \E atOnce \in AtOnce(owed, late) :
        LET h1 == g \o Results(atOnce)
        IN IF atOnce = owed THEN NextCall(t, h1, tokens, late)
           ELSE /\ msgs' = [msgs EXCEPT ![turn[t].on] = h1]
                /\ turn' = [turn EXCEPT ![t].at = "tool", ![t].owed = owed - atOnce,
                                        ![t].tokens = tokens]
                /\ UNCHANGED table
  BY DEF Batched
<1>1. PICK atOnce \in AtOnce(owed, late) :
        LET h1 == g \o Results(atOnce)
        IN IF atOnce = owed THEN NextCall(t, h1, tokens, late)
           ELSE /\ msgs' = [msgs EXCEPT ![turn[t].on] = h1]
                /\ turn' = [turn EXCEPT ![t].at = "tool", ![t].owed = owed - atOnce,
                                        ![t].tokens = tokens]
                /\ UNCHANGED table
  BY <1>0
<1>2. atOnce \in 0..owed BY DEF AtOnce
<1> DEFINE e == g \o Results(atOnce)
<1>3. Carries(t, e, owed - atOnce) /\ (atOnce > 0 => Last(e).role = "tool")
  BY <1>2, CarriesResults
<1>4. CASE atOnce = owed
  <2>1. NextCall(t, e, tokens, late) BY <1>1, <1>4
  <2> HIDE DEF e
  <2>2. Carries(t, e, 0) /\ Last(e).role = "tool"
    <3>1. owed - atOnce = 0 /\ atOnce > 0 BY <1>4
    <3> QED BY <3>1, <1>3
  <2> QED BY <2>1, <2>2, CallsNext
<1>5. CASE atOnce # owed
  <2>1. TypeInv /\ PlaceInv BY DEF Sessions
  <2>2. turn[t] \in Locals /\ turn[t].on \in 1..requests /\ turn \in [Turns -> Locals]
    BY <2>1, OnIs DEF TypeInv
  <2>0. PICK n \in Nat : n = owed - atOnce /\ n > 0 BY <1>2, <1>5
  <2> DEFINE l == [turn[t] EXCEPT !.at = "tool", !.owed = n, !.tokens = tokens]
  <2>3. l \in Locals BY <2>2 DEF Locals, Places
  <2>4. /\ l.at = "tool" /\ l.on = turn[t].on /\ l.owed = n /\ l.tokens = tokens
        /\ l.noted = turn[t].noted
    BY <2>2 DEF Locals
  <2>5. turn' = [turn EXCEPT ![t] = l] BY <1>1, <1>5, <2>0, <2>2
  <2>6. msgs' = [msgs EXCEPT ![turn[t].on] = e] /\ table' = table BY <1>1, <1>5
  <2> HIDE DEF l, e
  <2>7. Carries(t, e, n) BY <2>0, <1>3
  <2>8. Fits(l, e) BY <2>0, <2>2, <2>4, <2>7 DEF Fits, Carries
  <2>9. Carries(t, e, l.owed) BY <2>4, <2>7
  <2>10. Sessions' BY <2>3, <2>4, <2>5, <2>6, <2>8, <2>9, GoesOn
  <2> QED BY <2>3, <2>4, <2>5, <2>10 DEF Onward
<1> QED BY <1>4, <1>5

-----------------------------------------------------------------------------
(* Every step preserves the invariant of the sessions: one lemma for each  *)
(* action.                                                                 *)
LEMMA Starts ==
  ASSUME Sessions, NEW t \in Turns, NEW o \in Objects, Begin(t, o), o <= requests + 1,
         \A x \in Objects : \/ msgs'[x] = msgs[x]
                            \/ msgs'[x] = <<>> /\ \A u \in Turns : turn[u].on # x,
         overlapped \subseteq overlapped',
         o \notin overlapped' => \A u \in Turns : turn[u].on # o
  PROVE  PlaceInv' /\ HistoryInv' /\ AloneInv'
<1> DEFINE l == [Idle EXCEPT !.at = "check", !.on = o]
<1>1. TypeInv /\ PlaceInv /\ HistoryInv /\ AloneInv BY DEF Sessions
<1>2. /\ turn' = [turn EXCEPT ![t] = l] /\ requests' = requests + 1 /\ requests \in Nat
      /\ turn[t] = Idle /\ turn \in [Turns -> Locals] /\ msgs \in [Objects -> Seq(Messages)]
  BY <1>1, OnIs DEF Begin, At, TypeInv
<1>3. l.at = "check" /\ l.on = o /\ l.owed = 0 /\ l.noted = FALSE /\ l.tokens = 0
  BY DEF Idle
<1> HIDE DEF l
<1>4. turn'[t] = l /\ \A u \in Turns : u # t => turn'[u] = turn[u] BY <1>2
<1>5. /\ Idle.on = 0 /\ Idle.at = "idle" /\ Idle.noted = FALSE /\ 0 \notin Objects
      /\ o \in Nat \ {0} /\ o \in 1..(requests + 1)
  BY <1>2, IdleIs DEF Objects
<1>6. <<>> \in Seq(Messages) /\ DOMAIN <<>> = {} /\ Len(<<>>) = 0 OBVIOUS
<1>7. PlaceInv'
  <2>1. ASSUME NEW u \in Turns PROVE Fits(turn[u], msgs[turn[u].on])'
    <3>1. CASE u = t BY <3>1, <1>2, <1>3, <1>4, <1>5 DEF Fits
    <3>2. CASE u # t
      <4>1. Fits(turn[u], msgs[turn[u].on]) BY <1>1 DEF PlaceInv
      <4>2. turn'[u] = turn[u] BY <3>2, <1>4
      <4>3. CASE turn[u].at = "idle" BY <4>1, <4>2, <4>3, <1>5 DEF Fits
      <4>4. CASE turn[u].at # "idle"
        <5>1. turn[u].on \in Objects /\ turn[u].on \in 1..requests BY <4>4, <1>1, OnIs
        <5>2. msgs'[turn[u].on] = msgs[turn[u].on] BY <5>1
        <5>3. turn[u].on \in 1..requests' BY <5>1, <1>2
        <5> QED BY <4>1, <4>2, <5>2, <5>3 DEF Fits
      <4> QED BY <4>3, <4>4
    <3> QED BY <3>1, <3>2
  <2> QED BY <2>1 DEF PlaceInv
<1>8. HistoryInv'
  <2>1. ASSUME NEW x \in Objects
        PROVE  /\ Instructed(msgs'[x]) /\ Once(msgs'[x])
               /\ \A i \in DOMAIN msgs'[x] : \A u \in msgs'[x][i].of :
                    turn'[u].on = x /\ turn'[u].noted
    <3>1. CASE msgs'[x] = <<>> BY <3>1, <1>6 DEF Instructed, Once
    <3>2. CASE msgs'[x] = msgs[x]
      <4>1. /\ Instructed(msgs[x]) /\ Once(msgs[x])
            /\ \A i \in DOMAIN msgs[x] : \A u \in msgs[x][i].of : turn[u].on = x /\ turn[u].noted
        BY <1>1 DEF HistoryInv, NotedBy
      <4>2. \A i \in DOMAIN msgs[x] : msgs[x][i].of \subseteq Turns
        <5>1. msgs[x] \in Seq(Messages) BY <1>2
        <5> QED BY <5>1, LenProperties, ElementOfSeq, MessageIs
      <4>3. ASSUME NEW i \in DOMAIN msgs[x], NEW u \in msgs[x][i].of
            PROVE  turn'[u].on = x /\ turn'[u].noted
        <5>1. u \in Turns /\ turn[u].noted /\ turn[u].on = x BY <4>1, <4>2
        <5>2. u # t BY <5>1, <1>2, <1>5
        <5>3. turn'[u] = turn[u] BY <5>1, <5>2, <1>4
        <5> QED BY <5>1, <5>3
      <4> QED BY <3>2, <4>1, <4>3
    <3> QED BY <3>1, <3>2
  <2> QED BY <2>1 DEF HistoryInv, NotedBy
<1>9. AloneInv'
  <2>1. ASSUME NEW x \in Objects, x \notin overlapped' PROVE Alone(x)'
    <3>0. /\ \A u, v \in Turns : turn[u].on = x /\ turn[v].on = x => u = v
          /\ Begins(msgs[x])
          /\ (\A u \in Turns : turn[u].on # x) => Owes(msgs[x], 0)
          /\ \A u \in Turns : turn[u].on = x => Suits(turn[u], msgs[x])
      BY <2>1, <1>1 DEF AloneInv, Alone
    <3>1. Begins(<<>>) /\ Owes(<<>>, 0) BY <1>6 DEF Begins, Owes
    <3>2. Begins(msgs'[x]) BY <3>0, <3>1
    <3>3. (\A u \in Turns : turn[u].on # x) => Owes(msgs'[x], 0) BY <3>0, <3>1
    <3>4. \A u \in Turns : turn[u].on = x => Suits(turn[u], msgs'[x]) BY <3>0
    <3>5. CASE x # o
      <4>1. \A u \in Turns : turn'[u].on = x => turn[u].on = x /\ turn'[u] = turn[u]
        BY <3>5, <1>3, <1>4
      <4>2. \A u \in Turns : turn[u].on = x => turn'[u].on = x
        <5> TAKE u \in Turns
        <5>1. u = t => turn[u].on # x BY <1>2, <1>5
        <5> QED BY <5>1, <1>4
      <4>3. (\A u \in Turns : turn'[u].on # x) => Owes(msgs'[x], 0) BY <3>3, <4>2
      <4>4. \A u \in Turns : turn'[u].on = x => Suits(turn'[u], msgs'[x]) BY <3>4, <4>1
      <4>5. \A u, v \in Turns : turn'[u].on = x /\ turn'[v].on = x => u = v BY <3>0, <4>1
      <4> QED BY <3>2, <4>3, <4>4, <4>5 DEF Alone
    <3>6. CASE x = o
      <4>1. \A u \in Turns : turn[u].on # x BY <3>6, <2>1
      <4>2. \A u \in Turns : turn'[u].on = x => u = t BY <4>1, <1>4
      <4>3. Suits(l, msgs'[x]) BY <4>1, <3>3, <1>3 DEF Suits
      <4>4. turn'[t].on = x BY <3>6, <1>3, <1>4
      <4>5. \A u \in Turns : turn'[u].on = x => Suits(turn'[u], msgs'[x]) BY <4>2, <4>3, <1>4
      <4>6. (\A u \in Turns : turn'[u].on # x) => Owes(msgs'[x], 0) BY <4>4
      <4>7. \A u, v \in Turns : turn'[u].on = x /\ turn'[v].on = x => u = v BY <4>2
      <4> QED BY <3>2, <4>5, <4>6, <4>7 DEF Alone
    <3> QED BY <3>5, <3>6
  <2> QED BY <2>1 DEF AloneInv
<1> QED BY <1>7, <1>8, <1>9

(* A turn that begins is at the check, on a session that has been made.    *)
LEMMA BeginIs ==
  ASSUME Sessions, NEW t \in Turns, NEW o \in Objects, Begin(t, o)
  PROVE  /\ turn' \in [Turns -> Locals] /\ requests' \in 0..MaxRequests /\ spent' \in Nat
         /\ requests \in Nat
<1>1. /\ turn \in [Turns -> Locals] /\ requests \in 0..MaxRequests /\ MaxRequests \in Nat
      /\ spent \in Nat
  BY ConversationAssumption DEF Sessions, TypeInv
<1>2. [Idle EXCEPT !.at = "check", !.on = o] \in Locals
  <2>1. o \in 0..MaxRequests BY <1>1 DEF Objects
  <2> QED BY <2>1, IdleIs DEF Locals, Places
<1>3. turn' = [turn EXCEPT ![t] = [Idle EXCEPT !.at = "check", !.on = o]] BY DEF Begin
<1>4. turn' \in [Turns -> Locals]
  <2> DEFINE l == [Idle EXCEPT !.at = "check", !.on = o]
  <2>1. l \in Locals /\ turn' = [turn EXCEPT ![t] = l] BY <1>2, <1>3
  <2> HIDE DEF l
  <2> QED BY <2>1, <1>1
<1>5. requests' \in 0..MaxRequests /\ spent' \in Nat BY <1>1 DEF Begin
<1> QED BY <1>1, <1>4, <1>5

LEMMA ContinuePreserves ==
  ASSUME Sessions, NEW t \in Turns, NEW id \in Ids, Continue(t, id)
  PROVE  Sessions'
<1>1. PICK o \in Known(id) :
        /\ Begin(t, o)
        /\ table' = Touched(table, o)
        /\ overlapped' = IF Users(o) # {} THEN overlapped \cup {o} ELSE overlapped
        /\ UNCHANGED <<name, msgs>>
  BY DEF Continue
<1>2. TypeInv /\ TableInv /\ table \in Seq(Objects) BY DEF Sessions, TypeInv
<1>3. o \in Objects /\ o <= requests
  <2>1. PICK i \in DOMAIN table : table[i] = o BY DEF Known, Range
  <2>2. table[i] \in Objects BY <1>2, LenProperties, ElementOfSeq
  <2> QED BY <2>1, <2>2, <1>2 DEF TableInv
<1>4. /\ turn' \in [Turns -> Locals] /\ requests' \in 0..MaxRequests /\ spent' \in Nat
      /\ requests \in Nat /\ requests' = requests + 1
  BY <1>1, <1>3, BeginIs DEF Begin
<1>5. /\ table' \in Seq(Objects)
      /\ \A i \in DOMAIN table' : \E k \in DOMAIN table : table'[i] = table[k]
  BY <1>1, <1>2, TouchedIs
<1>6. TypeInv'
  <2>1. overlapped' \subseteq Objects BY <1>1, <1>2, <1>3 DEF TypeInv
  <2> QED BY <2>1, <1>1, <1>2, <1>4, <1>5 DEF TypeInv
<1>7. TableInv'
  <2>1. ASSUME NEW i \in DOMAIN table' PROVE table'[i] <= requests'
    <3>1. PICK k \in DOMAIN table : table'[i] = table[k] BY <1>5
    <3>2. table[k] <= requests /\ table[k] \in Objects
      BY <1>2, LenProperties, ElementOfSeq DEF TableInv
    <3>3. table[k] \in Nat BY <3>2 DEF Objects
    <3> QED BY <3>1, <3>2, <3>3, <1>4
  <2> QED BY <2>1 DEF TableInv
<1>8. o <= requests + 1 BY <1>3, <1>4 DEF Objects
<1>9. o \notin overlapped' => \A u \in Turns : turn[u].on # o BY <1>1 DEF Users
<1>10. overlapped \subseteq overlapped' BY <1>1
<1>11. PlaceInv' /\ HistoryInv' /\ AloneInv' BY <1>1, <1>3, <1>8, <1>9, <1>10, Starts
<1> QED BY <1>6, <1>7, <1>11 DEF Sessions

LEMMA CreatePreserves ==
  ASSUME Sessions, NEW t \in Turns, NEW id \in Ids, Create(t, id)
  PROVE  Sessions'
<1>1. PICK o : o = requests + 1 OBVIOUS
<1>2. /\ Begin(t, o)
      /\ name' = [name EXCEPT ![o] = id]
      /\ table' = Evict(Append(table, o))
      /\ msgs' = [x \in Objects |-> IF x = o THEN <<>> ELSE Swept(msgs[x], x, table', Users(x))]
      /\ overlapped' = overlapped
  BY <1>1 DEF Create
<1>3. /\ TypeInv /\ TableInv /\ PlaceInv /\ table \in Seq(Objects) /\ requests \in Nat
      /\ MaxRequests \in Nat
  BY ConversationAssumption DEF Sessions, TypeInv
<1>4. o \in Objects BY <1>1, <1>2, <1>3 DEF Begin, Objects
<1>5. /\ turn' \in [Turns -> Locals] /\ requests' \in 0..MaxRequests /\ spent' \in Nat
      /\ requests' = o
  BY <1>1, <1>2, <1>4, BeginIs DEF Begin
<1>6. \A u \in Turns : turn[u].on # o
  <2> TAKE u \in Turns
  <2>1. turn[u].on = 0 \/ turn[u].on \in 1..requests BY <1>3, OnIs
  <2> QED BY <2>1, <1>1, <1>3
<1>7. \A x \in Objects : \/ msgs'[x] = msgs[x]
                         \/ msgs'[x] = <<>> /\ \A u \in Turns : turn[u].on # x
  BY <1>2, <1>6 DEF Swept, Collected, Users
<1>8. msgs' \in [Objects -> Seq(Messages)]
  <2>1. \A x \in Objects : msgs[x] \in Seq(Messages) BY <1>3 DEF TypeInv
  <2>2. <<>> \in Seq(Messages) OBVIOUS
  <2>3. \A x \in Objects : msgs'[x] \in Seq(Messages) BY <2>1, <2>2, <1>7
  <2> QED BY <2>3, <1>2
<1>9. table' \in Seq(Objects) /\ \A i \in DOMAIN table' : table'[i] <= requests'
  <2> DEFINE a == Append(table, o)
  <2>1. /\ a \in Seq(Objects) /\ Len(a) = Len(table) + 1
        /\ (\A i \in 1..Len(table) : a[i] = table[i]) /\ a[Len(table) + 1] = o
    BY <1>3, <1>4, AppendProperties
  <2>2. Len(table) \in Nat /\ DOMAIN table = 1..Len(table) /\ DOMAIN a = 1..Len(a)
    BY <1>3, <2>1, LenProperties
  <2> HIDE DEF a
  <2>3. \A i \in DOMAIN a : a[i] <= o
    <3> TAKE i \in DOMAIN a
    <3>1. CASE i = Len(table) + 1 BY <3>1, <2>1, <1>1, <1>3
    <3>2. CASE i # Len(table) + 1
      <4>1. i \in DOMAIN table /\ a[i] = table[i] BY <3>2, <2>1, <2>2
      <4>2. table[i] <= requests /\ table[i] \in Objects
        BY <4>1, <1>3, <2>2, ElementOfSeq DEF TableInv
      <4>3. table[i] \in Nat BY <4>2 DEF Objects
      <4> QED BY <4>1, <4>2, <4>3, <1>1, <1>3
    <3> QED BY <3>1, <3>2
  <2>4. CASE table' = a BY <2>1, <2>3, <2>4, <1>5
  <2>5. CASE table' = Tail(a)
    <3>1. a # <<>> BY <2>1, <2>2
    <3>2. /\ Tail(a) \in Seq(Objects) /\ Len(Tail(a)) = Len(a) - 1
          /\ \A i \in 1..Len(Tail(a)) : Tail(a)[i] = a[i + 1]
      BY <3>1, <2>1, HeadTailProperties
    <3>3. DOMAIN Tail(a) = 1..Len(Tail(a)) BY <3>2, LenProperties
    <3>4. \A i \in DOMAIN Tail(a) : Tail(a)[i] <= o
      <4> TAKE i \in DOMAIN Tail(a)
      <4>1. i + 1 \in DOMAIN a BY <3>2, <3>3, <2>1, <2>2
      <4> QED BY <4>1, <3>2, <3>3, <2>3
    <3> QED BY <2>5, <3>2, <3>4, <1>5
  <2> QED BY <2>4, <2>5, <1>2 DEF Evict, a
<1>10. TypeInv'
  <2>1. name' \in [Objects -> Ids \cup {NoId}] BY <1>2, <1>3 DEF TypeInv
  <2> QED BY <2>1, <1>2, <1>3, <1>5, <1>8, <1>9 DEF TypeInv
<1>11. TableInv' BY <1>9 DEF TableInv
<1>12. o <= requests + 1 BY <1>1, <1>3
<1>13. o \notin overlapped' => \A u \in Turns : turn[u].on # o BY <1>6
<1>14. overlapped \subseteq overlapped' BY <1>2
<1>15. PlaceInv' /\ HistoryInv' /\ AloneInv' BY <1>2, <1>4, <1>7, <1>12, <1>13, <1>14, Starts
<1> QED BY <1>10, <1>11, <1>15 DEF Sessions


LEMMA AdmittedPreserves ==
  ASSUME Sessions, NEW t \in Turns, Admitted(t)
  PROVE  Sessions'
<1>1. /\ TypeInv /\ PlaceInv /\ HistoryInv /\ AloneInv /\ turn[t].at = "check"
      /\ turn \in [Turns -> Locals] /\ msgs \in [Objects -> Seq(Messages)] /\ spent \in Nat
  BY DEF Sessions, TypeInv, Admitted, At
<1>2. PICK o \in Objects : o = turn[t].on BY <1>1, OnIs
<1> DEFINE h == msgs[o]
           g == IF h = <<>> THEN <<Msg("system")>> ELSE h
           l == [turn[t] EXCEPT !.at = "open"]
<1>3. /\ turn' = [turn EXCEPT ![t] = l] /\ msgs' = [msgs EXCEPT ![o] = g]
      /\ table' = table /\ name' = name /\ spent' = spent /\ requests' = requests
      /\ overlapped' = overlapped
  BY <1>1, <1>2 DEF Admitted
<1>4. /\ Fits(turn[t], h) /\ turn[t] \in Locals /\ h \in Seq(Messages)
      /\ Instructed(h) /\ Once(h)
  BY <1>1, <1>2, OnIs DEF PlaceInv, HistoryInv
<1>5. /\ l \in Locals /\ l.at = "open" /\ l.on = o /\ l.owed = turn[t].owed
      /\ l.noted = turn[t].noted /\ l.tokens = turn[t].tokens
  BY <1>2, <1>4 DEF Locals, Places
<1>6. turn[t].owed = 0 /\ turn[t].owed \in Nat BY <1>1, <1>4 DEF Fits, Locals
<1> DEFINE s == <<Msg("system")>>
<1>7. s \in Seq(Messages) /\ Len(s) = 1 /\ DOMAIN s = 1..1 /\ s[1] = Msg("system")
  <2>1. Msg("system") \in Messages BY MsgIs
  <2> QED BY <2>1
<1>8. s[1].role = "system" /\ s[1].asks = 0 /\ s[1].of = {} BY <1>7, MsgIs
<1> HIDE DEF s
<1>9. Instructed(s) /\ Once(s) /\ Begins(s) /\ Owes(s, 0) /\ s # <<>>
  <2>1. \A i \in DOMAIN s : i = 1 BY <1>7
  <2>2. 2..Len(s) = {} BY <1>7
  <2>3. s # <<>> BY <1>7
  <2>4. Instructed(s) /\ Begins(s) BY <1>8, <2>2 DEF Instructed, Begins
  <2>5. Once(s) BY <2>1 DEF Once
  <2>6. Owes(s, 0) BY <1>7, <1>8, <2>1 DEF Owes
  <2> QED BY <2>3, <2>4, <2>5, <2>6
<1>10. g = IF h = <<>> THEN s ELSE h BY DEF s
<1> HIDE DEF g, l
<1>11. /\ g \in Seq(Messages) /\ Instructed(g) /\ Once(g) /\ g # <<>>
  BY <1>4, <1>7, <1>9, <1>10
<1>12. \A i \in DOMAIN g : \A u \in g[i].of : i \in DOMAIN h /\ u \in h[i].of
  <2>1. CASE h = <<>> BY <2>1, <1>7, <1>8, <1>10
  <2>2. CASE h # <<>> BY <2>2, <1>10
  <2> QED BY <2>1, <2>2
<1>13. \A i \in DOMAIN g : \A u \in g[i].of :
         \/ u = t /\ l.on = o /\ l.noted
         \/ u # t /\ \E k \in DOMAIN msgs[o] : u \in msgs[o][k].of
  <2>1. \A i \in DOMAIN h : \A u \in h[i].of : turn[u].noted BY <1>1 DEF HistoryInv, NotedBy
  <2>2. ~turn[t].noted BY <1>1, <1>4 DEF Fits
  <2> QED BY <2>1, <2>2, <1>12
<1>14. Fits(l, g)
  <2>1. turn[t].noted = FALSE /\ turn[t].tokens = 0 BY <1>1, <1>4 DEF Fits, Locals
  <2>2. l.noted = FALSE /\ l.tokens = 0 /\ l.owed = 0 BY <2>1, <1>5, <1>6
  <2>3. ~l.noted BY <2>2
  <2>4. l.on \in 1..requests BY <1>1, <1>2, <1>4, <1>5 DEF Fits
  <2> QED BY <2>2, <2>3, <2>4, <1>5, <1>11 DEF Fits
<1>15. o \notin overlapped => Begins(g) /\ Suits(l, g)
  <2>1. ASSUME o \notin overlapped PROVE Begins(g) /\ Suits(l, g)
    <3>1. Alone(o) BY <2>1, <1>1 DEF AloneInv
    <3>2. Begins(h) /\ Owes(h, 0) BY <3>1, <1>2, <1>6 DEF Alone, Suits
    <3>3. Begins(g) /\ Owes(g, 0) BY <3>2, <1>9, <1>10
    <3> QED BY <3>3, <1>5, <1>6 DEF Suits
  <2> QED BY <2>1
<1>16. l # Idle BY <1>5, IdleIs
<1>17. Settled(t, o, l, g) BY <1>5, <1>11, <1>13, <1>14, <1>15, <1>16 DEF Settled
<1>18. PlaceInv' /\ HistoryInv' /\ AloneInv' BY <1>1, <1>2, <1>3, <1>17, Moves
<1>19. TypeInv' /\ TableInv' BY <1>1, <1>2, <1>3, <1>5, <1>11, MovesTable
<1> QED BY <1>18, <1>19 DEF Sessions

(* A history to which a note was added, or none.                           *)
LEMMA NotedIs ==
  ASSUME NEW h \in Seq(Messages), NEW t \in Turns, Instructed(h), Once(h), h # <<>>,
         \A i \in DOMAIN h : t \notin h[i].of,
         NEW noted, NEW e, (noted /\ e = <<Note(t)>>) \/ (~noted /\ e = <<>>)
  PROVE  LET g == h \o e
         IN /\ g \in Seq(Messages) /\ Grown(h, g) /\ Instructed(g) /\ Once(g) /\ g # <<>>
            /\ \A i \in (Len(h) + 1)..Len(g) : g[i].role = "note"
            /\ \A i \in DOMAIN g : \A u \in g[i].of :
                 (u = t /\ noted) \/ \E k \in DOMAIN h : u \in h[k].of
            /\ Owes(h, 0) => Owes(g, 0)
<1> DEFINE g == h \o e
<1>1. Len(h) \in Nat /\ DOMAIN h = 1..Len(h) /\ Len(h) # 0 BY LenProperties, EmptySeq
<1>2. CASE ~noted
  <2>1. g = h BY <1>2
  <2> HIDE DEF g
  <2>2. (Len(h) + 1)..Len(h) = {} BY <1>1
  <2>3. Grown(h, h) BY <1>1 DEF Grown
  <2>4. /\ g \in Seq(Messages) /\ Grown(h, g) /\ Instructed(g) /\ Once(g) /\ g # <<>>
        /\ \A i \in (Len(h) + 1)..Len(g) : g[i].role = "note"
        /\ \A i \in DOMAIN g : \A u \in g[i].of :
             (u = t /\ noted) \/ \E k \in DOMAIN h : u \in h[k].of
        /\ Owes(h, 0) => Owes(g, 0)
    BY <2>1, <2>2, <2>3
  <2> QED BY <2>4 DEF g
<1>3. CASE noted
  <2>1. Note(t) \in Messages /\ Note(t).role = "note" /\ Note(t).of = {t} /\ Note(t).asks = 0
    BY NoteIs
  <2> DEFINE a == Append(h, Note(t))
  <2>2. /\ a \in Seq(Messages) /\ Grown(h, a) /\ Len(a) = Len(h) + 1 /\ a[Len(h) + 1] = Note(t)
        /\ a = h \o <<Note(t)>>
    BY <2>1, AppendIs
  <2>3. g = a BY <1>3, <2>2
  <2>4. Owes(h, 0) => Owes(a, 0) BY <2>1, AppendOwes
  <2> HIDE DEF a, g
  <2>5. DOMAIN a = 1..(Len(h) + 1) /\ a # <<>> BY <2>2, <1>1, LenProperties, EmptySeq
  <2>6. Instructed(a) BY <1>1, <2>1, <2>2 DEF Instructed, Grown
  <2>7. \A i \in DOMAIN a : (i \in DOMAIN h /\ a[i] = h[i]) \/ (i = Len(h) + 1 /\ a[i].of = {t})
    BY <1>1, <2>1, <2>2, <2>5 DEF Grown
  <2>8. Once(a) BY <2>7 DEF Once
  <2>9. \A i \in (Len(h) + 1)..Len(a) : a[i].role = "note" BY <1>1, <2>1, <2>2
  <2>10. \A i \in DOMAIN a : \A u \in a[i].of :
           (u = t /\ noted) \/ \E k \in DOMAIN h : u \in h[k].of
    BY <2>7, <1>3
  <2>11. /\ g \in Seq(Messages) /\ Grown(h, g) /\ Instructed(g) /\ Once(g) /\ g # <<>>
         /\ \A i \in (Len(h) + 1)..Len(g) : g[i].role = "note"
         /\ \A i \in DOMAIN g : \A u \in g[i].of :
              (u = t /\ noted) \/ \E k \in DOMAIN h : u \in h[k].of
         /\ Owes(h, 0) => Owes(g, 0)
    BY <2>2, <2>3, <2>4, <2>5, <2>6, <2>8, <2>9, <2>10
  <2> QED BY <2>11 DEF g
<1> QED BY <1>2, <1>3

LEMMA OpenedPreserves ==
  ASSUME Sessions, NEW t \in Turns, Opened(t)
  PROVE  Sessions'
<1>1. /\ TypeInv /\ PlaceInv /\ HistoryInv /\ AloneInv /\ turn[t].at = "open"
      /\ turn \in [Turns -> Locals] /\ msgs \in [Objects -> Seq(Messages)] /\ spent \in Nat
  BY DEF Sessions, TypeInv, Opened, At
<1>2. PICK o \in Objects : o = turn[t].on BY <1>1, OnIs
<1>3. PICK noted \in BOOLEAN :
        /\ msgs' = [msgs EXCEPT ![turn[t].on] =
                      @ \o (IF noted THEN <<Note(t)>> ELSE <<>>) \o <<Msg("user")>>]
        /\ turn' = [turn EXCEPT ![t].at = "model", ![t].calls = 1, ![t].noted = noted]
  BY DEF Opened
<1> DEFINE h == msgs[o]
           e == IF noted THEN <<Note(t)>> ELSE <<>>
           a == h \o e
           g == Append(a, Msg("user"))
           l == [turn[t] EXCEPT !.at = "model", !.calls = 1, !.noted = noted]
<1>4. /\ Fits(turn[t], h) /\ turn[t] \in Locals /\ h \in Seq(Messages)
      /\ Instructed(h) /\ Once(h) /\ h # <<>>
  BY <1>1, <1>2, OnIs DEF PlaceInv, HistoryInv, Fits
<1>5. \A i \in DOMAIN h : \A u \in h[i].of : u # t
  <2>1. \A i \in DOMAIN h : \A u \in h[i].of : turn[u].noted BY <1>1 DEF HistoryInv, NotedBy
  <2>2. ~turn[t].noted BY <1>1, <1>4 DEF Fits
  <2> QED BY <2>1, <2>2
<1>6. /\ a \in Seq(Messages) /\ Grown(h, a) /\ Instructed(a) /\ Once(a) /\ a # <<>>
      /\ \A i \in (Len(h) + 1)..Len(a) : a[i].role = "note"
      /\ \A i \in DOMAIN a : \A u \in a[i].of :
           (u = t /\ noted) \/ \E k \in DOMAIN h : u \in h[k].of
      /\ Owes(h, 0) => Owes(a, 0)
  <2>1. \A i \in DOMAIN h : t \notin h[i].of BY <1>5
  <2>2. (noted /\ e = <<Note(t)>>) \/ (~noted /\ e = <<>>) OBVIOUS
  <2> HIDE DEF h, e
  <2> QED BY <2>1, <2>2, <1>4, NotedIs
<1>7. msgs' = [msgs EXCEPT ![o] = a \o <<Msg("user")>>] BY <1>2, <1>3
<1> HIDE DEF a
<1>8. /\ g \in Seq(Messages) /\ Grown(a, g) /\ Len(g) = Len(a) + 1 /\ g[Len(a) + 1] = Msg("user")
      /\ Last(g) = Msg("user") /\ g = a \o <<Msg("user")>>
  BY <1>6, MsgIs, AppendIs
<1>9. Owes(h, 0) => Owes(g, 0) BY <1>6, MsgIs, AppendOwes
<1> HIDE DEF g
<1>10. turn' = [turn EXCEPT ![t] = l] /\ msgs' = [msgs EXCEPT ![o] = g]
  BY <1>1, <1>3, <1>7, <1>8
<1>11. /\ l \in Locals /\ l.at = "model" /\ l.on = o /\ l.owed = turn[t].owed
       /\ l.noted = noted /\ l.tokens = turn[t].tokens
  BY <1>2, <1>4 DEF Locals, Places
<1> HIDE DEF l
<1>12. turn[t].owed = 0 /\ turn[t].owed \in Nat /\ turn[t].tokens = 0
  BY <1>1, <1>4 DEF Fits, Locals
<1>13. Len(h) \in Nat /\ Len(a) \in Nat /\ DOMAIN g = 1..Len(g)
  BY <1>4, <1>6, <1>8, LenProperties
<1>14. Msg("user").role = "user" /\ Msg("user").of = {} BY MsgIs
<1>15. /\ Instructed(g) /\ Once(g) /\ g # <<>>
       /\ \A i \in DOMAIN g : \A u \in g[i].of : \E k \in DOMAIN a : u \in a[k].of
  <2>1. \A i \in (Len(a) + 1)..Len(g) : g[i].role # "system" /\ g[i].of = {}
    BY <1>8, <1>13, <1>14
  <2>2. a \in Seq(Messages) /\ Instructed(a) /\ Once(a) /\ a # <<>> BY <1>6
  <2>3. g \in Seq(Messages) /\ Grown(a, g) BY <1>8
  <2> QED BY <2>1, <2>2, <2>3, GrownKeeps
<1>16. \A i \in DOMAIN g : \A u \in g[i].of :
         \/ u = t /\ l.on = o /\ l.noted
         \/ u # t /\ \E k \in DOMAIN msgs[o] : u \in msgs[o][k].of
  BY <1>5, <1>6, <1>11, <1>15
<1>17. Fits(l, g)
  <2>1. TurnLimit \in Nat BY ConversationAssumption
  <2>2. l.owed = 0 /\ l.tokens = 0 /\ l.on \in 1..requests BY <1>1, <1>2, <1>4, <1>11, <1>12 DEF Fits
  <2> QED BY <2>1, <2>2, <1>11, <1>15 DEF Fits
<1>18. o \notin overlapped => Begins(g) /\ Suits(l, g)
  <2>1. ASSUME o \notin overlapped PROVE Begins(g) /\ Suits(l, g)
    <3>1. Alone(o) BY <2>1, <1>1 DEF AloneInv
    <3>2. Begins(h) /\ Owes(h, 0) BY <3>1, <1>2, <1>12 DEF Alone, Suits
    <3>3. Begins(a) BY <3>2, <1>4, <1>6, OpenedBegins
    <3>4. Begins(g)
      <4>1. \A i \in (Len(a) + 1)..Len(g) : g[i].role \in {"note", "user"}
        BY <1>8, <1>13, <1>14
      <4> QED BY <4>1, <3>3, <1>6, <1>8, OpenedBegins
    <3>5. Owes(g, 0) BY <3>2, <1>9
    <3>6. Spoken(g) BY <1>8, <1>13, <1>14 DEF Spoken
    <3> QED BY <3>4, <3>5, <3>6, <1>8, <1>11, <1>12, <1>14 DEF Suits
  <2> QED BY <2>1
<1>19. l # Idle BY <1>11, IdleIs
<1>20. Settled(t, o, l, g) BY <1>8, <1>11, <1>15, <1>16, <1>17, <1>18, <1>19 DEF Settled
<1>21. name' = name /\ table' = table /\ spent' = spent /\ requests' = requests
       /\ overlapped' = overlapped
  BY DEF Opened
<1>22. PlaceInv' /\ HistoryInv' /\ AloneInv' BY <1>1, <1>2, <1>10, <1>20, <1>21, Moves
<1>23. TypeInv' /\ TableInv' BY <1>1, <1>2, <1>8, <1>10, <1>11, <1>21, MovesTable
<1> QED BY <1>22, <1>23 DEF Sessions

LEMMA RefusedPreserves ==
  ASSUME Sessions, NEW t \in Turns, Refused(t) \/ Closed(t)
  PROVE  Sessions'
<1>1. TypeInv /\ PlaceInv /\ turn[t].at \in {"check", "close"} /\ Returned(t, msgs[turn[t].on])
      /\ name' = name /\ spent' = spent /\ requests' = requests /\ overlapped' = overlapped
  BY DEF Sessions, Refused, Closed, At
<1>2. PICK o \in Objects : o = turn[t].on BY <1>1, OnIs
<1> DEFINE g == Trimmed(Unnoted(msgs[o], t))
<1>3. /\ msgs' = [msgs EXCEPT ![o] = Left(t, g)] /\ table' = Touched(table, o)
      /\ turn' = [turn EXCEPT ![t] = Idle]
  BY <1>1, <1>2 DEF Returned
<1> QED BY <1>1, <1>2, <1>3, Leaves

LEMMA RaisesPreserves ==
  ASSUME Sessions, NEW t \in Turns, Raises(t)
  PROVE  Sessions'
<1>1. TypeInv /\ PlaceInv /\ turn[t].at \in {"check", "open", "model", "close"}
      /\ msgs \in [Objects -> Seq(Messages)]
      /\ name' = name /\ spent' = spent /\ requests' = requests /\ overlapped' = overlapped
      /\ table' = table /\ turn' = [turn EXCEPT ![t] = Idle]
  BY DEF Sessions, Raises, TypeInv
<1>2. PICK o \in Objects : o = turn[t].on BY <1>1, OnIs
<1> DEFINE g == Unnoted(msgs[o], t)
<1>3. msgs' = [msgs EXCEPT ![o] = Left(t, g)] BY <1>1, <1>2 DEF Raises
<1> QED BY <1>1, <1>2, <1>3, Leaves

LEMMA ModelFailsPreserves ==
  ASSUME Sessions, NEW t \in Turns, ModelFails(t)
  PROVE  Sessions' /\ Onward(t, turn[t].tokens)
<1>1. /\ turn[t].at = "model" /\ Finish(t, msgs[turn[t].on], turn[t].tokens)
      /\ name' = name /\ spent' = spent /\ requests' = requests /\ overlapped' = overlapped
      /\ TypeInv /\ PlaceInv /\ spent \in Nat
  BY DEF ModelFails, At, Sessions, TypeInv
<1>2. turn[t].tokens \in Nat /\ turn[t].owed \in Nat /\ Fits(turn[t], msgs[turn[t].on])
  BY <1>1, OnIs DEF Locals, PlaceInv
<1>3. turn[t].owed = 0 BY <1>1, <1>2 DEF Fits
<1>4. Carries(t, msgs[turn[t].on], 0) BY <1>1, <1>3, CarriesNow
<1> QED BY <1>1, <1>2, <1>4, Finishes

LEMMA ToolReturnedPreserves ==
  ASSUME Sessions, NEW t \in Turns, ToolReturned(t)
  PROVE  Sessions' /\ Onward(t, turn[t].tokens)
<1> DEFINE o == turn[t].on  h == msgs[o]  g == Append(h, Msg("tool"))
<1>1. /\ turn[t].at = "tool"
      /\ IF turn[t].owed = 1
         THEN \E late \in BOOLEAN : NextCall(t, g, turn[t].tokens, late)
         ELSE Batched(t, g, turn[t].owed - 1, turn[t].tokens)
      /\ name' = name /\ spent' = spent /\ requests' = requests /\ overlapped' = overlapped
      /\ TypeInv /\ PlaceInv /\ spent \in Nat
  BY DEF ToolReturned, At, Sessions, TypeInv
<1>2. /\ turn[t].tokens \in Nat /\ turn[t].owed \in Nat /\ Fits(turn[t], h)
      /\ h \in Seq(Messages)
  BY <1>1, OnIs DEF Locals, PlaceInv
<1>3. turn[t].owed > 0 /\ turn[t].tokens <= TurnMost BY <1>1, <1>2 DEF Fits
<1>4. Carries(t, h, turn[t].owed) BY <1>1, CarriesNow
<1>5. g = h \o Results(1) BY <1>2, OneResult
<1>6. PICK n \in Nat : n = turn[t].owed - 1 BY <1>2, <1>3
<1>7. Carries(t, g, n) /\ Last(g).role = "tool"
  <2> HIDE DEF h, g
  <2>1. 1 \in 0..turn[t].owed /\ 1 > 0 BY <1>2, <1>3
  <2>2. Carries(t, h \o Results(1), turn[t].owed - 1) /\ Last(h \o Results(1)).role = "tool"
    BY <2>1, <1>2, <1>4, CarriesResults
  <2> QED BY <2>2, <1>5, <1>6
<1> HIDE DEF g, h
<1>8. CASE turn[t].owed = 1
  <2>1. PICK late \in BOOLEAN : NextCall(t, g, turn[t].tokens, late) BY <1>1, <1>8
  <2>2. Carries(t, g, 0) BY <1>6, <1>7, <1>8
  <2> QED BY <2>1, <2>2, <1>1, <1>2, <1>7, CallsNext
<1>9. CASE turn[t].owed # 1
  <2>1. Batched(t, g, n, turn[t].tokens) /\ n > 0 BY <1>1, <1>2, <1>3, <1>6, <1>9
  <2> QED BY <2>1, <1>1, <1>2, <1>3, <1>7, Batches
<1> QED BY <1>8, <1>9

(* An answer is charged, and the turn's tokens grow by what it has used.   *)
LEMMA AnsweredPreserves ==
  ASSUME Sessions, NEW t \in Turns, Answered(t)
  PROVE  /\ Sessions'
         /\ turn[t].at = "model" /\ turn[t].tokens \in 0..TurnLimit
         /\ \E used \in 1..CallMax : spent' = spent + used /\ Onward(t, turn[t].tokens + used)
<1> DEFINE o == turn[t].on  h == msgs[o]
<1>1. /\ turn[t].at = "model" /\ TypeInv /\ PlaceInv /\ spent \in Nat
      /\ name' = name /\ requests' = requests /\ overlapped' = overlapped
  BY DEF Answered, At, Sessions, TypeInv
<1>2. PICK answer \in Answers : \E used \in Used(answer) :
        /\ spent' = spent + used
        /\ IF answer.calls = 0 THEN Finish(t, h, turn[t].tokens + used)
           ELSE Batched(t, Append(h, Asks(answer.calls)), answer.calls, turn[t].tokens + used)
  BY DEF Answered
<1>3. PICK used \in Used(answer) :
        /\ spent' = spent + used
        /\ IF answer.calls = 0 THEN Finish(t, h, turn[t].tokens + used)
           ELSE Batched(t, Append(h, Asks(answer.calls)), answer.calls, turn[t].tokens + used)
  BY <1>2
<1>4. CallMax \in Nat \ {0} /\ TurnLimit \in Nat /\ Batch \in Nat BY ConversationAssumption
<1>5. PICK n \in Nat : n = answer.calls
  <2>1. answer.calls \in 0..Batch BY DEF Answers
  <2> QED BY <2>1, <1>4
<1>6. used \in 1..CallMax
  <2>1. answer.reported \in 0..CallMax BY DEF Answers
  <2> QED BY <2>1, <1>4 DEF Used
<1>7. /\ turn[t].tokens \in Nat /\ turn[t].owed \in Nat /\ Fits(turn[t], h)
  BY <1>1, OnIs DEF Locals, PlaceInv
<1>8. turn[t].owed = 0 /\ turn[t].tokens <= TurnLimit BY <1>1, <1>7 DEF Fits
<1>9. PICK tokens \in Nat : tokens = turn[t].tokens + used BY <1>4, <1>6, <1>7
<1>10. tokens <= TurnMost BY <1>4, <1>6, <1>7, <1>8, <1>9 DEF TurnMost
<1>11. Carries(t, h, 0) BY <1>1, <1>8, CarriesNow
<1>12. spent' \in Nat BY <1>1, <1>3, <1>4, <1>6
<1>13. Sessions' /\ Onward(t, tokens)
  <2>1. CASE n = 0
    <3>1. Finish(t, h, tokens) BY <2>1, <1>3, <1>5, <1>9
    <3> QED BY <3>1, <1>1, <1>11, <1>12, Finishes
  <2>2. CASE n # 0
    <3>1. Asks(n) \in Messages /\ Asks(n).role = "assistant" /\ Asks(n).asks = n
      BY <2>2, AsksIs
    <3>2. Carries(t, Append(h, Asks(n)), n) BY <3>1, <1>11, CarriesAppend
    <3>3. Batched(t, Append(h, Asks(n)), n, tokens) BY <2>2, <1>3, <1>5, <1>9
    <3>4. n > 0 BY <2>2
    <3> QED BY <3>2, <3>3, <3>4, <1>1, <1>10, <1>12, Batches
  <2> QED BY <2>1, <2>2
<1>14. turn[t].tokens \in 0..TurnLimit BY <1>4, <1>7, <1>8
<1>15. spent' = spent + used /\ Onward(t, turn[t].tokens + used) BY <1>3, <1>9, <1>13
<1> QED BY <1>1, <1>6, <1>13, <1>14, <1>15

-----------------------------------------------------------------------------
(* The budget: what is spent comes off what the turns may still spend.     *)
LEMMA CreditsAre ==
  ASSUME NEW S \in SUBSET (Turns \X (1..TurnMost))
  PROVE  /\ IsFiniteSet(S) /\ Cardinality(S) \in Nat
         /\ Cardinality(S) <= Cardinality(Turns) * TurnMost
         /\ Cardinality(Turns) * TurnMost \in Nat
<1>1. IsFiniteSet(Turns) /\ TurnMost \in Nat BY ConversationAssumption DEF TurnMost
<1>2. IsFiniteSet(1..TurnMost) /\ Cardinality(1..TurnMost) = TurnMost
  <2>1. 1 \in Int /\ TurnMost \in Int BY <1>1
  <2>2. /\ IsFiniteSet(1..TurnMost)
        /\ Cardinality(1..TurnMost) = IF 1 > TurnMost THEN 0 ELSE TurnMost - 1 + 1
    BY <2>1, FS_Interval
  <2> QED BY <2>2, <1>1
<1>3. /\ IsFiniteSet(Turns \X (1..TurnMost))
      /\ Cardinality(Turns \X (1..TurnMost)) = Cardinality(Turns) * TurnMost
  BY <1>1, <1>2, FS_Product
<1>4. Cardinality(Turns \X (1..TurnMost)) \in Nat BY <1>3, FS_CardinalityType
<1>5. IsFiniteSet(S) /\ Cardinality(S) <= Cardinality(Turns \X (1..TurnMost))
  BY <1>3, FS_Subset
<1>6. Cardinality(S) \in Nat BY <1>5, FS_CardinalityType
<1> QED BY <1>3, <1>4, <1>5, <1>6

(* Only the turn that moves has another remainder than before.             *)
LEMMA RemainingIs ==
  ASSUME turn \in [Turns -> Locals], NEW t \in Turns, NEW l \in Locals,
         turn' = [turn EXCEPT ![t] = l]
  PROVE  /\ Remaining(t)' = IF l.at \in {"open", "model", "tool"} THEN TurnMost - l.tokens ELSE 0
         /\ \A u \in Turns : u # t => Remaining(u)' = Remaining(u)
         /\ l.tokens \in Nat /\ TurnMost \in Nat
<1>1. turn'[t] = l /\ \A u \in Turns : u # t => turn'[u] = turn[u] OBVIOUS
<1>2. l.tokens \in Nat BY DEF Locals
<1>3. TurnMost \in Nat BY ConversationAssumption DEF TurnMost
<1> QED BY <1>1, <1>2, <1>3 DEF Remaining

LEMMA FewerCredits ==
  ASSUME BudgetInv, spent \in Nat, spent' = spent, DayLimit \in Nat, Credits' \subseteq Credits
  PROVE  BudgetInv'
<1>1. Credits \in SUBSET (Turns \X (1..TurnMost)) BY DEF Credits
<1>2. /\ IsFiniteSet(Credits) /\ Cardinality(Credits) \in Nat
      /\ Cardinality(Turns) * TurnMost \in Nat
  BY <1>1, CreditsAre
<1>3. IsFiniteSet(Credits') /\ Cardinality(Credits') <= Cardinality(Credits)
  BY <1>2, FS_Subset
<1>4. Cardinality(Credits') \in Nat BY <1>3, FS_CardinalityType
<1> HIDE DEF Credits
<1> QED BY <1>2, <1>3, <1>4 DEF BudgetInv

(* A turn that moves without spending.                                     *)
LEMMA MovesCredits ==
  ASSUME Sessions, BudgetInv, NEW t \in Turns, NEW l \in Locals,
         turn' = [turn EXCEPT ![t] = l], spent' = spent,
         \/ l.at \notin {"open", "model", "tool"}
         \/ turn[t].at \in {"open", "model", "tool"} /\ l.tokens = turn[t].tokens
  PROVE  BudgetInv'
<1>1. /\ turn \in [Turns -> Locals] /\ spent \in Nat /\ DayLimit \in Nat
  BY ConversationAssumption DEF Sessions, TypeInv
<1>2. /\ Remaining(t)' = IF l.at \in {"open", "model", "tool"} THEN TurnMost - l.tokens ELSE 0
      /\ \A u \in Turns : u # t => Remaining(u)' = Remaining(u)
      /\ l.tokens \in Nat /\ TurnMost \in Nat
  BY <1>1, RemainingIs
<1>3. Remaining(t)' = 0 \/ Remaining(t)' = Remaining(t) BY <1>2 DEF Remaining
<1>4. ASSUME NEW c \in Turns \X (1..TurnMost), c[2] <= Remaining(c[1])'
      PROVE  c[2] <= Remaining(c[1])
  <2>1. PICK u \in Turns, i \in 1..TurnMost : c = <<u, i>> OBVIOUS
  <2>2. c[1] = u /\ c[2] = i BY <2>1
  <2>3. i <= Remaining(u)' BY <1>4, <2>2
  <2>4. CASE u # t BY <2>4, <2>3, <1>2, <2>2
  <2>5. CASE u = t
    <3>1. Remaining(t)' # 0 BY <2>3, <2>5, <1>2
    <3> QED BY <3>1, <2>3, <2>5, <1>3, <2>2
  <2> QED BY <2>4, <2>5
<1>5. Credits' \subseteq Credits BY <1>4 DEF Credits
<1> QED BY <1>1, <1>5, FewerCredits

(* A turn that is admitted finds the day under its limit.                  *)
LEMMA AdmittedBudget ==
  ASSUME Sessions, NEW t \in Turns, Admitted(t)
  PROVE  BudgetInv'
<1>1. spent \in Nat /\ DayLimit \in Nat \ {0} /\ spent' = spent /\ spent < DayLimit
  BY ConversationAssumption DEF Sessions, TypeInv, Admitted, OverBudget
<1>2. Credits' \in SUBSET (Turns \X (1..TurnMost)) BY DEF Credits
<1> DEFINE S == Credits'
<1>3. S \in SUBSET (Turns \X (1..TurnMost)) BY <1>2
<1> HIDE DEF S
<1>4. /\ Cardinality(S) \in Nat /\ Cardinality(S) <= Cardinality(Turns) * TurnMost
      /\ Cardinality(Turns) * TurnMost \in Nat
  BY <1>3, CreditsAre
<1>5. spent' + Cardinality(S) <= DayLimit - 1 + Cardinality(Turns) * TurnMost BY <1>1, <1>4
<1> QED BY <1>5 DEF BudgetInv, S

(* An answer is paid for from the credits of its turn.                     *)
LEMMA AnsweredBudget ==
  ASSUME Sessions, BudgetInv, NEW t \in Turns, Answered(t)
  PROVE  BudgetInv'
<1>1. /\ turn \in [Turns -> Locals] /\ spent \in Nat /\ DayLimit \in Nat
      /\ TurnLimit \in Nat /\ CallMax \in Nat
  BY ConversationAssumption DEF Sessions, TypeInv
<1>2. /\ turn[t].at = "model" /\ turn[t].tokens \in 0..TurnLimit
      /\ \E used \in 1..CallMax : spent' = spent + used /\ Onward(t, turn[t].tokens + used)
  BY AnsweredPreserves
<1>3. PICK used \in 1..CallMax : spent' = spent + used /\ Onward(t, turn[t].tokens + used)
  BY <1>2
<1>4. PICK l \in Locals : turn' = [turn EXCEPT ![t] = l] /\ l.tokens = turn[t].tokens + used
  BY <1>3 DEF Onward
<1>5. /\ Remaining(t)' = IF l.at \in {"open", "model", "tool"} THEN TurnMost - l.tokens ELSE 0
      /\ \A u \in Turns : u # t => Remaining(u)' = Remaining(u)
      /\ TurnMost \in Nat
  BY <1>1, <1>4, RemainingIs
<1>6. PICK r \in Nat : r = Remaining(t) /\ used <= r /\ r <= TurnMost
  <2>1. Remaining(t) = TurnMost - turn[t].tokens BY <1>2 DEF Remaining
  <2>2. TurnMost - turn[t].tokens \in Nat /\ used <= TurnMost - turn[t].tokens
        /\ TurnMost - turn[t].tokens <= TurnMost
    BY <1>1, <1>2, <1>3 DEF TurnMost
  <2> QED BY <2>1, <2>2
<1>7. PICK s \in Nat : s = r - used BY <1>1, <1>3, <1>6
<1>8. Remaining(t)' = s \/ Remaining(t)' = 0
  <2>1. r = TurnMost - turn[t].tokens BY <1>2, <1>6 DEF Remaining
  <2>2. s = TurnMost - l.tokens BY <2>1, <1>1, <1>2, <1>3, <1>4, <1>5, <1>7
  <2> QED BY <2>2, <1>5
<1> DEFINE D == {t} \X ((s + 1)..r)
<1>9. IsFiniteSet(D) /\ Cardinality(D) = used
  <2>1. IsFiniteSet({t}) /\ Cardinality({t}) = 1 BY FS_Singleton
  <2>2. PICK a \in Int : a = s + 1 OBVIOUS
  <2>3. IsFiniteSet(a..r) /\ Cardinality(a..r) = IF a > r THEN 0 ELSE r - a + 1
    BY FS_Interval
  <2>4. Cardinality(a..r) = used /\ used \in Nat BY <2>2, <2>3, <1>1, <1>3, <1>7
  <2>5. IsFiniteSet({t} \X (a..r)) /\ Cardinality({t} \X (a..r)) = 1 * used
    BY <2>1, <2>3, <2>4, FS_Product
  <2>6. IsFiniteSet(D) /\ Cardinality(D) = 1 * used BY <2>2, <2>5
  <2> QED BY <2>4, <2>6
<1>10. D \subseteq Credits
  <2>1. ASSUME NEW i \in (s + 1)..r PROVE <<t, i>> \in Credits
    <3>1. i \in 1..TurnMost /\ i <= Remaining(t) BY <1>5, <1>6, <1>7
    <3>2. <<t, i>> \in Turns \X (1..TurnMost) /\ <<t, i>>[1] = t /\ <<t, i>>[2] = i BY <3>1
    <3> QED BY <3>1, <3>2 DEF Credits
  <2> QED BY <2>1
<1>11. Credits' \subseteq Credits \ D
  <2>1. ASSUME NEW c \in Turns \X (1..TurnMost), c[2] <= Remaining(c[1])'
        PROVE  c[2] <= Remaining(c[1]) /\ c \notin D
    <3>1. PICK u \in Turns, i \in 1..TurnMost : c = <<u, i>> OBVIOUS
    <3>2. c[1] = u /\ c[2] = i BY <3>1
    <3>3. i <= Remaining(u)' BY <2>1, <3>2
    <3>4. CASE u # t BY <3>4, <3>1, <3>3, <1>5, <3>2
    <3>5. CASE u = t
      <4>1. i <= s
        <5>1. CASE Remaining(t)' = s BY <5>1, <3>3, <3>5
        <5>2. CASE Remaining(t)' = 0 BY <5>2, <3>3, <3>5, <1>5, <1>7
        <5> QED BY <5>1, <5>2, <1>8
      <4>2. i <= Remaining(t) BY <4>1, <1>3, <1>6, <1>7, <1>5
      <4>3. i \notin (s + 1)..r BY <4>1, <1>5
      <4>4. c \notin D BY <4>3, <3>1
      <4> QED BY <4>2, <4>4, <3>2, <3>5
    <3> QED BY <3>4, <3>5
  <2> QED BY <2>1 DEF Credits
<1>12. Credits \in SUBSET (Turns \X (1..TurnMost)) BY DEF Credits
<1> HIDE DEF D
<1> DEFINE C == Credits  E == Credits'
<1>13. C \in SUBSET (Turns \X (1..TurnMost)) /\ D \subseteq C /\ E \subseteq C \ D
  BY <1>10, <1>11, <1>12
<1>14. spent + Cardinality(C) <= DayLimit - 1 + Cardinality(Turns) * TurnMost BY DEF BudgetInv
<1> HIDE DEF C, E
<1>15. IsFiniteSet(C) /\ Cardinality(C) \in Nat /\ Cardinality(Turns) * TurnMost \in Nat
  BY <1>13, CreditsAre
<1>16. IsFiniteSet(C \ D) /\ Cardinality(C \ D) = Cardinality(C) - used
  <2>1. C \cap D = D BY <1>13
  <2>2. IsFiniteSet(C \ D) /\ Cardinality(C \ D) = Cardinality(C) - Cardinality(C \cap D)
    BY <1>15, FS_Difference, Zenon
  <2> QED BY <2>1, <2>2, <1>9, Zenon
<1>17. IsFiniteSet(E) /\ Cardinality(E) <= Cardinality(C \ D) BY <1>13, <1>16, FS_Subset
<1>18. Cardinality(E) \in Nat /\ used \in Nat BY <1>17, FS_CardinalityType
<1>19. spent' + Cardinality(E) <= DayLimit - 1 + Cardinality(Turns) * TurnMost
  BY <1>1, <1>3, <1>14, <1>15, <1>16, <1>17, <1>18
<1> QED BY <1>19 DEF BudgetInv, E

-----------------------------------------------------------------------------
LEMMA InitHolds == Init => IInv
<1> SUFFICES ASSUME Init PROVE IInv OBVIOUS
<1>1. MaxRequests \in Nat /\ DayLimit \in Nat \ {0} BY ConversationAssumption
<1>2. <<>> \in Seq(Messages) /\ <<>> \in Seq(Objects) /\ DOMAIN <<>> = {} /\ Len(<<>>) = 0
  OBVIOUS
<1>3. /\ table = <<>> /\ spent = 0 /\ requests = 0 /\ overlapped = {}
      /\ name \in [Objects -> Ids \cup {NoId}] /\ msgs \in [Objects -> Seq(Messages)]
      /\ turn \in [Turns -> Locals]
      /\ \A o \in Objects : msgs[o] = <<>>
      /\ \A t \in Turns : turn[t] = Idle
  BY <1>2, IdleIs DEF Init
<1>4. TypeInv BY <1>1, <1>2, <1>3 DEF TypeInv
<1>5. PlaceInv BY <1>3, IdleIs DEF PlaceInv, Fits
<1>6. TableInv BY <1>2, <1>3 DEF TableInv
<1>7. HistoryInv BY <1>2, <1>3 DEF HistoryInv, Instructed, Once, NotedBy
<1>8. AloneInv
  <2>1. Begins(<<>>) /\ Owes(<<>>, 0) BY <1>2 DEF Begins, Owes
  <2>2. \A t \in Turns : turn[t].on \notin Objects BY <1>3, IdleIs DEF Objects
  <2> QED BY <2>1, <2>2, <1>3 DEF AloneInv, Alone
<1>9. BudgetInv
  <2>1. Credits = {} BY <1>3, IdleIs DEF Credits, Remaining
  <2>2. Cardinality({}) = 0 BY FS_EmptySet
  <2>3. Cardinality(Turns) * TurnMost \in Nat
    <3>1. {} \in SUBSET (Turns \X (1..TurnMost)) OBVIOUS
    <3> QED BY <3>1, CreditsAre
  <2> QED BY <2>1, <2>2, <2>3, <1>1, <1>3 DEF BudgetInv
<1> QED BY <1>4, <1>5, <1>6, <1>7, <1>8, <1>9 DEF IInv

LEMMA StepHolds == IInv /\ [Next]_vars => IInv'
<1> SUFFICES ASSUME IInv, [Next]_vars PROVE IInv' OBVIOUS
<1>1. Sessions /\ BudgetInv BY DEF IInv, Sessions
<1>2. TypeInv /\ PlaceInv /\ turn \in [Turns -> Locals] BY <1>1 DEF Sessions, TypeInv
<1> SUFFICES Sessions' /\ BudgetInv' BY DEF IInv, Sessions
<1>3. CASE UNCHANGED vars
  <2>1. Sessions'
    <3>1. TypeInv' /\ TableInv' BY <1>1, <1>3 DEF vars, Sessions, TypeInv, TableInv
    <3>2. PlaceInv' BY <1>1, <1>3 DEF vars, Sessions, PlaceInv, Fits
    <3>3. HistoryInv' BY <1>1, <1>3 DEF vars, Sessions, HistoryInv, NotedBy
    <3>4. AloneInv' BY <1>1, <1>3 DEF vars, Sessions, AloneInv, Alone
    <3> QED BY <3>1, <3>2, <3>3, <3>4 DEF Sessions
  <2>2. BudgetInv' BY <1>1, <1>3 DEF vars, BudgetInv, Credits, Remaining
  <2> QED BY <2>1, <2>2
<1>4. ASSUME NEW t \in Turns, NEW id \in Ids, Continue(t, id) \/ Create(t, id)
      PROVE  Sessions' /\ BudgetInv'
  <2>1. Sessions' BY <1>1, <1>4, ContinuePreserves, CreatePreserves
  <2>2. PICK o : Begin(t, o) BY <1>4 DEF Continue, Create
  <2> DEFINE l == [Idle EXCEPT !.at = "check", !.on = o]
  <2>3. turn' = [turn EXCEPT ![t] = l] /\ spent' = spent BY <2>2 DEF Begin
  <2>4. l = turn'[t] /\ l.at = "check" BY <2>3, <1>2 DEF Idle
  <2>5. l \in Locals BY <2>1, <2>4 DEF Sessions, TypeInv
  <2> HIDE DEF l
  <2>6. BudgetInv' BY <1>1, <2>3, <2>4, <2>5, MovesCredits
  <2> QED BY <2>1, <2>6
<1>5. ASSUME NEW t \in Turns, Refused(t) \/ Closed(t) \/ Raises(t)
      PROVE  Sessions' /\ BudgetInv'
  <2>1. Sessions' BY <1>1, <1>5, RefusedPreserves, RaisesPreserves
  <2>2. turn' = [turn EXCEPT ![t] = Idle] /\ spent' = spent
    BY <1>5 DEF Refused, Closed, Raises, Returned
  <2>3. BudgetInv' BY <1>1, <2>2, IdleIs, MovesCredits
  <2> QED BY <2>1, <2>3
<1>6. ASSUME NEW t \in Turns, Admitted(t) PROVE Sessions' /\ BudgetInv'
  BY <1>1, <1>6, AdmittedPreserves, AdmittedBudget
<1>7. ASSUME NEW t \in Turns, Opened(t) PROVE Sessions' /\ BudgetInv'
  <2>1. Sessions' BY <1>1, <1>7, OpenedPreserves
  <2>2. turn[t].at = "open" /\ turn[t] \in Locals /\ spent' = spent
    BY <1>2, <1>7 DEF Opened, At
  <2>3. PICK noted \in BOOLEAN :
          turn' = [turn EXCEPT ![t].at = "model", ![t].calls = 1, ![t].noted = noted]
    BY <1>7 DEF Opened
  <2> DEFINE l == [turn[t] EXCEPT !.at = "model", !.calls = 1, !.noted = noted]
  <2>4. turn' = [turn EXCEPT ![t] = l] BY <2>3, <1>2
  <2>5. l \in Locals /\ l.tokens = turn[t].tokens BY <2>2 DEF Locals, Places
  <2> HIDE DEF l
  <2>6. BudgetInv' BY <1>1, <2>2, <2>4, <2>5, MovesCredits
  <2> QED BY <2>1, <2>6
<1>8. ASSUME NEW t \in Turns, Answered(t) PROVE Sessions' /\ BudgetInv'
  BY <1>1, <1>8, AnsweredPreserves, AnsweredBudget
<1>9. ASSUME NEW t \in Turns, ModelFails(t) \/ ToolReturned(t) PROVE Sessions' /\ BudgetInv'
  <2>1. Sessions' /\ Onward(t, turn[t].tokens)
    BY <1>1, <1>9, ModelFailsPreserves, ToolReturnedPreserves
  <2>2. turn[t].at \in {"model", "tool"} /\ spent' = spent
    BY <1>9 DEF ModelFails, ToolReturned, At
  <2>3. PICK l \in Locals : turn' = [turn EXCEPT ![t] = l] /\ l.tokens = turn[t].tokens
    BY <2>1 DEF Onward
  <2>4. BudgetInv' BY <1>1, <2>2, <2>3, MovesCredits
  <2> QED BY <2>1, <2>4
<1> QED BY <1>3, <1>4, <1>5, <1>6, <1>7, <1>8, <1>9 DEF Next

(* The inductive invariant: what a turn knows at each of its places, what  *)
(* the histories keep, and the credits that the budget is paid from.       *)
THEOREM Invariance == Spec => []IInv
<1>1. Init => IInv BY InitHolds
<1>2. IInv /\ [Next]_vars => IInv' BY StepHolds
<1> QED BY <1>1, <1>2, PTL DEF Spec

(* Every reachable state of the turns and the histories is well typed.     *)
THEOREM TypeCorrectness == Spec => []TypeInv
<1>1. IInv => TypeInv BY DEF IInv
<1> QED BY <1>1, Invariance, PTL

(* The day is overrun by no more than the turns that overlap at the check  *)
(* can use, for any limits and any number of turns (_account, budget_usage *)
(* and the guard at the head of run_turn).                                 *)
THEOREM BudgetIsBounded == Spec => []DayIsBounded
<1>1. IInv => DayIsBounded
  <2> SUFFICES ASSUME IInv PROVE DayIsBounded OBVIOUS
  <2>1. spent \in Nat /\ BudgetInv BY DEF IInv, TypeInv
  <2>2. DayLimit \in Nat \ {0} BY ConversationAssumption
  <2>3. Credits \in SUBSET (Turns \X (1..TurnMost)) BY DEF Credits
  <2>4. Cardinality(Credits) \in Nat /\ Cardinality(Turns) * TurnMost \in Nat
    BY <2>3, CreditsAre
  <2> QED BY <2>1, <2>2, <2>4 DEF BudgetInv, DayIsBounded
<1> QED BY <1>1, Invariance, PTL

-----------------------------------------------------------------------------
(* The conversion, message by message: what it has come to after i of them *)
(* satisfies Runs.                                                         *)
Runs(h, f) ==
  f = [i \in 0..Len(h) |->
         IF i = 0 THEN <<>>
         ELSE IF h[i].role \in {"system", "note"} THEN f[i - 1] ELSE Appended(f[i - 1], h[i])]

LEMMA ConvertedIs ==
  ASSUME NEW h, NEW f, Runs(h, f)
  PROVE  \E g : Runs(h, g) /\ Converted(h) = g[Len(h)]
<1> DEFINE out == CHOOSE g : Runs(h, g)
<1>1. Runs(h, out) OBVIOUS
<1>2. Converted(h) = out[Len(h)] BY DEF Converted, Runs
<1> HIDE DEF out
<1> QED BY <1>1, <1>2

(* What is sent: messages of blocks.                                       *)
BlockSeq == Seq({"text", "use", "result"})
Sent == [role : {"user", "assistant"}, blocks : BlockSeq]

LEMMA BlocksAre ==
  ASSUME NEW m \in Messages
  PROVE  /\ Blocks(m) \in BlockSeq /\ Side(m) \in {"user", "assistant"}
         /\ m.asks > 0 => Len(Blocks(m)) = m.asks /\ \A j \in 1..m.asks : Blocks(m)[j] = "use"
         /\ m.asks = 0 => /\ Len(Blocks(m)) = 1
                          /\ Blocks(m)[1] = IF m.role = "tool" THEN "result" ELSE "text"
<1>1. m.asks \in Nat BY MessageIs
<1>2. Side(m) \in {"user", "assistant"} BY DEF Side
<1>3. CASE m.asks > 0
  <2>1. Blocks(m) = [i \in 1..m.asks |-> "use"] BY <1>3 DEF Blocks
  <2> QED BY <2>1, <1>1, <1>2, <1>3 DEF BlockSeq
<1>4. CASE m.asks = 0
  <2>1. Blocks(m) = <<IF m.role = "tool" THEN "result" ELSE "text">> BY <1>4 DEF Blocks
  <2>2. PICK b \in {"text", "use", "result"} : b = IF m.role = "tool" THEN "result" ELSE "text"
    OBVIOUS
  <2>3. Blocks(m) = <<b>> BY <2>1, <2>2
  <2>4. <<b>> \in Seq({"text", "use", "result"}) /\ Len(<<b>>) = 1 /\ <<b>>[1] = b OBVIOUS
  <2> QED BY <2>2, <2>3, <2>4, <1>2, <1>4 DEF BlockSeq
<1> QED BY <1>1, <1>3, <1>4

LEMMA After ==
  ASSUME NEW b \in BlockSeq, NEW c \in BlockSeq
  PROVE  LET d == b \o c
         IN /\ d \in BlockSeq /\ Len(d) = Len(b) + Len(c)
            /\ \A j \in 1..Len(b) : d[j] = b[j]
            /\ \A j \in (Len(b) + 1)..(Len(b) + Len(c)) : d[j] = c[j - Len(b)]
            /\ Len(b) \in Nat /\ Len(c) \in Nat
<1> DEFINE d == b \o c
<1>1. Len(b) \in Nat /\ Len(c) \in Nat BY LenProperties DEF BlockSeq
<1>2. /\ d \in BlockSeq /\ Len(d) = Len(b) + Len(c)
      /\ \A i \in 1..(Len(b) + Len(c)) : d[i] = IF i <= Len(b) THEN b[i] ELSE c[i - Len(b)]
  BY ConcatProperties DEF BlockSeq
<1> HIDE DEF d
<1>3. \A j \in 1..Len(b) : d[j] = b[j] BY <1>1, <1>2
<1>4. \A j \in (Len(b) + 1)..(Len(b) + Len(c)) : d[j] = c[j - Len(b)] BY <1>1, <1>2
<1> QED BY <1>1, <1>2, <1>3, <1>4 DEF d

(* A message of the conversion begins, or the last one goes on.            *)
Pushed(out, p, s, c) ==
  /\ Len(p) = Len(out) + 1
  /\ \A k \in 1..Len(out) : p[k] = out[k]
  /\ p[Len(out) + 1].role = s /\ p[Len(out) + 1].blocks = c
Merged(out, p, s, c) ==
  /\ Len(p) = Len(out) /\ Len(out) > 0
  /\ \A k \in 1..(Len(out) - 1) : p[k] = out[k]
  /\ out[Len(out)].role = s /\ p[Len(out)].role = s
  /\ p[Len(out)].blocks = out[Len(out)].blocks \o c

LEMMA AppendedIs ==
  ASSUME NEW out \in Seq(Sent), NEW m \in Messages
  PROVE  LET p == Appended(out, m)
         IN /\ p \in Seq(Sent)
            /\ \/ Merged(out, p, Side(m), Blocks(m))
               \/ /\ Pushed(out, p, Side(m), Blocks(m))
                  /\ Len(out) > 0 => out[Len(out)].role # Side(m)
<1> DEFINE p == Appended(out, m)  n == Len(out)
<1>1. n \in Nat /\ DOMAIN out = 1..n /\ (out # <<>> <=> n > 0) BY LenProperties, EmptySeq
<1>2. Blocks(m) \in BlockSeq /\ Side(m) \in {"user", "assistant"} BY BlocksAre
<1>3. CASE out # <<>> /\ Last(out).role = Side(m)
  <2>1. n \in 1..n /\ out[n] \in Sent /\ out[n].role = Side(m)
    BY <1>1, <1>3, ElementOfSeq DEF Last
  <2>2. p = [out EXCEPT ![n].blocks = @ \o Blocks(m)] BY <1>3 DEF Appended
  <2> DEFINE s == [out[n] EXCEPT !.blocks = out[n].blocks \o Blocks(m)]
  <2>3. s \in Sent /\ s.role = Side(m) /\ s.blocks = out[n].blocks \o Blocks(m)
    <3>1. out[n].blocks \in BlockSeq BY <2>1 DEF Sent
    <3>2. out[n].blocks \o Blocks(m) \in BlockSeq BY <3>1, <1>2, After
    <3> QED BY <3>2, <2>1 DEF Sent
  <2>4. p = [out EXCEPT ![n] = s] BY <2>1, <2>2
  <2> HIDE DEF s, p
  <2>5. p \in Seq(Sent) /\ Len(p) = n /\ p[n] = s /\ \A k \in 1..(n - 1) : p[k] = out[k]
    <3>1. /\ [out EXCEPT ![n] = s] \in Seq(Sent) /\ Len([out EXCEPT ![n] = s]) = Len(out)
          /\ \A j \in 1..Len(out) : [out EXCEPT ![n] = s][j] = IF j = n THEN s ELSE out[j]
      BY <2>1, <2>3, ExceptSeq
    <3>2. /\ p \in Seq(Sent) /\ Len(p) = n
          /\ \A j \in 1..n : p[j] = IF j = n THEN s ELSE out[j]
      BY <3>1, <2>4
    <3> QED BY <3>2, <1>1, <2>1
  <2>6. Merged(out, p, Side(m), Blocks(m)) BY <1>1, <2>1, <2>3, <2>5 DEF Merged
  <2> QED BY <2>5, <2>6 DEF p
<1>4. CASE ~(out # <<>> /\ Last(out).role = Side(m))
  <2> DEFINE s == [role |-> Side(m), blocks |-> Blocks(m)]
  <2>1. s \in Sent /\ s.role = Side(m) /\ s.blocks = Blocks(m) BY <1>2 DEF Sent
  <2>2. p = Append(out, s) BY <1>4 DEF Appended
  <2> HIDE DEF s, p
  <2>3. /\ p \in Seq(Sent) /\ Len(p) = n + 1 /\ p[n + 1] = s
        /\ \A k \in 1..n : p[k] = out[k]
    BY <2>1, <2>2, AppendProperties
  <2>4. Len(out) > 0 => out[Len(out)].role # Side(m) BY <1>1, <1>4 DEF Last
  <2>5. Pushed(out, p, Side(m), Blocks(m)) BY <2>1, <2>3 DEF Pushed
  <2> QED BY <2>3, <2>4, <2>5 DEF p
<1> QED BY <1>3, <1>4

(* The conversion of a history, in all its steps.                          *)
Takes(h, f, i) ==
  f[i] = IF h[i].role \in {"system", "note"} THEN f[i - 1] ELSE Appended(f[i - 1], h[i])

LEMMA Converts ==
  ASSUME NEW h \in Seq(Messages)
  PROVE  \E f \in [0..Len(h) -> Seq(Sent)] :
           /\ Converted(h) = f[Len(h)]
           /\ f[0] = <<>>
           /\ \A i \in 1..Len(h) : Takes(h, f, i)
<1>1. Len(h) \in Nat /\ DOMAIN h = 1..Len(h) BY LenProperties
<1> DEFINE S == {n \in 0..Len(h) : \E f \in [0..n -> Seq(Sent)] :
                   f[0] = <<>> /\ \A i \in 1..n : Takes(h, f, i)}
<1>2. 0 \in S
  <2> DEFINE f == [i \in 0..0 |-> <<>>]
  <2>1. <<>> \in Seq(Sent) OBVIOUS
  <2>2. f \in [0..0 -> Seq(Sent)] /\ f[0] = <<>> BY <2>1
  <2>3. 1..0 = {} OBVIOUS
  <2> HIDE DEF f
  <2> QED BY <2>2, <2>3, <1>1
<1>3. ASSUME NEW n \in 0..(Len(h) - 1), n \in S PROVE n + 1 \in S
  <2>1. PICK f \in [0..n -> Seq(Sent)] : f[0] = <<>> /\ \A i \in 1..n : Takes(h, f, i) BY <1>3
  <2>2. PICK k \in 1..Len(h) : k = n + 1 BY <1>1
  <2> DEFINE x == IF h[k].role \in {"system", "note"} THEN f[n] ELSE Appended(f[n], h[k])
             g == [i \in 0..k |-> IF i = k THEN x ELSE f[i]]
  <2>3. x \in Seq(Sent)
    <3>1. f[n] \in Seq(Sent) /\ h[k] \in Messages BY <1>1, <2>2
    <3> QED BY <3>1, AppendedIs
  <2> HIDE DEF x
  <2>4. \A i \in 0..k : i # k => i \in 0..n BY <2>2
  <2>5. g \in [0..k -> Seq(Sent)] /\ g[k] = x /\ \A i \in 0..n : g[i] = f[i]
    BY <2>2, <2>3, <2>4
  <2> HIDE DEF g
  <2>6. g[0] = <<>> BY <2>1, <2>5
  <2>7. ASSUME NEW i \in 1..k PROVE Takes(h, g, i)
    <3>1. CASE i = k
      <4>1. i - 1 = n /\ n \in 0..n BY <3>1, <2>2
      <4>2. g[i - 1] = f[n] /\ g[i] = x BY <4>1, <3>1, <2>5
      <4> QED BY <4>2, <3>1 DEF x, Takes
    <3>2. CASE i # k
      <4>1. i \in 1..n /\ i \in 0..n /\ i - 1 \in 0..n BY <3>2, <2>2
      <4>2. g[i] = f[i] /\ g[i - 1] = f[i - 1] BY <4>1, <2>5
      <4>3. Takes(h, f, i) BY <4>1, <2>1
      <4> QED BY <4>1, <4>2, <4>3 DEF Takes
    <3> QED BY <3>1, <3>2
  <2>8. k \in S
    <3>1. \E e \in [0..k -> Seq(Sent)] : e[0] = <<>> /\ \A i \in 1..k : Takes(h, e, i)
      BY <2>5, <2>6, <2>7
    <3>2. k \in 0..Len(h) BY <2>2, <1>1
    <3> QED BY <3>1, <3>2
  <2> QED BY <2>2, <2>8
<1>4. Len(h) \in S
  <2> HIDE DEF S
  <2>1. 0..Len(h) \subseteq S BY <1>1, <1>2, <1>3, UpTo
  <2> QED BY <2>1, <1>1
<1>5. PICK f \in [0..Len(h) -> Seq(Sent)] : f[0] = <<>> /\ \A i \in 1..Len(h) : Takes(h, f, i)
  BY <1>4
<1>6. Runs(h, f)
  <2>1. \A i \in 0..Len(h) :
          f[i] = IF i = 0 THEN <<>>
                 ELSE IF h[i].role \in {"system", "note"} THEN f[i - 1]
                      ELSE Appended(f[i - 1], h[i])
    <3> TAKE i \in 0..Len(h)
    <3>1. CASE i = 0 BY <3>1, <1>5
    <3>2. CASE i # 0
      <4>1. i \in 1..Len(h) BY <3>2
      <4>2. Takes(h, f, i) BY <4>1, <1>5
      <4> QED BY <4>2, <3>2 DEF Takes
    <3> QED BY <3>1, <3>2
  <2>2. f = [i \in 0..Len(h) |-> f[i]] BY <1>5
  <2> QED BY <2>1, <2>2, Zenon DEF Runs
<1>7. PICK g : Runs(h, g) /\ Converted(h) = g[Len(h)] BY <1>6, ConvertedIs
<1>8. \A i \in 0..Len(h) :
        g[i] = IF i = 0 THEN <<>>
               ELSE IF h[i].role \in {"system", "note"} THEN g[i - 1]
                    ELSE Appended(g[i - 1], h[i])
  BY <1>7, Zenon DEF Runs
<1>9. DOMAIN g = 0..Len(h) /\ g = [i \in 0..Len(h) |-> g[i]] BY <1>7, Zenon DEF Runs
<1>10. g[0] = <<>> /\ \A i \in 1..Len(h) : Takes(h, g, i)
  <2>1. 0 \in 0..Len(h) /\ \A i \in 1..Len(h) : i \in 0..Len(h) /\ i # 0 BY <1>1
  <2> QED BY <2>1, <1>8 DEF Takes
<1>11. g \in [0..Len(h) -> Seq(Sent)]
  <2> DEFINE T == {n \in 0..Len(h) : g[n] \in Seq(Sent)}
  <2>1. 0 \in T
    <3>1. <<>> \in Seq(Sent) OBVIOUS
    <3>2. 0 \in 0..Len(h) BY <1>1
    <3>3. g[0] \in Seq(Sent) BY <3>1, <1>10
    <3> QED BY <3>2, <3>3
  <2>2. ASSUME NEW n \in 0..(Len(h) - 1), n \in T PROVE n + 1 \in T
    <3>1. PICK k \in 1..Len(h) : k = n + 1 /\ k - 1 = n BY <1>1
    <3>2. Takes(h, g, k) /\ h[k] \in Messages /\ g[n] \in Seq(Sent) BY <1>1, <1>10, <2>2
    <3>3. g[k] = IF h[k].role \in {"system", "note"} THEN g[n] ELSE Appended(g[n], h[k])
      BY <3>1, <3>2 DEF Takes
    <3>4. g[k] \in Seq(Sent) BY <3>2, <3>3, AppendedIs
    <3> QED BY <3>1, <3>4
  <2> HIDE DEF T
  <2>3. 0..Len(h) \subseteq T BY <1>1, <2>1, <2>2, UpTo
  <2> QED BY <2>3, <1>9 DEF T
<1> QED BY <1>7, <1>10, <1>11

-----------------------------------------------------------------------------
(* The first a blocks answer, and no others; the last a blocks ask.        *)
Answering(b, a) ==
  /\ a \in Nat /\ a <= Len(b)
  /\ \A j \in 1..Len(b) : b[j] = "result" <=> j <= a
Using(b, a) ==
  /\ a \in Nat /\ a <= Len(b)
  /\ \A j \in 1..Len(b) : b[j] = "use" <=> j > Len(b) - a

LEMMA MoreBlocks ==
  ASSUME NEW b \in BlockSeq, NEW c \in BlockSeq
  PROVE  /\ \A a : Answering(b, a) /\ (\A j \in 1..Len(c) : c[j] # "result") => Answering(b \o c, a)
         /\ \A a : Using(b, 0) /\ Using(c, a) => Using(b \o c, a)
<1> DEFINE d == b \o c
<1>1. /\ d \in BlockSeq /\ Len(d) = Len(b) + Len(c)
      /\ \A j \in 1..Len(b) : d[j] = b[j]
      /\ \A j \in (Len(b) + 1)..(Len(b) + Len(c)) : d[j] = c[j - Len(b)]
      /\ Len(b) \in Nat /\ Len(c) \in Nat
  BY After
<1> HIDE DEF d
<1>2. ASSUME NEW a, Answering(b, a), \A j \in 1..Len(c) : c[j] # "result" PROVE Answering(d, a)
  <2>1. a \in Nat /\ a <= Len(b) BY <1>2 DEF Answering
  <2>2. ASSUME NEW j \in 1..Len(d) PROVE d[j] = "result" <=> j <= a
    <3>1. CASE j <= Len(b) BY <3>1, <1>1, <1>2, <2>1 DEF Answering
    <3>2. CASE j > Len(b)
      <4>1. PICK i \in 1..Len(c) : i = j - Len(b) BY <3>2, <1>1
      <4>2. d[j] = c[i] BY <4>1, <3>2, <1>1
      <4>3. ~(j <= a) BY <3>2, <2>1, <1>1
      <4> QED BY <4>2, <4>3, <1>2
    <3> QED BY <3>1, <3>2, <1>1
  <2> QED BY <2>1, <2>2, <1>1 DEF Answering
<1>3. ASSUME NEW a, Using(b, 0), Using(c, a) PROVE Using(d, a)
  <2>1. a \in Nat /\ a <= Len(c) BY <1>3 DEF Using
  <2>2. ASSUME NEW j \in 1..Len(d) PROVE d[j] = "use" <=> j > Len(d) - a
    <3>1. CASE j <= Len(b)
      <4>1. d[j] = b[j] /\ b[j] # "use" BY <3>1, <1>1, <1>3 DEF Using
      <4>2. ~(j > Len(d) - a) BY <3>1, <2>1, <1>1
      <4> QED BY <4>1, <4>2
    <3>2. CASE j > Len(b)
      <4>1. PICK i \in 1..Len(c) : i = j - Len(b) BY <3>2, <1>1
      <4>2. d[j] = c[i] BY <4>1, <3>2, <1>1
      <4>3. c[i] = "use" <=> i > Len(c) - a BY <1>3 DEF Using
      <4>4. i > Len(c) - a <=> j > Len(d) - a BY <4>1, <2>1, <1>1
      <4> QED BY <4>2, <4>3, <4>4
    <3> QED BY <3>1, <3>2, <1>1
  <2> QED BY <2>1, <2>2, <1>1 DEF Using
<1> QED BY <1>2, <1>3 DEF d

LEMMA SentIs ==
  ASSUME NEW out \in Seq(Sent)
  PROVE  /\ Len(out) \in Nat
         /\ \A k \in 1..Len(out) : out[k] \in Sent /\ out[k].blocks \in BlockSeq
<1>1. Len(out) \in Nat BY LenProperties
<1>2. ASSUME NEW k \in 1..Len(out) PROVE out[k] \in Sent BY ElementOfSeq
<1>3. \A m \in Sent : m.blocks \in BlockSeq BY DEF Sent
<1> QED BY <1>1, <1>2, <1>3

(* All the calls of b are answered at the head of c.                       *)
Linked(b, c) == \E a \in Nat : Using(b, a) /\ Answering(c, a)

(* A conversation that is accepted but for n answers to its last calls.    *)
Sound(out, n) ==
  /\ Len(out) > 0 => out[1].role = "user" /\ Answering(out[1].blocks, 0)
  /\ \A k \in 1..Len(out) : out[k].role = "user" => Using(out[k].blocks, 0)
  /\ \A k \in 2..Len(out) : k < Len(out) \/ n = 0 \/ out[k].role = "assistant"
                              => Linked(out[k - 1].blocks, out[k].blocks)
  /\ n = 0 /\ Len(out) > 0 => Using(out[Len(out)].blocks, 0)
  /\ n > 0 =>
       \/ /\ Len(out) > 0 /\ out[Len(out)].role = "assistant"
          /\ Using(out[Len(out)].blocks, n)
       \/ /\ Len(out) > 1 /\ out[Len(out)].role = "user"
          /\ \A j \in 1..Len(out[Len(out)].blocks) : out[Len(out)].blocks[j] = "result"
          /\ Using(out[Len(out) - 1].blocks, n + Len(out[Len(out)].blocks))

(* What is not an answer follows when none is owed.                        *)
LEMMA Adds ==
  ASSUME NEW out \in Seq(Sent), NEW p \in Seq(Sent), Sound(out, 0),
         NEW c \in BlockSeq, \A j \in 1..Len(c) : c[j] # "result",
         NEW n \in Nat, Using(c, n), NEW s \in {"user", "assistant"},
         n > 0 => s = "assistant", Len(out) = 0 => s = "user",
         Pushed(out, p, s, c) \/ Merged(out, p, s, c)
  PROVE  Sound(p, n) /\ Len(p) > 0 /\ p[Len(p)].role = s
<1>1. /\ Len(out) \in Nat /\ Len(p) \in Nat
      /\ \A k \in 1..Len(out) : out[k] \in Sent /\ out[k].blocks \in BlockSeq
  BY SentIs
<1>2. Len(c) \in Nat BY LenProperties DEF BlockSeq
<1>3. Answering(c, 0) BY <1>2 DEF Answering
<1>4. CASE Pushed(out, p, s, c)
  <2>1. /\ Len(p) = Len(out) + 1 /\ \A k \in 1..Len(out) : p[k] = out[k]
        /\ p[Len(p)].role = s /\ p[Len(p)].blocks = c
    BY <1>4 DEF Pushed
  <2>2. p[1].role = "user" /\ Answering(p[1].blocks, 0)
    <3>1. CASE Len(out) = 0 BY <3>1, <2>1, <1>3
    <3>2. CASE Len(out) > 0 BY <3>2, <2>1, <1>1 DEF Sound
    <3> QED BY <3>1, <3>2, <1>1
  <2>3. \A k \in 1..Len(p) : p[k].role = "user" => Using(p[k].blocks, 0)
    <3> TAKE k \in 1..Len(p)
    <3>1. CASE k = Len(p) BY <3>1, <2>1, <1>1
    <3>2. CASE k # Len(p)
      <4>1. k \in 1..Len(out) /\ p[k] = out[k] BY <3>2, <2>1, <1>1
      <4> QED BY <4>1 DEF Sound
    <3> QED BY <3>1, <3>2
  <2>4. \A k \in 2..Len(p) : Linked(p[k - 1].blocks, p[k].blocks)
    <3> TAKE k \in 2..Len(p)
    <3>1. PICK i \in 1..Len(out) : i = k - 1 /\ p[i] = out[i] BY <2>1, <1>1
    <3>2. CASE k = Len(p)
      <4>1. i = Len(out) /\ Len(out) > 0 BY <3>1, <3>2, <2>1, <1>1
      <4>2. Using(out[i].blocks, 0) BY <4>1 DEF Sound
      <4>3. Linked(out[i].blocks, c) BY <4>2, <1>3 DEF Linked
      <4> QED BY <4>3, <3>1, <3>2, <2>1
    <3>3. CASE k # Len(p)
      <4>1. k \in 2..Len(out) /\ p[k] = out[k] BY <3>3, <2>1, <1>1
      <4>2. Linked(out[i].blocks, out[k].blocks) BY <4>1, <3>1 DEF Sound
      <4> QED BY <4>1, <4>2, <3>1
    <3> QED BY <3>2, <3>3
  <2> QED BY <2>1, <2>2, <2>3, <2>4, <1>1 DEF Sound
<1>5. CASE Merged(out, p, s, c)
  <2> DEFINE m == Len(out)
  <2>1. /\ Len(p) = m /\ m > 0 /\ \A k \in 1..(m - 1) : p[k] = out[k]
        /\ out[m].role = s /\ p[m].role = s /\ p[m].blocks = out[m].blocks \o c
    BY <1>5 DEF Merged
  <2>2. m \in 1..m /\ out[m].blocks \in BlockSeq BY <1>1, <2>1
  <2>3. Using(out[m].blocks, 0) BY <2>1 DEF Sound
  <2>4. /\ \A a : Answering(out[m].blocks, a) => Answering(p[m].blocks, a)
        /\ Using(p[m].blocks, n)
    BY <2>1, <2>2, <2>3, MoreBlocks
  <2> HIDE DEF m
  <2>5. p[1].role = "user" /\ Answering(p[1].blocks, 0)
    <3>0. out[1].role = "user" /\ Answering(out[1].blocks, 0) BY <2>1 DEF Sound, m
    <3>1. CASE m = 1 BY <3>0, <3>1, <2>1, <2>4
    <3>2. CASE m # 1
      <4>1. 1 \in 1..(m - 1) BY <3>2, <2>2
      <4> QED BY <4>1, <3>0, <2>1
    <3> QED BY <3>1, <3>2
  <2>6. \A k \in 1..m : p[k].role = "user" => Using(p[k].blocks, 0)
    <3> TAKE k \in 1..m
    <3>1. CASE k = m
      <4>1. s = "user" => n = 0 OBVIOUS
      <4> QED BY <4>1, <3>1, <2>1, <2>4
    <3>2. CASE k # m
      <4>1. k \in 1..(m - 1) /\ p[k] = out[k] BY <3>2, <2>1
      <4> QED BY <4>1 DEF Sound, m
    <3> QED BY <3>1, <3>2
  <2>7. \A k \in 2..m : Linked(p[k - 1].blocks, p[k].blocks)
    <3> TAKE k \in 2..m
    <3>1. PICK i \in 1..(m - 1) : i = k - 1 /\ p[i] = out[i] BY <2>1, <2>2
    <3>2. Linked(out[i].blocks, out[k].blocks) BY <3>1 DEF Sound, m
    <3>3. CASE k = m
      <4>1. Linked(out[i].blocks, p[m].blocks) BY <3>2, <3>3, <2>4 DEF Linked
      <4> QED BY <4>1, <3>1, <3>3
    <3>4. CASE k # m
      <4>1. k \in 1..(m - 1) /\ p[k] = out[k] BY <3>4, <2>1, <2>2
      <4> QED BY <4>1, <3>1, <3>2
    <3> QED BY <3>3, <3>4
  <2> QED BY <2>1, <2>4, <2>5, <2>6, <2>7 DEF Sound
<1> QED BY <1>4, <1>5

(* An answer follows when one is owed.                                     *)
LEMMA Replies ==
  ASSUME NEW out \in Seq(Sent), NEW p \in Seq(Sent), NEW n \in Nat, n > 0, Sound(out, n),
         NEW c \in BlockSeq, Len(c) = 1, c[1] = "result",
         \/ Merged(out, p, "user", c)
         \/ Pushed(out, p, "user", c) /\ (Len(out) > 0 => out[Len(out)].role # "user")
  PROVE  Sound(p, n - 1) /\ Len(p) > 0 /\ p[Len(p)].role = "user"
<1>1. /\ Len(out) \in Nat /\ Len(p) \in Nat /\ Len(out) > 0
      /\ \A k \in 1..Len(out) : out[k] \in Sent /\ out[k].blocks \in BlockSeq
  <2>1. Len(out) > 0
    <3>1. Len(out) \in Nat BY SentIs
    <3> QED BY <3>1 DEF Sound
  <2> QED BY <2>1, SentIs
<1>2. PICK r \in Nat : r = n - 1 OBVIOUS
<1>3. CASE Pushed(out, p, "user", c) /\ (Len(out) > 0 => out[Len(out)].role # "user")
  <2>1. /\ Len(p) = Len(out) + 1 /\ \A k \in 1..Len(out) : p[k] = out[k]
        /\ p[Len(p)].role = "user" /\ p[Len(p)].blocks = c
    BY <1>3 DEF Pushed
  <2>2. Using(out[Len(out)].blocks, n) /\ out[Len(out)].role = "assistant"
    BY <1>1, <1>3 DEF Sound
  <2>3. Using(c, 0) /\ Answering(c, 1) BY DEF Using, Answering
  <2>4. p[1].role = "user" /\ Answering(p[1].blocks, 0) BY <1>1, <2>1 DEF Sound
  <2>5. \A k \in 1..Len(p) : p[k].role = "user" => Using(p[k].blocks, 0)
    <3> TAKE k \in 1..Len(p)
    <3>1. CASE k = Len(p) BY <3>1, <2>1, <2>3
    <3>2. CASE k # Len(p)
      <4>1. k \in 1..Len(out) /\ p[k] = out[k] BY <3>2, <2>1, <1>1
      <4> QED BY <4>1 DEF Sound
    <3> QED BY <3>1, <3>2
  <2>6. ASSUME NEW k \in 2..Len(p), k < Len(p) \/ r = 0
        PROVE  Linked(p[k - 1].blocks, p[k].blocks)
    <3>1. PICK i \in 1..Len(out) : i = k - 1 /\ p[i] = out[i] BY <2>1, <1>1
    <3>2. CASE k = Len(p)
      <4>1. i = Len(out) /\ n = 1 BY <3>1, <3>2, <2>1, <2>6, <1>1, <1>2
      <4>2. Using(out[i].blocks, 1) BY <4>1, <2>2
      <4>3. Linked(out[i].blocks, c) BY <4>2, <2>3 DEF Linked
      <4> QED BY <4>3, <3>1, <3>2, <2>1
    <3>3. CASE k # Len(p)
      <4>1. k \in 2..Len(out) /\ p[k] = out[k] BY <3>3, <2>1, <1>1
      <4>2. k < Len(out) \/ out[k].role = "assistant" BY <4>1, <2>2, <1>1
      <4>3. Linked(out[i].blocks, out[k].blocks) BY <4>1, <4>2, <3>1 DEF Sound
      <4> QED BY <4>1, <4>3, <3>1
    <3> QED BY <3>2, <3>3
  <2>7. r > 0 => /\ Len(p) > 1
                 /\ \A j \in 1..Len(p[Len(p)].blocks) : p[Len(p)].blocks[j] = "result"
                 /\ Using(p[Len(p) - 1].blocks, r + Len(p[Len(p)].blocks))
    <3>1. Len(p) - 1 = Len(out) /\ r + 1 = n BY <2>1, <1>1, <1>2
    <3>2. p[Len(p) - 1] = out[Len(out)] BY <3>1, <2>1, <1>1
    <3>3. r + Len(c) = n BY <3>1
    <3>4. Using(p[Len(p) - 1].blocks, r + Len(p[Len(p)].blocks)) BY <3>2, <3>3, <2>1, <2>2
    <3>5. \A j \in 1..Len(c) : c[j] = "result" OBVIOUS
    <3>6. Len(p) > 1 BY <2>1, <1>1
    <3>7. \A j \in 1..Len(p[Len(p)].blocks) : p[Len(p)].blocks[j] = "result"
      BY <3>5, <2>1
    <3> QED BY <3>4, <3>6, <3>7
  <2>8. p[Len(p)].role # "assistant" BY <2>1
  <2>9. Sound(p, r) BY <2>1, <2>3, <2>4, <2>5, <2>6, <2>7, <2>8 DEF Sound
  <2> QED BY <2>9, <2>1, <1>1, <1>2
<1>4. CASE Merged(out, p, "user", c)
  <2> DEFINE m == Len(out)  b == out[m].blocks  d == p[m].blocks
  <2>1. /\ Len(p) = m /\ m > 0 /\ \A k \in 1..(m - 1) : p[k] = out[k]
        /\ out[m].role = "user" /\ p[m].role = "user" /\ d = b \o c
    BY <1>4 DEF Merged
  <2>2. m \in 1..m /\ b \in BlockSeq /\ m \in Nat BY <1>1, <2>1
  <2>3. /\ m > 1 /\ (\A j \in 1..Len(b) : b[j] = "result")
        /\ Using(out[m - 1].blocks, n + Len(b))
    BY <2>1 DEF Sound
  <2>4. /\ d \in BlockSeq /\ Len(d) = Len(b) + 1 /\ Len(b) \in Nat
        /\ \A j \in 1..Len(b) : d[j] = b[j]
        /\ \A j \in (Len(b) + 1)..(Len(b) + 1) : d[j] = c[j - Len(b)]
    <3>1. /\ b \o c \in BlockSeq /\ Len(b \o c) = Len(b) + Len(c)
          /\ \A j \in 1..Len(b) : (b \o c)[j] = b[j]
          /\ \A j \in (Len(b) + 1)..(Len(b) + Len(c)) : (b \o c)[j] = c[j - Len(b)]
          /\ Len(b) \in Nat
      BY <2>2, After
    <3> QED BY <3>1, <2>1
  <2> HIDE DEF m, b, d
  <2>5. \A j \in 1..Len(d) : d[j] = "result"
    <3> TAKE j \in 1..Len(d)
    <3>1. CASE j <= Len(b) BY <3>1, <2>3, <2>4
    <3>2. CASE j > Len(b)
      <4>1. j = Len(b) + 1 /\ j - Len(b) = 1 BY <3>2, <2>4
      <4> QED BY <4>1, <2>4
    <3> QED BY <3>1, <3>2, <2>4
  <2>6. Using(d, 0) /\ Answering(d, Len(d)) BY <2>4, <2>5 DEF Using, Answering
  <2>7. m - 1 \in 1..(m - 1) /\ p[m - 1] = out[m - 1] BY <2>1, <2>2, <2>3
  <2>8. Using(p[m - 1].blocks, r + Len(d))
    <3>1. r + Len(d) = n + Len(b) BY <2>4, <1>2
    <3> QED BY <3>1, <2>3, <2>7
  <2>9. p[1].role = "user" /\ Answering(p[1].blocks, 0)
    <3>1. 1 \in 1..(m - 1) BY <2>2, <2>3
    <3> QED BY <3>1, <2>1 DEF Sound, m
  <2>10. \A k \in 1..m : p[k].role = "user" => Using(p[k].blocks, 0)
    <3> TAKE k \in 1..m
    <3>1. CASE k = m BY <3>1, <2>6 DEF d
    <3>2. CASE k # m
      <4>1. k \in 1..(m - 1) /\ p[k] = out[k] BY <3>2, <2>1, <2>2
      <4> QED BY <4>1 DEF Sound, m
    <3> QED BY <3>1, <3>2
  <2>11. ASSUME NEW k \in 2..m, k < m \/ r = 0 PROVE Linked(p[k - 1].blocks, p[k].blocks)
    <3>1. PICK i \in 1..(m - 1) : i = k - 1 /\ p[i] = out[i] BY <2>1, <2>2
    <3>2. CASE k = m
      <4>1. i = m - 1 /\ r = 0 BY <3>1, <3>2, <2>2, <2>11
      <4>2. Using(p[i].blocks, Len(d)) BY <4>1, <2>4, <2>8
      <4>3. Linked(p[i].blocks, d) BY <4>2, <2>4, <2>6 DEF Linked
      <4> QED BY <4>3, <3>1, <3>2 DEF d
    <3>3. CASE k # m
      <4>1. k \in 1..(m - 1) /\ p[k] = out[k] /\ k < m BY <3>3, <2>1, <2>2
      <4>2. Linked(out[i].blocks, out[k].blocks) BY <4>1, <3>1 DEF Sound, m
      <4> QED BY <4>1, <4>2, <3>1
    <3> QED BY <3>2, <3>3
  <2>12. p[m].role # "assistant" /\ p[Len(p)].blocks = d /\ p[Len(p)].role = "user"
    BY <2>1 DEF d
  <2>13. Sound(p, r)
    <3>1. Len(p) = m /\ m > 1 /\ p[m].blocks = d /\ p[m].role = "user"
      BY <2>1, <2>3, <2>12
    <3>2. Using(p[m].blocks, 0) BY <3>1, <2>6
    <3>3. \A j \in 1..Len(p[m].blocks) : p[m].blocks[j] = "result" BY <3>1, <2>5
    <3>4. Using(p[m - 1].blocks, r + Len(p[m].blocks)) BY <3>1, <2>8
    <3>5. \A k \in 2..m : k < m \/ r = 0 \/ p[k].role = "assistant"
                           => Linked(p[k - 1].blocks, p[k].blocks)
      <4> TAKE k \in 2..m
      <4>1. k = m => p[k].role # "assistant" BY <3>1
      <4>2. k = m \/ k < m BY <2>2
      <4> QED BY <4>1, <4>2, <2>11
    <3> HIDE DEF m, d
    <3> QED BY <3>1, <3>2, <3>3, <3>4, <3>5, <2>9, <2>10 DEF Sound
  <2> QED BY <2>1, <2>12, <2>13, <1>2
<1> QED BY <1>3, <1>4

LEMMA Counted ==
  ASSUME NEW m \in Sent
  PROVE  /\ \A a : Using(m.blocks, a) => Count(m, "use") = a
         /\ \A a : Answering(m.blocks, a) => Count(m, "result") = a
<1> DEFINE b == m.blocks
<1>1. b \in BlockSeq BY DEF Sent
<1>2. Len(b) \in Nat /\ DOMAIN b = 1..Len(b) BY <1>1, LenProperties DEF BlockSeq
<1> HIDE DEF b
<1>3. ASSUME NEW a \in Nat, Using(b, a) PROVE Cardinality({i \in DOMAIN b : b[i] = "use"}) = a
  <2>1. a \in Nat /\ a <= Len(b) /\ \A j \in 1..Len(b) : b[j] = "use" <=> j > Len(b) - a
    BY <1>3 DEF Using
  <2>0. a \in Nat /\ a <= Len(b) BY <2>1
  <2>2. PICK f \in Nat : f = Len(b) - a
    <3>1. PICK len \in Nat : len = Len(b) BY <1>2
    <3>2. a <= len BY <2>0, <3>1
    <3>3. len - a \in Nat BY <3>2
    <3> QED BY <3>1, <3>3
  <2>3. PICK g \in Nat : g = f + 1 OBVIOUS
  <2>4. {i \in DOMAIN b : b[i] = "use"} = g..Len(b)
    <3>1. ASSUME NEW i \in 1..Len(b) PROVE b[i] = "use" <=> i \in g..Len(b)
      BY <2>1, <2>2, <2>3, <1>2
    <3>2. g..Len(b) \subseteq 1..Len(b) BY <2>3, <1>2
    <3> QED BY <3>1, <3>2, <1>2
  <2>5. Cardinality(g..Len(b)) = IF g > Len(b) THEN 0 ELSE Len(b) - g + 1
    <3>1. g \in Int /\ Len(b) \in Int BY <1>2
    <3> QED BY <3>1, FS_Interval
  <2>6. Cardinality(g..Len(b)) = a BY <2>0, <2>2, <2>3, <2>5, <1>2
  <2> QED BY <2>4, <2>6
<1>4. ASSUME NEW a, Answering(b, a) PROVE Cardinality({i \in DOMAIN b : b[i] = "result"}) = a
  <2>1. a \in Nat /\ a <= Len(b) /\ \A j \in 1..Len(b) : b[j] = "result" <=> j <= a
    BY <1>4 DEF Answering
  <2>2. {i \in DOMAIN b : b[i] = "result"} = 1..a
    <3>1. ASSUME NEW i \in 1..Len(b) PROVE b[i] = "result" <=> i \in 1..a BY <2>1, <1>2
    <3>2. 1..a \subseteq 1..Len(b) BY <2>1, <1>2
    <3> QED BY <3>1, <3>2, <1>2
  <2>3. Cardinality(1..a) = a
    <3>1. a \in Nat BY <2>1
    <3>2. Cardinality(1..a) = IF 1 > a THEN 0 ELSE a - 1 + 1 BY <3>1, FS_Interval
    <3> QED BY <3>1, <3>2
  <2> QED BY <2>2, <2>3
<1>5. \A a : Using(b, a) => a \in Nat BY DEF Using
<1> QED BY <1>3, <1>4, <1>5 DEF Count, b

(* A conversation that owes nothing, and ends with the user, is accepted.  *)
LEMMA SoundIsAccepted ==
  ASSUME NEW out \in Seq(Sent), Sound(out, 0), Len(out) > 0, out[Len(out)].role = "user"
  PROVE  Accepted(out)
<1>1. /\ Len(out) \in Nat /\ DOMAIN out = 1..Len(out)
      /\ \A k \in 1..Len(out) : out[k] \in Sent /\ out[k].blocks \in BlockSeq
  BY SentIs, LenProperties
<1>2. Head(out) = out[1] /\ Last(out) = out[Len(out)] BY <1>1, HeadTailProperties DEF Last
<1>3. out[1].role = "user" /\ Answering(out[1].blocks, 0) BY DEF Sound
<1>4. \A k \in 1..Len(out) : out[k].role = "user" => Using(out[k].blocks, 0) BY DEF Sound
<1>5. \A k \in 2..Len(out) : Linked(out[k - 1].blocks, out[k].blocks) BY DEF Sound
<1>6. ASSUME NEW i \in DOMAIN out
      PROVE  LET uses == Count(out[i], "use")
                 asked == IF i = 1 THEN 0 ELSE Count(out[i - 1], "use")
             IN /\ uses > 0 => out[i].role = "assistant" /\ i < Len(out)
                /\ Count(out[i], "result") = asked
                /\ \A j \in 1..asked : out[i].blocks[j] = "result"
  <2> DEFINE uses == Count(out[i], "use")
             asked == IF i = 1 THEN 0 ELSE Count(out[i - 1], "use")
  <2>1. i \in 1..Len(out) /\ out[i] \in Sent BY <1>1
  <2>2. out[i].role = "user" => uses = 0 BY <2>1, <1>4, Counted
  <2>3. out[i].role \in {"user", "assistant"} BY <2>1 DEF Sent
  <2>4. uses > 0 => out[i].role = "assistant" /\ i < Len(out)
    <3>1. i = Len(out) => uses = 0 BY <2>2
    <3> HIDE DEF uses
    <3>2. ASSUME uses > 0 PROVE out[i].role = "assistant" /\ i < Len(out)
      <4>1. uses # 0 BY <3>2
      <4>2. i # Len(out) /\ out[i].role # "user" BY <4>1, <3>1, <2>2
      <4> QED BY <4>2, <2>1, <2>3, <1>1
    <3> QED BY <3>2
  <2>5. PICK a \in Nat : a = asked /\ Answering(out[i].blocks, a)
    <3>1. CASE i = 1 BY <3>1, <1>3
    <3>2. CASE i # 1
      <4>1. PICK k \in 1..Len(out) : k = i - 1 BY <3>2, <2>1, <1>1
      <4>2. i \in 2..Len(out) BY <3>2, <2>1, <1>1
      <4>3. PICK a \in Nat : Using(out[k].blocks, a) /\ Answering(out[i].blocks, a)
        BY <4>1, <4>2, <1>5 DEF Linked
      <4>4. out[k] \in Sent BY <1>1
      <4>5. a = Count(out[k], "use") BY <4>3, <4>4, Counted
      <4> QED BY <4>1, <4>3, <4>5, <3>2
    <3> QED BY <3>1, <3>2
  <2>6. Count(out[i], "result") = a BY <2>1, <2>5, Counted
  <2>7. \A j \in 1..a : out[i].blocks[j] = "result"
    <3>1. Len(out[i].blocks) \in Nat BY <2>1, <1>1, LenProperties DEF BlockSeq
    <3> QED BY <3>1, <2>5 DEF Answering
  <2> HIDE DEF asked, uses
  <2> QED BY <2>4, <2>5, <2>6, <2>7 DEF asked, uses
<1> QED BY <1>2, <1>3, <1>6 DEF Accepted

-----------------------------------------------------------------------------
(* What the conversion of a history has come to after i messages: it is    *)
(* sound but for the answers to the last calls, which come next.           *)
Halfway(h, out, i) ==
  /\ \E n \in Nat :
       /\ Sound(out, n)
       /\ n > 0 => \E j \in 1..i : j + h[j].asks = i + n
       /\ n = 0 => \A j \in 1..i : j + h[j].asks <= i
  /\ Len(out) = 0 => \A k \in 2..i : h[k].role = "note"
  /\ i > 0 /\ h[i].role \in {"user", "tool"} => Len(out) > 0 /\ out[Len(out)].role = "user"

LEMMA HalfwayOn ==
  ASSUME NEW h \in Seq(Messages), Instructed(h), Begins(h), Owes(h, 0),
         NEW out \in Seq(Sent), NEW i \in 0..(Len(h) - 1), Halfway(h, out, i),
         NEW k, k = i + 1,
         NEW p, p = IF h[k].role \in {"system", "note"} THEN out ELSE Appended(out, h[k])
  PROVE  Halfway(h, p, k)
<1>1. /\ Len(h) \in Nat /\ DOMAIN h = 1..Len(h) /\ k \in 1..Len(h) /\ i \in Nat /\ k \in Nat
      /\ \A j \in 1..Len(h) : h[j] \in Messages
  <2>1. Len(h) \in Nat /\ DOMAIN h = 1..Len(h) BY LenProperties
  <2>2. ASSUME NEW j \in 1..Len(h) PROVE h[j] \in Messages BY ElementOfSeq
  <2> QED BY <2>1, <2>2
<1>2. \A j \in 1..Len(h) : /\ h[j].asks \in Nat /\ h[j].role \in Roles
                           /\ h[j].asks > 0 => h[j].role = "assistant"
  BY <1>1, MessageIs
<1>3. PICK n \in Nat :
        /\ Sound(out, n)
        /\ n > 0 => \E j \in 1..i : j + h[j].asks = i + n
        /\ n = 0 => \A j \in 1..i : j + h[j].asks <= i
  BY DEF Halfway
<1>4. /\ Len(out) = 0 => \A l \in 2..i : h[l].role = "note"
      /\ Len(out) \in Nat
  BY SentIs DEF Halfway
<1>5. \A j \in 1..Len(h) : /\ j + h[j].asks <= Len(h)
                           /\ \A l \in (j + 1)..(j + h[j].asks) : h[l].role = "tool"
  <2> TAKE j \in 1..Len(h)
  <2>1. /\ j + h[j].asks <= Len(h) + 0
        /\ \A l \in (j + 1)..(j + h[j].asks) : l \in DOMAIN h => h[l].role = "tool"
    BY <1>1 DEF Owes
  <2>2. h[j].asks \in Nat BY <1>2
  <2>3. j + h[j].asks <= Len(h) BY <2>1, <2>2, <1>1
  <2>4. \A l \in (j + 1)..(j + h[j].asks) : l \in DOMAIN h BY <2>2, <2>3, <1>1
  <2> QED BY <2>1, <2>3, <2>4
<1> DEFINE m == h[k]
<1>6. m \in Messages /\ m.asks \in Nat /\ m.role \in Roles
      /\ (m.asks > 0 => m.role = "assistant")
  BY <1>1, <1>2
<1>7. CASE n > 0
  <2>1. PICK j \in 1..i : j + h[j].asks = i + n BY <1>3, <1>7
  <2>2. j \in 1..Len(h) /\ h[j].asks \in Nat /\ k \in (j + 1)..(j + h[j].asks) /\ h[j].asks > 0
    <3>1. j \in 1..Len(h) BY <1>1
    <3>2. h[j].asks \in Nat BY <3>1, <1>2
    <3> QED BY <3>1, <3>2, <2>1, <1>1, <1>7
  <2>3. m.role = "tool" /\ m.asks = 0 BY <2>2, <1>5, <1>6
  <2>4. p = Appended(out, m) BY <2>3
  <2>5. /\ Blocks(m) \in BlockSeq /\ Side(m) = "user" /\ Len(Blocks(m)) = 1
        /\ Blocks(m)[1] = "result"
    BY <2>3, <1>6, BlocksAre DEF Side
  <2>6. /\ p \in Seq(Sent)
        /\ \/ Merged(out, p, "user", Blocks(m))
           \/ Pushed(out, p, "user", Blocks(m)) /\ (Len(out) > 0 => out[Len(out)].role # "user")
    <3> HIDE DEF m
    <3> QED BY <2>4, <2>5, <1>6, AppendedIs
  <2> HIDE DEF m
  <2>7. Sound(p, n - 1) /\ Len(p) > 0 /\ p[Len(p)].role = "user"
    BY <2>5, <2>6, <1>3, <1>7, Replies
  <2>8. PICK r \in Nat : r = n - 1 BY <1>7
  <2>9. r > 0 => \E l \in 1..k : l + h[l].asks = k + r
    <3>1. j \in 1..k /\ j + h[j].asks = k + r BY <2>1, <2>2, <2>8, <1>1
    <3> QED BY <3>1
  <2>10. ASSUME r = 0, NEW l \in 1..k PROVE l + h[l].asks <= k
    <3>0. l \in 1..Len(h) /\ h[l].asks \in Nat BY <1>1, <1>2
    <3>1. CASE l = k BY <3>1, <2>3, <1>1 DEF m
    <3>2. CASE l = j BY <3>2, <2>1, <2>2, <2>8, <2>10, <1>1
    <3>3. CASE l # k /\ l > j
      <4>1. l \in (j + 1)..(j + h[j].asks) BY <3>3, <2>1, <2>2, <1>1
      <4>2. h[l].role = "tool" BY <4>1, <2>2, <1>5
      <4>3. h[l].asks = 0 BY <4>2, <3>0, <1>2
      <4> QED BY <4>3, <3>0, <1>1
    <3>4. CASE l < j
      <4>1. h[j].role = "assistant" BY <2>2, <1>2
      <4>2. j \notin (l + 1)..(l + h[l].asks) BY <4>1, <3>0, <1>5
      <4>3. l + h[l].asks < j BY <4>2, <3>0, <3>4, <2>2
      <4> QED BY <4>3, <3>0, <2>2, <1>1
    <3> QED BY <3>1, <3>2, <3>3, <3>4, <3>0, <2>2
  <2> QED BY <2>7, <2>8, <2>9, <2>10, <1>1 DEF Halfway
<1>8. CASE n = 0
  <2>0. \A j \in 1..i : j + h[j].asks <= i BY <1>3, <1>8
  <2>1. m.role # "tool"
    <3>1. ASSUME m.role = "tool" PROVE FALSE
      <4>1. PICK j \in 1..(k - 1) : h[j].asks >= k - j
        BY <3>1, <1>1 DEF Owes
      <4>2. j \in 1..i /\ j \in 1..Len(h) /\ h[j].asks \in Nat
        <5>1. j \in 1..i /\ j \in 1..Len(h) BY <1>1
        <5> QED BY <5>1, <1>2
      <4>3. j + h[j].asks <= i BY <4>2, <2>0
      <4> QED BY <4>1, <4>2, <4>3, <1>1
    <3> QED BY <3>1
  <2>2. CASE m.role \in {"system", "note"}
    <3>1. p = out /\ m.asks = 0 BY <2>2, <1>6
    <3>2. \A j \in 1..k : j + h[j].asks <= k
      <4> TAKE j \in 1..k
      <4>0. j \in 1..Len(h) /\ h[j].asks \in Nat BY <1>1, <1>2
      <4>1. CASE j = k BY <4>1, <3>1, <1>1
      <4>2. CASE j # k
        <5>1. j \in 1..i BY <4>2, <1>1
        <5>2. j + h[j].asks <= i BY <5>1, <2>0
        <5> QED BY <5>2, <4>0, <1>1
      <4> QED BY <4>1, <4>2
    <3>3. Len(out) = 0 => \A l \in 2..k : h[l].role = "note"
      <4>1. ASSUME Len(out) = 0, NEW l \in 2..k PROVE h[l].role = "note"
        <5>1. CASE l = k
          <6>1. k \in 2..Len(h) BY <5>1, <1>1
          <6>2. h[k].role # "system" BY <6>1 DEF Instructed
          <6> QED BY <6>2, <5>1, <2>2
        <5>2. CASE l # k
          <6>1. l \in 2..i BY <5>2, <1>1
          <6> QED BY <6>1, <4>1, <1>4
        <5> QED BY <5>1, <5>2
      <4> QED BY <4>1
    <3>4. m.role \notin {"user", "tool"} BY <2>2
    <3> QED BY <3>1, <3>2, <3>3, <3>4, <1>3, <1>8 DEF Halfway
  <2>3. CASE m.role \notin {"system", "note"}
    <3>1. p = Appended(out, m) /\ m.role \in {"user", "assistant"}
      BY <2>1, <2>3, <1>6 DEF Roles
    <3> DEFINE c == Blocks(m)  s == Side(m)
    <3>2. c \in BlockSeq /\ s = m.role BY <3>1, <1>6, BlocksAre DEF Side
    <3>3. Using(c, m.asks) /\ \A j \in 1..Len(c) : c[j] # "result"
      <4>1. CASE m.asks > 0
        <5>1. Len(c) = m.asks /\ \A j \in 1..m.asks : c[j] = "use" BY <4>1, <1>6, BlocksAre
        <5> HIDE DEF c, m
        <5> QED BY <5>1, <1>6 DEF Using
      <4>2. CASE m.asks = 0
        <5>1. Len(c) = 1 /\ c[1] = "text" BY <4>2, <3>1, <1>6, BlocksAre
        <5> HIDE DEF c
        <5>2. \A j \in 1..Len(c) : c[j] = "text" BY <5>1
        <5>3. Using(c, 0) BY <5>1, <5>2 DEF Using
        <5> QED BY <5>2, <5>3, <4>2
      <4> QED BY <4>1, <4>2, <1>6
    <3>4. p \in Seq(Sent) /\ (Merged(out, p, s, c) \/ Pushed(out, p, s, c))
      <4> HIDE DEF m
      <4> QED BY <3>1, <1>6, AppendedIs
    <3>5. Len(out) = 0 => s = "user"
      <4>1. ASSUME Len(out) = 0 PROVE m.role = "user"
        <5>1. k # 1 BY <1>1, <2>3, EmptySeq DEF Instructed
        <5>2. k \in 2..Len(h) /\ \A j \in 2..(k - 1) : h[j].role = "note"
          <6>1. k \in 2..Len(h) /\ k - 1 = i BY <5>1, <1>1
          <6> QED BY <6>1, <4>1, <1>4
        <5>3. m.role \in {"note", "user"} BY <5>2 DEF Begins
        <5> QED BY <5>3, <2>3
      <4> QED BY <4>1, <3>2
    <3>6. s \in {"user", "assistant"} /\ (m.asks > 0 => s = "assistant")
      BY <3>1, <3>2, <1>6
    <3>7. Sound(p, m.asks) /\ Len(p) > 0 /\ p[Len(p)].role = s
      <4> HIDE DEF m, c, s
      <4>1. Sound(out, 0) BY <1>3, <1>8
      <4>2. /\ out \in Seq(Sent) /\ p \in Seq(Sent) /\ c \in BlockSeq
            /\ \A j \in 1..Len(c) : c[j] # "result"
            /\ m.asks \in Nat /\ Using(c, m.asks)
        BY <3>2, <3>3, <3>4, <1>6
      <4> QED BY <4>1, <4>2, <3>4, <3>5, <3>6, Adds
    <3>8. m.asks > 0 => \E j \in 1..k : j + h[j].asks = k + m.asks
      <4>1. k \in 1..k BY <1>1
      <4> QED BY <4>1
    <3>9. ASSUME m.asks = 0, NEW j \in 1..k PROVE j + h[j].asks <= k
      <4>0. j \in 1..Len(h) /\ h[j].asks \in Nat BY <1>1, <1>2
      <4>1. CASE j = k BY <4>1, <3>9, <1>1
      <4>2. CASE j # k
        <5>1. j \in 1..i BY <4>2, <1>1
        <5>2. j + h[j].asks <= i BY <5>1, <2>0
        <5> QED BY <5>2, <4>0, <1>1
      <4> QED BY <4>1, <4>2
    <3>10. m.role \in {"user", "tool"} => p[Len(p)].role = "user" BY <3>2, <3>7, <3>1
    <3>11. PICK r \in Nat : r = m.asks BY <1>6
    <3>12. /\ Sound(p, r)
           /\ r > 0 => \E j \in 1..k : j + h[j].asks = k + r
           /\ r = 0 => \A j \in 1..k : j + h[j].asks <= k
      BY <3>7, <3>8, <3>9, <3>11
    <3>13. ~(Len(p) = 0) BY <3>7
    <3> HIDE DEF c, s
    <3> QED BY <3>7, <3>10, <3>12, <3>13 DEF Halfway
  <2> QED BY <2>2, <2>3
<1> QED BY <1>7, <1>8

(* A history that a turn sends, if it is its own, is accepted.             *)
LEMMA ConversationIsAccepted ==
  ASSUME NEW h \in Seq(Messages), h # <<>>, Instructed(h), Begins(h), Owes(h, 0),
         Last(h).role \in {"user", "tool"}
  PROVE  Accepted(Converted(h))
<1>1. Len(h) \in Nat /\ DOMAIN h = 1..Len(h) /\ Len(h) > 0 BY LenProperties, EmptySeq
<1>2. PICK f \in [0..Len(h) -> Seq(Sent)] :
        /\ Converted(h) = f[Len(h)]
        /\ f[0] = <<>>
        /\ \A i \in 1..Len(h) : Takes(h, f, i)
  BY Converts
<1> DEFINE S == {i \in 0..Len(h) : Halfway(h, f[i], i)}
<1>3. 0 \in S
  <2>1. Len(<<>>) = 0 /\ 1..0 = {} /\ 2..0 = {} OBVIOUS
  <2>2. Sound(<<>>, 0) BY <2>1 DEF Sound
  <2>3. Halfway(h, <<>>, 0) BY <2>1, <2>2 DEF Halfway
  <2>4. 0 \in 0..Len(h) BY <1>1
  <2> QED BY <2>3, <2>4, <1>2
<1>4. ASSUME NEW i \in 0..(Len(h) - 1), i \in S PROVE i + 1 \in S
  <2>1. PICK k \in 1..Len(h) : k = i + 1 /\ k - 1 = i BY <1>1
  <2>2. i \in 0..Len(h) /\ k \in 0..Len(h) BY <1>1
  <2>3. f[i] \in Seq(Sent) /\ Halfway(h, f[i], i) BY <2>2, <1>4
  <2>4. f[k] = IF h[k].role \in {"system", "note"} THEN f[i] ELSE Appended(f[i], h[k])
    <3>1. Takes(h, f, k) BY <1>2
    <3> QED BY <3>1, <2>1 DEF Takes
  <2>5. Halfway(h, f[k], k) BY <2>1, <2>3, <2>4, HalfwayOn
  <2> QED BY <2>1, <2>2, <2>5
<1>5. Halfway(h, f[Len(h)], Len(h))
  <2> HIDE DEF S
  <2>1. 0..Len(h) \subseteq S BY <1>1, <1>3, <1>4, UpTo
  <2>2. Len(h) \in S BY <2>1, <1>1
  <2> QED BY <2>2 DEF S
<1> DEFINE out == f[Len(h)]
<1>6. out \in Seq(Sent)
  <2>1. Len(h) \in 0..Len(h) BY <1>1
  <2> QED BY <2>1
<1>7. Len(out) > 0 /\ out[Len(out)].role = "user"
  <2>1. h[Len(h)].role \in {"user", "tool"} BY DEF Last
  <2> QED BY <2>1, <1>1, <1>5 DEF Halfway
<1>8. Sound(out, 0)
  <2>1. PICK n \in Nat :
          Sound(out, n) /\ (n > 0 => \E j \in 1..Len(h) : j + h[j].asks = Len(h) + n)
    BY <1>5 DEF Halfway
  <2>2. \A j \in 1..Len(h) : j + h[j].asks <= Len(h) + 0 BY <1>1 DEF Owes
  <2>3. ~(n > 0)
    <3>1. ASSUME n > 0 PROVE FALSE
      <4>1. PICK j \in 1..Len(h) : j + h[j].asks = Len(h) + n BY <2>1, <3>1
      <4>2. Len(h) + n <= Len(h) + 0 BY <4>1, <2>2
      <4> QED BY <4>2, <3>1, <1>1
    <3> QED BY <3>1
  <2>4. n = 0 BY <2>3
  <2> QED BY <2>1, <2>4
<1> HIDE DEF out
<1>9. Accepted(out) BY <1>6, <1>7, <1>8, SoundIsAccepted
<1> QED BY <1>9, <1>2 DEF out

(* Whatever the model is called with is well formed, for any number of     *)
(* turns, sessions and messages and any limits: the instructions first, no *)
(* notes but those of turns under way, and, where no two turns have used   *)
(* the session at once, a history that begins with a user's words, has     *)
(* every call answered and becomes one that Anthropic accepts (trim,       *)
(* run_turn, _messages_to_anthropic).                                      *)
THEOREM HistoriesAreWellFormed == Spec => []SentIsWellFormed
<1>1. IInv => SentIsWellFormed
  <2> SUFFICES ASSUME IInv, NEW t \in Turns, At(t, "model")
               PROVE  LET o == turn[t].on
                          h == msgs[o]
                      IN /\ Head(h).role = "system"
                         /\ \A i \in DOMAIN h : \A u \in h[i].of : turn[u].on = o /\ turn[u].noted
                         /\ o \notin overlapped => Begins(h) /\ Paired(h) /\ Accepted(Converted(h))
    BY DEF SentIsWellFormed
  <2> DEFINE o == turn[t].on  h == msgs[o]
  <2>1. TypeInv /\ PlaceInv /\ HistoryInv /\ AloneInv /\ turn[t].at = "model"
    BY DEF IInv, At
  <2>2. o \in Objects /\ h \in Seq(Messages) BY <2>1, OnIs
  <2>3. h # <<>> /\ turn[t].owed \in Nat /\ Fits(turn[t], h)
    <3>1. Fits(turn[t], h) /\ turn[t] \in Locals BY <2>1, OnIs DEF PlaceInv
    <3> QED BY <3>1, <2>1 DEF Fits, Locals
  <2>4. turn[t].owed = 0 BY <2>1, <2>3 DEF Fits
  <2>5. Instructed(h) /\ \A i \in DOMAIN h : \A u \in h[i].of : turn[u].on = o /\ turn[u].noted
    BY <2>1, <2>2 DEF HistoryInv, NotedBy
  <2>6. o \notin overlapped => /\ Begins(h) /\ Owes(h, 0)
                               /\ Last(h).role \in {"user", "tool"}
    <3>1. ASSUME o \notin overlapped
          PROVE  Begins(h) /\ Owes(h, 0) /\ Last(h).role \in {"user", "tool"}
      <4>1. Alone(o) BY <3>1, <2>1, <2>2 DEF AloneInv
      <4>2. Begins(h) /\ Suits(turn[t], h) BY <4>1 DEF Alone
      <4> QED BY <4>2, <2>1, <2>4 DEF Suits
    <3> QED BY <3>1
  <2> HIDE DEF h, o
  <2>7. Head(h).role = "system"
    <3>1. Head(h) = h[1] BY <2>2, <2>3, HeadTailProperties
    <3> QED BY <3>1, <2>3, <2>5 DEF Instructed
  <2>8. Owes(h, 0) => Paired(h)
    <3>1. /\ Len(h) \in Nat /\ DOMAIN h = 1..Len(h) /\ \A i \in DOMAIN h : h[i].asks \in Nat
      BY <2>2, LenProperties, ElementOfSeq, MessageIs
    <3>2. ASSUME Owes(h, 0), NEW i \in DOMAIN h, NEW k \in (i + 1)..(i + h[i].asks)
          PROVE  k \in DOMAIN h /\ h[k].role = "tool"
      <4>1. i + h[i].asks <= Len(h) + 0 /\ (k \in DOMAIN h => h[k].role = "tool")
        BY <3>2 DEF Owes
      <4>2. h[i].asks \in Nat /\ i \in Nat BY <3>1
      <4>3. k \in DOMAIN h BY <4>1, <4>2, <3>1
      <4> QED BY <4>1, <4>3
    <3>3. ASSUME Owes(h, 0), NEW i \in DOMAIN h, h[i].role = "tool"
          PROVE  \E j \in 1..(i - 1) : h[j].asks >= i - j /\ \A k \in (j + 1)..i : h[k].role = "tool"
      BY <3>3 DEF Owes
    <3> QED BY <3>2, <3>3 DEF Paired
  <2>9. o \notin overlapped => Begins(h) /\ Paired(h) /\ Accepted(Converted(h))
    BY <2>2, <2>3, <2>5, <2>6, <2>8, ConversationIsAccepted
  <2> QED BY <2>5, <2>7, <2>9 DEF h, o
<1> QED BY <1>1, Invariance, PTL
=============================================================================
