------------------------------ MODULE LiveView ------------------------------
(***************************************************************************)
(* The event bus (src/src/vahub/core/bus.py) with its two consumers: the   *)
(* live stream of a page, which carries the questions put to humans        *)
(* (src/src/vahub/web/ws.py), and the mirror of module states in the       *)
(* database (Runtime._persist_module_state).  Both topics have the policy  *)
(* disconnect_slow: a queue that is full costs the subscriber its          *)
(* subscription, never the publisher a wait.                               *)
(*                                                                         *)
(* A connection is one socket from its handshake to its end; a page that   *)
(* reconnects is another one.  An action is the code of a task from one    *)
(* await to the next.  Events are numbered in the order of publication.    *)
(***************************************************************************)
EXTENDS Naturals, Sequences

CONSTANTS
  Pages,        (* connections of pages                                    *)
  Mirror,       (* the consumer that mirrors module states                 *)
  QueueSize,    (* events a subscription holds (256 and 64 in the code)    *)
  MergedSize,   (* events the merged queue of a page holds (1024)          *)
  MaxEvents     (* bound on the events of a topic                          *)

ASSUME LiveViewAssumption ==
  /\ Mirror \notin Pages
  /\ QueueSize \in Nat \ {0}
  /\ MergedSize \in Nat \ {0}
  /\ MaxEvents \in Nat

Consumers == Pages \cup {Mirror}
Nothing == 0                      (* no event in hand                      *)
Sentinel == MaxEvents + 1         (* what close() puts to wake a consumer  *)

VARIABLES
  subs,       (* the consumers the bus delivers to                         *)
  queue,      (* queue[c]: the queue of the subscription                   *)
  closed,     (* closed[c]: its flag                                       *)
  loop,       (* loop[c]: where the loop over events() is                  *)
  hand,       (* hand[c]: the event it has taken and is putting away       *)
  merged,     (* merged[p]: the queue of the one task that sends           *)
  conn,       (* conn[p]: the connection                                   *)
  stuck,      (* stuck[p]: the browser has stopped reading                 *)
  sent,       (* sent["ask"], sent["state"]: events published so far       *)
  stopping,   (* the hub has closed the bus                                *)
  due,        (* history: events published while c was subscribed          *)
  got         (* history: events sent to the page, or put to the database     *)

vars == <<subs, queue, closed, loop, hand, merged, conn, stuck, sent, stopping, due, got>>

Init ==
  /\ subs = {}
  /\ queue = [c \in Consumers |-> <<>>]
  /\ closed = [c \in Consumers |-> FALSE]
  /\ loop = [c \in Consumers |-> "none"]
  /\ hand = [c \in Consumers |-> Nothing]
  /\ merged = [p \in Pages |-> <<>>]
  /\ conn = [p \in Pages |-> "new"]
  /\ stuck = [p \in Pages |-> FALSE]
  /\ sent = [topic \in {"ask", "state"} |-> 0]
  /\ stopping = FALSE
  /\ due = [c \in Consumers |-> {}]
  /\ got = [c \in Consumers |-> {}]

Topic(c) == IF c = Mirror THEN "state" ELSE "ask"
Full(c) == Len(queue[c]) >= QueueSize

-----------------------------------------------------------------------------
(* close(): the flag, and a sentinel for a consumer that waits on an empty *)
(* queue.  On a full one the sentinel is dropped: its consumer finds the   *)
(* flag when it comes back for more.                                       *)
CloseSubs(C) ==
  /\ closed' = [c \in Consumers |-> closed[c] \/ c \in C]
  /\ queue' = [c \in Consumers |->
                 IF c \in C /\ ~closed[c] /\ ~Full(c) THEN Append(queue[c], Sentinel)
                 ELSE queue[c]]

(* EventBus.close(): nobody is subscribed any more.                        *)
CloseBus == subs' = {} /\ CloseSubs(subs)

(* publish() puts the event in every queue that has room, and unsubscribes *)
(* whom it finds full: there is no room for a sentinel then.               *)
Publish(topic) ==
  LET n == sent[topic] + 1
      here == {c \in subs : Topic(c) = topic}
      slow == {c \in here : Full(c)}
  IN
  /\ ~stopping
  /\ n <= MaxEvents
  /\ sent' = [sent EXCEPT ![topic] = n]
  /\ queue' = [c \in Consumers |->
                 IF c \in here \ slow THEN Append(queue[c], n) ELSE queue[c]]
  /\ subs' = subs \ slow
  /\ closed' = [c \in Consumers |-> closed[c] \/ c \in slow]
  /\ due' = [c \in Consumers |-> IF c \in here THEN due[c] \cup {n} ELSE due[c]]
  /\ UNCHANGED <<loop, hand, merged, conn, stuck, stopping, got>>

-----------------------------------------------------------------------------
(* events(): the flag is asked before every get().  A consumer that finds  *)
(* it set drops what is left in its queue.                                 *)
AgainForEver(c) == TRUE
Again(c) == ~closed[c]
NextTurn(c) == loop' = [loop EXCEPT ![c] = IF Again(c) THEN "get" ELSE "ended"]

Take(c) ==
  /\ loop[c] = "get"
  /\ queue[c] # <<>>
  /\ queue' = [queue EXCEPT ![c] = Tail(@)]
  /\ IF Head(queue[c]) = Sentinel
     THEN loop' = [loop EXCEPT ![c] = "ended"] /\ UNCHANGED hand
     ELSE /\ loop' = [loop EXCEPT ![c] = "put"]
          /\ hand' = [hand EXCEPT ![c] = Head(queue[c])]
  /\ UNCHANGED <<subs, closed, merged, conn, stuck, sent, stopping, due, got>>

(* unsubscribe(): off the bus, and closed.                                 *)
Unsubscribe(c) == subs' = subs \ {c} /\ CloseSubs({c})

(* A page: _feed waits for room in the merged queue, and never drops.      *)
Feed(p) ==
  /\ loop[p] = "put"
  /\ Len(merged[p]) < MergedSize
  /\ merged' = [merged EXCEPT ![p] = Append(@, hand[p])]
  /\ hand' = [hand EXCEPT ![p] = Nothing]
  /\ NextTurn(p)
  /\ UNCHANGED <<subs, queue, closed, conn, stuck, sent, stopping, due, got>>

(* The mirror: the state is saved, or a warning is logged, and it goes on. *)
Save ==
  /\ loop[Mirror] = "put"
  /\ got' = [got EXCEPT ![Mirror] = @ \cup {hand[Mirror]}]
  /\ hand' = [hand EXCEPT ![Mirror] = Nothing]
  /\ NextTurn(Mirror)
  /\ UNCHANGED <<subs, queue, closed, merged, conn, stuck, sent, stopping, due>>

(* The hub starts the mirror before it serves.                             *)
StartMirror ==
  /\ loop[Mirror] = "none"
  /\ ~stopping
  /\ subs' = subs \cup {Mirror}
  /\ loop' = [loop EXCEPT ![Mirror] = "get"]
  /\ UNCHANGED <<queue, closed, hand, merged, conn, stuck, sent, stopping, due, got>>

-----------------------------------------------------------------------------
(* A handshake that passed the checks of origin and session subscribes and *)
(* then sends "ready"; events may come while that is on its way.           *)
Connect(p) ==
  /\ conn[p] = "new"
  /\ ~stopping
  /\ conn' = [conn EXCEPT ![p] = "greeting"]
  /\ subs' = subs \cup {p}
  /\ UNCHANGED <<queue, closed, loop, hand, merged, stuck, sent, stopping, due, got>>

Greeted(p) ==
  /\ conn[p] = "greeting"
  /\ ~stuck[p]
  /\ conn' = [conn EXCEPT ![p] = "open"]
  /\ NextTurn(p)
  /\ UNCHANGED <<subs, queue, closed, hand, merged, stuck, sent, stopping, due, got>>

(* _send_loop, the only sender.                                            *)
Send(p) ==
  /\ conn[p] = "open"
  /\ ~stuck[p]
  /\ merged[p] # <<>>
  /\ got' = [got EXCEPT ![p] = @ \cup {Head(merged[p])}]
  /\ merged' = [merged EXCEPT ![p] = Tail(@)]
  /\ UNCHANGED <<subs, queue, closed, loop, hand, conn, stuck, sent, stopping, due>>

(* The first of the three tasks to end ends the stream: the feed of a      *)
(* subscription that was closed, or, when the tab is gone, a send or the   *)
(* task that reads.  All are cancelled, the subscription is released and   *)
(* the socket closed, whichever way it came to that.                       *)
Release(p) ==
  /\ conn' = [conn EXCEPT ![p] = "gone"]
  /\ loop' = [loop EXCEPT ![p] = "ended"]
  /\ hand' = [hand EXCEPT ![p] = Nothing]
  /\ merged' = [merged EXCEPT ![p] = <<>>]
  /\ Unsubscribe(p)
  /\ UNCHANGED <<stuck, sent, stopping, due, got>>

FeedEnded(p) == conn[p] = "open" /\ loop[p] = "ended" /\ Release(p)
TabClosed(p) == conn[p] \in {"greeting", "open"} /\ Release(p)

(* A browser that stops reading without closing; the hub cannot tell.      *)
Stall(p) ==
  /\ conn[p] \in {"greeting", "open"}
  /\ ~stuck[p]
  /\ stuck' = [stuck EXCEPT ![p] = TRUE]
  /\ UNCHANGED <<subs, queue, closed, loop, hand, merged, conn, sent, stopping, due, got>>

(* At shutdown the mirror is cancelled, and then the bus closed.           *)
Shutdown ==
  /\ ~stopping
  /\ stopping' = TRUE
  /\ loop' = [loop EXCEPT ![Mirror] = "ended"]
  /\ hand' = [hand EXCEPT ![Mirror] = Nothing]
  /\ CloseBus
  /\ UNCHANGED <<merged, conn, stuck, sent, due, got>>

-----------------------------------------------------------------------------
PageStep(p) == Take(p) \/ Feed(p) \/ Greeted(p) \/ Send(p) \/ FeedEnded(p)

Next ==
  \/ \E topic \in {"ask", "state"} : Publish(topic)
  \/ \E p \in Pages : Connect(p) \/ PageStep(p) \/ TabClosed(p) \/ Stall(p)
  \/ StartMirror \/ Take(Mirror) \/ Save
  \/ Shutdown

Spec == Init /\ [][Next]_vars

(* The event loop runs every task that can run.  Nothing is assumed of the *)
(* browser beyond this: one that is not stuck takes what is sent to it.    *)
FairSpec ==
  /\ Spec
  /\ \A p \in Pages : /\ WF_vars(Take(p)) /\ WF_vars(Feed(p)) /\ WF_vars(Greeted(p))
                      /\ WF_vars(Send(p)) /\ WF_vars(FeedEnded(p))
  /\ WF_vars(Take(Mirror)) /\ WF_vars(Save)

-----------------------------------------------------------------------------
(* "A page that silently missed a confirmation event is worse than one     *)
(* that reconnects" (ws.py): an event published to a subscriber reaches it *)
(* or its connection ends, unless the browser reads no more; for the       *)
(* mirror, its loop ends.  That a subscription with a full queue is closed *)
(* without a sentinel, and with events under way, must leave nobody        *)
(* waiting on a queue that is not filled any more.                         *)
Over(c) == IF c = Mirror THEN loop[c] = "ended" ELSE conn[c] = "gone" \/ stuck[c]
DeliveredOrDropped ==
  \A c \in Consumers : \A n \in 1..MaxEvents :
    n \in due[c] ~> (n \in got[c] \/ Over(c))

=============================================================================
