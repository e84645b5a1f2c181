------------------------------- MODULE QueueT -------------------------------
(***************************************************************************)
(* Queue<T> of Core/Inc/Utility/QueueT.h: a pool of data nodes, each with  *)
(* an inUse flag, and a ThreadX queue of pointers to nodes.  Neither push  *)
(* nor pop takes a lock, so what protects the pool is only the scheduling: *)
(* a context runs until it blocks or until one of higher priority becomes  *)
(* ready (every thread is created with TX_NO_TIME_SLICE), and an interrupt *)
(* handler outranks every thread.  The actors are the contexts that call   *)
(* push and the one thread that calls pop; a step of the model is one      *)
(* shared access, so a higher priority may cut in between any two.         *)
(***************************************************************************)
EXTENDS Naturals, Sequences, FiniteSets, Functions

CONSTANTS Producers,    \* threads and interrupt handlers that push
          Consumer,     \* the thread that pops
          Priority,     \* urgency of each actor, larger is more urgent
          Capacity,     \* maxCount of the constructor
          Words,        \* how many words a memcpy of one T moves
          MaxPush       \* bound: pushes each producer makes

Actors == Producers \cup {Consumer}
Nodes  == 1 .. Capacity

ASSUME QueueAssumption ==
  /\ Consumer \notin Producers
  /\ Priority \in [Actors -> Nat]
  /\ Capacity \in Nat \ {0}
  /\ Words \in Nat \ {0}
  /\ MaxPush \in Nat

(* A message is named by who pushed it and when; its bytes are Words words *)
(* that all carry this name, so a copy mixed from two messages shows.      *)
MessageIds == Producers \X (1 .. MaxPush)
NoMessage  == <<>>
Contents   == [1 .. Words -> MessageIds \cup {NoMessage}]
Whole(m)   == [w \in 1 .. Words |-> m]

VARIABLES
  data,       \* data[n].data: the words in node n
  inUse,      \* data[n].inUse
  tx,         \* the ThreadX queue: node pointers, head first
  pc,         \* where each actor is in push or pop
  node,       \* the local nextNode / node / poppedItem of each actor
  copied,     \* how many words the memcpy of each actor has moved
  sent,       \* the local result of push: tx_queue_send was successful
  count,      \* pushes each producer has begun
  popped,     \* the message buffer of the caller of pop
  accepted,   \* history: contents of the successful sends, in order
  delivered   \* history: contents of the completed pops, in order

vars == <<data, inUse, tx, pc, node, copied, sent, count, popped,
          accepted, delivered>>

ProducerSteps == {"idle", "scan", "copy", "send", "mark"}
ConsumerSteps == {"work", "waiting", "ready", "clear", "copy"}

TypeOK ==
  /\ data \in [Nodes -> Contents]
  /\ inUse \in [Nodes -> BOOLEAN]
  /\ tx \in Seq(Nodes) /\ Len(tx) <= Capacity
  /\ pc \in [Actors -> ProducerSteps \cup ConsumerSteps]
  /\ \A p \in Producers : pc[p] \in ProducerSteps
  /\ pc[Consumer] \in ConsumerSteps
  /\ node \in [Actors -> Nodes]
  /\ copied \in [Actors -> 0 .. Words]
  /\ sent \in [Producers -> BOOLEAN]
  /\ count \in [Producers -> 0 .. MaxPush]
  /\ \A p \in Producers : pc[p] # "idle" => count[p] >= 1
  /\ popped \in Contents
  /\ accepted \in Seq(Contents)
  /\ delivered \in Seq(Contents)

Init ==
  /\ data = [n \in Nodes |-> Whole(NoMessage)]
  /\ inUse = [n \in Nodes |-> FALSE]
  /\ tx = <<>>
  /\ pc = [a \in Actors |-> IF a = Consumer THEN "work" ELSE "idle"]
  /\ node = [a \in Actors |-> 1]
  /\ copied = [a \in Actors |-> 0]
  /\ sent = [p \in Producers |-> FALSE]
  /\ count = [p \in Producers |-> 0]
  /\ popped = Whole(NoMessage)
  /\ accepted = <<>>
  /\ delivered = <<>>

-----------------------------------------------------------------------------
(* Scheduling *)

(* In the middle of a push or a pop.  A consumer that waits for a pointer, *)
(* or was just handed one and has not run since, is not.                   *)
Busy(a) == pc[a] \notin {"idle", "work", "waiting", "ready"}

(* a may take a step: every other actor that is in the middle of an        *)
(* operation has been preempted by it.                                     *)
Runs(a) == \A b \in Actors \ {a} : Busy(b) => Priority[b] < Priority[a]

-----------------------------------------------------------------------------
(* push *)

Message(p) == <<p, count[p]>>

Call(p) ==
  /\ pc[p] = "idle" /\ Runs(p) /\ count[p] < MaxPush
  /\ pc' = [pc EXCEPT ![p] = "scan"]
  /\ node' = [node EXCEPT ![p] = 1]
  /\ count' = [count EXCEPT ![p] = @ + 1]
  /\ UNCHANGED <<data, inUse, tx, copied, sent, popped, accepted, delivered>>

(* One turn of the loop of findAvailableNode: the node is free, or it is   *)
(* not and the next is looked at, or it was the last and push gives up.    *)
ScanFree(p) ==
  /\ pc[p] = "scan" /\ Runs(p) /\ ~inUse[node[p]]
  /\ pc' = [pc EXCEPT ![p] = "copy"]
  /\ copied' = [copied EXCEPT ![p] = 0]
  /\ UNCHANGED <<data, inUse, tx, node, sent, count, popped, accepted, delivered>>

ScanPastTheEnd(p) ==            \* mutant: the bound of the loop is dropped
  /\ pc[p] = "scan" /\ Runs(p) /\ inUse[node[p]]
  /\ node' = [node EXCEPT ![p] = @ + 1]
  /\ UNCHANGED <<data, inUse, tx, pc, copied, sent, count, popped, accepted, delivered>>

ScanNext(p) ==
  /\ pc[p] = "scan" /\ Runs(p) /\ inUse[node[p]] /\ node[p] < Capacity
  /\ node' = [node EXCEPT ![p] = @ + 1]
  /\ UNCHANGED <<data, inUse, tx, pc, copied, sent, count, popped, accepted, delivered>>

Refuse(p) ==
  /\ pc[p] = "scan" /\ Runs(p) /\ inUse[node[p]] /\ node[p] = Capacity
  /\ pc' = [pc EXCEPT ![p] = "idle"]
  /\ UNCHANGED <<data, inUse, tx, node, copied, sent, count, popped, accepted, delivered>>

CopyIn(p) ==
  /\ pc[p] = "copy" /\ Runs(p)
  /\ data' = [data EXCEPT ![node[p]][copied[p] + 1] = Message(p)]
  /\ copied' = [copied EXCEPT ![p] = @ + 1]
  /\ pc' = [pc EXCEPT ![p] = IF copied[p] + 1 = Words THEN "send" ELSE "copy"]
  /\ UNCHANGED <<inUse, tx, node, sent, count, popped, accepted, delivered>>

(* tx_queue_send with no wait: it hands the pointer to a waiting receiver, *)
(* else stores it if there is room, else fails.                            *)
HandOverWithoutWakeUp(p) ==     \* mutant: the receiver is not resumed
  /\ pc[p] = "send" /\ Runs(p) /\ pc[Consumer] = "waiting"
  /\ pc' = [pc EXCEPT ![p] = "mark"]
  /\ node' = [node EXCEPT ![Consumer] = node[p]]
  /\ sent' = [sent EXCEPT ![p] = TRUE]
  /\ accepted' = Append(accepted, Whole(Message(p)))
  /\ UNCHANGED <<data, inUse, tx, copied, count, popped, delivered>>

HandOver(p) ==
  /\ pc[p] = "send" /\ Runs(p) /\ pc[Consumer] = "waiting"
  /\ pc' = [pc EXCEPT ![p] = "mark", ![Consumer] = "ready"]
  /\ node' = [node EXCEPT ![Consumer] = node[p]]
  /\ sent' = [sent EXCEPT ![p] = TRUE]
  /\ accepted' = Append(accepted, Whole(Message(p)))
  /\ UNCHANGED <<data, inUse, tx, copied, count, popped, delivered>>

EnqueueInFront(p) ==            \* mutant: tx_queue_front_send
  /\ pc[p] = "send" /\ Runs(p) /\ pc[Consumer] # "waiting" /\ Len(tx) < Capacity
  /\ tx' = <<node[p]>> \o tx
  /\ pc' = [pc EXCEPT ![p] = "mark"]
  /\ sent' = [sent EXCEPT ![p] = TRUE]
  /\ accepted' = Append(accepted, Whole(Message(p)))
  /\ UNCHANGED <<data, inUse, node, copied, count, popped, delivered>>

Enqueue(p) ==
  /\ pc[p] = "send" /\ Runs(p) /\ pc[Consumer] # "waiting" /\ Len(tx) < Capacity
  /\ tx' = Append(tx, node[p])
  /\ pc' = [pc EXCEPT ![p] = "mark"]
  /\ sent' = [sent EXCEPT ![p] = TRUE]
  /\ accepted' = Append(accepted, Whole(Message(p)))
  /\ UNCHANGED <<data, inUse, node, copied, count, popped, delivered>>

QueueFull(p) ==
  /\ pc[p] = "send" /\ Runs(p) /\ pc[Consumer] # "waiting" /\ Len(tx) = Capacity
  /\ pc' = [pc EXCEPT ![p] = "mark"]
  /\ sent' = [sent EXCEPT ![p] = FALSE]
  /\ UNCHANGED <<data, inUse, tx, node, copied, count, popped, accepted, delivered>>

MarkForgotten(p) ==             \* mutant: inUse is never set
  /\ pc[p] = "mark" /\ Runs(p)
  /\ pc' = [pc EXCEPT ![p] = "idle"]
  /\ UNCHANGED <<data, inUse, tx, node, copied, sent, count, popped, accepted, delivered>>

MarkAlways(p) ==                \* mutant: inUse is set whatever the send returned
  /\ pc[p] = "mark" /\ Runs(p)
  /\ inUse' = [inUse EXCEPT ![node[p]] = TRUE]
  /\ pc' = [pc EXCEPT ![p] = "idle"]
  /\ UNCHANGED <<data, tx, node, copied, sent, count, popped, accepted, delivered>>

(* nextNode->inUse = result, after the send *)
Mark(p) ==
  /\ pc[p] = "mark" /\ Runs(p)
  /\ inUse' = [inUse EXCEPT ![node[p]] = sent[p]]
  /\ pc' = [pc EXCEPT ![p] = "idle"]
  /\ UNCHANGED <<data, tx, node, copied, sent, count, popped, accepted, delivered>>

GoOn(p) ==
  \/ ScanFree(p) \/ ScanNext(p) \/ Refuse(p) \/ CopyIn(p)
  \/ HandOver(p) \/ Enqueue(p) \/ QueueFull(p) \/ Mark(p)

Push(p) == Call(p) \/ GoOn(p)

-----------------------------------------------------------------------------
(* pop *)

(* tx_queue_receive with TX_WAIT_FOREVER *)
Receive ==
  /\ pc[Consumer] = "work" /\ Runs(Consumer) /\ tx # <<>>
  /\ node' = [node EXCEPT ![Consumer] = Head(tx)]
  /\ tx' = Tail(tx)
  /\ pc' = [pc EXCEPT ![Consumer] = "clear"]
  /\ UNCHANGED <<data, inUse, copied, sent, count, popped, accepted, delivered>>

Wait ==
  /\ pc[Consumer] = "work" /\ Runs(Consumer) /\ tx = <<>>
  /\ pc' = [pc EXCEPT ![Consumer] = "waiting"]
  /\ UNCHANGED <<data, inUse, tx, node, copied, sent, count, popped, accepted, delivered>>

ClearForgotten ==               \* mutant: the node is never given back
  /\ pc[Consumer] \in {"ready", "clear"} /\ Runs(Consumer)
  /\ copied' = [copied EXCEPT ![Consumer] = 0]
  /\ pc' = [pc EXCEPT ![Consumer] = "copy"]
  /\ UNCHANGED <<data, inUse, tx, node, sent, count, popped, accepted, delivered>>

(* poppedItem->inUse = false, before the copy *)
Clear ==
  /\ pc[Consumer] \in {"ready", "clear"} /\ Runs(Consumer)
  /\ inUse' = [inUse EXCEPT ![node[Consumer]] = FALSE]
  /\ copied' = [copied EXCEPT ![Consumer] = 0]
  /\ pc' = [pc EXCEPT ![Consumer] = "copy"]
  /\ UNCHANGED <<data, tx, node, sent, count, popped, accepted, delivered>>

CopyOut ==
  /\ pc[Consumer] = "copy" /\ Runs(Consumer) /\ copied[Consumer] < Words
  /\ popped' = [popped EXCEPT ![copied[Consumer] + 1] = data[node[Consumer]][copied[Consumer] + 1]]
  /\ copied' = [copied EXCEPT ![Consumer] = @ + 1]
  /\ UNCHANGED <<data, inUse, tx, pc, node, sent, count, accepted, delivered>>

Deliver ==
  /\ pc[Consumer] = "copy" /\ Runs(Consumer) /\ copied[Consumer] = Words
  /\ delivered' = Append(delivered, popped)
  /\ pc' = [pc EXCEPT ![Consumer] = "work"]
  /\ UNCHANGED <<data, inUse, tx, node, copied, sent, count, popped, accepted>>

Pop == Receive \/ Wait \/ Clear \/ CopyOut \/ Deliver

Next == Pop \/ \E p \in Producers : Push(p)

(* A ready context of the highest priority is always run, so an operation  *)
(* that was begun goes on, and the consumer always calls pop again.  That  *)
(* a producer calls push is up to the outside.                             *)
Fairness ==
  /\ WF_vars(Pop)
  /\ \A p \in Producers : WF_vars(GoOn(p))

Safety == Init /\ [][Next]_vars
Spec   == Safety /\ Fairness

-----------------------------------------------------------------------------
(* Properties *)

(* No actor can preempt another: what holds among the queue users that are *)
(* threads of one priority (Socket, USB-CDC, MessageHandler).              *)
NoPreemption == \A a, b \in Actors : Priority[a] = Priority[b]

(* No producer is less urgent than the consumer: what holds of both queues *)
(* of the firmware, the handler's and the debug thread's.                  *)
ConsumerNotAbove == \A p \in Producers : Priority[Consumer] <= Priority[p]

Quiet == \A a \in Actors : ~Busy(a)

(* The node the consumer holds between tx_queue_receive and inUse = false *)
HeldByConsumer ==
  IF pc[Consumer] \in {"ready", "clear"} THEN {node[Consumer]} ELSE {}

(* The nodes on their way to the consumer: queued, or taken off the queue  *)
(* and not yet marked free.                                                *)
OnTheWay == Range(tx) \cup HeldByConsumer

(* push marks the node in use after the pointer is already in the queue;   *)
(* were the pop to come first, the node would stay in use for ever and the *)
(* pool would shrink.  With no producer below the consumer it cannot: a    *)
(* node in use is in the queue or on its way out of it.                    *)
NoLeak == \A n \in Nodes : inUse[n] => n \in OnTheWay

(* A push that is about to give up for want of a node does so with as many *)
(* messages waiting as the queue was made for.                             *)
RefusedOnlyWhenFull ==
  \A p \in Producers :
    pc[p] = "scan" /\ node[p] = Capacity /\ inUse[node[p]] =>
      Len(tx) + Cardinality(HeldByConsumer) >= Capacity

(* What pop hands out is what push took in, whole, once and in order.      *)
DeliveredInOrder ==
  /\ Len(delivered) <= Len(accepted)
  /\ \A i \in 1 .. Len(delivered) : delivered[i] = accepted[i]

(* Two queue entries never point at one node, and a queued node is never   *)
(* free for the next push.                                                 *)
QueuedOnce ==
  /\ \A i, j \in 1 .. Len(tx) : tx[i] = tx[j] => i = j
  /\ Quiet => \A i \in 1 .. Len(tx) : inUse[tx[i]]

(* However the actors preempt each other, as many messages come out as     *)
(* went in: no accepted push is left without its pop.                      *)
EveryPushIsPopped ==
  \A k \in 1 .. MaxPush * Cardinality(Producers) :
    Len(accepted) >= k ~> Len(delivered) >= k

Fifo == INSTANCE Channel WITH Payloads <- {Whole(m) : m \in MessageIds}

(* The queue implements the channel, its progress included. *)
ImplementsChannel == Fifo!Spec
=============================================================================
