---------------------------- MODULE QueueT_proofs ----------------------------
(***************************************************************************)
(* Proofs about QueueT for every set of producers, every priority, every   *)
(* capacity and every message size.                                        *)
(***************************************************************************)
EXTENDS QueueT, TLAPS, FiniteSetTheorems

-----------------------------------------------------------------------------
(* Type correctness *)

(* TypeOK is not inductive by itself: a memcpy that has more to move has   *)
(* moved less than all.                                                    *)
TypeInv ==
  /\ TypeOK
  /\ \A p \in Producers : pc[p] = "copy" => copied[p] < Words

USE QueueAssumption

LEMMA InitTypeInv == Init => TypeInv
  BY DEF Init, TypeInv, TypeOK, Actors, Nodes, Contents, Whole, ProducerSteps, ConsumerSteps

LEMMA NextTypeInv == TypeInv /\ [Next]_vars => TypeInv'
<1> SUFFICES ASSUME TypeInv, [Next]_vars PROVE TypeInv'
    OBVIOUS
<1> USE DEF TypeInv, TypeOK, Actors, Nodes, ProducerSteps, ConsumerSteps
<1>1. ASSUME NEW p \in Producers, Call(p) PROVE TypeInv'
  <2>1. count' \in [Producers -> 0 .. MaxPush]
    BY <1>1 DEF Call
  <2>2. pc' \in [Actors -> ProducerSteps \cup ConsumerSteps] /\ node' \in [Actors -> Nodes]
    BY <1>1 DEF Call
  <2>3. \A q \in Producers : pc'[q] \in ProducerSteps /\ (pc'[q] # "idle" => count'[q] >= 1)
    BY SMTT(20), <1>1 DEF Call
  <2>4. \A q \in Producers : pc'[q] = "copy" => copied'[q] < Words
    BY <1>1 DEF Call
  <2>5. pc'[Consumer] \in ConsumerSteps
    BY <1>1 DEF Call
  <2> QED
    BY <1>1, <2>1, <2>2, <2>3, <2>4, <2>5 DEF Call
<1>2. ASSUME NEW p \in Producers, ScanFree(p) PROVE TypeInv'
  <2>1. copied' \in [Actors -> 0 .. Words] /\ pc' \in [Actors -> ProducerSteps \cup ConsumerSteps]
    BY SMTT(20), <1>2 DEF ScanFree
  <2>2. \A q \in Producers : pc'[q] \in ProducerSteps /\ (pc'[q] # "idle" => count[q] >= 1)
    BY <1>2 DEF ScanFree
  <2>3. \A q \in Producers : pc'[q] = "copy" => copied'[q] < Words
    BY <1>2 DEF ScanFree
  <2>4. pc'[Consumer] \in ConsumerSteps
    BY <1>2 DEF ScanFree
  <2> QED
    BY <1>2, <2>1, <2>2, <2>3, <2>4 DEF ScanFree
<1>3. ASSUME NEW p \in Producers, ScanNext(p) PROVE TypeInv'
  <2>1. node' \in [Actors -> Nodes]
    BY <1>3 DEF ScanNext
  <2> QED
    BY <1>3, <2>1 DEF ScanNext
<1>4. ASSUME NEW p \in Producers, Refuse(p) PROVE TypeInv'
  <2>1. pc' \in [Actors -> ProducerSteps \cup ConsumerSteps] /\ pc'[Consumer] = pc[Consumer]
    BY <1>4 DEF Refuse
  <2>2. \A q \in Producers : pc'[q] \in {pc[q], "idle"}
    BY <1>4 DEF Refuse
  <2> QED
    BY <1>4, <2>1, <2>2 DEF Refuse
<1>5. ASSUME NEW p \in Producers, CopyIn(p) PROVE TypeInv'
  <2>1. Message(p) \in MessageIds
    BY <1>5 DEF CopyIn, Message, MessageIds
  <2>2. node[p] \in Nodes /\ copied[p] + 1 \in 1 .. Words
    BY <1>5 DEF CopyIn
  <2>3. [data[node[p]] EXCEPT ![copied[p] + 1] = Message(p)] \in Contents
    BY <2>1, <2>2 DEF Contents
  <2>4. data' \in [Nodes -> Contents]
    BY <1>5, <2>2, <2>3 DEF CopyIn
  <2>5. copied' \in [Actors -> 0 .. Words] /\ pc' \in [Actors -> ProducerSteps \cup ConsumerSteps]
    BY <1>5, <2>2 DEF CopyIn
  <2>6. \A q \in Producers : pc'[q] = pc[q] \/ (pc'[q] \in {"send", "copy"} /\ pc[q] = "copy")
    BY <1>5 DEF CopyIn
  <2>7. \A q \in Producers : pc'[q] = "copy" => copied'[q] < Words
    <3>1. \A q \in Producers \ {p} : pc'[q] = pc[q] /\ copied'[q] = copied[q]
      BY <1>5 DEF CopyIn
    <3>2. pc'[p] = "copy" => copied[p] + 1 # Words
      BY <1>5 DEF CopyIn
    <3>3. copied'[p] = copied[p] + 1
      BY <1>5 DEF CopyIn
    <3>4. copied'[p] = Words <=> copied[p] + 1 = Words
      BY <3>3
    <3>5. copied'[p] \in 1 .. Words
      BY <2>2, <3>3
    <3>6. pc'[p] = "copy" => copied'[p] < Words
      BY <3>2, <3>4, <3>5
    <3> QED
      BY <3>1, <3>6
  <2>8. pc'[Consumer] \in ConsumerSteps
    BY <1>5 DEF CopyIn
  <2> QED
    BY <1>5, <2>4, <2>5, <2>6, <2>7, <2>8 DEF CopyIn
<1>6. ASSUME NEW p \in Producers, HandOver(p) PROVE TypeInv'
  <2>1. Whole(Message(p)) \in Contents
    BY <1>6 DEF HandOver, Message, MessageIds, Whole, Contents
  <2>2. pc' \in [Actors -> ProducerSteps \cup ConsumerSteps] /\ node' \in [Actors -> Nodes]
    BY <1>6 DEF HandOver
  <2>3. \A q \in Producers : pc'[q] = pc[q] \/ (pc'[q] = "mark" /\ pc[q] = "send")
    BY <1>6 DEF HandOver
  <2>4. pc'[Consumer] = "ready"
    BY <1>6 DEF HandOver
  <2>5. accepted' \in Seq(Contents) /\ sent' \in [Producers -> BOOLEAN]
    BY <1>6, <2>1 DEF HandOver
  <2>6. \A q \in Producers : pc'[q] = "copy" => copied'[q] < Words
    BY <1>6, <2>3 DEF HandOver
  <2> QED
    BY <1>6, <2>1, <2>2, <2>3, <2>4, <2>5, <2>6 DEF HandOver
<1>7. ASSUME NEW p \in Producers, Enqueue(p) PROVE TypeInv'
  <2>1. Whole(Message(p)) \in Contents
    BY <1>7 DEF Enqueue, Message, MessageIds, Whole, Contents
  <2>2. pc' \in [Actors -> ProducerSteps \cup ConsumerSteps] /\ pc'[Consumer] = pc[Consumer]
    BY <1>7 DEF Enqueue
  <2>3. \A q \in Producers : pc'[q] = pc[q] \/ (pc'[q] = "mark" /\ pc[q] = "send")
    BY <1>7 DEF Enqueue
  <2>4. tx' \in Seq(Nodes) /\ Len(tx') <= Capacity
    BY <1>7 DEF Enqueue
  <2>5. accepted' \in Seq(Contents) /\ sent' \in [Producers -> BOOLEAN]
    BY <1>7, <2>1 DEF Enqueue
  <2>6. \A q \in Producers : pc'[q] = "copy" => copied'[q] < Words
    BY <1>7, <2>3 DEF Enqueue
  <2> QED
    BY <1>7, <2>1, <2>2, <2>3, <2>4, <2>5, <2>6 DEF Enqueue
<1>8. ASSUME NEW p \in Producers, QueueFull(p) PROVE TypeInv'
  <2>1. pc' \in [Actors -> ProducerSteps \cup ConsumerSteps] /\ pc'[Consumer] = pc[Consumer]
    BY <1>8 DEF QueueFull
  <2>2. \A q \in Producers : pc'[q] = pc[q] \/ (pc'[q] = "mark" /\ pc[q] = "send")
    BY <1>8 DEF QueueFull
  <2> QED
    BY <1>8, <2>1, <2>2 DEF QueueFull
<1>9. ASSUME NEW p \in Producers, Mark(p) PROVE TypeInv'
  <2>1. pc' \in [Actors -> ProducerSteps \cup ConsumerSteps] /\ pc'[Consumer] = pc[Consumer]
    BY <1>9 DEF Mark
  <2>2. \A q \in Producers : pc'[q] \in {pc[q], "idle"}
    BY <1>9 DEF Mark
  <2> QED
    BY <1>9, <2>1, <2>2 DEF Mark
<1>10. CASE Receive
  <2>1. tx' \in Seq(Nodes) /\ Len(tx') <= Capacity /\ Head(tx) \in Nodes
    BY <1>10 DEF Receive
  <2>2. node' \in [Actors -> Nodes] /\ pc' \in [Actors -> ProducerSteps \cup ConsumerSteps]
    BY <1>10, <2>1 DEF Receive
  <2>3. \A q \in Producers : pc'[q] = pc[q]
    BY <1>10 DEF Receive
  <2>4. pc'[Consumer] = "clear"
    BY <1>10 DEF Receive
  <2> QED
    BY <1>10, <2>1, <2>2, <2>3, <2>4 DEF Receive
<1>11. CASE Wait
  BY <1>11 DEF Wait
<1>12. CASE Clear
  BY <1>12 DEF Clear
<1>13. CASE CopyOut
  <2>1. popped' \in Contents
    BY <1>13 DEF CopyOut, Contents
  <2> QED
    BY <1>13, <2>1 DEF CopyOut
<1>14. CASE Deliver
  BY <1>14 DEF Deliver
<1>15. CASE UNCHANGED vars
  BY <1>15 DEF vars
<1> QED
  BY <1>1, <1>2, <1>3, <1>4, <1>5, <1>6, <1>7, <1>8, <1>9, <1>10, <1>11, <1>12,
     <1>13, <1>14, <1>15 DEF Next, Pop, Push, GoOn

(* Every variable of the queue keeps its type: no node index leaves the    *)
(* pool, no copy runs past a message, the ThreadX queue never overflows.   *)
THEOREM TypeCorrect == Safety => []TypeOK
<1>1. TypeInv => TypeOK
  BY DEF TypeInv
<1> QED
  BY InitTypeInv, NextTypeInv, <1>1, PTL DEF Safety

-----------------------------------------------------------------------------
(* No node is lost to the pool *)

LeakInv ==
  /\ NoLeak
  /\ \A p \in Producers :
       pc[p] = "mark" /\ sent[p] => node[p] \in OnTheWay

(* What the queue's two sequence operations do to the set of queued nodes. *)
LEMMA RangeAppend ==
  ASSUME NEW s \in Seq(Nodes), NEW e \in Nodes
  PROVE  Range(Append(s, e)) = Range(s) \cup {e}
<1>1. /\ DOMAIN s = 1 .. Len(s) /\ DOMAIN Append(s, e) = 1 .. Len(s) + 1
      /\ \A i \in 1 .. Len(s) : Append(s, e)[i] = s[i]
      /\ Append(s, e)[Len(s) + 1] = e
  OBVIOUS
<1>2. 1 .. Len(s) + 1 = (1 .. Len(s)) \cup {Len(s) + 1}
  OBVIOUS
<1> QED
  BY <1>1, <1>2 DEF Range

LEMMA RangeHeadTail ==
  ASSUME NEW s \in Seq(Nodes), s # <<>>
  PROVE  Range(s) = {Head(s)} \cup Range(Tail(s))
<1>1. \A x \in Range(Tail(s)) : x \in Range(s)
  BY DEF Range
<1>2. Head(s) \in Range(s)
  BY DEF Range
<1>3. ASSUME NEW x \in Range(s) PROVE x = Head(s) \/ x \in Range(Tail(s))
  <2>1. PICK i \in 1 .. Len(s) : x = s[i]
    BY DEF Range
  <2>2. CASE i = 1
    BY <2>1, <2>2
  <2>3. CASE i # 1
    <3>1. i - 1 \in DOMAIN Tail(s) /\ Tail(s)[i - 1] = x
      BY <2>1, <2>3
    <3> QED
      BY <3>1 DEF Range
  <2> QED
    BY <2>2, <2>3
<1> QED
  BY <1>1, <1>2, <1>3

(* When the consumer runs, no producer that could still mark a node is in  *)
(* the middle of a push.                                                   *)
LEMMA ConsumerAlone ==
  ASSUME ConsumerNotAbove, Runs(Consumer), NEW p \in Producers
  PROVE  ~Busy(p)
BY DEF ConsumerNotAbove, Runs, Actors

LEMMA NextLeakInv ==
  ASSUME ConsumerNotAbove, TypeInv, LeakInv, [Next]_vars
  PROVE  LeakInv'
<1> USE DEF TypeInv, TypeOK, Actors, Nodes, ProducerSteps, ConsumerSteps, HeldByConsumer
<1>1. ASSUME NEW p \in Producers, Call(p) \/ ScanFree(p) \/ ScanNext(p) \/ Refuse(p) \/ CopyIn(p)
      PROVE  LeakInv'
  <2>1. tx' = tx /\ inUse' = inUse /\ sent' = sent /\ pc'[Consumer] = pc[Consumer]
        /\ node'[Consumer] = node[Consumer]
    BY <1>1 DEF Call, ScanFree, ScanNext, Refuse, CopyIn
  <2>3. OnTheWay' = OnTheWay
    BY <2>1 DEF OnTheWay
  <2>2. \A q \in Producers : pc'[q] = "mark" => pc[q] = "mark" /\ node'[q] = node[q]
    BY <1>1 DEF Call, ScanFree, ScanNext, Refuse, CopyIn
  <2> QED
    BY <2>1, <2>2, <2>3 DEF LeakInv, NoLeak
<1>2. ASSUME NEW p \in Producers, HandOver(p) PROVE LeakInv'
  <2>1. OnTheWay' = OnTheWay \cup {node[p]}
    BY <1>2 DEF HandOver, OnTheWay
  <2>2. \A q \in Producers \ {p} : pc'[q] = pc[q] /\ sent'[q] = sent[q]
    BY <1>2 DEF HandOver
  <2>3. \A q \in Producers : node'[q] = node[q]
    BY <1>2 DEF HandOver
  <2> QED
    BY <1>2, <2>1, <2>2, <2>3 DEF HandOver, LeakInv, NoLeak
<1>3. ASSUME NEW p \in Producers, Enqueue(p) PROVE LeakInv'
  <2>1. OnTheWay' = OnTheWay \cup {node[p]}
    <3>1. node[p] \in Nodes /\ tx \in Seq(Nodes) /\ tx' = Append(tx, node[p])
      BY <1>3 DEF Enqueue
    <3>2. Range(tx') = Range(tx) \cup {node[p]}
      BY <3>1, RangeAppend
    <3>3. HeldByConsumer' = HeldByConsumer
      BY <1>3 DEF Enqueue
    <3> QED
      BY <3>2, <3>3 DEF OnTheWay
  <2>2. \A q \in Producers \ {p} : pc'[q] = pc[q] /\ sent'[q] = sent[q]
    BY <1>3 DEF Enqueue
  <2> QED
    BY <1>3, <2>1, <2>2 DEF Enqueue, LeakInv, NoLeak
<1>4. ASSUME NEW p \in Producers, QueueFull(p) PROVE LeakInv'
  <2>1. OnTheWay' = OnTheWay
    BY <1>4 DEF QueueFull, OnTheWay
  <2>2. \A q \in Producers : pc'[q] = "mark" /\ sent'[q] => pc[q] = "mark" /\ sent[q]
    BY <1>4 DEF QueueFull
  <2> QED
    BY <1>4, <2>1, <2>2 DEF QueueFull, LeakInv, NoLeak
<1>5. ASSUME NEW p \in Producers, Mark(p) PROVE LeakInv'
  <2>1. OnTheWay' = OnTheWay
    BY <1>5 DEF Mark, OnTheWay
  <2>2. \A n \in Nodes : inUse'[n] = IF n = node[p] THEN sent[p] ELSE inUse[n]
    BY <1>5 DEF Mark
  <2>3. \A q \in Producers : pc'[q] = "mark" => pc[q] = "mark"
    BY <1>5 DEF Mark
  <2> QED
    BY <1>5, <2>1, <2>2, <2>3 DEF Mark, LeakInv, NoLeak
<1>6. CASE Receive
  <2>1. OnTheWay' = OnTheWay
    <3>1. Range(tx) = {Head(tx)} \cup Range(tx')
      BY <1>6, RangeHeadTail DEF Receive
    <3>2. HeldByConsumer = {} /\ HeldByConsumer' = {Head(tx)}
      BY <1>6 DEF Receive
    <3> QED
      BY <3>1, <3>2 DEF OnTheWay
  <2>2. \A q \in Producers : pc'[q] = pc[q] /\ node'[q] = node[q]
    BY <1>6 DEF Receive
  <2> QED
    BY <1>6, <2>1, <2>2 DEF Receive, LeakInv, NoLeak
<1>7. CASE Clear
  <2>1. \A n \in Nodes : inUse'[n] => inUse[n] /\ n # node[Consumer]
    BY <1>7 DEF Clear
  <2>2. \A n \in OnTheWay : n # node[Consumer] => n \in OnTheWay'
    BY <1>7 DEF Clear, OnTheWay
  <2>3. \A q \in Producers : pc'[q] # "mark"
    BY <1>7, ConsumerAlone DEF Clear, Busy
  <2> QED
    BY <2>1, <2>2, <2>3 DEF LeakInv, NoLeak
<1>8. CASE Wait \/ CopyOut \/ Deliver
  <2>1. OnTheWay' = OnTheWay /\ inUse' = inUse /\ sent' = sent /\ node' = node
    BY <1>8 DEF Wait, CopyOut, Deliver, OnTheWay
  <2>2. \A q \in Producers : pc'[q] = pc[q]
    BY <1>8 DEF Wait, CopyOut, Deliver
  <2> QED
    BY <2>1, <2>2 DEF LeakInv, NoLeak
<1>9. CASE UNCHANGED vars
  BY <1>9 DEF vars, LeakInv, NoLeak, OnTheWay
<1> QED
  BY <1>1, <1>2, <1>3, <1>4, <1>5, <1>6, <1>7, <1>8, <1>9
  DEF Next, Pop, Push, GoOn

(* Whatever preempts whatever, as long as no producer is less urgent than  *)
(* the consumer, marking a node in use after it was sent cannot come after *)
(* the pop marked it free: no node is lost to the pool.                    *)
THEOREM NodesNeverLeak == ASSUME ConsumerNotAbove PROVE Safety => []NoLeak
<1>1. Init => LeakInv
  BY DEF Init, LeakInv, NoLeak, Actors, Nodes
<1>2. TypeInv /\ LeakInv /\ [Next]_vars => LeakInv'
  BY NextLeakInv
<1>3. LeakInv => NoLeak
  BY DEF LeakInv
<1> QED
  BY <1>1, <1>2, <1>3, InitTypeInv, NextTypeInv, PTL DEF Safety

-----------------------------------------------------------------------------
(* A push gives up for want of a node only when the queue is full *)

Pushing(p) == pc[p] \in {"copy", "send", "mark"}

(* What a push has looked at stays in use until it has looked at all: who  *)
(* cuts in and marks a node free again has found it free, so it is not     *)
(* one of those.                                                           *)
ScanInv ==
  /\ \A p \in Producers : pc[p] = "scan" =>
       \A n \in Nodes : n < node[p] => inUse[n]
  /\ \A p, q \in Producers :
       pc[p] = "scan" /\ Pushing(q) /\ Priority[p] < Priority[q] => node[p] <= node[q]

LEMMA ProducerRuns ==
  ASSUME NEW p \in Producers, Runs(p), NEW q \in Producers \ {p}, Busy(q)
  PROVE  Priority[q] < Priority[p]
BY DEF Runs, Actors

(* Another's step leaves a scan where it is.                               *)
LEMMA NextScanInv ==
  ASSUME ConsumerNotAbove, TypeInv, ScanInv, [Next]_vars
  PROVE  ScanInv'
<1> USE DEF TypeInv, TypeOK, Actors, Nodes, ProducerSteps, ConsumerSteps
<1>0. \A p \in Producers : node[p] \in Nat /\ Priority[p] \in Nat
  OBVIOUS
<1>1. ASSUME NEW p \in Producers, Call(p) PROVE ScanInv'
  <2>1. /\ inUse' = inUse /\ pc'[p] = "scan" /\ node'[p] = 1
        /\ \A q \in Producers \ {p} : pc'[q] = pc[q] /\ node'[q] = node[q]
    BY <1>1 DEF Call
  <2>2. \A n \in Nodes : n < node'[p] => inUse'[n]
    BY <2>1
  <2>3. ASSUME NEW q \in Producers, NEW r \in Producers,
               pc'[q] = "scan", Pushing(r)', Priority[q] < Priority[r]
        PROVE  node'[q] <= node'[r]
    <3>1. r # p
      BY <2>1, <2>3 DEF Pushing
    <3>2. node'[r] = node[r] /\ pc'[r] = pc[r] /\ node[r] \in Nodes
      BY <2>1, <3>1
    <3>3. CASE q = p
      BY SMTT(20), <2>1, <3>2, <3>3
    <3>4. CASE q # p
      BY <2>1, <2>3, <3>2, <3>4 DEF ScanInv, Pushing
    <3> QED
      BY <3>3, <3>4
  <2> QED
    BY <2>1, <2>2, <2>3 DEF ScanInv
<1>2. ASSUME NEW p \in Producers, ScanFree(p) PROVE ScanInv'
  <2>1. /\ inUse' = inUse /\ node' = node /\ pc'[p] = "copy" /\ ~inUse[node[p]]
        /\ \A q \in Producers \ {p} : pc'[q] = pc[q]
    BY <1>2 DEF ScanFree
  <2>2. ASSUME NEW q \in Producers, pc'[q] = "scan" PROVE node[q] <= node[p]
    <3>1. pc[q] = "scan" /\ node[p] \in Nodes
      BY <2>1, <2>2
    <3>2. ~(node[p] < node[q])
      BY <2>1, <3>1 DEF ScanInv
    <3> QED
      BY SMTT(20), <1>0, <3>2
  <2> QED
    BY <2>1, <2>2 DEF ScanInv, Pushing
<1>3. ASSUME NEW p \in Producers, ScanNext(p) PROVE ScanInv'
  <2>1. /\ inUse' = inUse /\ pc' = pc /\ inUse[node[p]] /\ node'[p] = node[p] + 1 /\ Runs(p)
        /\ \A q \in Producers \ {p} : node'[q] = node[q]
    BY <1>3 DEF ScanNext
  <2>2. \A q \in Producers \ {p} : Pushing(q) => Priority[q] < Priority[p]
    BY <2>1, ProducerRuns DEF Pushing, Busy
  <2>3. pc[p] = "scan"
    BY <1>3 DEF ScanNext
  <2>4. \A n \in Nodes : n < node'[p] => inUse'[n]
    BY <1>0, <2>1, <2>3 DEF ScanInv
  <2>5. ASSUME NEW q \in Producers, NEW r \in Producers,
               pc'[q] = "scan", Pushing(r)', Priority[q] < Priority[r]
        PROVE  node'[q] <= node'[r]
    <3>1. r # p /\ Pushing(r)
      BY <2>1, <2>3, <2>5 DEF Pushing
    <3>2. q # p
      BY <1>0, <2>2, <2>5, <3>1
    <3> QED
      BY <2>1, <2>5, <3>1, <3>2 DEF ScanInv
  <2> QED
    BY <2>1, <2>4, <2>5 DEF ScanInv
<1>4. ASSUME NEW p \in Producers, Refuse(p) PROVE ScanInv'
  <2>1. /\ inUse' = inUse /\ node' = node /\ pc'[p] = "idle"
        /\ \A q \in Producers \ {p} : pc'[q] = pc[q]
    BY <1>4 DEF Refuse
  <2> QED
    BY <2>1 DEF ScanInv, Pushing
<1>5. ASSUME NEW p \in Producers, CopyIn(p) \/ HandOver(p) \/ Enqueue(p) \/ QueueFull(p)
      PROVE  ScanInv'
  <2>1. /\ inUse' = inUse /\ Pushing(p) /\ Pushing(p)'
        /\ \A q \in Producers \ {p} : pc'[q] = pc[q]
        /\ \A q \in Producers : node'[q] = node[q]
    BY <1>5 DEF CopyIn, HandOver, Enqueue, QueueFull, Pushing
  <2> QED
    BY <2>1 DEF ScanInv, Pushing
<1>6. ASSUME NEW p \in Producers, Mark(p) PROVE ScanInv'
  <2>1. /\ node' = node /\ pc[p] = "mark" /\ pc'[p] = "idle" /\ Runs(p)
        /\ \A q \in Producers \ {p} : pc'[q] = pc[q]
        /\ \A n \in Nodes : n # node[p] => inUse'[n] = inUse[n]
    BY <1>6 DEF Mark
  <2>2. \A q \in Producers : pc'[q] = "scan" => pc[q] = "scan" /\ node[q] <= node[p]
    <3>1. ASSUME NEW q \in Producers, pc'[q] = "scan"
          PROVE  q # p /\ pc[q] = "scan" /\ Priority[q] < Priority[p]
      BY <2>1, <3>1, ProducerRuns DEF Busy
    <3> QED
      BY <2>1, <3>1 DEF ScanInv, Pushing
  <2>3. ASSUME NEW q \in Producers, pc'[q] = "scan", NEW n \in Nodes, n < node'[q]
        PROVE  inUse'[n]
    <3>1. pc[q] = "scan" /\ n < node[q] /\ node[q] <= node[p]
      BY <2>1, <2>2, <2>3
    <3>2. n # node[p]
      BY <1>0, <3>1
    <3> QED
      BY <2>1, <3>1, <3>2 DEF ScanInv
  <2>4. \A q, r \in Producers : pc'[q] = "scan" /\ Pushing(r)' => pc[q] = "scan" /\ Pushing(r)
    BY <2>1 DEF Pushing
  <2> QED
    BY <2>1, <2>3, <2>4 DEF ScanInv
<1>7. CASE Clear
  <2>1. \A q \in Producers : pc'[q] # "scan"
    BY <1>7, ConsumerAlone DEF Clear, Busy
  <2> QED
    BY <2>1 DEF ScanInv
<1>8. CASE Receive \/ Wait \/ CopyOut \/ Deliver
  <2>1. /\ inUse' = inUse
        /\ \A q \in Producers : pc'[q] = pc[q] /\ node'[q] = node[q]
    BY <1>8 DEF Receive, Wait, CopyOut, Deliver
  <2> QED
    BY <2>1 DEF ScanInv, Pushing
<1>9. CASE UNCHANGED vars
  BY <1>9 DEF vars, ScanInv, Pushing
<1> QED
  BY <1>1, <1>2, <1>3, <1>4, <1>5, <1>6, <1>7, <1>8, <1>9 DEF Next, Pop, Push, GoOn

-----------------------------------------------------------------------------
(* Counting *)

LEMMA NodesOnTheWay ==
  ASSUME TypeInv, Nodes \subseteq OnTheWay
  PROVE  Len(tx) + Cardinality(HeldByConsumer) >= Capacity
<1>1. tx \in Seq(Nodes) /\ Len(tx) \in Nat /\ node[Consumer] \in Nodes
  BY DEF TypeInv, TypeOK, Actors
<1>2. IsFiniteSet(1 .. Len(tx)) /\ Cardinality(1 .. Len(tx)) = Len(tx)
  <2> DEFINE k == Len(tx)
  <2>1. k \in Nat
    BY <1>1
  <2> HIDE DEF k
  <2>2. IsFiniteSet(1 .. k) /\ Cardinality(1 .. k) = IF 1 > k THEN 0 ELSE k - 1 + 1
    BY <2>1, FS_Interval
  <2>3. IsFiniteSet(1 .. k) /\ Cardinality(1 .. k) = k
    BY <2>1, <2>2
  <2> QED
    BY <2>3 DEF k
<1>3. tx \in Surjection(1 .. Len(tx), Range(tx))
  BY <1>1 DEF Surjection, Range
<1>4. IsFiniteSet(Range(tx)) /\ Cardinality(Range(tx)) <= Len(tx)
  BY <1>2, <1>3, FS_Surjection
<1>5. IsFiniteSet(HeldByConsumer) /\ Cardinality(HeldByConsumer) \in Nat
  BY FS_EmptySet, FS_Singleton, FS_CardinalityType DEF HeldByConsumer
<1>6. /\ IsFiniteSet(Range(tx) \cup HeldByConsumer)
      /\ Cardinality(Range(tx) \cup HeldByConsumer)
           <= Cardinality(Range(tx)) + Cardinality(HeldByConsumer)
  <2>1. /\ IsFiniteSet(Range(tx) \cup HeldByConsumer)
        /\ Cardinality(Range(tx) \cup HeldByConsumer)
             = Cardinality(Range(tx)) + Cardinality(HeldByConsumer)
                 - Cardinality(Range(tx) \cap HeldByConsumer)
    BY <1>4, <1>5, FS_Union
  <2>2. Cardinality(Range(tx) \cap HeldByConsumer) \in Nat
    BY <1>4, <1>5, FS_Subset, FS_CardinalityType
  <2>3. Cardinality(Range(tx)) \in Nat
    BY <1>4, FS_CardinalityType
  <2> QED
    BY <1>5, <2>1, <2>2, <2>3
<1>7. IsFiniteSet(Nodes) /\ Cardinality(Nodes) = Capacity
  BY FS_Interval DEF Nodes
<1>8. Cardinality(Nodes) <= Cardinality(Range(tx) \cup HeldByConsumer)
  BY <1>6, FS_Subset DEF OnTheWay
<1>9. /\ Cardinality(Range(tx)) \in Nat
      /\ Cardinality(Range(tx) \cup HeldByConsumer) \in Nat
  BY <1>4, <1>6, FS_CardinalityType
<1> QED
  BY <1>1, <1>4, <1>5, <1>6, <1>7, <1>8, <1>9

(* Whatever preempts whatever, as long as no producer is less urgent than  *)
(* the consumer, a push that finds no free node finds as many messages     *)
(* waiting as the queue was made for.                                      *)
THEOREM RefusesOnlyWhenFull ==
  ASSUME ConsumerNotAbove PROVE Safety => []RefusedOnlyWhenFull
<1>1. Init => ScanInv /\ LeakInv
  BY DEF Init, ScanInv, Pushing, LeakInv, NoLeak, Actors, Nodes
<1>2. TypeInv /\ LeakInv /\ [Next]_vars => LeakInv'
  BY NextLeakInv
<1>3. TypeInv /\ ScanInv /\ [Next]_vars => ScanInv'
  BY NextScanInv
<1>4. TypeInv /\ LeakInv /\ ScanInv => RefusedOnlyWhenFull
  <2> SUFFICES ASSUME TypeInv, LeakInv, ScanInv, NEW p \in Producers,
                      pc[p] = "scan", node[p] = Capacity, inUse[node[p]]
               PROVE  Len(tx) + Cardinality(HeldByConsumer) >= Capacity
    BY DEF RefusedOnlyWhenFull
  <2>1. \A n \in Nodes : inUse[n]
    BY DEF ScanInv, Nodes
  <2> QED
    BY <2>1, NodesOnTheWay DEF LeakInv, NoLeak
<1> QED
  BY <1>1, <1>2, <1>3, <1>4, InitTypeInv, NextTypeInv, PTL DEF Safety

-----------------------------------------------------------------------------
(* First in, first out: when its users cannot preempt each other, a queue  *)
(* hands out what it took in, in order, and implements Channel, for every  *)
(* number of users, every capacity and every message size.                 *)

(* The consumer has a message it has not handed out yet. *)
Holding == pc[Consumer] \in {"ready", "clear", "copy"}

(* How many of the accepted messages have left the queue. *)
Off == Len(delivered) + (IF Holding THEN 1 ELSE 0)

OneBusy == \A a, b \in Actors : Busy(a) /\ Busy(b) => a = b

Sent(p) == pc[p] = "mark" /\ sent[p]

(* A push that has chosen a node whose pointer is not in the queue yet.    *)
Filling(p) == pc[p] \in {"copy", "send"} \/ (pc[p] = "mark" /\ ~sent[p])

(* What is accepted is what was delivered, then what the consumer holds,   *)
(* then the queue.                                                         *)
Accounted ==
  /\ Len(accepted) = Off + Len(tx)
  /\ \A i \in 1 .. Len(delivered) : delivered[i] = accepted[i]
  /\ Holding => data[node[Consumer]] = accepted[Off]
  /\ \A i \in 1 .. Len(tx) : data[tx[i]] = accepted[Off + i]
  /\ pc[Consumer] = "waiting" => tx = <<>>

(* The nodes on their way are distinct, and no push takes one of them.     *)
Apart ==
  /\ \A i, j \in 1 .. Len(tx) : tx[i] = tx[j] => i = j
  /\ pc[Consumer] \in {"ready", "clear"} => \A i \in 1 .. Len(tx) : tx[i] # node[Consumer]
  /\ \A n \in OnTheWay : inUse[n] \/ \E p \in Producers : Sent(p) /\ node[p] = n
  /\ \A p \in Producers : Filling(p) => node[p] \notin OnTheWay

(* What the two copies have moved so far *)
Copies ==
  /\ pc[Consumer] = "copy" =>
       \A w \in 1 .. copied[Consumer] : popped[w] = data[node[Consumer]][w]
  /\ \A p \in Producers : pc[p] = "copy" =>
       \A w \in 1 .. copied[p] : data[node[p]][w] = Message(p)
  /\ \A p \in Producers : pc[p] = "send" => data[node[p]] = Whole(Message(p))

FifoInv == OneBusy /\ Accounted /\ Apart /\ Copies

-----------------------------------------------------------------------------
(* One priority: whoever runs is the only one in the middle of something.  *)

LEMMA ProducerRunsAlone ==
  ASSUME NoPreemption, TypeInv, NEW p \in Producers, Runs(p)
  PROVE  /\ pc[Consumer] \in {"work", "waiting", "ready"}
         /\ \A q \in Producers \ {p} : pc[q] = "idle"
<1>1. \A b \in Actors \ {p} : ~Busy(b)
  <2>1. \A b \in Actors : Priority[b] \in Nat /\ Priority[b] = Priority[p]
    BY DEF NoPreemption, Actors
  <2> QED
    BY <2>1 DEF Runs, Actors
<1>2. Consumer \in Actors \ {p} /\ Producers \ {p} \subseteq Actors \ {p}
  BY DEF Actors
<1>3. pc[Consumer] \in ConsumerSteps /\ \A q \in Producers : pc[q] \in ProducerSteps
  BY DEF TypeInv, TypeOK
<1>4. ~Busy(Consumer) /\ \A q \in Producers \ {p} : ~Busy(q)
  BY <1>1, <1>2
<1> QED
  BY <1>3, <1>4 DEF Busy, ProducerSteps, ConsumerSteps

LEMMA ConsumerRunsAlone ==
  ASSUME NoPreemption, TypeInv, Runs(Consumer)
  PROVE  \A q \in Producers : pc[q] = "idle"
<1>1. \A b \in Producers : ~Busy(b)
  <2>1. \A b \in Actors : Priority[b] \in Nat /\ Priority[b] = Priority[Consumer]
    BY DEF NoPreemption, Actors
  <2> QED
    BY <2>1 DEF Runs, Actors
<1> QED
  BY <1>1 DEF Busy, TypeInv, TypeOK, ProducerSteps

(* The one that runs is the only one that can be busy after its step.      *)
LEMMA NextOneBusy ==
  ASSUME NoPreemption, TypeInv, OneBusy, [Next]_vars
  PROVE  OneBusy'
<1> USE DEF TypeInv, TypeOK, Actors, ProducerSteps, ConsumerSteps
<1>1. ASSUME NEW p \in Producers, Push(p) PROVE OneBusy'
  <2>1. Runs(p)
    BY <1>1 DEF Push, GoOn, Call, ScanFree, ScanNext, Refuse, CopyIn, HandOver,
                Enqueue, QueueFull, Mark
  <2>2. \A q \in Producers \ {p} : pc'[q] = pc[q]
    BY <1>1 DEF Push, GoOn, Call, ScanFree, ScanNext, Refuse, CopyIn, HandOver,
                Enqueue, QueueFull, Mark
  <2>3. pc'[Consumer] \in {pc[Consumer], "ready"}
    BY <1>1 DEF Push, GoOn, Call, ScanFree, ScanNext, Refuse, CopyIn, HandOver,
                Enqueue, QueueFull, Mark
  <2>4. \A b \in Actors \ {p} : ~Busy(b)'
    BY <2>1, <2>2, <2>3, ProducerRunsAlone DEF Busy
  <2> QED
    BY <2>4 DEF OneBusy
<1>2. CASE Pop
  <2>1. Runs(Consumer) /\ \A q \in Producers : pc'[q] = pc[q]
    BY <1>2 DEF Pop, Receive, Wait, Clear, CopyOut, Deliver
  <2>2. \A b \in Producers : ~Busy(b)'
    BY <2>1, ConsumerRunsAlone DEF Busy
  <2> QED
    BY <2>2 DEF OneBusy
<1>3. CASE UNCHANGED vars
  BY <1>3 DEF vars, OneBusy, Busy
<1> QED
  BY <1>1, <1>2, <1>3 DEF Next

-----------------------------------------------------------------------------
(* The steps of a push *)

(* Steps that touch neither the pool nor the queue. *)
LEMMA LookingStep ==
  ASSUME NoPreemption, TypeInv, FifoInv, NEW p \in Producers,
         Call(p) \/ ScanFree(p) \/ ScanNext(p) \/ Refuse(p)
  PROVE  Accounted' /\ Apart' /\ Copies'
<1> USE DEF TypeInv, TypeOK, Actors, Nodes, ProducerSteps, ConsumerSteps
<1>1. /\ UNCHANGED <<data, inUse, tx, sent, popped, accepted, delivered>>
      /\ pc'[Consumer] = pc[Consumer] /\ node'[Consumer] = node[Consumer]
      /\ copied'[Consumer] = copied[Consumer]
      /\ \A q \in Producers \ {p} : pc'[q] = pc[q]
  BY DEF Call, ScanFree, ScanNext, Refuse
<1>2. Runs(p)
  BY DEF Call, ScanFree, ScanNext, Refuse
<1>3. \A q \in Producers \ {p} : pc[q] = "idle"
  BY <1>2, ProducerRunsAlone
<1>4. pc[p] \in {"idle", "scan"}
  BY DEF Call, ScanFree, ScanNext, Refuse
<1>5. pc'[p] \in {"idle", "scan"} \/ (ScanFree(p) /\ pc'[p] = "copy")
  BY DEF Call, ScanFree, ScanNext, Refuse
<1>6. \A n \in OnTheWay : inUse[n]
  BY <1>3, <1>4, FifoInv DEF FifoInv, Apart, Sent
<1>7. OnTheWay' = OnTheWay /\ Off' = Off /\ Holding' = Holding
  BY <1>1 DEF OnTheWay, HeldByConsumer, Off, Holding
<1>8. Accounted'
  BY <1>1, <1>7 DEF FifoInv, Accounted
<1>9. Apart'
  <2>1. \A q \in Producers : Filling(q)' => q = p /\ node'[p] \notin OnTheWay
    <3>1. \A q \in Producers \ {p} : ~Filling(q)'
      BY <1>1, <1>3 DEF Filling
    <3>2. ScanFree(p) => node'[p] \notin OnTheWay
      BY <1>6 DEF ScanFree
    <3> QED
      BY <1>5, <3>1, <3>2 DEF Filling
  <2>2. \A n \in OnTheWay' : inUse'[n]
    BY <1>1, <1>6, <1>7
  <2>3. /\ \A i, j \in 1 .. Len(tx') : tx'[i] = tx'[j] => i = j
        /\ pc'[Consumer] \in {"ready", "clear"} => \A i \in 1 .. Len(tx') : tx'[i] # node'[Consumer]
    BY <1>1 DEF FifoInv, Apart
  <2> QED
    BY <1>7, <2>1, <2>2, <2>3 DEF Apart
<1>10. Copies'
  <2>1. \A q \in Producers \ {p} : pc'[q] = "idle"
    BY <1>1, <1>3
  <2>2. pc'[p] # "send" /\ (pc'[p] = "copy" => copied'[p] = 0)
    BY <1>5 DEF ScanFree
  <2>3. pc'[p] = "copy" => \A w \in 1 .. copied'[p] : data'[node'[p]][w] = Message(p)'
    BY <2>2
  <2> QED
    BY <1>1, <2>1, <2>2, <2>3 DEF FifoInv, Copies
<1> QED
  BY <1>8, <1>9, <1>10

(* A node all of whose words are of one message holds that message. *)
LEMMA WholeByWords ==
  ASSUME NEW f \in Contents, NEW m, \A w \in 1 .. Words : f[w] = m
  PROVE  f = Whole(m)
BY DEF Contents, Whole

(* The copy into a node disturbs no node that is queued or held. *)
LEMMA CopyInStep ==
  ASSUME NoPreemption, TypeInv, FifoInv, NEW p \in Producers, CopyIn(p)
  PROVE  Accounted' /\ Apart' /\ Copies'
<1> USE DEF TypeInv, TypeOK, Actors, Nodes, ProducerSteps, ConsumerSteps
<1>1. /\ pc[Consumer] \in {"work", "waiting", "ready"}
      /\ \A q \in Producers \ {p} : pc[q] = "idle"
  BY ProducerRunsAlone DEF CopyIn
<1>2. /\ UNCHANGED <<inUse, tx, node, sent, count, popped, accepted, delivered>>
      /\ pc'[Consumer] = pc[Consumer] /\ copied'[Consumer] = copied[Consumer]
      /\ \A q \in Producers \ {p} : pc'[q] = pc[q]
      /\ pc[p] = "copy" /\ copied[p] < Words /\ copied'[p] = copied[p] + 1
      /\ pc'[p] = IF copied[p] + 1 = Words THEN "send" ELSE "copy"
  BY DEF CopyIn
<1>3. node[p] \in Nodes /\ node[p] \notin OnTheWay
  BY <1>2 DEF FifoInv, Apart, Filling
<1>4. \A n \in Nodes : n # node[p] => data'[n] = data[n]
  BY DEF CopyIn
<1>5. /\ data[node[p]] \in [1 .. Words -> MessageIds \cup {NoMessage}]
      /\ copied[p] + 1 \in 1 .. Words
  BY <1>2 DEF Contents
<1>6. \A w \in 1 .. Words : data'[node[p]][w] =
        IF w = copied[p] + 1 THEN Message(p) ELSE data[node[p]][w]
  BY <1>3, <1>5 DEF CopyIn
<1>7. OnTheWay' = OnTheWay /\ Off' = Off /\ Holding' = Holding
  BY <1>2 DEF OnTheWay, HeldByConsumer, Off, Holding
<1>8. Accounted'
  <2>1. \A i \in 1 .. Len(tx) : tx[i] \in Nodes /\ tx[i] # node[p]
    <3>1. tx \in Seq(Nodes)
      OBVIOUS
    <3>2. \A i \in 1 .. Len(tx) : tx[i] \in OnTheWay
      BY <3>1 DEF OnTheWay, Range
    <3> HIDE DEF TypeInv, TypeOK, Nodes
    <3>3. \A i \in 1 .. Len(tx) : tx[i] \in Nodes
      BY <3>1
    <3> QED
      BY <1>3, <3>2, <3>3
  <2>2. Holding => node[Consumer] \in Nodes /\ node[Consumer] # node[p]
    BY <1>1, <1>3 DEF OnTheWay, HeldByConsumer, Holding
  <2>3. \A i \in 1 .. Len(tx') : data'[tx'[i]] = accepted'[Off' + i]
    <3>1. \A i \in 1 .. Len(tx) : data[tx[i]] = accepted[Off + i]
      BY DEF FifoInv, Accounted
    <3> HIDE DEF TypeInv, TypeOK, Nodes
    <3> QED
      BY <1>2, <1>4, <1>7, <2>1, <3>1
  <2>4. Holding' => data'[node'[Consumer]] = accepted'[Off']
    BY <1>2, <1>4, <1>7, <2>2 DEF FifoInv, Accounted
  <2> QED
    BY <1>2, <1>7, <2>3, <2>4 DEF FifoInv, Accounted
<1>9. Apart'
  <2>1. \A q \in Producers : Filling(q)' => q = p
    BY <1>1, <1>2 DEF Filling
  <2>2. \A n \in OnTheWay : inUse[n]
    BY <1>1, <1>2 DEF FifoInv, Apart, Sent
  <2> QED
    BY <1>2, <1>3, <1>7, <2>1, <2>2 DEF FifoInv, Apart
<1>10. Copies'
  <2>1. Message(p)' = Message(p)
    BY <1>2 DEF Message
  <2>2. \A w \in 1 .. copied'[p] : data'[node'[p]][w] = Message(p)
    <3>1. \A w \in 1 .. copied[p] : data[node[p]][w] = Message(p)
      BY <1>2 DEF FifoInv, Copies
    <3>2. copied[p] \in Nat /\ Words \in Nat /\ node' = node
      BY <1>2
    <3>3. \A w \in 1 .. copied'[p] : w \in 1 .. Words /\ (w = copied[p] + 1 \/ w \in 1 .. copied[p])
      BY <1>2, <3>2
    <3> QED
      BY <1>6, <3>1, <3>2, <3>3
  <2>3. pc'[p] = "send" => data'[node'[p]] = Whole(Message(p)')
    <3>1. ASSUME pc'[p] = "send" PROVE \A w \in 1 .. Words : data'[node[p]][w] = Message(p)
      BY <1>2, <2>2, <3>1
    <3>2. data'[node[p]] \in Contents
      <4>1. TypeInv'
        BY NextTypeInv DEF Next, Push, GoOn
      <4> QED
        BY <1>3, <4>1
    <3> QED
      BY <1>2, <2>1, <3>1, <3>2, WholeByWords
  <2>4. \A q \in Producers \ {p} : pc'[q] = "idle"
    BY <1>1, <1>2
  <2>5. pc'[Consumer] # "copy"
    BY <1>1, <1>2
  <2>6. \A q \in Producers : pc'[q] = "copy" =>
          \A w \in 1 .. copied'[q] : data'[node'[q]][w] = Message(q)'
    BY <2>1, <2>2, <2>4
  <2>7. \A q \in Producers : pc'[q] = "send" => data'[node'[q]] = Whole(Message(q)')
    BY <2>3, <2>4
  <2> QED
    BY <2>5, <2>6, <2>7 DEF Copies
<1> QED
  BY <1>8, <1>9, <1>10

(* A pointer given to the consumer that waits for one: the queue is empty. *)
LEMMA HandOverStep ==
  ASSUME NoPreemption, TypeInv, FifoInv, NEW p \in Producers, HandOver(p)
  PROVE  Accounted' /\ Apart' /\ Copies'
<1> USE DEF TypeInv, TypeOK, Actors, Nodes, ProducerSteps, ConsumerSteps
<1>1. \A q \in Producers \ {p} : pc[q] = "idle"
  BY ProducerRunsAlone DEF HandOver
<1>2. /\ UNCHANGED <<data, inUse, tx, copied, count, popped, delivered>>
      /\ pc[Consumer] = "waiting" /\ pc'[Consumer] = "ready" /\ node'[Consumer] = node[p]
      /\ \A q \in Producers : node'[q] = node[q]
      /\ \A q \in Producers \ {p} : pc'[q] = pc[q]
      /\ pc[p] = "send" /\ pc'[p] = "mark" /\ sent'[p] = TRUE
      /\ accepted' = Append(accepted, Whole(Message(p)))
  BY DEF HandOver
<1>3. tx = <<>> /\ data[node[p]] = Whole(Message(p))
  BY <1>2 DEF FifoInv, Accounted, Copies
<1>4. Whole(Message(p)) \in Contents
  BY <1>2 DEF Message, MessageIds, Whole, Contents
<1>5. Off = Len(delivered) /\ Off' = Len(delivered) + 1 /\ Holding' /\ Len(accepted) = Off
  BY <1>2, <1>3 DEF Off, Holding, FifoInv, Accounted
<1>6. Accounted'
  <2>1. accepted'[Off'] = Whole(Message(p)) /\ Len(accepted') = Off'
    BY <1>2, <1>4, <1>5
  <2>2. \A i \in 1 .. Len(delivered) : accepted'[i] = accepted[i]
    BY <1>2, <1>4, <1>5
  <2>3. Len(tx') = 0 /\ \A i \in 1 .. Len(tx') : data'[tx'[i]] = accepted'[Off' + i]
    BY <1>2, <1>3
  <2>4. \A i \in 1 .. Len(delivered') : delivered'[i] = accepted'[i]
    BY <1>2, <2>2 DEF FifoInv, Accounted
  <2> QED
    BY <1>2, <1>3, <1>5, <2>1, <2>3, <2>4 DEF Accounted
<1>7. Apart'
  <2>1. OnTheWay' = {node[p]}
    BY <1>2, <1>3 DEF OnTheWay, HeldByConsumer, Range
  <2>2. \A q \in Producers : ~Filling(q)'
    BY <1>1, <1>2 DEF Filling
  <2>3. Sent(p)' /\ node'[p] = node[p]
    BY <1>2 DEF Sent
  <2> QED
    BY <1>2, <1>3, <2>1, <2>2, <2>3 DEF Apart
<1>8. Copies'
  BY <1>1, <1>2 DEF Copies
<1> QED
  BY <1>6, <1>7, <1>8

LEMMA EnqueueStep ==
  ASSUME NoPreemption, TypeInv, FifoInv, NEW p \in Producers, Enqueue(p)
  PROVE  Accounted' /\ Apart' /\ Copies'
<1> USE DEF TypeInv, TypeOK, Actors, Nodes, ProducerSteps, ConsumerSteps
<1>1. /\ \A q \in Producers \ {p} : pc[q] = "idle"
      /\ pc[Consumer] \in {"work", "ready"}
  BY ProducerRunsAlone DEF Enqueue
<1>2. /\ UNCHANGED <<data, inUse, node, copied, count, popped, delivered>>
      /\ tx' = Append(tx, node[p]) /\ pc'[Consumer] = pc[Consumer]
      /\ \A q \in Producers \ {p} : pc'[q] = pc[q]
      /\ pc[p] = "send" /\ pc'[p] = "mark" /\ sent'[p] = TRUE
      /\ accepted' = Append(accepted, Whole(Message(p)))
  BY DEF Enqueue
<1>3. /\ data[node[p]] = Whole(Message(p))
      /\ node[p] \in Nodes /\ node[p] \notin OnTheWay
  BY <1>2 DEF FifoInv, Copies, Apart, Filling
<1>4. Whole(Message(p)) \in Contents
  BY <1>2 DEF Message, MessageIds, Whole, Contents
<1>5. Off' = Off /\ Holding' = Holding /\ Off \in Nat
  BY <1>2 DEF Off, Holding
<1>6. /\ Len(tx') = Len(tx) + 1 /\ tx'[Len(tx) + 1] = node[p]
      /\ \A i \in 1 .. Len(tx) : tx'[i] = tx[i]
      /\ 1 .. Len(tx') = (1 .. Len(tx)) \cup {Len(tx) + 1}
  BY <1>2, <1>3
<1>7. /\ Len(accepted) = Off + Len(tx) /\ Len(accepted') = Len(accepted) + 1
      /\ accepted'[Len(accepted) + 1] = Whole(Message(p))
      /\ \A i \in 1 .. Len(accepted) : accepted'[i] = accepted[i]
  BY <1>2, <1>4 DEF FifoInv, Accounted
<1>8. Accounted'
  <2>1. \A i \in 1 .. Len(delivered) : delivered[i] = accepted'[i]
    BY <1>5, <1>7 DEF FifoInv, Accounted, Off
  <2>2. Holding' => data'[node'[Consumer]] = accepted'[Off']
    <3>1. Holding => Off \in 1 .. Len(accepted)
      BY <1>7 DEF Off
    <3> QED
      BY <1>2, <1>5, <1>7, <3>1 DEF FifoInv, Accounted
  <2>3. \A i \in 1 .. Len(tx') : data'[tx'[i]] = accepted'[Off' + i]
    <3>1. \A i \in 1 .. Len(tx) : Off + i \in 1 .. Len(accepted) /\ data[tx[i]] = accepted[Off + i]
      <4>1. Len(tx) \in Nat /\ Len(accepted) \in Nat
        OBVIOUS
      <4>2. \A i \in 1 .. Len(tx) : data[tx[i]] = accepted[Off + i]
        BY DEF FifoInv, Accounted
      <4>3. \A i \in 1 .. Len(tx) : Off + i \in 1 .. Len(accepted)
        BY <1>5, <1>7, <4>1
      <4> QED
        BY <4>2, <4>3
    <3>2. data'[tx'[Len(tx) + 1]] = accepted'[Off + (Len(tx) + 1)]
      BY <1>2, <1>3, <1>5, <1>6, <1>7
    <3>3. ASSUME NEW i \in 1 .. Len(tx) PROVE data'[tx'[i]] = accepted'[Off' + i]
      BY <1>2, <1>5, <1>6, <1>7, <3>1
    <3> QED
      BY <1>5, <1>6, <3>2, <3>3
  <2>4. Len(accepted') = Off' + Len(tx')
    BY <1>5, <1>6, <1>7
  <2>5. pc'[Consumer] # "waiting"
    BY <1>1, <1>2
  <2> QED
    BY <1>2, <2>1, <2>2, <2>3, <2>4, <2>5 DEF Accounted
<1>9. Apart'
  <2>1. \A i \in 1 .. Len(tx) : tx[i] # node[p]
    BY <1>3 DEF OnTheWay, Range
  <2>2. \A i, j \in 1 .. Len(tx') : tx'[i] = tx'[j] => i = j
    <3>1. \A i, j \in 1 .. Len(tx) : tx[i] = tx[j] => i = j
      BY DEF FifoInv, Apart
    <3>2. \A i \in 1 .. Len(tx) : tx'[i] = tx[i] /\ tx'[i] # tx'[Len(tx) + 1]
      BY <1>6, <2>1
    <3>3. Len(tx) \in Nat /\ Len(tx') = Len(tx) + 1
      BY <1>6
    <3> HIDE DEF TypeInv, TypeOK, Nodes
    <3> QED
      BY <3>1, <3>2, <3>3
  <2>3. pc'[Consumer] \in {"ready", "clear"} => \A i \in 1 .. Len(tx') : tx'[i] # node'[Consumer]
    <3>1. pc[Consumer] \in {"ready", "clear"} =>
            node[p] # node[Consumer] /\ \A i \in 1 .. Len(tx) : tx[i] # node[Consumer]
      BY <1>3 DEF FifoInv, Apart, OnTheWay, HeldByConsumer
    <3> QED
      BY <1>2, <1>6, <3>1
  <2>4. OnTheWay' = OnTheWay \cup {node[p]}
    <3>1. Range(tx') = Range(tx) \cup {node[p]}
      BY <1>2, <1>3, RangeAppend
    <3> QED
      BY <1>2, <3>1 DEF OnTheWay, HeldByConsumer
  <2>5. \A n \in OnTheWay : inUse[n]
    BY <1>1, <1>2 DEF FifoInv, Apart, Sent
  <2>6. Sent(p)' /\ node'[p] = node[p]
    BY <1>2 DEF Sent
  <2>7. \A q \in Producers : ~Filling(q)'
    BY <1>1, <1>2 DEF Filling
  <2> QED
    BY <1>2, <2>2, <2>3, <2>4, <2>5, <2>6, <2>7 DEF Apart
<1>10. Copies'
  BY <1>1, <1>2 DEF Copies
<1> QED
  BY <1>8, <1>9, <1>10

(* Nothing was queued, so nothing on its way changes. *)
LEMMA QueueFullStep ==
  ASSUME NoPreemption, TypeInv, FifoInv, NEW p \in Producers, QueueFull(p)
  PROVE  Accounted' /\ Apart' /\ Copies'
<1> USE DEF TypeInv, TypeOK, Actors, Nodes, ProducerSteps, ConsumerSteps
<1>1. /\ \A q \in Producers \ {p} : pc[q] = "idle"
      /\ pc[Consumer] \in {"work", "ready"}
  BY ProducerRunsAlone DEF QueueFull
<1>2. /\ UNCHANGED <<data, inUse, tx, node, copied, count, popped, accepted, delivered>>
      /\ pc'[Consumer] = pc[Consumer]
      /\ \A q \in Producers \ {p} : pc'[q] = pc[q]
      /\ pc[p] = "send" /\ pc'[p] = "mark" /\ sent'[p] = FALSE
  BY DEF QueueFull
<1>3. OnTheWay' = OnTheWay /\ Off' = Off /\ Holding' = Holding
  BY <1>2 DEF OnTheWay, HeldByConsumer, Off, Holding
<1>4. Accounted'
  BY <1>2, <1>3 DEF FifoInv, Accounted
<1>5. Apart'
  <2>1. \A n \in OnTheWay : inUse[n]
    BY <1>1, <1>2 DEF FifoInv, Apart, Sent
  <2>2. \A q \in Producers : Filling(q)' => q = p
    BY <1>1, <1>2 DEF Filling
  <2>3. node[p] \notin OnTheWay
    BY <1>2 DEF FifoInv, Apart, Filling
  <2> QED
    BY <1>2, <1>3, <2>1, <2>2, <2>3 DEF FifoInv, Apart
<1>6. Copies'
  BY <1>1, <1>2 DEF Copies
<1> QED
  BY <1>4, <1>5, <1>6

LEMMA MarkStep ==
  ASSUME NoPreemption, TypeInv, FifoInv, NEW p \in Producers, Mark(p)
  PROVE  Accounted' /\ Apart' /\ Copies'
<1> USE DEF TypeInv, TypeOK, Actors, Nodes, ProducerSteps, ConsumerSteps
<1>1. /\ \A q \in Producers \ {p} : pc[q] = "idle"
      /\ pc[Consumer] \in {"work", "waiting", "ready"}
  BY ProducerRunsAlone DEF Mark
<1>2. /\ UNCHANGED <<data, tx, node, copied, sent, count, popped, accepted, delivered>>
      /\ pc'[Consumer] = pc[Consumer]
      /\ \A q \in Producers \ {p} : pc'[q] = pc[q]
      /\ pc[p] = "mark" /\ pc'[p] = "idle"
      /\ inUse' = [inUse EXCEPT ![node[p]] = sent[p]]
  BY DEF Mark
<1>3. OnTheWay' = OnTheWay /\ Off' = Off /\ Holding' = Holding
  BY <1>2 DEF OnTheWay, HeldByConsumer, Off, Holding
<1>4. Accounted'
  BY <1>2, <1>3 DEF FifoInv, Accounted
<1>5. Apart'
  <2>1. \A n \in OnTheWay : n \in Nodes
    BY DEF OnTheWay, HeldByConsumer, Range
  <2>2. \A n \in OnTheWay : inUse'[n]
    <3>1. CASE sent[p]
      <4>1. \A n \in OnTheWay : inUse[n] \/ node[p] = n
        BY <1>1 DEF FifoInv, Apart, Sent
      <4> QED
        BY <1>2, <2>1, <3>1, <4>1, Zenon
    <3>2. CASE ~sent[p]
      <4>1. node[p] \notin OnTheWay /\ ~Sent(p)
        BY <1>2, <3>2 DEF FifoInv, Apart, Filling, Sent
      <4>2. \A q \in Producers : ~Sent(q)
        BY <1>1, <4>1 DEF Sent
      <4>3. \A n \in OnTheWay : inUse[n] \/ \E q \in Producers : Sent(q) /\ node[q] = n
        BY DEF FifoInv, Apart
      <4> QED
        BY <1>2, <2>1, <4>1, <4>2, <4>3, Zenon
    <3> QED
      BY <3>1, <3>2
  <2>3. \A q \in Producers : ~Filling(q)'
    BY <1>1, <1>2 DEF Filling
  <2> QED
    BY <1>2, <1>3, <2>2, <2>3 DEF FifoInv, Apart
<1>6. Copies'
  BY <1>1, <1>2 DEF Copies
<1> QED
  BY <1>4, <1>5, <1>6

-----------------------------------------------------------------------------
(* The steps of a pop *)

LEMMA ReceiveStep ==
  ASSUME NoPreemption, TypeInv, FifoInv, Receive
  PROVE  Accounted' /\ Apart' /\ Copies'
<1> USE DEF TypeInv, TypeOK, Actors, Nodes, ProducerSteps, ConsumerSteps
<1>1. \A q \in Producers : pc[q] = "idle"
  BY ConsumerRunsAlone DEF Receive
<1>2. /\ UNCHANGED <<data, inUse, copied, sent, count, popped, accepted, delivered>>
      /\ pc[Consumer] = "work" /\ pc'[Consumer] = "clear"
      /\ \A q \in Producers : pc'[q] = pc[q]
      /\ tx # <<>> /\ tx' = Tail(tx) /\ node'[Consumer] = Head(tx)
  BY DEF Receive
<1>3. /\ Len(tx') = Len(tx) - 1 /\ Len(tx) \in Nat \ {0} /\ Head(tx) = tx[1]
      /\ \A i \in 1 .. Len(tx') : tx'[i] = tx[i + 1] /\ i + 1 \in 1 .. Len(tx)
  BY <1>2
<1>4. Off = Len(delivered) /\ Off' = Len(delivered) + 1 /\ Off \in Nat
  BY <1>2 DEF Off, Holding
<1>5. /\ Len(accepted) = Off + Len(tx)
      /\ \A i \in 1 .. Len(tx) : data[tx[i]] = accepted[Off + i]
  BY DEF FifoInv, Accounted
<1>6. Accounted'
  <2>1. Len(accepted') = Off' + Len(tx')
    BY <1>2, <1>3, <1>4, <1>5
  <2>2. ASSUME NEW i \in 1 .. Len(tx') PROVE data'[tx'[i]] = accepted'[Off' + i]
    <3>1. data[tx[i + 1]] = accepted[Off + (i + 1)]
      BY <1>3, <1>5
    <3>2. Off + (i + 1) = Off' + i
      BY <1>4
    <3> QED
      BY <1>2, <1>3, <3>1, <3>2
  <2>3. data'[node'[Consumer]] = accepted'[Off']
    BY <1>2, <1>3, <1>4, <1>5
  <2> QED
    BY <1>2, <2>1, <2>2, <2>3 DEF FifoInv, Accounted
<1>7. Apart'
  <2>1. OnTheWay' = OnTheWay
    <3>1. Range(tx) = {Head(tx)} \cup Range(tx')
      BY <1>2, RangeHeadTail
    <3> QED
      BY <1>2, <3>1 DEF OnTheWay, HeldByConsumer
  <2>2. \A n \in OnTheWay : inUse[n]
    BY <1>1 DEF FifoInv, Apart, Sent
  <2>3. \A i, j \in 1 .. Len(tx) : tx[i] = tx[j] => i = j
    BY DEF FifoInv, Apart
  <2>4. ASSUME NEW i \in 1 .. Len(tx'), NEW j \in 1 .. Len(tx'), tx'[i] = tx'[j] PROVE i = j
    <3>1. tx[i + 1] = tx[j + 1] /\ i + 1 \in 1 .. Len(tx) /\ j + 1 \in 1 .. Len(tx)
      BY <1>3, <2>4
    <3>2. i + 1 = j + 1
      BY <2>3, <3>1
    <3> QED
      BY <3>2
  <2>5. ASSUME NEW i \in 1 .. Len(tx') PROVE tx'[i] # node'[Consumer]
    <3>1. tx'[i] = tx[i + 1] /\ i + 1 \in 1 .. Len(tx) /\ 1 \in 1 .. Len(tx) /\ i + 1 # 1
      BY <1>3
    <3> QED
      BY <1>2, <1>3, <2>3, <3>1
  <2>6. \A q \in Producers : ~Filling(q)'
    BY <1>1, <1>2 DEF Filling
  <2> QED
    BY <1>2, <2>1, <2>2, <2>4, <2>5, <2>6 DEF Apart
<1>8. Copies'
  BY <1>1, <1>2 DEF Copies
<1> QED
  BY <1>6, <1>7, <1>8

LEMMA ClearStep ==
  ASSUME NoPreemption, TypeInv, FifoInv, Clear
  PROVE  Accounted' /\ Apart' /\ Copies'
<1> USE DEF TypeInv, TypeOK, Actors, Nodes, ProducerSteps, ConsumerSteps
<1>1. \A q \in Producers : pc[q] = "idle"
  BY ConsumerRunsAlone DEF Clear
<1>2. /\ UNCHANGED <<data, tx, node, sent, count, popped, accepted, delivered>>
      /\ pc[Consumer] \in {"ready", "clear"} /\ pc'[Consumer] = "copy"
      /\ copied'[Consumer] = 0
      /\ \A q \in Producers : pc'[q] = pc[q]
      /\ inUse' = [inUse EXCEPT ![node[Consumer]] = FALSE]
  BY DEF Clear
<1>3. Off' = Off /\ Holding' /\ Holding
  BY <1>2 DEF Off, Holding
<1>4. Accounted'
  BY <1>2, <1>3 DEF FifoInv, Accounted
<1>5. Apart'
  <2>1. \A n \in OnTheWay : inUse[n] /\ n \in Nodes
    <3>1. \A n \in OnTheWay : n \in Nodes
      BY DEF OnTheWay, HeldByConsumer, Range
    <3>2. \A n \in OnTheWay : inUse[n]
      BY <1>1 DEF FifoInv, Apart, Sent
    <3> QED
      BY <3>1, <3>2
  <2>2. OnTheWay' \subseteq OnTheWay /\ node[Consumer] \notin OnTheWay'
    BY <1>2 DEF FifoInv, Apart, OnTheWay, HeldByConsumer, Range
  <2>3. \A n \in OnTheWay' : inUse'[n]
    BY <1>2, <2>1, <2>2
  <2>4. \A q \in Producers : ~Filling(q)'
    BY <1>1, <1>2 DEF Filling
  <2> QED
    BY <1>2, <2>3, <2>4 DEF FifoInv, Apart
<1>6. Copies'
  BY <1>1, <1>2 DEF Copies
<1> QED
  BY <1>4, <1>5, <1>6

(* Steps of the consumer alone: waiting for a pointer and copying out. *)
LEMMA QuietPopStep ==
  ASSUME NoPreemption, TypeInv, FifoInv, Wait \/ CopyOut
  PROVE  Accounted' /\ Apart' /\ Copies'
<1> USE DEF TypeInv, TypeOK, Actors, Nodes, ProducerSteps, ConsumerSteps
<1>1. \A q \in Producers : pc[q] = "idle"
  BY ConsumerRunsAlone DEF Wait, CopyOut
<1>2. /\ UNCHANGED <<data, inUse, tx, node, sent, count, accepted, delivered>>
      /\ \A q \in Producers : pc'[q] = pc[q]
  BY DEF Wait, CopyOut
<1>3. \/ pc[Consumer] = "work" /\ pc'[Consumer] = "waiting" /\ tx = <<>>
      \/ pc[Consumer] = "copy" /\ pc'[Consumer] = "copy"
  BY DEF Wait, CopyOut
<1>4. OnTheWay' = OnTheWay /\ Off' = Off /\ Holding' = Holding
  BY <1>2, <1>3 DEF OnTheWay, HeldByConsumer, Off, Holding
<1>5. Accounted'
  BY <1>2, <1>3, <1>4 DEF FifoInv, Accounted
<1>6. Apart'
  <2>1. \A q \in Producers : ~Filling(q)' /\ ~Sent(q)
    BY <1>1, <1>2 DEF Filling, Sent
  <2> QED
    BY <1>2, <1>3, <1>4, <2>1 DEF FifoInv, Apart
<1>7. Copies'
  <2>1. CASE Wait
    BY <1>1, <1>2, <2>1 DEF Wait, Copies
  <2>2. CASE CopyOut
    <3>1. /\ pc[Consumer] = "copy" /\ copied'[Consumer] = copied[Consumer] + 1
          /\ copied[Consumer] \in Nat
      BY <2>2 DEF CopyOut
    <3>2. \A w \in 1 .. copied[Consumer] : popped[w] = data[node[Consumer]][w]
      BY <3>1 DEF FifoInv, Copies
    <3>3. /\ popped \in [1 .. Words -> MessageIds \cup {NoMessage}]
          /\ copied[Consumer] + 1 \in 1 .. Words
      BY <2>2 DEF CopyOut, Contents
    <3>4. \A w \in 1 .. Words : popped'[w] =
            IF w = copied[Consumer] + 1 THEN data[node[Consumer]][w] ELSE popped[w]
      BY <2>2, <3>3 DEF CopyOut
    <3>5. \A w \in 1 .. copied'[Consumer] :
            w \in 1 .. Words /\ (w = copied[Consumer] + 1 \/ w \in 1 .. copied[Consumer])
      BY <3>1, <3>3
    <3>6. \A w \in 1 .. copied'[Consumer] : popped'[w] = data[node[Consumer]][w]
      BY <3>2, <3>4, <3>5
    <3> QED
      BY <1>1, <1>2, <3>6 DEF Copies
  <2> QED
    BY <2>1, <2>2
<1> QED
  BY <1>5, <1>6, <1>7

LEMMA DeliverStep ==
  ASSUME NoPreemption, TypeInv, FifoInv, Deliver
  PROVE  Accounted' /\ Apart' /\ Copies'
<1> USE DEF TypeInv, TypeOK, Actors, Nodes, ProducerSteps, ConsumerSteps
<1>1. \A q \in Producers : pc[q] = "idle"
  BY ConsumerRunsAlone DEF Deliver
<1>2. /\ UNCHANGED <<data, inUse, tx, node, copied, sent, count, popped, accepted>>
      /\ pc[Consumer] = "copy" /\ pc'[Consumer] = "work" /\ copied[Consumer] = Words
      /\ \A q \in Producers : pc'[q] = pc[q]
      /\ delivered' = Append(delivered, popped)
  BY DEF Deliver
<1>3. OnTheWay' = OnTheWay /\ Off = Len(delivered) + 1 /\ Off' = Off /\ Holding /\ ~Holding'
  BY <1>2 DEF OnTheWay, HeldByConsumer, Off, Holding
<1>4. popped = accepted[Off]
  <2>1. data[node[Consumer]] \in Contents /\ popped \in Contents
    OBVIOUS
  <2>2. \A w \in 1 .. Words : popped[w] = data[node[Consumer]][w]
    BY <1>2 DEF FifoInv, Copies
  <2>3. popped = data[node[Consumer]]
    BY <2>1, <2>2 DEF Contents
  <2> QED
    BY <1>3, <2>3 DEF FifoInv, Accounted
<1>5. Accounted'
  <2>1. ASSUME NEW i \in 1 .. Len(delivered') PROVE delivered'[i] = accepted[i]
    <3>1. CASE i = Len(delivered) + 1
      BY <1>2, <1>3, <1>4, <3>1
    <3>2. CASE i # Len(delivered) + 1
      <4>1. i \in 1 .. Len(delivered) /\ delivered'[i] = delivered[i]
        BY <1>2, <3>2
      <4> QED
        BY <4>1 DEF FifoInv, Accounted
    <3> QED
      BY <3>1, <3>2
  <2> QED
    BY <1>2, <1>3, <2>1 DEF FifoInv, Accounted
<1>6. Apart'
  <2>1. \A q \in Producers : ~Filling(q)' /\ ~Sent(q)
    BY <1>1, <1>2 DEF Filling, Sent
  <2> QED
    BY <1>2, <1>3, <2>1 DEF FifoInv, Apart
<1>7. Copies'
  BY <1>1, <1>2 DEF Copies
<1> QED
  BY <1>5, <1>6, <1>7

-----------------------------------------------------------------------------
LEMMA InitFifoInv == Init => FifoInv
<1> SUFFICES ASSUME Init PROVE FifoInv
    OBVIOUS
<1>1. /\ pc[Consumer] = "work" /\ tx = <<>> /\ accepted = <<>> /\ delivered = <<>>
      /\ \A p \in Producers : pc[p] = "idle"
  BY DEF Init, Actors
<1>2. OneBusy
  BY <1>1 DEF OneBusy, Busy, Actors
<1>3. Accounted
  BY <1>1 DEF Accounted, Off, Holding
<1>4. Apart
  BY <1>1 DEF Apart, OnTheWay, HeldByConsumer, Filling, Range
<1>5. Copies
  BY <1>1 DEF Copies
<1> QED
  BY <1>2, <1>3, <1>4, <1>5 DEF FifoInv

LEMMA NextFifoInv ==
  ASSUME NoPreemption, TypeInv, FifoInv, [Next]_vars
  PROVE  FifoInv'
<1>1. OneBusy'
  BY NextOneBusy DEF FifoInv
<1>2. ASSUME NEW p \in Producers, Push(p) PROVE Accounted' /\ Apart' /\ Copies'
  <2>1. CASE Call(p) \/ ScanFree(p) \/ ScanNext(p) \/ Refuse(p)
    BY <2>1, LookingStep
  <2>2. CASE CopyIn(p)
    BY <2>2, CopyInStep
  <2>3. CASE HandOver(p)
    BY <2>3, HandOverStep
  <2>4. CASE Enqueue(p)
    BY <2>4, EnqueueStep
  <2>5. CASE QueueFull(p)
    BY <2>5, QueueFullStep
  <2>6. CASE Mark(p)
    BY <2>6, MarkStep
  <2> QED
    BY <1>2, <2>1, <2>2, <2>3, <2>4, <2>5, <2>6 DEF Push, GoOn
<1>3. ASSUME Pop PROVE Accounted' /\ Apart' /\ Copies'
  <2>1. CASE Receive
    BY <2>1, ReceiveStep
  <2>2. CASE Clear
    BY <2>2, ClearStep
  <2>3. CASE Wait \/ CopyOut
    BY <2>3, QuietPopStep
  <2>4. CASE Deliver
    BY <2>4, DeliverStep
  <2> QED
    BY <1>3, <2>1, <2>2, <2>3, <2>4 DEF Pop
<1>4. ASSUME UNCHANGED vars PROVE Accounted' /\ Apart' /\ Copies'
  <2>1. Off' = Off /\ Holding' = Holding /\ OnTheWay' = OnTheWay
    BY <1>4 DEF vars, Off, Holding, OnTheWay, HeldByConsumer
  <2>2. Accounted'
    BY <1>4, <2>1 DEF vars, FifoInv, Accounted
  <2>3. Apart'
    <3>1. UNCHANGED <<tx, node, inUse, pc, sent>>
      BY <1>4 DEF vars
    <3>2. Apart
      BY DEF FifoInv
    <3> QED
      BY <2>1, <3>1, <3>2 DEF Apart, Filling, Sent
  <2>4. Copies'
    BY <1>4 DEF vars, FifoInv, Copies, Message
  <2> QED
    BY <2>2, <2>3, <2>4
<1> QED
  BY <1>1, <1>2, <1>3, <1>4 DEF Next, FifoInv

(* When no user of the queue can preempt another, what pop hands out is    *)
(* what push accepted, whole, once and in order.                           *)
THEOREM DeliveredInOrderIfNoPreemption ==
  ASSUME NoPreemption PROVE Safety => []DeliveredInOrder
<1>1. TypeInv /\ FifoInv => DeliveredInOrder
  <2> SUFFICES ASSUME TypeInv, FifoInv PROVE DeliveredInOrder
      OBVIOUS
  <2>1. Len(delivered) \in Nat /\ Len(tx) \in Nat
    BY DEF TypeInv, TypeOK
  <2>2. Len(accepted) = Off + Len(tx) /\ Off >= Len(delivered)
    BY <2>1 DEF FifoInv, Accounted, Off
  <2> QED
    BY <2>1, <2>2 DEF FifoInv, Accounted, Off, DeliveredInOrder
<1>2. TypeInv /\ FifoInv /\ [Next]_vars => FifoInv'
  BY NextFifoInv
<1> QED
  BY <1>1, <1>2, InitFifoInv, InitTypeInv, NextTypeInv, PTL DEF Safety

(* ... and the queue never holds one node twice, nor a node that the next  *)
(* push would take.                                                        *)
THEOREM QueuedOnceIfNoPreemption ==
  ASSUME NoPreemption PROVE Safety => []QueuedOnce
<1>1. TypeInv /\ FifoInv => QueuedOnce
  <2> SUFFICES ASSUME TypeInv, FifoInv PROVE QueuedOnce
      OBVIOUS
  <2>1. Quiet => \A p \in Producers : ~Sent(p)
    BY DEF Quiet, Busy, Sent, Actors
  <2>2. \A i \in 1 .. Len(tx) : tx[i] \in OnTheWay
    BY DEF OnTheWay, Range, TypeInv, TypeOK
  <2> QED
    BY <2>1, <2>2 DEF QueuedOnce, FifoInv, Apart
<1>2. TypeInv /\ FifoInv /\ [Next]_vars => FifoInv'
  BY NextFifoInv
<1> QED
  BY <1>1, <1>2, InitFifoInv, InitTypeInv, NextTypeInv, PTL DEF Safety

-----------------------------------------------------------------------------
(* The refinement: each step of push and pop is a Put, a Get, or no step of *)
(* the channel                                                              *)

(* Distinct nodes, none of them either of two others: there are at least   *)
(* two more nodes than there are in the sequence.                          *)
LEMMA RoomForTwo ==
  ASSUME NEW s \in Seq(Nodes), NEW m \in Nodes, NEW n \in Nodes, m # n,
         \A i, j \in 1 .. Len(s) : s[i] = s[j] => i = j,
         \A i \in 1 .. Len(s) : s[i] # m /\ s[i] # n
  PROVE  Len(s) + 2 <= Capacity
<1> DEFINE k == Len(s) + 2
           f == [i \in 1 .. k |-> IF i <= Len(s) THEN s[i]
                                  ELSE IF i = Len(s) + 1 THEN m ELSE n]
<1>1. Len(s) \in Nat /\ k \in Nat /\ Capacity \in Nat /\ k # 0 /\ Capacity # 0
  <2>1. Len(s) \in Nat /\ Capacity \in Nat /\ Capacity # 0
    OBVIOUS
  <2> QED
    BY <2>1
<1>2. \A i \in 1 .. k : i \notin 1 .. Len(s) => i = Len(s) + 1 \/ i = Len(s) + 2
  BY <1>1
<1>3. ASSUME NEW i \in 1 .. k
      PROVE  /\ i \in 1 .. Len(s) => f[i] = s[i]
             /\ i = Len(s) + 1 => f[i] = m
             /\ i = Len(s) + 2 => f[i] = n
  BY <1>1
<1> HIDE DEF f
<1>4. f \in [1 .. k -> Nodes]
  <2>1. \A i \in 1 .. Len(s) : s[i] \in Nodes
    OBVIOUS
  <2>2. f = [i \in 1 .. k |-> f[i]]
    BY DEF f
  <2> QED
    BY <1>2, <1>3, <2>1, <2>2
<1>5. \A i, j \in 1 .. k : f[i] = f[j] => i = j
  BY <1>1, <1>2, <1>3
<1>6. IsFiniteSet(1 .. k) /\ Cardinality(1 .. k) = k
  BY <1>1, FS_Interval
<1>7. IsFiniteSet(Nodes) /\ Cardinality(Nodes) = Capacity
  BY <1>1, FS_Interval DEF Nodes
<1>8. Cardinality(1 .. k) <= Cardinality(Nodes)
  <2>1. f \in Injection(1 .. k, Nodes)
    BY <1>4, <1>5 DEF Injection, IsInjective
  <2> HIDE DEF k
  <2> QED
    BY <2>1, <1>7, FS_Injection
<1> QED
  BY <1>1, <1>6, <1>7, <1>8

LEMMA SameWords ==
  ASSUME NEW a \in Contents, NEW b \in Contents, \A w \in 1 .. Words : a[w] = b[w]
  PROVE  a = b
<1>1. a = [w \in 1 .. Words |-> a[w]] /\ b = [w \in 1 .. Words |-> b[w]]
  BY DEF Contents
<1> QED
  BY <1>1

(* What a push has accepted is new, and the channel has room for it.       *)
LEMMA SendIsPut ==
  ASSUME NoPreemption, TypeInv, FifoInv, NEW p \in Producers, HandOver(p) \/ Enqueue(p)
  PROVE  Fifo!Put
<1> USE DEF TypeInv, TypeOK, Actors, ProducerSteps, ConsumerSteps
<1>1. /\ pc[p] = "send" /\ Runs(p)
      /\ accepted' = Append(accepted, Whole(Message(p))) /\ delivered' = delivered
  BY DEF HandOver, Enqueue
<1>2. Whole(Message(p)) \in {Whole(m) : m \in MessageIds}
  <2>1. count[p] \in 1 .. MaxPush
    BY <1>1
  <2> QED
    BY <2>1 DEF Message, MessageIds
<1>3. pc[Consumer] \in {"work", "waiting", "ready"}
  BY <1>1, ProducerRunsAlone
<1>4. Len(accepted) = Off + Len(tx) /\ Len(tx) \in Nat /\ Len(delivered) \in Nat
  BY DEF FifoInv, Accounted
<1>5. Len(accepted) - Len(delivered) < Capacity
  <2>1. CASE HandOver(p)
    <3>1. tx = <<>> /\ Off = Len(delivered)
      BY <1>4, <2>1 DEF HandOver, FifoInv, Accounted, Off, Holding
    <3>2. Len(tx) = 0 /\ Capacity \in Nat /\ Capacity # 0
      BY <3>1
    <3> HIDE DEF TypeInv
    <3> QED
      BY <1>4, <3>1, <3>2
  <2>2. CASE Enqueue(p) /\ pc[Consumer] # "ready"
    <3>1. Off = Len(delivered) /\ Len(tx) < Capacity
      BY <1>3, <1>4, <2>2 DEF Enqueue, Off, Holding
    <3> QED
      BY <1>4, <3>1
  <2>3. CASE Enqueue(p) /\ pc[Consumer] = "ready"
    <3>1. Off = Len(delivered) + 1
      BY <1>4, <2>3 DEF Off, Holding
    <3>2. node[p] \notin OnTheWay
      BY <1>1 DEF FifoInv, Apart, Filling
    <3>3. \A i \in 1 .. Len(tx) : tx[i] # node[Consumer]
      BY <2>3 DEF FifoInv, Apart
    <3>4. \A i \in 1 .. Len(tx) : tx[i] \in OnTheWay
      BY DEF OnTheWay, Range
    <3>5. node[Consumer] \in OnTheWay
      BY <2>3 DEF OnTheWay, HeldByConsumer
    <3>6. \A i, j \in 1 .. Len(tx) : tx[i] = tx[j] => i = j
      BY DEF FifoInv, Apart
    <3>7. node[p] \in Nodes /\ node[Consumer] \in Nodes /\ tx \in Seq(Nodes)
      OBVIOUS
    <3>8. /\ node[Consumer] # node[p]
          /\ \A i \in 1 .. Len(tx) : tx[i] # node[Consumer] /\ tx[i] # node[p]
      BY <3>2, <3>3, <3>4, <3>5
    <3> HIDE DEF TypeInv
    <3>9. Len(tx) + 2 <= Capacity
      BY <3>6, <3>7, <3>8, RoomForTwo
    <3>10. Capacity \in Nat
      OBVIOUS
    <3> QED
      BY <1>4, <3>1, <3>9, <3>10
  <2> QED
    BY <2>1, <2>2, <2>3
<1> QED
  BY <1>1, <1>2, <1>5 DEF Fifo!Put

(* What a pop hands out is the next of the accepted messages.              *)
LEMMA DeliverIsGet ==
  ASSUME NoPreemption, TypeInv, FifoInv, Deliver
  PROVE  Fifo!Get
<1> USE DEF TypeInv, TypeOK, Actors, ProducerSteps, ConsumerSteps
<1>1. /\ pc[Consumer] = "copy" /\ copied[Consumer] = Words
      /\ delivered' = Append(delivered, popped) /\ accepted' = accepted
  BY DEF Deliver
<1>2. Off = Len(delivered) + 1 /\ Len(accepted) = Off + Len(tx)
  BY <1>1 DEF FifoInv, Accounted, Off, Holding
<1>3. popped = accepted[Len(delivered) + 1]
  <2>1. data[node[Consumer]] \in Contents /\ popped \in Contents
    OBVIOUS
  <2>2. \A w \in 1 .. Words : popped[w] = data[node[Consumer]][w]
    BY <1>1 DEF FifoInv, Copies
  <2>3. popped = data[node[Consumer]]
    BY <2>1, <2>2, SameWords
  <2> QED
    BY <1>1, <1>2, <2>3 DEF FifoInv, Accounted, Holding
<1>4. Len(delivered) < Len(accepted)
  <2>1. Len(delivered) \in Nat /\ Len(tx) \in Nat
    OBVIOUS
  <2> QED
    BY <1>2, <2>1
<1> QED
  BY <1>1, <1>3, <1>4 DEF Fifo!Get

LEMMA StepOfTheChannel ==
  ASSUME NoPreemption, TypeInv, FifoInv, [Next]_vars
  PROVE  [Fifo!Next]_(Fifo!vars)
<1>1. ASSUME NEW p \in Producers, Push(p) PROVE [Fifo!Next]_(Fifo!vars)
  <2>1. CASE HandOver(p) \/ Enqueue(p)
    BY <2>1, SendIsPut DEF Fifo!Next
  <2>2. CASE Call(p) \/ ScanFree(p) \/ ScanNext(p) \/ Refuse(p) \/ CopyIn(p)
             \/ QueueFull(p) \/ Mark(p)
    BY <2>2 DEF Call, ScanFree, ScanNext, Refuse, CopyIn, QueueFull, Mark, Fifo!vars
  <2> QED
    BY <1>1, <2>1, <2>2 DEF Push, GoOn
<1>2. CASE Pop
  <2>1. CASE Deliver
    BY <2>1, DeliverIsGet DEF Fifo!Next
  <2>2. CASE Receive \/ Wait \/ Clear \/ CopyOut
    BY <2>2 DEF Receive, Wait, Clear, CopyOut, Fifo!vars
  <2> QED
    BY <1>2, <2>1, <2>2 DEF Pop
<1>3. CASE UNCHANGED vars
  BY <1>3 DEF vars, Fifo!vars
<1> QED
  BY <1>1, <1>2, <1>3 DEF Next

(* When no user of the queue can preempt another, the queue is a channel:  *)
(* what it accepts and hands out, and when, is what Channel allows.        *)
THEOREM ImplementsChannelIfNoPreemption ==
  ASSUME NoPreemption PROVE Safety => Fifo!Safety
<1>1. Init => Fifo!Init
  BY DEF Init, Fifo!Init
<1>2. TypeInv /\ FifoInv /\ [Next]_vars => [Fifo!Next]_(Fifo!vars)
  BY StepOfTheChannel
<1>3. TypeInv /\ FifoInv /\ [Next]_vars => FifoInv'
  BY NextFifoInv
<1> QED
  BY <1>1, <1>2, <1>3, InitFifoInv, InitTypeInv, NextTypeInv, PTL DEF Safety, Fifo!Safety
=============================================================================
