--------------------------- MODULE Socket_proofs ---------------------------
(***************************************************************************)
(* Proofs about Socket for every number of connections, of packets and of  *)
(* waiting requests.                                                       *)
(***************************************************************************)
EXTENDS Socket, TLAPS

USE SocketAssumption

(* A flag is pending until the thread has come past its handler.           *)
ConnectedIn == pc = "connected" /\ "Connected" \in e
DisconnectedIn ==
  /\ pc \in {"connected", "accepting", "accepted", "notify", "unaccept", "unlisten", "disconnected"}
  /\ "Disconnected" \in e
ConnectedPending    == "Connected" \in events \/ ConnectedIn
DisconnectedPending == "Disconnected" \in events \/ DisconnectedIn

Closing == {"unaccept", "closing", "unbind", "relisten"}
AtEase  == {"get", "waiting", "connected", "disconnected", "data"}
Bound   == {"synReceived", "established", "closeWait", "lastAck"}

(* Of each flag at most one is on its way.  A Connected speaks of a        *)
(* connection that waits to be accepted, a Disconnected of one that is     *)
(* over, and none of them outlives it.                                     *)
OneOfEach ==
  /\ ~("Connected" \in events /\ ConnectedIn)
  /\ ~("Disconnected" \in events /\ DisconnectedIn)

ConnectedMeans ==
  ConnectedPending =>
    /\ tcp = "listen" /\ peer # None /\ sent[peer] = 0
    /\ ~DisconnectedPending /\ pc \in AtEase

DisconnectedMeans ==
  DisconnectedPending \/ pc \in Closing =>
    /\ tcp \notin {"synReceived", "established"}
    /\ peer # None => asked[peer] = "done"

ClosingMeans ==
  pc \in {"closing", "unbind", "relisten"} =>
    "Connected" \notin events /\ "Disconnected" \notin events

ListeningMeans ==
  listening => /\ tcp = "listen" /\ peer = None
               /\ ~ConnectedPending /\ ~DisconnectedPending /\ pc \in AtEase

(* The state of the socket follows the thread through accept and           *)
(* disconnect.                                                             *)
StateMeans ==
  /\ pc = "accepting" <=> tcp = "synReceived"
  /\ tcp = "synReceived" => sent[peer] = 0
  /\ tcp = "lastAck" => pc = "closing"
  /\ tcp \in Bound => peer # None
  /\ tcp = "closed" => peer = None
  /\ pc = "accepted" /\ tcp # "established" => asked[peer] = "done"
  /\ pc = "waiting" => events = {}

FlagInv ==
  OneOfEach /\ ConnectedMeans /\ DisconnectedMeans /\ ClosingMeans /\ ListeningMeans /\ StateMeans

(* A peer is served once; the socket is bound to the one it serves.        *)
ServedInv ==
  /\ peer # None => served # <<>> /\ Last(served) = peer
  /\ \A c \in ToSet(served) : asked[c] = "done" \/ (c = peer /\ asked[c] = "asking")
  /\ \A c \in ToSet(pending) : asked[c] = "asking" /\ c \notin ToSet(served)
  /\ \A i, j \in 1 .. Len(pending) : pending[i] = pending[j] => i = j
  /\ \A c \in Conns : c \notin ToSet(served) => sent[c] = 0

(* The receive queue is what the peer has sent and rxCallback has not had. *)
Delivered(c) ==
  IF received # <<>> /\ Last(received)[1] = c THEN Last(received)[2] ELSE 0

QueueInv ==
  /\ peer = None => rxQueue = <<>>
  /\ peer # None =>
       /\ Delivered(peer) + Len(rxQueue) = sent[peer]
       /\ \A i \in 1 .. Len(rxQueue) : rxQueue[i] = <<peer, Delivered(peer) + i>>
  /\ received # <<>> => Last(received)[1] \in ToSet(served)

(* Data that was notified keeps DataReceived pending until it is received. *)
WakeInv ==
  tcp = "established" /\ ~early /\ rxQueue # <<>> =>
    \/ "DataReceived" \in events
    \/ "DataReceived" \in e /\ pc \notin {"get", "waiting"}

SocketInv == TypeOK /\ FlagInv /\ ServedInv /\ QueueInv /\ WakeInv

-----------------------------------------------------------------------------
(* What the operations on sequences do to their elements *)

LEMMA AppendFacts ==
  ASSUME NEW S, NEW s \in Seq(S), NEW x \in S
  PROVE  /\ Append(s, x) \in Seq(S) /\ Append(s, x) # <<>>
         /\ Len(Append(s, x)) = Len(s) + 1 /\ Last(Append(s, x)) = x
         /\ \A i \in 1 .. Len(s) : Append(s, x)[i] = s[i]
         /\ ToSet(Append(s, x)) = ToSet(s) \cup {x}
<1>1. /\ Append(s, x) \in Seq(S) /\ Append(s, x) # <<>>
      /\ Len(Append(s, x)) = Len(s) + 1 /\ Append(s, x)[Len(s) + 1] = x
      /\ DOMAIN s = 1 .. Len(s) /\ DOMAIN Append(s, x) = 1 .. Len(s) + 1
      /\ \A i \in 1 .. Len(s) : Append(s, x)[i] = s[i]
  OBVIOUS
<1>2. 1 .. Len(s) + 1 = (1 .. Len(s)) \cup {Len(s) + 1}
  OBVIOUS
<1>3. ToSet(Append(s, x)) = ToSet(s) \cup {x}
  BY <1>1, <1>2 DEF ToSet
<1> QED
  BY <1>1, <1>3 DEF Last

LEMMA TailFacts ==
  ASSUME NEW S, NEW s \in Seq(S), s # <<>>
  PROVE  /\ Tail(s) \in Seq(S) /\ Len(Tail(s)) = Len(s) - 1 /\ Len(s) \in Nat \ {0}
         /\ Head(s) = s[1] /\ s[1] \in S /\ Head(s) \in ToSet(s)
         /\ \A i \in 1 .. Len(s) - 1 : Tail(s)[i] = s[i + 1]
         /\ \A x \in ToSet(Tail(s)) : \E i \in 2 .. Len(s) : x = s[i]
<1>1. /\ Tail(s) \in Seq(S) /\ Len(Tail(s)) = Len(s) - 1 /\ Len(s) \in Nat \ {0}
      /\ Head(s) = s[1] /\ s[1] \in S /\ DOMAIN s = 1 .. Len(s)
      /\ DOMAIN Tail(s) = 1 .. Len(s) - 1
      /\ \A i \in 1 .. Len(s) - 1 : Tail(s)[i] = s[i + 1]
  OBVIOUS
<1>2. Head(s) \in ToSet(s)
  BY <1>1 DEF ToSet
<1>3. ASSUME NEW x \in ToSet(Tail(s)) PROVE \E i \in 2 .. Len(s) : x = s[i]
  <2>1. PICK i \in 1 .. Len(s) - 1 : x = Tail(s)[i]
    BY <1>1 DEF ToSet
  <2>2. i + 1 \in 2 .. Len(s) /\ x = s[i + 1]
    BY <1>1, <2>1
  <2> QED
    BY <2>2
<1> QED
  BY <1>1, <1>2, <1>3

LEMMA ConcatFacts ==
  ASSUME NEW S, NEW s \in Seq(S), NEW t \in Seq(S)
  PROVE  /\ s \o t \in Seq(S) /\ Len(s \o t) = Len(s) + Len(t)
         /\ DOMAIN (s \o t) = 1 .. Len(s) + Len(t)
         /\ \A i \in 1 .. Len(s) + Len(t) :
              (s \o t)[i] = IF i <= Len(s) THEN s[i] ELSE t[i - Len(s)]
<1>1. s \o t \in Seq(S) /\ Len(s \o t) = Len(s) + Len(t)
  OBVIOUS
<1>2. DOMAIN (s \o t) = 1 .. Len(s) + Len(t)
  BY <1>1
<1>3. ASSUME NEW i \in 1 .. Len(s) + Len(t)
      PROVE  (s \o t)[i] = IF i <= Len(s) THEN s[i] ELSE t[i - Len(s)]
  OBVIOUS
<1> QED
  BY <1>1, <1>2, <1>3

LEMMA RemoveAtFacts ==
  ASSUME NEW S, NEW s \in Seq(S), NEW k \in DOMAIN s,
         \A i, j \in 1 .. Len(s) : s[i] = s[j] => i = j
  PROVE  /\ RemoveAt(s, k) \in Seq(S) /\ Len(RemoveAt(s, k)) = Len(s) - 1
         /\ \A i, j \in 1 .. Len(RemoveAt(s, k)) : RemoveAt(s, k)[i] = RemoveAt(s, k)[j] => i = j
         /\ ToSet(RemoveAt(s, k)) \subseteq ToSet(s) \ {s[k]}
<1> DEFINE r == RemoveAt(s, k)
<1>1. k \in 1 .. Len(s) /\ Len(s) \in Nat /\ DOMAIN s = 1 .. Len(s)
  OBVIOUS
<1>2. /\ SubSeq(s, 1, k - 1) \in Seq(S) /\ Len(SubSeq(s, 1, k - 1)) = k - 1
      /\ \A i \in 1 .. k - 1 : SubSeq(s, 1, k - 1)[i] = s[i]
  BY <1>1
<1>3. /\ SubSeq(s, k + 1, Len(s)) \in Seq(S) /\ Len(SubSeq(s, k + 1, Len(s))) = Len(s) - k
      /\ \A i \in 1 .. Len(s) - k : SubSeq(s, k + 1, Len(s))[i] = s[k + i]
  BY <1>1
<1>4. /\ r \in Seq(S) /\ Len(r) = Len(s) - 1 /\ DOMAIN r = 1 .. Len(s) - 1
      /\ \A i \in 1 .. Len(s) - 1 : r[i] = IF i < k THEN s[i] ELSE s[i + 1]
  <2> DEFINE a == SubSeq(s, 1, k - 1)
             b == SubSeq(s, k + 1, Len(s))
  <2>1. r = a \o b
    BY DEF RemoveAt
  <2>2. /\ a \in Seq(S) /\ Len(a) = k - 1 /\ \A i \in 1 .. k - 1 : a[i] = s[i]
        /\ b \in Seq(S) /\ Len(b) = Len(s) - k /\ \A i \in 1 .. Len(s) - k : b[i] = s[k + i]
    BY <1>2, <1>3
  <2> HIDE DEF a, b, r
  <2>3. /\ a \o b \in Seq(S) /\ Len(a \o b) = Len(a) + Len(b)
        /\ DOMAIN (a \o b) = 1 .. Len(a) + Len(b)
        /\ \A i \in 1 .. Len(a) + Len(b) : (a \o b)[i] = IF i <= Len(a) THEN a[i] ELSE b[i - Len(a)]
    <3>1. a \in Seq(S) /\ b \in Seq(S)
      BY <2>2
    <3> QED
      BY SMTT(20), <3>1, ConcatFacts
  <2>4. Len(a) + Len(b) = Len(s) - 1
    BY <1>1, <2>2
  <2>5. ASSUME NEW i \in 1 .. Len(s) - 1 PROVE r[i] = IF i < k THEN s[i] ELSE s[i + 1]
    <3>1. CASE i < k
      BY <1>1, <2>1, <2>2, <2>3, <2>4, <3>1
    <3>2. CASE ~(i < k)
      <4>1. i - (k - 1) \in 1 .. Len(s) - k /\ k + (i - (k - 1)) = i + 1 /\ ~(i <= k - 1)
        BY <1>1, <3>2
      <4>2. r[i] = b[i - (k - 1)]
        BY <2>1, <2>2, <2>3, <2>4, <4>1
      <4> QED
        BY <2>2, <3>2, <4>1, <4>2
    <3> QED
      BY <3>1, <3>2
  <2> QED
    BY <2>1, <2>3, <2>4, <2>5
<1> HIDE DEF r
<1>5. \A i, j \in 1 .. Len(r) : r[i] = r[j] => i = j
  BY <1>1, <1>4
<1>6. ASSUME NEW x \in ToSet(r) PROVE x \in ToSet(s) \ {s[k]}
  <2>1. PICK i \in 1 .. Len(s) - 1 : x = r[i]
    BY <1>4 DEF ToSet
  <2>2. PICK j \in 1 .. Len(s) : j # k /\ x = s[j]
    BY <1>1, <1>4, <2>1
  <2> QED
    BY <1>1, <2>2 DEF ToSet
<1>7. ToSet(r) \subseteq ToSet(s) \ {s[k]}
  BY <1>6
<1> QED
  BY <1>4, <1>5, <1>7 DEF r

-----------------------------------------------------------------------------
(* The flags and the state of the socket *)

LEMMA FlagStep ==
  ASSUME SocketInv, [Next]_vars
  PROVE  FlagInv'
<1> USE DEF OneOfEach, ConnectedMeans, DisconnectedMeans, ClosingMeans, ListeningMeans, StateMeans,
            ConnectedPending, DisconnectedPending, ConnectedIn, DisconnectedIn,
            Closing, AtEase, Bound, ipVars, histVars
<1>t. /\ peer \in Conns \cup {None} /\ None \notin Conns
      /\ asked \in [Conns -> {"idle", "asking", "done"}]
      /\ sent \in [Conns -> 0 .. MaxData]
  BY DEF SocketInv, TypeOK, Conns, None
<1>f. FlagInv /\ pc \in Steps
  BY DEF SocketInv, TypeOK
<1>1. ASSUME NEW c \in Conns, Synchronise(c) PROVE FlagInv'
  <2>1. sent[c] = 0
    BY <1>1, <1>t DEF Synchronise, Asks, SocketInv, ServedInv, FlagInv
  <2> QED
    BY <1>1, <2>1, <1>t, <1>f DEF Synchronise, Post, FlagInv
<1>2. ASSUME NEW c \in Conns, Queue(c) PROVE FlagInv'
  BY <1>2, <1>t, <1>f DEF Queue, NoPost, FlagInv, SocketInv, ServedInv, Asks
<1>3. ASSUME NEW c \in Conns, Refused(c) PROVE FlagInv'
  BY <1>3, <1>t, <1>f DEF Refused, NoPost, FlagInv
<1>4. ASSUME NEW c \in Conns, GiveUp(c) PROVE FlagInv'
  BY <1>4, <1>t, <1>f DEF GiveUp, NoPost, FlagInv
<1>5. CASE Acknowledge
  BY <1>5, <1>t, <1>f DEF Acknowledge, FlagInv
<1>6. CASE HandshakeFails
  BY <1>6, <1>t, <1>f DEF HandshakeFails, FlagInv
<1>7. CASE Data
  BY <1>7, <1>t, <1>f DEF Data, Post, NoPost, FlagInv
<1>8. CASE Finish
  BY <1>8, <1>t, <1>f DEF Finish, Ends, Post, FlagInv
<1>9. CASE Reset
  BY <1>9, <1>t, <1>f DEF Reset, Ends, Post, FlagInv
<1>10. CASE ResetLate
  BY <1>10, <1>t, <1>f DEF ResetLate, FlagInv
<1>11. CASE LastAck
  BY <1>11, <1>t, <1>f DEF LastAck, FlagInv
<1>12. CASE Get
  BY <1>12, <1>t, <1>f DEF Get, FlagInv
<1>13. CASE Wait
  BY <1>13, <1>t, <1>f DEF Wait, FlagInv
<1>14. CASE PassOver
  BY <1>14, <1>t, <1>f DEF PassOver, FlagInv
<1>15. CASE Accept
  BY <1>15, <1>t, <1>f DEF Accept, FlagInv
<1>16. CASE PeerInfo
  BY <1>16, <1>t, <1>f DEF PeerInfo, Steps, FlagInv
<1>17. CASE ReceiveNotify
  BY <1>17, <1>t, <1>f DEF ReceiveNotify, FlagInv
<1>18. CASE NoPeer
  BY <1>18, <1>t, <1>f DEF NoPeer, Unaccept, FlagInv
<1>19. CASE Unlisten
  BY <1>19, <1>t, <1>f DEF Unlisten, FlagInv
<1>20. CASE Disconnect
  BY <1>20, <1>t, <1>f DEF Disconnect, FlagInv
<1>21. CASE Unbind
  BY <1>21, <1>t, <1>f DEF Unbind, Unaccept, FlagInv
<1>22. CASE Relisten
  BY <1>22, <1>t, <1>f DEF Relisten, FlagInv
<1>23. CASE RelistenFails
  BY <1>23, <1>t, <1>f DEF RelistenFails, FlagInv
<1>24. CASE Receive
  BY <1>24, <1>t, <1>f DEF Receive, FlagInv
<1>25. CASE NoMoreData
  BY <1>25, <1>t, <1>f DEF NoMoreData, FlagInv
<1>26. CASE RelistenPending
  <2>1. Head(pending) \in Conns /\ sent[Head(pending)] = 0
    <3>1. pending \in Seq(Conns) /\ pending # <<>>
      BY <1>26 DEF RelistenPending, SocketInv, TypeOK
    <3>2. Head(pending) \in Conns /\ Head(pending) \in ToSet(pending)
      BY <3>1 DEF ToSet
    <3> QED
      BY <3>2 DEF SocketInv, ServedInv
  <2> QED
    BY <1>26, <2>1, <1>t, <1>f DEF RelistenPending, FlagInv
<1>27. CASE UNCHANGED vars
  BY <1>27, <1>f DEF vars, FlagInv
<1> QED
  BY <1>1, <1>2, <1>3, <1>4, <1>5, <1>6, <1>7, <1>8, <1>9, <1>10, <1>11,
     <1>12, <1>13, <1>14, <1>15, <1>16, <1>17, <1>18, <1>19, <1>20, <1>21,
     <1>22, <1>23, <1>24, <1>25, <1>26, <1>27
  DEF Next, Ip, Main, Handshake

-----------------------------------------------------------------------------
(* Who is served *)

LEMMA ServedStep ==
  ASSUME SocketInv, [Next]_vars
  PROVE  ServedInv'
<1>t. /\ peer \in Conns \cup {None} /\ None \notin Conns /\ served \in Seq(Conns)
      /\ asked \in [Conns -> {"idle", "asking", "done"}]
      /\ sent \in [Conns -> 0 .. MaxData] /\ pending \in Seq(Conns)
  BY DEF SocketInv, TypeOK, Conns, None
<1>i. ServedInv /\ FlagInv
  BY DEF SocketInv
<1>in. ToSet(served) \subseteq Conns /\ ToSet(pending) \subseteq Conns
  BY <1>t DEF ToSet
<1>fresh. ASSUME NEW c \in Conns, Asks(c)
          PROVE  c \notin ToSet(served) /\ c \notin ToSet(pending) /\ c # peer
  BY <1>fresh, <1>t, <1>i DEF Asks, ServedInv, ToSet, Last
<1>1. ASSUME NEW c \in Conns, Synchronise(c) PROVE ServedInv'
  <2>1. served' = Append(served, c) /\ ToSet(served') = ToSet(served) \cup {c}
        /\ served' # <<>> /\ Last(served') = c
    BY <1>1, <1>t, AppendFacts DEF Synchronise
  <2>2. c \notin ToSet(served) /\ c \notin ToSet(pending) /\ peer = None
    BY <1>1, <1>fresh, <1>i DEF Synchronise, FlagInv, ListeningMeans
  <2> QED
    BY <1>1, <1>t, <1>i, <1>in, <2>1, <2>2 DEF Synchronise, ServedInv
<1>2. ASSUME NEW c \in Conns, Queue(c) PROVE ServedInv'
  <2>1. c \notin ToSet(served) /\ c \notin ToSet(pending) /\ c # peer
    BY <1>2, <1>fresh DEF Queue
  <2>2. ASSUME NEW s \in Seq(Conns), c \notin ToSet(s), pending' = Append(s, c),
               ToSet(s) \subseteq ToSet(pending),
               \A i, j \in 1 .. Len(s) : s[i] = s[j] => i = j
        PROVE  ServedInv'
    <3>1. /\ ToSet(pending') = ToSet(s) \cup {c} /\ Len(pending') = Len(s) + 1
          /\ pending'[Len(s) + 1] = c /\ \A i \in 1 .. Len(s) : pending'[i] = s[i]
      BY <2>2, AppendFacts DEF Last
    <3>2. \A i, j \in 1 .. Len(pending') : pending'[i] = pending'[j] => i = j
      <4>1. \A i \in 1 .. Len(s) : s[i] # c
        BY <2>2 DEF ToSet
      <4>2. Len(s) \in Nat
        BY <2>2
      <4> QED
        BY <2>2, <3>1, <4>1, <4>2
    <3>3. asked' = [asked EXCEPT ![c] = "asking"] /\ UNCHANGED <<peer, served, sent>>
      BY <1>2 DEF Queue, histVars
    <3>4. \A x \in ToSet(pending') : asked'[x] = "asking" /\ x \notin ToSet(served')
      BY <1>t, <1>i, <1>in, <2>1, <2>2, <3>1, <3>3 DEF ServedInv
    <3>5. \A x \in ToSet(served') : asked'[x] = "done" \/ (x = peer' /\ asked'[x] = "asking")
      BY <1>t, <1>i, <1>in, <2>1, <3>3 DEF ServedInv
    <3> QED
      BY <1>i, <3>2, <3>3, <3>4, <3>5 DEF ServedInv
  <2>3. CASE pending' = Append(pending, c)
    BY <1>t, <1>i, <2>1, <2>2, <2>3 DEF ServedInv
  <2>4. CASE pending' = Append(Tail(pending), c) /\ ~(Len(pending) < MaxPending)
    <3>1. pending # <<>>
      BY <2>4, <1>t
    <3>2. /\ Tail(pending) \in Seq(Conns) /\ Len(Tail(pending)) = Len(pending) - 1
          /\ \A i \in 1 .. Len(pending) - 1 : Tail(pending)[i] = pending[i + 1]
          /\ \A x \in ToSet(Tail(pending)) : x \in ToSet(pending)
          /\ Len(pending) \in Nat \ {0}
      BY <3>1, <1>t, TailFacts DEF ToSet
    <3>3. \A i, j \in 1 .. Len(Tail(pending)) : Tail(pending)[i] = Tail(pending)[j] => i = j
      BY <3>2, <1>i DEF ServedInv
    <3> QED
      BY <2>1, <2>2, <2>4, <3>2, <3>3
  <2> QED
    BY <1>2, <2>3, <2>4 DEF Queue
<1>3. ASSUME NEW c \in Conns, Refused(c) PROVE ServedInv'
  BY <1>3, <1>fresh, <1>t, <1>i, <1>in DEF Refused, histVars, ServedInv
<1>4. ASSUME NEW c \in Conns, GiveUp(c) PROVE ServedInv'
  <2>1. PICK k \in DOMAIN pending : pending[k] = c /\ pending' = RemoveAt(pending, k)
    BY <1>4 DEF GiveUp
  <2>2. /\ ToSet(pending') \subseteq ToSet(pending) \ {c}
        /\ \A i, j \in 1 .. Len(pending') : pending'[i] = pending'[j] => i = j
    <3>1. pending \in Seq(Conns) /\ \A i, j \in 1 .. Len(pending) : pending[i] = pending[j] => i = j
      BY <1>t, <1>i DEF ServedInv
    <3> QED
      BY <2>1, <3>1, RemoveAtFacts
  <2>3. c \in ToSet(pending)
    BY <2>1 DEF ToSet
  <2> QED
    BY <1>4, <2>2, <2>3, <1>t, <1>i, <1>in DEF GiveUp, histVars, ServedInv
<1>5. CASE RelistenPending
  <2> DEFINE h == Head(pending)
  <2>1. /\ h \in ToSet(pending) /\ Tail(pending) \in Seq(Conns) /\ h = pending[1]
        /\ Len(Tail(pending)) = Len(pending) - 1 /\ Len(pending) \in Nat \ {0}
        /\ \A i \in 1 .. Len(pending) - 1 : Tail(pending)[i] = pending[i + 1]
        /\ \A x \in ToSet(Tail(pending)) : \E i \in 2 .. Len(pending) : x = pending[i]
    BY <1>5, <1>t, TailFacts DEF RelistenPending
  <2>2. /\ pending' = Tail(pending) /\ peer' = h /\ served' = Append(served, h)
        /\ UNCHANGED <<asked, sent>> /\ peer = None
    BY <1>5, <1>i DEF RelistenPending, FlagInv, StateMeans
  <2>3. /\ ToSet(served') = ToSet(served) \cup {h} /\ served' # <<>> /\ Last(served') = h
    BY <2>1, <2>2, <1>t, <1>in, AppendFacts
  <2>4. \A x \in ToSet(pending') : x \in ToSet(pending) /\ x # h
    BY <2>1, <2>2, <1>i DEF ServedInv, ToSet
  <2>5. \A i, j \in 1 .. Len(pending') : pending'[i] = pending'[j] => i = j
    BY <2>1, <2>2, <1>i DEF ServedInv
  <2>6. peer' # None => served' # <<>> /\ Last(served') = peer'
    BY <2>2, <2>3
  <2>7. asked[h] = "asking" /\ h \notin ToSet(served)
    BY <2>1, <1>i DEF ServedInv
  <2> HIDE DEF h
  <2>8. \A c \in ToSet(served') : asked'[c] = "done" \/ (c = peer' /\ asked'[c] = "asking")
    <3>1. \A c \in ToSet(served) : asked[c] = "done"
      BY <2>2, <1>i, <1>t, <1>in DEF ServedInv
    <3> QED
      BY <2>2, <2>3, <2>7, <3>1
  <2>9. \A c \in ToSet(pending') : asked'[c] = "asking" /\ c \notin ToSet(served')
    BY <2>2, <2>3, <2>4, <1>i DEF ServedInv
  <2>10. \A c \in Conns : c \notin ToSet(served') => sent'[c] = 0
    BY <2>2, <2>3, <1>i DEF ServedInv
  <2> QED
    BY <2>5, <2>6, <2>8, <2>9, <2>10 DEF ServedInv
<1>6. CASE HandshakeFails \/ Finish \/ Reset
  <2>1. /\ peer \in Conns /\ asked' = [asked EXCEPT ![peer] = "done"]
        /\ UNCHANGED <<peer, pending, sent, served>>
    BY <1>6, <1>t, <1>i DEF HandshakeFails, Finish, Reset, Ends, FlagInv, StateMeans, Bound
  <2>2. peer \in ToSet(served)
    BY <2>1, <1>t, <1>i DEF ServedInv, ToSet, Last
  <2> QED
    BY <2>1, <2>2, <1>t, <1>i, <1>in DEF ServedInv
<1>7. CASE Data
  <2>1. /\ peer \in Conns /\ sent' = [sent EXCEPT ![peer] = @ + 1]
        /\ UNCHANGED <<peer, pending, asked, served>>
    BY <1>7, <1>t, <1>i DEF Data, FlagInv, StateMeans, Bound
  <2>2. peer \in ToSet(served)
    BY <2>1, <1>t, <1>i DEF ServedInv, ToSet, Last
  <2> QED
    BY <2>1, <2>2, <1>t, <1>i, <1>in DEF ServedInv
<1>8. CASE NoPeer \/ Unbind
  <2>1. UNCHANGED <<pending, asked, sent, served>> /\ peer' \in {peer, None}
    BY <1>8 DEF NoPeer, Unbind, Unaccept, histVars
  <2>2. peer' # peer /\ peer # None => asked[peer] = "done"
    BY <1>8, <1>i DEF NoPeer, Unbind, FlagInv, DisconnectedMeans, Closing
  <2> QED
    BY <2>1, <2>2, <1>t, <1>i, <1>in DEF ServedInv
<1>9. CASE Unlisten
  <2>1. /\ UNCHANGED <<peer, asked, sent, served>> /\ pending' = <<>> /\ ToSet(<<>>) = {}
        /\ Len(<<>>) = 0
    BY <1>9 DEF Unlisten, histVars, ToSet
  <2> QED
    BY <2>1, <1>i DEF ServedInv
<1>10. CASE \/ Acknowledge \/ ResetLate \/ LastAck \/ Get \/ Wait \/ PassOver \/ Accept
            \/ PeerInfo \/ ReceiveNotify \/ Disconnect \/ Relisten \/ RelistenFails
            \/ Receive \/ NoMoreData \/ UNCHANGED vars
  <2>1. UNCHANGED <<peer, pending, asked, sent, served>>
    BY <1>10 DEF Acknowledge, ResetLate, LastAck, Get, Wait, PassOver, Accept, PeerInfo,
       ReceiveNotify, Disconnect, Relisten, RelistenFails, Receive, NoMoreData, vars,
       ipVars, histVars
  <2> QED
    BY <2>1, <1>i DEF ServedInv
<1> QED
  BY <1>1, <1>2, <1>3, <1>4, <1>5, <1>6, <1>7, <1>8, <1>9, <1>10
  DEF Next, Ip, Main, Handshake

-----------------------------------------------------------------------------
(* What is received *)

LEMMA DeliveredType ==
  ASSUME TypeOK
  PROVE  \A c : Delivered(c) \in Nat /\ Delivered(c) <= MaxData
<1>1. received \in Seq(Conns \X (1 .. MaxData)) /\ MaxData \in Nat
  BY DEF TypeOK
<1>2. ASSUME received # <<>> PROVE Last(received)[2] \in 1 .. MaxData
  <2>1. Last(received) \in Conns \X (1 .. MaxData)
    BY <1>1, <1>2 DEF Last
  <2> QED
    BY <2>1
<1> QED
  BY <1>1, <1>2 DEF Delivered

LEMMA AcceptedEmpty ==
  ASSUME SocketInv, peer # None, sent[peer] = 0
  PROVE  rxQueue = <<>> /\ Delivered(peer) = 0
<1>1. Delivered(peer) + Len(rxQueue) = 0 /\ Len(rxQueue) \in Nat /\ rxQueue \in Seq(Conns \X (1 .. MaxData))
  BY DEF SocketInv, QueueInv, TypeOK
<1>2. Delivered(peer) \in Nat
  BY DeliveredType DEF SocketInv
<1>3. Len(rxQueue) = 0 /\ Delivered(peer) = 0
  BY <1>1, <1>2
<1> QED
  BY <1>1, <1>3

LEMMA WakeStep ==
  ASSUME SocketInv, [Next]_vars
  PROVE  WakeInv'
<1>i. FlagInv /\ WakeInv
  BY DEF SocketInv
<1> USE DEF WakeInv, ipVars, histVars
<1>1. CASE Acknowledge
  <2>1. peer # None /\ sent[peer] = 0
    BY <1>1, <1>i DEF Acknowledge, FlagInv, StateMeans, Bound
  <2>2. rxQueue = <<>>
    BY <2>1, AcceptedEmpty
  <2> QED
    BY <1>1, <2>2 DEF Acknowledge
<1>2. CASE Data
  BY <1>2, <1>i DEF Data, Post, NoPost
<1>3. CASE Get \/ Wait
  BY <1>3, <1>i DEF Get, Wait, FlagInv, StateMeans
<1>4. CASE HandshakeFails \/ Finish \/ Reset \/ ResetLate \/ LastAck \/ Relisten \/ RelistenPending
           \/ NoPeer \/ Unbind \/ Accept
  BY <1>4, <1>i DEF HandshakeFails, Finish, Reset, Ends, ResetLate, LastAck, Relisten,
     RelistenPending, NoPeer, Unbind, Unaccept, Accept
<1>5. CASE Receive
  BY <1>5, <1>i DEF Receive
<1>6. CASE NoMoreData
  BY <1>6, <1>i DEF NoMoreData, FlagInv, StateMeans, Bound
<1>7. CASE PassOver \/ PeerInfo \/ ReceiveNotify \/ Unlisten \/ Disconnect \/ RelistenFails
  BY <1>7, <1>i DEF PassOver, PeerInfo, ReceiveNotify, Unlisten, Disconnect, RelistenFails
<1>8. ASSUME NEW c \in Conns, Synchronise(c) PROVE WakeInv'
  BY <1>8, <1>i DEF Synchronise, Post, FlagInv, ListeningMeans
<1>9. ASSUME NEW c \in Conns, Queue(c) \/ Refused(c) \/ GiveUp(c) PROVE WakeInv'
  BY <1>9, <1>i DEF Queue, Refused, GiveUp, NoPost
<1>10. CASE UNCHANGED vars
  BY <1>10, <1>i DEF vars
<1> QED
  BY <1>1, <1>2, <1>3, <1>4, <1>5, <1>6, <1>7, <1>8, <1>9, <1>10
  DEF Next, Ip, Main, Handshake

(* The receive queue is untouched, or emptied while there is no data.      *)
LEMMA QueueKept ==
  ASSUME SocketInv, UNCHANGED <<rxQueue, received, peer>>,
         peer # None => sent'[peer] = sent[peer],
         ToSet(served) \subseteq ToSet(served')
  PROVE  QueueInv'
BY DEF SocketInv, QueueInv, Delivered

LEMMA QueueStep ==
  ASSUME SocketInv, [Next]_vars
  PROVE  QueueInv'
<1>t. /\ peer \in Conns \cup {None} /\ None \notin Conns
      /\ sent \in [Conns -> 0 .. MaxData] /\ MaxData \in Nat
      /\ rxQueue \in Seq(Conns \X (1 .. MaxData)) /\ received \in Seq(Conns \X (1 .. MaxData))
      /\ served \in Seq(Conns) /\ pending \in Seq(Conns)
  BY DEF SocketInv, TypeOK, Conns, None
<1>i. FlagInv /\ ServedInv /\ QueueInv
  BY DEF SocketInv
<1>d. \A c : Delivered(c) \in Nat
  BY DeliveredType DEF SocketInv
<1>new. ASSUME NEW c \in Conns, peer = None, peer' = c, c \notin ToSet(served),
               served' = Append(served, c), UNCHANGED <<rxQueue, received, sent>>
        PROVE  QueueInv'
  <2>1. sent[c] = 0 /\ rxQueue = <<>> /\ Len(rxQueue) = 0
    BY <1>new, <1>i DEF ServedInv, QueueInv
  <2>2. Delivered(c) = 0 /\ Delivered(c)' = Delivered(c)
    BY <1>new, <1>i DEF QueueInv, Delivered
  <2>3. ToSet(served) \subseteq ToSet(served')
    BY <1>new, <1>t, AppendFacts
  <2> QED
    BY <1>new, <1>i, <1>t, <2>1, <2>2, <2>3 DEF QueueInv, Delivered
<1>1. ASSUME NEW c \in Conns, Synchronise(c) PROVE QueueInv'
  <2>1. peer = None
    BY <1>1, <1>i DEF Synchronise, FlagInv, ListeningMeans
  <2>2. c \notin ToSet(served)
    BY <1>1, <1>t, <2>1, <1>i DEF Synchronise, Asks, ServedInv
  <2> QED
    BY <1>1, <2>1, <2>2, <1>new DEF Synchronise
<1>2. CASE RelistenPending
  <2>1. peer = None
    BY <1>2, <1>i DEF RelistenPending, FlagInv, StateMeans
  <2>2. Head(pending) \in Conns /\ Head(pending) \in ToSet(pending)
    BY <1>2, <1>t, TailFacts DEF RelistenPending
  <2>3. Head(pending) \notin ToSet(served)
    BY <2>2, <1>i DEF ServedInv
  <2> QED
    BY <1>2, <2>1, <2>2, <2>3, <1>new DEF RelistenPending
<1>3. CASE Data
  <2>1. /\ peer \in Conns /\ sent[peer] \in Nat /\ sent' = [sent EXCEPT ![peer] = @ + 1]
        /\ rxQueue' = Append(rxQueue, <<peer, sent[peer] + 1>>) /\ sent[peer] < MaxData
        /\ UNCHANGED <<peer, received, served>>
    BY <1>3, <1>t, <1>i DEF Data, FlagInv, StateMeans, Bound
  <2>2. /\ Delivered(peer) + Len(rxQueue) = sent[peer] /\ Len(rxQueue) \in Nat
        /\ \A i \in 1 .. Len(rxQueue) : rxQueue[i] = <<peer, Delivered(peer) + i>>
    BY <2>1, <1>t, <1>i DEF QueueInv
  <2>3. /\ Len(rxQueue') = Len(rxQueue) + 1 /\ rxQueue'[Len(rxQueue) + 1] = <<peer, sent[peer] + 1>>
        /\ \A i \in 1 .. Len(rxQueue) : rxQueue'[i] = rxQueue[i]
    <3>1. <<peer, sent[peer] + 1>> \in Conns \X (1 .. MaxData)
      BY <2>1, <1>t
    <3> QED
      BY <2>1, <3>1, <1>t, AppendFacts DEF Last
  <2>4. Delivered(peer)' = Delivered(peer)
    BY <2>1 DEF Delivered
  <2>5. \A i \in 1 .. Len(rxQueue') : rxQueue'[i] = <<peer, Delivered(peer) + i>>
    <3>1. ASSUME NEW i \in 1 .. Len(rxQueue') PROVE i \in 1 .. Len(rxQueue) \/ i = Len(rxQueue) + 1
      BY <2>2, <2>3
    <3>2. Delivered(peer) + (Len(rxQueue) + 1) = sent[peer] + 1
      BY <2>2, <1>d, <2>1
    <3> QED
      BY <2>2, <2>3, <3>1, <3>2
  <2>6. Delivered(peer) + Len(rxQueue') = sent'[peer]
    <3>1. sent'[peer] = sent[peer] + 1
      BY <2>1, <1>t
    <3> QED
      BY <3>1, <2>2, <2>3, <1>d, <2>1
  <2> QED
    BY <2>1, <2>4, <2>5, <2>6, <1>t, <1>i DEF QueueInv
<1>4. CASE Receive
  <2> DEFINE d == Head(rxQueue)
  <2>1. /\ rxQueue # <<>> /\ rxQueue' = Tail(rxQueue) /\ received' = Append(received, d)
        /\ peer \in Conns /\ UNCHANGED <<peer, sent, served>>
    BY <1>4, <1>t DEF Receive
  <2>2. /\ Delivered(peer) + Len(rxQueue) = sent[peer]
        /\ \A i \in 1 .. Len(rxQueue) : rxQueue[i] = <<peer, Delivered(peer) + i>>
    BY <2>1, <1>t, <1>i DEF QueueInv
  <2>3. /\ d = rxQueue[1] /\ d \in Conns \X (1 .. MaxData) /\ Len(rxQueue) \in Nat \ {0}
        /\ Len(rxQueue') = Len(rxQueue) - 1
        /\ \A i \in 1 .. Len(rxQueue) - 1 : rxQueue'[i] = rxQueue[i + 1]
    BY <2>1, <1>t, TailFacts
  <2>4. d = <<peer, Delivered(peer) + 1>>
    BY <2>2, <2>3
  <2> HIDE DEF d
  <2>5. received' # <<>> /\ Last(received') = d
    <3> DEFINE T == Conns \X (1 .. MaxData)
    <3>1. received \in Seq(T) /\ d \in T
      BY <2>3, <1>t
    <3> HIDE DEF T
    <3> QED
      BY <2>1, <3>1, AppendFacts
  <2>6. Delivered(peer)' = Delivered(peer) + 1
    BY <2>1, <2>4, <2>5 DEF Delivered
  <2>7. Delivered(peer)' + Len(rxQueue') = sent'[peer]
    BY <2>1, <2>2, <2>3, <2>6, <1>d
  <2>8. \A i \in 1 .. Len(rxQueue') : rxQueue'[i] = <<peer, Delivered(peer)' + i>>
    <3>1. ASSUME NEW i \in 1 .. Len(rxQueue')
          PROVE  rxQueue'[i] = <<peer, Delivered(peer) + (i + 1)>>
      <4>1. i \in 1 .. Len(rxQueue) - 1 /\ i + 1 \in 1 .. Len(rxQueue)
        BY <2>3
      <4> QED
        BY <2>2, <2>3, <4>1
    <3>2. \A i \in 1 .. Len(rxQueue') : Delivered(peer) + (i + 1) = (Delivered(peer) + 1) + i
      BY <2>3, <1>d
    <3> QED
      BY <2>6, <3>1, <3>2
  <2>9. Last(received')[1] \in ToSet(served')
    BY <2>1, <2>4, <2>5, <1>t, <1>i DEF ServedInv, ToSet, Last
  <2> QED
    BY <2>1, <2>5, <2>7, <2>8, <2>9, <1>t DEF QueueInv
<1>5. CASE NoPeer \/ Unbind
  <2>1. /\ UNCHANGED <<sent, received, served>>
        /\ \/ UNCHANGED <<peer, rxQueue>>
           \/ peer' = None /\ rxQueue' = <<>>
    BY <1>5 DEF NoPeer, Unbind, Unaccept, histVars
  <2>2. CASE peer' = None /\ rxQueue' = <<>>
    BY <2>1, <2>2, <1>i DEF QueueInv
  <2> QED
    BY <2>1, <2>2, QueueKept
<1>6. CASE Accept
  <2>1. peer # None /\ sent[peer] = 0
    BY <1>6, <1>i DEF Accept, FlagInv, ConnectedMeans, ConnectedPending, ConnectedIn
  <2>2. rxQueue = <<>>
    BY <2>1, AcceptedEmpty
  <2> QED
    BY <1>6, <2>2, QueueKept DEF Accept, histVars
<1>7. CASE \/ Acknowledge \/ HandshakeFails \/ Finish \/ Reset \/ ResetLate \/ LastAck
           \/ Get \/ Wait \/ PassOver \/ PeerInfo \/ ReceiveNotify \/ Unlisten
           \/ Disconnect \/ Relisten \/ RelistenFails \/ NoMoreData \/ UNCHANGED vars
  BY <1>7, QueueKept DEF Acknowledge, HandshakeFails, Finish, Reset, Ends, ResetLate, LastAck,
     Get, Wait, PassOver, PeerInfo, ReceiveNotify, Unlisten, Disconnect, Relisten,
     RelistenFails, NoMoreData, vars, ipVars, histVars
<1>8. ASSUME NEW c \in Conns, Queue(c) \/ Refused(c) \/ GiveUp(c) PROVE QueueInv'
  BY <1>8, QueueKept DEF Queue, Refused, GiveUp, histVars
<1> QED
  BY <1>1, <1>2, <1>3, <1>4, <1>5, <1>6, <1>7, <1>8
  DEF Next, Ip, Main, Handshake

-----------------------------------------------------------------------------
(* The types *)

LEMMA TypeStep ==
  ASSUME SocketInv, [Next]_vars
  PROVE  TypeOK'
<1>t. TypeOK /\ FlagInv /\ ServedInv
  BY DEF SocketInv
<1>n. None \notin Conns
  BY DEF Conns, None
<1>b. tcp \in Bound => peer \in Conns
  BY <1>t DEF TypeOK, FlagInv, StateMeans
<1>e. <<>> \in Seq(Conns) /\ <<>> \in Seq(Conns \X (1 .. MaxData)) /\ Len(<<>>) <= MaxPending
  OBVIOUS
<1> USE DEF ipVars, histVars, Flags, Steps
<1>1. ASSUME NEW c \in Conns, Synchronise(c) PROVE TypeOK'
  <2>1. served' \in Seq(Conns)
    BY <1>1, <1>t, AppendFacts DEF Synchronise, TypeOK
  <2> QED
    BY <1>1, <2>1, <1>t DEF Synchronise, Post, TypeOK
<1>2. ASSUME NEW c \in Conns, Queue(c) PROVE TypeOK'
  <2>1. pending \in Seq(Conns) /\ Len(pending) <= MaxPending
    BY <1>t DEF TypeOK
  <2>2. pending' \in Seq(Conns) /\ Len(pending') <= MaxPending
    <3>1. CASE Len(pending) < MaxPending
      BY <1>2, <2>1, <3>1 DEF Queue
    <3>2. CASE ~(Len(pending) < MaxPending)
      <4>1. pending # <<>>
        BY <2>1, <3>2
      <4>2. Tail(pending) \in Seq(Conns) /\ Len(Tail(pending)) = Len(pending) - 1
        BY <2>1, <4>1
      <4> QED
        BY <1>2, <2>1, <3>2, <4>2 DEF Queue
    <3> QED
      BY <3>1, <3>2
  <2> QED
    BY <1>2, <2>2, <1>t DEF Queue, NoPost, TypeOK
<1>3. ASSUME NEW c \in Conns, Refused(c) PROVE TypeOK'
  BY <1>3, <1>t DEF Refused, NoPost, TypeOK
<1>4. ASSUME NEW c \in Conns, GiveUp(c) PROVE TypeOK'
  <2>1. pending \in Seq(Conns) /\ Len(pending) <= MaxPending
        /\ \A i, j \in 1 .. Len(pending) : pending[i] = pending[j] => i = j
    BY <1>t DEF TypeOK, ServedInv
  <2>2. PICK k \in DOMAIN pending : pending' = RemoveAt(pending, k)
    BY <1>4 DEF GiveUp
  <2>3. pending' \in Seq(Conns) /\ Len(pending') <= MaxPending
    BY <2>1, <2>2, RemoveAtFacts
  <2> QED
    BY <1>4, <2>3, <1>t DEF GiveUp, NoPost, TypeOK
<1>5. CASE Data
  <2>1. peer \in Conns /\ sent[peer] \in 0 .. MaxData /\ sent[peer] < MaxData
    BY <1>5, <1>b, <1>t DEF Data, Bound, TypeOK
  <2>2. <<peer, sent[peer] + 1>> \in Conns \X (1 .. MaxData)
        /\ sent' \in [Conns -> 0 .. MaxData]
    BY <1>5, <2>1, <1>t DEF Data, TypeOK
  <2>3. rxQueue' \in Seq(Conns \X (1 .. MaxData))
    BY <1>5, <2>2, <1>t, AppendFacts DEF Data, TypeOK
  <2>4. pc' \in Steps /\ events' \subseteq Flags /\ e' \subseteq Flags
    BY <1>5, <1>t DEF Data, Post, NoPost, TypeOK
  <2>5. early' \in BOOLEAN
    BY <1>5, <1>t DEF Data, TypeOK
  <2> QED
    BY <1>5, <2>2, <2>3, <2>4, <2>5, <1>t DEF Data, TypeOK
<1>6. CASE Finish \/ Reset \/ HandshakeFails
  <2>1. peer \in Conns
    BY <1>6, <1>b DEF Finish, Reset, HandshakeFails, Ends, Bound
  <2>2. asked' \in [Conns -> {"idle", "asking", "done"}] /\ gone' \in BOOLEAN
    BY <1>6, <2>1, <1>t DEF Finish, Reset, HandshakeFails, Ends, TypeOK
  <2>3. tcp' \in {"closeWait", "listen"} /\ pc' \in Steps /\ events' \subseteq Flags /\ e' \subseteq Flags
    BY <1>6, <1>t DEF Finish, Reset, HandshakeFails, Ends, Post, TypeOK
  <2>4. UNCHANGED <<peer, open, listening, pending, rxQueue, notify, sent, served, received, early>>
    BY <1>6 DEF Finish, Reset, HandshakeFails, Ends
  <2> QED
    BY <2>2, <2>3, <2>4, <1>t DEF TypeOK
<1>7. CASE NoPeer \/ Unbind
  <2>1. /\ tcp' \in {tcp, "closed"} /\ peer' \in {peer, None} /\ listening' \in {listening, FALSE}
        /\ rxQueue' \in {rxQueue, <<>>} /\ pc' \in Steps
        /\ peer' # None => listening' = listening /\ peer' = peer
    BY <1>7 DEF NoPeer, Unbind, Unaccept
  <2>2. UNCHANGED <<open, pending, asked, sent, notify, events, e, served, received, early, gone>>
    BY <1>7 DEF NoPeer, Unbind
  <2>3. rxQueue' \in Seq(Conns \X (1 .. MaxData))
    BY <2>1, <1>t, <1>e DEF TypeOK
  <2>4. /\ peer' \in Conns \cup {None} /\ (peer' # None => ~listening') /\ listening' \in BOOLEAN
        /\ tcp' \in {"closed", "listen", "synReceived", "established", "closeWait", "lastAck"}
    <3>1. /\ peer \in Conns \cup {None} /\ (peer # None => ~listening) /\ listening \in BOOLEAN
          /\ tcp \in {"closed", "listen", "synReceived", "established", "closeWait", "lastAck"}
      BY <1>t DEF TypeOK
    <3>2. peer' # None => ~listening'
      BY <2>1, <3>1
    <3>3. listening' \in BOOLEAN /\ peer' \in Conns \cup {None}
      BY <2>1, <3>1
    <3> QED
      BY <2>1, <3>1, <3>2, <3>3
  <2> QED
    BY <2>1, <2>2, <2>3, <2>4, <1>t DEF TypeOK
<1>8. CASE RelistenPending
  <2>1. pending \in Seq(Conns) /\ pending # <<>> /\ Len(pending) <= MaxPending /\ served \in Seq(Conns)
    BY <1>8, <1>t DEF RelistenPending, TypeOK
  <2>2. /\ Head(pending) \in Conns /\ Tail(pending) \in Seq(Conns)
        /\ Len(Tail(pending)) <= MaxPending
    BY <2>1
  <2>3. served' \in Seq(Conns)
    BY <1>8, <2>1, <2>2, AppendFacts DEF RelistenPending
  <2>4. ~listening
    BY <1>8, <1>t DEF RelistenPending, FlagInv, ListeningMeans, AtEase
  <2> QED
    BY <1>8, <2>2, <2>3, <2>4, <1>t DEF RelistenPending, TypeOK
<1>9. CASE Receive
  <2>1. rxQueue \in Seq(Conns \X (1 .. MaxData)) /\ rxQueue # <<>>
        /\ received \in Seq(Conns \X (1 .. MaxData))
    BY <1>9, <1>t DEF Receive, TypeOK
  <2>2. Tail(rxQueue) \in Seq(Conns \X (1 .. MaxData)) /\ Head(rxQueue) \in Conns \X (1 .. MaxData)
    BY <2>1
  <2>3. received' \in Seq(Conns \X (1 .. MaxData))
    BY <1>9, <2>1, <2>2, AppendFacts DEF Receive
  <2> QED
    BY <1>9, <2>2, <2>3, <1>t DEF Receive, TypeOK
<1>10. CASE Relisten
  <2>1. peer = None
    BY <1>10, <1>t DEF Relisten, FlagInv, StateMeans
  <2> QED
    BY <1>10, <2>1, <1>t DEF Relisten, TypeOK
<1>11. CASE Accept \/ PeerInfo \/ ReceiveNotify \/ Unlisten \/ Disconnect
  <2>1. /\ tcp' \in {tcp, "synReceived", "lastAck"} /\ pc' \in Steps
        /\ open' \in {open, FALSE} /\ notify' \in {notify, TRUE}
        /\ pending' \in {pending, <<>>} /\ rxQueue' \in {rxQueue, <<>>}
    BY <1>11 DEF Accept, PeerInfo, ReceiveNotify, Unlisten, Disconnect
  <2>2. UNCHANGED <<peer, listening, asked, sent, events, e, served, received, early, gone>>
    BY <1>11 DEF Accept, PeerInfo, ReceiveNotify, Unlisten, Disconnect
  <2>3. rxQueue' \in Seq(Conns \X (1 .. MaxData)) /\ pending' \in Seq(Conns) /\ Len(pending') <= MaxPending
    BY <2>1, <1>t, <1>e DEF TypeOK
  <2> QED
    BY <2>1, <2>2, <2>3, <1>t DEF TypeOK
<1>12. CASE \/ Acknowledge \/ ResetLate \/ LastAck \/ Get \/ Wait \/ PassOver
            \/ RelistenFails \/ NoMoreData \/ UNCHANGED vars
  <2>1. /\ tcp' \in {tcp, "established", "listen"} /\ pc' \in Steps \cup {pc}
        /\ events' \in {events, {}} /\ e' \in {e, events}
    BY <1>12 DEF Acknowledge, ResetLate, LastAck, Get, Wait, PassOver, RelistenFails,
       NoMoreData, vars
  <2>2. UNCHANGED <<ipVars, notify, histVars>>
    BY <1>12 DEF Acknowledge, ResetLate, LastAck, Get, Wait, PassOver, RelistenFails,
       NoMoreData, vars
  <2> QED
    BY <2>1, <2>2, <1>t DEF TypeOK
<1> QED
  BY <1>1, <1>2, <1>3, <1>4, <1>5, <1>6, <1>7, <1>8, <1>9, <1>10, <1>11, <1>12
  DEF Next, Ip, Main, Handshake

LEMMA InitSocketInv == Init => SocketInv
<1> SUFFICES ASSUME Init PROVE SocketInv
    OBVIOUS
<1>1. TypeOK
  <2>1. <<>> \in Seq(Conns) /\ Len(<<>>) <= MaxPending /\ <<>> \in Seq(Conns \X (1 .. MaxData))
        /\ 0 \in 0 .. MaxData /\ {} \subseteq Flags
    OBVIOUS
  <2> QED
    BY <2>1 DEF Init, TypeOK, Steps
<1>2. FlagInv
  BY DEF Init, FlagInv, OneOfEach, ConnectedMeans, DisconnectedMeans, ClosingMeans,
     ListeningMeans, StateMeans, ConnectedPending, DisconnectedPending, ConnectedIn,
     DisconnectedIn, Closing, AtEase, Bound
<1>3. ServedInv
  BY DEF Init, ServedInv, ToSet
<1>4. QueueInv /\ WakeInv
  BY DEF Init, QueueInv, WakeInv
<1> QED
  BY <1>1, <1>2, <1>3, <1>4 DEF SocketInv

LEMMA NextSocketInv == SocketInv /\ [Next]_vars => SocketInv'
  BY FlagStep, ServedStep, WakeStep, QueueStep, TypeStep DEF SocketInv

LEMMA SocketSafe == Init /\ [][Next]_vars => []SocketInv
  BY InitSocketInv, NextSocketInv, PTL

-----------------------------------------------------------------------------

(* The variables of the class and of the NetX socket keep their types: no  *)
(* more requests wait than listen allows, and a bound socket does not take *)
(* another SYN.                                                            *)
THEOREM SocketTypeCorrect == Spec => []TypeOK
<1>1. SocketInv => TypeOK
  BY DEF SocketInv
<1> QED
  BY <1>1, SocketSafe, PTL DEF Spec

(* A Disconnected that the thread handles is about the connection that is  *)
(* bound, and that one is over: handleDisconnected never closes a          *)
(* connection that a peer has just made.                                   *)
THEOREM NeverClosesALiveConnection == Spec => []ClosesOnlyWhatEnded
<1>1. SocketInv => ClosesOnlyWhatEnded
  BY DEF SocketInv, FlagInv, DisconnectedMeans, DisconnectedPending, DisconnectedIn,
     ClosesOnlyWhatEnded
<1> QED
  BY <1>1, SocketSafe, PTL DEF Spec

(* Several notifications may share one flag, and one may come while the    *)
(* thread is in its loop: whatever was notified is received before the     *)
(* thread waits again.                                                     *)
THEOREM NotifiedDataIsReceived == Spec => []NothingLeftWaiting
<1>1. SocketInv => NothingLeftWaiting
  <2> SUFFICES ASSUME SocketInv, pc = "waiting", tcp = "established", ~early
               PROVE  rxQueue = <<>>
      BY DEF NothingLeftWaiting
  <2>1. events = {} /\ WakeInv
    BY DEF SocketInv, FlagInv, StateMeans
  <2> QED
    BY <2>1 DEF WakeInv
<1> QED
  BY <1>1, SocketSafe, PTL DEF Spec

(* rxCallback is given each connection's packets from the first, in order  *)
(* and without a gap, and never a packet of an older connection.           *)
THEOREM DataIsThePeers == Spec => DataOfThePeer
<1>1. ASSUME SocketInv, [Next]_vars, received' # received
      PROVE  LET c == Last(served)
                 before == IF received # <<>> /\ Last(received)[1] = c THEN Last(received)[2] ELSE 0
             IN  Last(received') = <<c, before + 1>>
  <2>1. Receive
    BY <1>1 DEF Next, Ip, Main, Handshake, Synchronise, Queue, Refused, GiveUp, Acknowledge,
       HandshakeFails, Data, Finish, Reset, Ends, ResetLate, LastAck, Get, Wait, PassOver, Accept,
       PeerInfo, ReceiveNotify, NoPeer, Unlisten, Disconnect, Unbind, Relisten, RelistenPending,
       RelistenFails, NoMoreData, vars, histVars
  <2>2. /\ rxQueue # <<>> /\ received' = Append(received, Head(rxQueue)) /\ peer # None
        /\ rxQueue \in Seq(Conns \X (1 .. MaxData)) /\ received \in Seq(Conns \X (1 .. MaxData))
    BY <1>1, <2>1 DEF Receive, SocketInv, TypeOK
  <2>3. Head(rxQueue) = rxQueue[1] /\ 1 \in 1 .. Len(rxQueue)
        /\ rxQueue[1] \in Conns \X (1 .. MaxData)
    BY <2>2
  <2>4. Head(rxQueue) = <<peer, Delivered(peer) + 1>> /\ Last(served) = peer
    BY <1>1, <2>2, <2>3 DEF SocketInv, QueueInv, ServedInv
  <2>5. Last(received') = Head(rxQueue)
    BY <2>2, <2>3, AppendFacts
  <2> QED
    BY <2>4, <2>5 DEF Delivered
<1>2. SocketInv /\ [Next]_vars =>
        [received' # received =>
           LET c == Last(served)
               before == IF received # <<>> /\ Last(received)[1] = c THEN Last(received)[2] ELSE 0
           IN  Last(received') = <<c, before + 1>>]_vars
  BY <1>1
<1> QED
  BY <1>2, SocketSafe, PTL DEF Spec, DataOfThePeer
=============================================================================
