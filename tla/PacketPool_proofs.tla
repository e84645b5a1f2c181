-------------------------- MODULE PacketPool_proofs --------------------------
(***************************************************************************)
(* Proofs about PacketPool for every number of writers and packets.        *)
(***************************************************************************)
EXTENDS PacketPool, TLAPS

USE PoolAssumption

Places == {"idle", "suspended", "send", "stalled", "release"}
Holding == {"send", "stalled", "release"}

(* OneOwner and NoIdlePacket are not inductive by themselves: a packet is  *)
(* queued at one place only, else its first release would leave a queued   *)
(* packet free; and who is in the suspension list waits, once.             *)
Distinct ==
  /\ \A i, j \in 1 .. Len(sent) : sent[i] = sent[j] => i = j
  /\ \A i, j \in 1 .. Len(released) : released[i] = released[j] => i = j
  /\ Elements(sent) \cap Elements(released) = {}

Waiting ==
  /\ \A w \in Writers : pc[w] = "suspended" <=> w \in Elements(suspended)
  /\ \A i, j \in 1 .. Len(suspended) : suspended[i] = suspended[j] => i = j

(* TypeOK in two parts: what nx_packet_release touches, and the rest.      *)
PoolTypeOK ==
  /\ pc \in [Writers -> Places]
  /\ sendPacket \in [Writers -> Packets \cup {NULL}]
  /\ mark \in [Packets -> {"FREE", "ALLOCATED", "ENQUEUED"}]
  /\ txDone \in [Packets -> BOOLEAN]
  /\ \A w \in Writers : sendPacket[w] # NULL <=> pc[w] \in Holding
  /\ available \subseteq Packets
  /\ suspended \in Seq(Writers)

RestTypeOK ==
  /\ sent \in Seq(Packets) /\ released \in Seq(Packets)
  /\ driver \subseteq Packets
  /\ socket \in {"closed", "open", "closing"}
  /\ link \in BOOLEAN /\ window \in BOOLEAN /\ probing \in BOOLEAN
  /\ retries \in 0 .. MaxRetries

PoolInv == PoolTypeOK /\ RestTypeOK /\ OneOwner /\ NoIdlePacket /\ Distinct /\ Waiting

-----------------------------------------------------------------------------
(* What the operations on sequences do to their elements *)

LEMMA ElementsIn ==
  ASSUME NEW S, NEW s \in Seq(S)
  PROVE  Elements(s) \subseteq S /\ (s = <<>> <=> Elements(s) = {})
BY DEF Elements

LEMMA ElementsAppend ==
  ASSUME NEW S, NEW s \in Seq(S), NEW e \in S
  PROVE  /\ Append(s, e) \in Seq(S)
         /\ Elements(Append(s, e)) = Elements(s) \cup {e}
<1>1. /\ Append(s, e) \in Seq(S) /\ Len(Append(s, e)) = Len(s) + 1
      /\ \A i \in 1 .. Len(s) : Append(s, e)[i] = s[i]
      /\ Append(s, e)[Len(s) + 1] = e
  OBVIOUS
<1>2. 1 .. Len(s) + 1 = (1 .. Len(s)) \cup {Len(s) + 1}
  OBVIOUS
<1> QED
  BY <1>1, <1>2 DEF Elements

LEMMA DistinctAppend ==
  ASSUME NEW S, NEW s \in Seq(S), NEW e \in S, e \notin Elements(s),
         \A i, j \in 1 .. Len(s) : s[i] = s[j] => i = j
  PROVE  \A i, j \in 1 .. Len(Append(s, e)) : Append(s, e)[i] = Append(s, e)[j] => i = j
<1>1. /\ Len(Append(s, e)) = Len(s) + 1 /\ Len(s) \in Nat
      /\ \A i \in 1 .. Len(s) : Append(s, e)[i] = s[i] /\ s[i] # e
      /\ Append(s, e)[Len(s) + 1] = e
  BY DEF Elements
<1> QED
  BY <1>1

LEMMA TailElements ==
  ASSUME NEW S, NEW s \in Seq(S), s # <<>>,
         \A i, j \in 1 .. Len(s) : s[i] = s[j] => i = j
  PROVE  /\ Head(s) \in Elements(s) /\ Tail(s) \in Seq(S)
         /\ Elements(Tail(s)) = Elements(s) \ {Head(s)}
         /\ \A i, j \in 1 .. Len(Tail(s)) : Tail(s)[i] = Tail(s)[j] => i = j
<1>1. /\ Tail(s) \in Seq(S) /\ Len(Tail(s)) = Len(s) - 1 /\ Len(s) \in Nat \ {0}
      /\ Head(s) = s[1]
      /\ \A i \in 1 .. Len(s) - 1 : Tail(s)[i] = s[i + 1]
  OBVIOUS
<1>2. Head(s) \in Elements(s)
  BY <1>1 DEF Elements
<1>3. ASSUME NEW x \in Elements(Tail(s)) PROVE x \in Elements(s) \ {Head(s)}
  <2>1. PICK i \in 1 .. Len(s) - 1 : x = s[i + 1]
    BY <1>1 DEF Elements
  <2> QED
    BY <1>1, <2>1 DEF Elements
<1>4. ASSUME NEW x \in Elements(s) \ {Head(s)} PROVE x \in Elements(Tail(s))
  <2>1. PICK i \in 1 .. Len(s) : x = s[i]
    BY DEF Elements
  <2>2. i - 1 \in 1 .. Len(s) - 1 /\ Tail(s)[i - 1] = x
    BY <1>1, <2>1
  <2> QED
    BY <1>1, <2>2 DEF Elements
<1>5. \A i, j \in 1 .. Len(Tail(s)) : Tail(s)[i] = Tail(s)[j] => i = j
  BY <1>1
<1> QED
  BY <1>1, <1>2, <1>3, <1>4, <1>5

(* An acknowledgement cuts the queue in two. *)
LEMMA CutElements ==
  ASSUME NEW S, NEW s \in Seq(S), NEW n \in 0 .. Len(s),
         \A i, j \in 1 .. Len(s) : s[i] = s[j] => i = j
  PROVE  LET a == SubSeq(s, 1, n)
             b == SubSeq(s, n + 1, Len(s))
         IN  /\ a \in Seq(S) /\ b \in Seq(S)
             /\ Elements(a) \cup Elements(b) = Elements(s)
             /\ Elements(a) \cap Elements(b) = {}
             /\ \A i, j \in 1 .. Len(a) : a[i] = a[j] => i = j
             /\ \A i, j \in 1 .. Len(b) : b[i] = b[j] => i = j
             /\ Elements(a) = {s[i] : i \in 1 .. n}
<1> DEFINE a == SubSeq(s, 1, n)
           b == SubSeq(s, n + 1, Len(s))
<1>1. /\ a \in Seq(S) /\ Len(a) = n
      /\ \A i \in 1 .. n : a[i] = s[i]
  OBVIOUS
<1>2. /\ b \in Seq(S) /\ Len(b) = Len(s) - n
      /\ \A i \in 1 .. Len(s) - n : b[i] = s[n + i]
  OBVIOUS
<1>3. Elements(a) = {s[i] : i \in 1 .. n}
  BY <1>1 DEF Elements
<1>4. Elements(b) = {s[i] : i \in n + 1 .. Len(s)}
  <2>1. ASSUME NEW i \in n + 1 .. Len(s) PROVE s[i] \in Elements(b)
    <3>1. i - n \in 1 .. Len(s) - n /\ b[i - n] = s[i]
      BY <1>2
    <3> QED
      BY <1>2, <3>1 DEF Elements
  <2>2. ASSUME NEW x \in Elements(b) PROVE x \in {s[i] : i \in n + 1 .. Len(s)}
    <3>1. PICK i \in 1 .. Len(s) - n : x = s[n + i]
      BY <1>2 DEF Elements
    <3> QED
      BY <3>1
  <2> QED
    BY <2>1, <2>2
<1>5. Elements(a) \cup Elements(b) = Elements(s)
  <2>1. 1 .. Len(s) = (1 .. n) \cup (n + 1 .. Len(s))
    OBVIOUS
  <2>2. Elements(s) = {s[i] : i \in 1 .. n} \cup {s[i] : i \in n + 1 .. Len(s)}
    BY <2>1 DEF Elements
  <2> QED
    BY <1>3, <1>4, <2>2
<1>6. Elements(a) \cap Elements(b) = {}
  BY <1>3, <1>4
<1>7. \A i, j \in 1 .. Len(a) : a[i] = a[j] => i = j
  BY <1>1
<1>8. \A i, j \in 1 .. Len(b) : b[i] = b[j] => i = j
  BY <1>2
<1> QED
  BY <1>1, <1>2, <1>3, <1>5, <1>6, <1>7, <1>8

-----------------------------------------------------------------------------
(* nx_packet_release *)

(* A packet that only the releasing code knows of may be handed over:      *)
(* whoever gets it is its one owner.                                       *)
LEMMA HandOverKeeps ==
  ASSUME PoolInv, NEW p \in Packets,
         NEW place \in [Writers -> Places], NEW held \in [Writers -> Packets \cup {NULL}],
         HandOver(p, place, held),
         \A w \in Writers : held[w] # NULL <=> place[w] \in Holding,
         \A w \in Writers : place[w] = "suspended" <=> pc[w] = "suspended",
         \A w \in Writers : held[w] # p /\ held[w] \in {sendPacket[w], NULL},
         \A w \in Writers : held[w] = sendPacket[w] \/ sendPacket[w] = p,
         p \notin available,
         Queued' = Queued \ {p}, driver' = driver \ {p}
  PROVE  PoolTypeOK' /\ OneOwner' /\ NoIdlePacket' /\ Waiting'
<1> USE DEF Places, Holding
<1>t. PoolTypeOK /\ driver \subseteq Packets
  BY DEF PoolInv, RestTypeOK
<1>o. OneOwner /\ NoIdlePacket /\ Waiting
  BY DEF PoolInv
<1>h. \A q \in Packets : q \in Held <=> \E w \in Writers : sendPacket[w] = q
  BY DEF Held
<1>h2. \A q \in Packets : q \in Held' <=> \E w \in Writers : sendPacket'[w] = q
  BY DEF Held
<1>1. CASE suspended # <<>>
  <2> DEFINE s == Head(suspended)
  <2>1. /\ s \in Elements(suspended) /\ suspended' \in Seq(Writers)
        /\ Elements(suspended') = Elements(suspended) \ {s}
        /\ \A i, j \in 1 .. Len(suspended') : suspended'[i] = suspended'[j] => i = j
    <3>1. suspended' = Tail(suspended) /\ suspended \in Seq(Writers)
      BY <1>1, <1>t DEF PoolTypeOK, HandOver
    <3>2. \A i, j \in 1 .. Len(suspended) : suspended[i] = suspended[j] => i = j
      BY <1>o DEF Waiting
    <3> QED
      BY <1>1, <3>1, <3>2, TailElements
  <2>2. s \in Writers /\ place[s] = "suspended" /\ held[s] = NULL
    BY <2>1, <1>t, <1>o, ElementsIn DEF PoolTypeOK, Waiting
  <2>3. /\ pc' = [place EXCEPT ![s] = "send"] /\ sendPacket' = [held EXCEPT ![s] = p]
        /\ mark' = [mark EXCEPT ![p] = "ALLOCATED"]
        /\ txDone' = [txDone EXCEPT ![p] = FALSE]
        /\ available' = available /\ available = {}
    BY <1>1, <1>o DEF HandOver, NoIdlePacket
  <2> HIDE DEF s
  <2>4. PoolTypeOK'
    BY <1>t, <2>1, <2>2, <2>3 DEF PoolTypeOK
  <2>5. Waiting'
    BY <1>o, <1>t, <2>1, <2>2, <2>3 DEF Waiting, PoolTypeOK
  <2>6. OneOwner'
    <3> SUFFICES ASSUME NEW q \in Packets PROVE
          /\ q \in available' <=> mark'[q] = "FREE"
          /\ q \in Queued' <=> mark'[q] = "ENQUEUED"
          /\ q \in Held' => mark'[q] = "ALLOCATED" /\ q \notin driver'
          /\ \A v, w \in Writers : sendPacket'[v] = q /\ sendPacket'[w] = q => v = w
          /\ mark'[q] = "ALLOCATED" => q \in Held' \cup driver'
          /\ q \in available' => q \notin driver'
          /\ q \in Queued' => (txDone'[q] <=> q \notin driver')
        BY DEF OneOwner
    <3>1. CASE q = p
      BY <1>t, <1>o, <1>h2, <2>2, <2>3, <3>1 DEF OneOwner, PoolTypeOK
    <3>2. CASE q # p
      BY <1>t, <1>o, <1>h, <1>h2, <2>2, <2>3, <3>2 DEF OneOwner, PoolTypeOK
    <3> QED
      BY <3>1, <3>2
  <2> QED
    BY <2>3, <2>4, <2>5, <2>6 DEF NoIdlePacket
<1>2. CASE suspended = <<>>
  <2>3. /\ pc' = place /\ sendPacket' = held /\ mark' = [mark EXCEPT ![p] = "FREE"]
        /\ available' = available \cup {p} /\ txDone' = txDone /\ suspended' = suspended
    BY <1>2 DEF HandOver
  <2>4. PoolTypeOK'
    BY <1>t, <2>3 DEF PoolTypeOK
  <2>5. Waiting'
    BY <1>o, <1>t, <2>3 DEF Waiting, PoolTypeOK
  <2>6. OneOwner'
    BY <1>t, <1>o, <1>h, <1>h2, <2>3 DEF OneOwner, PoolTypeOK
  <2> QED
    BY <1>2, <2>3, <2>4, <2>5, <2>6 DEF NoIdlePacket
<1> QED
  BY <1>1, <1>2

-----------------------------------------------------------------------------
(* The steps *)

LEMMA Types == TypeOK <=> PoolTypeOK /\ RestTypeOK
  BY DEF TypeOK, PoolTypeOK, RestTypeOK, Places, Holding

LEMMA InitPoolInv == Init => PoolInv
<1> SUFFICES ASSUME Init PROVE PoolInv
    OBVIOUS
<1>1. Elements(<<>>) = {}
  BY DEF Elements
<1>2. Held = {} /\ Queued = {}
  BY <1>1 DEF Init, Held, Queued
<1>3. PoolTypeOK
  BY DEF Init, PoolTypeOK, Places, Holding
<1>6. 0 \in 0 .. MaxRetries
  OBVIOUS
<1>7. RestTypeOK
  <2>1. <<>> \in Seq(Packets) /\ {} \subseteq Packets /\ "closed" \in {"closed", "open", "closing"}
        /\ TRUE \in BOOLEAN /\ FALSE \in BOOLEAN
    OBVIOUS
  <2> QED
    BY <1>6, <2>1 DEF Init, RestTypeOK
<1>4. OneOwner
  BY <1>2 DEF Init, OneOwner
<1>5. NoIdlePacket /\ Distinct /\ Waiting
  BY <1>1 DEF Init, NoIdlePacket, Distinct, Waiting
<1> QED
  BY <1>3, <1>4, <1>5, <1>7 DEF PoolInv

(* The steps of a writer *)

LEMMA AllocateInv ==
  ASSUME PoolInv, NEW w \in Writers, Allocate(w)
  PROVE  PoolInv'
<1>t. PoolTypeOK /\ RestTypeOK
  BY DEF PoolInv
<1>o. OneOwner /\ NoIdlePacket /\ Distinct /\ Waiting
  BY DEF PoolInv
<1>h. \A q \in Packets : q \in Held <=> \E v \in Writers : sendPacket[v] = q
  BY DEF Held
<1>h2. \A q \in Packets : q \in Held' <=> \E v \in Writers : sendPacket'[v] = q
  BY DEF Held
<1>s. /\ sent' = sent /\ released' = released /\ driver' = driver
      /\ Queued' = Queued /\ RestTypeOK' /\ Distinct'
  BY <1>t, <1>o DEF Allocate, tcp, Queued, RestTypeOK, Distinct
<1>i. pc[w] = "idle" /\ sendPacket[w] = NULL
  BY <1>t DEF Allocate, PoolTypeOK, Holding
<1>1. CASE available # {}
  <2>1. PICK p \in available :
          /\ available' = available \ {p}
          /\ sendPacket' = [sendPacket EXCEPT ![w] = p]
          /\ mark' = [mark EXCEPT ![p] = "ALLOCATED"]
          /\ txDone' = [txDone EXCEPT ![p] = FALSE]
          /\ pc' = [pc EXCEPT ![w] = "send"]
          /\ suspended' = suspended
    BY <1>1 DEF Allocate
  <2>2. p \in Packets /\ mark[p] = "FREE" /\ p \notin Queued /\ p \notin Held /\ p \notin driver
    BY <1>t, <1>o DEF PoolTypeOK, OneOwner
  <2>3. PoolTypeOK'
    BY <1>t, <2>1, <2>2 DEF PoolTypeOK, Places, Holding
  <2>4. OneOwner'
    <3> SUFFICES ASSUME NEW q \in Packets PROVE
          /\ q \in available' <=> mark'[q] = "FREE"
          /\ q \in Queued' <=> mark'[q] = "ENQUEUED"
          /\ q \in Held' => mark'[q] = "ALLOCATED" /\ q \notin driver'
          /\ \A u, v \in Writers : sendPacket'[u] = q /\ sendPacket'[v] = q => u = v
          /\ mark'[q] = "ALLOCATED" => q \in Held' \cup driver'
          /\ q \in available' => q \notin driver'
          /\ q \in Queued' => (txDone'[q] <=> q \notin driver')
        BY DEF OneOwner
    <3>1. CASE q = p
      BY <1>t, <1>o, <1>s, <1>h, <1>h2, <2>1, <2>2, <3>1 DEF OneOwner, PoolTypeOK
    <3>2. CASE q # p
      BY <1>t, <1>o, <1>s, <1>i, <1>h, <1>h2, <2>1, <2>2, <3>2 DEF OneOwner, PoolTypeOK
    <3> QED
      BY <3>1, <3>2
  <2>5. NoIdlePacket' /\ Waiting'
    BY <1>1, <1>t, <1>o, <1>i, <2>1 DEF NoIdlePacket, Waiting, PoolTypeOK
  <2> QED
    BY <1>s, <2>3, <2>4, <2>5 DEF PoolInv
<1>2. CASE available = {}
  <2>1. /\ suspended' = Append(suspended, w) /\ pc' = [pc EXCEPT ![w] = "suspended"]
        /\ UNCHANGED <<sendPacket, mark, txDone, available>>
    BY <1>2 DEF Allocate
  <2>2. w \notin Elements(suspended)
    BY <1>i, <1>o DEF Waiting
  <2>3. /\ suspended' \in Seq(Writers)
        /\ Elements(suspended') = Elements(suspended) \cup {w}
    BY <2>1, <1>t, ElementsAppend DEF PoolTypeOK
  <2>4. \A i, j \in 1 .. Len(suspended') : suspended'[i] = suspended'[j] => i = j
    <3>1. suspended \in Seq(Writers) /\ \A i, j \in 1 .. Len(suspended) : suspended[i] = suspended[j] => i = j
      BY <1>t, <1>o DEF PoolTypeOK, Waiting
    <3> QED
      BY <2>1, <2>2, <3>1, DistinctAppend
  <2>5. PoolTypeOK'
    BY <1>t, <1>i, <2>1, <2>3 DEF PoolTypeOK, Places, Holding
  <2>6. Waiting'
    BY <1>t, <1>o, <2>1, <2>3, <2>4 DEF Waiting, PoolTypeOK
  <2>7. Held' = Held
    BY <2>1 DEF Held
  <2>8. OneOwner' /\ NoIdlePacket'
    BY <1>2, <1>o, <1>s, <2>1, <2>7 DEF OneOwner, NoIdlePacket
  <2> QED
    BY <1>s, <2>5, <2>6, <2>8 DEF PoolInv
<1> QED
  BY <1>1, <1>2

(* Steps in which a writer keeps its packet, or has none to begin with *)
LEMMA KeepsPackets ==
  ASSUME PoolInv, RestTypeOK',
         pc' \in [Writers -> Places],
         \A w \in Writers : pc'[w] \in Holding <=> pc[w] \in Holding,
         \A w \in Writers : pc'[w] = "suspended" <=> pc[w] = "suspended",
         UNCHANGED <<sendPacket, mark, txDone, available, suspended, driver>>,
         Queued' = Queued, Distinct'
  PROVE  PoolInv'
<1>t. PoolTypeOK /\ OneOwner /\ NoIdlePacket /\ Waiting
  BY DEF PoolInv
<1>1. PoolTypeOK'
  BY <1>t DEF PoolTypeOK
<1>2. Waiting'
  BY <1>t DEF Waiting
<1>3. Held' = Held
  BY DEF Held
<1>4. OneOwner' /\ NoIdlePacket'
  BY <1>t, <1>3 DEF OneOwner, NoIdlePacket
<1> QED
  BY <1>1, <1>2, <1>4 DEF PoolInv

LEMMA SendInv ==
  ASSUME PoolInv, NEW w \in Writers, Send(w)
  PROVE  PoolInv'
<1> DEFINE p == sendPacket[w]
<1>t. PoolTypeOK /\ RestTypeOK
  BY DEF PoolInv
<1>o. OneOwner /\ NoIdlePacket /\ Distinct /\ Waiting
  BY DEF PoolInv
<1>h. \A q \in Packets : q \in Held <=> \E v \in Writers : sendPacket[v] = q
  BY DEF Held
<1>h2. \A q \in Packets : q \in Held' <=> \E v \in Writers : sendPacket'[v] = q
  BY DEF Held
<1>1. pc[w] \in Holding /\ p \in Packets
  BY <1>t DEF Send, Enqueue, PoolTypeOK, Holding
<1>2. mark[p] = "ALLOCATED" /\ p \notin Queued /\ p \notin driver /\ p \notin available
  BY <1>1, <1>h, <1>o DEF OneOwner
<1>3. /\ sent' = Append(sent, p) /\ sent' \in Seq(Packets) /\ released' = released
      /\ Elements(sent') = Elements(sent) \cup {p}
  BY <1>1, <1>t, ElementsAppend DEF Send, Enqueue, RestTypeOK
<1>4. Queued' = Queued \cup {p}
  BY <1>3 DEF Queued
<1>5. Distinct'
  <2>1. \A i, j \in 1 .. Len(sent') : sent'[i] = sent'[j] => i = j
    <3>1. sent \in Seq(Packets) /\ p \notin Elements(sent)
          /\ \A i, j \in 1 .. Len(sent) : sent[i] = sent[j] => i = j
      BY <1>t, <1>o, <1>2 DEF RestTypeOK, Distinct, Queued
    <3> HIDE DEF p
    <3> QED
      BY <1>1, <1>3, <3>1, DistinctAppend
  <2> QED
    BY <1>2, <1>3, <1>o, <2>1 DEF Distinct, Queued
<1>6. /\ mark' = [mark EXCEPT ![p] = "ENQUEUED"]
      /\ driver' = IF link THEN driver \cup {p} ELSE driver
      /\ txDone' = [txDone EXCEPT ![p] = ~link]
      /\ retries' \in {0, retries}
      /\ probing' = FALSE
      /\ UNCHANGED <<available, suspended, released, socket, link, window>>
      /\ sendPacket' = [sendPacket EXCEPT ![w] = NULL]
      /\ pc' = [pc EXCEPT ![w] = "idle"]
  BY DEF Send, Enqueue
<1>7. RestTypeOK'
  <2>1. retries' \in 0 .. MaxRetries
    BY <1>t, <1>6 DEF RestTypeOK
  <2>2. driver' \subseteq Packets
    BY <1>t, <1>1, <1>6 DEF RestTypeOK
  <2> QED
    BY <1>t, <1>3, <1>6, <2>1, <2>2 DEF RestTypeOK
<1>l. link \in BOOLEAN
  BY <1>t DEF RestTypeOK
<1> HIDE DEF p
<1>8. PoolTypeOK'
  BY <1>t, <1>1, <1>6, <1>l DEF PoolTypeOK, Places, Holding
<1>9. NoIdlePacket' /\ Waiting'
  BY <1>o, <1>t, <1>1, <1>6 DEF NoIdlePacket, Waiting, PoolTypeOK, Holding
<1>10. OneOwner'
  <2> SUFFICES ASSUME NEW q \in Packets PROVE
        /\ q \in available' <=> mark'[q] = "FREE"
        /\ q \in Queued' <=> mark'[q] = "ENQUEUED"
        /\ q \in Held' => mark'[q] = "ALLOCATED" /\ q \notin driver'
        /\ \A u, v \in Writers : sendPacket'[u] = q /\ sendPacket'[v] = q => u = v
        /\ mark'[q] = "ALLOCATED" => q \in Held' \cup driver'
        /\ q \in available' => q \notin driver'
        /\ q \in Queued' => (txDone'[q] <=> q \notin driver')
      BY DEF OneOwner
  <2>1. CASE q = p
    <3>1. q \notin Held'
      BY <1>1, <1>6, <1>h2, <1>o, <1>t, <2>1 DEF p, OneOwner, PoolTypeOK
    <3> QED
      BY <1>t, <1>1, <1>2, <1>4, <1>6, <1>l, <2>1, <3>1, <1>h2 DEF PoolTypeOK
  <2>2. CASE q # p
    <3>1. q \in Held' <=> q \in Held
      BY <1>h, <1>h2, <1>6, <1>t, <2>2 DEF p, PoolTypeOK
    <3>2. \A u, v \in Writers : sendPacket'[u] = q /\ sendPacket'[v] = q => u = v
      BY <1>6, <1>t, <1>o, <2>2 DEF PoolTypeOK, OneOwner
    <3> QED
      BY <1>t, <1>o, <1>4, <1>6, <2>2, <3>1, <3>2 DEF OneOwner, PoolTypeOK
  <2> QED
    BY <2>1, <2>2
<1> QED
  BY <1>5, <1>7, <1>8, <1>9, <1>10 DEF PoolInv

LEMMA ReleaseInv ==
  ASSUME PoolInv, NEW w \in Writers, Release(w)
  PROVE  PoolInv'
<1> DEFINE p == sendPacket[w]
           place == [pc EXCEPT ![w] = "idle"]
           held == [sendPacket EXCEPT ![w] = NULL]
<1>t. PoolTypeOK /\ RestTypeOK /\ OneOwner /\ NoIdlePacket /\ Distinct /\ Waiting
  BY DEF PoolInv
<1>1. pc[w] = "release" /\ p \in Packets
  BY <1>t DEF Release, PoolTypeOK, Holding
<1>2. p \in Held
  BY <1>1 DEF Held
<1>3. mark[p] = "ALLOCATED" /\ p \notin Queued /\ p \notin driver /\ p \notin available
  BY <1>1, <1>2, <1>t DEF OneOwner
<1>4. HandOver(p, place, held) /\ UNCHANGED <<sent, released, driver, tcp>>
  BY <1>3 DEF Release
<1>5. RestTypeOK' /\ Distinct' /\ Queued' = Queued \ {p} /\ driver' = driver \ {p}
  BY <1>3, <1>4, <1>t DEF RestTypeOK, Distinct, Queued, tcp
<1>6. place \in [Writers -> Places] /\ held \in [Writers -> Packets \cup {NULL}]
  BY <1>t DEF PoolTypeOK, Places
<1>7. \A v \in Writers : held[v] # NULL <=> place[v] \in Holding
  BY <1>t DEF PoolTypeOK, Holding
<1>8. \A v \in Writers : place[v] = "suspended" <=> pc[v] = "suspended"
  BY <1>1, <1>t DEF PoolTypeOK
<1>9. \A v \in Writers : /\ held[v] # p /\ held[v] \in {sendPacket[v], NULL}
                         /\ held[v] = sendPacket[v] \/ sendPacket[v] = p
  BY <1>1, <1>t DEF PoolTypeOK, OneOwner
<1> HIDE DEF p, place, held
<1> QED
  BY <1>1, <1>3, <1>4, <1>5, <1>6, <1>7, <1>8, <1>9, HandOverKeeps DEF PoolInv

LEMMA WriterInv ==
  ASSUME PoolInv, NEW w \in Writers, Allocate(w) \/ Transmit(w)
  PROVE  PoolInv'
<1>t. PoolTypeOK /\ RestTypeOK /\ Distinct
  BY DEF PoolInv
<1>1. CASE Allocate(w)
  BY <1>1, AllocateInv
<1>2. CASE Send(w)
  BY <1>2, SendInv
<1>3. CASE Release(w)
  BY <1>3, ReleaseInv
<1>4. CASE Refuse(w) \/ Stall(w)
  <2>1. /\ pc[w] \in Holding /\ pc' \in [Writers -> Places]
        /\ pc' = [pc EXCEPT ![w] = pc'[w]] /\ pc'[w] \in Holding
    BY <1>4, <1>t DEF Refuse, Stall, PoolTypeOK, Places, Holding
  <2>2. \A v \in Writers : /\ pc'[v] \in Holding <=> pc[v] \in Holding
                           /\ pc'[v] = "suspended" <=> pc[v] = "suspended"
    BY <2>1, <1>t DEF PoolTypeOK, Holding
  <2>3. UNCHANGED <<sendPacket, mark, txDone, available, suspended, driver, sent, released>>
    BY <1>4 DEF Refuse, Stall
  <2>4. RestTypeOK'
    BY <1>4, <1>t DEF Refuse, Stall, RestTypeOK, tcp
  <2>5. Queued' = Queued /\ Distinct'
    BY <2>3, <1>t DEF Queued, Distinct
  <2> QED
    BY <2>1, <2>2, <2>3, <2>4, <2>5, KeepsPackets
<1> QED
  BY <1>1, <1>2, <1>3, <1>4 DEF Transmit

(* The steps of the IP thread and the driver *)

LEMMA WalkInv ==
  ASSUME PoolInv, Walk
  PROVE  PoolInv'
<1> DEFINE p == Head(released)
<1>t. PoolTypeOK /\ RestTypeOK /\ OneOwner /\ NoIdlePacket /\ Distinct /\ Waiting
  BY DEF PoolInv
<1>1. released # <<>> /\ released' = Tail(released) /\ UNCHANGED <<sent, driver, tcp>>
  BY DEF Walk
<1>2. /\ p \in Elements(released) /\ released' \in Seq(Packets)
      /\ Elements(released') = Elements(released) \ {p}
      /\ \A i, j \in 1 .. Len(released') : released'[i] = released'[j] => i = j
  <2>1. released \in Seq(Packets)
        /\ \A i, j \in 1 .. Len(released) : released[i] = released[j] => i = j
    BY <1>t DEF RestTypeOK, Distinct
  <2> QED
    BY <1>1, <2>1, TailElements
<1>3. p \in Packets /\ p \notin Elements(sent)
  <2>1. released \in Seq(Packets) /\ Elements(sent) \cap Elements(released) = {}
    BY <1>t DEF RestTypeOK, Distinct
  <2>2. Elements(released) \subseteq Packets
    BY <2>1, ElementsIn
  <2> QED
    BY <1>2, <2>1, <2>2
<1>4. Queued' = Queued \ {p} /\ p \in Queued
  BY <1>1, <1>2, <1>3 DEF Queued
<1>5. RestTypeOK' /\ Distinct'
  BY <1>1, <1>2, <1>t DEF RestTypeOK, Distinct, tcp
<1>6. mark[p] = "ENQUEUED" /\ p \notin Held /\ p \notin available
  BY <1>3, <1>4, <1>t DEF OneOwner
<1> HIDE DEF p
<1>7. CASE txDone[p]
  <2>1. HandOver(p, pc, sendPacket)
    BY <1>7 DEF Walk, p
  <2>2. driver' = driver \ {p}
    BY <1>1, <1>3, <1>4, <1>7, <1>t DEF OneOwner
  <2>3. pc \in [Writers -> Places] /\ sendPacket \in [Writers -> Packets \cup {NULL}]
        /\ \A w \in Writers : sendPacket[w] # NULL <=> pc[w] \in Holding
    BY <1>t DEF PoolTypeOK
  <2>4. \A w \in Writers : sendPacket[w] # p
    BY <1>3, <1>6 DEF Held
  <2> QED
    BY <1>3, <1>4, <1>5, <1>6, <2>1, <2>2, <2>3, <2>4, HandOverKeeps DEF PoolInv
<1>8. CASE ~txDone[p]
  <2>1. /\ mark' = [mark EXCEPT ![p] = "ALLOCATED"]
        /\ UNCHANGED <<pc, sendPacket, txDone, available, suspended>>
    BY <1>8 DEF Walk, p
  <2>2. p \in driver
    BY <1>3, <1>4, <1>8, <1>t DEF OneOwner
  <2>3. Held' = Held
    BY <2>1 DEF Held
  <2>4. PoolTypeOK'
    BY <2>1, <1>t DEF PoolTypeOK
  <2>5. NoIdlePacket' /\ Waiting'
    BY <2>1, <1>t DEF NoIdlePacket, Waiting
  <2>6. OneOwner'
    BY <1>1, <1>3, <1>4, <1>6, <2>1, <2>2, <2>3, <1>t DEF OneOwner, PoolTypeOK
  <2> QED
    BY <1>5, <2>4, <2>5, <2>6 DEF PoolInv
<1> QED
  BY <1>7, <1>8

LEMMA TxDoneInv ==
  ASSUME PoolInv, NEW p \in Packets, TxDone(p)
  PROVE  PoolInv'
<1>t. PoolTypeOK /\ RestTypeOK /\ OneOwner /\ NoIdlePacket /\ Distinct /\ Waiting
  BY DEF PoolInv
<1>1. p \in driver /\ driver' = driver \ {p} /\ UNCHANGED <<sent, released, tcp>>
  BY DEF TxDone
<1>2. RestTypeOK' /\ Distinct' /\ Queued' = Queued
  BY <1>1, <1>t DEF RestTypeOK, Distinct, Queued, tcp
<1>3. p \notin available /\ p \notin Held /\ mark[p] # "FREE"
  BY <1>1, <1>t DEF OneOwner
<1>4. CASE mark[p] = "ENQUEUED"
  <2>1. /\ txDone' = [txDone EXCEPT ![p] = TRUE]
        /\ UNCHANGED <<pc, sendPacket, mark, available, suspended>>
    BY <1>4 DEF TxDone
  <2>2. Held' = Held
    BY <2>1 DEF Held
  <2>3. PoolTypeOK'
    BY <2>1, <1>t DEF PoolTypeOK
  <2>4. NoIdlePacket' /\ Waiting'
    BY <2>1, <1>t DEF NoIdlePacket, Waiting
  <2>5. OneOwner'
    BY <1>1, <1>2, <1>3, <1>4, <2>1, <2>2, <1>t DEF OneOwner, PoolTypeOK
  <2> QED
    BY <1>2, <2>3, <2>4, <2>5 DEF PoolInv
<1>5. CASE mark[p] = "ALLOCATED"
  <2>1. HandOver(p, pc, sendPacket)
    BY <1>5 DEF TxDone
  <2>2. pc \in [Writers -> Places] /\ sendPacket \in [Writers -> Packets \cup {NULL}]
        /\ \A w \in Writers : sendPacket[w] # NULL <=> pc[w] \in Holding
    BY <1>t DEF PoolTypeOK
  <2>3. \A w \in Writers : sendPacket[w] # p
    BY <1>3 DEF Held
  <2>4. Queued' = Queued \ {p}
    BY <1>2, <1>5, <1>t DEF OneOwner
  <2> QED
    BY <1>1, <1>2, <1>3, <2>1, <2>2, <2>3, <2>4, HandOverKeeps DEF PoolInv
<1> QED
  BY <1>3, <1>4, <1>5, <1>t DEF PoolTypeOK

(* The first n segments leave the queue. *)
LEMMA AckInv ==
  ASSUME PoolInv, NEW n \in 0 .. Len(sent), Ack(n)
  PROVE  PoolInv'
<1>t. PoolTypeOK /\ RestTypeOK /\ OneOwner /\ NoIdlePacket /\ Distinct /\ Waiting
  BY DEF PoolInv
<1>1. /\ released = <<>> /\ sent' = SubSeq(sent, n + 1, Len(sent))
      /\ released' = SubSeq(sent, 1, n)
      /\ retries' \in {retries, 0} /\ window' \in BOOLEAN
      /\ UNCHANGED <<pool, driver, socket, link, probing>>
  BY DEF Ack
<1>2. /\ sent' \in Seq(Packets) /\ released' \in Seq(Packets)
      /\ Elements(released') \cup Elements(sent') = Elements(sent) /\ Distinct'
  <2>1. sent \in Seq(Packets) /\ \A i, j \in 1 .. Len(sent) : sent[i] = sent[j] => i = j
    BY <1>t DEF RestTypeOK, Distinct
  <2> QED
    BY <1>1, <2>1, CutElements DEF Distinct
<1>3. Queued' = Queued
  <2>1. Elements(released) = {}
    BY <1>1 DEF Elements
  <2> QED
    BY <1>2, <2>1 DEF Queued
<1>4. RestTypeOK'
  <2>1. retries' \in 0 .. MaxRetries
    BY <1>1, <1>t DEF RestTypeOK
  <2> QED
    BY <1>1, <1>2, <2>1, <1>t DEF RestTypeOK
<1>5. /\ pc' \in [Writers -> Places] /\ pc' = pc
      /\ UNCHANGED <<sendPacket, mark, txDone, available, suspended, driver>>
  BY <1>1, <1>t DEF pool, PoolTypeOK
<1> QED
  BY <1>2, <1>3, <1>4, <1>5, KeepsPackets

(* The connection is gone: the whole queue is released. *)
LEMMA DropInv ==
  ASSUME PoolInv, Drop, released = <<>>
  PROVE  PoolInv'
<1>t. PoolTypeOK /\ RestTypeOK /\ Distinct
  BY DEF PoolInv
<1>1. /\ released' = sent /\ sent' = <<>> /\ socket' = "closed"
      /\ UNCHANGED <<sendPacket, mark, txDone, available, suspended, driver,
                     link, window, probing, retries>>
      /\ pc' = [w \in Writers |-> IF pc[w] = "stalled" THEN "release" ELSE pc[w]]
  BY DEF Drop
<1>2. pc' \in [Writers -> Places]
      /\ \A w \in Writers : /\ pc'[w] \in Holding <=> pc[w] \in Holding
                            /\ pc'[w] = "suspended" <=> pc[w] = "suspended"
  BY <1>1, <1>t DEF PoolTypeOK, Places, Holding
<1>3. RestTypeOK'
  BY <1>1, <1>t DEF RestTypeOK
<1>4. Queued' = Queued /\ Distinct'
  <2>1. Elements(<<>>) = {} /\ Len(<<>>) = 0
    BY DEF Elements
  <2> QED
    BY <1>1, <2>1, <1>t DEF Queued, Distinct
<1> QED
  BY <1>1, <1>2, <1>3, <1>4, KeepsPackets

(* The driver gets segments again that it is done with. *)
LEMMA RetransmitInv ==
  ASSUME PoolInv, NEW n \in 0 .. Len(sent), Retransmit(n)
  PROVE  PoolInv'
<1> DEFINE again == Elements(SubSeq(sent, 1, n))
<1>t. PoolTypeOK /\ RestTypeOK /\ OneOwner /\ NoIdlePacket /\ Distinct /\ Waiting
  BY DEF PoolInv
<1>1. /\ txDone' = [p \in Packets |-> IF p \in again THEN ~link ELSE txDone[p]]
      /\ driver' = IF link THEN driver \cup again ELSE driver
      /\ probing' = FALSE /\ retries' = OneMore
      /\ UNCHANGED <<pc, sendPacket, mark, available, suspended, sent, released,
                     socket, link, window>>
  BY DEF Retransmit
<1>2. again \subseteq Elements(sent) /\ Elements(sent) \subseteq Packets
      /\ again = {sent[i] : i \in 1 .. n}
  <2>1. sent \in Seq(Packets) /\ \A i, j \in 1 .. Len(sent) : sent[i] = sent[j] => i = j
    BY <1>t DEF RestTypeOK, Distinct
  <2> QED
    BY <2>1, CutElements, ElementsIn
<1>3. \A p \in again : txDone[p]
  BY <1>2 DEF Retransmit
<1> HIDE DEF again
<1>4. \A p \in again : p \in Packets /\ p \in Queued /\ p \notin driver /\ mark[p] = "ENQUEUED"
  BY <1>2, <1>3, <1>t DEF Queued, OneOwner
<1>5. RestTypeOK'
  <2>1. retries' \in 0 .. MaxRetries
    BY <1>1, <1>t DEF RestTypeOK, OneMore
  <2> QED
    BY <1>1, <1>2, <2>1, <1>t DEF RestTypeOK
<1>6. link \in BOOLEAN /\ PoolTypeOK'
  BY <1>1, <1>t DEF RestTypeOK, PoolTypeOK
<1>7. Held' = Held /\ Queued' = Queued /\ Distinct' /\ NoIdlePacket' /\ Waiting'
  BY <1>1, <1>t DEF Held, Queued, Distinct, NoIdlePacket, Waiting
<1>8. OneOwner'
  BY <1>1, <1>4, <1>6, <1>7, <1>t DEF OneOwner, PoolTypeOK
<1> QED
  BY <1>5, <1>6, <1>7, <1>8 DEF PoolInv

LEMMA NextPoolInv == PoolInv /\ [Next]_vars => PoolInv'
<1> SUFFICES ASSUME PoolInv, [Next]_vars PROVE PoolInv'
    OBVIOUS
<1>t. PoolTypeOK /\ RestTypeOK /\ Distinct
  BY DEF PoolInv
<1>1. ASSUME NEW w \in Writers, Allocate(w) \/ Transmit(w) PROVE PoolInv'
  BY <1>1, WriterInv
<1>2. CASE Walk
  BY <1>2, WalkInv
<1>3. CASE TimeOut \/ PeerResets
  BY <1>3, DropInv DEF TimeOut, PeerResets
<1>4. ASSUME NEW n \in 0 .. Len(sent), Retransmit(n) PROVE PoolInv'
  BY <1>4, RetransmitInv
<1>5. ASSUME NEW n \in 0 .. Len(sent), Ack(n) PROVE PoolInv'
  BY <1>5, AckInv
<1>6. ASSUME NEW p \in Packets, TxDone(p) PROVE PoolInv'
  BY <1>6, TxDoneInv
<1>7. CASE Probe \/ Connect \/ Disconnect \/ Closed \/ LinkChanges \/ UNCHANGED vars
  <2>1. UNCHANGED <<pool, sent, released, driver>>
    BY <1>7 DEF Probe, Connect, Disconnect, Closed, LinkChanges, vars, pool
  <2>2. retries' \in {retries, 0, OneMore}
    BY <1>7 DEF Probe, Connect, Disconnect, Closed, LinkChanges, vars
  <2>3. retries' \in 0 .. MaxRetries
    BY <2>2, <1>t DEF RestTypeOK, OneMore
  <2>4. /\ socket' \in {socket, "open", "closing", "closed"}
        /\ link' \in {link, ~link} /\ window' \in {window, TRUE}
        /\ probing' \in {probing, TRUE, FALSE}
    BY <1>7 DEF Probe, Connect, Disconnect, Closed, LinkChanges, vars
  <2>5. RestTypeOK'
    BY <2>1, <2>3, <2>4, <1>t DEF RestTypeOK
  <2>6. /\ UNCHANGED <<pc, sendPacket, mark, txDone, available, suspended, driver>>
        /\ Queued' = Queued /\ Distinct' /\ pc' \in [Writers -> Places]
    BY <2>1, <1>t DEF pool, Queued, Distinct, PoolTypeOK
  <2> QED
    BY <2>5, <2>6, KeepsPackets
<1> QED
  BY <1>1, <1>2, <1>3, <1>4, <1>5, <1>6, <1>7 DEF Next, Timer, Outside

-----------------------------------------------------------------------------

LEMMA Safe == Init /\ [][Next]_vars => []PoolInv
  BY InitPoolInv, NextPoolInv, PTL

(* The variables of the pool keep their types: a writer has a packet just  *)
(* while it is between the allocation and the send or the release, and the *)
(* retries stay within their maximum.                                      *)
THEOREM PoolTypeCorrect == Spec => []TypeOK
<1>1. PoolInv => TypeOK
  BY DEF PoolInv, TypeOK, PoolTypeOK, RestTypeOK, Places, Holding
<1> QED
  BY <1>1, Safe, PTL DEF Spec

(* However the writers, the IP thread, the timer, the driver and a reset   *)
(* fall together, no packet is released twice, none is lost to the pool,   *)
(* and none is written into while the DMA has it.                          *)
THEOREM EveryPacketHasOneOwner == Spec => []OneOwner
<1>1. PoolInv => OneOwner
  BY DEF PoolInv
<1> QED
  BY <1>1, Safe, PTL DEF Spec

(* A release resumes a writer that waits: none waits while there is a      *)
(* packet in the list, on any order of releases.                           *)
THEOREM NobodyWaitsForAFreePacket == Spec => []NoIdlePacket
<1>1. PoolInv => NoIdlePacket
  BY DEF PoolInv
<1> QED
  BY <1>1, Safe, PTL DEF Spec
=============================================================================
