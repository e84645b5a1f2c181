------------------------ MODULE MessageHandler_proofs ------------------------
(***************************************************************************)
(* Proofs about the message handler: how the pieces of messages go through *)
(* the queue and the buffers, for any peers and any texts, sizes of        *)
(* packets and buffers, and length of the queue.                           *)
(***************************************************************************)
EXTENDS MessageHandler, Recursion, SequenceTheorems

USE HandlerAssumption, UartRxAssumption

Results == [depth : Nat, objects : Seq(Entries), result : {"open", "array", "failed"}, count : Nat]

-----------------------------------------------------------------------------
(* Invariants *)

(* TypeOK is not inductive: main copies whole entries of the queue. *)
TypeInv ==
  /\ TypeOK
  /\ \A j \in 1 .. Len(messages) : Len(messages[j]) <= MessageSize
  /\ \A k \in 1 .. Len(sent) : IsEndOfMessage(sent[k])

(* The premises of ExecutedAsSent but one.  That no text leaves its array  *)
(* open concerns only what is carried out (Told), not how the pieces flow. *)
Calm == ~refused /\ ~mixed /\ \A k \in 1 .. Len(sent) : Len(sent[k]) <= BufferSize

Told(h) ==
  (\A k \in 1 .. h : JsonParse(sent[k]).result # "open") =>
    executed = Meanings(SubSeq(sent, 1, h))

(* A place in the stream of all that was sent: k texts and o tokens of the *)
(* next, which do not look like a whole one                                *)
Place(k, o) ==
  /\ k \in 0 .. Len(sent) /\ o \in Nat
  /\ o # 0 => k < Len(sent) /\ o < Len(sent[k + 1]) /\ ~EndsAt(sent[k + 1], o)

(* c is what follows the first o tokens of t, up to the e-th *)
Part(c, t, o, e) ==
  o <= e /\ Len(c) = e - o /\ \A i \in 1 .. Len(c) : c[i] = t[o + i]

(* c is t with leftovers of dataBuffer behind it *)
Covers(c, t) ==
  /\ Len(t) <= Len(c) /\ Len(c) <= DataSize
  /\ \A i \in 1 .. Len(t) : c[i] = t[i]
  /\ IsEndOfMessage(c)

(* The piece c leads from one place to another *)
Leads(c, k, o, k2, o2) ==
  /\ k < Len(sent)
  /\ \/ k2 = k /\ o < o2 /\ Part(c, sent[k + 1], o, o2)
     \/ /\ k2 = k + 1 /\ o2 = 0
        /\ Part(c, sent[k + 1], o, Len(sent[k + 1])) \/ (o = 0 /\ Covers(c, sent[k + 1]))

(* What is still to come behind the queue: nothing; the rest of a text on  *)
(* a socket; a message that the UART receives; one that its callback is *)
(* about to copy, perhaps with the next already begun.                     *)
OnlyFrom(s) == \A r \in Sources \ {s} : outbox[r] = <<>>

Nothing(k, o) ==
  /\ k = Len(sent) /\ o = 0
  /\ \A s \in Sources : outbox[s] = <<>>
  /\ filled = 0 /\ ~callback

OnSocket(s, k, o) ==
  /\ s # Uart /\ OnlyFrom(s) /\ outbox[s] # <<>>
  /\ filled = 0 /\ ~callback
  /\ k + 1 = Len(sent) /\ Part(outbox[s], sent[k + 1], o, Len(sent[k + 1]))

OnUart(k, o) ==
  /\ Uart \in Sources /\ OnlyFrom(Uart) /\ ~callback
  /\ k + 1 = Len(sent) /\ o = 0
  /\ Part(outbox[Uart], sent[k + 1], filled, Len(sent[k + 1]))
  /\ \A i \in 1 .. filled : dataBuffer[i] = sent[k + 1][i]

InCallback(k, o) ==
  /\ Uart \in Sources /\ OnlyFrom(Uart) /\ callback /\ filled = 0 /\ flags = {}
  /\ k < Len(sent) /\ o = 0 /\ Len(sent[k + 1]) <= DataSize
  /\ \A i \in 1 .. Len(sent[k + 1]) : dataBuffer[i] = sent[k + 1][i]
  /\ \/ k + 1 = Len(sent) /\ outbox[Uart] = <<>>
     \/ k + 2 = Len(sent) /\ outbox[Uart] = sent[k + 2]

Coming(k, o) ==
  Nothing(k, o) \/ (\E s \in Sources : OnSocket(s, k, o)) \/ OnUart(k, o) \/ InCallback(k, o)

(* dataBuffer is filled from its start, and what lies behind the message   *)
(* that is coming ends as the earlier ones did.                            *)
Filled(m) ==
  /\ \A i \in 1 .. DataSize : dataBuffer[i] # "nul" <=> i <= m
  /\ filled <= m /\ (m = DataSize => flags # {})
  /\ \A i \in 1 .. m : m < i + TermLen /\ filled < i => dataBuffer[i] = "cr"

(* K[j] and O[j]: the place behind the j-th piece of the queue; h and a:   *)
(* the place up to which main has come                                     *)
Follows(h, a, K, O) ==
  /\ K \in [0 .. Len(messages) -> Nat] /\ O \in [0 .. Len(messages) -> Nat]
  /\ \A j \in 0 .. Len(messages) : Place(K[j], O[j])
  /\ \A j \in 1 .. Len(messages) : Leads(messages[j], K[j - 1], O[j - 1], K[j], O[j])
  /\ Place(h, a)
  /\ IF message = <<>> THEN K[0] = h /\ O[0] = a ELSE Leads(message, h, a, K[0], O[0])
  /\ Part(stringBuffer, sent[h + 1], 0, a)
  /\ Told(h)
  /\ Coming(K[Len(messages)], O[Len(messages)])

Flowing ==
  /\ \E m \in 0 .. DataSize : Filled(m)
  /\ \E h, a, K, O : Follows(h, a, K, O)

FlowInv == Calm => Flowing

-----------------------------------------------------------------------------
(* The parser *)

LEMMA TokenType ==
  ASSUME NEW r \in Results, NEW x \in TempTokens
  PROVE  Token(r, x) \in Results
<1>1. /\ r.depth \in Nat /\ r.objects \in Seq(Entries) /\ r.count \in Nat
      /\ r.result \in {"open", "array", "failed"}
  BY DEF Results
<1> DEFINE next == [r EXCEPT !.count = @ + 1]
<1>2. next \in Results /\ next.depth = r.depth /\ next.objects = r.objects
  BY <1>1 DEF Results
<1> HIDE DEF next
<1>3. [next EXCEPT !.result = "failed"] \in Results  BY <1>2 DEF Results
<1>4. [next EXCEPT !.depth = @ + 1] \in Results  BY <1>1, <1>2 DEF Results
<1>5. ASSUME r.depth > 0
      PROVE  [next EXCEPT !.depth = @ - 1,
                !.result = IF r.depth = 1 THEN "array" ELSE "open"] \in Results
  <2> DEFINE d == next.depth - 1
             x2 == IF r.depth = 1 THEN "array" ELSE "open"
  <2>1. d \in Nat /\ x2 \in {"open", "array", "failed"}  BY <1>1, <1>2, <1>5
  <2> HIDE DEF x2
  <2>2. [next EXCEPT !.depth = d, !.result = x2] \in Results
    <3> HIDE DEF d
    <3> QED BY <1>2, <2>1 DEF Results
  <2> QED BY <2>2 DEF x2
<1>6. ASSUME x \in Entries
      PROVE  [next EXCEPT !.objects = IF r.depth = 1 THEN Append(@, x) ELSE @] \in Results
  <2> DEFINE o == IF r.depth = 1 THEN Append(next.objects, x) ELSE next.objects
  <2>1. o \in Seq(Entries)  BY <1>1, <1>2, <1>6
  <2>2. [next EXCEPT !.objects = o] \in Results
    <3> HIDE DEF o
    <3> QED BY <1>2, <2>1 DEF Results
  <2> QED BY <2>2
<1> QED BY <1>2, <1>3, <1>4, <1>5, <1>6 DEF Token, next

LEMMA Stopped ==
  ASSUME NEW r, NEW x, r.result # "open"
  PROVE  Token(r, x) = r
BY DEF Token

(* What JsonParse has made of the text after each of its tokens *)
Reads(f, t) ==
  /\ f \in [0 .. Len(t) -> Results]
  /\ f[0] = Start /\ \A n \in 1 .. Len(t) : f[n] = Token(f[n - 1], t[n])

ReadBy(f, t, N) == f = [n \in 0 .. N |-> IF n = 0 THEN Start ELSE Token(f[n - 1], t[n])]

LEMMA ReadSteps ==
  ASSUME NEW N \in Nat, NEW t, NEW f, ReadBy(f, t, N)
  PROVE  f[0] = Start /\ \A n \in 1 .. N : f[n] = Token(f[n - 1], t[n])
<1>1. ASSUME NEW n \in 0 .. N PROVE f[n] = IF n = 0 THEN Start ELSE Token(f[n - 1], t[n])
  BY DEF ReadBy
<1> QED BY <1>1

LEMMA ReadExists ==
  ASSUME NEW N \in Nat, NEW t, \A n \in 1 .. N : t[n] \in TempTokens
  PROVE  \E f : ReadBy(f, t, N)
<1> DEFINE step == [n \in 1 .. N |-> [r \in Results |-> Token(r, t[n])]]
<1>1. Start \in Results  BY DEF Start, Results
<1>2. StaysIn(Results, N, step)  BY TokenType DEF StaysIn
<1>3. PICK f \in [0 .. N -> Results] : GoesBy(f, N, Start, step)
  <2> HIDE DEF step
  <2>1. N \in Nat  OBVIOUS
  <2> QED BY ONLY <1>1, <1>2, <2>1, Recursively
<1>4. ASSUME NEW n \in 0 .. N PROVE f[n] = IF n = 0 THEN Start ELSE Token(f[n - 1], t[n])
  <2>1. CASE n = 0  BY <1>3, <2>1 DEF GoesBy
  <2>2. CASE n # 0
    <3>1. n \in 1 .. N /\ n - 1 \in 0 .. N  BY <2>2
    <3>2. f[n - 1] \in Results  BY <1>3, <3>1
    <3> QED BY <1>3, <2>2, <3>1, <3>2 DEF GoesBy
  <2> QED BY <2>1, <2>2
<1>5. ReadBy(f, t, N)  BY <1>3, <1>4 DEF ReadBy
<1> QED BY <1>5

LEMMA Parsing ==
  ASSUME NEW t \in Seq(TempTokens)
  PROVE  \E f : Reads(f, t) /\ JsonParse(t) = f[Len(t)]
<1> DEFINE N == Len(t)
           g == CHOOSE f : ReadBy(f, t, N)
<1>1. N \in Nat /\ \A n \in 1 .. N : t[n] \in TempTokens  OBVIOUS
<1>2. JsonParse(t) = g[N]  BY Zenon DEF JsonParse, ReadBy
<1> HIDE DEF N
<1>3. \E f : ReadBy(f, t, N)  BY <1>1, ReadExists
<1>4. ReadBy(g, t, N)  BY <1>3
<1> HIDE DEF g
<1>5. g[0] = Start /\ \A n \in 1 .. N : g[n] = Token(g[n - 1], t[n])
  BY <1>1, <1>4, ReadSteps
<1>6. \A n \in 0 .. N : g[n] \in Results
  <2> DEFINE S == {n \in 0 .. N : g[n] \in Results}
  <2>1. 0 \in S
    <3>1. Start \in Results  BY DEF Start, Results
    <3> QED BY <1>1, <1>5, <3>1
  <2>2. \A n \in 0 .. N : n \in S /\ n < N => n + 1 \in S
    <3> SUFFICES ASSUME NEW n \in 0 .. N, g[n] \in Results, n < N PROVE n + 1 \in S
      OBVIOUS
    <3>1. n + 1 \in 1 .. N /\ n + 1 \in 0 .. N /\ (n + 1) - 1 = n  BY <1>1
    <3>2. Token(g[n], t[n + 1]) \in Results  BY <1>1, <3>1, TokenType
    <3> QED BY <1>5, <3>1, <3>2
  <2>3. \A n \in 0 .. N : n \in S
    <3> HIDE DEF S
    <3> QED BY <1>1, <2>1, <2>2, UpTo
  <2> QED BY <2>3
<1>7. g \in [0 .. N -> Results]  BY <1>4, <1>6 DEF ReadBy
<1>8. Reads(g, t)  BY <1>5, <1>7 DEF Reads, N
<1> QED BY <1>2, <1>8 DEF N

LEMMA ParseType ==
  ASSUME NEW t \in Seq(TempTokens)
  PROVE  JsonParse(t) \in Results
<1>1. PICK f : Reads(f, t) /\ JsonParse(t) = f[Len(t)]  BY Parsing
<1> QED BY <1>1 DEF Reads

(* Once the parser has stopped, nothing that follows the text changes what *)
(* it has found.                                                           *)
LEMMA ParsePrefix ==
  ASSUME NEW t \in Seq(TempTokens), NEW u \in Seq(TempTokens), Len(t) <= Len(u),
         \A i \in 1 .. Len(t) : u[i] = t[i], JsonParse(t).result # "open"
  PROVE  JsonParse(u) = JsonParse(t)
<1>1. PICK f : Reads(f, t) /\ JsonParse(t) = f[Len(t)]  BY Parsing
<1>2. PICK g : Reads(g, u) /\ JsonParse(u) = g[Len(u)]  BY Parsing
<1> DEFINE N == Len(t)
           D == Len(u) - Len(t)
<1>3. N \in Nat /\ D \in Nat /\ Len(u) = N + D /\ Len(u) \in Nat  OBVIOUS
<1>4. /\ f[0] = Start /\ \A n \in 1 .. N : f[n] = Token(f[n - 1], t[n])
      /\ g[0] = Start /\ \A n \in 1 .. N + D : g[n] = Token(g[n - 1], u[n])
  BY <1>1, <1>2, <1>3 DEF Reads
<1>5. JsonParse(t) = f[N] /\ JsonParse(u) = g[N + D]  BY <1>1, <1>2, <1>3
<1>6. \A i \in 1 .. N : u[i] = t[i]  OBVIOUS
<1> HIDE DEF N, D
<1>7. \A n \in 0 .. N : g[n] = f[n]
  <2> DEFINE S == {n \in 0 .. N : g[n] = f[n]}
  <2>1. 0 \in S  BY <1>3, <1>4
  <2>2. \A n \in 0 .. N : n \in S /\ n < N => n + 1 \in S
    <3> SUFFICES ASSUME NEW n \in 0 .. N, g[n] = f[n], n < N PROVE n + 1 \in S
      OBVIOUS
    <3>1. n + 1 \in 1 .. N /\ n + 1 \in 0 .. N /\ n + 1 \in 1 .. N + D /\ (n + 1) - 1 = n
      BY <1>3
    <3> QED BY <1>4, <1>6, <3>1
  <2>3. \A n \in 0 .. N : n \in S
    <3> HIDE DEF S
    <3> QED BY <1>3, <2>1, <2>2, UpTo
  <2> QED BY <2>3
<1>8. f[N].result # "open" /\ f[N] = g[N]  BY <1>3, <1>5, <1>7
<1>9. \A d \in 0 .. D : g[N + d] = f[N]
  <2> DEFINE S == {d \in 0 .. D : g[N + d] = f[N]}
  <2>1. 0 \in S  BY <1>3, <1>8
  <2>2. \A d \in 0 .. D : d \in S /\ d < D => d + 1 \in S
    <3> SUFFICES ASSUME NEW d \in 0 .. D, g[N + d] = f[N], d < D PROVE d + 1 \in S
      OBVIOUS
    <3>1. /\ N + (d + 1) \in 1 .. N + D /\ (N + (d + 1)) - 1 = N + d /\ d + 1 \in 0 .. D
      BY <1>3
    <3>2. g[N + (d + 1)] = Token(g[N + d], u[N + (d + 1)])  BY <1>4, <3>1
    <3>3. Token(g[N + d], u[N + (d + 1)]) = g[N + d]
      <4>1. g[N + d].result # "open"  BY <1>8
      <4> QED BY <4>1, Stopped
    <3> QED BY <3>1, <3>2, <3>3
  <2>3. \A d \in 0 .. D : d \in S
    <3> HIDE DEF S
    <3> QED BY <1>3, <2>1, <2>2, UpTo
  <2> QED BY <2>3
<1> QED BY <1>3, <1>5, <1>9

-----------------------------------------------------------------------------
(* What a message says *)

PickedBy(f, o, N) ==
  f = [n \in 0 .. N |-> IF n = 0 THEN <<>>
                        ELSE IF o[n] \in Pins THEN Append(f[n - 1], o[n]) ELSE f[n - 1]]

LEMMA PickExists ==
  ASSUME NEW N \in Nat, NEW o, \A n \in 1 .. N : o[n] \in Entries
  PROVE  \E f \in [0 .. N -> Seq(Entries)] : PickedBy(f, o, N)
<1> DEFINE step == [n \in 1 .. N |-> [r \in Seq(Entries) |->
                      IF o[n] \in Pins THEN Append(r, o[n]) ELSE r]]
<1>1. <<>> \in Seq(Entries)  OBVIOUS
<1>2. StaysIn(Seq(Entries), N, step)  BY DEF StaysIn
<1>3. PICK f \in [0 .. N -> Seq(Entries)] : GoesBy(f, N, <<>>, step)
  <2> HIDE DEF step
  <2> QED BY <1>1, <1>2, Recursively
<1>4. ASSUME NEW n \in 0 .. N
      PROVE  f[n] = IF n = 0 THEN <<>>
                    ELSE IF o[n] \in Pins THEN Append(f[n - 1], o[n]) ELSE f[n - 1]
  <2>1. CASE n = 0  BY <1>3, <2>1 DEF GoesBy
  <2>2. CASE n # 0
    <3>1. n \in 1 .. N /\ n - 1 \in 0 .. N  BY <2>2
    <3>2. f[n - 1] \in Seq(Entries)  BY <1>3, <3>1
    <3> QED BY <1>3, <2>2, <3>1, <3>2 DEF GoesBy
  <2> QED BY <2>1, <2>2
<1>5. PickedBy(f, o, N)  BY <1>3, <1>4 DEF PickedBy
<1> QED BY <1>3, <1>5

LEMMA PickSteps ==
  ASSUME NEW N \in Nat, NEW o, NEW f, PickedBy(f, o, N)
  PROVE  /\ f[0] = <<>>
         /\ \A n \in 1 .. N : f[n] = IF o[n] \in Pins THEN Append(f[n - 1], o[n]) ELSE f[n - 1]
<1>1. ASSUME NEW n \in 0 .. N
      PROVE  f[n] = IF n = 0 THEN <<>>
                    ELSE IF o[n] \in Pins THEN Append(f[n - 1], o[n]) ELSE f[n - 1]
  BY DEF PickedBy
<1> QED BY <1>1

LEMMA CallsType ==
  ASSUME NEW o \in Seq(Entries)
  PROVE  Calls(o) \in Seq(Entries)
<1> DEFINE N == Len(o)
           g == CHOOSE f : PickedBy(f, o, N)
<1>1. N \in Nat /\ \A n \in 1 .. N : o[n] \in Entries  OBVIOUS
<1>2. PinsAmong(o) = g[N]  BY Zenon DEF PinsAmong, PickedBy
<1> HIDE DEF N
<1>3. PICK f \in [0 .. N -> Seq(Entries)] : PickedBy(f, o, N)  BY <1>1, PickExists
<1>4. PickedBy(g, o, N)  BY <1>3
<1> HIDE DEF g
<1>5. Alike(f, g, N)
  <2>1. /\ f[0] = <<>>
        /\ \A n \in 1 .. N : f[n] = IF o[n] \in Pins THEN Append(f[n - 1], o[n]) ELSE f[n - 1]
    BY <1>1, <1>3, PickSteps
  <2>2. /\ g[0] = <<>>
        /\ \A n \in 1 .. N : g[n] = IF o[n] \in Pins THEN Append(g[n - 1], o[n]) ELSE g[n - 1]
    BY <1>1, <1>4, PickSteps
  <2> QED BY <2>1, <2>2 DEF Alike
<1>6. f[N] = g[N]  BY <1>1, <1>5, Agree
<1>7. PinsAmong(o) \in Seq(Entries)  BY <1>1, <1>2, <1>3, <1>6
<1>8. \A c \in Commands : <<c>> \in Seq(Entries)  BY DEF Entries
<1>9. <<"StoreConfig">> \in Seq(Entries) /\ <<"ResetStorage">> \in Seq(Entries) /\ <<>> \in Seq(Entries)
  BY DEF Entries, Commands
<1> QED BY <1>7, <1>9 DEF Calls

LEMMA MeaningType ==
  ASSUME NEW t \in Seq(TempTokens)
  PROVE  Meaning(t) \in Seq(Entries)
<1>1. JsonParse(t).objects \in Seq(Entries)  BY ParseType DEF Results
<1> QED BY <1>1, CallsType DEF Meaning

SaidBy(f, q, N) ==
  f = [n \in 0 .. N |-> IF n = 0 THEN <<>>
                        ELSE IF IsArray(q[n]) THEN Append(f[n - 1], Meaning(q[n])) ELSE f[n - 1]]

(* What the first messages of q say, one after the other *)
Says(f, q, N) ==
  /\ f[0] = <<>>
  /\ \A n \in 1 .. N : f[n] = IF IsArray(q[n]) THEN Append(f[n - 1], Meaning(q[n])) ELSE f[n - 1]

LEMMA SaidSteps ==
  ASSUME NEW N \in Nat, NEW q, NEW f, SaidBy(f, q, N)
  PROVE  Says(f, q, N)
<1>1. ASSUME NEW n \in 0 .. N
      PROVE  f[n] = IF n = 0 THEN <<>>
                    ELSE IF IsArray(q[n]) THEN Append(f[n - 1], Meaning(q[n])) ELSE f[n - 1]
  BY DEF SaidBy
<1> QED BY <1>1 DEF Says

LEMMA SaidExists ==
  ASSUME NEW N \in Nat, NEW q, \A n \in 1 .. N : q[n] \in Seq(TempTokens)
  PROVE  \E f \in [0 .. N -> Seq(Seq(Entries))] : SaidBy(f, q, N)
<1> DEFINE R == Seq(Seq(Entries))
           step == [n \in 1 .. N |-> [r \in R |->
                      IF IsArray(q[n]) THEN Append(r, Meaning(q[n])) ELSE r]]
<1>1. <<>> \in R  OBVIOUS
<1>2. StaysIn(R, N, step)
  <2>1. \A n \in 1 .. N : Meaning(q[n]) \in Seq(Entries)  BY MeaningType
  <2> QED BY <2>1 DEF StaysIn
<1>3. PICK f \in [0 .. N -> R] : GoesBy(f, N, <<>>, step)
  <2> HIDE DEF step, R
  <2> QED BY <1>1, <1>2, Recursively
<1>4. ASSUME NEW n \in 0 .. N
      PROVE  f[n] = IF n = 0 THEN <<>>
                    ELSE IF IsArray(q[n]) THEN Append(f[n - 1], Meaning(q[n])) ELSE f[n - 1]
  <2>1. CASE n = 0  BY <1>3, <2>1 DEF GoesBy
  <2>2. CASE n # 0
    <3>1. n \in 1 .. N /\ n - 1 \in 0 .. N  BY <2>2
    <3>2. f[n - 1] \in R  BY <1>3, <3>1
    <3> QED BY <1>3, <2>2, <3>1, <3>2 DEF GoesBy
  <2> QED BY <2>1, <2>2
<1>5. SaidBy(f, q, N)  BY <1>3, <1>4 DEF SaidBy
<1> QED BY <1>3, <1>5

LEMMA Said ==
  ASSUME NEW q \in Seq(Seq(TempTokens))
  PROVE  \E f \in [0 .. Len(q) -> Seq(Seq(Entries))] :
            Says(f, q, Len(q)) /\ Meanings(q) = f[Len(q)]
<1> DEFINE N == Len(q)
           g == CHOOSE f : SaidBy(f, q, N)
<1>1. N \in Nat /\ \A n \in 1 .. N : q[n] \in Seq(TempTokens)  OBVIOUS
<1>2. Meanings(q) = g[N]  BY Zenon DEF Meanings, SaidBy
<1> HIDE DEF N
<1>3. PICK f \in [0 .. N -> Seq(Seq(Entries))] : SaidBy(f, q, N)  BY <1>1, SaidExists
<1>4. SaidBy(g, q, N)  BY <1>3
<1> HIDE DEF g
<1>5. Says(f, q, N) /\ Says(g, q, N)  BY <1>1, <1>3, <1>4, SaidSteps
<1>6. f[N] = g[N]
  <2>1. Alike(f, g, N)  BY <1>5 DEF Alike, Says
  <2> QED BY <1>1, <2>1, Agree
<1> QED BY <1>2, <1>3, <1>5, <1>6 DEF N

LEMMA MeaningsType ==
  ASSUME NEW q \in Seq(Seq(TempTokens))
  PROVE  Meanings(q) \in Seq(Seq(Entries))
<1>1. PICK f \in [0 .. Len(q) -> Seq(Seq(Entries))] : Meanings(q) = f[Len(q)]  BY Said
<1>2. Len(q) \in 0 .. Len(q)  OBVIOUS
<1> QED BY <1>1, <1>2

(* One message more says what it means, if it is an array. *)
LEMMA MeaningsUpTo ==
  ASSUME NEW q \in Seq(Seq(TempTokens)), NEW h \in 0 .. Len(q)
  PROVE  /\ h = 0 => Meanings(SubSeq(q, 1, h)) = <<>>
         /\ h < Len(q) =>
              Meanings(SubSeq(q, 1, h + 1)) =
                IF IsArray(q[h + 1]) THEN Append(Meanings(SubSeq(q, 1, h)), Meaning(q[h + 1]))
                                     ELSE Meanings(SubSeq(q, 1, h))
<1> DEFINE T == Seq(TempTokens)
           q1 == SubSeq(q, 1, h)
           q2 == SubSeq(q, 1, h + 1)
<1>1. q1 \in Seq(T) /\ Len(q1) = h /\ \A i \in 1 .. h : q1[i] = q[i]
  <2> HIDE DEF T
  <2> QED BY DEF T
<1>2. PICK f : Says(f, q1, h) /\ Meanings(q1) = f[h]
  <2> HIDE DEF q1
  <2> QED BY <1>1, Said
<1>3. ASSUME h = 0 PROVE Meanings(q1) = <<>>  BY <1>2, <1>3 DEF Says
<1>4. ASSUME h < Len(q)
      PROVE  Meanings(q2) = IF IsArray(q[h + 1]) THEN Append(Meanings(q1), Meaning(q[h + 1]))
                                                 ELSE Meanings(q1)
  <2>1. q2 \in Seq(T) /\ Len(q2) = h + 1 /\ \A i \in 1 .. h + 1 : q2[i] = q[i]
    BY <1>4
  <2>2. PICK g : Says(g, q2, h + 1) /\ Meanings(q2) = g[h + 1]
    <3> HIDE DEF q2
    <3> QED BY <2>1, Said
  <2> HIDE DEF q1, q2
  <2>3. h \in Nat /\ h + 1 \in 1 .. h + 1 /\ (h + 1) - 1 = h  OBVIOUS
  <2>4. f[h] = g[h]
    <3>1. ASSUME NEW n \in 1 .. h PROVE n \in 1 .. h + 1 /\ q1[n] = q2[n]
      <4>1. n \in 1 .. h + 1  BY <2>3
      <4>2. q1[n] = q[n]  BY <1>1
      <4>3. q2[n] = q[n]  BY <2>1, <4>1
      <4> QED BY <4>1, <4>2, <4>3
    <3>2. Alike(f, g, h)  BY <1>2, <2>2, <3>1 DEF Alike, Says
    <3>3. \A n \in 0 .. h : f[n] = g[n]  BY <2>3, <3>2, Agree
    <3> QED BY <2>3, <3>3
  <2>5. g[h + 1] = IF IsArray(q[h + 1]) THEN Append(g[h], Meaning(q[h + 1])) ELSE g[h]
    BY <2>1, <2>2, <2>3 DEF Says
  <2> QED BY <1>2, <2>2, <2>4, <2>5
<1> QED BY <1>3, <1>4

LEMMA PrefixAppend ==
  ASSUME NEW T, NEW a \in Seq(T), NEW b \in Seq(T), NEW m \in T, IsPrefix(a, b)
  PROVE  IsPrefix(a, Append(b, m))
<1>1. Len(a) <= Len(b) /\ SubSeq(a, 1, Len(a)) = SubSeq(b, 1, Len(a))  BY DEF IsPrefix
<1>2. Append(b, m) \in Seq(T) /\ Len(Append(b, m)) = Len(b) + 1  OBVIOUS
<1>3. SubSeq(Append(b, m), 1, Len(a)) = SubSeq(b, 1, Len(a))
  BY <1>1, <1>2
<1> QED BY <1>1, <1>2, <1>3 DEF IsPrefix

LEMMA MeaningsPrefix ==
  ASSUME NEW q \in Seq(Seq(TempTokens)), NEW h \in 0 .. Len(q)
  PROVE  IsPrefix(Meanings(SubSeq(q, 1, h)), Meanings(q))
<1> DEFINE D == Len(q) - h
           P(d) == Meanings(SubSeq(q, 1, h + d))
           S == {d \in 0 .. D : IsPrefix(P(0), P(d))}
<1>1. D \in Nat /\ h \in Nat  OBVIOUS
<1>2. \A d \in 0 .. D : P(d) \in Seq(Seq(Entries))
  <2> SUFFICES ASSUME NEW d \in 0 .. D PROVE P(d) \in Seq(Seq(Entries))  OBVIOUS
  <2>1. SubSeq(q, 1, h + d) \in Seq(Seq(TempTokens))  OBVIOUS
  <2> QED BY <2>1, MeaningsType
<1>3. \A d \in 0 .. D : d < D => \/ P(d + 1) = P(d)
                                 \/ P(d + 1) = Append(P(d), Meaning(q[h + d + 1]))
  <2> SUFFICES ASSUME NEW d \in 0 .. D, d < D
               PROVE  P(d + 1) = P(d) \/ P(d + 1) = Append(P(d), Meaning(q[h + d + 1]))
    OBVIOUS
  <2>1. h + d \in 0 .. Len(q) /\ h + d < Len(q) /\ (h + d) + 1 = h + (d + 1)  BY <1>1
  <2> QED BY <2>1, MeaningsUpTo
<1>4. \A d \in 0 .. D : d < D => Meaning(q[h + d + 1]) \in Seq(Entries)
  <2> SUFFICES ASSUME NEW d \in 0 .. D, d < D PROVE Meaning(q[h + d + 1]) \in Seq(Entries)
    OBVIOUS
  <2>1. q[h + d + 1] \in Seq(TempTokens)  BY <1>1
  <2> QED BY <2>1, MeaningType
<1>5. 0 \in 0 .. D /\ D \in 0 .. D /\ h + D = Len(q) /\ h + 0 = h  BY <1>1
<1> HIDE DEF P, D
<1>6. 0 \in S  BY <1>2, <1>5 DEF IsPrefix
<1>7. \A d \in 0 .. D : d \in S /\ d < D => d + 1 \in S
  <2> SUFFICES ASSUME NEW d \in 0 .. D, IsPrefix(P(0), P(d)), d < D PROVE d + 1 \in S
    OBVIOUS
  <2>1. d + 1 \in 0 .. D  BY <1>1
  <2> DEFINE a == P(0)
             b == P(d)
             m == Meaning(q[h + d + 1])
  <2>2. a \in Seq(Seq(Entries)) /\ b \in Seq(Seq(Entries)) /\ m \in Seq(Entries) /\ IsPrefix(a, b)
    BY <1>2, <1>4, <1>5
  <2>3. P(d + 1) = b \/ P(d + 1) = Append(b, m)  BY <1>3
  <2> HIDE DEF a, b, m
  <2>4. IsPrefix(a, Append(b, m))  BY <2>2, PrefixAppend
  <2> QED BY <2>1, <2>2, <2>3, <2>4 DEF a
<1>8. D \in S
  <2>1. \A d \in 0 .. D : d \in S
    <3> HIDE DEF S
    <3> QED BY <1>1, <1>6, <1>7, UpTo
  <2> QED BY <1>5, <2>1
<1>9. P(D) = Meanings(q) /\ P(0) = Meanings(SubSeq(q, 1, h))
  BY <1>5, SubSeqFull DEF P
<1> QED BY <1>8, <1>9

-----------------------------------------------------------------------------
(* Types *)

LEMMA MinOfTwo ==
  ASSUME NEW a \in Nat, NEW b \in Nat
  PROVE  /\ Min({a, b}) \in Nat /\ Min({a, b}) <= a /\ Min({a, b}) <= b
         /\ Min({a, b}) = a \/ Min({a, b}) = b
<1>1. \E x \in {a, b} : \A y \in {a, b} : x <= y  OBVIOUS
<1> DEFINE m == CHOOSE x \in {a, b} : \A y \in {a, b} : x <= y
<1>2. m \in {a, b} /\ \A y \in {a, b} : m <= y  BY <1>1
<1>3. Min({a, b}) = m  BY DEF Min
<1> QED BY <1>2, <1>3

LEMMA TokensArePushed ==
  /\ Seq(Tokens) \subseteq Seq(Pushed) /\ Seq(Pushed) \subseteq Seq(TempTokens)
  /\ Seq(Tokens) \subseteq Seq(TempTokens)
BY DEF Pushed, TempTokens

LEMMA TextType ==
  ASSUME NEW s \in Sources, NEW t \in Texts[s]
  PROVE  t \in Seq(Tokens) /\ t # <<>> /\ Len(t) \in Nat \ {0}
BY DEF HandlerAssumption

LEMMA TextEnds ==
  ASSUME NEW s \in Sources, NEW t \in Texts[s]
  PROVE  IsEndOfMessage(t)
<1>1. Len(t) \in 1 .. Len(t)  BY TextType
<1> QED BY <1>1, TextsAssumption DEF TextsAssumption, IsEndOfMessage

LEMMA NoNul == "nul" \notin Tokens /\ "junk" \notin Tokens
  BY DEF HandlerAssumption, Tokens, Entries, Commands

(* What the callback of the UART pushes fits a Message. *)
LEMMA LineFits ==
  ASSUME RxTypeOK(Tokens)
  PROVE  Line \in Seq(Pushed) /\ Len(Line) <= MessageSize
<1> DEFINE nuls == {i \in 1 .. DataSize : dataBuffer[i] = "nul"}
           first == CHOOSE i \in nuls : \A j \in nuls : i <= j
<1>1. /\ dataBuffer \in [1 .. DataSize -> Tokens \cup {"nul"}]
      /\ DataSize \in Nat /\ MessageSize \in Nat /\ DataSize < MessageSize
  BY DEF RxTypeOK, UartRxAssumption, HandlerAssumption
<1>2. CASE nuls = {}
  <2>1. dataBuffer \in [1 .. DataSize -> Tokens]  BY <1>1, <1>2
  <2>2. dataBuffer \in Seq(Pushed) /\ Len(dataBuffer) = DataSize  BY <1>1, <2>1 DEF Pushed
  <2>3. Append(dataBuffer, "junk") \in Seq(Pushed) /\ Len(Append(dataBuffer, "junk")) = DataSize + 1
    BY <2>2 DEF Pushed
  <2>4. Line = Append(dataBuffer, "junk")  BY <1>2 DEF Line
  <2> QED BY <1>1, <2>3, <2>4
<1>3. CASE nuls # {}
  <2>1. \E i \in nuls : \A j \in nuls : i <= j
    <3>1. nuls \subseteq Nat  OBVIOUS
    <3> HIDE DEF nuls
    <3> QED BY <1>3, <3>1, NatMin
  <2>2. first \in nuls /\ \A j \in nuls : first <= j  BY <2>1
  <2>3. Line = SubSeq(dataBuffer, 1, first - 1)  BY <1>3 DEF Line
  <2>4. first \in 1 .. DataSize  BY <2>2
  <2>5. \A i \in 1 .. first - 1 : dataBuffer[i] \in Pushed
    <3> SUFFICES ASSUME NEW i \in 1 .. first - 1 PROVE dataBuffer[i] \in Pushed  OBVIOUS
    <3>1. i \in 1 .. DataSize /\ ~(first <= i)  BY <1>1, <2>4
    <3>2. i \notin nuls  BY <2>2, <3>1
    <3> QED BY <1>1, <3>1, <3>2 DEF Pushed
  <2> HIDE DEF first
  <2>6. first - 1 \in Int /\ 1 \in Int  BY <1>1, <2>4
  <2>7. /\ SubSeq(dataBuffer, 1, first - 1) \in Seq(Pushed)
        /\ Len(SubSeq(dataBuffer, 1, first - 1)) =
             IF 1 <= first - 1 THEN first - 1 - 1 + 1 ELSE 0
    BY <2>5, <2>6, SubSeqProperties
  <2> QED BY <1>1, <2>3, <2>4, <2>7
<1> QED BY <1>2, <1>3

QueueType ==
  /\ messages \in Seq(Seq(Pushed)) /\ Len(messages) <= Capacity
  /\ \A j \in 1 .. Len(messages) : Len(messages[j]) <= MessageSize

SentType ==
  /\ sent \in Seq(Seq(Tokens)) /\ begun \in 0 .. MaxMessages /\ Len(sent) <= begun
  /\ \A k \in 1 .. Len(sent) : IsEndOfMessage(sent[k])

LEMMA SentTypeKept ==
  ASSUME TypeInv, sent' = sent, begun' = begun
  PROVE  SentType'
<1>1. SentType  BY DEF TypeInv, TypeOK, SentType
<1> QED BY <1>1 DEF SentType

LEMMA PushType ==
  ASSUME NEW c \in Seq(Pushed), Len(c) <= MessageSize, TypeInv, Push(c)
  PROVE  QueueType'
<1> USE DEF QueueType
<1>1. /\ messages \in Seq(Seq(Pushed)) /\ Len(messages) <= Capacity
      /\ \A j \in 1 .. Len(messages) : Len(messages[j]) <= MessageSize
      /\ Capacity \in Nat
  BY DEF TypeInv, TypeOK, HandlerAssumption
<1>2. CASE Len(messages) < Capacity
  <2>1. messages' = Append(messages, c)  BY <1>2 DEF Push
  <2>2. messages' \in Seq(Seq(Pushed)) /\ Len(messages') = Len(messages) + 1  BY <1>1, <2>1
  <2>3. \A j \in 1 .. Len(messages') : Len(messages'[j]) <= MessageSize  BY <1>1, <2>1, <2>2
  <2> QED BY <1>1, <1>2, <2>2, <2>3
<1>3. CASE ~(Len(messages) < Capacity)
  BY <1>1, <1>3 DEF Push
<1> QED BY <1>2, <1>3

LEMMA InitTypeInv == Init => TypeInv
<1> SUFFICES ASSUME Init PROVE TypeInv  OBVIOUS
<1>1. /\ outbox = [s \in Sources |-> <<>>] /\ messages = <<>> /\ message = <<>>
      /\ stringBuffer = <<>> /\ tempBuffer = [i \in 1 .. TempSize |-> "nul"]
      /\ begun = 0 /\ sent = <<>> /\ executed = <<>> /\ ended = 0
      /\ refused = FALSE /\ dropped = FALSE /\ mixed = FALSE
  BY DEF Init
<1>2. RxTypeOK(Tokens)
  <2>1. /\ dataBuffer = [i \in 1 .. DataSize |-> "nul"] /\ filled = 0 /\ flags = {} /\ callback = FALSE
    BY DEF Init, RxInit
  <2>2. DataSize \in Nat  BY DEF UartRxAssumption
  <2>3. dataBuffer \in [1 .. DataSize -> Tokens \cup {"nul"}]  BY <2>1
  <2>4. callback \in BOOLEAN  BY <2>1
  <2>5. filled \in 0 .. DataSize /\ flags \subseteq {"HT", "TC"}  BY <2>1, <2>2
  <2> QED BY <2>3, <2>4, <2>5 DEF RxTypeOK
<1>3. /\ Capacity \in Nat /\ MessageSize \in Nat /\ BufferSize \in Nat \ {0} /\ MaxMessages \in Nat
  BY DEF HandlerAssumption
<1>4. tempBuffer \in [1 .. TempSize -> TempTokens]  BY <1>1 DEF TempTokens
<1>5. outbox \in [Sources -> Seq(Tokens)]  BY <1>1
<1>6. {refused, dropped, mixed} \subseteq BOOLEAN  BY <1>1
<1> QED BY <1>1, <1>2, <1>3, <1>4, <1>5, <1>6 DEF TypeInv, TypeOK

(* The peers and the line change the variables of main in nothing.         *)
LEMMA PeerType ==
  ASSUME TypeInv, UNCHANGED handlerVars,
         outbox' \in [Sources -> Seq(Tokens)],
         QueueType', SentType',
         refused' \in BOOLEAN, mixed' \in BOOLEAN, RxTypeOK(Tokens)'
  PROVE  TypeInv'
<1>1. /\ message' = message /\ stringBuffer' = stringBuffer /\ tempBuffer' = tempBuffer
      /\ executed' = executed /\ ended' = ended /\ dropped' = dropped
  BY DEF handlerVars
<1>2. dropped \in BOOLEAN  BY DEF TypeInv, TypeOK
<1>3. {refused', dropped', mixed'} \subseteq BOOLEAN  BY <1>1, <1>2
<1> QED BY <1>1, <1>3 DEF TypeInv, TypeOK, QueueType, SentType

LEMMA HandlerType ==
  ASSUME TypeInv, UNCHANGED peerVars,
         QueueType',
         message' \in Seq(Pushed), Len(message') <= MessageSize,
         stringBuffer' \in Seq(Pushed), Len(stringBuffer') < BufferSize,
         tempBuffer' \in [1 .. TempSize -> TempTokens],
         executed' \in Seq(Seq(Entries)), ended' \in Nat, dropped' \in BOOLEAN
  PROVE  TypeInv'
<1>1. /\ outbox' = outbox /\ begun' = begun /\ sent' = sent
      /\ refused' = refused /\ mixed' = mixed
      /\ dataBuffer' = dataBuffer /\ filled' = filled /\ flags' = flags /\ callback' = callback
  BY DEF peerVars, rxVars
<1>2. refused \in BOOLEAN /\ mixed \in BOOLEAN /\ RxTypeOK(Tokens)  BY DEF TypeInv, TypeOK
<1>3. {refused', dropped', mixed'} \subseteq BOOLEAN  BY <1>1, <1>2
<1>4. RxTypeOK(Tokens)'  BY <1>1, <1>2 DEF RxTypeOK
<1>5. SentType'  BY <1>1, SentTypeKept
<1> QED BY <1>1, <1>3, <1>4, <1>5 DEF TypeInv, TypeOK, QueueType, SentType

LEMMA CopiedType ==
  ASSUME NEW b \in Seq(Pushed), Len(b) <= TempSize, tempBuffer \in [1 .. TempSize -> TempTokens]
  PROVE  /\ Copied(b) \in Seq(TempTokens) /\ Len(Copied(b)) = TempSize
         /\ \A i \in 1 .. Len(b) : Copied(b)[i] = b[i]
<1>1. TempSize \in Nat /\ Len(b) \in Nat  BY DEF HandlerAssumption
<1>2. b \in Seq(TempTokens)  BY TokensArePushed
<1> DEFINE u == SubSeq(tempBuffer, Len(b) + 1, TempSize)
<1>3. u \in Seq(TempTokens) /\ Len(u) = TempSize - Len(b)
  <2>1. \A i \in Len(b) + 1 .. TempSize : tempBuffer[i] \in TempTokens  BY <1>1
  <2>2. Len(b) + 1 \in Int /\ TempSize \in Int  BY <1>1
  <2>3. /\ u \in Seq(TempTokens)
        /\ Len(u) = IF Len(b) + 1 <= TempSize THEN TempSize - (Len(b) + 1) + 1 ELSE 0
    BY <2>1, <2>2, SubSeqProperties
  <2> QED BY <1>1, <2>3
<1> HIDE DEF u
<1>4. /\ b \o u \in Seq(TempTokens) /\ Len(b \o u) = Len(b) + Len(u)
      /\ \A i \in 1 .. Len(b) + Len(u) : (b \o u)[i] = IF i <= Len(b) THEN b[i] ELSE u[i - Len(b)]
  BY <1>2, <1>3, ConcatProperties
<1>5. Copied(b) = b \o u  BY DEF Copied, u
<1> QED BY <1>1, <1>3, <1>4, <1>5

LEMMA ScannedType ==
  ASSUME NEW t \in Seq(TempTokens), Len(t) = TempSize
  PROVE  Scanned(t) \in [1 .. TempSize -> TempTokens]
BY DEF Scanned, TempTokens

LEMMA AssembledType ==
  ASSUME TypeInv
  PROVE  /\ Assembled \in Seq(Pushed) /\ Len(Assembled) = Len(stringBuffer) + Len(message)
         /\ \A i \in 1 .. Len(Assembled) :
              Assembled[i] = IF i <= Len(stringBuffer) THEN stringBuffer[i]
                                                       ELSE message[i - Len(stringBuffer)]
         /\ Len(stringBuffer) \in Nat /\ Len(message) \in Nat
<1>1. stringBuffer \in Seq(Pushed) /\ message \in Seq(Pushed)  BY DEF TypeInv, TypeOK
<1> QED BY <1>1, ConcatProperties DEF Assembled

(* What is common to the two ways to begin a message *)
LEMMA BeginsType ==
  ASSUME TypeInv, NEW s \in Sources, NEW t \in Texts[s], Begins(s, t), SentType'
  PROVE  TypeInv'
<1>1. /\ outbox \in [Sources -> Seq(Tokens)] /\ mixed \in BOOLEAN /\ refused \in BOOLEAN
      /\ QueueType /\ RxTypeOK(Tokens)
  BY DEF TypeInv, TypeOK, QueueType
<1>2. /\ outbox' = [outbox EXCEPT ![s] = @ \o t]
      /\ mixed' = (mixed \/ Mixes(s))
      /\ messages' = messages /\ refused' = refused /\ UNCHANGED handlerVars
      /\ dataBuffer' = dataBuffer /\ filled' = filled /\ flags' = flags /\ callback' = callback
  BY DEF Begins, rxVars
<1>3. outbox' \in [Sources -> Seq(Tokens)]
  <2>1. outbox[s] \o t \in Seq(Tokens)  BY <1>1, TextType, ConcatProperties
  <2> QED BY <1>1, <1>2, <2>1
<1>4. mixed' \in BOOLEAN /\ refused' \in BOOLEAN  BY <1>1, <1>2
<1>5. QueueType'  BY <1>1, <1>2 DEF QueueType
<1>6. RxTypeOK(Tokens)'  BY <1>1, <1>2 DEF RxTypeOK
<1> QED BY <1>2, <1>3, <1>4, <1>5, <1>6, PeerType

LEMMA BeginType ==
  ASSUME TypeInv, NEW s \in Sources, NEW t \in Texts[s], Begin(s, t)
  PROVE  TypeInv'
<1>1. Begins(s, t) /\ sent' = Append(sent, t)  BY DEF Begin
<1>2. begun < MaxMessages /\ begun' = begun + 1  BY <1>1 DEF Begins
<1>3. /\ sent \in Seq(Seq(Tokens)) /\ begun \in 0 .. MaxMessages /\ Len(sent) <= begun
      /\ MaxMessages \in Nat
      /\ \A k \in 1 .. Len(sent) : IsEndOfMessage(sent[k])
  BY DEF TypeInv, TypeOK, HandlerAssumption
<1>4. t \in Seq(Tokens) /\ IsEndOfMessage(t)  BY TextType, TextEnds
<1>5. /\ sent' \in Seq(Seq(Tokens)) /\ Len(sent') = Len(sent) + 1 /\ sent'[Len(sent) + 1] = t
      /\ \A k \in 1 .. Len(sent) : sent'[k] = sent[k]
  BY <1>1, <1>3, <1>4, AppendProperties
<1>6. \A k \in 1 .. Len(sent') : IsEndOfMessage(sent'[k])
  <2> SUFFICES ASSUME NEW k \in 1 .. Len(sent') PROVE IsEndOfMessage(sent'[k])  OBVIOUS
  <2>1. k \in 1 .. Len(sent) \/ k = Len(sent) + 1  BY <1>3, <1>5
  <2> QED BY <1>3, <1>4, <1>5, <2>1
<1>7. begun' \in 0 .. MaxMessages /\ Len(sent') <= begun'  BY <1>2, <1>3, <1>5
<1>8. SentType'  BY <1>5, <1>6, <1>7 DEF SentType
<1> QED BY <1>1, <1>8, BeginsType

(* The end of s \o t is that of t *)
LEMMA JoinedEnds ==
  ASSUME NEW s \in Seq(Tokens), NEW t \in Seq(Tokens), IsEndOfMessage(t)
  PROVE  IsEndOfMessage(s \o t)
<1>1. /\ s \o t \in Seq(Tokens) /\ Len(s \o t) = Len(s) + Len(t)
      /\ \A i \in 1 .. Len(s) + Len(t) : (s \o t)[i] = IF i <= Len(s) THEN s[i] ELSE t[i - Len(s)]
  BY ConcatProperties
<1>2. Len(t) >= TermLen /\ \A i \in Len(t) - TermLen + 1 .. Len(t) : t[i] = "cr"
  BY DEF IsEndOfMessage, EndsAt
<1>3. Len(s) \in Nat /\ Len(t) \in Nat /\ TermLen \in Nat \ {0}  BY DEF HandlerAssumption
<1>4. PICK u : u = s \o t  OBVIOUS
<1>5. ASSUME NEW i \in Len(u) - TermLen + 1 .. Len(u) PROVE u[i] = "cr"
  <2>1. /\ i \in 1 .. Len(s) + Len(t) /\ ~(i <= Len(s))
        /\ i - Len(s) \in Len(t) - TermLen + 1 .. Len(t)
    BY <1>1, <1>2, <1>3, <1>4
  <2> QED BY <1>1, <1>2, <1>4, <2>1
<1>6. Len(u) >= TermLen  BY <1>1, <1>2, <1>3, <1>4
<1> QED BY <1>4, <1>5, <1>6 DEF IsEndOfMessage, EndsAt

Joins(t) == sent' = [sent EXCEPT ![Len(sent)] = @ \o t]

LEMMA JoinedText ==
  ASSUME TypeInv, NEW t \in Seq(Tokens), Joins(t)
  PROVE  /\ sent' \in Seq(Seq(Tokens)) /\ Len(sent') = Len(sent) /\ Len(sent) \in Nat
         /\ \A k \in 1 .. Len(sent) :
              sent[k] \in Seq(Tokens) /\ sent'[k] = IF k = Len(sent) THEN sent[k] \o t ELSE sent[k]
<1>1. sent \in Seq(Seq(Tokens)) /\ Len(sent) \in Nat  BY DEF TypeInv, TypeOK
<1>2. PICK n : n = Len(sent)  OBVIOUS
<1>3. n \in Nat /\ sent \in [1 .. n -> Seq(Tokens)]  BY <1>1, <1>2
<1>4. \A k \in 1 .. n : sent'[k] = IF k = n THEN sent[k] \o t ELSE sent[k]
  BY <1>2, <1>3 DEF Joins
<1>5. \A k \in 1 .. n : sent'[k] \in Seq(Tokens)
  <2>1. \A k \in 1 .. n : sent[k] \o t \in Seq(Tokens)  BY <1>3, ConcatProperties
  <2> QED BY <1>3, <1>4, <2>1
<1>6. sent' \in [1 .. n -> Seq(Tokens)]
  <2>1. DOMAIN sent' = 1 .. n /\ sent' = [k \in DOMAIN sent' |-> sent'[k]]
    BY <1>3 DEF Joins
  <2> QED BY <1>5, <2>1
<1>7. sent' \in Seq(Seq(Tokens)) /\ Len(sent') = n  BY <1>3, <1>6
<1> QED BY <1>1, <1>2, <1>3, <1>4, <1>7

LEMMA BeginBehindType ==
  ASSUME TypeInv, NEW s \in Sources, NEW t \in Texts[s], BeginBehind(s, t)
  PROVE  TypeInv'
<1>1. Begins(s, t) /\ Joins(t)  BY DEF BeginBehind, Joins
<1>2. begun < MaxMessages /\ begun' = begun + 1  BY <1>1 DEF Begins
<1>3. /\ begun \in 0 .. MaxMessages /\ Len(sent) <= begun /\ MaxMessages \in Nat
      /\ \A k \in 1 .. Len(sent) : IsEndOfMessage(sent[k])
  BY DEF TypeInv, TypeOK, HandlerAssumption
<1>4. t \in Seq(Tokens) /\ IsEndOfMessage(t)  BY TextType, TextEnds
<1>5. /\ sent' \in Seq(Seq(Tokens)) /\ Len(sent') = Len(sent) /\ Len(sent) \in Nat
      /\ \A k \in 1 .. Len(sent) :
           sent[k] \in Seq(Tokens) /\ sent'[k] = IF k = Len(sent) THEN sent[k] \o t ELSE sent[k]
  BY <1>1, <1>4, JoinedText
<1>6. \A k \in 1 .. Len(sent') : IsEndOfMessage(sent'[k])  BY <1>3, <1>4, <1>5, JoinedEnds
<1>7. begun' \in 0 .. MaxMessages /\ Len(sent') <= begun'  BY <1>2, <1>3, <1>5
<1>8. SentType'  BY <1>5, <1>6, <1>7 DEF SentType
<1> QED BY <1>1, <1>8, BeginsType

LEMMA ReceivedType ==
  ASSUME TypeInv, NEW s \in Sources, NEW n \in PacketSizes, Received(s, n)
  PROVE  TypeInv'
<1> DEFINE length == Min({n, Len(outbox[s])})
           cut == Min({length, MessageSize})
           c == SubSeq(outbox[s], 1, cut)
<1>1. /\ outbox \in [Sources -> Seq(Tokens)] /\ mixed \in BOOLEAN /\ refused \in BOOLEAN
      /\ RxTypeOK(Tokens)
  BY DEF TypeInv, TypeOK
<1>2. n \in Nat /\ MessageSize \in Nat /\ Len(outbox[s]) \in Nat /\ outbox[s] \in Seq(Tokens)
  <2>1. n \in Nat /\ MessageSize \in Nat  BY DEF HandlerAssumption
  <2>2. outbox[s] \in Seq(Tokens)  BY <1>1
  <2> QED BY <2>1, <2>2
<1>3. length \in Nat /\ length <= Len(outbox[s])  BY <1>2, MinOfTwo
<1>4. cut \in Nat /\ cut <= length /\ cut <= MessageSize
  <2> HIDE DEF length
  <2> QED BY <1>2, <1>3, MinOfTwo
<1>5. /\ outbox' = [outbox EXCEPT ![s] = SubSeq(outbox[s], length + 1, Len(outbox[s]))]
      /\ Push(c)
      /\ refused' = (refused \/ Len(messages) = Capacity \/ length > MessageSize)
      /\ begun' = begun /\ sent' = sent /\ mixed' = mixed /\ UNCHANGED handlerVars
      /\ dataBuffer' = dataBuffer /\ filled' = filled /\ flags' = flags /\ callback' = callback
  BY DEF Received, rxVars
<1> HIDE DEF length, cut
<1>6. c \in Seq(Tokens) /\ Len(c) = cut
  <2>1. \A i \in 1 .. cut : outbox[s][i] \in Tokens  BY <1>2, <1>3, <1>4
  <2>2. 1 \in Int /\ cut \in Int  BY <1>4
  <2>3. c \in Seq(Tokens) /\ Len(c) = IF 1 <= cut THEN cut - 1 + 1 ELSE 0
    BY <2>1, <2>2, SubSeqProperties
  <2> QED BY <1>4, <2>3
<1> HIDE DEF c
<1>7. QueueType'
  <2>1. c \in Seq(Pushed) /\ Len(c) <= MessageSize  BY <1>4, <1>6, TokensArePushed
  <2> QED BY <1>5, <2>1, PushType
<1>8. outbox' \in [Sources -> Seq(Tokens)]
  <2>1. SubSeq(outbox[s], length + 1, Len(outbox[s])) \in Seq(Tokens)
    <3>1. \A i \in length + 1 .. Len(outbox[s]) : outbox[s][i] \in Tokens  BY <1>2, <1>3
    <3>2. length + 1 \in Int /\ Len(outbox[s]) \in Int  BY <1>2, <1>3
    <3> QED BY <3>1, <3>2, SubSeqProperties
  <2> QED BY <1>1, <1>5, <2>1
<1>9. RxTypeOK(Tokens)'  BY <1>1, <1>5 DEF RxTypeOK
<1>10. refused' \in BOOLEAN /\ mixed' \in BOOLEAN  BY <1>1, <1>5
<1>11. SentType'  BY <1>5, SentTypeKept
<1> QED BY <1>5, <1>7, <1>8, <1>9, <1>10, <1>11, PeerType

LEMMA UartStoreType ==
  ASSUME TypeInv, UartStore
  PROVE  TypeInv'
<1>1. /\ outbox \in [Sources -> Seq(Tokens)] /\ mixed \in BOOLEAN /\ refused \in BOOLEAN
      /\ RxTypeOK(Tokens) /\ QueueType
  BY DEF TypeInv, TypeOK, QueueType
<1>2. /\ Uart \in Sources /\ outbox[Uart] # <<>> /\ Store(Head(outbox[Uart]))
      /\ outbox' = [outbox EXCEPT ![Uart] = Tail(@)]
      /\ mixed' = (mixed \/ callback)
      /\ messages' = messages /\ begun' = begun /\ sent' = sent /\ refused' = refused
      /\ UNCHANGED handlerVars
  BY DEF UartStore
<1>3. Head(outbox[Uart]) \in Tokens /\ Tail(outbox[Uart]) \in Seq(Tokens)
  BY <1>1, <1>2, HeadTailProperties
<1>4. RxTypeOK(Tokens)'
  <2>1. /\ dataBuffer \in [1 .. DataSize -> Tokens \cup {"nul"}] /\ filled \in 0 .. DataSize
        /\ flags \subseteq {"HT", "TC"} /\ callback \in BOOLEAN /\ DataSize \in Nat
    BY <1>1 DEF RxTypeOK, UartRxAssumption
  <2>2. /\ filled < DataSize /\ filled' = filled + 1
        /\ dataBuffer' = [dataBuffer EXCEPT ![filled + 1] = Head(outbox[Uart])]
        /\ flags' = flags \cup {f \in {"HT", "TC"} :
                            filled' = (IF f = "HT" THEN DataSize \div 2 ELSE DataSize)}
        /\ callback' = callback
    BY <1>2 DEF Store
  <2>3. filled' \in 0 .. DataSize  BY <2>1, <2>2
  <2>4. dataBuffer' \in [1 .. DataSize -> Tokens \cup {"nul"}]  BY <1>3, <2>1, <2>2
  <2>5. flags' \subseteq {"HT", "TC"}
    <3> HIDE DEF Store
    <3> QED BY <2>1, <2>2
  <2> QED BY <2>1, <2>2, <2>3, <2>4, <2>5 DEF RxTypeOK
<1>5. outbox' \in [Sources -> Seq(Tokens)]  BY <1>1, <1>2, <1>3
<1>6. QueueType'  BY <1>1, <1>2 DEF QueueType
<1>7. callback \in BOOLEAN  BY <1>1 DEF RxTypeOK
<1>8. refused' \in BOOLEAN /\ mixed' \in BOOLEAN  BY <1>1, <1>2, <1>7
<1>9. SentType'  BY <1>2, SentTypeKept
<1> QED BY <1>2, <1>4, <1>5, <1>6, <1>8, <1>9, PeerType

LEMMA UartEventType ==
  ASSUME TypeInv, NEW e \in Events, UartEvent(e)
  PROVE  TypeInv'
<1>1. /\ outbox \in [Sources -> Seq(Tokens)] /\ mixed \in BOOLEAN /\ refused \in BOOLEAN
      /\ RxTypeOK(Tokens) /\ QueueType
  BY DEF TypeInv, TypeOK, QueueType
<1>2. /\ callback' = TRUE /\ flags' = flags \ {e} /\ filled' = (IF e = "HT" THEN filled ELSE 0)
      /\ dataBuffer' = dataBuffer /\ outbox' = outbox
      /\ mixed' = (mixed \/ e # "IDLE" \/ outbox[Uart] # <<>>)
      /\ messages' = messages /\ begun' = begun /\ sent' = sent /\ refused' = refused
      /\ UNCHANGED handlerVars
  BY DEF UartEvent, Event
<1>3. RxTypeOK(Tokens)'
  <2>1. /\ dataBuffer \in [1 .. DataSize -> Tokens \cup {"nul"}] /\ filled \in 0 .. DataSize
        /\ flags \subseteq {"HT", "TC"} /\ DataSize \in Nat
    BY <1>1 DEF RxTypeOK, UartRxAssumption
  <2>2. filled' \in 0 .. DataSize  BY <1>2, <2>1
  <2>3. callback' \in BOOLEAN  BY <1>2
  <2>4. flags' \subseteq {"HT", "TC"}  BY <1>2, <2>1
  <2> QED BY <1>2, <2>1, <2>2, <2>3, <2>4 DEF RxTypeOK
<1>4. QueueType'  BY <1>1, <1>2 DEF QueueType
<1>5. refused' \in BOOLEAN /\ mixed' \in BOOLEAN  BY <1>1, <1>2
<1>6. SentType'  BY <1>2, SentTypeKept
<1> QED BY <1>1, <1>2, <1>3, <1>4, <1>5, <1>6, PeerType

LEMMA CallbackType ==
  ASSUME TypeInv, uartRXReceived
  PROVE  TypeInv'
<1>1. /\ outbox \in [Sources -> Seq(Tokens)] /\ mixed \in BOOLEAN /\ refused \in BOOLEAN
      /\ RxTypeOK(Tokens)
  BY DEF TypeInv, TypeOK
<1>2. /\ callback' = FALSE /\ dataBuffer' = dataBuffer /\ filled' = filled /\ flags' = flags
      /\ Push(Line) /\ refused' = (refused \/ Len(messages) = Capacity)
      /\ outbox' = outbox /\ begun' = begun /\ sent' = sent /\ mixed' = mixed
      /\ UNCHANGED handlerVars
  BY DEF uartRXReceived, CallbackEnds
<1>3. RxTypeOK(Tokens)'
  <2>1. callback' \in BOOLEAN  BY <1>2
  <2> QED BY <1>1, <1>2, <2>1 DEF RxTypeOK
<1>4. QueueType'  BY <1>1, <1>2, LineFits, PushType
<1>5. refused' \in BOOLEAN /\ mixed' \in BOOLEAN  BY <1>1, <1>2
<1>6. SentType'  BY <1>2, SentTypeKept
<1> QED BY <1>1, <1>2, <1>3, <1>4, <1>5, <1>6, PeerType

LEMMA PopType ==
  ASSUME TypeInv, Pop
  PROVE  TypeInv'
<1>1. /\ messages \in Seq(Seq(Pushed)) /\ Len(messages) <= Capacity
      /\ \A j \in 1 .. Len(messages) : Len(messages[j]) <= MessageSize
      /\ stringBuffer \in Seq(Pushed) /\ Len(stringBuffer) < BufferSize
      /\ tempBuffer \in [1 .. TempSize -> TempTokens]
      /\ executed \in Seq(Seq(Entries)) /\ ended \in Nat /\ dropped \in BOOLEAN
      /\ Capacity \in Nat
  BY DEF TypeInv, TypeOK, HandlerAssumption
<1>2. /\ messages # <<>> /\ message' = Head(messages) /\ messages' = Tail(messages)
      /\ UNCHANGED peerVars /\ stringBuffer' = stringBuffer /\ tempBuffer' = tempBuffer
      /\ executed' = executed /\ ended' = ended /\ dropped' = dropped
  BY DEF Pop
<1>3. Len(messages) \in Nat \ {0} /\ Head(messages) = messages[1] /\ messages[1] \in Seq(Pushed)
  BY <1>1, <1>2
<1>4. /\ Tail(messages) \in Seq(Seq(Pushed)) /\ Len(Tail(messages)) = Len(messages) - 1
      /\ \A j \in 1 .. Len(Tail(messages)) : Tail(messages)[j] = messages[j + 1]
  BY <1>1, <1>2, HeadTailProperties
<1>5. QueueType'
  <2>1. \A j \in 1 .. Len(messages') : Len(messages'[j]) <= MessageSize
    <3> SUFFICES ASSUME NEW j \in 1 .. Len(messages') PROVE Len(messages'[j]) <= MessageSize
      OBVIOUS
    <3>1. j + 1 \in 1 .. Len(messages) /\ messages'[j] = messages[j + 1]  BY <1>2, <1>3, <1>4
    <3> QED BY <1>1, <3>1
  <2> QED BY <1>1, <1>2, <1>3, <1>4, <2>1 DEF QueueType
<1>6. message' \in Seq(Pushed) /\ Len(message') <= MessageSize
  <2>1. 1 \in 1 .. Len(messages)  BY <1>3
  <2> QED BY <1>1, <1>2, <1>3, <2>1
<1> QED BY <1>1, <1>2, <1>5, <1>6, HandlerType

(* What all of the ways in which main treats a message have in common *)
LEMMA TreatedType ==
  ASSUME TypeInv, UNCHANGED <<peerVars, messages>>, message' = <<>>,
         stringBuffer' \in Seq(Pushed), Len(stringBuffer') < BufferSize,
         tempBuffer' \in [1 .. TempSize -> TempTokens],
         executed' \in Seq(Seq(Entries)), ended' \in Nat, dropped' \in BOOLEAN
  PROVE  TypeInv'
<1>1. QueueType'
  <2>1. messages' = messages /\ QueueType  BY DEF TypeInv, TypeOK, QueueType
  <2> QED BY <2>1 DEF QueueType
<1>2. message' \in Seq(Pushed) /\ Len(message') <= MessageSize
  <2>1. MessageSize \in Nat  BY DEF HandlerAssumption
  <2> QED BY <2>1
<1> QED BY <1>1, <1>2, HandlerType

LEMMA HandleType ==
  ASSUME TypeInv, Handle
  PROVE  TypeInv'
<1>1. /\ tempBuffer \in [1 .. TempSize -> TempTokens] /\ executed \in Seq(Seq(Entries))
      /\ ended \in Nat /\ dropped \in BOOLEAN
  BY DEF TypeInv, TypeOK
<1>2. BufferSize \in Nat \ {0} /\ <<>> \in Seq(Pushed) /\ Len(<<>>) = 0
  BY DEF HandlerAssumption
<1>3. CASE Gather
  <2>1. /\ Fits /\ stringBuffer' = Assembled /\ message' = <<>> /\ UNCHANGED <<peerVars, messages>>
        /\ tempBuffer' = tempBuffer /\ executed' = executed /\ ended' = ended /\ dropped' = dropped
    BY <1>3 DEF Gather
  <2>2. stringBuffer' \in Seq(Pushed) /\ Len(stringBuffer') < BufferSize
    BY <2>1, AssembledType DEF Fits
  <2> QED BY <1>1, <2>1, <2>2, TreatedType
<1>4. CASE Drop
  <2>1. /\ stringBuffer' = <<>> /\ message' = <<>> /\ UNCHANGED <<peerVars, messages>>
        /\ tempBuffer' = tempBuffer /\ executed' = executed /\ ended' = ended /\ dropped' = TRUE
    BY <1>4 DEF Drop
  <2> QED BY <1>1, <1>2, <2>1, TreatedType
<1>5. CASE Refuse
  <2>1. /\ stringBuffer' = <<>> /\ message' = <<>> /\ UNCHANGED <<peerVars, messages>>
        /\ tempBuffer' = tempBuffer /\ executed' = executed /\ ended' = ended + 1
        /\ dropped' = dropped
    BY <1>5 DEF Refuse
  <2> QED BY <1>1, <1>2, <2>1, TreatedType
<1>6. CASE ParseJson
  <2> DEFINE b == Assembled
             parsed == JsonParse(Copied(b))
  <2>1. /\ stringBuffer' = <<>> /\ message' = <<>> /\ UNCHANGED <<peerVars, messages>>
        /\ tempBuffer' = Scanned(Copied(b)) /\ ended' = ended + 1 /\ dropped' = dropped
        /\ executed' = IF parsed.result = "array" THEN Append(executed, Calls(parsed.objects))
                                                  ELSE executed
        /\ ~TooLong(b)
    BY <1>6 DEF ParseJson
  <2>2. TempSize \in Nat  BY DEF HandlerAssumption
  <2>3. b \in Seq(Pushed) /\ Len(b) <= TempSize  BY <2>1, <2>2, AssembledType DEF TooLong
  <2> HIDE DEF b
  <2>4. Copied(b) \in Seq(TempTokens) /\ Len(Copied(b)) = TempSize  BY <1>1, <2>3, CopiedType
  <2>5. tempBuffer' \in [1 .. TempSize -> TempTokens]  BY <2>1, <2>4, ScannedType
  <2>6. parsed.objects \in Seq(Entries)  BY <2>4, ParseType DEF Results
  <2>7. Calls(parsed.objects) \in Seq(Entries)  BY <2>6, CallsType
  <2>8. executed' \in Seq(Seq(Entries))  BY <1>1, <2>1, <2>7
  <2> QED BY <1>1, <1>2, <2>1, <2>5, <2>8, TreatedType
<1> QED BY <1>3, <1>4, <1>5, <1>6 DEF Handle

LEMMA NextTypeInv == TypeInv /\ [Next]_vars => TypeInv'
<1> SUFFICES ASSUME TypeInv, [Next]_vars PROVE TypeInv'  OBVIOUS
<1>1. CASE \E s \in Sources : \E t \in Texts[s] : Begin(s, t)  BY <1>1, BeginType
<1>9. CASE \E s \in Sources : \E t \in Texts[s] : BeginBehind(s, t)  BY <1>9, BeginBehindType
<1>2. CASE \E s \in Sources : \E n \in PacketSizes : Received(s, n)  BY <1>2, ReceivedType
<1>3. CASE UartStore  BY <1>3, UartStoreType
<1>4. CASE uartRXReceived  BY <1>4, CallbackType
<1>5. CASE \E e \in Events : UartEvent(e)  BY <1>5, UartEventType
<1>6. CASE Pop  BY <1>6, PopType
<1>7. CASE Handle  BY <1>7, HandleType
<1>8. CASE UNCHANGED vars
  BY <1>8 DEF vars, peerVars, rxVars, handlerVars, TypeInv, TypeOK, RxTypeOK
<1> QED BY <1>1, <1>2, <1>3, <1>4, <1>5, <1>6, <1>7, <1>8, <1>9 DEF Next

LEMMA TypesHold == Spec => []TypeInv
<1>1. Init => TypeInv  BY InitTypeInv
<1>2. TypeInv /\ [Next]_vars => TypeInv'  BY NextTypeInv
<1> QED BY <1>1, <1>2, PTL DEF Spec

(* The buffers keep their sizes: stringBuffer has room for its NUL, what   *)
(* the callbacks push fits a Message, tempBuffer is as long as it was, and *)
(* what is carried out are entries - for all sizes, texts and packets.     *)
THEOREM HandlerTyped == Spec => []TypeOK
<1>1. TypeInv => TypeOK  BY DEF TypeInv
<1> QED BY <1>1, TypesHold, PTL

-----------------------------------------------------------------------------
(* What is carried out of a text *)

(* Whatever is in tempBuffer, and whatever of dataBuffer follows a text: a *)
(* text that is not left open is parsed as by itself.                      *)
LEMMA ParsedByItself ==
  ASSUME TypeInv, NEW t \in Seq(TempTokens), NEW b \in Seq(Pushed), Len(b) <= TempSize,
         Len(t) <= Len(b), \A i \in 1 .. Len(t) : b[i] = t[i], JsonParse(t).result # "open"
  PROVE  JsonParse(Copied(b)) = JsonParse(t)
<1>1. tempBuffer \in [1 .. TempSize -> TempTokens]  BY DEF TypeInv, TypeOK
<1> DEFINE u == Copied(b)
<1>2. u \in Seq(TempTokens) /\ Len(u) = TempSize /\ \A i \in 1 .. Len(b) : u[i] = b[i]
  BY <1>1, CopiedType
<1> HIDE DEF u
<1>3. Len(t) \in Nat /\ Len(b) \in Nat /\ TempSize \in Nat  BY DEF HandlerAssumption
<1>4. Len(t) <= Len(u)  BY <1>2, <1>3
<1>5. \A i \in 1 .. Len(t) : u[i] = t[i]
  <2> SUFFICES ASSUME NEW i \in 1 .. Len(t) PROVE u[i] = t[i]  OBVIOUS
  <2>1. i \in 1 .. Len(b)  BY <1>3
  <2> QED BY <1>2, <2>1
<1>6. JsonParse(u) = JsonParse(t)  BY <1>2, <1>4, <1>5, ParsePrefix
<1> QED BY <1>6 DEF u

Whole == /\ message # <<>> /\ message' = <<>>
         /\ EndsAt(Assembled, Len(Assembled)) /\ IsArray(Assembled)

LEMMA OutcomeStep ==
  ASSUME TypeInv, Next, Whole
  PROVE  executed' = Append(executed, Meaning(Assembled))
<1> DEFINE b == Assembled
<1>1. b \in Seq(Pushed) /\ b \in Seq(TempTokens) /\ Len(b) = Len(stringBuffer) + Len(message)
  BY AssembledType, TokensArePushed
<1>2. Len(b) <= TempSize /\ JsonParse(b).result = "array"  BY DEF IsArray, Whole
<1>3. message # <<>> /\ message' = <<>> /\ IsEndOfMessage(b)  BY DEF Whole, IsEndOfMessage
<1>4. /\ TempSize \in Nat /\ BufferSize \in Nat /\ TempSize < BufferSize /\ Len(b) \in Nat
  <2>1. TempSize \in Nat /\ BufferSize \in Nat /\ TempSize < BufferSize  BY DEF HandlerAssumption
  <2> HIDE DEF b
  <2> QED BY <1>1, <2>1
<1>5. Fits /\ ~TooLong(b)
  <2> HIDE DEF b
  <2> QED BY <1>1, <1>2, <1>4 DEF Fits, TooLong
<1>6. Handle
  <2>1. ~UNCHANGED handlerVars
    <3>1. message' # message  BY <1>3
    <3> QED BY <3>1 DEF handlerVars
  <2>2. ~Pop  BY <1>3 DEF Pop
  <2> QED BY <2>1, <2>2 DEF Next, Begin, BeginBehind, Begins, Received, UartStore,
                          uartRXReceived, UartEvent
<1>7. ~Gather /\ ~Drop /\ ~Refuse  BY <1>3, <1>5 DEF Gather, Drop, Refuse
<1>8. ParseJson  BY <1>6, <1>7 DEF Handle
<1>9. JsonParse(Copied(b)) = JsonParse(b)
  <2> HIDE DEF b
  <2> QED BY <1>1, <1>2, <1>4, ParsedByItself
<1>10. executed' = Append(executed, Calls(JsonParse(b).objects))
  BY <1>2, <1>8, <1>9 DEF ParseJson
<1> QED BY <1>10 DEF Meaning

(* Once the buffer holds what ends as a message does and begins with an    *)
(* array, and it fits, that array is carried out, next and as a whole,     *)
(* whatever else was received before: for all texts, sizes, peers and      *)
(* leftovers in the buffers, and whatever was refused or mixed.            *)
THEOREM OutcomeIsTheText == Spec => OutcomeOfTheText
<1> DEFINE Done == executed' = Append(executed, Meaning(Assembled))
<1>1. TypeInv /\ [Next]_vars => [Whole => Done]_vars
  <2> SUFFICES ASSUME TypeInv, Next, Whole PROVE Done  OBVIOUS
  <2> QED BY OutcomeStep
<1> QED BY <1>1, TypesHold, PTL DEF Spec, OutcomeOfTheText, Whole

-----------------------------------------------------------------------------
(* How a message flows through the queue and the buffers *)

LEMMA SentText ==
  ASSUME TypeInv, NEW k \in 1 .. Len(sent)
  PROVE  /\ sent[k] \in Seq(Tokens) /\ Len(sent[k]) \in Nat \ {0} /\ sent[k] # <<>>
         /\ IsEndOfMessage(sent[k])
<1>1. sent[k] \in Seq(Tokens) /\ IsEndOfMessage(sent[k])  BY DEF TypeInv, TypeOK
<1>2. TermLen \in Nat \ {0} /\ Len(sent[k]) >= TermLen
  BY <1>1 DEF HandlerAssumption, IsEndOfMessage, EndsAt
<1>3. Len(sent[k]) \in Nat \ {0}  BY <1>1, <1>2
<1>4. sent[k] # <<>>
  <2>1. Len(<<>>) = 0  OBVIOUS
  <2> QED BY <1>3, <2>1
<1> QED BY <1>1, <1>3, <1>4

LEMMA SentTexts ==
  ASSUME TypeInv
  PROVE  Len(sent) \in Nat /\ sent \in Seq(Seq(TempTokens))
<1>1. sent \in Seq(Seq(Tokens)) /\ Len(sent) \in Nat  BY DEF TypeInv, TypeOK
<1>2. Seq(Tokens) \subseteq Seq(TempTokens)  BY TokensArePushed
<1> DEFINE U == Seq(Tokens)
<1> HIDE DEF U
<1>3. sent \in Seq(U) /\ U \subseteq Seq(TempTokens)  BY <1>1, <1>2 DEF U
<1> QED BY <1>1, <1>3, SeqMonotonic

(* A step that leaves sent, the queue and main alone *)
LEMMA FlowKept ==
  ASSUME NEW h, NEW a, NEW K, NEW O, Follows(h, a, K, O),
         sent' = sent, messages' = messages, UNCHANGED handlerVars,
         Coming(K[Len(messages)], O[Len(messages)])'
  PROVE  Follows(h, a, K, O)'
<1>1. message' = message /\ stringBuffer' = stringBuffer /\ executed' = executed
  BY DEF handlerVars
<1>2. Coming(K[Len(messages)], O[Len(messages)])'  OBVIOUS
<1>3. \A k, o : Place(k, o)' <=> Place(k, o)  BY DEF Place
<1>4. \A c, k, o, k2, o2 : Leads(c, k, o, k2, o2)' <=> Leads(c, k, o, k2, o2)  BY DEF Leads
<1>5. Told(h) => Told(h)'  BY <1>1 DEF Told
<1> QED BY <1>1, <1>2, <1>3, <1>4, <1>5 DEF Follows

(* What a push appends leads from the last place to the next. *)
LEMMA FlowPushed ==
  ASSUME TypeInv, NEW h, NEW a, NEW K, NEW O, Follows(h, a, K, O),
         NEW c \in Seq(Pushed), NEW k \in Nat, NEW o \in Nat,
         sent' = sent, messages' = Append(messages, c), UNCHANGED handlerVars,
         Place(k, o), Leads(c, K[Len(messages)], O[Len(messages)], k, o), Coming(k, o)'
  PROVE  \E K2, O2 : Follows(h, a, K2, O2)'
<1> DEFINE n == Len(messages)
<1>1. messages \in Seq(Seq(Pushed)) /\ n \in Nat  BY DEF TypeInv, TypeOK
<1>2. /\ messages' = Append(messages, c) /\ Len(messages') = n + 1 /\ messages'[n + 1] = c
      /\ \A j \in 1 .. n : messages'[j] = messages[j]
  BY <1>1
<1>3. message' = message /\ stringBuffer' = stringBuffer /\ executed' = executed
  BY DEF handlerVars
<1>4. \A x, y : Place(x, y)' <=> Place(x, y)  BY DEF Place
<1>5. \A d, x, y, x2, y2 : Leads(d, x, y, x2, y2)' <=> Leads(d, x, y, x2, y2)  BY DEF Leads
<1>6. /\ K \in [0 .. n -> Nat] /\ O \in [0 .. n -> Nat]
      /\ \A j \in 0 .. n : Place(K[j], O[j])
      /\ \A j \in 1 .. n : Leads(messages[j], K[j - 1], O[j - 1], K[j], O[j])
      /\ Place(h, a)
      /\ IF message = <<>> THEN K[0] = h /\ O[0] = a ELSE Leads(message, h, a, K[0], O[0])
      /\ Part(stringBuffer, sent[h + 1], 0, a)
      /\ Told(h)
  BY DEF Follows
<1>7. Leads(c, K[n], O[n], k, o) /\ Place(k, o) /\ Coming(k, o)'  OBVIOUS
<1> HIDE DEF n
<1>8. PICK K2, O2 :
            /\ K2 \in [0 .. n + 1 -> Nat] /\ O2 \in [0 .. n + 1 -> Nat]
            /\ \A j \in 0 .. n : K2[j] = K[j] /\ O2[j] = O[j]
            /\ K2[n + 1] = k /\ O2[n + 1] = o
  <2> DEFINE X == [j \in 0 .. n + 1 |-> IF j <= n THEN K[j] ELSE k]
             Y == [j \in 0 .. n + 1 |-> IF j <= n THEN O[j] ELSE o]
  <2>1. /\ X \in [0 .. n + 1 -> Nat] /\ Y \in [0 .. n + 1 -> Nat]
        /\ \A j \in 0 .. n : X[j] = K[j] /\ Y[j] = O[j]
        /\ X[n + 1] = k /\ Y[n + 1] = o
    BY <1>1, <1>6
  <2> HIDE DEF X, Y
  <2> QED BY <2>1
<1>9. \A j \in 0 .. n + 1 : Place(K2[j], O2[j])
  <2> SUFFICES ASSUME NEW j \in 0 .. n + 1 PROVE Place(K2[j], O2[j])  OBVIOUS
  <2>1. j \in 0 .. n \/ j = n + 1  BY <1>1
  <2> QED BY <2>1, <1>6, <1>7, <1>8
<1>10. \A j \in 1 .. n + 1 : Leads(messages'[j], K2[j - 1], O2[j - 1], K2[j], O2[j])
  <2> SUFFICES ASSUME NEW j \in 1 .. n + 1
               PROVE  Leads(messages'[j], K2[j - 1], O2[j - 1], K2[j], O2[j])
    OBVIOUS
  <2>1. CASE j \in 1 .. n
    <3>1. j \in 0 .. n /\ j - 1 \in 0 .. n  BY <1>1, <2>1
    <3> QED BY <1>2, <1>6, <1>8, <2>1, <3>1
  <2>2. CASE j = n + 1
    <3>1. j - 1 = n /\ n \in 0 .. n  BY <1>1, <2>2
    <3> QED BY <1>2, <1>7, <1>8, <2>2, <3>1
  <2>3. j \in 1 .. n \/ j = n + 1  BY <1>1
  <2> QED BY <2>1, <2>2, <2>3
<1>11. 0 \in 0 .. n  BY <1>1
<1>12. IF message' = <<>> THEN K2[0] = h /\ O2[0] = a ELSE Leads(message', h, a, K2[0], O2[0])
  BY <1>3, <1>6, <1>8, <1>11
<1>13. Coming(K2[Len(messages)], O2[Len(messages)])'
  <2>1. K2[Len(messages)]' = k /\ O2[Len(messages)]' = o  BY <1>2, <1>8
  <2> QED BY <1>7, <2>1 DEF Coming, Nothing, OnSocket, OnUart, InCallback
<1>14. /\ \A j \in 0 .. Len(messages') : Place(K2[j], O2[j])'
       /\ Place(h, a)'
  BY <1>2, <1>4, <1>6, <1>9
<1>15. \A j \in 1 .. Len(messages') : Leads(messages[j], K2[j - 1], O2[j - 1], K2[j], O2[j])'
  <2> SUFFICES ASSUME NEW j \in 1 .. Len(messages')
               PROVE  Leads(messages[j], K2[j - 1], O2[j - 1], K2[j], O2[j])'
    OBVIOUS
  <2>1. Leads(messages'[j], K2[j - 1], O2[j - 1], K2[j], O2[j])  BY <1>2, <1>10
  <2> QED BY <1>5, <2>1
<1>16. IF message' = <<>> THEN K2[0] = h /\ O2[0] = a ELSE Leads(message, h, a, K2[0], O2[0])'
  BY <1>5, <1>12
<1>17. Part(stringBuffer, sent[h + 1], 0, a)' /\ Told(h)'
  BY <1>3, <1>6 DEF Told
<1>18. K2 \in [0 .. Len(messages') -> Nat] /\ O2 \in [0 .. Len(messages') -> Nat]
  BY <1>2, <1>8
<1>19. Follows(h, a, K2, O2)'
  BY <1>13, <1>14, <1>15, <1>16, <1>17, <1>18 DEF Follows
<1> QED BY <1>19

(* What comes to sent changes no text up to the m-th, and the next one     *)
(* only at its end.                                                        *)
More(m) ==
  /\ m \in Nat /\ Len(sent') \in Nat /\ Len(sent) <= Len(sent')
  /\ \A k \in 1 .. Len(sent) : k <= m => sent'[k] = sent[k]
  /\ \A k \in 1 .. Len(sent) :
       /\ Len(sent'[k]) \in Nat /\ Len(sent[k]) <= Len(sent'[k])
       /\ \A i \in 1 .. Len(sent[k]) : sent'[k][i] = sent[k][i]

(* Places and what leads there stay up to the m-th text. *)
LEMMA PlacesStay ==
  ASSUME TypeInv, NEW m, More(m), NEW k, NEW o, Place(k, o)
  PROVE  /\ Place(k, o)'
         /\ \A c, h, a : Place(h, a) /\ k <= m /\ Leads(c, h, a, k, o) => Leads(c, h, a, k, o)'
<1>1. Len(sent) \in Nat /\ TermLen \in Nat \ {0}  BY SentTexts DEF HandlerAssumption
<1>2. k \in 0 .. Len(sent) /\ o \in Nat
      /\ (o # 0 => k < Len(sent) /\ o < Len(sent[k + 1]) /\ ~EndsAt(sent[k + 1], o))
  BY DEF Place
<1>3. k \in 0 .. Len(sent')  BY <1>1, <1>2 DEF More
<1>4. ASSUME o # 0
      PROVE  k < Len(sent') /\ o < Len(sent'[k + 1]) /\ ~EndsAt(sent'[k + 1], o)
  <2>1. k + 1 \in 1 .. Len(sent)  BY <1>1, <1>2, <1>4
  <2>2. PICK t, t2 : t = sent[k + 1] /\ t2 = sent'[k + 1]  OBVIOUS
  <2>3. /\ Len(t) \in Nat /\ Len(t2) \in Nat /\ Len(t) <= Len(t2)
        /\ \A i \in 1 .. Len(t) : t2[i] = t[i]
    BY <2>1, <2>2, SentText DEF More
  <2>4. o < Len(t) /\ ~EndsAt(t, o)  BY <1>2, <1>4, <2>2
  <2>5. o < Len(t2)  BY <1>2, <2>3, <2>4
  <2>6. ASSUME EndsAt(t2, o) PROVE FALSE
    <3>1. o >= TermLen /\ \A i \in o - TermLen + 1 .. o : t2[i] = "cr"  BY <2>6 DEF EndsAt
    <3>2. ASSUME NEW i \in o - TermLen + 1 .. o PROVE t[i] = "cr"
      <4>1. i \in 1 .. Len(t)  BY <1>1, <1>2, <2>3, <2>4, <3>1
      <4> QED BY <2>3, <3>1, <4>1
    <3> QED BY <2>4, <3>1, <3>2 DEF EndsAt
  <2> QED BY <1>1, <1>2, <1>3, <1>4, <2>2, <2>5, <2>6 DEF More
<1>5. Place(k, o)'  BY <1>2, <1>3, <1>4 DEF Place
<1>6. ASSUME NEW c, NEW h, NEW a, Place(h, a), k <= m, Leads(c, h, a, k, o)
      PROVE  Leads(c, h, a, k, o)'
  <2>1. h < Len(sent) /\ h \in 0 .. Len(sent) /\ a \in Nat  BY <1>6 DEF Leads, Place
  <2>2. h + 1 \in 1 .. Len(sent) /\ h < Len(sent')  BY <1>1, <2>1 DEF More
  <2>3. PICK t, t2 : t = sent[h + 1] /\ t2 = sent'[h + 1]  OBVIOUS
  <2>4. CASE k = h /\ a < o /\ Part(c, t, a, o)
    <3>1. o < Len(t) /\ Len(t) \in Nat  BY <1>2, <2>1, <2>2, <2>3, <2>4, SentText
    <3>2. \A i \in 1 .. Len(t) : t2[i] = t[i]  BY <2>2, <2>3 DEF More
    <3>3. Len(c) = o - a /\ a <= o /\ \A i \in 1 .. Len(c) : c[i] = t[a + i]
      BY <2>4 DEF Part
    <3>4. ASSUME NEW i \in 1 .. Len(c) PROVE c[i] = t2[a + i]
      <4>1. a + i \in 1 .. Len(t)  BY <1>2, <2>1, <3>1, <3>3
      <4> QED BY <3>2, <3>3, <4>1
    <3>5. Part(c, t2, a, o)  BY <3>3, <3>4 DEF Part
    <3> QED BY <2>2, <2>3, <2>4, <3>5 DEF Leads
  <2>5. CASE k = h + 1
    <3>1. t2 = t  BY <1>6, <2>2, <2>3, <2>5 DEF More
    <3> QED BY <1>6, <2>2, <2>3, <3>1 DEF Leads
  <2> QED BY <1>6, <2>3, <2>4, <2>5 DEF Leads
<1> QED BY <1>5, <1>6

(* The pieces lead onwards. *)
LEMMA Onwards ==
  ASSUME TypeInv, NEW h, NEW a, NEW K, NEW O, Follows(h, a, K, O)
  PROVE  /\ K[Len(messages)] \in Nat /\ h \in Nat /\ h <= K[Len(messages)]
         /\ \A j \in 0 .. Len(messages) : K[j] \in Nat /\ K[j] <= K[Len(messages)]
<1>1. PICK n : n = Len(messages)  OBVIOUS
<1>2. n \in Nat  BY <1>1 DEF TypeInv, TypeOK
<1>3. /\ \A j \in 0 .. n : K[j] \in Nat
      /\ \A j \in 1 .. n : Leads(messages[j], K[j - 1], O[j - 1], K[j], O[j])
      /\ h \in 0 .. Len(sent)
      /\ IF message = <<>> THEN K[0] = h /\ O[0] = a ELSE Leads(message, h, a, K[0], O[0])
  BY <1>1 DEF Follows, Place
<1>4. \A c, x, y, x2, y2 : Leads(c, x, y, x2, y2) => x2 = x \/ x2 = x + 1  BY DEF Leads
<1> DEFINE S == {d \in 0 .. n : K[n - d] <= K[n]}
<1>5. 0 \in S  BY <1>2, <1>3
<1>6. \A d \in 0 .. n : d \in S /\ d < n => d + 1 \in S
  <2> SUFFICES ASSUME NEW d \in 0 .. n, K[n - d] <= K[n], d < n PROVE d + 1 \in S
    OBVIOUS
  <2>1. n - d \in 1 .. n /\ n \in 0 .. n /\ n - d \in 0 .. n /\ n - (d + 1) \in 0 .. n
        /\ (n - d) - 1 = n - (d + 1) /\ d + 1 \in 0 .. n
    BY <1>2
  <2>2. PICK x, y, z : x = K[n - (d + 1)] /\ y = K[n - d] /\ z = K[n]  OBVIOUS
  <2>3. y = x \/ y = x + 1  BY <1>3, <1>4, <2>1, <2>2
  <2>4. x \in Nat /\ y \in Nat /\ z \in Nat /\ y <= z  BY <1>3, <2>1, <2>2
  <2>5. x <= z  BY <2>3, <2>4
  <2> QED BY <2>1, <2>2, <2>5
<1>7. \A d \in 0 .. n : d \in S
  <2> HIDE DEF S
  <2> QED BY <1>2, <1>5, <1>6, UpTo
<1>8. ASSUME NEW j \in 0 .. n PROVE K[j] <= K[n]
  <2>1. n - j \in 0 .. n /\ n - (n - j) = j  BY <1>2
  <2> QED BY <1>7, <2>1
<1>9. h \in Nat /\ h <= K[n]
  <2>1. 0 \in 0 .. n /\ n \in 0 .. n /\ h \in Nat  BY <1>2, <1>3
  <2>2. PICK x, z : x = K[0] /\ z = K[n]  OBVIOUS
  <2>3. x \in Nat /\ z \in Nat /\ x <= z /\ (x = h \/ x = h + 1)
    BY <1>3, <1>4, <1>8, <2>1, <2>2
  <2>4. h <= z  BY <2>1, <2>3
  <2> QED BY <2>1, <2>2, <2>4
<1> QED BY <1>1, <1>2, <1>3, <1>8, <1>9

(* More in sent, behind all that the queue and main have of it *)
LEMMA FlowMore ==
  ASSUME TypeInv, NEW h, NEW a, NEW K, NEW O, Follows(h, a, K, O),
         NEW m, More(m), K[Len(messages)] <= m, sent' \in Seq(Seq(Tokens)),
         messages' = messages, UNCHANGED handlerVars,
         Coming(K[Len(messages)], O[Len(messages)])'
  PROVE  Follows(h, a, K, O)'
<1>1. message' = message /\ stringBuffer' = stringBuffer /\ executed' = executed
  BY DEF handlerVars
<1>2. Coming(K[Len(messages)], O[Len(messages)])'  OBVIOUS
<1>3. sent \in Seq(Seq(TempTokens)) /\ Len(sent) \in Nat  BY SentTexts
<1>4. m \in Nat /\ Len(messages) \in Nat  BY DEF More, TypeInv, TypeOK
<1>5. h \in Nat /\ h <= m /\ \A j \in 0 .. Len(messages) : K[j] \in Nat /\ K[j] <= m
  <2>1. PICK z : z = K[Len(messages)]  OBVIOUS
  <2>2. /\ z \in Nat /\ z <= m /\ h \in Nat /\ h <= z
        /\ \A j \in 0 .. Len(messages) : K[j] \in Nat /\ K[j] <= z
    BY <2>1, Onwards
  <2> QED BY <1>4, <2>2
<1>6. /\ K \in [0 .. Len(messages) -> Nat] /\ O \in [0 .. Len(messages) -> Nat]
      /\ \A j \in 0 .. Len(messages) : Place(K[j], O[j])
      /\ \A j \in 1 .. Len(messages) : Leads(messages[j], K[j - 1], O[j - 1], K[j], O[j])
      /\ Place(h, a)
      /\ IF message = <<>> THEN K[0] = h /\ O[0] = a ELSE Leads(message, h, a, K[0], O[0])
      /\ Part(stringBuffer, sent[h + 1], 0, a)
      /\ Told(h)
  BY DEF Follows
<1>7. \A j \in 1 .. Len(messages) : Leads(messages[j], K[j - 1], O[j - 1], K[j], O[j])'
  <2> SUFFICES ASSUME NEW j \in 1 .. Len(messages)
               PROVE  Leads(messages[j], K[j - 1], O[j - 1], K[j], O[j])'
    OBVIOUS
  <2>1. j - 1 \in 0 .. Len(messages) /\ j \in 0 .. Len(messages)  BY <1>4
  <2>2. PICK x, y, x2, y2, c : /\ x = K[j - 1] /\ y = O[j - 1] /\ x2 = K[j] /\ y2 = O[j]
                               /\ c = messages[j]
    OBVIOUS
  <2>3. Leads(c, x, y, x2, y2) /\ Place(x, y) /\ Place(x2, y2) /\ x2 <= m
    BY <1>5, <1>6, <2>1, <2>2
  <2>4. Leads(c, x, y, x2, y2)'  BY <2>3, PlacesStay
  <2>5. messages'[j] = c  BY <2>2
  <2> QED BY <2>2, <2>4, <2>5 DEF Leads
<1>8. \A j \in 0 .. Len(messages') : Place(K[j], O[j])'
  <2> SUFFICES ASSUME NEW j \in 0 .. Len(messages) PROVE Place(K[j], O[j])'  OBVIOUS
  <2>1. PICK x, y : x = K[j] /\ y = O[j]  OBVIOUS
  <2>2. Place(x, y)'  BY <1>6, <2>1, PlacesStay
  <2> QED BY <2>1, <2>2 DEF Place
<1>9. Place(h, a)'  BY <1>6, PlacesStay
<1>10. message # <<>> => Leads(message, h, a, K[0], O[0])'
  <2> SUFFICES ASSUME message # <<>> PROVE Leads(message, h, a, K[0], O[0])'  OBVIOUS
  <2>1. 0 \in 0 .. Len(messages)  BY <1>4
  <2>2. PICK x, y, c : x = K[0] /\ y = O[0] /\ c = message  OBVIOUS
  <2>3. Leads(c, h, a, x, y) /\ Place(x, y) /\ x <= m  BY <1>5, <1>6, <2>1, <2>2
  <2>4. Leads(c, h, a, x, y)'  BY <1>6, <2>3, PlacesStay
  <2> QED BY <1>1, <2>2, <2>4 DEF Leads
<1>11. Part(stringBuffer, sent[h + 1], 0, a)'
  <2>1. /\ h \in 0 .. Len(sent) /\ a \in Nat
        /\ (a # 0 => h < Len(sent) /\ a < Len(sent[h + 1]))
    BY <1>6 DEF Place
  <2>2. /\ 0 <= a /\ Len(stringBuffer) = a - 0
        /\ \A i \in 1 .. Len(stringBuffer) : stringBuffer[i] = sent[h + 1][0 + i]
    BY <1>6 DEF Part
  <2>3. ASSUME NEW i \in 1 .. Len(stringBuffer) PROVE stringBuffer[i] = sent'[h + 1][0 + i]
    <3>1. a # 0 /\ i \in 1 .. a /\ 0 + i = i  BY <2>1, <2>2
    <3>2. h + 1 \in 1 .. Len(sent)  BY <1>3, <2>1, <3>1
    <3>3. i \in 1 .. Len(sent[h + 1])
      <4>1. Len(sent[h + 1]) \in Nat /\ a < Len(sent[h + 1])  BY <2>1, <3>1, <3>2, SentText
      <4> QED BY <2>1, <3>1, <4>1
    <3>4. sent'[h + 1][i] = sent[h + 1][i]  BY <3>2, <3>3 DEF More
    <3> QED BY <2>2, <3>1, <3>4
  <2> QED BY <1>1, <2>2, <2>3 DEF Part
<1>12. h \in 0 .. Len(sent) /\ \A k \in 1 .. h : sent'[k] = sent[k]
  <2>1. h \in 0 .. Len(sent)  BY <1>6 DEF Place
  <2>2. ASSUME NEW k \in 1 .. h PROVE sent'[k] = sent[k]
    <3>1. k \in 1 .. Len(sent) /\ k <= m  BY <1>3, <1>4, <1>5, <2>1
    <3> QED BY <3>1 DEF More
  <2> QED BY <2>1, <2>2
<1>13. SubSeq(sent', 1, h) = SubSeq(sent, 1, h)
  <2>1. Len(sent') \in Nat /\ h <= Len(sent) /\ h <= Len(sent')  BY <1>3, <1>12 DEF More
  <2>2. PICK q, r : q = SubSeq(sent', 1, h) /\ r = SubSeq(sent, 1, h)  OBVIOUS
  <2>3. /\ q \in Seq(Seq(Tokens)) /\ Len(q) = h /\ \A i \in 1 .. h : q[i] = sent'[i]
    BY <1>5, <2>1, <2>2
  <2>4. /\ r \in Seq(Seq(Tokens)) /\ Len(r) = h /\ \A i \in 1 .. h : r[i] = sent[i]
    <3>1. sent \in Seq(Seq(Tokens))  BY DEF TypeInv, TypeOK
    <3> QED BY <1>5, <2>1, <2>2, <3>1
  <2>5. q = r  BY <1>12, <2>3, <2>4, SeqEqual
  <2> QED BY <2>2, <2>5
<1>14. Told(h)'  BY <1>1, <1>6, <1>12, <1>13 DEF Told
<1> QED BY <1>1, <1>2, <1>6, <1>7, <1>8, <1>9, <1>10, <1>11, <1>14 DEF Follows

LEMMA CalmBefore ==
  ASSUME TypeInv, Calm', refused => refused', mixed => mixed',
         sent' = sent \/ \E m : More(m)
  PROVE  Calm
<1>1. ~refused' /\ ~mixed' /\ \A k \in 1 .. Len(sent') : Len(sent'[k]) <= BufferSize
  BY DEF Calm
<1>2. ASSUME NEW m, More(m), NEW k \in 1 .. Len(sent) PROVE Len(sent[k]) <= BufferSize
  <2>1. /\ Len(sent'[k]) \in Nat /\ Len(sent[k]) <= Len(sent'[k])
        /\ Len(sent') \in Nat /\ Len(sent) <= Len(sent')
    BY <1>2 DEF More
  <2>2. Len(sent) \in Nat /\ Len(sent[k]) \in Nat /\ BufferSize \in Nat
    BY SentTexts, SentText DEF HandlerAssumption
  <2>3. k \in 1 .. Len(sent')  BY <2>1, <2>2
  <2>4. Len(sent'[k]) <= BufferSize  BY <1>1, <2>3
  <2> QED BY <2>1, <2>2, <2>4
<1> QED BY <1>1, <1>2 DEF Calm

LEMMA AppendsMore ==
  ASSUME TypeInv, NEW t \in Seq(Tokens), sent' = Append(sent, t)
  PROVE  /\ More(Len(sent)) /\ sent' \in Seq(Seq(Tokens)) /\ Len(sent') = Len(sent) + 1
         /\ sent'[Len(sent) + 1] = t /\ \A i \in 1 .. Len(sent) : sent'[i] = sent[i]
<1>1. sent \in Seq(Seq(Tokens)) /\ Len(sent) \in Nat  BY DEF TypeInv, TypeOK
<1>2. /\ sent' \in Seq(Seq(Tokens)) /\ Len(sent') = Len(sent) + 1
      /\ sent'[Len(sent) + 1] = t /\ \A i \in 1 .. Len(sent) : sent'[i] = sent[i]
  BY <1>1, AppendProperties
<1>3. \A i \in 1 .. Len(sent) : Len(sent[i]) \in Nat  BY SentText
<1> QED BY <1>1, <1>2, <1>3 DEF More

(* The last place of a flow *)
LEMMA LastPlace ==
  ASSUME TypeInv, NEW h, NEW a, NEW K, NEW O, Follows(h, a, K, O)
  PROVE  \E k \in Nat, o \in Nat :
            /\ k = K[Len(messages)] /\ o = O[Len(messages)]
            /\ Place(k, o) /\ Coming(k, o)
<1>1. Len(messages) \in 0 .. Len(messages)  BY DEF TypeInv, TypeOK
<1> DEFINE k == K[Len(messages)]
           o == O[Len(messages)]
<1>2. k \in Nat /\ o \in Nat /\ Place(k, o) /\ Coming(k, o)  BY <1>1 DEF Follows
<1> QED BY <1>2

LEMMA BeginFlow ==
  ASSUME TypeInv, Flowing, NEW s \in Sources, NEW t \in Texts[s], Begin(s, t), ~mixed'
  PROVE  Flowing'
<1>1. /\ outbox[s] = <<>> /\ outbox' = [outbox EXCEPT ![s] = t] /\ sent' = Append(sent, t)
      /\ mixed' = (mixed \/ Mixes(s)) /\ messages' = messages /\ UNCHANGED handlerVars
      /\ dataBuffer' = dataBuffer /\ filled' = filled /\ flags' = flags /\ callback' = callback
  <2>1. <<>> \o t = t  BY TextType
  <2> QED BY <2>1 DEF Begin, Begins, rxVars
<1>2. /\ \A r \in Sources \ {s} : outbox[r] = <<>>
      /\ ~(filled > 0) /\ (s # Uart => ~callback)
  BY <1>1 DEF Mixes
<1>3. filled = 0 /\ outbox \in [Sources -> Seq(Tokens)]
  BY <1>2 DEF TypeInv, TypeOK, RxTypeOK, UartRxAssumption
<1>4. PICK h, a, K, O : Follows(h, a, K, O)  BY DEF Flowing
<1>5. PICK k \in Nat, o \in Nat : /\ k = K[Len(messages)] /\ o = O[Len(messages)]
                                  /\ Place(k, o) /\ Coming(k, o)
  BY <1>4, LastPlace
<1>6. /\ Len(sent) \in Nat /\ Len(sent') = Len(sent) + 1 /\ sent' \in Seq(Seq(Tokens))
      /\ sent'[Len(sent) + 1] = t /\ \A i \in 1 .. Len(sent) : sent'[i] = sent[i]
  BY <1>1, TextType, SentTexts, AppendsMore
<1>7. t \in Seq(Tokens) /\ t # <<>> /\ Len(t) \in Nat \ {0}  BY TextType
<1>8. outbox'[s] = t /\ \A r \in Sources \ {s} : outbox'[r] = <<>>  BY <1>1, <1>2, <1>3
<1>9. Part(t, t, 0, Len(t))  BY <1>7 DEF Part
<1>10. \A r \in Sources : outbox[r] = <<>>  BY <1>1, <1>2
<1>11. Coming(k, o)'
  <2>1. CASE Nothing(k, o)
    <3>1. k = Len(sent) /\ o = 0 /\ ~callback  BY <2>1 DEF Nothing
    <3>2. CASE s = Uart
      <4>1. \A i \in 1 .. filled' : dataBuffer'[i] = sent'[k + 1][i]  BY <1>1, <1>3
      <4>2. Part(outbox[Uart], sent[k + 1], filled, Len(sent[k + 1]))'
        BY <1>1, <1>3, <1>6, <1>8, <1>9, <3>1, <3>2
      <4>3. OnlyFrom(Uart)'  BY <1>8, <3>2 DEF OnlyFrom
      <4>4. OnUart(k, o)'  BY <1>1, <1>6, <3>1, <3>2, <4>1, <4>2, <4>3 DEF OnUart
      <4> QED BY <4>4 DEF Coming
    <3>3. CASE s # Uart
      <4>1. Part(outbox[s], sent[k + 1], o, Len(sent[k + 1]))'
        BY <1>6, <1>8, <1>9, <3>1
      <4>2. OnlyFrom(s)'  BY <1>8 DEF OnlyFrom
      <4>3. OnSocket(s, k, o)'
        BY <1>1, <1>3, <1>6, <1>7, <1>8, <3>1, <3>3, <4>1, <4>2 DEF OnSocket
      <4> QED BY <4>3 DEF Coming
    <3> QED BY <3>2, <3>3
  <2>2. CASE \E r \in Sources : OnSocket(r, k, o)  BY <1>10, <2>2 DEF OnSocket
  <2>3. CASE OnUart(k, o)
    <3>1. k + 1 = Len(sent) /\ Part(outbox[Uart], sent[k + 1], 0, Len(sent[k + 1])) /\ Uart \in Sources
      BY <1>3, <2>3 DEF OnUart
    <3>2. k + 1 \in 1 .. Len(sent)  BY <1>6, <3>1
    <3>3. Len(sent[k + 1]) \in Nat \ {0}  BY <3>2, SentText
    <3>4. Len(outbox[Uart]) = Len(sent[k + 1])  BY <3>1, <3>3 DEF Part
    <3>5. outbox[Uart] = <<>>  BY <1>10, <3>1
    <3> QED BY <3>3, <3>4, <3>5
  <2>4. CASE InCallback(k, o)
    <3>1. /\ callback /\ Uart \in Sources /\ flags = {} /\ k < Len(sent) /\ o = 0
          /\ Len(sent[k + 1]) <= DataSize
          /\ \A i \in 1 .. Len(sent[k + 1]) : dataBuffer[i] = sent[k + 1][i]
          /\ \/ k + 1 = Len(sent)
             \/ k + 2 = Len(sent) /\ outbox[Uart] = sent[k + 2]
      BY <2>4 DEF InCallback
    <3>2. s = Uart  BY <1>2, <3>1
    <3>3. k + 1 = Len(sent)
      <4> SUFFICES ASSUME k + 2 = Len(sent), outbox[Uart] = sent[k + 2] PROVE FALSE
        BY <3>1
      <4>1. k + 2 \in 1 .. Len(sent)  BY <1>6
      <4> QED BY <1>10, <3>1, <4>1, SentText
    <3>4. k + 1 \in 1 .. Len(sent)  BY <1>6, <3>3
    <3>5. sent'[k + 1] = sent[k + 1] /\ k < Len(sent') /\ k + 2 = Len(sent') /\ sent'[k + 2] = t
      BY <1>6, <3>3, <3>4
    <3>6. OnlyFrom(Uart)'  BY <1>8, <3>2 DEF OnlyFrom
    <3>7. InCallback(k, o)'  BY <1>1, <1>3, <1>8, <3>1, <3>2, <3>5, <3>6 DEF InCallback
    <3> QED BY <3>7 DEF Coming
  <2> QED BY <1>5, <2>1, <2>2, <2>3, <2>4 DEF Coming
<1>12. Coming(K[Len(messages)], O[Len(messages)])'
  <2>1. k = K[Len(messages')] /\ o = O[Len(messages')]  BY <1>1, <1>5
  <2> QED BY <1>11, <2>1
<1>13. Follows(h, a, K, O)'
  <2>1. More(Len(sent))  BY <1>1, TextType, AppendsMore
  <2>2. K[Len(messages)] <= Len(sent)  BY <1>5, <1>6 DEF Place
  <2> QED BY <1>1, <1>4, <1>6, <1>12, <2>1, <2>2, FlowMore
<1>14. (\E m \in 0 .. DataSize : Filled(m))'  BY <1>1 DEF Flowing, Filled
<1> QED BY <1>13, <1>14 DEF Flowing

LEMMA JoinsMore ==
  ASSUME TypeInv, NEW t \in Seq(Tokens), Joins(t), NEW k \in Nat, k + 1 = Len(sent)
  PROVE  More(k)
<1>1. /\ Len(sent') = Len(sent) /\ Len(sent) \in Nat
      /\ \A j \in 1 .. Len(sent) :
           sent[j] \in Seq(Tokens) /\ sent'[j] = IF j = Len(sent) THEN sent[j] \o t ELSE sent[j]
  BY JoinedText
<1>2. \A j \in 1 .. Len(sent) : j <= k => sent'[j] = sent[j]  BY <1>1
<1>3. ASSUME NEW j \in 1 .. Len(sent)
      PROVE  /\ Len(sent'[j]) \in Nat /\ Len(sent[j]) <= Len(sent'[j])
             /\ \A i \in 1 .. Len(sent[j]) : sent'[j][i] = sent[j][i]
  <2>1. PICK u, w : u = sent[j] /\ w = sent'[j]  OBVIOUS
  <2>2. u \in Seq(Tokens) /\ (w = u \/ w = u \o t)  BY <1>1, <2>1
  <2>3. /\ Len(u \o t) = Len(u) + Len(t) /\ Len(u) \in Nat /\ Len(t) \in Nat
        /\ \A i \in 1 .. Len(u) + Len(t) :
             (u \o t)[i] = IF i <= Len(u) THEN u[i] ELSE t[i - Len(u)]
    BY <2>2, ConcatProperties
  <2>4. \A i \in 1 .. Len(u) : (u \o t)[i] = u[i]
    <3> SUFFICES ASSUME NEW i \in 1 .. Len(u) PROVE (u \o t)[i] = u[i]  OBVIOUS
    <3>1. i \in 1 .. Len(u) + Len(t) /\ i <= Len(u)  BY <2>3
    <3> QED BY <2>3, <3>1
  <2>5. Len(w) \in Nat /\ Len(u) <= Len(w) /\ \A i \in 1 .. Len(u) : w[i] = u[i]
    BY <2>2, <2>3, <2>4
  <2> QED BY <2>1, <2>5
<1> QED BY <1>1, <1>2, <1>3 DEF More

(* The next message goes behind the last, and its text gets longer before  *)
(* the last piece of it has come.                                          *)
LEMMA BehindFlow ==
  ASSUME TypeInv, Flowing, NEW s \in Sources, NEW t \in Texts[s], BeginBehind(s, t), ~mixed'
  PROVE  Flowing' /\ \E m : More(m)
<1>1. /\ s # Uart /\ outbox[s] # <<>> /\ outbox' = [outbox EXCEPT ![s] = outbox[s] \o t]
      /\ Joins(t) /\ mixed' = (mixed \/ Mixes(s)) /\ messages' = messages
      /\ UNCHANGED handlerVars
      /\ dataBuffer' = dataBuffer /\ filled' = filled /\ flags' = flags /\ callback' = callback
  BY DEF BeginBehind, Begins, Joins, rxVars
<1>2. (\A r \in Sources \ {s} : outbox[r] = <<>>) /\ ~(filled > 0) /\ ~callback
  BY <1>1 DEF Mixes
<1>3. filled = 0 /\ outbox \in [Sources -> Seq(Tokens)] /\ outbox[s] \in Seq(Tokens)
  BY <1>2 DEF TypeInv, TypeOK, RxTypeOK, UartRxAssumption
<1>4. PICK h, a, K, O : Follows(h, a, K, O)  BY DEF Flowing
<1>5. PICK k \in Nat, o \in Nat : /\ k = K[Len(messages)] /\ o = O[Len(messages)]
                                  /\ Place(k, o) /\ Coming(k, o)
  BY <1>4, LastPlace
<1>6. OnSocket(s, k, o)
  <2>1. ~Nothing(k, o)  BY <1>1 DEF Nothing
  <2>2. ~OnUart(k, o) /\ ~InCallback(k, o)  BY <1>1, <1>2 DEF OnUart, InCallback, OnlyFrom
  <2>3. \A r \in Sources : OnSocket(r, k, o) => r = s  BY <1>1 DEF OnSocket, OnlyFrom
  <2> QED BY <1>5, <2>1, <2>2, <2>3 DEF Coming
<1>7. k + 1 = Len(sent) /\ Part(outbox[s], sent[k + 1], o, Len(sent[k + 1]))
  BY <1>6 DEF OnSocket
<1>8. t \in Seq(Tokens) /\ Len(t) \in Nat \ {0}  BY TextType
<1>9. /\ sent' \in Seq(Seq(Tokens)) /\ Len(sent') = Len(sent) /\ Len(sent) \in Nat
      /\ k + 1 \in 1 .. Len(sent)
      /\ sent[k + 1] \in Seq(Tokens) /\ sent'[k + 1] = sent[k + 1] \o t
  <2>1. /\ sent' \in Seq(Seq(Tokens)) /\ Len(sent') = Len(sent) /\ Len(sent) \in Nat
        /\ \A j \in 1 .. Len(sent) :
             sent[j] \in Seq(Tokens) /\ sent'[j] = IF j = Len(sent) THEN sent[j] \o t ELSE sent[j]
    BY <1>1, <1>8, JoinedText
  <2>2. k + 1 \in 1 .. Len(sent)  BY <1>5, <1>7, <2>1
  <2> QED BY <1>7, <2>1, <2>2
<1>10. PICK u, w, v, x : /\ u = sent[k + 1] /\ w = sent'[k + 1]
                         /\ v = outbox[s] /\ x = outbox'[s]
  OBVIOUS
<1>11. u \in Seq(Tokens) /\ v \in Seq(Tokens) /\ w = u \o t /\ x = v \o t
  BY <1>1, <1>3, <1>9, <1>10
<1>12. /\ w \in Seq(Tokens) /\ Len(w) = Len(u) + Len(t) /\ Len(u) \in Nat /\ Len(v) \in Nat
       /\ \A i \in 1 .. Len(u) + Len(t) : w[i] = IF i <= Len(u) THEN u[i] ELSE t[i - Len(u)]
       /\ x \in Seq(Tokens) /\ Len(x) = Len(v) + Len(t)
       /\ \A i \in 1 .. Len(v) + Len(t) : x[i] = IF i <= Len(v) THEN v[i] ELSE t[i - Len(v)]
  BY <1>8, <1>11, ConcatProperties
<1>13. Part(x, w, o, Len(w))
  <2>1. o <= Len(u) /\ Len(v) = Len(u) - o /\ \A i \in 1 .. Len(v) : v[i] = u[o + i]
    BY <1>7, <1>10 DEF Part
  <2>2. o <= Len(w) /\ Len(x) = Len(w) - o  BY <1>5, <1>8, <1>12, <2>1
  <2>4. PICK lu \in Nat, lv \in Nat, lt \in Nat : lu = Len(u) /\ lv = Len(v) /\ lt = Len(t)
    BY <1>8, <1>12
  <2>5. Len(x) = lv + lt /\ lv = lu - o  BY <1>12, <2>1, <2>4
  <2>3. ASSUME NEW i \in 1 .. Len(x) PROVE x[i] = w[o + i]
    <3>4. i \in 1 .. lv + lt /\ o \in Nat  BY <1>5, <2>5
    <3>5. o + i \in 1 .. lu + lt  BY <2>5, <3>4
    <3>1. i \in 1 .. Len(v) + Len(t) /\ o + i \in 1 .. Len(u) + Len(t)
      BY <2>4, <3>4, <3>5
    <3>2. CASE i <= Len(v)
      <4>1. i \in 1 .. Len(v) /\ o + i <= Len(u)  BY <1>5, <1>12, <2>1, <3>1, <3>2
      <4> QED BY <1>12, <2>1, <3>1, <3>2, <4>1
    <3>3. CASE ~(i <= Len(v))
      <4>1. ~(o + i <= Len(u)) /\ (o + i) - Len(u) = i - Len(v)
        BY <2>4, <2>5, <3>3, <3>4
      <4> QED BY <1>12, <3>1, <3>3, <4>1
    <3> QED BY <3>2, <3>3
  <2> QED BY <2>2, <2>3 DEF Part
<1>14. x # <<>>
  <2>1. Len(x) \in Nat \ {0}  BY <1>8, <1>12
  <2>2. Len(<<>>) = 0  OBVIOUS
  <2> QED BY <2>1, <2>2
<1>15. OnlyFrom(s)'  BY <1>1, <1>2, <1>3 DEF OnlyFrom
<1>16. OnSocket(s, k, o)'
  BY <1>1, <1>2, <1>3, <1>7, <1>9, <1>10, <1>13, <1>14, <1>15 DEF OnSocket
<1>17. Coming(K[Len(messages)], O[Len(messages)])'
  <2>1. k = K[Len(messages')] /\ o = O[Len(messages')]  BY <1>1, <1>5
  <2> QED BY <1>16, <2>1 DEF Coming
<1>18. More(k)  BY <1>1, <1>7, <1>8, JoinsMore
<1>19. K[Len(messages)] <= k  BY <1>5
<1>20. Follows(h, a, K, O)'  BY <1>1, <1>4, <1>9, <1>17, <1>18, <1>19, FlowMore
<1>21. (\E m \in 0 .. DataSize : Filled(m))'  BY <1>1 DEF Flowing, Filled
<1> QED BY <1>18, <1>20, <1>21 DEF Flowing

LEMMA ReceivedFlow ==
  ASSUME TypeInv, Flowing, NEW s \in Sources, NEW n \in PacketSizes, Received(s, n),
         ~refused', ~mixed'
  PROVE  Flowing'
<1>1. PICK length : length = Min({n, Len(outbox[s])})  OBVIOUS
<1>2. /\ s # Uart /\ outbox[s] # <<>>
      /\ outbox' = [outbox EXCEPT ![s] = SubSeq(outbox[s], length + 1, Len(outbox[s]))]
      /\ Push(SubSeq(outbox[s], 1, Min({length, MessageSize})))
      /\ refused' = (refused \/ Len(messages) = Capacity \/ length > MessageSize)
      /\ sent' = sent /\ UNCHANGED handlerVars
      /\ dataBuffer' = dataBuffer /\ filled' = filled /\ flags' = flags /\ callback' = callback
  BY <1>1 DEF Received, rxVars
<1>3. /\ outbox \in [Sources -> Seq(Tokens)] /\ outbox[s] \in Seq(Tokens)
      /\ messages \in Seq(Seq(Pushed)) /\ Len(messages) \in Nat /\ Len(messages) <= Capacity
  BY DEF TypeInv, TypeOK
<1>4. n \in Nat \ {0} /\ MessageSize \in Nat /\ Capacity \in Nat
  BY DEF HandlerAssumption
<1>5. Len(outbox[s]) \in Nat \ {0}
  <2>1. outbox[s] \in Seq(Tokens) /\ outbox[s] # <<>>  BY <1>2, <1>3
  <2> QED BY <2>1, EmptySeq
<1>6. length \in Nat \ {0} /\ length <= Len(outbox[s])  BY <1>1, <1>4, <1>5, MinOfTwo
<1>7. length <= MessageSize /\ Len(messages) < Capacity
  <2>1. ~refused'  OBVIOUS
  <2>2. Len(messages) # Capacity /\ ~(length > MessageSize)  BY <1>2, <2>1
  <2> QED BY <1>3, <1>4, <1>6, <2>2
<1>8. Min({length, MessageSize}) = length
  <2>1. MessageSize = length \/ ~(MessageSize <= length)  BY <1>4, <1>6, <1>7
  <2> QED BY <1>4, <1>6, <2>1, MinOfTwo
<1>9. PICK c : c = SubSeq(outbox[s], 1, length)  OBVIOUS
<1>10. messages' = Append(messages, c)  BY <1>2, <1>7, <1>8, <1>9 DEF Push
<1>11. c \in Seq(Tokens) /\ Len(c) = length /\ \A i \in 1 .. length : c[i] = outbox[s][i]
  <2>1. \A i \in 1 .. length : outbox[s][i] \in Tokens  BY <1>3, <1>5, <1>6
  <2>2. 1 \in Int /\ length \in Int  BY <1>6
  <2>3. /\ c \in Seq(Tokens) /\ Len(c) = IF 1 <= length THEN length - 1 + 1 ELSE 0
        /\ \A i \in 1 .. length - 1 + 1 : c[i] = outbox[s][1 + i - 1]
    BY <1>9, <2>1, <2>2, SubSeqProperties
  <2>4. length - 1 + 1 = length /\ \A i \in 1 .. length : 1 + i - 1 = i  BY <1>6
  <2> QED BY <1>6, <2>3, <2>4
<1>12. PICK rest : rest = outbox'[s]  OBVIOUS
<1>28. rest # <<>> => ~EndsAt(Last(sent), Len(Last(sent)) - Len(rest))
  <2>1. rest = SubSeq(outbox[s], length + 1, Len(outbox[s]))  BY <1>2, <1>3, <1>12
  <2> QED BY <1>1, <2>1 DEF Received
<1>13. /\ rest \in Seq(Tokens) /\ Len(rest) = Len(outbox[s]) - length
       /\ \A i \in 1 .. Len(rest) : rest[i] = outbox[s][length + i]
  <2>1. rest = SubSeq(outbox[s], length + 1, Len(outbox[s]))  BY <1>2, <1>3, <1>12
  <2>2. \A i \in length + 1 .. Len(outbox[s]) : outbox[s][i] \in Tokens  BY <1>3, <1>6
  <2>3. length + 1 \in Int /\ Len(outbox[s]) \in Int  BY <1>5, <1>6
  <2>4. /\ rest \in Seq(Tokens)
        /\ Len(rest) = IF length + 1 <= Len(outbox[s])
                       THEN Len(outbox[s]) - (length + 1) + 1 ELSE 0
        /\ \A i \in 1 .. Len(outbox[s]) - (length + 1) + 1 :
             rest[i] = outbox[s][(length + 1) + i - 1]
    BY <2>1, <2>2, <2>3, SubSeqProperties
  <2>5. Len(rest) = Len(outbox[s]) - length  BY <1>5, <1>6, <2>4
  <2>6. ASSUME NEW i \in 1 .. Len(rest) PROVE rest[i] = outbox[s][length + i]
    <3>1. /\ i \in 1 .. Len(outbox[s]) - (length + 1) + 1
          /\ (length + 1) + i - 1 = length + i
      BY <1>5, <1>6, <2>5
    <3> QED BY <2>4, <3>1
  <2> QED BY <2>4, <2>5, <2>6
<1>14. \A r \in Sources \ {s} : outbox'[r] = outbox[r]  BY <1>2, <1>3
<1>15. PICK h, a, K, O : Follows(h, a, K, O)  BY DEF Flowing
<1>16. PICK k \in Nat, o \in Nat : /\ k = K[Len(messages)] /\ o = O[Len(messages)]
                                   /\ Place(k, o) /\ Coming(k, o)
  BY <1>15, LastPlace
<1>17. OnSocket(s, k, o)
  <2>1. ~Nothing(k, o)  BY <1>2 DEF Nothing
  <2>2. ~OnUart(k, o) /\ ~InCallback(k, o)  BY <1>2 DEF OnUart, InCallback, OnlyFrom
  <2>3. \A r \in Sources : OnSocket(r, k, o) => r = s  BY <1>2 DEF OnSocket, OnlyFrom
  <2> QED BY <1>16, <2>1, <2>2, <2>3 DEF Coming
<1>18. /\ OnlyFrom(s) /\ filled = 0 /\ ~callback
       /\ k + 1 = Len(sent) /\ Part(outbox[s], sent[k + 1], o, Len(sent[k + 1]))
  BY <1>17 DEF OnSocket
<1>19. PICK t : t = sent[k + 1]  OBVIOUS
<1>20. Len(t) \in Nat
  <2>1. k + 1 \in 1 .. Len(sent)  BY <1>16, <1>18
  <2> QED BY <1>19, <2>1, SentText
<1>21. /\ o <= Len(t) /\ Len(outbox[s]) = Len(t) - o
       /\ \A i \in 1 .. Len(outbox[s]) : outbox[s][i] = t[o + i]
  BY <1>18, <1>19 DEF Part
<1>22. \A i \in 1 .. length : c[i] = t[o + i]
  <2> SUFFICES ASSUME NEW i \in 1 .. length PROVE c[i] = t[o + i]  OBVIOUS
  <2>1. i \in 1 .. Len(outbox[s])  BY <1>5, <1>6
  <2> QED BY <1>11, <1>21, <2>1
<1>23. (\E m \in 0 .. DataSize : Filled(m))'  BY <1>2 DEF Flowing, Filled
<1>24. k < Len(sent) /\ k + 1 \in 0 .. Len(sent)  BY <1>16, <1>18
<1>25. c \in Seq(Pushed)  BY <1>11, TokensArePushed
<1>26. CASE length < Len(outbox[s])
  <2>1. PICK o2 \in Nat : o2 = o + length  BY <1>6
  <2>2. o < o2 /\ o2 < Len(t)  BY <1>6, <1>20, <1>21, <1>26, <2>1
  <2>3. Part(c, t, o, o2)  BY <1>6, <1>11, <1>22, <2>1 DEF Part
  <2>12. rest # <<>> /\ Len(t) - Len(rest) = o2 /\ Last(sent) = t
    <3>1. Len(rest) # 0 /\ Len(t) - Len(rest) = o2  BY <1>5, <1>6, <1>13, <1>20, <1>21, <1>26, <2>1
    <3>2. rest # <<>>
      <4>1. Len(<<>>) = 0  OBVIOUS
      <4> QED BY <3>1, <4>1
    <3> QED BY <1>18, <1>19, <3>1, <3>2 DEF Last
  <2>4. Place(k, o2)
    <3>1. ~EndsAt(t, o2)  BY <1>28, <2>12
    <3> QED BY <1>16, <1>19, <1>24, <2>2, <3>1 DEF Place
  <2>5. Leads(c, k, o, k, o2)  BY <1>19, <1>24, <2>2, <2>3 DEF Leads
  <2>6. Part(rest, t, o2, Len(t))
    <3>1. Len(rest) = Len(t) - o2  BY <1>5, <1>6, <1>13, <1>20, <1>21, <2>1
    <3>2. ASSUME NEW i \in 1 .. Len(rest) PROVE rest[i] = t[o2 + i]
      <4>1. length + i \in 1 .. Len(outbox[s]) /\ o + (length + i) = o2 + i
        BY <1>5, <1>6, <1>13, <2>1
      <4> QED BY <1>13, <1>21, <4>1
    <3> QED BY <1>20, <2>2, <3>1, <3>2 DEF Part
  <2>8. OnSocket(s, k, o2)'
    BY <1>2, <1>12, <1>14, <1>18, <1>19, <2>6, <2>12 DEF OnSocket, OnlyFrom
  <2>9. Coming(k, o2)'  BY <2>8 DEF Coming
  <2>10. Leads(c, K[Len(messages)], O[Len(messages)], k, o2)  BY <1>16, <2>5
  <2>11. \E K2, O2 : Follows(h, a, K2, O2)'
    BY <1>2, <1>10, <1>15, <1>25, <2>4, <2>9, <2>10, FlowPushed
  <2> QED BY <1>23, <2>11 DEF Flowing
<1>27. CASE ~(length < Len(outbox[s]))
  <2>1. PICK k2 \in Nat : k2 = k + 1  BY <1>16
  <2>2. length = Len(outbox[s]) /\ length = Len(t) - o  BY <1>5, <1>6, <1>21, <1>27
  <2>3. Part(c, t, o, Len(t))  BY <1>11, <1>21, <1>22, <2>2 DEF Part
  <2>4. Place(k2, 0)  BY <1>24, <2>1 DEF Place
  <2>5. Leads(c, k, o, k2, 0)  BY <1>19, <1>24, <2>1, <2>3 DEF Leads
  <2>6. rest = <<>>
    <3>1. Len(rest) = 0  BY <1>5, <1>13, <2>2
    <3> QED BY <1>13, <3>1, EmptySeq
  <2>7. \A r \in Sources : outbox'[r] = <<>>
    <3> SUFFICES ASSUME NEW r \in Sources PROVE outbox'[r] = <<>>  OBVIOUS
    <3>1. CASE r = s  BY <1>12, <2>6, <3>1
    <3>2. CASE r # s  BY <1>14, <1>18, <3>2 DEF OnlyFrom
    <3> QED BY <3>1, <3>2
  <2>8. Nothing(k2, 0)'  BY <1>2, <1>18, <2>1, <2>7 DEF Nothing
  <2>9. Coming(k2, 0)'  BY <2>8 DEF Coming
  <2>10. Leads(c, K[Len(messages)], O[Len(messages)], k2, 0)  BY <1>16, <2>5
  <2>11. \E K2, O2 : Follows(h, a, K2, O2)'
    BY <1>2, <1>10, <1>15, <1>25, <2>4, <2>9, <2>10, FlowPushed
  <2> QED BY <1>23, <2>11 DEF Flowing
<1> QED BY <1>26, <1>27

LEMMA UartStoreFlow ==
  ASSUME TypeInv, Flowing, UartStore, ~mixed'
  PROVE  Flowing'
<1>1. /\ Uart \in Sources /\ outbox[Uart] # <<>>
      /\ outbox' = [outbox EXCEPT ![Uart] = Tail(@)]
      /\ mixed' = (mixed \/ callback)
      /\ messages' = messages /\ sent' = sent /\ UNCHANGED handlerVars
  BY DEF UartStore
<1>2. /\ filled < DataSize /\ flags = {} /\ filled' = filled + 1
      /\ dataBuffer' = [dataBuffer EXCEPT ![filled + 1] = Head(outbox[Uart])]
      /\ flags' = flags \cup {f \in {"HT", "TC"} :
                            filled' = (IF f = "HT" THEN DataSize \div 2 ELSE DataSize)}
      /\ callback' = callback
  BY DEF UartStore, Store
<1>3. /\ outbox \in [Sources -> Seq(Tokens)] /\ filled \in Nat /\ DataSize \in Nat
      /\ dataBuffer \in [1 .. DataSize -> Tokens \cup {"nul"}]
  BY DEF TypeInv, TypeOK, RxTypeOK, UartRxAssumption
<1>4. ~callback  BY <1>1
<1>5. PICK h, a, K, O : Follows(h, a, K, O)  BY DEF Flowing
<1>6. PICK k \in Nat, o \in Nat : /\ k = K[Len(messages)] /\ o = O[Len(messages)]
                                  /\ Place(k, o) /\ Coming(k, o)
  BY <1>5, LastPlace
<1>7. OnUart(k, o)
  <2>1. ~Nothing(k, o)  BY <1>1 DEF Nothing
  <2>2. ~InCallback(k, o)  BY <1>4 DEF InCallback
  <2>3. \A r \in Sources : ~OnSocket(r, k, o)  BY <1>1 DEF OnSocket, OnlyFrom
  <2> QED BY <1>6, <2>1, <2>2, <2>3 DEF Coming
<1>8. PICK t : t = sent[k + 1]  OBVIOUS
<1>9. /\ OnlyFrom(Uart) /\ k + 1 = Len(sent) /\ o = 0
      /\ Part(outbox[Uart], t, filled, Len(t))
      /\ \A i \in 1 .. filled : dataBuffer[i] = t[i]
  BY <1>7, <1>8 DEF OnUart
<1>10. Len(t) \in Nat
  <2>1. k + 1 \in 1 .. Len(sent)  BY <1>6, <1>9
  <2> QED BY <1>8, <2>1, SentText
<1>11. /\ filled <= Len(t) /\ Len(outbox[Uart]) = Len(t) - filled
       /\ \A i \in 1 .. Len(outbox[Uart]) : outbox[Uart][i] = t[filled + i]
  BY <1>9 DEF Part
<1>12. outbox[Uart] \in Seq(Tokens)  BY <1>1, <1>3
<1>13. Len(outbox[Uart]) \in Nat \ {0} /\ Head(outbox[Uart]) = outbox[Uart][1]
  <2>1. Len(outbox[Uart]) \in Nat \ {0}  BY <1>1, <1>12, EmptySeq
  <2> QED BY <2>1, <1>12
<1>14. Head(outbox[Uart]) = t[filled + 1] /\ Head(outbox[Uart]) # "nul"
  <2>1. 1 \in 1 .. Len(outbox[Uart])  BY <1>13
  <2>2. Head(outbox[Uart]) \in Tokens  BY <1>1, <1>12, HeadTailProperties
  <2> QED BY <1>11, <1>13, <2>1, <2>2, NoNul
<1>15. /\ outbox'[Uart] = Tail(outbox[Uart]) /\ \A r \in Sources \ {Uart} : outbox'[r] = outbox[r]
       /\ Len(Tail(outbox[Uart])) = Len(outbox[Uart]) - 1
       /\ \A i \in 1 .. Len(Tail(outbox[Uart])) : Tail(outbox[Uart])[i] = outbox[Uart][i + 1]
  BY <1>1, <1>3, <1>12, HeadTailProperties
<1>16. /\ filled + 1 \in 1 .. DataSize /\ dataBuffer'[filled + 1] = Head(outbox[Uart])
       /\ \A i \in 1 .. DataSize : i # filled + 1 => dataBuffer'[i] = dataBuffer[i]
  BY <1>2, <1>3
<1>17. Part(outbox[Uart], t, filled, Len(t))'
  <2>1. t = t'  OBVIOUS
  <2>2. filled' <= Len(t) /\ Len(outbox'[Uart]) = Len(t) - filled'
    BY <1>2, <1>3, <1>10, <1>11, <1>13, <1>15
  <2>3. ASSUME NEW i \in 1 .. Len(outbox'[Uart]) PROVE outbox'[Uart][i] = t[filled' + i]
    <3>1. i + 1 \in 1 .. Len(outbox[Uart]) /\ filled + (i + 1) = filled' + i
      BY <1>2, <1>3, <1>13, <1>15
    <3> QED BY <1>11, <1>15, <3>1
  <2> QED BY <2>2, <2>3 DEF Part
<1>18. \A i \in 1 .. filled' : dataBuffer'[i] = t[i]
  <2> SUFFICES ASSUME NEW i \in 1 .. filled' PROVE dataBuffer'[i] = t[i]  OBVIOUS
  <2>1. CASE i = filled + 1  BY <1>14, <1>16, <2>1
  <2>2. CASE i # filled + 1
    <3>1. i \in 1 .. filled /\ i \in 1 .. DataSize  BY <1>2, <1>3, <2>2
    <3> QED BY <1>9, <1>16, <2>2, <3>1
  <2> QED BY <2>1, <2>2
<1>19. OnUart(k, o)'
  <2>1. OnlyFrom(Uart)'  BY <1>9, <1>15 DEF OnlyFrom
  <2> QED BY <1>1, <1>2, <1>4, <1>8, <1>9, <1>17, <1>18, <2>1 DEF OnUart
<1>20. Coming(K[Len(messages)], O[Len(messages)])'
  <2>1. k = K[Len(messages')] /\ o = O[Len(messages')]  BY <1>1, <1>6
  <2> QED BY <1>19, <2>1 DEF Coming
<1>21. Follows(h, a, K, O)'  BY <1>1, <1>5, <1>20, FlowKept
<1>22. PICK m \in 0 .. DataSize : Filled(m)  BY DEF Flowing
<1>23. /\ \A i \in 1 .. DataSize : dataBuffer[i] # "nul" <=> i <= m
       /\ filled <= m /\ (m = DataSize => flags # {})
       /\ \A i \in 1 .. m : m < i + TermLen /\ filled < i => dataBuffer[i] = "cr"
       /\ TermLen \in Nat
  BY <1>22 DEF Filled, HandlerAssumption
<1>24. PICK m2 : m2 = IF m = filled THEN filled + 1 ELSE m  OBVIOUS
<1>25. m \in Nat /\ m < DataSize /\ m2 \in 0 .. DataSize /\ filled' <= m2 /\ m <= m2
  BY <1>2, <1>3, <1>22, <1>23, <1>24
<1>26. \A i \in 1 .. DataSize : dataBuffer'[i] # "nul" <=> i <= m2
  <2> SUFFICES ASSUME NEW i \in 1 .. DataSize PROVE dataBuffer'[i] # "nul" <=> i <= m2
    OBVIOUS
  <2>1. CASE i = filled + 1
    <3>1. i <= m2  BY <1>2, <1>3, <1>25, <2>1
    <3> QED BY <1>14, <1>16, <2>1, <3>1
  <2>2. CASE i # filled + 1
    <3>1. dataBuffer'[i] = dataBuffer[i]  BY <1>16, <2>2
    <3>2. i <= m <=> i <= m2  BY <1>3, <1>24, <1>25, <2>2
    <3> QED BY <1>23, <3>1, <3>2
  <2> QED BY <2>1, <2>2
<1>27. m2 = DataSize => flags' # {}
  <2>1. ASSUME m2 = DataSize PROVE "TC" \in flags'
    <3>1. filled' = DataSize  BY <1>2, <1>3, <1>24, <1>25, <2>1
    <3> QED BY <1>2, <3>1
  <2> QED BY <2>1
<1>28. \A i \in 1 .. m2 : m2 < i + TermLen /\ filled' < i => dataBuffer'[i] = "cr"
  <2> SUFFICES ASSUME NEW i \in 1 .. m2, m2 < i + TermLen, filled' < i
               PROVE  dataBuffer'[i] = "cr"
    OBVIOUS
  <2>1. m2 = m /\ i \in 1 .. m /\ filled < i /\ i # filled + 1 /\ i \in 1 .. DataSize
    BY <1>2, <1>3, <1>24, <1>25
  <2> QED BY <1>16, <1>23, <2>1
<1>29. Filled(m2)'  BY <1>25, <1>26, <1>27, <1>28 DEF Filled
<1>30. (\E x \in 0 .. DataSize : Filled(x))'  BY <1>25, <1>29
<1> QED BY <1>21, <1>30 DEF Flowing

LEMMA UartEventFlow ==
  ASSUME TypeInv, Flowing, NEW e \in Events, UartEvent(e), ~mixed'
  PROVE  Flowing'
<1>1. /\ ~callback /\ Raised(e)
      /\ callback' = TRUE /\ flags' = flags \ {e} /\ filled' = (IF e = "HT" THEN filled ELSE 0)
      /\ dataBuffer' = dataBuffer /\ outbox' = outbox
      /\ mixed' = (mixed \/ e # "IDLE" \/ outbox[Uart] # <<>>)
      /\ messages' = messages /\ sent' = sent /\ UNCHANGED handlerVars
  BY DEF UartEvent, Event
<1>2. e = "IDLE" /\ outbox[Uart] = <<>>  BY <1>1
<1>3. flags = {} /\ flags' = {} /\ filled' = 0 /\ 0 < filled /\ filled < DataSize
  <2>1. flags \subseteq {"HT", "TC"}  BY DEF TypeInv, TypeOK, RxTypeOK
  <2>2. e \notin flags  BY <1>2, <2>1
  <2>3. flags = {} /\ 0 < filled /\ filled < DataSize  BY <1>1, <2>2 DEF Raised
  <2> QED BY <1>1, <1>2, <2>3
<1>4. filled \in Nat /\ DataSize \in Nat
  BY DEF TypeInv, TypeOK, RxTypeOK, UartRxAssumption
<1>5. PICK h, a, K, O : Follows(h, a, K, O)  BY DEF Flowing
<1>6. PICK k \in Nat, o \in Nat : /\ k = K[Len(messages)] /\ o = O[Len(messages)]
                                  /\ Place(k, o) /\ Coming(k, o)
  BY <1>5, LastPlace
<1>7. OnUart(k, o)
  <2>1. ~(filled = 0)  BY <1>3, <1>4
  <2>2. ~Nothing(k, o) /\ ~InCallback(k, o) /\ \A r \in Sources : ~OnSocket(r, k, o)
    BY <2>1 DEF Nothing, InCallback, OnSocket
  <2> QED BY <1>6, <2>2 DEF Coming
<1>8. /\ Uart \in Sources /\ OnlyFrom(Uart) /\ k + 1 = Len(sent) /\ o = 0
      /\ Part(outbox[Uart], sent[k + 1], filled, Len(sent[k + 1]))
      /\ \A i \in 1 .. filled : dataBuffer[i] = sent[k + 1][i]
  BY <1>7 DEF OnUart
<1>9. k + 1 \in 1 .. Len(sent)  BY <1>6, <1>8
<1>10. PICK t : t = sent[k + 1]  OBVIOUS
<1>11. Len(t) \in Nat \ {0} /\ IsEndOfMessage(t)  BY <1>9, <1>10, SentText
<1>12. Len(t) = filled
  <2>1. Len(outbox[Uart]) = Len(t) - filled  BY <1>8, <1>10 DEF Part
  <2>2. Len(outbox[Uart]) = 0  BY <1>2
  <2> QED BY <1>4, <1>11, <2>1, <2>2
<1>13. InCallback(k, o)'
  <2>1. OnlyFrom(Uart)'  BY <1>1, <1>8 DEF OnlyFrom
  <2>2. k < Len(sent)  BY <1>6, <1>8
  <2>3. Len(t) <= DataSize /\ \A i \in 1 .. Len(t) : dataBuffer[i] = t[i]
    BY <1>3, <1>4, <1>8, <1>10, <1>12
  <2> QED BY <1>1, <1>2, <1>3, <1>8, <1>10, <2>1, <2>2, <2>3 DEF InCallback
<1>14. Coming(K[Len(messages)], O[Len(messages)])'
  <2>1. k = K[Len(messages')] /\ o = O[Len(messages')]  BY <1>1, <1>6
  <2> QED BY <1>13, <2>1 DEF Coming
<1>15. Follows(h, a, K, O)'  BY <1>1, <1>5, <1>14, FlowKept
<1>16. PICK m \in 0 .. DataSize : Filled(m)  BY DEF Flowing
<1>17. /\ \A i \in 1 .. DataSize : dataBuffer[i] # "nul" <=> i <= m
       /\ filled <= m /\ (m = DataSize => flags # {})
       /\ \A i \in 1 .. m : m < i + TermLen /\ filled < i => dataBuffer[i] = "cr"
       /\ TermLen \in Nat \ {0}
  BY <1>16 DEF Filled, HandlerAssumption
<1>18. \A i \in 1 .. m : m < i + TermLen => dataBuffer[i] = "cr"
  <2> SUFFICES ASSUME NEW i \in 1 .. m, m < i + TermLen PROVE dataBuffer[i] = "cr"
    OBVIOUS
  <2>1. CASE filled < i  BY <1>17, <2>1
  <2>2. CASE ~(filled < i)
    <3>1. i \in 1 .. Len(t) /\ i \in Len(t) - TermLen + 1 .. Len(t)
      BY <1>4, <1>11, <1>12, <1>17, <2>2
    <3>2. t[i] = "cr"  BY <1>11, <3>1 DEF IsEndOfMessage, EndsAt
    <3> QED BY <1>8, <1>10, <1>12, <3>1, <3>2
  <2> QED BY <2>1, <2>2
<1>19. Filled(m)'
  <2>1. m \in Nat /\ m # DataSize /\ 0 <= m  BY <1>3, <1>16, <1>17
  <2> QED BY <1>1, <1>3, <1>17, <1>18, <2>1 DEF Filled
<1>20. (\E x \in 0 .. DataSize : Filled(x))'  BY <1>16, <1>19
<1> QED BY <1>15, <1>20 DEF Flowing

(* The text that the callback copies: leftovers of dataBuffer may follow   *)
(* the message, but they end like one.                                     *)
LEMMA LineCovers ==
  ASSUME TypeInv, NEW m \in 0 .. DataSize, Filled(m), flags = {}, filled = 0,
         NEW t \in Seq(Tokens), t # <<>>, IsEndOfMessage(t), Len(t) <= DataSize,
         \A i \in 1 .. Len(t) : dataBuffer[i] = t[i]
  PROVE  Line \in Seq(Pushed) /\ Covers(Line, t)
<1>1. /\ dataBuffer \in [1 .. DataSize -> Tokens \cup {"nul"}] /\ RxTypeOK(Tokens)
      /\ DataSize \in Nat \ {0} /\ TermLen \in Nat \ {0} /\ Len(t) \in Nat \ {0} /\ m \in Nat
  BY EmptySeq DEF TypeInv, TypeOK, RxTypeOK, UartRxAssumption, HandlerAssumption
<1>2. /\ \A i \in 1 .. DataSize : dataBuffer[i] # "nul" <=> i <= m
      /\ m # DataSize
      /\ \A i \in 1 .. m : m < i + TermLen /\ filled < i => dataBuffer[i] = "cr"
  BY DEF Filled
<1>3. m < DataSize  BY <1>1, <1>2
<1>4. Len(t) <= m /\ TermLen <= Len(t)
  <2>1. Len(t) \in 1 .. Len(t) /\ Len(t) \in 1 .. DataSize  BY <1>1
  <2>2. t[Len(t)] \in Tokens  BY <2>1
  <2>3. dataBuffer[Len(t)] # "nul"  BY <2>1, <2>2, NoNul
  <2> QED BY <1>1, <1>2, <2>1, <2>3 DEF IsEndOfMessage, EndsAt
<1> DEFINE nuls == {i \in 1 .. DataSize : dataBuffer[i] = "nul"}
           first == CHOOSE i \in nuls : \A j \in nuls : i <= j
<1>5. m + 1 \in nuls /\ \A j \in nuls : m + 1 <= j
  <2>1. m + 1 \in 1 .. DataSize /\ ~(m + 1 <= m)  BY <1>1, <1>3
  <2>2. \A j \in nuls : j \in Nat /\ ~(j <= m)  BY <1>2
  <2> QED BY <1>1, <1>2, <2>1, <2>2
<1>6. first = m + 1
  <2>1. first \in nuls /\ \A j \in nuls : first <= j  BY <1>5
  <2>2. first \in Nat /\ first <= m + 1 /\ m + 1 <= first  BY <1>5, <2>1
  <2> HIDE DEF first
  <2> QED BY <1>1, <2>2
<1>7. Line = SubSeq(dataBuffer, 1, first - 1)  BY <1>5 DEF Line
<1>8. PICK c : c = Line  OBVIOUS
<1>9. c = SubSeq(dataBuffer, 1, m)
  <2> HIDE DEF first
  <2>1. first - 1 = m  BY <1>1, <1>6
  <2> QED BY <1>7, <1>8, <2>1
<1>10. Len(c) = m /\ \A i \in 1 .. m : c[i] = dataBuffer[i]
  <2>1. \A i \in 1 .. m : dataBuffer[i] \in Tokens \cup {"nul"}  BY <1>1, <1>3
  <2>2. 1 \in Int /\ m \in Int  BY <1>1
  <2>3. /\ Len(c) = IF 1 <= m THEN m - 1 + 1 ELSE 0
        /\ \A i \in 1 .. m - 1 + 1 : c[i] = dataBuffer[1 + i - 1]
    BY <1>9, <2>1, <2>2, SubSeqProperties
  <2>4. m - 1 + 1 = m /\ (IF 1 <= m THEN m - 1 + 1 ELSE 0) = m  BY <1>1
  <2>5. \A i \in 1 .. m : 1 + i - 1 = i  BY <1>1
  <2> QED BY <2>3, <2>4, <2>5
<1>11. \A i \in 1 .. Len(t) : c[i] = t[i]
  <2> SUFFICES ASSUME NEW i \in 1 .. Len(t) PROVE c[i] = t[i]  OBVIOUS
  <2>1. i \in 1 .. m  BY <1>1, <1>4
  <2> QED BY <1>10, <2>1
<1>12. IsEndOfMessage(c)
  <2>1. TermLen <= m  BY <1>1, <1>4
  <2>2. ASSUME NEW i \in m - TermLen + 1 .. m PROVE c[i] = "cr"
    <3>1. i \in 1 .. m /\ m < i + TermLen /\ 0 < i  BY <1>1, <2>1
    <3> QED BY <1>2, <1>10, <3>1
  <2> QED BY <1>1, <1>10, <2>1, <2>2 DEF IsEndOfMessage, EndsAt
<1>13. Covers(c, t)  BY <1>1, <1>3, <1>4, <1>10, <1>11, <1>12 DEF Covers
<1> QED BY <1>1, <1>8, <1>13, LineFits

LEMMA CallbackFlow ==
  ASSUME TypeInv, Flowing, uartRXReceived, ~refused'
  PROVE  Flowing'
<1>1. /\ callback /\ callback' = FALSE
      /\ dataBuffer' = dataBuffer /\ filled' = filled /\ flags' = flags
      /\ Push(Line) /\ refused' = (refused \/ Len(messages) = Capacity)
      /\ outbox' = outbox /\ sent' = sent /\ mixed' = mixed /\ UNCHANGED handlerVars
  BY DEF uartRXReceived, CallbackEnds
<1>2. PICK h, a, K, O : Follows(h, a, K, O)  BY DEF Flowing
<1>3. PICK k \in Nat, o \in Nat : /\ k = K[Len(messages)] /\ o = O[Len(messages)]
                                  /\ Place(k, o) /\ Coming(k, o)
  BY <1>2, LastPlace
<1>4. InCallback(k, o)
  <2>1. ~Nothing(k, o) /\ ~OnUart(k, o) /\ \A r \in Sources : ~OnSocket(r, k, o)
    BY <1>1 DEF Nothing, OnUart, OnSocket
  <2> QED BY <1>3, <2>1 DEF Coming
<1>5. /\ Uart \in Sources /\ OnlyFrom(Uart) /\ filled = 0 /\ flags = {}
      /\ k < Len(sent) /\ o = 0 /\ Len(sent[k + 1]) <= DataSize
      /\ \A i \in 1 .. Len(sent[k + 1]) : dataBuffer[i] = sent[k + 1][i]
      /\ \/ k + 1 = Len(sent) /\ outbox[Uart] = <<>>
         \/ k + 2 = Len(sent) /\ outbox[Uart] = sent[k + 2]
  BY <1>4 DEF InCallback
<1>6. Len(sent) \in Nat /\ k + 1 \in 1 .. Len(sent)  BY <1>3, <1>5, SentTexts
<1>7. PICK t : t = sent[k + 1]  OBVIOUS
<1>8. t \in Seq(Tokens) /\ t # <<>> /\ IsEndOfMessage(t)  BY <1>6, <1>7, SentText
<1>9. PICK m \in 0 .. DataSize : Filled(m)  BY DEF Flowing
<1>10. PICK c : c = Line  OBVIOUS
<1>11. c \in Seq(Pushed) /\ Covers(c, t)  BY <1>5, <1>7, <1>8, <1>9, <1>10, LineCovers
<1>12. messages' = Append(messages, c)
  <2>1. ~refused'  OBVIOUS
  <2>2. Len(messages) # Capacity  BY <1>1, <2>1
  <2>3. Len(messages) \in Nat /\ Len(messages) <= Capacity /\ Capacity \in Nat
    BY DEF TypeInv, TypeOK, HandlerAssumption
  <2>4. Len(messages) < Capacity  BY <2>2, <2>3
  <2> QED BY <1>1, <1>10, <2>4 DEF Push
<1>13. PICK k2 \in Nat : k2 = k + 1  BY <1>3
<1>14. Place(k2, 0)  BY <1>6, <1>13 DEF Place
<1>15. Leads(c, k, o, k2, 0)  BY <1>5, <1>7, <1>11, <1>13 DEF Leads
<1>16. Coming(k2, 0)'
  <2>1. CASE k + 1 = Len(sent) /\ outbox[Uart] = <<>>
    <3>1. \A r \in Sources : outbox[r] = <<>>  BY <1>5, <2>1 DEF OnlyFrom
    <3>2. Nothing(k2, 0)'  BY <1>1, <1>5, <1>13, <2>1, <3>1 DEF Nothing
    <3> QED BY <3>2 DEF Coming
  <2>2. CASE k + 2 = Len(sent) /\ outbox[Uart] = sent[k + 2]
    <3>1. k2 + 1 = k + 2 /\ k2 + 1 \in 1 .. Len(sent)  BY <1>3, <1>6, <1>13, <2>2
    <3>2. outbox[Uart] = sent[k2 + 1] /\ Len(sent[k2 + 1]) \in Nat  BY <2>2, <3>1, SentText
    <3>3. Part(outbox[Uart], sent[k2 + 1], 0, Len(sent[k2 + 1]))  BY <3>2 DEF Part
    <3>4. OnlyFrom(Uart)'  BY <1>1, <1>5 DEF OnlyFrom
    <3>5. \A i \in 1 .. filled' : dataBuffer'[i] = sent'[k2 + 1][i]  BY <1>1, <1>5
    <3>6. OnUart(k2, 0)'  BY <1>1, <1>5, <2>2, <3>1, <3>3, <3>4, <3>5 DEF OnUart
    <3> QED BY <3>6 DEF Coming
  <2> QED BY <1>5, <2>1, <2>2
<1>17. Leads(c, K[Len(messages)], O[Len(messages)], k2, 0)  BY <1>3, <1>15
<1>18. \E K2, O2 : Follows(h, a, K2, O2)'
  BY <1>1, <1>2, <1>11, <1>12, <1>14, <1>16, <1>17, FlowPushed
<1>19. (\E x \in 0 .. DataSize : Filled(x))'  BY <1>1, <1>9 DEF Filled
<1> QED BY <1>18, <1>19 DEF Flowing

LEMMA PieceNotEmpty ==
  ASSUME TypeInv, NEW c, NEW k \in Nat, NEW o \in Nat, NEW k2 \in Nat, NEW o2 \in Nat,
         Place(k, o), Leads(c, k, o, k2, o2)
  PROVE  c # <<>>
<1>1. k + 1 \in 1 .. Len(sent)
  <2>1. k < Len(sent) /\ Len(sent) \in Nat  BY SentTexts DEF Leads
  <2> QED BY <2>1
<1>2. PICK t : t = sent[k + 1]  OBVIOUS
<1>3. Len(t) \in Nat \ {0} /\ (o # 0 => o < Len(t))  BY <1>1, <1>2, SentText DEF Place
<1>4. \/ o < o2 /\ Len(c) = o2 - o
      \/ Len(c) = Len(t) - o
      \/ Len(t) <= Len(c) /\ Len(c) <= DataSize
  BY <1>2 DEF Leads, Part, Covers
<1>5. CASE c = <<>>
  <2>1. Len(c) = 0  BY <1>5
  <2> QED BY <1>3, <1>4, <2>1
<1> QED BY <1>5

LEMMA PopFlow ==
  ASSUME TypeInv, Flowing, Pop
  PROVE  Flowing'
<1>1. /\ message = <<>> /\ messages # <<>>
      /\ message' = Head(messages) /\ messages' = Tail(messages)
      /\ outbox' = outbox /\ sent' = sent
      /\ dataBuffer' = dataBuffer /\ filled' = filled /\ flags' = flags /\ callback' = callback
      /\ stringBuffer' = stringBuffer /\ executed' = executed
  BY DEF Pop, peerVars, rxVars
<1>2. PICK h, a, K, O : Follows(h, a, K, O)  BY DEF Flowing
<1>3. PICK n : n = Len(messages)  OBVIOUS
<1>4. messages \in Seq(Seq(Pushed))  BY DEF TypeInv, TypeOK
<1>5. n \in Nat \ {0}  BY <1>1, <1>3, <1>4, EmptySeq
<1>6. /\ message' = messages[1] /\ Len(messages') = n - 1
      /\ \A j \in 1 .. n - 1 : messages'[j] = messages[j + 1]
  BY <1>1, <1>3, <1>4, HeadTailProperties
<1>7. /\ K \in [0 .. n -> Nat] /\ O \in [0 .. n -> Nat]
      /\ \A j \in 0 .. n : Place(K[j], O[j])
      /\ \A j \in 1 .. n : Leads(messages[j], K[j - 1], O[j - 1], K[j], O[j])
      /\ Place(h, a) /\ K[0] = h /\ O[0] = a
      /\ Part(stringBuffer, sent[h + 1], 0, a)
      /\ Told(h)
      /\ Coming(K[n], O[n])
  BY <1>1, <1>2, <1>3 DEF Follows
<1>8. PICK K2, O2 :
        /\ K2 \in [0 .. n - 1 -> Nat] /\ O2 \in [0 .. n - 1 -> Nat]
        /\ \A j \in 0 .. n - 1 : K2[j] = K[j + 1] /\ O2[j] = O[j + 1]
  <2> DEFINE X == [j \in 0 .. n - 1 |-> K[j + 1]]
             Y == [j \in 0 .. n - 1 |-> O[j + 1]]
  <2>1. /\ X \in [0 .. n - 1 -> Nat] /\ Y \in [0 .. n - 1 -> Nat]
        /\ \A j \in 0 .. n - 1 : X[j] = K[j + 1] /\ Y[j] = O[j + 1]
    BY <1>5, <1>7
  <2> HIDE DEF X, Y
  <2> QED BY <2>1
<1>9. \A x, y : Place(x, y)' <=> Place(x, y)  BY <1>1 DEF Place
<1>10. \A d, x, y, x2, y2 : Leads(d, x, y, x2, y2)' <=> Leads(d, x, y, x2, y2)
  BY <1>1 DEF Leads
<1>11. \A x, y : Coming(x, y)' <=> Coming(x, y)
  BY <1>1 DEF Coming, Nothing, OnSocket, OnUart, InCallback, OnlyFrom
<1>12. \A j \in 0 .. n - 1 : Place(K2[j], O2[j])
  <2> SUFFICES ASSUME NEW j \in 0 .. n - 1 PROVE Place(K2[j], O2[j])  OBVIOUS
  <2>1. j + 1 \in 0 .. n  BY <1>5
  <2> QED BY <1>7, <1>8, <2>1
<1>13. \A j \in 1 .. n - 1 : Leads(messages'[j], K2[j - 1], O2[j - 1], K2[j], O2[j])
  <2> SUFFICES ASSUME NEW j \in 1 .. n - 1
               PROVE  Leads(messages'[j], K2[j - 1], O2[j - 1], K2[j], O2[j])
    OBVIOUS
  <2>1. /\ j + 1 \in 1 .. n /\ j \in 0 .. n - 1 /\ j - 1 \in 0 .. n - 1
        /\ (j + 1) - 1 = j /\ (j - 1) + 1 = j
    BY <1>5
  <2>2. Leads(messages[j + 1], K[j], O[j], K[j + 1], O[j + 1])  BY <1>7, <2>1
  <2>3. /\ K2[j - 1] = K[j] /\ O2[j - 1] = O[j] /\ K2[j] = K[j + 1] /\ O2[j] = O[j + 1]
    BY <1>8, <2>1
  <2> QED BY <1>6, <2>2, <2>3
<1>14. Leads(message', h, a, K2[0], O2[0])
  <2>1. 1 \in 1 .. n /\ 0 \in 0 .. n - 1 /\ 1 - 1 = 0 /\ 0 + 1 = 1  BY <1>5
  <2>2. Leads(messages[1], K[0], O[0], K[1], O[1])  BY <1>7, <2>1
  <2>3. K2[0] = K[1] /\ O2[0] = O[1]  BY <1>8, <2>1
  <2> QED BY <1>6, <1>7, <2>2, <2>3
<1>15. message' # <<>>
  <2>1. 0 \in 0 .. n - 1 /\ 0 \in 0 .. n  BY <1>5
  <2>2. h \in Nat /\ a \in Nat /\ K2[0] \in Nat /\ O2[0] \in Nat  BY <1>7, <1>8, <2>1
  <2> QED BY <1>7, <1>14, <2>2, PieceNotEmpty
<1>16. Coming(K2[Len(messages)], O2[Len(messages)])'
  <2>1. n - 1 \in 0 .. n - 1 /\ (n - 1) + 1 = n  BY <1>5
  <2>2. PICK k, o : k = K[n] /\ o = O[n]  OBVIOUS
  <2>3. k = K2[Len(messages')] /\ o = O2[Len(messages')]  BY <1>6, <1>8, <2>1, <2>2
  <2>4. Coming(k, o)'  BY <1>7, <1>11, <2>2
  <2> QED BY <2>3, <2>4 DEF Coming, Nothing, OnSocket, OnUart, InCallback
<1>17. /\ \A j \in 0 .. Len(messages') : Place(K2[j], O2[j])'
       /\ Place(h, a)'
  BY <1>6, <1>7, <1>9, <1>12
<1>18. \A j \in 1 .. Len(messages') : Leads(messages[j], K2[j - 1], O2[j - 1], K2[j], O2[j])'
  <2> SUFFICES ASSUME NEW j \in 1 .. Len(messages')
               PROVE  Leads(messages[j], K2[j - 1], O2[j - 1], K2[j], O2[j])'
    OBVIOUS
  <2>1. Leads(messages'[j], K2[j - 1], O2[j - 1], K2[j], O2[j])  BY <1>6, <1>13
  <2> QED BY <1>10, <2>1
<1>19. Leads(message, h, a, K2[0], O2[0])'  BY <1>10, <1>14
<1>20. Part(stringBuffer, sent[h + 1], 0, a)' /\ Told(h)'
  BY <1>1, <1>7 DEF Told
<1>21. K2 \in [0 .. Len(messages') -> Nat] /\ O2 \in [0 .. Len(messages') -> Nat]
  BY <1>6, <1>8
<1>22. Follows(h, a, K2, O2)'
  BY <1>15, <1>16, <1>17, <1>18, <1>19, <1>20, <1>21 DEF Follows
<1>23. (\E m \in 0 .. DataSize : Filled(m))'  BY <1>1 DEF Flowing, Filled
<1> QED BY <1>22, <1>23 DEF Flowing

(* main is done with a piece. *)
LEMMA FlowHandled ==
  ASSUME TypeInv, NEW h, NEW a, NEW K, NEW O, Follows(h, a, K, O),
         NEW k \in Nat, NEW o \in Nat, k = K[0], o = O[0],
         UNCHANGED peerVars, messages' = messages, message' = <<>>,
         Part(stringBuffer', sent[k + 1], 0, o), Told(k)'
  PROVE  Follows(k, o, K, O)'
<1>1. /\ outbox' = outbox /\ sent' = sent
      /\ dataBuffer' = dataBuffer /\ filled' = filled /\ flags' = flags /\ callback' = callback
  BY DEF peerVars, rxVars
<1>2. /\ K \in [0 .. Len(messages) -> Nat] /\ O \in [0 .. Len(messages) -> Nat]
      /\ \A j \in 0 .. Len(messages) : Place(K[j], O[j])
      /\ \A j \in 1 .. Len(messages) : Leads(messages[j], K[j - 1], O[j - 1], K[j], O[j])
      /\ Coming(K[Len(messages)], O[Len(messages)])
  BY DEF Follows
<1>3. \A x, y : Place(x, y)' <=> Place(x, y)  BY <1>1 DEF Place
<1>4. \A d, x, y, x2, y2 : Leads(d, x, y, x2, y2)' <=> Leads(d, x, y, x2, y2)
  BY <1>1 DEF Leads
<1>5. \A x, y : Coming(x, y)' <=> Coming(x, y)
  BY <1>1 DEF Coming, Nothing, OnSocket, OnUart, InCallback, OnlyFrom
<1>6. \A j \in 0 .. Len(messages') : Place(K[j], O[j])'  BY <1>2, <1>3
<1>7. \A j \in 1 .. Len(messages') : Leads(messages[j], K[j - 1], O[j - 1], K[j], O[j])'
  <2> SUFFICES ASSUME NEW j \in 1 .. Len(messages')
               PROVE  Leads(messages[j], K[j - 1], O[j - 1], K[j], O[j])'
    OBVIOUS
  <2>1. Leads(messages'[j], K[j - 1], O[j - 1], K[j], O[j])  BY <1>2
  <2> QED BY <1>4, <2>1
<1>8. Place(k, o)'
  <2>1. 0 \in 0 .. Len(messages)  BY DEF TypeInv, TypeOK
  <2> QED BY <1>2, <1>3, <2>1
<1>9. Coming(K[Len(messages)], O[Len(messages)])'
  <2>1. PICK x, y : x = K[Len(messages)] /\ y = O[Len(messages)]  OBVIOUS
  <2>2. x = K[Len(messages')] /\ y = O[Len(messages')]  BY <2>1
  <2>3. Coming(x, y)'  BY <1>2, <1>5, <2>1
  <2> QED BY <2>2, <2>3 DEF Coming, Nothing, OnSocket, OnUart, InCallback
<1>10. Part(stringBuffer, sent[k + 1], 0, o)' /\ Told(k)'
  BY <1>1
<1>11. K \in [0 .. Len(messages') -> Nat] /\ O \in [0 .. Len(messages') -> Nat]  BY <1>2
<1> QED BY <1>6, <1>7, <1>8, <1>9, <1>10, <1>11 DEF Follows

LEMMA HandleFlow ==
  ASSUME TypeInv, Calm, Flowing, Handle
  PROVE  Flowing'
<1>1. /\ message # <<>> /\ message' = <<>> /\ UNCHANGED peerVars /\ messages' = messages
      /\ sent' = sent
  BY DEF Handle, Gather, Drop, Refuse, ParseJson, peerVars
<1>2. PICK h, a, K, O : Follows(h, a, K, O)  BY DEF Flowing
<1>3. PICK k \in Nat, o \in Nat : k = K[0] /\ o = O[0] /\ Place(k, o)
  <2>1. 0 \in 0 .. Len(messages)  BY DEF TypeInv, TypeOK
  <2> DEFINE x == K[0]
             y == O[0]
  <2>2. x \in Nat /\ y \in Nat /\ Place(x, y)  BY <1>2, <2>1 DEF Follows
  <2> QED BY <2>2
<1>4. /\ Place(h, a) /\ Leads(message, h, a, k, o) /\ Part(stringBuffer, sent[h + 1], 0, a)
      /\ Told(h)
  BY <1>1, <1>2, <1>3 DEF Follows
<1>5. /\ Len(sent) \in Nat /\ h \in 0 .. Len(sent) /\ h < Len(sent) /\ a \in Nat
      /\ sent \in Seq(Seq(TempTokens))
  BY <1>4, SentTexts DEF Leads, Place
<1>6. h + 1 \in 1 .. Len(sent)  BY <1>5
<1>7. PICK t : t = sent[h + 1]  OBVIOUS
<1>8. /\ t \in Seq(Tokens) /\ t \in Seq(TempTokens) /\ Len(t) \in Nat \ {0} /\ IsEndOfMessage(t)
  BY <1>6, <1>7, SentText, TokensArePushed
<1>9. Len(t) <= BufferSize  BY <1>6, <1>7 DEF Calm
<1>10. PICK b : b = Assembled  OBVIOUS
<1>11. /\ b \in Seq(Pushed) /\ Len(b) = Len(stringBuffer) + Len(message)
       /\ \A i \in 1 .. Len(b) : b[i] = IF i <= Len(stringBuffer) THEN stringBuffer[i]
                                        ELSE message[i - Len(stringBuffer)]
       /\ Len(stringBuffer) \in Nat /\ Len(message) \in Nat
  BY <1>10, AssembledType
<1>12. Len(stringBuffer) = a /\ \A i \in 1 .. a : stringBuffer[i] = t[i]
  <2>1. Len(stringBuffer) = a - 0 /\ \A i \in 1 .. Len(stringBuffer) : stringBuffer[i] = t[0 + i]
    BY <1>4, <1>7 DEF Part
  <2>2. Len(stringBuffer) = a /\ \A i \in 1 .. a : 0 + i = i  BY <1>5, <2>1
  <2> QED BY <2>1, <2>2
<1>13. /\ DataSize \in Nat /\ TempSize \in Nat /\ BufferSize \in Nat
       /\ DataSize < TempSize /\ TempSize < BufferSize
  BY DEF HandlerAssumption, UartRxAssumption
<1>14. (\E m \in 0 .. DataSize : Filled(m))'
  <2>1. dataBuffer' = dataBuffer /\ filled' = filled /\ flags' = flags
    BY <1>1 DEF peerVars, rxVars
  <2> QED BY <2>1 DEF Flowing, Filled
<1>15. Fits <=> Len(b) < BufferSize  BY <1>11 DEF Fits
<1>16. ASSUME NEW e \in Nat, e <= Len(t), Part(message, t, a, e)
       PROVE  Len(b) = e /\ \A i \in 1 .. e : b[i] = t[i]
  <2>1. a <= e /\ Len(message) = e - a /\ \A i \in 1 .. Len(message) : message[i] = t[a + i]
    BY <1>16 DEF Part
  <2>2. Len(b) = e  BY <1>5, <1>11, <1>12, <2>1
  <2>3. ASSUME NEW i \in 1 .. e PROVE b[i] = t[i]
    <3>1. CASE i <= a
      <4>1. i \in 1 .. a /\ i \in 1 .. Len(b)  BY <1>5, <2>2, <3>1
      <4> QED BY <1>11, <1>12, <3>1, <4>1
    <3>2. CASE ~(i <= a)
      <4>1. i - a \in 1 .. Len(message) /\ a + (i - a) = i /\ i \in 1 .. Len(b)
        BY <1>5, <2>1, <2>2, <3>2
      <4>2. b[i] = message[i - a]  BY <1>11, <1>12, <3>2, <4>1
      <4>3. message[i - a] = t[a + (i - a)]  BY <2>1, <4>1
      <4> QED BY <4>1, <4>2, <4>3
    <3> QED BY <3>1, <3>2
  <2> QED BY <2>2, <2>3
<1>17. CASE k = h /\ a < o /\ Part(message, t, a, o)
  <2>1. o < Len(t) /\ ~EndsAt(t, o)  BY <1>3, <1>5, <1>7, <1>17 DEF Place
  <2>2. Len(b) = o /\ \A i \in 1 .. o : b[i] = t[i]  BY <1>8, <1>16, <1>17, <2>1
  <2>3. Part(b, t, 0, o)
    <3>1. Len(b) = o - 0 /\ 0 <= o  BY <2>2
    <3>2. \A i \in 1 .. Len(b) : b[i] = t[0 + i]
      <4>1. \A i \in 1 .. o : 0 + i = i  OBVIOUS
      <4> QED BY <2>2, <4>1
    <3> QED BY <3>1, <3>2 DEF Part
  <2>4. ~IsEndOfMessage(b)
    <3> SUFFICES ASSUME o >= TermLen, \A i \in o - TermLen + 1 .. o : b[i] = "cr"
                 PROVE  FALSE
      BY <2>2 DEF IsEndOfMessage, EndsAt
    <3>1. \A i \in o - TermLen + 1 .. o : i \in 1 .. o  BY <1>3 DEF HandlerAssumption
    <3>2. \A i \in o - TermLen + 1 .. o : t[i] = "cr"  BY <2>2, <3>1
    <3> QED BY <2>1, <3>2 DEF EndsAt
  <2>5. Fits  BY <1>8, <1>9, <1>13, <1>15, <2>1, <2>2
  <2>6. Gather  BY <1>10, <2>4, <2>5 DEF Handle, Drop, Refuse, ParseJson
  <2>7. stringBuffer' = b /\ executed' = executed  BY <1>10, <2>6 DEF Gather
  <2>9. Told(k)'  BY <1>1, <1>4, <1>17, <2>7 DEF Told
  <2>8. Follows(k, o, K, O)'
    BY <1>1, <1>2, <1>3, <1>7, <1>17, <2>3, <2>7, <2>9, FlowHandled
  <2> QED BY <1>14, <2>8 DEF Flowing
<1>18. CASE /\ k = h + 1 /\ o = 0
            /\ Part(message, t, a, Len(t)) \/ (a = 0 /\ Covers(message, t))
  <2>1. /\ Len(t) <= Len(b) /\ (Len(b) = Len(t) \/ Len(b) <= DataSize)
        /\ \A i \in 1 .. Len(t) : b[i] = t[i]
        /\ IsEndOfMessage(b)
    <3>1. CASE Part(message, t, a, Len(t))
      <4>1. Len(b) = Len(t) /\ \A i \in 1 .. Len(t) : b[i] = t[i]  BY <1>8, <1>16, <3>1
      <4>2. IsEndOfMessage(b)
        <5>1. TermLen \in Nat \ {0}  BY DEF HandlerAssumption
        <5>2. \A i \in Len(t) - TermLen + 1 .. Len(t) : t[i] = "cr" /\ Len(t) >= TermLen
          BY <1>8 DEF IsEndOfMessage, EndsAt
        <5>3. ASSUME NEW i \in Len(t) - TermLen + 1 .. Len(t) PROVE b[i] = "cr"
          <6>1. i \in 1 .. Len(t)  BY <1>8, <5>1, <5>2
          <6> QED BY <4>1, <5>2, <6>1
        <5>4. Len(b) >= TermLen  BY <1>8, <4>1 DEF IsEndOfMessage, EndsAt
        <5> QED BY <4>1, <5>3, <5>4 DEF IsEndOfMessage, EndsAt
      <4> QED BY <1>8, <4>1, <4>2
    <3>2. CASE a = 0 /\ Covers(message, t)
      <4>1. /\ Len(t) <= Len(message) /\ Len(message) <= DataSize
            /\ \A i \in 1 .. Len(t) : message[i] = t[i]
            /\ IsEndOfMessage(message)
        BY <3>2 DEF Covers
      <4>2. b = message
        <5>1. stringBuffer = <<>> /\ message \in Seq(Pushed)
          BY <1>12, <3>2, EmptySeq DEF TypeInv, TypeOK
        <5>2. <<>> \o message = message  BY <5>1
        <5> QED BY <1>10, <5>1, <5>2 DEF Assembled
      <4> QED BY <4>1, <4>2
    <3> QED BY <1>18, <3>1, <3>2
  <2>3. ~Gather  BY <1>10, <2>1 DEF Gather
  <2>4. stringBuffer' = <<>>  BY <2>3 DEF Handle, Drop, Refuse, ParseJson
  <2>5. Part(stringBuffer', sent[k + 1], 0, o)  BY <1>18, <2>4 DEF Part
  <2>6. Told(k)'
    <3> SUFFICES ASSUME \A i \in 1 .. k : JsonParse(sent[i]).result # "open"
                 PROVE  executed' = Meanings(SubSeq(sent, 1, k))
      BY <1>1 DEF Told
    <3>1. JsonParse(t).result # "open" /\ executed = Meanings(SubSeq(sent, 1, h))
      <4>1. h + 1 \in 1 .. k /\ \A i \in 1 .. h : i \in 1 .. k  BY <1>5, <1>18
      <4> QED BY <1>4, <1>7, <4>1 DEF Told
    <3>2. Meanings(SubSeq(sent, 1, k)) =
            IF IsArray(t) THEN Append(executed, Meaning(t)) ELSE executed
      BY <1>5, <1>7, <1>18, <3>1, MeaningsUpTo
    <3>3. CASE Drop \/ Refuse
      <4>1. executed' = executed /\ (~Fits \/ TooLong(b))  BY <1>10, <3>3 DEF Drop, Refuse
      <4>2. Len(b) > TempSize  BY <1>11, <1>13, <1>15, <4>1 DEF TooLong
      <4>3. Len(t) > TempSize  BY <1>8, <1>11, <1>13, <2>1, <4>2
      <4>4. ~IsArray(t)  BY <1>8, <1>13, <4>3 DEF IsArray
      <4> QED BY <3>2, <4>1, <4>4
    <3>4. CASE ParseJson
      <4>1. ~TooLong(b) /\ executed' = IF JsonParse(Copied(b)).result = "array"
                                       THEN Append(executed, Calls(JsonParse(Copied(b)).objects))
                                       ELSE executed
        BY <1>10, <3>4 DEF ParseJson
      <4>2. Len(b) <= TempSize /\ Len(t) <= TempSize
        BY <1>8, <1>11, <1>13, <2>1, <4>1 DEF TooLong
      <4>3. JsonParse(Copied(b)) = JsonParse(t)
        BY <1>8, <1>11, <2>1, <3>1, <4>2, ParsedByItself
      <4> QED BY <3>2, <4>1, <4>2, <4>3 DEF IsArray, Meaning
    <3> QED BY <2>3, <3>3, <3>4 DEF Handle
  <2>7. Follows(k, o, K, O)'  BY <1>1, <1>2, <1>3, <2>5, <2>6, FlowHandled
  <2> QED BY <1>14, <2>7 DEF Flowing
<1> QED BY <1>4, <1>7, <1>17, <1>18 DEF Leads

LEMMA InitFlowInv == Init => FlowInv
<1> SUFFICES ASSUME Init PROVE Flowing  BY DEF FlowInv
<1>1. /\ outbox = [s \in Sources |-> <<>>] /\ messages = <<>> /\ message = <<>>
      /\ stringBuffer = <<>> /\ sent = <<>> /\ executed = <<>>
      /\ dataBuffer = [i \in 1 .. DataSize |-> "nul"] /\ filled = 0 /\ callback = FALSE
  BY DEF Init, RxInit
<1>2. DataSize \in Nat \ {0} /\ TermLen \in Nat \ {0}
  BY DEF UartRxAssumption, HandlerAssumption
<1>3. Filled(0)  BY <1>1, <1>2 DEF Filled
<1>4. Coming(0, 0)
  <2>1. Nothing(0, 0)  BY <1>1 DEF Nothing
  <2> QED BY <2>1 DEF Coming
<1>5. Meanings(SubSeq(sent, 1, 0)) = <<>>
  <2>1. <<>> \in Seq(Seq(TempTokens)) /\ 0 \in 0 .. Len(<<>>)  OBVIOUS
  <2> QED BY <1>1, <2>1, MeaningsUpTo
<1>6. PICK Z : Z = [j \in 0 .. 0 |-> 0]  OBVIOUS
<1>7. Z \in [0 .. 0 -> Nat] /\ Z[0] = 0 /\ \A j \in 0 .. 0 : j = 0  BY <1>6
<1>8. Place(0, 0) /\ Part(stringBuffer, sent[0 + 1], 0, 0)  BY <1>1 DEF Place, Part
<1>9. Len(messages) = 0  BY <1>1
<1>10. /\ \A j \in 0 .. Len(messages) : Place(Z[j], Z[j])
       /\ \A j \in 1 .. Len(messages) : Leads(messages[j], Z[j - 1], Z[j - 1], Z[j], Z[j])
       /\ Coming(Z[Len(messages)], Z[Len(messages)])
  BY <1>4, <1>7, <1>8, <1>9
<1>12. Told(0)  BY <1>1, <1>5 DEF Told
<1>11. Follows(0, 0, Z, Z)  BY <1>1, <1>7, <1>8, <1>9, <1>10, <1>12 DEF Follows
<1> QED BY <1>2, <1>3, <1>11 DEF Flowing

LEMMA NextFlowInv == TypeInv /\ FlowInv /\ [Next]_vars => FlowInv'
<1> SUFFICES ASSUME TypeInv, FlowInv, [Next]_vars, Calm' PROVE Flowing'  BY DEF FlowInv
<1>1. ~refused' /\ ~mixed'  BY DEF Calm
<1>2. ASSUME sent' = sent \/ \E m : More(m), refused => refused', mixed => mixed'
      PROVE  Calm /\ Flowing
  BY <1>2, CalmBefore DEF FlowInv
<1>3. CASE \E s \in Sources : \E t \in Texts[s] : Begin(s, t)
  <2>1. PICK s \in Sources : \E t \in Texts[s] : Begin(s, t)  BY <1>3
  <2>2. PICK t \in Texts[s] : Begin(s, t)  BY <2>1
  <2>3. More(Len(sent))  BY <2>2, TextType, AppendsMore DEF Begin
  <2>4. Flowing  BY <1>2, <2>2, <2>3 DEF Begin, Begins
  <2> QED BY <1>1, <2>2, <2>4, BeginFlow
<1>11. CASE \E s \in Sources : \E t \in Texts[s] : BeginBehind(s, t)
  <2>1. PICK s \in Sources : \E t \in Texts[s] : BeginBehind(s, t)  BY <1>11
  <2>2. PICK t \in Texts[s] : BeginBehind(s, t)  BY <2>1
  <2>3. (\E m : More(m)) \/ Len(sent) = 0
    <3> SUFFICES ASSUME Len(sent) # 0 PROVE \E m : More(m)  OBVIOUS
    <3>1. PICK k : k = Len(sent) - 1  OBVIOUS
    <3>2. k \in Nat /\ k + 1 = Len(sent)  BY <3>1, SentTexts
    <3>3. More(k)  BY <2>2, <3>2, TextType, JoinsMore DEF BeginBehind, Joins
    <3> QED BY <3>3
  <2>4. Flowing
    <3>1. (refused => refused') /\ (mixed => mixed')  BY <2>2 DEF BeginBehind, Begins
    <3>2. CASE Len(sent) = 0
      <4>1. Calm  BY <1>1, <3>1, <3>2 DEF Calm
      <4> QED BY <4>1 DEF FlowInv
    <3> QED BY <1>2, <2>3, <3>1, <3>2
  <2> QED BY <1>1, <2>2, <2>4, BehindFlow
<1>4. CASE \E s \in Sources : \E n \in PacketSizes : Received(s, n)
  <2>1. PICK s \in Sources, n \in PacketSizes : Received(s, n)  BY <1>4
  <2>2. Flowing  BY <1>2, <2>1 DEF Received
  <2>3. ~mixed'  BY <1>1
  <2> QED BY <1>1, <2>1, <2>2, ReceivedFlow
<1>5. CASE UartStore
  <2>1. Flowing  BY <1>2, <1>5 DEF UartStore
  <2> QED BY <1>1, <1>5, <2>1, UartStoreFlow
<1>6. CASE uartRXReceived
  <2>1. Flowing  BY <1>2, <1>6 DEF uartRXReceived
  <2> QED BY <1>1, <1>6, <2>1, CallbackFlow
<1>7. CASE \E e \in Events : UartEvent(e)
  <2>1. PICK e \in Events : UartEvent(e)  BY <1>7
  <2>2. Flowing  BY <1>2, <2>1 DEF UartEvent
  <2> QED BY <1>1, <2>1, <2>2, UartEventFlow
<1>8. CASE Pop
  <2>1. Flowing  BY <1>2, <1>8 DEF Pop, peerVars
  <2> QED BY <1>8, <2>1, PopFlow
<1>9. CASE Handle
  <2>1. UNCHANGED peerVars  BY <1>9 DEF Handle, Gather, Drop, Refuse, ParseJson
  <2>2. Calm /\ Flowing  BY <1>2, <2>1 DEF peerVars
  <2> QED BY <1>9, <2>2, HandleFlow
<1>10. CASE UNCHANGED vars
  <2>1. /\ outbox' = outbox /\ messages' = messages /\ sent' = sent /\ UNCHANGED handlerVars
        /\ refused' = refused /\ mixed' = mixed
        /\ dataBuffer' = dataBuffer /\ filled' = filled /\ flags' = flags /\ callback' = callback
    BY <1>10 DEF vars, peerVars, rxVars
  <2>2. Flowing  BY <1>2, <2>1
  <2>3. PICK h, a, K, O : Follows(h, a, K, O)  BY <2>2 DEF Flowing
  <2>4. Coming(K[Len(messages)], O[Len(messages)])  BY <2>3 DEF Follows
  <2>5. Coming(K[Len(messages)], O[Len(messages)])'
    BY <2>1, <2>4 DEF Coming, Nothing, OnSocket, OnUart, InCallback, OnlyFrom
  <2>6. Follows(h, a, K, O)'  BY <2>1, <2>3, <2>5, FlowKept
  <2>7. (\E m \in 0 .. DataSize : Filled(m))'  BY <2>1, <2>2 DEF Flowing, Filled
  <2> QED BY <2>6, <2>7 DEF Flowing
<1> QED BY <1>3, <1>4, <1>5, <1>6, <1>7, <1>8, <1>9, <1>10, <1>11 DEF Next

(* However a text is cut into packets: as long as nothing was refused or   *)
(* mixed and the texts are fair, what main has carried out so far is what  *)
(* the texts say, in the order they were begun, and nothing else.  A text  *)
(* is what a peer sends between two packets that end with END_OF_MESSAGE:  *)
(* of messages that share a packet it says only what the first one says.   *)
THEOREM CarriedOutAsSent == Spec => []ExecutedAsSent
<1>1. TypeInv /\ FlowInv => ExecutedAsSent
  <2> SUFFICES ASSUME TypeInv, FlowInv, ~refused, ~mixed, \A k \in 1 .. Len(sent) : Fair(sent[k])
               PROVE  IsPrefix(executed, Meanings(sent))
    BY DEF ExecutedAsSent
  <2>1. Calm  BY DEF Calm, Fair
  <2>2. PICK h, a, K, O : Follows(h, a, K, O)  BY <2>1 DEF FlowInv, Flowing
  <2>3. Told(h) /\ h \in 0 .. Len(sent)  BY <2>2 DEF Follows, Place
  <2>4. \A k \in 1 .. h : JsonParse(sent[k]).result # "open"
    <3>1. \A k \in 1 .. h : k \in 1 .. Len(sent)  BY <2>3, SentTexts
    <3> QED BY <3>1 DEF Fair
  <2>5. executed = Meanings(SubSeq(sent, 1, h))  BY <2>3, <2>4 DEF Told
  <2> QED BY <2>3, <2>5, SentTexts, MeaningsPrefix
<1> QED BY <1>1, TypesHold, InitFlowInv, NextFlowInv, PTL DEF Spec
=============================================================================
