--------------------------- MODULE MessageHandler ---------------------------
(***************************************************************************)
(* The message handler thread (Core/Src/MessageHandler/                    *)
(* MessageHandlerThread.cpp): it puts the pieces that the callbacks push   *)
(* back together, finds the end of a message, parses it and carries out    *)
(* its entries.  The queue between the two is what Channel promises and    *)
(* QueueT implements: first in, first out, and full at Capacity.  What     *)
(* arrives at the UART comes through UartRx; its callback runs in the      *)
(* interrupt, which here does not fall into a push or a pop.               *)
(*                                                                         *)
(* A character string is a sequence of tokens: brackets, carriage returns, *)
(* and one token for each object of the JSON array, comma included.        *)
(***************************************************************************)
EXTENDS Naturals, FiniteSets, SequencesExt, UartRx

CONSTANTS Sources,        \* the peers: on sockets, USB, the UART
          Uart,           \* the one on the UART, if it is among them
          Pins,           \* objects that configure a pin
          Texts,          \* bound: the messages each peer may send
          PacketSizes,    \* the lengths a callback may be given
          MessageSize,    \* sizeof(Message) - 1
          Capacity,       \* messages{5}
          BufferSize,     \* sizeof(stringBuffer)
          TempSize,       \* sizeof(tempBuffer)
          TermLen,        \* the length of END_OF_MESSAGE
          MaxMessages,    \* bound: messages begun in all
          Disturbance     \* bound: may the peers disturb? see Disturbs

Commands == {"StoreConfig", "ResetStorage", "PrintPWM"}
Entries  == Pins \cup Commands \cup {"invalid"}
Tokens   == Entries \cup {"[", "]", "cr"}
Pushed   == Tokens \cup {"junk"}        \* see Line in UartRx

(* "nul": never written.  "cut": an entry that was parsed before, for the  *)
(* parser puts a NUL over each closing quote.                              *)
TempTokens == Pushed \cup {"nul", "cut"}

ASSUME HandlerAssumption ==
  /\ Pins \cap (Commands \cup {"invalid", "[", "]", "cr", "junk", "nul", "cut"}) = {}
  /\ \A s \in Sources : Texts[s] \subseteq Seq(Tokens) \ {<<>>}
  /\ PacketSizes \subseteq Nat \ {0} /\ PacketSizes # {}
  /\ MessageSize \in Nat \ {0} /\ Capacity \in Nat \ {0}
  /\ BufferSize \in Nat \ {0} /\ TempSize \in Nat \ {0}
  /\ TermLen \in Nat \ {0} /\ MaxMessages \in Nat
  /\ DataSize < MessageSize /\ MessageSize < TempSize /\ TempSize < BufferSize
  /\ Disturbance \in BOOLEAN

(* The first n characters end with END_OF_MESSAGE. *)
EndsAt(t, n) == n >= TermLen /\ \A i \in n - TermLen + 1 .. n : t[i] = "cr"

(* A message is what ends with END_OF_MESSAGE, and has none before that; a *)
(* carriage return in front would belong to the message before it.         *)
ASSUME TextsAssumption ==
  \A s \in Sources : \A t \in Texts[s] :
    t[1] # "cr" /\ \A n \in 1 .. Len(t) : n = Len(t) <=> EndsAt(t, n)

VARIABLES
  outbox,               \* what each peer has still to send of its messages
  messages,             \* the queue
  message,              \* the local message of main: <<>> while pop blocks
  stringBuffer,         \* its contents up to the NUL; stringLength is its length
  tempBuffer,           \* the static tempBuffer of parseJson
  begun,                \* history: how many messages were begun
  sent,                 \* history: the texts, in the order they were begun.
                        \* A text is a message, or the messages one behind
                        \* the other that the packets of a peer do not part
  executed,             \* history: for each text carried out, its calls
  ended,                \* history: texts whose end was recognised
  refused,              \* history: a push was refused, or a packet cut
  mixed,                \* history: see Mixes and UartEvent
  dropped               \* history: the string buffer was thrown away

handlerVars == <<message, stringBuffer, tempBuffer, executed, ended, dropped>>
peerVars == <<outbox, begun, sent, refused, mixed, rxVars>>
vars == <<peerVars, messages, handlerVars>>

TypeOK ==
  /\ outbox \in [Sources -> Seq(Tokens)]
  /\ messages \in Seq(Seq(Pushed)) /\ Len(messages) <= Capacity
  /\ message \in Seq(Pushed) /\ Len(message) <= MessageSize
  /\ stringBuffer \in Seq(Pushed) /\ Len(stringBuffer) < BufferSize
  /\ tempBuffer \in [1 .. TempSize -> TempTokens]
  /\ sent \in Seq(Seq(Tokens)) /\ begun \in 0 .. MaxMessages /\ Len(sent) <= begun
  /\ executed \in Seq(Seq(Entries))
  /\ ended \in Nat /\ {refused, dropped, mixed} \subseteq BOOLEAN
  /\ RxTypeOK(Tokens)

Init ==
  /\ outbox = [s \in Sources |-> <<>>]
  /\ messages = <<>> /\ message = <<>>
  /\ stringBuffer = <<>> /\ tempBuffer = [i \in 1 .. TempSize |-> "nul"]
  /\ begun = 0 /\ sent = <<>> /\ executed = <<>> /\ ended = 0
  /\ refused = FALSE /\ dropped = FALSE /\ mixed = FALSE
  /\ RxInit

-----------------------------------------------------------------------------
(* The peers, and the callbacks socketRXReceived and uartRXReceived *)

(* s begins while a message of another peer is still coming, or a message  *)
(* follows on the UART before it was silent.  This, and a pause within a   *)
(* message on the UART, is a disturbance; there is one of them at most.    *)
Disturbs(is) == is => Disturbance /\ ~mixed

Mixes(s) ==
  \/ \E r \in Sources \ {s} : outbox[r] # <<>>
  \/ filled > 0
  \/ s # Uart /\ callback

Begins(s, t) ==
  /\ begun < MaxMessages /\ begun' = begun + 1
  /\ outbox' = [outbox EXCEPT ![s] = @ \o t]
  /\ Disturbs(Mixes(s))
  /\ mixed' = (mixed \/ Mixes(s))
  /\ UNCHANGED <<messages, refused, handlerVars, rxVars>>

Begin(s, t) ==
  /\ outbox[s] = <<>> /\ Begins(s, t)
  /\ sent' = Append(sent, t)

(* The next message goes into the stream of a socket before the last one   *)
(* has left it, and some packet will carry the end of the one and the      *)
(* start of the other.                                                     *)
BeginBehind(s, t) ==
  /\ s # Uart /\ outbox[s] # <<>> /\ Begins(s, t)
  /\ sent' = [sent EXCEPT ![Len(sent)] = @ \o t]

(* Nobody looks at what push returns *)
Push(chunk) ==
  messages' = IF Len(messages) < Capacity THEN Append(messages, chunk) ELSE messages

(* A packet of up to n tokens arrives: what exceeds a Message is cut off.  *)
(* One that ends where a message ends leaves nothing in the outbox: what   *)
(* the peer sends behind it is another text, see Begin.                    *)
Received(s, n) ==
  LET length == Min({n, Len(outbox[s])})
      rest   == SubSeq(outbox[s], length + 1, Len(outbox[s]))
  IN  /\ s # Uart /\ outbox[s] # <<>>
      /\ mixed \/ rest = <<>> \/ ~EndsAt(Last(sent), Len(Last(sent)) - Len(rest))
      /\ outbox' = [outbox EXCEPT ![s] = rest]
      /\ Push(SubSeq(outbox[s], 1, Min({length, MessageSize})))
      /\ refused' = (refused \/ Len(messages) = Capacity \/ length > MessageSize)
      /\ UNCHANGED <<begun, sent, mixed, handlerVars, rxVars>>

(* The next character is on the line.  One that falls between an event and *)
(* the copy of the text lies over the start of the text.                   *)
UartStore ==
  /\ Uart \in Sources /\ outbox[Uart] # <<>>
  /\ Store(Head(outbox[Uart]))
  /\ outbox' = [outbox EXCEPT ![Uart] = Tail(@)]
  /\ mixed' = (mixed \/ callback)
  /\ UNCHANGED <<messages, begun, sent, refused, handlerVars>>

(* A reception that is not a whole message, with silence behind it, counts *)
(* as mixed: it is met by the characters of earlier ones.                  *)
UartEvent(e) ==
  /\ Event(e)
  /\ Disturbs(e = "IDLE" /\ outbox[Uart] # <<>>)
  /\ mixed' = (mixed \/ e # "IDLE" \/ outbox[Uart] # <<>>)
  /\ UNCHANGED <<outbox, messages, begun, sent, refused, handlerVars>>

uartRXReceived ==
  /\ CallbackEnds
  /\ Push(Line)
  /\ refused' = (refused \/ Len(messages) = Capacity)
  /\ UNCHANGED <<outbox, begun, sent, mixed, handlerVars>>

-----------------------------------------------------------------------------
(* jsonParse, as far as the handler depends on it: white space may stand   *)
(* anywhere, commas are not needed, and parsing stops behind the bracket   *)
(* that closes the array, at a NUL, or at what cannot be the start of an   *)
(* array.  count is the number of tokens read.                             *)

Start == [depth |-> 0, objects |-> <<>>, result |-> "open", count |-> 0]

Token(r, x) ==
  LET next == [r EXCEPT !.count = @ + 1]
  IN  IF r.result # "open" THEN r
      ELSE CASE x = "cr"             -> next
             [] x \in {"nul", "cut"} -> [next EXCEPT !.result = "failed"]
             [] x = "["              -> [next EXCEPT !.depth = @ + 1]
             [] x = "]" /\ r.depth > 0 ->
                  [next EXCEPT !.depth = @ - 1,
                               !.result = IF r.depth = 1 THEN "array" ELSE "open"]
             [] x \in Entries /\ r.depth > 0 ->
                  [next EXCEPT !.objects = IF r.depth = 1 THEN Append(@, x) ELSE @]
             [] OTHER                -> [next EXCEPT !.result = "failed"]

JsonParse(t) ==
  LET read[n \in 0 .. Len(t)] == IF n = 0 THEN Start ELSE Token(read[n - 1], t[n])
  IN  read[Len(t)]

(* What the parser leaves of the text *)
Scanned(t) ==
  LET count == JsonParse(t).count
  IN  [i \in 1 .. Len(t) |-> IF i <= count /\ t[i] \in Entries THEN "cut" ELSE t[i]]

PinsAmong(objects) ==
  LET pins[n \in 0 .. Len(objects)] ==
        IF n = 0 THEN <<>>
        ELSE IF objects[n] \in Pins THEN Append(pins[n - 1], objects[n]) ELSE pins[n - 1]
  IN  pins[Len(objects)]

(* What parseJson calls for the objects: the pins as they come, and one    *)
(* command at the end, StoreConfig before ResetStorage.                    *)
Calls(objects) ==
  PinsAmong(objects)
    \o (IF "StoreConfig" \in ToSet(objects) THEN <<"StoreConfig">>
        ELSE IF "ResetStorage" \in ToSet(objects) THEN <<"ResetStorage">> ELSE <<>>)

-----------------------------------------------------------------------------
(* main *)

Pop ==
  /\ message = <<>> /\ messages # <<>>
  /\ message' = Head(messages) /\ messages' = Tail(messages)
  /\ UNCHANGED <<peerVars, stringBuffer, tempBuffer, executed, ended, dropped>>

Assembled == stringBuffer \o message

FitsExactly == Len(stringBuffer) + Len(message) <= BufferSize    \* mutant: no room for the NUL

Fits == Len(stringBuffer) + Len(message) < BufferSize

EndOneEarlier(b) ==             \* mutant: stringLength - 5 is where it looks
  Len(b) > TermLen /\ \A i \in Len(b) - TermLen .. Len(b) : b[i] = "cr"

(* The last characters are compared; fewer than that are no end, for what  *)
(* lies in front of stringBuffer is not a carriage return.                 *)
IsEndOfMessage(b) == EndsAt(b, Len(b))

TooLongForTheWrongBuffer(b) == Len(b) > BufferSize     \* mutant: sizeof the other buffer
TooLongIfItFits(b) == Len(b) >= TempSize               \* mutant: >= for >

TooLong(b) == Len(b) > TempSize

(* strncpy of length characters: no NUL is put behind them *)
Copied(b) == b \o SubSeq(tempBuffer, Len(b) + 1, TempSize)

Gather ==
  /\ message # <<>> /\ Fits /\ ~IsEndOfMessage(Assembled)
  /\ stringBuffer' = Assembled
  /\ message' = <<>>
  /\ UNCHANGED <<peerVars, messages, tempBuffer, executed, ended, dropped>>

Drop ==
  /\ message # <<>> /\ ~Fits
  /\ stringBuffer' = <<>>
  /\ message' = <<>> /\ dropped' = TRUE
  /\ UNCHANGED <<peerVars, messages, tempBuffer, executed, ended>>

(* parseJson gives up at once: the help message is sent *)
Refuse ==
  /\ message # <<>> /\ Fits /\ IsEndOfMessage(Assembled) /\ TooLong(Assembled)
  /\ stringBuffer' = <<>>
  /\ message' = <<>> /\ ended' = ended + 1
  /\ UNCHANGED <<peerVars, messages, tempBuffer, executed, dropped>>

ParseJson ==
  /\ message # <<>> /\ Fits /\ IsEndOfMessage(Assembled) /\ ~TooLong(Assembled)
  /\ LET parsed == JsonParse(Copied(Assembled))
     IN  executed' = IF parsed.result = "array" THEN Append(executed, Calls(parsed.objects))
                                                ELSE executed
  /\ tempBuffer' = Scanned(Copied(Assembled))
  /\ stringBuffer' = <<>>
  /\ message' = <<>> /\ ended' = ended + 1
  /\ UNCHANGED <<peerVars, messages, dropped>>

Handle == Gather \/ Drop \/ Refuse \/ ParseJson

Next ==
  \/ \E s \in Sources : \/ \E t \in Texts[s] : Begin(s, t) \/ BeginBehind(s, t)
                        \/ \E n \in PacketSizes : Received(s, n)
  \/ UartStore \/ uartRXReceived
  \/ \E e \in Events : UartEvent(e)
  \/ Pop \/ Handle

(* The handler blocks nowhere but in pop, and a peer that has begun a      *)
(* message sends the rest of it.  Interrupts are handled, and the line of  *)
(* the UART is silent at last.  Only Handle takes message to <<>>.         *)
Handled == message # <<>> /\ message' = <<>>

Fairness ==
  /\ WF_message(Pop \/ Handled)
  /\ \A s \in Sources : WF_vars(\E n \in PacketSizes : Received(s, n))
  /\ WF_vars(UartStore) /\ WF_vars(uartRXReceived)
  /\ WF_vars(\E e \in Events : UartEvent(e))

Spec == Init /\ [][Next]_vars /\ Fairness

-----------------------------------------------------------------------------
(* Properties *)

(* What a text says, by itself: an array whose closing bracket is there.   *)
(* Where messages share a packet, that is the array of the first of them,  *)
(* and the others are lost.                                                *)
IsArray(b)  == Len(b) <= TempSize /\ JsonParse(b).result = "array"
Meaning(b)  == Calls(JsonParse(b).objects)
Meanings(q) ==
  LET said[n \in 0 .. Len(q)] ==
        IF n = 0 THEN <<>>
        ELSE IF IsArray(q[n]) THEN Append(said[n - 1], Meaning(q[n])) ELSE said[n - 1]
  IN  said[Len(q)]

(* However a text is cut into packets, it is carried out as it was sent    *)
(* and in its turn, or not at all when it is no array or too long: neither *)
(* a part of it nor anything that went before leaks through the buffers.   *)
(* This is promised as long as every piece reached the queue, no two       *)
(* peers sent at a time, the UART took each message of its own in one go,  *)
(* and each text was fair: it does not leave its array open, for leftovers *)
(* in tempBuffer may close it, and is not longer than stringBuffer, for    *)
(* what follows the piece at which such a one is dropped counts as a text. *)
Fair(t) == JsonParse(t).result # "open" /\ Len(t) <= BufferSize

ExecutedAsSent ==
  ~refused /\ ~mixed /\ (\A k \in 1 .. Len(sent) : Fair(sent[k])) =>
    IsPrefix(executed, Meanings(sent))

(* Once the buffer holds what ends as a message does and begins with an    *)
(* array, that is what is carried out, whatever went through the buffers   *)
(* before, and whatever of it was refused or mixed.                        *)
OutcomeOfTheText ==
  [][message # <<>> /\ message' = <<>> /\ EndsAt(Assembled, Len(Assembled)) /\ IsArray(Assembled) =>
       executed' = Append(executed, Meaning(Assembled))]_vars

(* Every text has its end recognised, unless something was lost.           *)
EveryTextEnds ==
  \A k \in 1 .. MaxMessages : Len(sent) >= k ~> refused \/ dropped \/ mixed \/ ended >= k

(* "Controlling a microcontroller via a UART" (readme.md:2): when all that *)
(* came has been handled, each message has been carried out, no matter     *)
(* what its length is.                                                     *)
AllHandled ==
  /\ \A s \in Sources : outbox[s] = <<>>
  /\ filled = 0 /\ flags = {} /\ ~callback
  /\ messages = <<>> /\ message = <<>>

UartMessagesAreExecuted == AllHandled /\ ~refused => Len(executed) >= begun
=============================================================================
