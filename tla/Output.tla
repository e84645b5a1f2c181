------------------------------- MODULE Output -------------------------------
(***************************************************************************)
(* The output of the firmware.  Debug::send (Core/Inc/Utility/Debug.h)     *)
(* formats a line in one static buffer, cuts it into pieces and queues     *)
(* them; the debug thread takes a piece and gives it to the UART and to    *)
(* USB; PWM::printHelpMessage gives its lines to them directly from the    *)
(* handler's thread.  This module composes Uart and Cdc with the callers,  *)
(* the queue (a Channel: see QueueT) and the scheduling by priority.  The  *)
(* TCP socket between UART and USB is the subject of PacketPool.           *)
(***************************************************************************)
EXTENDS Uart, Cdc, FiniteSets

CONSTANTS Callers,      \* threads that call Debug::send, Usb among them
          Debug,        \* the debug thread
          Handler,      \* the message handler's thread
          Priority,     \* urgency of each thread, larger is more urgent
          MaxPieces,    \* bound: pieces of a line
          QueueSize,    \* capacity of the queue of pieces
          MaxPrint,     \* bound: lines the handler prints itself
          MaxLines,     \* bound: lines each caller sends, Usb excepted
          MaxSaid       \* bound: lines that such a caller and the handler say

Threads == Callers \cup Writers

ASSUME OutputAssumption ==
  /\ Writers = {Debug, Handler}
  /\ Usb \in Callers /\ Callers \cap Writers = {}
  /\ Priority \in [Threads -> Nat]
  /\ Priority[Debug] < Priority[Handler]
  /\ MaxPieces \in Nat \ {0} /\ QueueSize \in Nat

VARIABLES
  text,        \* the static buffer of Debug::s, a piece in each place
  at,          \* the place each caller has come to
  size,        \* byteCount of each caller, in pieces
  lines,       \* how many lines each caller has begun
  queue,       \* the pieces that wait for the debug thread, and whose they are
  printed      \* how many lines the handler has printed

debugVars == <<text, at, size, lines, queue, printed>>
vars == <<uartVars, cdcVars, debugVars>>

(* A piece is named by its caller, the caller's line and its place in it,  *)
(* 0 when it has no characters.                                            *)
Piece(t, line, place) == <<t, line, place>>
Blank == Piece(Debug, 0, 0)

Init ==
  /\ UartInit /\ CdcInit
  /\ pc = [t \in Threads |-> "idle"]
  /\ buffer = [w \in Writers |-> Blank]
  /\ text = [i \in 1 .. MaxPieces |-> Blank]
  /\ at = [t \in Callers |-> 1]
  /\ size = [t \in Callers |-> 1]
  /\ lines = [t \in Callers |-> 0]
  /\ queue = <<>>
  /\ printed = 0

TypeOK ==
  /\ UartTypeOK /\ CdcTypeOK
  /\ \A t \in Callers : pc[t] \in {"idle", "format", "cut", "said"} /\ at[t] \in 1 .. size[t]
  /\ \A w \in Writers : pc[w] \in InTransmit \cup {"idle", "usb", "transfer", "written", "done"}
  /\ Len(queue) <= QueueSize

-----------------------------------------------------------------------------
(* Scheduling *)

(* In the loop on HAL_BUSY: it gives way, but only to its own priority. *)
Spins(t) == pc[t] = "test" /\ huart.gState # "READY"

Blocked(t) ==
  \/ pc[t] \in {"idle", "transfer"}
  \/ pc[t] = "take" /\ uartLock = 0
  \/ pc[t] = "await" /\ txLock = 0
  \/ pc[t] = "usb" /\ connected /\ device = "configured" /\ ~Empty(buffer[t]) /\ writing # {}

(* t may take a step: whoever else is in the middle of something is less   *)
(* urgent, or a writer of the same priority that has given way or has      *)
(* become ready while t ran (a caller never waits once it has begun).      *)
Runs(t) ==
  \A b \in Threads \ {t} :
    ~Blocked(b) => \/ Priority[b] < Priority[t]
                   \/ /\ Priority[b] = Priority[t]
                      /\ t \in Callers /\ b \in Writers
                      /\ pc[t] # "idle" \/ Spins(b)

-----------------------------------------------------------------------------
(* Debug::send and Debug::s *)

Begin(t, n) ==
  /\ Goto(t, "format")
  /\ at' = [at EXCEPT ![t] = 1]
  /\ size' = [size EXCEPT ![t] = n]
  /\ lines' = [lines EXCEPT ![t] = @ + 1]
  /\ UNCHANGED <<text, queue, printed>>

Send(t) ==
  /\ pc[t] = "idle" /\ t # Usb
  /\ lines[t] < MaxLines /\ lines[t] + printed < MaxSaid
  /\ \E n \in 1 .. MaxPieces : Begin(t, n)

(* Where the NUL behind a line may be the first of a piece: byteCount      *)
(* counts it when s has ended the line, and the last piece is empty when   *)
(* the characters fill those before it; when the line had its own end and  *)
(* fills its pieces, the NUL lies over the next place.  The lines of       *)
(* CDC::main are shorter than a piece.                                     *)
NulFirst(t) ==
  IF at[t] < size[t] \/ t = Usb THEN {{}}
  ELSE {{}, {size[t]} \ {1}, {size[t] + 1} \cap 1 .. MaxPieces}

(* vsnprintf writes the next part of the line. *)
Format(t) ==
  /\ pc[t] = "format"
  /\ \E empty \in NulFirst(t) :
       text' = [i \in 1 .. MaxPieces |->
                  IF i \in empty THEN Piece(t, lines[t], 0)
                  ELSE IF i = at[t] THEN Piece(t, lines[t], i) ELSE text[i]]
  /\ IF at[t] < size[t]
     THEN at' = [at EXCEPT ![t] = @ + 1] /\ UNCHANGED pc
     ELSE at' = [at EXCEPT ![t] = 1] /\ Goto(t, "cut")
  /\ UNCHANGED <<size, lines, queue, printed>>

CutNext(t) ==
  IF at[t] < size[t]
  THEN at' = [at EXCEPT ![t] = @ + 1] /\ UNCHANGED pc
  ELSE at' = [at EXCEPT ![t] = 1]
       /\ Goto(t, IF t = Usb THEN "said" ELSE "idle")

CutTheNext(t) ==                 \* mutant: the copy starts one piece too late
  /\ pc[t] = "cut"
  /\ LET piece == text[IF at[t] < MaxPieces THEN at[t] + 1 ELSE at[t]] IN
       queue' = IF Len(queue) < QueueSize
                THEN Append(queue, [by |-> t, piece |-> piece]) ELSE queue
  /\ CutNext(t)
  /\ UNCHANGED <<text, size, lines, printed>>

(* The next piece is copied out of the static buffer and pushed without    *)
(* waiting: a full queue loses it.                                         *)
Cut(t) ==
  /\ pc[t] = "cut"
  /\ queue' = IF Len(queue) < QueueSize
              THEN Append(queue, [by |-> t, piece |-> text[at[t]]]) ELSE queue
  /\ CutNext(t)
  /\ UNCHANGED <<text, size, lines, printed>>

Say(t) == Send(t) \/ Format(t) \/ Cut(t)

(* CDC::main around Debug::send *)
UsbSays == TakeEvents /\ Begin(Usb, 1)

UsbFollows ==
  /\ Follow
  /\ IF e' = {} THEN Goto(Usb, "idle") /\ UNCHANGED debugVars
     ELSE Begin(Usb, 1)

-----------------------------------------------------------------------------
(* The writers *)

(* Debug::main pops into m, which has been given away before. *)
Pop ==
  /\ pc[Debug] = "idle" /\ queue # <<>>
  /\ buffer' = [buffer EXCEPT ![Debug] = Head(queue).piece]
  /\ queue' = Tail(queue)
  /\ Goto(Debug, "take")
  /\ UNCHANGED <<text, at, size, lines, printed>>

(* printHelpMessage: sprintf into its buffer, then transmitDirect *)
PrintLine ==
  /\ pc[Handler] = "idle" /\ printed < MaxPrint
  /\ \A t \in Callers \ {Usb} : lines[t] + printed < MaxSaid
  /\ buffer' = [buffer EXCEPT ![Handler] = Piece(Handler, printed + 1, 1)]
  /\ printed' = printed + 1
  /\ Goto(Handler, "take")
  /\ UNCHANGED <<text, at, size, lines, queue>>

Done(w) ==
  /\ pc[w] = "done"
  /\ Goto(w, "idle")
  /\ UNCHANGED <<text, at, size, lines, queue, printed>>

-----------------------------------------------------------------------------

onlyUart == <<huart, hdmatx, arg, uartLock, txLock, wire, refused, merged, cutIn>>
onlyCdc  == <<device, usb_connected, handle, events, e, connected, writing, plugs>>

DebugStep ==
  /\ Runs(Debug)
  /\ \/ Pop /\ UNCHANGED <<onlyUart, onlyCdc>>
     \/ Done(Debug) /\ UNCHANGED <<buffer, onlyUart, onlyCdc>>

HandlerReturns ==
  /\ Runs(Handler) /\ Done(Handler) /\ UNCHANGED <<buffer, onlyUart, onlyCdc>>

HandlerPrints == Runs(Handler) /\ PrintLine /\ UNCHANGED <<onlyUart, onlyCdc>>

WriterStep(w) ==
  /\ Runs(w)
  /\ \/ Transmit(w) /\ UNCHANGED <<onlyCdc, debugVars>>
     \/ UsbTransmit(w, Empty(buffer[w])) /\ UNCHANGED <<buffer, onlyUart, debugVars>>

CallerStep(t) ==
  /\ Runs(t) /\ Say(t) /\ UNCHANGED <<buffer, onlyUart, onlyCdc>>

UsbStep ==
  /\ Runs(Usb) /\ (UsbSays \/ UsbFollows) /\ UNCHANGED <<buffer, onlyUart>>

HardwareStep == Hardware /\ UNCHANGED <<onlyCdc, debugVars>>

HostStep ==
  /\ Attach \/ Configure \/ Remove \/ \E w \in Writers : HostTakes(w)
  /\ UNCHANGED <<buffer, onlyUart, debugVars>>

Next ==
  \/ DebugStep \/ HandlerPrints \/ HandlerReturns
  \/ \E w \in Writers : WriterStep(w)
  \/ \E t \in Callers : CallerStep(t)
  \/ UsbStep \/ HardwareStep \/ HostStep

(* A ready thread of the highest priority runs, the channel moves and the  *)
(* interrupts come.  When a caller has something to say, when the handler  *)
(* prints, and what the USB host does, is up to the outside.               *)
Fairness ==
  /\ WF_vars(DebugStep) /\ WF_vars(HandlerReturns) /\ WF_vars(UsbStep)
  /\ \A w \in Writers : WF_vars(WriterStep(w))
  /\ \A t \in Callers : WF_vars(CallerStep(t) /\ pc[t] # "idle")
  /\ WF_vars(HardwareStep)

Spec == Init /\ [][Next]_vars /\ Fairness

-----------------------------------------------------------------------------
(* Properties *)

(* The handler polls for a transfer the debug thread has announced and not *)
(* started; it never gives way to the less urgent thread, so it polls for  *)
(* ever, and every thread below it waits.                                  *)
Starved == Spins(Handler) /\ pc[Debug] \in InsideHal

(* A writer waits for a host that has configured the device and does not   *)
(* read from it.                                                           *)
AtTheHost == \E w \in Writers : pc[w] = "transfer"

(* As long as the handler has not printed while the debug thread was       *)
(* inside the HAL, no message that has any characters is dropped on        *)
(* HAL_ERROR.                                                              *)
NothingRefused == refused => cutIn

(* ... and what a transfer puts on the wire comes out of the memory of the *)
(* writer that asked for it: it is the message it was given, or in part    *)
(* the one message that the writer put into that memory after it.          *)
FromItsWriter ==
  LET sent == {wire.got[k] : k \in 1 .. Len(wire.got)} IN
    ~cutIn => /\ \A piece \in sent : piece[1] = Handler <=> wire.by = Handler
              /\ Cardinality(sent \cup {wire.given}) <= 2

(* The tokens of txLock that are still to be given                         *)
Coming ==
  (IF hdmatx.State = "BUSY" THEN 1 ELSE 0) + (IF huart.TCIE THEN 1 ELSE 0)

(* When both writers have returned, cut in or not, refused or not, the     *)
(* token of uartLock that each took is back, and none of txLock has been   *)
(* given or taken too often: the one it started with is there or still     *)
(* coming, unless it was lost because two transfers ended in one           *)
(* interrupt, which takes a writer that cut in on the other.               *)
LocksComeBack ==
  /\ (\A w \in Writers : pc[w] \notin InTransmit)
       => uartLock = 2 /\ txLock + Coming + merged = 1
  /\ merged > 0 => cutIn

(* A piece in the queue is its caller's own, or it was overwritten in the  *)
(* static buffer by a more urgent caller that cut in.                      *)
DamagedOnlyByMoreUrgent ==
  \A i \in 1 .. Len(queue) :
    LET t == queue[i].by  o == queue[i].piece[1] IN
      o = t \/ Priority[o] > Priority[t]

(* A writer waits for a token that is not coming: it was lost with two     *)
(* transfers that ended in one interrupt.                                  *)
Deaf ==
  /\ \E w \in Writers : pc[w] = "await"
  /\ txLock + Coming = 0 /\ merged > 0

(* Whatever is queued or printed comes to its end, and the next waits for  *)
(* nothing but another message, unless the handler starves the debug       *)
(* thread, cut-ins have cost it the token it waits for, or the USB host    *)
(* does not read.                                                          *)
Quiet == queue = <<>> /\ \A w \in Writers : pc[w] = "idle"

EverythingIsSaid == ~Quiet ~> (Quiet \/ Starved \/ Deaf \/ AtTheHost)

(* However attachments and removals fall together, once CDC::main has      *)
(* dealt with its events the flag agrees with what the device has become.  *)
ConnectedFollows ==
  pc[Usb] = "idle" /\ events = {} /\ handle => connected = usb_connected
=============================================================================
