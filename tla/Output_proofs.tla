---------------------------- MODULE Output_proofs ----------------------------
(***************************************************************************)
(* Proofs about Output for every number of callers, all their priorities,  *)
(* every length of a transfer, of a line and of the queue, and however     *)
(* often the USB device comes and goes.                                    *)
(***************************************************************************)
EXTENDS Output, TLAPS, FiniteSetTheorems

USE UartAssumption, OutputAssumption

Pieces    == Threads \X Nat \X Nat
Others    == (Threads \ {Handler}) \X Nat \X Nat
Transfers == [by : Writers, given : Pieces \cup {<<>>}, got : Seq(Pieces)]

CallerPlaces == {"idle", "format", "cut", "said"}
WriterPlaces == InTransmit \cup {"idle", "usb", "transfer", "written", "done"}
Registers    == [gState : {"READY", "BUSY_TX"}, pTxBuffPtr : Writers,
                 DMAT : BOOLEAN, TCIE : BOOLEAN, TC : BOOLEAN]
Channels     == [Lock : BOOLEAN, State : {"READY", "BUSY"}, left : 0 .. Words,
                 src : Writers, history : Transfers]

-----------------------------------------------------------------------------
(* Types *)

PlacesOK ==
  /\ pc \in [Threads -> CallerPlaces \cup WriterPlaces]
  /\ \A t \in Callers : pc[t] \in CallerPlaces
  /\ \A w \in Writers : pc[w] \in WriterPlaces

UartOK ==
  /\ buffer \in [Writers -> Pieces] /\ buffer[Debug] \in Others
  /\ huart \in Registers /\ hdmatx \in Channels
  /\ Len(hdmatx.history.got) = (IF hdmatx.State = "BUSY" THEN Words - hdmatx.left ELSE 0)
  /\ arg \in [Writers -> Writers]
  /\ uartLock \in Nat /\ txLock \in Nat
  /\ wire \in Transfers
  /\ refused \in BOOLEAN /\ merged \in Nat /\ cutIn \in BOOLEAN

CdcOK ==
  /\ device \in {"removed", "attached", "configured"}
  /\ usb_connected \in BOOLEAN /\ handle \in BOOLEAN /\ connected \in BOOLEAN
  /\ events \subseteq CDCEvents /\ e \subseteq CDCEvents
  /\ \A w \in Writers : w \in writing <=> pc[w] \in {"transfer", "written"}
  /\ \A v, w \in writing : v = w
  /\ writing \subseteq Writers

(* The static buffer and the queue never hold a piece of the handler's.    *)
DebugOK ==
  /\ text \in [1 .. MaxPieces -> Others]
  /\ at \in [Callers -> Nat] /\ size \in [Callers -> 1 .. MaxPieces]
  /\ \A t \in Callers : at[t] \in 1 .. size[t]
  /\ lines \in [Callers -> Nat]
  /\ queue \in Seq([by : Callers, piece : Others]) /\ Len(queue) <= QueueSize
  /\ printed \in Nat

TypeInv == PlacesOK /\ UartOK /\ CdcOK /\ DebugOK

-----------------------------------------------------------------------------
(* The steps: a writer in UART::transmit, the hardware under it, and all   *)
(* the others, which leave a writer in transmit and the UART alone.        *)

UartStep(w) == Runs(w) /\ Transmit(w) /\ UNCHANGED <<onlyCdc, debugVars>>

Outdoors == {"usb", "transfer", "written", "done", "idle"}

Aside ==
  /\ UNCHANGED onlyUart /\ buffer' \in [Writers -> Pieces] /\ buffer'[Debug] \in Others
  /\ \A w \in Writers :
       \/ pc'[w] = pc[w] /\ buffer'[w] = buffer[w]
       \/ pc[w] \in Outdoors /\ pc'[w] \in Outdoors /\ buffer'[w] = buffer[w]
       \/ pc[w] = "idle" /\ pc'[w] = "take"
  /\ printed' # printed => printed' = printed + 1 /\ buffer'[Handler][1] = Handler
  /\ printed' = printed => (pc[Handler] = "idle" => pc'[Handler] = "idle")
                             /\ buffer'[Handler] = buffer[Handler]

LEMMA DifferentWriters ==
  /\ Debug # Handler /\ Debug \in Writers /\ Handler \in Writers
  /\ Callers \cap Writers = {} /\ Usb \in Callers
  /\ Threads = Callers \cup Writers
  /\ \A t \in Threads : Priority[t] \in Nat
BY DEF Threads

LEMMA HeadIn ==
  ASSUME NEW S, NEW s \in Seq(S), s # <<>> PROVE Head(s) \in S /\ Tail(s) \in Seq(S)
OBVIOUS

LEMMA Steps ==
  ASSUME TypeInv, [Next]_vars
  PROVE  (\E w \in Writers : UartStep(w)) \/ HardwareStep \/ Aside
<1> USE DifferentWriters DEF TypeInv, PlacesOK, Outdoors, onlyUart
<1>0. buffer \in [Writers -> Pieces] /\ buffer[Debug] \in Others
  BY DEF UartOK
<1>1. CASE DebugStep
  <2>1. CASE Pop /\ UNCHANGED <<onlyUart, onlyCdc>>
    <3>1. /\ pc[Debug] = "idle" /\ pc' = [pc EXCEPT ![Debug] = "take"] /\ printed' = printed
          /\ buffer' = [buffer EXCEPT ![Debug] = Head(queue).piece] /\ queue # <<>>
      BY <2>1 DEF Pop, Goto
    <3>2. Head(queue).piece \in Pieces /\ Head(queue).piece \in Others
      <4>1. Head(queue) \in [by : Callers, piece : Others]
        BY <3>1, HeadIn DEF DebugOK
      <4> QED
        BY <4>1 DEF Others, Pieces
    <3> QED
      BY <2>1, <3>1, <3>2 DEF Aside, UartOK
  <2>2. CASE Done(Debug) /\ UNCHANGED <<buffer, onlyUart, onlyCdc>>
    BY <1>0, <2>2 DEF Done, Goto, Aside
  <2> QED
    BY <1>1, <2>1, <2>2 DEF DebugStep
<1>2. CASE HandlerReturns
  BY <1>0, <1>2 DEF HandlerReturns, Done, Goto, Aside
<1>3. CASE HandlerPrints
  <2>1. /\ pc[Handler] = "idle" /\ pc' = [pc EXCEPT ![Handler] = "take"]
        /\ buffer' = [buffer EXCEPT ![Handler] = <<Handler, printed + 1, 1>>]
        /\ printed' = printed + 1 /\ UNCHANGED onlyUart
    BY <1>3 DEF HandlerPrints, PrintLine, Piece, Goto
  <2>2. printed \in Nat /\ buffer \in [Writers -> Pieces]
    BY DEF UartOK, DebugOK
  <2>3. buffer'[Handler][1] = Handler /\ printed' # printed
    BY <2>1, <2>2
  <2>4. <<Handler, printed + 1, 1>> \in Pieces
    BY <2>2 DEF Pieces
  <2>5. buffer'[Debug] \in Others
    BY <1>0, <2>1
  <2> QED
    BY <2>1, <2>2, <2>3, <2>4, <2>5 DEF Aside
<1>4. ASSUME NEW w \in Writers, WriterStep(w)
      PROVE  UartStep(w) \/ Aside
  <2>1. CASE UsbTransmit(w, Empty(buffer[w])) /\ UNCHANGED <<buffer, onlyUart, debugVars>>
    BY <1>0, <2>1 DEF UsbTransmit, Skip, Write, Written, Goto, debugVars, Aside
  <2> QED
    BY <1>4, <2>1 DEF WriterStep, UartStep
<1>5. ASSUME NEW t \in Callers, CallerStep(t) PROVE Aside
  <2>1. \A w \in Writers : pc'[w] = pc[w]
    BY <1>5 DEF CallerStep, Say, Send, Begin, Format, Cut, CutNext, Goto
  <2> QED
    BY <1>0, <1>5, <2>1 DEF CallerStep, Say, Send, Begin, Format, Cut, CutNext, Aside
<1>6. CASE UsbStep
  <2>1. \A w \in Writers : pc'[w] = pc[w]
    BY <1>6 DEF UsbStep, UsbSays, UsbFollows, TakeEvents, Follow, Begin, Goto, debugVars
  <2> QED
    BY <1>0, <1>6, <2>1 DEF UsbStep, UsbSays, UsbFollows, TakeEvents, Follow, Begin, debugVars, Aside
<1>7. CASE HostStep
  <2>1. CASE Attach \/ Configure
    BY <1>0, <1>7, <2>1 DEF HostStep, Attach, Configure, debugVars, Aside
  <2>2. CASE Remove
    BY <1>0, <1>7, <2>2 DEF HostStep, Remove, debugVars, Aside
  <2>3. ASSUME NEW w \in Writers, HostTakes(w) PROVE Aside
    BY <1>0, <1>7, <2>3 DEF HostStep, HostTakes, Goto, debugVars, Aside
  <2> QED
    BY <1>7, <2>1, <2>2, <2>3 DEF HostStep
<1>8. CASE UNCHANGED vars
  BY <1>0, <1>8 DEF vars, uartVars, debugVars, Aside
<1> QED
  BY <1>1, <1>2, <1>3, <1>4, <1>5, <1>6, <1>7, <1>8 DEF Next

-----------------------------------------------------------------------------
(* Type correctness *)

LEMMA NoTransferOK == NoTransfer \in Transfers /\ Len(NoTransfer.got) = 0
BY DifferentWriters DEF NoTransfer, Transfers

LEMMA InitTypeInv == Init => TypeInv
<1> SUFFICES ASSUME Init PROVE TypeInv
  OBVIOUS
<1> USE DifferentWriters
<1>1. Blank \in Others /\ Blank \in Pieces
  BY DEF Blank, Piece, Others, Pieces, Threads
<1>2. PlacesOK
  BY DEF Init, PlacesOK, CallerPlaces, WriterPlaces
<1>3. UartOK
  <2> DEFINE some == CHOOSE w \in Writers : TRUE
  <2>1. some \in Writers
    OBVIOUS
  <2>2. NoTransfer \in Transfers /\ Len(NoTransfer.got) = 0
    BY NoTransferOK
  <2>3. /\ huart = [gState |-> "READY", pTxBuffPtr |-> some,
                    DMAT |-> FALSE, TCIE |-> FALSE, TC |-> TRUE]
        /\ hdmatx = [Lock |-> FALSE, State |-> "READY", left |-> 0,
                     src |-> some, history |-> NoTransfer]
    BY DEF Init, UartInit
  <2> HIDE DEF some
  <2>4. huart \in Registers /\ hdmatx \in Channels /\ Len(hdmatx.history.got) = 0
    BY <2>1, <2>2, <2>3 DEF Registers, Channels
  <2>5. hdmatx.State = "READY"
    BY <2>3
  <2> QED
    BY <1>1, <2>2, <2>4, <2>5 DEF Init, UartInit, UartOK
<1>4. CdcOK
  BY DEF Init, CdcInit, CdcOK
<1>5. DebugOK
  BY <1>1 DEF Init, DebugOK
<1> QED
  BY <1>2, <1>3, <1>4, <1>5 DEF TypeInv

LEMMA NextUartOK ==
  ASSUME TypeInv, [Next]_vars
  PROVE  UartOK'
<1> USE DifferentWriters DEF TypeInv, UartOK
<1>1. ASSUME NEW w \in Writers, UartStep(w) PROVE UartOK'
  <2>1. buffer' = buffer /\ wire' = wire /\ merged' = merged
    BY <1>1 DEF UartStep, Transmit, Take, Test, Point, Arm, Lock, Start, Flag, Error, Await, Leave
  <2>2. CASE Take(w)
    <3>1. cutIn' \in BOOLEAN
      BY <2>2, Zenon DEF Take
    <3>2. uartLock' \in Nat
      BY <2>2 DEF Take
    <3>3. UNCHANGED <<buffer, huart, hdmatx, arg, txLock, wire, refused, merged>>
      BY <2>2 DEF Take
    <3> QED
      BY <3>1, <3>2, <3>3
  <2>6. CASE Test(w) \/ Await(w) \/ Leave(w)
    BY <2>1, <2>6 DEF Test, Await, Leave
  <2>3. CASE Point(w) \/ Arm(w) \/ Flag(w) \/ Error(w)
    BY <2>1, <2>3 DEF Point, Arm, Flag, Error, Registers
  <2>4. CASE Lock(w)
    <3>1. huart.pTxBuffPtr \in Writers
      BY DEF Registers
    <3> QED
      BY <2>1, <2>4, <3>1 DEF Lock
  <2>5. CASE Start(w)
    <3>1. UNCHANGED <<huart, arg, uartLock, txLock, refused, merged, cutIn>>
      BY <2>5 DEF Start
    <3>2. CASE hdmatx.State = "READY"
      <4> DEFINE h == [by |-> w, given |-> buffer[w], got |-> <<>>]
      <4>1. hdmatx' = [Lock |-> TRUE, State |-> "BUSY", left |-> Words, src |-> arg[w],
                       history |-> h]
        BY <2>5, <3>2 DEF Start
      <4>2. h \in Transfers /\ Len(h.got) = 0
        BY DEF Transfers
      <4>3. arg[w] \in Writers /\ Words \in 0 .. Words
        OBVIOUS
      <4> HIDE DEF h
      <4>4. hdmatx' \in Channels /\ hdmatx'.left = Words /\ hdmatx'.history = h
        BY <4>1, <4>2, <4>3 DEF Channels
      <4> QED
        BY <2>1, <3>1, <4>2, <4>4
    <3>3. CASE hdmatx.State = "BUSY"
      <4>1. hdmatx' = [hdmatx EXCEPT !.Lock = FALSE]
        BY <2>5, <3>3 DEF Start
      <4>2. /\ hdmatx' \in Channels /\ hdmatx'.State = hdmatx.State
            /\ hdmatx'.left = hdmatx.left /\ hdmatx'.history = hdmatx.history
        BY <4>1 DEF Channels
      <4> QED
        BY <2>1, <3>1, <4>2
    <3> QED
      BY <3>2, <3>3 DEF Channels
  <2> QED
    BY <1>1, <2>2, <2>3, <2>4, <2>5, <2>6 DEF UartStep, Transmit
<1>2. CASE HardwareStep
  <2>1. CASE Move
    <3> DEFINE h == [hdmatx.history EXCEPT !.got = Append(@, buffer[hdmatx.src])]
    <3>1. /\ hdmatx.State = "BUSY" /\ hdmatx.left > 0
          /\ huart' = [huart EXCEPT !.TC = FALSE]
          /\ UNCHANGED <<buffer, arg, uartLock, txLock, wire, refused, merged, cutIn>>
      BY <2>1 DEF Move
    <3>2. hdmatx' = [Lock |-> hdmatx.Lock, State |-> hdmatx.State, left |-> hdmatx.left - 1,
                     src |-> hdmatx.src, history |-> h]
      BY <2>1 DEF Move, Channels, Transfers
    <3>3. hdmatx.history \in Transfers /\ buffer[hdmatx.src] \in Pieces
          /\ hdmatx.left \in 0 .. Words
      BY DEF Channels
    <3>4. h \in Transfers /\ Len(h.got) = Len(hdmatx.history.got) + 1
      <4>1. Append(hdmatx.history.got, buffer[hdmatx.src]) \in Seq(Pieces)
            /\ Len(Append(hdmatx.history.got, buffer[hdmatx.src])) = Len(hdmatx.history.got) + 1
        BY <3>3 DEF Transfers
      <4> QED
        BY <3>3, <4>1 DEF Transfers
    <3> HIDE DEF h
    <3>5. hdmatx' \in Channels /\ hdmatx'.left = hdmatx.left - 1 /\ hdmatx'.history = h
          /\ hdmatx'.State = "BUSY"
      BY <3>1, <3>2, <3>3, <3>4 DEF Channels
    <3>6. huart' \in Registers
      BY <3>1 DEF Registers
    <3> QED
      BY <3>1, <3>3, <3>4, <3>5, <3>6
  <2>2. CASE DmaIrq
    <3>1. hdmatx' = [hdmatx EXCEPT !.State = "READY", !.Lock = FALSE, !.history = NoTransfer]
      BY <2>2 DEF DmaIrq
    <3>2. hdmatx' \in Channels /\ hdmatx'.State = "READY" /\ hdmatx'.history = NoTransfer
      BY <3>1, NoTransferOK DEF Channels
    <3>3. wire' \in Transfers /\ huart' \in Registers
      BY <2>2 DEF DmaIrq, Registers, Channels
    <3>4. UNCHANGED <<buffer, arg, uartLock, txLock, refused, cutIn>> /\ merged' \in Nat
      BY <2>2 DEF DmaIrq
    <3> QED
      BY <3>2, <3>3, <3>4, NoTransferOK
  <2>3. CASE ShiftedOut \/ TcIrq
    <3>1. huart' \in Registers
      BY <2>3 DEF ShiftedOut, TcIrq, Registers
    <3>2. txLock' \in Nat /\ UNCHANGED <<buffer, hdmatx, arg, uartLock, refused, merged, cutIn>>
          /\ wire' \in Transfers
      BY <2>3, NoTransferOK DEF ShiftedOut, TcIrq
    <3> QED
      BY <3>1, <3>2
  <2> QED
    BY <1>2, <2>1, <2>2, <2>3 DEF HardwareStep, Hardware
<1>3. CASE Aside
  BY <1>3 DEF Aside, onlyUart
<1> QED
  BY <1>1, <1>2, <1>3, Steps

LEMMA NextPlacesOK ==
  ASSUME TypeInv, [Next]_vars
  PROVE  PlacesOK'
<1> USE DifferentWriters DEF TypeInv, PlacesOK, CallerPlaces, WriterPlaces, InTransmit, InsideHal
<1>1. ASSUME NEW t \in Threads, NEW place, Goto(t, place),
             t \in Callers => place \in CallerPlaces, t \in Writers => place \in WriterPlaces
      PROVE  PlacesOK'
  BY <1>1 DEF Goto
<1>2. ASSUME NEW w \in Writers, UartStep(w) PROVE PlacesOK'
  <2>1. \E place \in WriterPlaces : Goto(w, place)
    BY <1>2 DEF UartStep, Transmit, Take, Test, Point, Arm, Lock, Start, Flag, Error, Await, Leave
  <2> QED
    BY <1>1, <2>1
<1>3. CASE HardwareStep
  BY <1>3 DEF HardwareStep, Hardware, Move, DmaIrq, ShiftedOut, TcIrq
<1>4. CASE DebugStep \/ HandlerReturns \/ HandlerPrints
  <2>1. \E w \in Writers : Goto(w, "take") \/ Goto(w, "idle")
    BY <1>4 DEF DebugStep, HandlerReturns, HandlerPrints, Pop, Done, PrintLine
  <2> QED
    BY <1>1, <2>1
<1>5. ASSUME NEW w \in Writers, NEW empty, UsbTransmit(w, empty) PROVE PlacesOK'
  <2>1. \E place \in WriterPlaces : Goto(w, place)
    BY <1>5 DEF UsbTransmit, Skip, Write, Written
  <2> QED
    BY <1>1, <2>1
<1>6. ASSUME NEW t \in Callers, Say(t) \/ (t = Usb /\ (UsbSays \/ UsbFollows)) PROVE PlacesOK'
  <2>1. UNCHANGED pc \/ \E place \in CallerPlaces : Goto(t, place)
    BY <1>6 DEF Say, Send, Begin, Format, Cut, CutNext, UsbSays, UsbFollows
  <2>2. CASE UNCHANGED pc
    BY <2>2
  <2> QED
    BY <1>1, <2>1, <2>2
<1>7. CASE HostStep
  <2>1. CASE Attach \/ Configure
    BY <2>1 DEF Attach, Configure
  <2>2. CASE Remove
    BY <2>2 DEF Remove
  <2>3. ASSUME NEW w \in Writers, HostTakes(w) PROVE PlacesOK'
    BY <1>1, <2>3 DEF HostTakes
  <2> QED
    BY <1>7, <2>1, <2>2, <2>3 DEF HostStep
<1>8. CASE UNCHANGED vars
  BY <1>8 DEF vars, uartVars
<1> QED
  BY <1>2, <1>3, <1>4, <1>5, <1>6, <1>7, <1>8 DEF Next, WriterStep, UartStep, CallerStep, UsbStep

LEMMA NextCdcOK ==
  ASSUME TypeInv, [Next]_vars
  PROVE  CdcOK'
<1> USE DifferentWriters DEF TypeInv, CdcOK, CDCEvents
<1>1. ASSUME UNCHANGED onlyCdc,
             \A w \in Writers : (pc'[w] \in {"transfer", "written"}) = (pc[w] \in {"transfer", "written"})
      PROVE  CdcOK'
  BY <1>1 DEF onlyCdc
<1>2. ASSUME NEW w \in Writers, UartStep(w) PROVE CdcOK'
  <2>1. /\ pc[w] \notin {"transfer", "written"} /\ pc'[w] \notin {"transfer", "written"}
        /\ \A v \in Writers \ {w} : pc'[v] = pc[v]
    BY <1>2 DEF UartStep, Transmit, Take, Test, Point, Arm, Lock, Start, Flag, Error, Await, Leave,
       Goto, PlacesOK
  <2> QED
    BY <1>1, <1>2, <2>1 DEF UartStep
<1>3. CASE HardwareStep
  BY <1>1, <1>3 DEF HardwareStep, Hardware, Move, DmaIrq, ShiftedOut, TcIrq
<1>4. CASE DebugStep \/ HandlerReturns \/ HandlerPrints
  <2>1. \A v \in Writers : pc'[v] = pc[v] \/ {pc[v], pc'[v]} \subseteq {"idle", "take", "done"}
    BY <1>4 DEF DebugStep, HandlerReturns, HandlerPrints, Pop, Done, PrintLine, Goto, PlacesOK
  <2>2. UNCHANGED onlyCdc
    BY <1>4 DEF DebugStep, HandlerReturns, HandlerPrints
  <2> QED
    BY <1>1, <2>1, <2>2
<1>5. ASSUME NEW w \in Writers, NEW empty, UsbTransmit(w, empty) PROVE CdcOK'
  <2>1. \A v \in Writers \ {w} : pc'[v] = pc[v]
    BY <1>5 DEF UsbTransmit, Skip, Write, Written, Goto, PlacesOK
  <2>2. CASE Skip(w, empty)
    BY <2>1, <2>2 DEF Skip, Goto, PlacesOK
  <2>3. CASE Write(w, empty)
    BY <2>1, <2>3 DEF Write, Goto, PlacesOK
  <2>4. CASE Written(w)
    BY <2>1, <2>4 DEF Written, Goto, PlacesOK
  <2> QED
    BY <1>5, <2>2, <2>3, <2>4 DEF UsbTransmit
<1>6. ASSUME NEW t \in Callers, CallerStep(t) PROVE CdcOK'
  <2>1. \A v \in Writers : pc'[v] = pc[v]
    BY <1>6 DEF CallerStep, Say, Send, Begin, Format, Cut, CutNext, Goto, PlacesOK
  <2> QED
    BY <1>1, <1>6, <2>1 DEF CallerStep
<1>7. CASE UsbStep
  <2>1. \A v \in Writers : pc'[v] = pc[v]
    BY <1>7 DEF UsbStep, UsbSays, UsbFollows, TakeEvents, Follow, Begin, Goto, debugVars, PlacesOK
  <2>2. /\ UNCHANGED <<device, usb_connected, handle, writing, plugs>>
        /\ connected' \in BOOLEAN /\ events' \subseteq CDCEvents /\ e' \subseteq CDCEvents
    BY <1>7 DEF UsbStep, UsbSays, UsbFollows, TakeEvents, Follow
  <2> QED
    BY <2>1, <2>2
<1>8. CASE HostStep
  <2>1. CASE Attach \/ Configure
    BY <2>1 DEF Attach, Configure
  <2>2. CASE Remove
    BY <2>2 DEF Remove, PlacesOK
  <2>3. ASSUME NEW w \in Writers, HostTakes(w) PROVE CdcOK'
    BY <2>3 DEF HostTakes, Goto, PlacesOK
  <2> QED
    BY <1>8, <2>1, <2>2, <2>3 DEF HostStep
<1>9. CASE UNCHANGED vars
  BY <1>1, <1>9 DEF vars, uartVars, cdcVars, onlyCdc
<1> QED
  BY <1>2, <1>3, <1>4, <1>5, <1>6, <1>7, <1>8, <1>9 DEF Next, WriterStep, UartStep

LEMMA OneFurther ==
  ASSUME DebugOK, NEW t \in Callers, NEW a,
         \/ at[t] < size[t] /\ a = [at EXCEPT ![t] = at[t] + 1]
         \/ a = [at EXCEPT ![t] = 1]
  PROVE  a \in [Callers -> Nat] /\ \A v \in Callers : a[v] \in 1 .. size[v]
<1>1. \A v \in Callers : size[v] \in Nat /\ 1 <= size[v] /\ at[v] \in Nat /\ 1 <= at[v] /\ at[v] <= size[v]
  BY DEF DebugOK
<1>2. at \in [Callers -> Nat]
  BY DEF DebugOK
<1> QED
  BY <1>1, <1>2

LEMMA NextDebugOK ==
  ASSUME TypeInv, [Next]_vars
  PROVE  DebugOK'
<1> USE DifferentWriters DEF TypeInv, DebugOK
<1>1. CASE UNCHANGED debugVars
  BY <1>1 DEF debugVars
<1>2. ASSUME NEW t \in Callers, NEW n \in 1 .. MaxPieces, Begin(t, n) PROVE DebugOK'
  <2>1. /\ at' = [at EXCEPT ![t] = 1] /\ size' = [size EXCEPT ![t] = n]
        /\ lines' = [lines EXCEPT ![t] = lines[t] + 1] /\ UNCHANGED <<text, queue, printed>>
    BY <1>2 DEF Begin
  <2>2. at' \in [Callers -> Nat] /\ size' \in [Callers -> 1 .. MaxPieces] /\ lines' \in [Callers -> Nat]
    BY <2>1
  <2>3. \A v \in Callers : at'[v] \in 1 .. size'[v]
    <3>1. at'[t] = 1 /\ size'[t] = n
      BY <2>1
    <3>2. \A v \in Callers \ {t} : at'[v] = at[v] /\ size'[v] = size[v] /\ at[v] \in 1 .. size[v]
      BY <2>1
    <3>3. n \in Nat /\ 1 <= n
      OBVIOUS
    <3> HIDE DEF TypeInv, DebugOK
    <3> QED
      BY <3>1, <3>2, <3>3
  <2> QED
    BY <2>1, <2>2, <2>3
<1>3. CASE Pop
  <2>1. queue' \in Seq([by : Callers, piece : Others]) /\ Len(queue') <= QueueSize
    BY <1>3, HeadIn DEF Pop
  <2> QED
    BY <1>3, <2>1 DEF Pop
<1>4. CASE PrintLine
  BY <1>4 DEF PrintLine
<1>5. ASSUME NEW t \in Callers, Format(t) PROVE DebugOK'
  <2>1. \A i \in Nat : Piece(t, lines[t], i) \in Others
    BY DEF Piece, Others
  <2>2. text' \in [1 .. MaxPieces -> Others] /\ UNCHANGED <<size, lines, queue, printed>>
    BY <1>5, <2>1 DEF Format
  <2>3. at' \in [Callers -> Nat] /\ \A v \in Callers : at'[v] \in 1 .. size[v]
    <3>1. \/ at[t] < size[t] /\ at' = [at EXCEPT ![t] = at[t] + 1]
          \/ at' = [at EXCEPT ![t] = 1]
      BY <1>5 DEF Format
    <3>2. DebugOK
      OBVIOUS
    <3> HIDE DEF DebugOK
    <3> QED
      BY <3>1, <3>2, OneFurther
  <2> QED
    BY <2>2, <2>3
<1>6. ASSUME NEW t \in Callers, Cut(t) PROVE DebugOK'
  <2>1. [by |-> t, piece |-> text[at[t]]] \in [by : Callers, piece : Others]
    OBVIOUS
  <2>2. queue' \in Seq([by : Callers, piece : Others]) /\ Len(queue') <= QueueSize
    <3> DEFINE x == [by |-> t, piece |-> text[at[t]]]
    <3>1. queue' = IF Len(queue) < QueueSize THEN Append(queue, x) ELSE queue
      BY <1>6 DEF Cut
    <3>2. x \in [by : Callers, piece : Others] /\ queue \in Seq([by : Callers, piece : Others])
          /\ Len(queue) \in Nat /\ QueueSize \in Nat /\ Len(queue) <= QueueSize
      BY <2>1
    <3> HIDE DEF x, TypeInv
    <3>3. CASE Len(queue) < QueueSize
      BY <3>1, <3>2, <3>3
    <3>4. CASE ~(Len(queue) < QueueSize)
      BY <3>1, <3>2, <3>4
    <3> QED
      BY <3>3, <3>4
  <2>3. UNCHANGED <<text, size, lines, printed>>
    BY <1>6 DEF Cut
  <2>4. at' \in [Callers -> Nat] /\ \A v \in Callers : at'[v] \in 1 .. size[v]
    <3>1. \/ at[t] < size[t] /\ at' = [at EXCEPT ![t] = at[t] + 1]
          \/ at' = [at EXCEPT ![t] = 1]
      BY <1>6 DEF Cut, CutNext
    <3>2. DebugOK
      OBVIOUS
    <3> HIDE DEF DebugOK
    <3> QED
      BY <3>1, <3>2, OneFurther
  <2> QED
    BY <2>2, <2>3, <2>4
<1>7. ASSUME NEW w \in Writers, UartStep(w) \/ Done(w) PROVE DebugOK'
  BY <1>1, <1>7 DEF UartStep, Done, debugVars
<1>8. CASE HardwareStep \/ HostStep \/ UNCHANGED vars
  BY <1>1, <1>8 DEF HardwareStep, HostStep, vars
<1>9. ASSUME NEW t \in Callers, Send(t) PROVE DebugOK'
  BY <1>2, <1>9 DEF Send
<1>10. CASE UsbStep
  <2>1. 1 \in 1 .. MaxPieces
    OBVIOUS
  <2> QED
    BY <1>1, <1>2, <1>10, <2>1 DEF UsbStep, UsbSays, UsbFollows
<1> QED
  BY <1>1, <1>3, <1>4, <1>5, <1>6, <1>7, <1>8, <1>9, <1>10
  DEF Next, DebugStep, HandlerPrints, HandlerReturns, WriterStep, UartStep, CallerStep, Say

LEMMA NextTypeInv == TypeInv /\ [Next]_vars => TypeInv'
BY NextPlacesOK, NextUartOK, NextCdcOK, NextDebugOK DEF TypeInv

-----------------------------------------------------------------------------
(* The semaphores, whatever happens *)

Inside(w) == IF pc[w] \in InTransmit \ {"take"} THEN 1 ELSE 0
Sending(w) == IF pc[w] \in {"flag", "await"} THEN 1 ELSE 0

(* Who is inside has taken uartLock.  txLock was given once, and once for  *)
(* every transfer that was started, unless its token is still to come or   *)
(* went with another's; and taken by all that started one and went on.     *)
CountInv ==
  /\ uartLock + Inside(Debug) + Inside(Handler) = 2
  /\ txLock + Coming + merged = 1 + Sending(Debug) + Sending(Handler)

LEMMA NextCountInv ==
  ASSUME TypeInv, CountInv, [Next]_vars
  PROVE  CountInv'
<1> USE DifferentWriters DEF TypeInv, PlacesOK, UartOK, Registers, Channels
<1>1. ASSUME NEW w \in Writers, UartStep(w) PROVE CountInv'
  <2> DEFINE v == IF w = Debug THEN Handler ELSE Debug
  <2>1. pc'[v] = pc[v] /\ {v, w} = Writers /\ v # w
    BY <1>1 DEF UartStep, Transmit, Take, Test, Point, Arm, Lock, Start, Flag, Error, Await, Leave, Goto
  <2>2. Inside(v)' = Inside(v) /\ Sending(v)' = Sending(v) /\ merged' = merged
    <3>1. merged' = merged
      BY <1>1 DEF UartStep, Transmit, Take, Test, Point, Arm, Lock, Start, Flag, Error, Await, Leave
    <3> QED
      BY <2>1, <3>1 DEF Inside, Sending
  <2>3. uartLock' + Inside(w)' = uartLock + Inside(w)
    <3>1. CASE Take(w) \/ Leave(w)
      BY <3>1 DEF Take, Leave, Goto, Inside, InTransmit, InsideHal
    <3>2. CASE ~Take(w) /\ ~Leave(w)
      BY <1>1, <3>2 DEF UartStep, Transmit, Test, Point, Arm, Lock, Start, Flag, Error, Await,
         Goto, Inside, InTransmit, InsideHal
    <3> QED
      BY <3>1, <3>2
  <2>4. /\ txLock' + Coming' + Sending(w) = txLock + Coming + Sending(w)'
    <3>1. CASE Start(w)
      <4>1. UNCHANGED <<huart, txLock>> /\ pc[w] = "start"
        BY <3>1 DEF Start
      <4>2. CASE hdmatx.State = "READY"
        <5>1. hdmatx'.State = "BUSY" /\ pc'[w] = "flag"
          BY <3>1, <4>2 DEF Start, Goto
        <5> QED
          BY <4>1, <4>2, <5>1 DEF Sending, Coming
      <4>3. CASE hdmatx.State = "BUSY"
        <5>1. hdmatx'.State = "BUSY" /\ pc'[w] = "error"
          BY <3>1, <4>3 DEF Start, Goto
        <5> QED
          BY <4>1, <4>3, <5>1 DEF Sending, Coming
      <4> QED
        BY <4>2, <4>3
    <3>2. CASE Await(w)
      <4>1. /\ UNCHANGED <<huart, hdmatx>> /\ txLock > 0 /\ txLock' = txLock - 1
            /\ pc[w] = "await" /\ pc'[w] = "leave"
        BY <3>2 DEF Await, Goto
      <4> QED
        BY <4>1 DEF Sending, Coming
    <3>3. CASE ~Start(w) /\ ~Await(w)
      <4>1. /\ huart'.TCIE = huart.TCIE /\ UNCHANGED <<hdmatx, txLock>>
            /\ pc[w] \in {"flag", "await"} <=> pc'[w] \in {"flag", "await"}
        BY <1>1, <3>3 DEF UartStep, Transmit, Take, Test, Point, Arm, Lock, Flag, Error, Leave, Goto
      <4> QED
        BY <4>1 DEF Sending, Coming
    <3> QED
      BY <3>1, <3>2, <3>3
  <2>5. /\ uartLock' \in Nat /\ txLock' \in Nat /\ uartLock \in Nat /\ txLock \in Nat
        /\ Coming \in 0 .. 2 /\ Coming' \in 0 .. 2 /\ merged \in Nat
        /\ \A u \in Writers : /\ Inside(u) \in 0 .. 1 /\ Inside(u)' \in 0 .. 1
                              /\ Sending(u) \in 0 .. 1 /\ Sending(u)' \in 0 .. 1
    BY NextUartOK DEF Inside, Sending, Coming
  <2> HIDE DEF TypeInv, Inside, Sending, Coming
  <2>6. CASE w = Debug
    <3>1. v = Handler
      BY <2>6
    <3> QED
      BY <2>2, <2>3, <2>4, <2>5, <2>6, <3>1 DEF CountInv
  <2>7. CASE w = Handler
    <3>1. v = Debug
      BY <2>7
    <3> QED
      BY <2>2, <2>3, <2>4, <2>5, <2>7, <3>1 DEF CountInv
  <2> QED
    BY <2>6, <2>7
<1>2. CASE HardwareStep
  <2>1. pc' = pc /\ uartLock' = uartLock
    BY <1>2 DEF HardwareStep, Hardware, Move, DmaIrq, ShiftedOut, TcIrq
  <2>2. txLock' + Coming' + merged' = txLock + Coming + merged
    <3>1. CASE Move
      <4>1. /\ hdmatx'.State = hdmatx.State /\ huart'.TCIE = huart.TCIE
            /\ txLock' = txLock /\ merged' = merged
        BY <3>1 DEF Move
      <4> QED
        BY <4>1 DEF Coming
    <3>2. CASE DmaIrq
      <4>1. /\ hdmatx.State = "BUSY" /\ hdmatx'.State = "READY" /\ huart'.TCIE
            /\ txLock' = txLock /\ merged' = (IF huart.TCIE THEN merged + 1 ELSE merged)
        BY <3>2 DEF DmaIrq
      <4>2. CASE huart.TCIE
        BY <4>1, <4>2 DEF Coming
      <4>3. CASE ~huart.TCIE
        BY <4>1, <4>3 DEF Coming
      <4> QED
        BY <4>2, <4>3
    <3>3. CASE ShiftedOut
      <4>1. hdmatx' = hdmatx /\ huart'.TCIE = huart.TCIE /\ txLock' = txLock /\ merged' = merged
        BY <3>3 DEF ShiftedOut
      <4> QED
        BY <4>1 DEF Coming
    <3>4. CASE TcIrq
      <4>1. /\ hdmatx' = hdmatx /\ huart.TCIE /\ ~huart'.TCIE
            /\ txLock' = txLock + 1 /\ merged' = merged
        BY <3>4 DEF TcIrq
      <4> QED
        BY <4>1 DEF Coming
    <3> QED
      BY <1>2, <3>1, <3>2, <3>3, <3>4 DEF HardwareStep, Hardware
  <2>3. \A w \in Writers : Sending(w)' = Sending(w) /\ Inside(w)' = Inside(w)
    BY <2>1 DEF Sending, Inside
  <2> HIDE DEF TypeInv, Inside, Sending, Coming
  <2> QED
    BY <2>1, <2>2, <2>3 DEF CountInv
<1>3. CASE Aside
  <2>1. UNCHANGED <<huart, hdmatx, uartLock, txLock, merged>>
    BY <1>3 DEF Aside, onlyUart
  <2>2. \A w \in Writers : Inside(w)' = Inside(w) /\ Sending(w)' = Sending(w)
    BY <1>3 DEF Aside, Outdoors, Inside, Sending, InTransmit, InsideHal
  <2> QED
    BY <2>1, <2>2 DEF CountInv, Coming
<1> QED
  BY <1>1, <1>2, <1>3, Steps

LEMMA InitCountInv == Init => CountInv
<1> SUFFICES ASSUME Init PROVE CountInv
  OBVIOUS
<1>1. /\ pc[Debug] = "idle" /\ pc[Handler] = "idle" /\ uartLock = 2 /\ txLock = 1
      /\ ~huart.TCIE /\ hdmatx.State = "READY" /\ merged = 0
  BY DifferentWriters DEF Init, UartInit
<1> QED
  BY <1>1 DEF CountInv, Inside, Sending, Coming, InTransmit, InsideHal

LEMMA TypesHold == Spec => [](TypeInv /\ CountInv)
<1>1. Init => TypeInv /\ CountInv
  BY InitTypeInv, InitCountInv
<1>2. TypeInv /\ CountInv /\ [Next]_vars => (TypeInv /\ CountInv)'
  BY NextTypeInv, NextCountInv
<1> QED
  BY <1>1, <1>2, PTL DEF Spec

(* Every variable keeps its type.  The semaphores of transmit never hold   *)
(* more than 2 and 3 tokens, the mutex of the USB class has one holder,    *)
(* the queue keeps its capacity and no index leaves the static buffer.     *)
THEOREM OutputTypeCorrect == Spec => []TypeOK
<1>1. TypeInv /\ CountInv => TypeOK
  <2> SUFFICES ASSUME TypeInv, CountInv PROVE TypeOK
    OBVIOUS
  <2> USE DifferentWriters DEF TypeInv
  <2>1. /\ Inside(Debug) \in 0 .. 1 /\ Inside(Handler) \in 0 .. 1
        /\ Sending(Debug) \in 0 .. 1 /\ Sending(Handler) \in 0 .. 1 /\ Coming \in 0 .. 2
        /\ uartLock \in Nat /\ txLock \in Nat /\ merged \in Nat
    BY DEF Inside, Sending, Coming, UartOK
  <2>2. uartLock \in 0 .. 2 /\ txLock \in 0 .. 3 /\ merged \in 0 .. 3
    <3> HIDE DEF TypeInv, Inside, Sending, Coming
    <3>1. uartLock + Inside(Debug) + Inside(Handler) = 2
      BY DEF CountInv
    <3>2. txLock + Coming + merged = 1 + Sending(Debug) + Sending(Handler)
      BY DEF CountInv
    <3> QED
      BY <2>1, <3>1, <3>2
  <2>3. UartTypeOK
    BY <2>2 DEF UartOK, UartTypeOK, Registers, Channels
  <2>4. CdcTypeOK
    BY DEF CdcOK, CdcTypeOK
  <2> QED
    BY <2>3, <2>4 DEF PlacesOK, DebugOK, CallerPlaces, WriterPlaces, TypeOK
<1> QED
  BY <1>1, TypesHold, PTL

-----------------------------------------------------------------------------
(* Debug::send's static buffer *)

(* Who has been through a place of the static buffer finds there what it   *)
(* wrote itself, or what a more urgent caller has written since.           *)
OwnOrMoreUrgent(t, o) == o = t \/ Priority[o] > Priority[t]

Behind(t, i) ==
  \/ pc[t] = "format" /\ i < at[t]
  \/ pc[t] = "cut" /\ i <= size[t]

DamageInv ==
  /\ \A t \in Callers : \A i \in 1 .. MaxPieces :
       Behind(t, i) => OwnOrMoreUrgent(t, text[i][1])
  /\ DamagedOnlyByMoreUrgent

LEMMA LastOrBefore ==
  ASSUME NEW S, NEW s \in Seq(S), NEW x, NEW i \in 1 .. Len(Append(s, x))
  PROVE  Append(s, x)[i] = x \/ (i \in 1 .. Len(s) /\ Append(s, x)[i] = s[i])
OBVIOUS

LEMMA NextDamageInv ==
  ASSUME TypeInv, DamageInv, [Next]_vars
  PROVE  DamageInv'
<1> USE DifferentWriters
<1>1. /\ text \in [1 .. MaxPieces -> Others] /\ at \in [Callers -> Nat]
      /\ size \in [Callers -> 1 .. MaxPieces] /\ \A t \in Callers : at[t] \in 1 .. size[t]
      /\ queue \in Seq([by : Callers, piece : Others]) /\ lines \in [Callers -> Nat]
      /\ pc \in [Threads -> CallerPlaces \cup WriterPlaces]
  BY DEF TypeInv, PlacesOK, DebugOK
<1>2. ASSUME UNCHANGED <<text, at, size, queue>>,
             \A t \in Callers : pc'[t] = pc[t] \/ pc'[t] \notin {"format", "cut"}
      PROVE  DamageInv'
  BY <1>2 DEF DamageInv, Behind, OwnOrMoreUrgent, DamagedOnlyByMoreUrgent
<1>3. ASSUME NEW t \in Callers, NEW n, Begin(t, n) PROVE DamageInv'
  <2>1. /\ UNCHANGED <<text, queue>> /\ pc' = [pc EXCEPT ![t] = "format"]
        /\ at' = [at EXCEPT ![t] = 1] /\ size' = [size EXCEPT ![t] = n]
    BY <1>3 DEF Begin, Goto
  <2>2. ASSUME NEW v \in Callers, NEW i \in 1 .. MaxPieces, Behind(v, i)'
        PROVE  v # t /\ Behind(v, i)
    BY <1>1, <2>1, <2>2 DEF Behind
  <2> QED
    BY <2>1, <2>2 DEF DamageInv, OwnOrMoreUrgent, DamagedOnlyByMoreUrgent
<1>4. ASSUME NEW t \in Callers, Runs(t), Format(t) PROVE DamageInv'
  <2>1. /\ pc[t] = "format" /\ UNCHANGED <<size, queue>>
        /\ \/ at[t] < size[t] /\ at' = [at EXCEPT ![t] = at[t] + 1] /\ pc' = pc
           \/ at[t] = size[t] /\ at' = [at EXCEPT ![t] = 1] /\ pc' = [pc EXCEPT ![t] = "cut"]
    BY <1>1, <1>4 DEF Format, Goto
  <2>2. at[t] \in 1 .. MaxPieces
    BY <1>1
  <2>3. text'[at[t]][1] = t /\ \A i \in 1 .. MaxPieces : text'[i][1] = t \/ text'[i] = text[i]
    <3>1. PICK empty \in NulFirst(t) :
            text' = [i \in 1 .. MaxPieces |->
                       IF i \in empty THEN Piece(t, lines[t], 0)
                       ELSE IF i = at[t] THEN Piece(t, lines[t], i) ELSE text[i]]
      BY <1>4 DEF Format
    <3>2. \A i \in Nat : Piece(t, lines[t], i)[1] = t
      BY DEF Piece
    <3> QED
      BY <2>2, <3>1, <3>2
  <2>4. ASSUME NEW v \in Callers, NEW i \in 1 .. MaxPieces, Behind(v, i)'
        PROVE  OwnOrMoreUrgent(v, text'[i][1])
    <3>1. CASE v = t
      <4>1. i = at[t] \/ Behind(t, i)
        BY <1>1, <2>1, <2>4, <3>1 DEF Behind
      <4> QED
        BY <2>3, <3>1, <4>1 DEF DamageInv, OwnOrMoreUrgent
    <3>2. CASE v # t
      <4>1. Behind(v, i) /\ pc[v] \in {"format", "cut"}
        BY <1>1, <2>1, <2>4, <3>2 DEF Behind
      <4>2. ~Blocked(v) /\ v \in Threads /\ v \notin Writers
        BY <4>1 DEF Blocked
      <4>3. Priority[v] < Priority[t]
        BY <1>4, <3>2, <4>2 DEF Runs
      <4> QED
        BY <2>3, <4>1, <4>3 DEF DamageInv, OwnOrMoreUrgent
    <3> QED
      BY <3>1, <3>2
  <2> QED
    BY <2>1, <2>4 DEF DamageInv, OwnOrMoreUrgent, DamagedOnlyByMoreUrgent
<1>5. ASSUME NEW t \in Callers, Cut(t) PROVE DamageInv'
  <2>1. /\ pc[t] = "cut" /\ UNCHANGED <<text, size>> /\ at[t] \in 1 .. MaxPieces /\ at[t] <= size[t]
        /\ pc' = pc \/ pc' \in {[pc EXCEPT ![t] = "said"], [pc EXCEPT ![t] = "idle"]}
        /\ \A v \in Callers \ {t} : at'[v] = at[v]
    BY <1>1, <1>5 DEF Cut, CutNext, Goto
  <2>2. OwnOrMoreUrgent(t, text[at[t]][1])
    BY <2>1 DEF DamageInv, Behind
  <2>3. DamagedOnlyByMoreUrgent'
    <3> DEFINE x == [by |-> t, piece |-> text[at[t]]]
    <3>1. queue' = queue \/ queue' = Append(queue, x)
      BY <1>5 DEF Cut
    <3>2. x.by = t /\ x.piece = text[at[t]]
      OBVIOUS
    <3> HIDE DEF x
    <3>3. ASSUME queue' = Append(queue, x), NEW i \in 1 .. Len(queue')
          PROVE  \/ queue'[i] = x
                 \/ i \in 1 .. Len(queue) /\ queue'[i] = queue[i]
      BY <1>1, <3>3, LastOrBefore
    <3>4. ASSUME queue' = Append(queue, x), NEW i \in 1 .. Len(queue')
          PROVE  OwnOrMoreUrgent(queue'[i].by, queue'[i].piece[1])
      BY <2>2, <3>2, <3>3, <3>4 DEF DamageInv, DamagedOnlyByMoreUrgent, OwnOrMoreUrgent
    <3> QED
      BY <3>1, <3>4 DEF DamageInv, DamagedOnlyByMoreUrgent, OwnOrMoreUrgent
  <2>4. ASSUME NEW v \in Callers, NEW i \in 1 .. MaxPieces, Behind(v, i)'
        PROVE  Behind(v, i)
    BY <1>1, <2>1, <2>4 DEF Behind
  <2> QED
    BY <2>1, <2>3, <2>4 DEF DamageInv, OwnOrMoreUrgent
<1>6. CASE Pop
  <2>1. /\ UNCHANGED <<text, at, size>> /\ queue' = Tail(queue) /\ queue # <<>>
        /\ \A t \in Callers : pc'[t] = pc[t]
    BY <1>1, <1>6 DEF Pop, Goto
  <2>2. \A i \in 1 .. Len(queue') : i + 1 \in 1 .. Len(queue) /\ queue'[i] = queue[i + 1]
    BY <1>1, <2>1
  <2> QED
    BY <2>1, <2>2 DEF DamageInv, Behind, OwnOrMoreUrgent, DamagedOnlyByMoreUrgent
<1>7. ASSUME NEW w \in Writers, WriterStep(w) \/ Done(w) \/ (w = Handler /\ PrintLine) PROVE DamageInv'
  <2>1. /\ UNCHANGED <<text, at, size, queue>>
        /\ \A v \in Callers : pc'[v] = pc[v]
    BY <1>1, <1>7 DEF WriterStep, Done, PrintLine, debugVars, Transmit, Take, Test, Point, Arm, Lock,
       Start, Flag, Error, Await, Leave, UsbTransmit, Skip, Write, Written, Goto
  <2> QED
    BY <1>2, <2>1
<1>8. CASE HardwareStep \/ HostStep \/ UNCHANGED vars
  <2>1. UNCHANGED <<text, at, size, queue>>
    BY <1>8 DEF HardwareStep, HostStep, debugVars, vars
  <2>2. CASE HardwareStep \/ UNCHANGED vars
    <3>1. pc' = pc
      BY <2>2 DEF HardwareStep, Hardware, Move, DmaIrq, ShiftedOut, TcIrq, vars, uartVars
    <3> QED
      BY <1>2, <2>1, <3>1
  <2>3. CASE HostStep
    <3>1. ASSUME NEW t \in Callers PROVE pc'[t] = pc[t]
      <4>1. pc[t] # "transfer" /\ t \in DOMAIN pc
        BY <1>1 DEF TypeInv, PlacesOK, CallerPlaces
      <4> QED
        BY <2>3, <4>1 DEF HostStep, Attach, Configure, Remove, HostTakes, Goto
    <3> QED
      BY <1>2, <2>1, <3>1
  <2> QED
    BY <1>8, <2>2, <2>3
<1>9. CASE UsbFollows
  <2>1. CASE Goto(Usb, "idle") /\ UNCHANGED debugVars
    <3>1. UNCHANGED <<text, at, size, queue>> /\ \A t \in Callers : pc'[t] = pc[t] \/ pc'[t] = "idle"
      BY <1>1, <2>1 DEF Goto, debugVars
    <3> QED
      BY <1>2, <3>1
  <2> QED
    BY <1>3, <1>9, <2>1 DEF UsbFollows
<1>10. ASSUME NEW t \in Callers, CallerStep(t) PROVE DamageInv'
  BY <1>3, <1>4, <1>5, <1>10 DEF CallerStep, Say, Send
<1> QED
  BY <1>3, <1>6, <1>7, <1>8, <1>9, <1>10
  DEF Next, DebugStep, HandlerPrints, HandlerReturns, UsbStep, UsbSays

(* A queued piece is its caller's own, or a more urgent caller overwrote   *)
(* it in the static buffer: among callers of one priority, and from the    *)
(* less urgent ones, no line of Debug::send is ever damaged.               *)
THEOREM DamageComesFromAbove == Spec => []DamagedOnlyByMoreUrgent
<1>1. Init => DamageInv
  BY DEF Init, DamageInv, Behind, DamagedOnlyByMoreUrgent, Threads
<1>2. TypeInv /\ DamageInv /\ [Next]_vars => DamageInv'
  BY NextDamageInv
<1>3. DamageInv => DamagedOnlyByMoreUrgent
  BY DEF DamageInv
<1> QED
  BY <1>1, <1>2, <1>3, TypesHold, PTL DEF Spec

-----------------------------------------------------------------------------
(* CDC::main *)

(* Before the first configuration CDC::main does not look at its events,  *)
(* and an attachment that has come meanwhile is still among them.          *)
ConnInv ==
  /\ ~handle /\ device # "removed" => events # {}
  /\ ConnectedFollows

LEMMA NextConnInv ==
  ASSUME TypeInv, ConnInv, [Next]_vars
  PROVE  ConnInv'
<1> USE DifferentWriters DEF ConnInv, ConnectedFollows
<1>1. pc \in [Threads -> CallerPlaces \cup WriterPlaces] /\ Usb \in Threads /\ Usb \notin Writers
  BY DEF TypeInv, PlacesOK
<1>2. ASSUME UNCHANGED onlyCdc, pc'[Usb] = "idle" => pc[Usb] = "idle" PROVE ConnInv'
  BY <1>2 DEF onlyCdc
<1>3. ASSUME NEW w \in Writers, WriterStep(w) \/ Done(w) \/ Pop \/ PrintLine PROVE pc'[Usb] = pc[Usb]
  BY <1>1, <1>3 DEF WriterStep, Done, Pop, PrintLine, Transmit, Take, Test, Point, Arm, Lock,
     Start, Flag, Error, Await, Leave, UsbTransmit, Skip, Write, Written, Goto
<1>4. CASE DebugStep \/ HandlerPrints \/ HandlerReturns
  BY <1>2, <1>3, <1>4 DEF DebugStep, HandlerPrints, HandlerReturns
<1>5. ASSUME NEW w \in Writers, WriterStep(w) PROVE ConnInv'
  <2>1. UNCHANGED <<device, usb_connected, handle, events, connected>>
    BY <1>5 DEF WriterStep, onlyCdc, UsbTransmit, Skip, Write, Written
  <2> QED
    BY <1>3, <1>5, <2>1
<1>6. ASSUME NEW t \in Callers, CallerStep(t) PROVE ConnInv'
  <2>1. pc'[Usb] = "idle" => pc[Usb] = "idle"
    BY <1>1, <1>6 DEF CallerStep, Say, Send, Begin, Format, Cut, CutNext, Goto
  <2> QED
    BY <1>2, <1>6, <2>1 DEF CallerStep
<1>7. CASE UsbStep
  <2>1. CASE UsbSays
    BY <1>1, <2>1 DEF UsbSays, TakeEvents, Begin, Goto
  <2>2. CASE UsbFollows
    BY <1>1, <2>2 DEF UsbFollows, Follow, Begin, Goto
  <2> QED
    BY <1>7, <2>1, <2>2 DEF UsbStep
<1>8. CASE HardwareStep \/ UNCHANGED vars
  <2>1. UNCHANGED onlyCdc /\ pc' = pc
    BY <1>8 DEF HardwareStep, Hardware, Move, DmaIrq, ShiftedOut, TcIrq, vars, uartVars, cdcVars, onlyCdc
  <2> QED
    BY <1>2, <2>1
<1>9. CASE HostStep
  <2>1. CASE Attach \/ Configure
    BY <2>1 DEF Attach, Configure
  <2>2. CASE Remove
    BY <2>2 DEF Remove
  <2>3. ASSUME NEW w \in Writers, HostTakes(w) PROVE ConnInv'
    BY <1>1, <2>3 DEF HostTakes, Goto
  <2> QED
    BY <1>9, <2>1, <2>2, <2>3 DEF HostStep
<1> QED
  BY <1>4, <1>5, <1>6, <1>7, <1>8, <1>9 DEF Next

(* However attachments and removals fall between its rounds, and while it  *)
(* formats its text, once CDC::main waits with no event left the flag it   *)
(* has set agrees with what the device has become.                         *)
THEOREM ConnectedFollowsTheDevice == Spec => []ConnectedFollows
<1>1. Init => ConnInv
  BY DEF Init, CdcInit, ConnInv, ConnectedFollows
<1>2. TypeInv /\ ConnInv /\ [Next]_vars => ConnInv'
  BY NextConnInv
<1>3. ConnInv => ConnectedFollows
  BY DEF ConnInv
<1> QED
  BY <1>1, <1>2, <1>3, TypesHold, PTL DEF Spec

-----------------------------------------------------------------------------
(* UART::transmit with its two writers of different urgency: as long as    *)
(* the handler has not printed while the debug thread was inside the HAL,  *)
(* the semaphores and the states of the HAL agree.                         *)

(* Who may be where *)

Busy == IF huart.gState = "READY" THEN 0 ELSE 1
Armed(w) == IF pc[w] \in {"lock", "start", "flag", "await"} THEN 1 ELSE 0

(* The handler's thread is more urgent: where the debug thread has passed  *)
(* the test of gState, the handler is not in transmit, or has not taken    *)
(* the semaphore.                                                          *)
Alone == pc[Debug] \in InsideHal => pc[Handler] \in Outdoors \cup {"take"}

(* What a writer has come to and what the HAL and the channel say *)
Place(w) ==
  /\ pc[w] \in {"point", "arm"} => huart.gState = "READY"
  /\ pc[w] \in {"arm", "lock"} => huart.pTxBuffPtr = w
  /\ pc[w] = "start" => arg[w] = w
  /\ pc[w] \in {"lock", "start"} =>
       /\ huart.gState = "BUSY_TX" /\ ~huart.TCIE /\ ~huart.DMAT
       /\ hdmatx.State = "READY"
  /\ pc[w] = "flag" =>
       hdmatx.State = "BUSY" /\ ~huart.DMAT /\ hdmatx.left = Words
  /\ pc[w] # "error"

Handles ==
  /\ hdmatx.Lock <=> hdmatx.State = "BUSY"
  /\ hdmatx.State = "BUSY" => huart.gState = "BUSY_TX" /\ ~huart.TCIE
  /\ huart.TCIE => huart.gState = "BUSY_TX"
  /\ huart.DMAT => hdmatx.State = "BUSY"

(* txLock holds one for each transfer that has ended and one more, less    *)
(* one for each transmit that has got it back.                             *)
Tokens == txLock + Busy = 1 + Armed(Debug) + Armed(Handler)

HalInv ==
  ~cutIn => Alone /\ Place(Debug) /\ Place(Handler) /\ Handles /\ Tokens /\ ~refused /\ merged = 0

(* The scheduling: the debug thread takes a step only while the handler's  *)
(* waits for something, and for txLock it never waits.                     *)
LEMMA DebugRunsAlone ==
  ASSUME TypeInv, HalInv, ~cutIn, Runs(Debug)
  PROVE  pc[Handler] \in Outdoors \cup {"take"}
<1> USE DifferentWriters
<1>1. Blocked(Handler)
  <2>1. Debug \notin Callers /\ Handler \in Threads \ {Debug} /\ Priority[Debug] \in Nat /\ Priority[Handler] \in Nat
    OBVIOUS
  <2> QED
    BY <2>1 DEF Runs
<1>2. pc[Handler] = "await" => txLock > 0
  <2>1. txLock \in Nat /\ Busy \in 0 .. 1 /\ Armed(Debug) \in 0 .. 1
    BY DEF TypeInv, UartOK, Busy, Armed
  <2>2. pc[Handler] = "await" => Armed(Handler) = 1
    BY DEF Armed
  <2>3. txLock + Busy = 1 + Armed(Debug) + Armed(Handler)
    BY DEF HalInv, Tokens
  <2> HIDE DEF Busy, Armed
  <2> QED
    BY <2>1, <2>2, <2>3
<1>3. pc[Handler] = "await" => ~(txLock = 0)
  BY <1>2 DEF TypeInv, UartOK
<1> QED
  BY <1>1, <1>3 DEF Blocked, Outdoors

LEMMA NextHalInv ==
  ASSUME TypeInv, HalInv, [Next]_vars
  PROVE  HalInv'
<1> SUFFICES ASSUME ~cutIn' PROVE HalInv'
  BY DEF HalInv
<1> USE DifferentWriters
<1>1. ~cutIn
  <2>1. CASE Aside \/ HardwareStep
    BY <2>1 DEF Aside, onlyUart, HardwareStep, Hardware, Move, DmaIrq, ShiftedOut, TcIrq
  <2>2. ASSUME NEW w \in Writers, UartStep(w) PROVE ~cutIn
    BY <2>2 DEF UartStep, Transmit, Take, Test, Point, Arm, Lock, Start, Flag, Error, Await, Leave
  <2> QED
    BY <2>1, <2>2, Steps
<1>2. /\ Alone /\ Place(Debug) /\ Place(Handler) /\ Handles /\ Tokens /\ ~refused /\ merged = 0
      /\ \A w \in Writers : Place(w)
  BY <1>1 DEF HalInv
<1>3. /\ pc \in [Threads -> CallerPlaces \cup WriterPlaces]
      /\ huart \in Registers /\ hdmatx \in Channels /\ arg \in [Writers -> Writers]
      /\ txLock \in Nat /\ txLock' \in Nat
  BY NextUartOK DEF TypeInv, PlacesOK, UartOK
<1>4. /\ Busy \in 0 .. 1 /\ Busy' \in 0 .. 1
      /\ \A w \in Writers : Armed(w) \in 0 .. 1 /\ Armed(w)' \in 0 .. 1
  BY DEF Busy, Armed
(* The steps of a writer *)
<1>5. ASSUME NEW w \in Writers, NEW v \in Writers, v # w, UartStep(w)
      PROVE  /\ Alone' /\ Place(w)' /\ Place(v)' /\ Handles' /\ ~refused'
             /\ txLock' + Busy' + Armed(w) = txLock + Busy + Armed(w)'
             /\ Armed(v)' = Armed(v)
  <2>1. /\ pc'[v] = pc[v] /\ w \in Threads /\ v \in Threads
        /\ w = Debug => v = Handler
        /\ w = Handler => v = Debug
        /\ w = Debug \/ w = Handler
    BY <1>3, <1>5 DEF UartStep, Transmit, Take, Test, Point, Arm, Lock, Start, Flag, Error, Await, Leave, Goto
  <2>2. Armed(v)' = Armed(v)
    BY <2>1 DEF Armed
  <2>3. Place(w) /\ Place(v) /\ pc[w] # "error"
    BY <1>2 DEF Place
  (* whoever is inside, the other is not *)
  <2>4. pc[w] \in InsideHal \cup {"test"} /\ ~Take(w) => pc[v] \notin InsideHal
    <3>1. CASE w = Debug
      <4>1. pc[Handler] \in Outdoors \cup {"take"}
        BY <1>1, <1>5, <3>1, DebugRunsAlone DEF UartStep
      <4> QED
        BY <2>1, <3>1, <4>1 DEF Outdoors, InsideHal
    <3>2. CASE w = Handler
      BY <1>2, <2>1, <3>2 DEF Alone, Outdoors, InsideHal
    <3> QED
      BY <3>1, <3>2
  <2>5. Alone'
    <3>1. CASE w = Debug
      <4>1. pc[Handler] \in Outdoors \cup {"take"}
        BY <1>1, <1>5, <3>1, DebugRunsAlone DEF UartStep
      <4> QED
        BY <2>1, <3>1, <4>1 DEF Alone
    <3>2. CASE w = Handler /\ pc[Debug] \in InsideHal
      <4>1. pc[Handler] \in Outdoors \cup {"take"}
        BY <1>2, <3>2 DEF Alone
      <4>2. Take(Handler)
        BY <1>5, <3>2, <4>1
        DEF Outdoors, UartStep, Transmit, Test, Point, Arm, Lock, Start, Flag, Error, Await, Leave
      <4>3. cutIn'
        BY <3>2, <4>2 DEF Take
      <4> QED
        BY <4>3
    <3>3. CASE w = Handler /\ pc[Debug] \notin InsideHal
      BY <2>1, <3>3 DEF Alone
    <3> QED
      BY <2>1, <3>1, <3>2, <3>3
  <2>6. CASE Take(w) \/ Leave(w)
    <3>1. /\ UNCHANGED <<huart, hdmatx, arg, txLock, refused>> /\ pc'[w] \in {"test", "usb"}
          /\ pc[w] \in {"take", "leave"}
      BY <1>3, <2>1, <2>6 DEF Take, Leave, Goto
    <3> QED
      BY <1>2, <2>1, <2>2, <2>3, <2>5, <3>1 DEF Place, Handles, Armed, Busy
  <2>7. CASE Test(w)
    <3>1. /\ UNCHANGED <<huart, hdmatx, arg, txLock, refused>> /\ pc'[w] \in {"point", "leave"}
          /\ pc[w] = "test" /\ huart.gState = "READY"
      BY <1>3, <2>1, <2>7 DEF Test, Goto
    <3> QED
      BY <1>2, <2>1, <2>2, <2>3, <2>5, <3>1 DEF Place, Handles, Armed, Busy
  <2>8. CASE Point(w)
    <3>1. /\ UNCHANGED <<hdmatx, arg, txLock, refused>> /\ pc'[w] = "arm" /\ pc[w] = "point"
          /\ huart'.pTxBuffPtr = w
          /\ huart'.gState = huart.gState /\ huart'.TCIE = huart.TCIE /\ huart'.DMAT = huart.DMAT
      BY <1>3, <2>1, <2>8 DEF Point, Goto, Registers
    <3>2. pc[v] \notin InsideHal
      BY <2>4, <2>8, <3>1 DEF InsideHal, Take
    <3> QED
      BY <1>2, <2>1, <2>2, <2>3, <2>5, <3>1, <3>2 DEF Place, Handles, Armed, Busy, InsideHal
  <2>9. CASE Arm(w)
    <3>1. /\ UNCHANGED <<hdmatx, arg, txLock, refused>> /\ pc'[w] = "lock" /\ pc[w] = "arm"
          /\ huart'.gState = "BUSY_TX" /\ huart'.pTxBuffPtr = huart.pTxBuffPtr
          /\ huart'.TCIE = huart.TCIE /\ huart'.DMAT = huart.DMAT
      BY <1>3, <2>1, <2>9 DEF Arm, Goto, Registers
    <3>2. pc[v] \notin InsideHal
      BY <2>4, <2>9, <3>1 DEF InsideHal, Take
    <3>3. huart.gState = "READY" /\ ~huart.TCIE /\ hdmatx.State = "READY" /\ ~huart.DMAT
      BY <1>2, <1>3, <2>3, <3>1 DEF Place, Handles, Channels
    <3>4. Place(w)' /\ Place(v)' /\ Handles'
      BY <1>2, <2>1, <2>3, <3>1, <3>2, <3>3 DEF Place, Handles, InsideHal
    <3>5. Busy = 0 /\ Busy' = 1 /\ Armed(w) = 0 /\ Armed(w)' = 1
      BY <3>1, <3>3 DEF Busy, Armed
    <3> QED
      BY <1>2, <1>3, <2>2, <2>5, <3>1, <3>4, <3>5
  <2>10. CASE Lock(w)
    <3>1. /\ UNCHANGED <<huart, hdmatx, txLock, refused>> /\ pc[w] = "lock"
          /\ arg'[w] = huart.pTxBuffPtr /\ arg'[v] = arg[v]
          /\ pc'[w] = (IF hdmatx.Lock THEN "error" ELSE "start")
      BY <1>3, <1>5, <2>1, <2>10 DEF Lock, Goto
    <3>2. ~hdmatx.Lock /\ hdmatx.State = "READY"
      BY <1>2, <2>3, <3>1 DEF Place, Handles
    <3> QED
      BY <1>2, <2>1, <2>2, <2>3, <2>5, <3>1, <3>2 DEF Place, Handles, Armed, Busy
  <2>11. CASE Start(w)
    <3>1. hdmatx.State = "READY" /\ pc[w] = "start"
      BY <2>3, <2>11 DEF Place, Start
    <3>2. /\ UNCHANGED <<huart, arg, txLock, refused>> /\ pc'[w] = "flag"
          /\ hdmatx'.Lock /\ hdmatx'.State = "BUSY" /\ hdmatx'.left = Words
      BY <1>3, <2>1, <2>11, <3>1 DEF Start, Goto
    <3>3. pc[v] \notin InsideHal
      BY <2>4, <2>11, <3>1 DEF InsideHal, Take
    <3> QED
      BY <1>2, <2>1, <2>2, <2>3, <2>5, <3>1, <3>2, <3>3 DEF Place, Handles, Armed, Busy, InsideHal
  <2>12. CASE Flag(w)
    <3>1. /\ UNCHANGED <<hdmatx, arg, txLock, refused>> /\ pc'[w] = "await" /\ pc[w] = "flag"
          /\ huart'.pTxBuffPtr = huart.pTxBuffPtr /\ huart'.DMAT
          /\ huart'.gState = huart.gState /\ huart'.TCIE = huart.TCIE
      BY <1>3, <2>1, <2>12 DEF Flag, Goto, Registers
    <3>2. pc[v] \notin InsideHal
      BY <2>4, <2>12, <3>1 DEF InsideHal, Take
    <3> QED
      BY <1>2, <2>1, <2>2, <2>3, <2>5, <3>1, <3>2 DEF Place, Handles, Armed, Busy, InsideHal
  <2>13. CASE Await(w)
    <3>1. /\ UNCHANGED <<huart, hdmatx, arg, refused>> /\ pc'[w] = "leave" /\ pc[w] = "await"
          /\ txLock' = txLock - 1 /\ txLock > 0
      BY <1>3, <2>1, <2>13 DEF Await, Goto
    <3>2. Place(w)' /\ Place(v)' /\ Handles' /\ Busy' = Busy /\ Armed(w) = 1 /\ Armed(w)' = 0
      BY <1>2, <2>1, <2>3, <3>1 DEF Place, Handles, Busy, Armed
    <3> QED
      BY <1>2, <1>3, <1>4, <2>2, <2>5, <3>1, <3>2
  <2>14. ~Error(w)
    BY <2>3 DEF Error
  <2> QED
    BY <1>5, <2>6, <2>7, <2>8, <2>9, <2>10, <2>11, <2>12, <2>13, <2>14 DEF UartStep, Transmit
<1>6. ASSUME NEW w \in Writers, UartStep(w) PROVE HalInv'
  <2> DEFINE v == IF w = Debug THEN Handler ELSE Debug
  <2>1. v \in Writers /\ v # w
    OBVIOUS
  <2>2. /\ Alone' /\ Place(w)' /\ Place(v)' /\ Handles' /\ ~refused'
        /\ txLock' + Busy' + Armed(w) = txLock + Busy + Armed(w)'
        /\ Armed(v)' = Armed(v)
    BY <1>5, <1>6, <2>1
  <2>3. merged' = 0
    BY <1>2, <1>6 DEF UartStep, Transmit, Take, Test, Point, Arm, Lock, Start, Flag, Error, Await, Leave
  <2> HIDE DEF Busy, Armed, Place, Handles, Alone
  <2>4. CASE w = Debug
    <3>1. v = Handler
      BY <2>4
    <3>2. Tokens'
      BY <1>2, <1>3, <1>4, <2>2, <2>4, <3>1 DEF Tokens
    <3> QED
      BY <2>2, <2>3, <2>4, <3>1, <3>2 DEF HalInv
  <2>5. CASE w = Handler
    <3>1. v = Debug
      BY <2>5
    <3>2. Tokens'
      BY <1>2, <1>3, <1>4, <2>2, <2>5, <3>1 DEF Tokens
    <3> QED
      BY <2>2, <2>3, <2>5, <3>1, <3>2 DEF HalInv
  <2> QED
    BY <2>4, <2>5
<1>7. CASE HardwareStep
  <2>1. pc' = pc /\ arg' = arg /\ refused' = refused
    BY <1>7 DEF HardwareStep, Hardware, Move, DmaIrq, ShiftedOut, TcIrq
  <2>2. /\ Alone' /\ ~refused' /\ merged' = 0
        /\ \A w \in Writers : Armed(w)' = Armed(w)
    <3>1. merged' = 0
      BY <1>2, <1>7 DEF HardwareStep, Hardware, Move, DmaIrq, ShiftedOut, TcIrq, Handles
    <3> QED
      BY <1>2, <2>1, <3>1 DEF Alone, Armed
  <2>3. /\ Handles' /\ \A w \in Writers : Place(w)'
        /\ txLock' + Busy' = txLock + Busy
    <3>1. CASE Move
      <4>1. /\ hdmatx.State = "BUSY" /\ huart.DMAT
            /\ hdmatx'.State = hdmatx.State /\ hdmatx'.Lock = hdmatx.Lock
            /\ huart'.gState = huart.gState /\ huart'.TCIE = huart.TCIE /\ huart'.DMAT = huart.DMAT
            /\ huart'.pTxBuffPtr = huart.pTxBuffPtr /\ txLock' = txLock
        BY <1>3, <3>1 DEF Move, Registers, Channels
      <4> QED
        BY <1>2, <2>1, <4>1 DEF Place, Handles, Busy
    <3>2. CASE DmaIrq
      <4>1. /\ hdmatx.State = "BUSY" /\ hdmatx.left = 0
            /\ hdmatx'.State = "READY" /\ ~hdmatx'.Lock /\ ~huart'.DMAT /\ huart'.TCIE
            /\ huart'.gState = huart.gState /\ huart'.pTxBuffPtr = huart.pTxBuffPtr
            /\ txLock' = txLock
        BY <1>3, <3>2 DEF DmaIrq, Registers, Channels
      <4> QED
        BY <1>2, <2>1, <4>1 DEF Place, Handles, Busy
    <3>3. CASE ShiftedOut
      <4>1. /\ huart'.gState = huart.gState /\ huart'.TCIE = huart.TCIE /\ huart'.DMAT = huart.DMAT
            /\ huart'.pTxBuffPtr = huart.pTxBuffPtr /\ hdmatx' = hdmatx /\ txLock' = txLock
        BY <1>3, <3>3 DEF ShiftedOut, Registers
      <4> QED
        BY <1>2, <2>1, <4>1 DEF Place, Handles, Busy
    <3>4. CASE TcIrq
      <4>1. /\ huart.TCIE /\ ~huart'.TCIE /\ huart'.gState = "READY" /\ huart'.DMAT = huart.DMAT
            /\ huart'.pTxBuffPtr = huart.pTxBuffPtr /\ hdmatx' = hdmatx /\ txLock' = txLock + 1
        BY <1>3, <3>4 DEF TcIrq, Registers
      <4>2. huart.gState = "BUSY_TX" /\ ~(hdmatx.State = "BUSY")
        BY <1>2, <4>1 DEF Handles
      <4>3. Busy = 1 /\ Busy' = 0
        BY <4>1, <4>2 DEF Busy
      <4>4. Handles' /\ \A w \in Writers : Place(w)'
        BY <1>2, <2>1, <4>1, <4>2 DEF Place, Handles
      <4> QED
        BY <1>3, <4>1, <4>3, <4>4
    <3> QED
      BY <1>7, <3>1, <3>2, <3>3, <3>4 DEF HardwareStep, Hardware
  <2>4. Tokens'
    <3> HIDE DEF Busy, Armed
    <3>1. Armed(Debug)' = Armed(Debug) /\ Armed(Handler)' = Armed(Handler)
      BY <2>2
    <3>2. txLock + Busy = 1 + Armed(Debug) + Armed(Handler)
      BY <1>2 DEF Tokens
    <3> QED
      BY <2>3, <3>1, <3>2 DEF Tokens
  <2> QED
    BY <2>2, <2>3, <2>4 DEF HalInv
<1>8. CASE Aside
  <2>1. UNCHANGED <<huart, hdmatx, arg, txLock, refused, merged>>
    BY <1>8 DEF Aside, onlyUart
  <2>2. \A w \in Writers : pc'[w] = pc[w] \/ (pc[w] \in Outdoors /\ pc'[w] \in Outdoors \cup {"take"})
    BY <1>8 DEF Aside, Outdoors
  <2>3. \A w \in Writers : Armed(w)' = Armed(w) /\ Place(w)'
    BY <1>2, <2>1, <2>2 DEF Armed, Place, Outdoors
  <2>4. Alone'
    BY <1>2, <2>2 DEF Alone, Outdoors, InsideHal
  <2>5. Handles' /\ Busy' = Busy
    BY <1>2, <2>1 DEF Handles, Busy
  <2>6. Tokens'
    BY <1>2, <2>1, <2>3, <2>5 DEF Tokens
  <2> QED
    BY <1>2, <2>1, <2>3, <2>4, <2>5, <2>6 DEF HalInv
<1> QED
  BY <1>6, <1>7, <1>8, Steps

LEMMA InitHalInv == Init => HalInv
<1> SUFFICES ASSUME Init PROVE HalInv
  OBVIOUS
<1>1. /\ pc[Debug] = "idle" /\ pc[Handler] = "idle" /\ txLock = 1 /\ ~refused /\ merged = 0
      /\ huart.gState = "READY" /\ ~huart.TCIE /\ ~huart.DMAT
      /\ hdmatx.State = "READY" /\ ~hdmatx.Lock
  BY DifferentWriters DEF Init, UartInit
<1> QED
  BY <1>1 DEF HalInv, Alone, Place, Handles, Tokens, Busy, Armed, InsideHal

LEMMA HalInvHolds == Spec => []HalInv
BY InitHalInv, NextHalInv, TypesHold, PTL DEF Spec

(* As long as the handler has not printed while the debug thread was       *)
(* inside the HAL, HAL_UART_Transmit_DMA never finds the channel locked or *)
(* busy: transmit drops no message that has any characters, however calls, *)
(* interrupts, attachments and removals interleave.  (An empty piece is    *)
(* refused whatever happens; dropping it loses nothing.)                   *)
THEOREM TransmitDropsNothing == Spec => []NothingRefused
<1>1. TypeInv /\ HalInv => NothingRefused
  BY DEF HalInv, NothingRefused, TypeInv, UartOK
<1> QED
  BY <1>1, TypesHold, HalInvHolds, PTL

(* Whether writers have cut in on each other or not: when none of them is  *)
(* in transmit both tokens of uartLock are back, and the token of txLock   *)
(* is there or still to come, or it is the one of a transfer that ended    *)
(* together with another; and no two transfers end together without a      *)
(* cut-in.                                                                 *)
THEOREM TheSemaphoresComeBack == Spec => []LocksComeBack
<1>1. TypeInv /\ CountInv /\ HalInv => LocksComeBack
  <2> SUFFICES ASSUME TypeInv, CountInv, HalInv PROVE LocksComeBack
    OBVIOUS
  <2>1. merged > 0 => cutIn
    BY DEF HalInv, TypeInv, UartOK
  <2>2. ASSUME \A w \in Writers : pc[w] \notin InTransmit
        PROVE  uartLock = 2 /\ txLock + Coming + merged = 1
    <3>1. \A w \in Writers : Inside(w) = 0 /\ Sending(w) = 0
      BY <2>2 DEF Inside, Sending, InTransmit, InsideHal
    <3>2. Inside(Debug) = 0 /\ Inside(Handler) = 0 /\ Sending(Debug) = 0 /\ Sending(Handler) = 0
      BY <3>1, DifferentWriters
    <3>3. uartLock \in Nat
      BY DEF TypeInv, UartOK
    <3> HIDE DEF TypeInv, Inside, Sending, Coming
    <3> QED
      BY <3>2, <3>3 DEF CountInv
  <2> QED
    BY <2>1, <2>2 DEF LocksComeBack
<1> QED
  BY <1>1, TypesHold, HalInvHolds, PTL

-----------------------------------------------------------------------------
(* What is on the wire *)

(* Only the handler's memory holds lines of the handler.                   *)
OwnBuffer ==
  /\ printed > 0 => buffer[Handler][1] = Handler
  /\ pc[Handler] # "idle" => printed > 0

(* While the channel moves a message its writer may come back with one     *)
(* more, but no further than the test of gState.                           *)
OnTheWay ==
  hdmatx.State = "BUSY" =>
    LET h == hdmatx.history IN
      /\ hdmatx.src = h.by
      /\ \A k \in 1 .. Len(h.got) : h.got[k] \in {h.given, buffer[h.by]}
      /\ pc[h.by] \notin {"take", "test"} => buffer[h.by] = h.given
      /\ h.given \in Pieces /\ (h.given[1] = Handler <=> h.by = Handler)
      /\ h.by = Handler => printed > 0

OneOrTwo(t) ==
  LET sent == {t.got[k] : k \in 1 .. Len(t.got)} IN
    /\ \A piece \in sent : piece[1] = Handler <=> t.by = Handler
    /\ Cardinality(sent \cup {t.given}) <= 2

WireInv == OwnBuffer /\ (~cutIn => OnTheWay /\ OneOrTwo(wire))

LEMMA AtMostTwo ==
  ASSUME NEW S, NEW a, NEW b, S \subseteq {a, b} PROVE Cardinality(S) <= 2
<1>1. IsFiniteSet({a}) /\ Cardinality({a}) = 1
  BY FS_Singleton
<1>2. {a, b} = {a} \cup {b}
  OBVIOUS
<1>3. /\ IsFiniteSet({a, b})
      /\ Cardinality({a, b}) \in {1, 2}
  BY <1>1, <1>2, FS_AddElement
<1>4. IsFiniteSet(S) /\ Cardinality(S) \in Nat /\ Cardinality(S) <= Cardinality({a, b})
  BY <1>3, FS_Subset, FS_CardinalityType
<1> QED
  BY <1>3, <1>4

LEMMA WhoseBuffer ==
  ASSUME TypeInv, OwnBuffer, NEW w \in Writers, w = Handler => printed > 0
  PROVE  buffer[w][1] = Handler <=> w = Handler
<1>1. w = Debug \/ w = Handler
  BY DifferentWriters
<1>2. buffer[Debug][1] # Handler
  BY DEF TypeInv, UartOK, Others
<1> QED
  BY <1>1, <1>2, DifferentWriters DEF OwnBuffer

LEMMA NothingSent == OneOrTwo(NoTransfer)
<1>1. {NoTransfer.got[k] : k \in 1 .. Len(NoTransfer.got)} = {}
  BY DEF NoTransfer
<1>2. Cardinality({} \cup {NoTransfer.given}) <= 2
  BY AtMostTwo
<1> QED
  BY <1>1, <1>2 DEF OneOrTwo

LEMMA NextWireInv ==
  ASSUME TypeInv, HalInv, WireInv, [Next]_vars
  PROVE  WireInv'
<1> USE DifferentWriters
<1>1. /\ pc \in [Threads -> CallerPlaces \cup WriterPlaces] /\ printed \in Nat
      /\ hdmatx \in Channels /\ hdmatx.history \in Transfers /\ hdmatx.history.by \in Writers
  BY DEF TypeInv, PlacesOK, UartOK, DebugOK, Channels, Transfers
<1>2. ASSUME NEW w \in Writers, UartStep(w) PROVE WireInv'
  <2>0. cutIn => cutIn'
    <3>1. CASE Take(w)
      BY <3>1, Zenon DEF Take
    <3>2. CASE ~Take(w)
      BY <1>2, <3>2 DEF UartStep, Transmit, Test, Point, Arm, Lock, Start, Flag, Error, Await, Leave
    <3> QED
      BY <3>1, <3>2
  <2>1. /\ UNCHANGED <<buffer, printed, wire>> /\ (cutIn => cutIn')
        /\ pc[w] # "idle" /\ \A v \in Writers \ {w} : pc'[v] = pc[v]
    BY <1>1, <1>2, <2>0 DEF UartStep, debugVars, Transmit, Take, Test, Point, Arm, Lock, Start, Flag, Error,
       Await, Leave, Goto
  <2>2. OwnBuffer'
    BY <2>1 DEF WireInv, OwnBuffer
  <2>3. ASSUME ~cutIn' PROVE OnTheWay'
    <3>1. ~cutIn /\ OnTheWay /\ Place(w) /\ Handles
      BY <2>1, <2>3 DEF WireInv, HalInv
    <3>2. CASE Start(w)
      <4>1. pc[w] = "start" /\ arg[w] = w /\ hdmatx.State = "READY"
        BY <3>1, <3>2 DEF Place, Start
      <4>2. hdmatx' = [Lock |-> TRUE, State |-> "BUSY", left |-> Words, src |-> w,
                       history |-> [by |-> w, given |-> buffer[w], got |-> <<>>]]
        BY <3>2, <4>1 DEF Start
      <4>3. w = Handler => printed > 0
        BY <4>1 DEF WireInv, OwnBuffer
      <4>4. buffer[w][1] = Handler <=> w = Handler
        BY <4>3, WhoseBuffer DEF WireInv
      <4>5. buffer[w] \in Pieces
        BY DEF TypeInv, UartOK
      <4> DEFINE h == [by |-> w, given |-> buffer[w], got |-> <<>>]
      <4>6. hdmatx'.src = w /\ hdmatx'.history = h /\ h.by = w /\ h.given = buffer[w] /\ Len(h.got) = 0
        BY <4>2
      <4> HIDE DEF h
      <4> QED
        BY <2>1, <4>3, <4>4, <4>5, <4>6 DEF OnTheWay
    <3>3. CASE ~Start(w)
      <4>1. hdmatx' = hdmatx
        BY <1>2, <3>3 DEF UartStep, Transmit, Take, Test, Point, Arm, Lock, Flag, Error, Await, Leave
      <4>2. CASE hdmatx.State = "BUSY" /\ w = hdmatx.history.by
        <5>1. ~Test(w)
          BY <3>1, <4>2 DEF Test, Handles
        <5>2. pc'[w] \notin {"take", "test"} => pc[w] \notin {"take", "test"}
          BY <1>1, <1>2, <3>3, <5>1
          DEF UartStep, Transmit, Take, Point, Arm, Lock, Flag, Error, Await, Leave, Goto
        <5> QED
          BY <2>1, <3>1, <4>1, <4>2, <5>2 DEF OnTheWay
      <4>3. CASE hdmatx.State = "BUSY" /\ w # hdmatx.history.by
        BY <1>1, <2>1, <3>1, <4>1, <4>3 DEF OnTheWay
      <4> QED
        BY <4>1, <4>2, <4>3 DEF OnTheWay
    <3> QED
      BY <3>2, <3>3
  <2> QED
    BY <2>1, <2>2, <2>3 DEF WireInv, OneOrTwo
<1>3. CASE HardwareStep
  <2>1. UNCHANGED <<pc, buffer, printed, cutIn>>
    BY <1>3 DEF HardwareStep, debugVars, Hardware, Move, DmaIrq, ShiftedOut, TcIrq
  <2>2. OwnBuffer'
    BY <2>1 DEF WireInv, OwnBuffer
  <2>3. CASE Move
    <3> DEFINE h == hdmatx.history  got == Append(h.got, buffer[hdmatx.src])
    <3>1. /\ hdmatx.State = "BUSY" /\ wire' = wire /\ hdmatx'.src = hdmatx.src
          /\ hdmatx'.history = [h EXCEPT !.got = got]
      BY <1>1, <2>3 DEF Move, Channels
    <3>2. hdmatx'.history.by = h.by /\ hdmatx'.history.given = h.given /\ hdmatx'.history.got = got
      BY <1>1, <3>1 DEF Transfers
    <3>3. \A k \in 1 .. Len(got) : got[k] = buffer[hdmatx.src] \/ (k \in 1 .. Len(h.got) /\ got[k] = h.got[k])
      BY <1>1, LastOrBefore DEF Transfers
    <3> HIDE DEF h, got
    <3>4. ~cutIn => OnTheWay'
      BY <2>1, <3>1, <3>2, <3>3 DEF WireInv, OnTheWay, h
    <3> QED
      BY <2>1, <2>2, <3>1, <3>4 DEF WireInv, OneOrTwo
  <2>4. CASE DmaIrq
    <3> DEFINE h == hdmatx.history  sent == {h.got[k] : k \in 1 .. Len(h.got)}
    <3>1. hdmatx.State = "BUSY" /\ hdmatx'.State = "READY" /\ wire' = h
      BY <1>1, <2>4 DEF DmaIrq, Channels
    <3>2. ASSUME ~cutIn PROVE OneOrTwo(h)
      <4>1. OnTheWay
        BY <3>2 DEF WireInv
      <4>2. /\ \A k \in 1 .. Len(h.got) : h.got[k] \in {h.given, buffer[h.by]}
            /\ h.given[1] = Handler <=> h.by = Handler
            /\ h.by = Handler => printed > 0
        BY <3>1, <4>1 DEF OnTheWay
      <4>3. buffer[h.by][1] = Handler <=> h.by = Handler
        BY <1>1, <4>2, WhoseBuffer DEF WireInv
      <4>4. sent \cup {h.given} \subseteq {h.given, buffer[h.by]}
        BY <4>2
      <4>5. Cardinality(sent \cup {h.given}) <= 2
        BY <4>4, AtMostTwo
      <4>6. \A piece \in sent : piece[1] = Handler <=> h.by = Handler
        <5>1. \A piece \in sent : piece = h.given \/ piece = buffer[h.by]
          BY <4>2
        <5> HIDE DEF h, sent
        <5> QED
          BY <4>2, <4>3, <5>1
      <4> QED
        BY <4>5, <4>6 DEF OneOrTwo
    <3> HIDE DEF h
    <3> QED
      BY <2>1, <2>2, <3>1, <3>2 DEF WireInv, OnTheWay, OneOrTwo
  <2>5. CASE ShiftedOut \/ TcIrq
    <3>1. hdmatx' = hdmatx /\ (wire' = wire \/ wire' = NoTransfer)
      BY <2>5 DEF ShiftedOut, TcIrq
    <3>2. OneOrTwo(wire) => OneOrTwo(wire')
      BY <3>1, NothingSent
    <3> QED
      BY <2>1, <2>2, <3>1, <3>2 DEF WireInv, OnTheWay, OneOrTwo
  <2> QED
    BY <1>3, <2>3, <2>4, <2>5 DEF HardwareStep, Hardware
<1>4. CASE Aside
  <2>1. UNCHANGED <<huart, hdmatx, wire, cutIn>>
    BY <1>4 DEF Aside, onlyUart
  <2>2. OwnBuffer' /\ (printed > 0 => printed' > 0)
    BY <1>1, <1>4 DEF Aside, WireInv, OwnBuffer
  <2>3. ASSUME OnTheWay PROVE OnTheWay'
    <3> DEFINE h == hdmatx.history
    <3>1. CASE hdmatx.State = "BUSY"
      <4>1. h.by \in Writers /\ hdmatx'.history = h
        BY <1>1, <2>1
      <4>2. CASE buffer'[h.by] = buffer[h.by] /\ (pc'[h.by] = pc[h.by] \/ pc[h.by] \in Outdoors)
        BY <2>1, <2>2, <2>3, <3>1, <4>1, <4>2 DEF OnTheWay, Outdoors
      <4>3. CASE pc[h.by] = "idle" /\ pc'[h.by] = "take"
        <5>1. buffer[h.by] = h.given
          BY <2>3, <3>1, <4>3 DEF OnTheWay
        <5> QED
          BY <2>1, <2>2, <2>3, <3>1, <4>1, <4>3, <5>1 DEF OnTheWay
      <4> QED
        BY <1>4, <4>1, <4>2, <4>3 DEF Aside
    <3> QED
      BY <2>1, <3>1 DEF OnTheWay
  <2> QED
    BY <2>1, <2>2, <2>3 DEF WireInv, OneOrTwo
<1> QED
  BY <1>2, <1>3, <1>4, Steps

LEMMA InitWireInv == Init => WireInv
<1> SUFFICES ASSUME Init PROVE WireInv
  OBVIOUS
<1>1. /\ printed = 0 /\ pc[Handler] = "idle" /\ hdmatx.State = "READY" /\ wire = NoTransfer
  BY DifferentWriters DEF Init, UartInit
<1>2. OneOrTwo(wire)
  BY <1>1, NothingSent
<1>3. OwnBuffer /\ OnTheWay
  BY <1>1 DEF OwnBuffer, OnTheWay
<1> QED
  BY <1>2, <1>3 DEF WireInv

(* As long as the handler has not printed while the debug thread was       *)
(* inside the HAL, a transfer comes out of the memory of the writer that   *)
(* asked for it, and mixes with the message it was given no more than the  *)
(* one that the writer, let go too early, has put there after it.          *)
THEOREM SentByItsWriter == Spec => []FromItsWriter
<1>1. WireInv => FromItsWriter
  BY DEF WireInv, OneOrTwo, FromItsWriter
<1>2. TypeInv /\ HalInv /\ WireInv /\ [Next]_vars => WireInv'
  BY NextWireInv
<1> QED
  BY <1>1, <1>2, InitWireInv, TypesHold, HalInvHolds, PTL DEF Spec
=============================================================================
