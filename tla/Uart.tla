-------------------------------- MODULE Uart --------------------------------
(***************************************************************************)
(* UART::transmit (Core/Src/IO/UART.cpp) down to the DMA channel: the two  *)
(* semaphores of the class, the states of HAL_UART_Transmit_DMA and        *)
(* HAL_DMA_Start_IT that a second caller can see, and the interrupts that  *)
(* end a transfer.  A step is what one thread does between two accesses to *)
(* what is shared; who may take it is the business of the module that      *)
(* composes this one (Output).                                             *)
(***************************************************************************)
EXTENDS Naturals, Sequences, Threads

CONSTANT Words          \* how many DMA moves one message takes

ASSUME UartAssumption == Words \in Nat \ {0}

VARIABLES
  buffer,      \* the message in the memory each writer gives to transmit
  huart,       \* gState, pTxBuffPtr, and the bits DMAT, TCIE and TC
  hdmatx,      \* Lock, State, the source and what is left of the block;
               \* history: who gave what, and what was moved
  arg,         \* the source address each writer passes to HAL_DMA_Start_IT
  uartLock, txLock,    \* counts of the semaphores
  wire,        \* history: the transfer that finished last, until TcIrq
  refused,     \* history: HAL_ERROR made transmit drop a message that has
               \* characters
  merged,      \* history: how often a transfer ended with the TC interrupt
               \* of the one before still to come: the two give one token
  cutIn        \* history: a writer came while another was inside the HAL

uartVars == <<pc, buffer, huart, hdmatx, arg, uartLock, txLock, wire, refused, merged, cutIn>>

(* Past the test of gState, and not yet ready for the interrupts to end it *)
InsideHal == {"point", "arm", "lock", "start", "flag"}
InTransmit == InsideHal \cup {"take", "test", "error", "await", "leave"}

(* A message is <<whose, line, place>>; the place of an empty one is 0.    *)
Empty(message) == message[3] = 0

NoTransfer == [by |-> CHOOSE w \in Writers : TRUE, given |-> <<>>, got |-> <<>>]

UartInit ==
  /\ huart = [gState |-> "READY", pTxBuffPtr |-> CHOOSE w \in Writers : TRUE,
              DMAT |-> FALSE, TCIE |-> FALSE, TC |-> TRUE]
  /\ hdmatx = [Lock |-> FALSE, State |-> "READY", left |-> 0,
               src |-> CHOOSE w \in Writers : TRUE, history |-> NoTransfer]
  /\ arg = [w \in Writers |-> w]
  /\ uartLock = 2          \* created with 1, and given by the constructor
  /\ txLock = 1
  /\ wire = NoTransfer
  /\ refused = FALSE
  /\ merged = 0
  /\ cutIn = FALSE

UartTypeOK ==
  /\ huart \in [gState : {"READY", "BUSY_TX"}, pTxBuffPtr : Writers,
                DMAT : BOOLEAN, TCIE : BOOLEAN, TC : BOOLEAN]
  /\ hdmatx.Lock \in BOOLEAN /\ hdmatx.State \in {"READY", "BUSY"}
  /\ hdmatx.left \in 0 .. Words /\ hdmatx.src \in Writers
  /\ Len(hdmatx.history.got) = (IF hdmatx.State = "BUSY" THEN Words - hdmatx.left ELSE 0)
  /\ arg \in [Writers -> Writers]
  /\ uartLock \in 0 .. 2 /\ txLock \in 0 .. 3 /\ merged \in 0 .. 3

-----------------------------------------------------------------------------
(* transmit *)

Take(w) ==
  /\ pc[w] = "take" /\ uartLock > 0
  /\ uartLock' = uartLock - 1
  /\ cutIn' = (cutIn \/ \E b \in Writers \ {w} : pc[b] \in InsideHal)
  /\ Goto(w, "test")
  /\ UNCHANGED <<buffer, huart, hdmatx, arg, txLock, wire, refused, merged>>

TestForgotten(w) ==              \* mutant: HAL_BUSY is not looked at
  /\ pc[w] = "test"
  /\ Goto(w, IF Empty(buffer[w]) THEN "leave" ELSE "point")
  /\ UNCHANGED <<buffer, huart, hdmatx, arg, uartLock, txLock, wire, refused, merged, cutIn>>

(* gState is READY: the call goes on, but HAL_ERROR is the answer to an    *)
(* empty message.  When it is not READY the call returns HAL_BUSY,         *)
(* transmit relinquishes and calls again: nothing has changed.             *)
Test(w) ==
  /\ pc[w] = "test" /\ huart.gState = "READY"
  /\ Goto(w, IF Empty(buffer[w]) THEN "leave" ELSE "point")
  /\ UNCHANGED <<buffer, huart, hdmatx, arg, uartLock, txLock, wire, refused, merged, cutIn>>

Point(w) ==
  /\ pc[w] = "point"
  /\ huart' = [huart EXCEPT !.pTxBuffPtr = w]
  /\ Goto(w, "arm")
  /\ UNCHANGED <<buffer, hdmatx, arg, uartLock, txLock, wire, refused, merged, cutIn>>

Arm(w) ==
  /\ pc[w] = "arm"
  /\ huart' = [huart EXCEPT !.gState = "BUSY_TX"]
  /\ Goto(w, "lock")
  /\ UNCHANGED <<buffer, hdmatx, arg, uartLock, txLock, wire, refused, merged, cutIn>>

(* The call of HAL_DMA_Start_IT, and the test in __HAL_LOCK *)
Lock(w) ==
  /\ pc[w] = "lock"
  /\ arg' = [arg EXCEPT ![w] = huart.pTxBuffPtr]
  /\ Goto(w, IF hdmatx.Lock THEN "error" ELSE "start")
  /\ UNCHANGED <<buffer, huart, hdmatx, uartLock, txLock, wire, refused, merged, cutIn>>

Start(w) ==
  /\ pc[w] = "start"
  /\ IF hdmatx.State = "READY"
     THEN /\ hdmatx' = [Lock |-> TRUE, State |-> "BUSY", left |-> Words, src |-> arg[w],
                        history |-> [by |-> w, given |-> buffer[w], got |-> <<>>]]
          /\ Goto(w, "flag")
     ELSE /\ hdmatx' = [hdmatx EXCEPT !.Lock = FALSE]
          /\ Goto(w, "error")
  /\ UNCHANGED <<buffer, huart, arg, uartLock, txLock, wire, refused, merged, cutIn>>

(* TC is cleared, and the UART may ask the channel for data *)
Flag(w) ==
  /\ pc[w] = "flag"
  /\ huart' = [huart EXCEPT !.TC = FALSE, !.DMAT = TRUE]
  /\ Goto(w, "await")
  /\ UNCHANGED <<buffer, hdmatx, arg, uartLock, txLock, wire, refused, merged, cutIn>>

(* The channel could not be started: gState is READY again, the result is  *)
(* HAL_ERROR, and transmit leaves its loop without having sent.            *)
Error(w) ==
  /\ pc[w] = "error"
  /\ huart' = [huart EXCEPT !.gState = "READY"]
  /\ refused' = TRUE
  /\ Goto(w, "leave")
  /\ UNCHANGED <<buffer, hdmatx, arg, uartLock, txLock, wire, merged, cutIn>>

Await(w) ==
  /\ pc[w] = "await" /\ txLock > 0
  /\ txLock' = txLock - 1
  /\ Goto(w, "leave")
  /\ UNCHANGED <<buffer, huart, hdmatx, arg, uartLock, wire, refused, merged, cutIn>>

Leave(w) ==
  /\ pc[w] = "leave"
  /\ uartLock' = uartLock + 1
  /\ Goto(w, "usb")
  /\ UNCHANGED <<buffer, huart, hdmatx, arg, txLock, wire, refused, merged, cutIn>>

Transmit(w) ==
  \/ Take(w) \/ Test(w) \/ Point(w) \/ Arm(w) \/ Lock(w) \/ Start(w)
  \/ Flag(w) \/ Error(w) \/ Await(w) \/ Leave(w)

-----------------------------------------------------------------------------
(* The hardware and its interrupts *)

(* The channel moves the next word of whatever the memory holds by now. *)
Move ==
  /\ hdmatx.State = "BUSY" /\ hdmatx.left > 0 /\ huart.DMAT
  /\ hdmatx' = [hdmatx EXCEPT !.left = @ - 1,
                               !.history.got = Append(@, buffer[hdmatx.src])]
  /\ huart' = [huart EXCEPT !.TC = FALSE]
  /\ UNCHANGED <<pc, buffer, arg, uartLock, txLock, wire, refused, merged, cutIn>>

(* HAL_DMA_IRQHandler at the end of the block, with UART_DMATransmitCplt *)
DmaIrq ==
  /\ hdmatx.State = "BUSY" /\ hdmatx.left = 0
  /\ hdmatx' = [hdmatx EXCEPT !.State = "READY", !.Lock = FALSE, !.history = NoTransfer]
  /\ huart' = [huart EXCEPT !.DMAT = FALSE, !.TCIE = TRUE]
  /\ wire' = hdmatx.history
  /\ merged' = IF huart.TCIE THEN merged + 1 ELSE merged
  /\ UNCHANGED <<pc, buffer, arg, uartLock, txLock, refused, cutIn>>

(* The last word has been shifted out. *)
ShiftedOut ==
  /\ ~huart.TC /\ hdmatx.left = 0
  /\ huart' = [huart EXCEPT !.TC = TRUE]
  /\ UNCHANGED <<pc, buffer, hdmatx, arg, uartLock, txLock, wire, refused, merged, cutIn>>

TcIrqSilent ==                   \* mutant: TxCpltCallback gives nothing
  /\ huart.TC /\ huart.TCIE
  /\ huart' = [huart EXCEPT !.TCIE = FALSE, !.gState = "READY"]
  /\ UNCHANGED <<pc, buffer, hdmatx, arg, uartLock, txLock, wire, refused, merged, cutIn>>

TcIrqBusy ==                     \* mutant: gState is not restored
  /\ huart.TC /\ huart.TCIE
  /\ huart' = [huart EXCEPT !.TCIE = FALSE]
  /\ txLock' = txLock + 1
  /\ UNCHANGED <<pc, buffer, hdmatx, arg, uartLock, wire, refused, merged, cutIn>>

(* UART_EndTransmit_IT with UART::TxCpltCallback *)
TcIrq ==
  /\ huart.TC /\ huart.TCIE
  /\ huart' = [huart EXCEPT !.TCIE = FALSE, !.gState = "READY"]
  /\ txLock' = txLock + 1
  /\ wire' = NoTransfer
  /\ UNCHANGED <<pc, buffer, hdmatx, arg, uartLock, refused, merged, cutIn>>

Hardware == Move \/ DmaIrq \/ ShiftedOut \/ TcIrq
=============================================================================
