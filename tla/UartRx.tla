------------------------------- MODULE UartRx -------------------------------
(***************************************************************************)
(* The receiving half of Core/Src/IO/UART.cpp, with the part of the HAL    *)
(* under it: a DMA transfer into dataBuffer that ends when it is full or   *)
(* when the line falls silent, and calls back at its half as well.  The    *)
(* callback arms the next transfer before it looks at the buffer, which    *)
(* nobody clears.  What is done with a text is the business of the module  *)
(* that extends this one (MessageHandler).                                 *)
(*                                                                         *)
(* The interrupts of the DMA and of the USART have one priority, the       *)
(* highest, and do not interrupt each other: the one of the DMA begins     *)
(* before the next character.  The copy is one step: at the speed of the   *)
(* line at most one character falls into it.                               *)
(***************************************************************************)
EXTENDS Naturals, Sequences

CONSTANT DataSize        \* sizeof(dataBuffer)

ASSUME UartRxAssumption == DataSize \in Nat \ {0}

VARIABLES
  dataBuffer,   \* "nul" where nothing was ever received
  filled,       \* how far the transfer has come
  flags,        \* HT and TC of the DMA channel, not yet handled
  callback      \* RxEventCallback is between startReceiving and rxCallback

rxVars == <<dataBuffer, filled, flags, callback>>

Events == {"HT", "TC", "IDLE"}

RxTypeOK(Chars) ==
  /\ dataBuffer \in [1 .. DataSize -> Chars \cup {"nul"}]
  /\ filled \in 0 .. DataSize
  /\ flags \subseteq {"HT", "TC"}
  /\ callback \in BOOLEAN

(* main calls startReceiving before anything else *)
RxInit ==
  /\ dataBuffer = [i \in 1 .. DataSize |-> "nul"]
  /\ filled = 0
  /\ flags = {}
  /\ callback = FALSE

(* The DMA stores a character *)
Store(c) ==
  /\ filled < DataSize /\ flags = {}
  /\ callback => filled \in {0, DataSize \div 2}
  /\ filled' = filled + 1
  /\ dataBuffer' = [dataBuffer EXCEPT ![filled + 1] = c]
  /\ flags' = flags \cup {f \in {"HT", "TC"} :
                            filled' = (IF f = "HT" THEN DataSize \div 2 ELSE DataSize)}
  /\ UNCHANGED callback

(* What an interrupt finds: the silence of the line counts only when no    *)
(* interrupt of the DMA is waiting.                                        *)
Raised(e) ==
  \/ e \in flags
  \/ e = "IDLE" /\ flags = {} /\ 0 < filled /\ filled < DataSize

(* The handlers of the HAL, and RxEventCallback up to its startReceiving:  *)
(* at the half the transfer goes on, and HAL_UARTEx_ReceiveToIdle_DMA arms  *)
(* nothing, as RxState is busy; else the next transfer begins.             *)
Event(e) ==
  /\ ~callback /\ Raised(e)
  /\ callback' = TRUE
  /\ flags' = flags \ {e}
  /\ filled' = IF e = "HT" THEN filled ELSE 0
  /\ UNCHANGED dataBuffer

(* What strcpy copies: all up to the first NUL.  When the buffer was full  *)
(* once it has none, and what follows in memory is copied too.             *)
Line ==
  LET nuls == {i \in 1 .. DataSize : dataBuffer[i] = "nul"}
      first == CHOOSE i \in nuls : \A j \in nuls : i <= j
  IN  IF nuls = {} THEN Append(dataBuffer, "junk") ELSE SubSeq(dataBuffer, 1, first - 1)

(* The rest of RxEventCallback.  Its text is Line. *)
CallbackEnds ==
  /\ callback
  /\ callback' = FALSE
  /\ UNCHANGED <<dataBuffer, filled, flags>>
=============================================================================
