------------------------------ MODULE MCQueueT ------------------------------
(***************************************************************************)
(* Instances of QueueT.  The handler's queue takes messages from the TCP   *)
(* and USB threads, whose priority is the handler's own, and from the UART *)
(* receive interrupt, which preempts them all.                             *)
(***************************************************************************)
EXTENDS QueueT

CONSTANTS socket, cdc, uart, handler

ThreadPriority == [a \in Actors |-> 1]
UartPriority   == [a \in Actors |-> IF a = uart THEN 2 ELSE 1]
=============================================================================
