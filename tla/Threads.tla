------------------------------ MODULE Threads ------------------------------
(***************************************************************************)
(* What the parts of the output share: where each thread is, and which     *)
(* threads give messages to Debug::transmitDirect.                         *)
(***************************************************************************)
CONSTANT Writers        \* the threads that call Debug::transmitDirect

VARIABLE pc             \* the place each thread has come to

Goto(t, place) == pc' = [pc EXCEPT ![t] = place]
=============================================================================
