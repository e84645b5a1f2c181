------------------------------ MODULE Channel ------------------------------
(***************************************************************************)
(* What a message queue of the firmware promises its callers: the values   *)
(* whose push was accepted come out of pop whole, once, and in the order   *)
(* in which they were accepted, and at most Capacity of them are under way *)
(* at any time.  It is the abstract specification QueueT implements.       *)
(***************************************************************************)
EXTENDS Naturals, Sequences

CONSTANTS Payloads,     \* what a push may carry
          Capacity      \* how many accepted values may wait

VARIABLES accepted,     \* every value a push accepted, oldest first
          delivered     \* every value a pop handed out, oldest first

vars == <<accepted, delivered>>

Init == accepted = <<>> /\ delivered = <<>>

Put ==
  /\ Len(accepted) - Len(delivered) < Capacity
  /\ \E m \in Payloads : accepted' = Append(accepted, m)
  /\ UNCHANGED delivered

Get ==
  /\ Len(delivered) < Len(accepted)
  /\ delivered' = Append(delivered, accepted[Len(delivered) + 1])
  /\ UNCHANGED accepted

Next == Put \/ Get

Safety == Init /\ [][Next]_vars

Spec == Safety /\ WF_vars(Get)
=============================================================================
