--------------------------- MODULE MCWearLeveling ---------------------------
(***************************************************************************)
(* Instances of WearLeveling.  The device has 8 sectors of 3072 half-words *)
(* and elements of 1154 half-words, which makes the subtraction in         *)
(* MAX_ELEMENTS wrap below zero: the bound is never reached, and there are *)
(* more index bits than slots.  The instance of the device's shape has 8   *)
(* sectors of 5 cells and elements of 10, so that an element covers more   *)
(* than one sector, the subtraction wraps, and 3 slots fit.  The instance  *)
(* of a small element has sectors of 2 cells and elements of 4: the        *)
(* subtraction does not wrap, and the store that finds every slot used     *)
(* erases them.                                                            *)
(***************************************************************************)
EXTENDS WearLeveling

TwoPayloads == {{0}, {1}}
=============================================================================
