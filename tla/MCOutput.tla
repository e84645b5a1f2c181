------------------------------ MODULE MCOutput ------------------------------
(* An instance of Output for TLC: the IP thread above the threads of the   *)
(* middle priority, the debug thread below them all.                       *)
EXTENDS Output, TLC

MCPriority == ("ip" :> 3) @@ ("usb" :> 2)
                @@ ("handler" :> 2) @@ ("debug" :> 1)
=============================================================================
