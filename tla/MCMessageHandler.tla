------------------------- MODULE MCMessageHandler -------------------------
(***************************************************************************)
(* Instances of MessageHandler, with sizes in tokens for sizes in bytes:   *)
(* END_OF_MESSAGE is 2 tokens for 4 characters, and as on the device       *)
(* DataSize < MessageSize < TempSize < BufferSize.                         *)
(***************************************************************************)
EXTENDS MessageHandler

CONSTANTS socket, red, green

End == <<"cr", "cr">>
LOCAL Reds(n) == [i \in 1 .. n |-> red]

Bad      == <<"]">> \o End
Short    == <<"[", red, "]">> \o End
Middle   == <<"[", red, green, red, "]">> \o End
Unclosed == <<"[", green>> \o End
Storing  == <<"[", "StoreConfig", green>> \o Reds(TempSize - 6) \o <<"]">> \o End
VeryLong == <<"[">> \o Reds(TempSize - 3) \o <<"]">> \o End       \* no room in tempBuffer
Huge     == <<"[">> \o Reds(BufferSize - 4) \o <<"]">> \o End     \* none in stringBuffer

SomeTexts ==
  [s \in Sources |-> IF s = Uart THEN {Bad, Short, Middle}
                     ELSE {Bad, Short, Unclosed, Storing, VeryLong, Huge}]
UartTexts == [s \in Sources |-> {<<"[", red, red, red, green, "]">> \o End}]
=============================================================================
