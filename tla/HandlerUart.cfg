CONSTANTS
  socket = socket
  Uart = Uart
  red = red
  green = green
  Sources = {Uart}
  Pins = {red, green}
  Texts <- UartTexts
  PacketSizes = {3}
  DataSize = 10
  MessageSize = 11
  Capacity = 3
  BufferSize = 25
  TempSize = 20
  TermLen = 2
  MaxMessages = 1
  Disturbance = FALSE
SPECIFICATION Spec
INVARIANT UartMessagesAreExecuted
CHECK_DEADLOCK FALSE
