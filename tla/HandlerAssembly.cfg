CONSTANTS
  socket = socket
  Uart = Uart
  red = red
  green = green
  Sources = {socket, Uart}
  Pins = {red, green}
  Texts <- SomeTexts
  PacketSizes = {4, 14}
  DataSize = 12
  MessageSize = 13
  Capacity = 2
  BufferSize = 18
  TempSize = 14
  TermLen = 2
  MaxMessages = 2
  Disturbance = TRUE
SPECIFICATION Spec
INVARIANTS TypeOK ExecutedAsSent
PROPERTIES OutcomeOfTheText EveryTextEnds
CHECK_DEADLOCK FALSE
