CONSTANTS
  socket = socket
  cdc = cdc
  uart = uart
  handler = handler
  Producers = {socket, cdc}
  Consumer = handler
  Priority <- ThreadPriority
  Capacity = 2
  Words = 2
  MaxPush = 3
SPECIFICATION Spec
INVARIANTS TypeOK QueuedOnce DeliveredInOrder
PROPERTIES ImplementsChannel
CHECK_DEADLOCK FALSE
