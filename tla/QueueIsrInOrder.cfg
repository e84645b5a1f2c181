CONSTANTS
  socket = socket
  cdc = cdc
  uart = uart
  handler = handler
  Producers = {uart, socket}
  Consumer = handler
  Priority <- UartPriority
  Capacity = 2
  Words = 2
  MaxPush = 2
SPECIFICATION Spec
INVARIANT DeliveredInOrder
CHECK_DEADLOCK FALSE
