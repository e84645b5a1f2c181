CONSTANTS
  Writers = {"debug", "handler"}
  Debug = "debug"
  Handler = "handler"
  Usb = "usb"
  Callers = {"ip", "usb"}
  Priority <- MCPriority
  Words = 2
  MaxPlug = 1
  MaxPieces = 2
  QueueSize = 1
  MaxPrint = 2
  MaxLines = 1
  MaxSaid = 2
SPECIFICATION Spec
INVARIANTS TypeOK NothingRefused FromItsWriter LocksComeBack DamagedOnlyByMoreUrgent ConnectedFollows
PROPERTIES EverythingIsSaid
CHECK_DEADLOCK FALSE
