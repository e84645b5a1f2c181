CONSTANTS
  MaxConnections = 3
  MaxData = 2
  MaxPending = 1
SPECIFICATION Spec
INVARIANTS TypeOK ClosesOnlyWhatEnded NothingLeftWaiting
PROPERTIES DataOfThePeer AvailableAgain
CHECK_DEADLOCK FALSE
