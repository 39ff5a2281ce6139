CONSTANTS
  Brokers <- TwoBrokers
  Slow <- SlowCommands
  HostMayDie = TRUE
  HostMayBeOld = TRUE
  HistoryMayGrow = TRUE
  MaxCalls = 1
  MaxInbox = 1
  MaxOrphans = 1
SPECIFICATION LiveSpec
INVARIANTS
  ExecutedOnce
  LinkOnlyForOpenRooms
CHECK_DEADLOCK FALSE
PROPERTIES
  PendingEnds
  ViewCatchesUp
