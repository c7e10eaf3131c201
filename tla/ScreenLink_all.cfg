SPECIFICATION FairSpec
CONSTANTS
  MaxChanges = 1
  MaxClients = 1
  MaxEvents = 2
  MaxQueue = 1
  RetryMax = 1
CHECK_DEADLOCK FALSE
INVARIANTS TypeOK CommandsKept
PROPERTIES TouchesRelayed ScreenArrives LinkRepaired CaptureSaved
