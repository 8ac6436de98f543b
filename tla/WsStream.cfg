SPECIFICATION FairSpec
CONSTANTS
  Venues = {"okx", "upbit"}
  MaxIdle = 3
  Faults = {"payload", "disk"}
  MaxFaults = 2
  MaxSignals = 2
  MaxChanges = 4
INVARIANT TypeOK
PROPERTIES  SilenceNoticed StopEndsSession
CHECK_DEADLOCK FALSE
