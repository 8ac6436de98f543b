SPECIFICATION FairSpec
CONSTANTS
  Programs = {okx}
  Handlers = {okx}
  Unlogged = {}
  Operators = {}
  Watcher = watcher
  Cooldown = 1
  MaxRestarts = 2
  Hour = 2
  MaxLogAge = 1
  Faults = {"die", "hang", "watcher"}
  MaxPids = 5
  MaxFaults = 2
  MaxNow = 9
CHECK_DEADLOCK FALSE
INVARIANTS
  TypeOK
PROPERTIES
  DownIsRestarted
