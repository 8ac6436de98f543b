SPECIFICATION Spec
CONSTANTS
  Programs = {okx}
  Handlers = {okx}
  Unlogged = {}
  Operators = {console}
  Watcher = watcher
  Cooldown = 2
  MaxRestarts = 2
  Hour = 4
  MaxLogAge = 1
  Faults = {"die", "watcher"}
  MaxPids = 3
  MaxFaults = 2
  MaxNow = 5
CHECK_DEADLOCK FALSE
INVARIANTS
  RecoveriesLimited
  OneCopy
  PidFileKept
