SPECIFICATION Spec
CONSTANTS
  MinOrder = 2
  Precision = 2
  SplitPct = 50
  PartialTpPct = 50
  PartialSlPct = 50
  PartialExits = TRUE
  ClearThreshold = 0
  Confirmations = 1
  TradeInterval = 1
  StopCooldown = 2
  TpCooldown = 2
  AgeCap = 2
  MarketCount = 1
  BuyAmount = 8
  BuyFills = {7, 8}
  SignalSets <- SomeSignals
  GrossPnLs = {0}
  Fee = 0
  MaxDailyLoss = 1
  MaxEntryCount = 2
  Faults = {"crash", "fetch", "balance", "reject", "lost", "late", "book"}
  Fallers = {}
  MaxBuys = 3
  MaxFaults = 2
  MaxLoss = 0
INVARIANTS
  TypeOK
  OneLotPerOrder
  NoOversell
  RestartTransparent
  BasisExact
PROPERTIES
  PartialExitOnce
  NoEarlyReentry
