SPECIFICATION Spec
CONSTANTS
  MinOrder = 10
  Precision = 1
  SplitPct = 10
  PartialTpPct = 50
  PartialSlPct = 50
  PartialExits = FALSE
  ClearThreshold = 0
  Confirmations = 1
  TradeInterval = 1
  StopCooldown = 1
  TpCooldown = 1
  AgeCap = 1
  MarketCount = 1
  BuyAmount = 100
  BuyFills = {100}
  SignalSets <- SomeSignals
  GrossPnLs = {0}
  Fee = 0
  MaxDailyLoss = 1
  MaxEntryCount = 2
  Faults = {"crash"}
  Fallers = {}
  MaxBuys = 1
  MaxFaults = 1
  MaxLoss = 0
INVARIANT
  BasisSurvivesRestart
