SPECIFICATION FairSpec
CONSTANTS
  MinOrder = 4
  Precision = 2
  SplitPct = 50
  PartialTpPct = 50
  PartialSlPct = 50
  PartialExits = TRUE
  ClearThreshold = 0
  Confirmations = 1
  TradeInterval = 1
  StopCooldown = 1
  TpCooldown = 1
  AgeCap = 1
  MarketCount = 2
  BuyAmount = 9
  BuyFills = {9}
  SignalSets <- SomeSignals
  GrossPnLs <- Loss
  Fee = 1
  MaxDailyLoss = 1
  MaxEntryCount = 2
  Faults = {"crash", "balance", "reject", "lost"}
  Fallers = {1}
  MaxBuys = 2
  MaxFaults = 1
  MaxLoss = 20
PROPERTIES DailyLossLimit StopLossExecutes
