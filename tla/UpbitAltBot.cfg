SPECIFICATION Spec
CONSTANTS
  MinOrder = 0
  Precision = 1
  SplitPct = 50
  PartialTpPct = 50
  PartialSlPct = 50
  PartialExits = TRUE
  ClearThreshold = 0
  Confirmations = 1
  TradeInterval = 1
  StopCooldown = 2
  TpCooldown = 2
  AgeCap = 2
  MinValue = 16
  Prices = {4, 5, 24}
  Spread = 1
  BuyAmount = 8
  BuyFills = {6}
  FactSets <- FactChoices
  GrossPnLs <- Losses
  Fee = 1
  MaxDailyLoss = 4
  MaxEntryCount = 2
  Faults = {"crash", "lost", "book", "reject", "stream"}
  MaxBuys = 2
  MaxFaults = 1
  MaxMoves = 2
  MaxLoss = 8
INVARIANTS BasisExact HistoryKnows
PROPERTIES BuysAllowed KeepsPromise
CHECK_DEADLOCK FALSE
