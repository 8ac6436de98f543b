SPECIFICATION FairSpec
CONSTANTS
  Venues = {"okx", "upbit"}
  MaxAddOns = 1
  Confirmations = 1
  TradeInterval = 1
  StopCooldown = 2
  ProfitCooldown = 2
  AgeCap = 2
  MinAmount = 2
  MinValue = 3
  Prices = {1, 2}
  BuyAmount = 4
  BuyFills = {3, 4}
  FactSets <- FactChoices
  GrossPnLs <- Losses
  Fee = 1
  MaxDailyLoss = 4
  Faults = {"crash", "lost", "book", "reject", "stream"}
  MaxBuys = 3
  MaxFaults = 1
  MaxMoves = 2
  MaxLoss = 8
INVARIANTS BasisExact RestartCautious
PROPERTIES BuysAllowed KeepsPromise StopLossExecutes
CHECK_DEADLOCK FALSE
