SPECIFICATION Spec
CONSTANTS
  Venues = {"okx"}
  MaxAddOns = 1
  Confirmations = 1
  TradeInterval = 1
  StopCooldown = 2
  ProfitCooldown = 2
  AgeCap = 2
  MinAmount = 2
  MinValue = 3
  Prices = {1, 2}
  BuyAmount = 4
  BuyFills = {3, 4}
  FactSets <- FactChoices
  GrossPnLs <- Losses
  Fee = 1
  MaxDailyLoss = 4
  Faults = {"restart"}
  MaxBuys = 3
  MaxFaults = 1
  MaxMoves = 2
  MaxLoss = 8
INVARIANT AddOnOnce
CHECK_DEADLOCK FALSE
