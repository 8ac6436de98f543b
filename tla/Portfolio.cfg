SPECIFICATION Spec
CONSTANTS
  btc = btc
  eth = eth
  xrp = xrp
  alt_bot = alt_bot
  btc_bot = btc_bot
  Assets = {btc, eth}
  Bots = {alt_bot, btc_bot}
  Owner <- Trader
  Target <- Shares
  Bonus = 20
  Cash = 6
  MinBuy = 2
  Prices = {1, 2}
  Parts = {50, 100}
  KeepDays = 1
  MaxOrders = 4
  MaxCrashes = 1
  MaxDay = 1
INVARIANTS
  TypeOK
  HistoryTrue
PROPERTY
  BudgetKept
CHECK_DEADLOCK FALSE
