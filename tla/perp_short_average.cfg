SPECIFICATION TradingSpec
CONSTANTS
  a1 = a1  a2 = a2  gA = gA gB = gB
  BPS = 10  SCALE = 40  PPM = 4  MaxWindow = 2
  Accounts = {a1}
  GpuIds = {gA}
  Prices = {10, 14}
  LimitPrices = {10, 14}
  ParamChoices <- FreeParams
  Sizes = {20}
  Collaterals = {10}
  ExecFees = {1}
  MinExecutionFee = 1
  Delays = {0}
  MaxOrderDelay = 1
  Caps = {2}
  LpAmounts = {2}
  ClaimAmounts = {2}
  Payees = {"wallets"}
  BlockTimes = {1}
  EpochLength = 1
  MaxFeeBps = 1
  MaxRatePpm = 4
  InitialWallets = 30
  InitialVault = 2
  MaxOrders = 3
  MaxTime = 2
  Leverages = {15, 30}
  Tolerances = {0, 2}
  Requests = {1, 3}
PROPERTY AveragingAgainstTrader
CHECK_DEADLOCK FALSE
