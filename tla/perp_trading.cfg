SPECIFICATION TradingSpec
CONSTANTS
  a1 = a1  a2 = a2  gA = gA gB = gB
  BPS = 10  SCALE = 12  PPM = 4  MaxWindow = 2
  Accounts = {a1}
  GpuIds = {gA}
  Prices = {4, 5}
  LimitPrices = {5}
  ParamChoices <- ChargedParams
  Sizes = {2, 5}
  Collaterals = {3}
  ExecFees = {1}
  MinExecutionFee = 1
  Delays = {0}
  MaxOrderDelay = 1
  Caps = {2}
  LpAmounts = {2}
  ClaimAmounts = {2}
  Payees = {"wallets", "engine"}
  BlockTimes = {1}
  EpochLength = 1
  MaxFeeBps = 1
  MaxRatePpm = 4
  InitialWallets = 20
  InitialVault = 2
  MaxOrders = 3
  MaxTime = 2
  Leverages = {15, 30}
  Tolerances = {0, 2}
  Requests = {1, 3}
INVARIANTS TypeOK BooksBalance TriggerIndexExact RowsMirrorEngine OrdersAgree BoundaryIsSafe RequestsAccepted
PROPERTIES PartialCloseKeepsDebt NoGainAtFillPrice CloseQuoteExact
CHECK_DEADLOCK FALSE
