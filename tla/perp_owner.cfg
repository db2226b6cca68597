SPECIFICATION IndexedSpec
CONSTANTS
  a1 = a1  a2 = a2  gA = gA gB = gB
  BPS = 10  SCALE = 12  PPM = 4  MaxWindow = 1
  Accounts = {a1}
  GpuIds = {gA}
  Prices = {4, 5}
  LimitPrices = {4}
  ParamChoices <- OwnerParams
  Sizes = {0, 4}
  Collaterals = {2}
  ExecFees = {1}
  MinExecutionFee = 1
  Delays = {0, 1}
  MaxOrderDelay = 1
  Caps = {0, 2}
  LpAmounts = {3}
  ClaimAmounts = {2}
  Payees = {"wallets", "vault"}
  BlockTimes = {2}
  EpochLength = 1
  MaxFeeBps = 1
  MaxRatePpm = 1
  InitialWallets = 8
  InitialVault = 2
  MaxOrders = 2
  MaxTime = 2
  Leverages = {15}
  Tolerances = {0}
  Requests = {0}
INVARIANTS ReservationPushed LiquidationsAgree
PROPERTIES AccruedBeforeChange RedemptionsKeepReserve
