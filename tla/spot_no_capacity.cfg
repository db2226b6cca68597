SPECIFICATION AnySpec
CONSTANTS
  gA = gA  w1 = w1  w2 = w2
  Wallets = {w1, w2}  MaxTxs = 3
  BPS = 10  CD = 10  GusdDust = 1  GpuDust = 1  MaxUint = 1000
  GpuIds = {gA}
  Prices = {4, 5}
  FeeChoices = {1}
  MaxIssuanceFee = 1
  MaxSpread = 5
  MaxHookFee = 1
  PolChoices <- MCPolChoices
  DefaultPol <- MCDefaultPol
  CapChoices <- MCCaps
  GusdAmounts = {1, 5}
  GpuAmounts = {2, 5}
  LpAmounts <- MCLpAmounts
  InitialGusd = 5
  MaxIssued = 7
INVARIANT NoCapacityReverts
CHECK_DEADLOCK FALSE
