SPECIFICATION MCSpec
CONSTANTS
  u1 = u1  u2 = u2
  Users = {u1, u2}
  BPS = 4
  MaxFeeBps = 1
  Fees = {0, 1}
  Amounts = {1, 2}
  InitialBalance = 3
  InitialOutside = 1
  Splits = {1, 5}
  Reservations = {2}
  Caps = {2}
  MaxShares = 4
  MaxTxs = 4
  Stables = {"usdt"}
  InitialStable = 2
INVARIANTS ReserveBacksSupply HonestPreviews TablesFollow
PROPERTY SharePriceNeverFalls
