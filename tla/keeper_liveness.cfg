SPECIFICATION FairSpec
CONSTANTS
  Orders = {o1}
  Positions = {p1}
  Prices = {hi}
  Wanted <- AllWanted
  Batches = {b1, b2}
  MaxPending = 2
  MaxFaults = 1
PROPERTIES BookConverges WorkGetsDone
