SPECIFICATION Spec
CONSTANTS
  None = None
  x1 = x1  e1 = e1  w1 = w1  w2 = w2  r1 = r1  r2 = r2  desk = desk
  Externals = {x1}
  Embeddeds = {e1}
  MaxPending = 2
  Addresses = {w1, w2}
  Runs = {r1, r2}
  Origins = {desk}
  MaxApprovals = 1
  FollowUps = 1
  MaxFails = 1
  MaxPages = 2
  MaxLoops = 5
  MaxFaults = 3
  MaxCalls = 2
  Prices = {1, 2}
  MaxTime = 2
  MaxPrints = 2
INVARIANTS WalletIsSessions RunnerHonest CandlesFollowServer
PROPERTIES  ImplementsSession NothingHangs
CHECK_DEADLOCK FALSE
