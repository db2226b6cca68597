SPECIFICATION MCSpec
CONSTANTS
  gA = gA  gB = gB  c1 = c1  c2 = c2  None = None
  Dollar = 10  PriceScale = 5  Percent = 100
  EpochLength = 2  MaxObservationAge = 2
  Gpus <- MCGpus
  Templates <- MCTemplates
  Config <- MCConfig
  Panel <- MCPanel
  BreakerMaps <- MCBreakers
  OnchainChoices <- MCOnchain
  Posture <- MCPosture
  Cycles = {c1, c2}
  MaxFaults = 1  MaxStops = 1  MaxCandidates = 2  MaxTime = 2
  m1 = m1  m2 = m2  m3 = m3  h1 = h1  h2 = h2
  Steps = {2, 3}  MaxRows = 3
INVARIANTS StoredReportsSound FloodingIsFutile AnchorHonest RowsHonest
PROPERTIES ServedReportNeverChanges EpochGetsReport
CHECK_DEADLOCK FALSE
