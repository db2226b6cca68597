SPECIFICATION ShorteningSpec
CONSTANTS
  GpuIds = {gA, gB}
  Signers = {s1, s2}
  Prices = {0, 4, 5}
  EpochLengths = {2, 3}
  ObservationAges = {1, 2, 3}
  StartTime = 3
  MaxTime = 6
INVARIANTS FreshReportAcceptable DedupeIsBound
PROPERTY ImplementsEpochPrice
