\* Two tracks, two modalities (one of them only ever missed), at most three events, every count up to two.
SPECIFICATION Spec
CONSTANTS
  MaxActiveTracks = 2
  MaxAttempts = 2
  None = None
  MCPairs <- SmallPairs
  MCKinds = {"Updated", "GateRejected", "AssignmentRejected", "UnsupportedFilter", "TrackBirth"}
  MCMisses = {"NoMeasurement", "NoInGateCandidate", "NotAssigned"}
  MCMeasurements = {0, 1, None}
  MCAttempts = {0, 1}
  MCCounts = {0, 1, 2}
  MaxEvents = 3
  Summaries <- MCSummaries
INVARIANTS LedgerMatchesContract
CHECK_DEADLOCK FALSE
