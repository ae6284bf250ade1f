SPECIFICATION Spec
CONSTANTS
  None = None
  MaxActiveTracks = 2
  MaxAttempts = 2
  LastInstant = 100
  MaxEventSeq = 100
  MaxOutcomes = 2
  Limits <- ShortLimits
  Times = {0, 1, 2}
  MonitorEnvelopes <- HeardMonitor
  ObservationEnvelopes <- HeardObservations
  Callbacks = {c1, c2}
  Samples <- Mixed
  Capacity = 2
  BusOwned = TRUE
  MaxSamples = 3
  MaxClock = 2
SYMMETRY Interchangeable
INVARIANTS EverythingAccounted SealedStaysEmpty ReadyMeansClean EarlierEvidenceFirst AssemblerTimeOrdered
PROPERTIES DeliveredIsCurrent
CHECK_DEADLOCK FALSE
