SPECIFICATION FairSpec
CONSTANTS
  None = None
  MaxActiveTracks = 2
  MaxAttempts = 2
  LastInstant = 100
  MaxEventSeq = 100
  MaxOutcomes = 2
  Limits <- ShortLimits
  Times = {0, 1}
  MonitorEnvelopes <- HeardMonitor
  ObservationEnvelopes <- HeardObservations
  Callbacks = {c1, c2}
  Samples <- Beats
  Capacity = 1
  BusOwned = FALSE
  MaxSamples = 2
  MaxClock = 1
PROPERTIES OpeningEnds FaultReachesCaller
CHECK_DEADLOCK FALSE
