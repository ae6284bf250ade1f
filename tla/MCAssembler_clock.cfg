\* Every call at any instant up to 5 (or in the past), over a frame and two
\* heartbeats: each deadline passes before, with and after the others.
SPECIFICATION EpochFairSpec
CONSTANTS
  None = None
  MaxActiveTracks = 2
  MaxAttempts = 2
  MaxOutcomes = 2
  MaxEventSeq = 100
  LastInstant = 10
  Times = {0, 1, 2, 3, 4, 5}
  MonitorEnvelopes <- ClockMonitor
  ObservationEnvelopes <- ClockObservations
  Limits <- ClockLimits
INVARIANTS DeadlinesKept NextDeadlineTight
PROPERTIES FramesResolve
