\* Two heartbeats that arrive in the wrong order, within the reorder deadline.
SPECIFICATION EpochSpec
CONSTANTS
  None = None
  MaxActiveTracks = 2
  MaxAttempts = 2
  MaxOutcomes = 2
  MaxEventSeq = 100
  LastInstant = 10
  Times = {0, 1, 2, 3, 4, 5}
  MonitorEnvelopes <- ClockMonitor
  ObservationEnvelopes <- ClockObservations
  Limits <- ClockLimits
INVARIANTS SilenceMeansSilence
