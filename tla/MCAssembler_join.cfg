\* Two frames on both routes in every order, with contradicting and repeated
\* envelopes, small tables and a small byte budget; from instant 2 on the
\* deadlines no longer fit the clock.
SPECIFICATION EpochSpec
CONSTANTS
  None = None
  MaxActiveTracks = 2
  MaxAttempts = 2
  MaxOutcomes = 2
  MaxEventSeq = 8
  LastInstant = 6
  Times = {0, 1, 2}
  MonitorEnvelopes <- JoinMonitor
  ObservationEnvelopes <- JoinObservations
  Limits <- JoinLimits
INVARIANTS NothingWithheld BuffersAccounted
PROPERTIES ImplementsRouteJoin
