SPECIFICATION FairSpec
CONSTANTS
  None = None
  Callbacks = {c1}
  Operators = {o1, o2}
  Receiver = r
  Streams = {k}
  MaxSequence = 2
  MaxStreams = 1
  MaxAdvance = 1
  Capacity = 1
  MaxPayloads = 2
  MaxRequests = 3
INVARIANTS BoundaryExclusive HandoffAccounted MeasuredIsReal
PROPERTIES OncePerEpoch BoundaryComesToRest
CHECK_DEADLOCK FALSE
