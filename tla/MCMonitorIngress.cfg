SPECIFICATION MCSpec
CONSTANTS
  None = None
  EventSeqs = {1, 2, 3, 4}
  Defects = {"MalformedJson"}
  ReorderCapacity = 2
  MaxReorderDistance = 3
  HandoffCapacity = 3
  ReorderDeadline = 2
  MaxPayloads = 4
  LastPayloadAt = 2
  MaxClock = 4
  Subscribers = {"s1", "s2", "s3"}
  Closers = {"c1", "c2"}
INVARIANTS NoneStranded GapMatchesEvidence ReceiptsAccounted
PROPERTIES EndsForItsReason ImplementsFailStop RecvReturns
CHECK_DEADLOCK FALSE
