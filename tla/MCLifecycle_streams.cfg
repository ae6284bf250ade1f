SPECIFICATION Spec
CONSTANTS
  fusion = fusion  mono = mono  sim = sim
  c1 = c1  c2 = c2  visual = visual  radar = radar  thermal = thermal
  Producers = {p1, p2}  Streams = {fusion, aux}  Epochs = {e1, e2, e3}  Clocks = {mono}
  Tracks = {t1, t2}
  Modalities = {visual, radar, thermal}
  Contexts = {c1}
  LegacyStream = fusion  LegacyClock = mono
  AcceptedSuites <- Suites
  MinChannels = 2  MaxTracks = 1  HistoryFrames = 2  MaxGap = 1
  MaxSequence = 1  MaxGeneration = 1  MaxTimestamp = 1  MaxReceiptIndex = 3
  MaxStreams = 2  MaxEpochs = 2  MaxRecent = 1  MaxReceipts = 4
  Frames <- StreamFrames
  Placed <- StreamPlaced
  Positions <- StreamPositions
  NoLane = NoLane  NoContext = NoContext  NoFrame = NoFrame
SYMMETRY Interchangeable
INVARIANTS LogReplaysLanes
PROPERTIES NeverTwice
