SPECIFICATION Spec
CONSTANTS
  fusion = fusion  mono = mono  sim = sim
  c1 = c1  c2 = c2  visual = visual  radar = radar  thermal = thermal
  Producers = {p1}  Streams = {fusion}  Epochs = {e1, e2}  Clocks = {mono, sim}
  Tracks = {t1}
  Modalities = {visual, radar, thermal}
  Contexts = {c1, c2}
  LegacyStream = fusion  LegacyClock = mono
  AcceptedSuites <- Suites
  MinChannels = 2  MaxTracks = 1  HistoryFrames = 2  MaxGap = 1
  MaxSequence = 2  MaxGeneration = 2  MaxTimestamp = 2  MaxReceiptIndex = 3
  MaxStreams = 1  MaxEpochs = 2  MaxRecent = 2  MaxReceipts = 2
  Frames <- ReplayFrames
  Placed <- ReplayPlaced
  Positions <- ReplayPositions
  NoLane = NoLane  NoContext = NoContext  NoFrame = NoFrame
INVARIANTS ReceiptChain FailsClosed ReplaysNamedRightly
PROPERTIES ImplementsStreamAdmission
