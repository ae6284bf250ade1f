SPECIFICATION Spec
CONSTANTS
  fusion = fusion  mono = mono  sim = sim
  c1 = c1  c2 = c2  visual = visual  radar = radar  thermal = thermal
  Producers = {p1}  Streams = {fusion}  Epochs = {e1}  Clocks = {mono}
  Tracks = {t1, t2}
  Modalities = {visual, radar, thermal}
  Contexts = {c1, c2}
  LegacyStream = fusion  LegacyClock = mono
  AcceptedSuites <- Suites
  MinChannels = 2  MaxTracks = 2  HistoryFrames = 2  MaxGap = 1
  MaxSequence = 3  MaxGeneration = 1  MaxTimestamp = 3  MaxReceiptIndex = 4
  MaxStreams = 1  MaxEpochs = 1  MaxRecent = 4  MaxReceipts = 5
  Frames <- WindowFrames
  Placed <- WindowPlaced
  Positions <- WindowPositions
  NoLane = NoLane  NoContext = NoContext  NoFrame = NoFrame
INVARIANTS WindowsContinuous ReportsMatchWindows LegacyAsksRightGeneration
