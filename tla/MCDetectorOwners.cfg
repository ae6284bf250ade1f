SPECIFICATION MCSpec
CONSTANTS
  None = None
  MaxSeqGap = 1
  MaxInterSampleGap = 1
  MaxTimestampSkew = 0
  WindowLen = 2
  MinSamples = 1
  MinChannels = 2
  MaxTracks = 1
  Slack <- MCSlack
  Threshold <- MCThreshold
  Elevated <- MCElevated
  JamNumerator = 1
  JamDenominator = 1
  Tracks = {"t1", "t2"}
  Modalities = {"V", "T"}
  Dofs = {1, 2}
  Levels = {0, 3}
  Release = {"V", "T"}
  MaxPosition = 2
  Roster <- MCRoster
  First = 0
  Entities <- MCEntities
  Innovations <- MCInnovations
  PlannedSteps = 3
  Times = {0, 1, 2, 3, 4}
  Grain = 2
  Visual = "V"
  VisualDof = 1
  Requested = {"V", "T"}
  MaxRetainedFrames = 2
  MaxInputObservations = 5
  PidObservations <- MCObservations
  Contexts = {"c1", "c2"}
  Suite = {"V", "T", "R", "L"}
  ChannelSets <- MCChannelSets
  Families <- MCFamilies
  Position = 2
INVARIANTS FusionHidesNothing RowsAreLongestRun WindowsMatchHistory RunsUnbroken
PROPERTIES AnomalyHeld
CHECK_DEADLOCK FALSE
