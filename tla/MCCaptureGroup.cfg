SPECIFICATION FairSpec
INVARIANTS ExitMeansComplete LeaderNeverLeft
PROPERTIES CaptureEnds
CHECK_DEADLOCK FALSE
CONSTANTS
  None = None
  Leader = leader
  Descendants = {d1}
  OwnCodes = {3}
  Signals = {15}
  Limit <- TightLimits
  READ_CHUNK_BYTES = 1
  OldSizes = {}
  MaxOutput = 1
  AppendModes = {FALSE}
