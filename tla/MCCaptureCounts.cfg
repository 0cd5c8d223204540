SPECIFICATION Spec
INVARIANTS CountsMatchFiles
CHECK_DEADLOCK FALSE
CONSTANTS
  None = None
  Leader = leader
  Descendants = {}
  OwnCodes <- MCOwnCodes
  Signals = {15}
  Limit <- UnequalLimits
  READ_CHUNK_BYTES = 2
  OldSizes = {1, 3}
  MaxOutput = 3
  AppendModes = {FALSE, TRUE}
