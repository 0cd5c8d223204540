SPECIFICATION FairSpec
INVARIANTS LeaderNeverLeft GraceBeforeKill
PROPERTIES SuperviseEnds SignalForwarded
CHECK_DEADLOCK FALSE
CONSTANTS
  None = None
  Raised = Raised
  Leader = leader
  Descendants = {d1}
  OwnCodes = {0, 3}
  Signals = {1, 2, 15}
