SPECIFICATION FairSpec
INVARIANTS CompleteMeansNothingLeft RecoveryIsKept OnlyOwnDeleted
           JobOnReviewedConfiguration SuccessIsComplete
PROPERTY ScriptEnds
CHECK_DEADLOCK FALSE
CONSTANTS
  None = None
  SeenLag = 2
  UnseenLag = 7
