SPECIFICATION FairSpec
INVARIANTS NoSpendBeforeValidation PayloadIsBacked
           BrokenBarrierSpendsNothing SignedRecordsVerify EvidenceIsTrue
PROPERTIES EndedMeansQuiet FinalizeEnds
CHECK_DEADLOCK FALSE
CONSTANTS
  None = None
  f1 = f1
  f2 = f2
  Finalizers = {f1, f2}
  Concurrency = 2
  Modes <- AllModes
  Answers <- MCAnswers
  Times = {0, 1}
  MaxClockSteps = 1
  SteppingCases = {"replay"}
