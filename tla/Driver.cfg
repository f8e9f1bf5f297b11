\* every fault, every output type, up to two sources
CONSTANTS
  SourceLists <- MCSourceLists
  OutTypes <- MCAllOutTypes
  MayFail <- MCAllFaults
  Units = 2
  PipeCap = 1
SPECIFICATION FairSpec
INVARIANTS
  SuccessSound
  LinkInputsComplete
  NoTruncatedOutput
  CleanBetweenSources
PROPERTY EveryoneLeaves
CHECK_DEADLOCK FALSE
