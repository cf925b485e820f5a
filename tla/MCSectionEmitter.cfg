CONSTANTS
  PtrSize = 2
  LineInfo <- MCLineInfo
  Images <- MCImages
SPECIFICATION FairSpec
INVARIANTS
  TypeOK
  AssemblerAccepts
  LayoutFaithful
  CodeRangesDisjoint
  LabelsOfReachableFunctions
  PrologueReplayed
  LinesPreserved
PROPERTIES
  KeepsPromise
  Termination
CHECK_DEADLOCK FALSE
