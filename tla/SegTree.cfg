CONSTANTS
  t1 = t1
  t2 = t2
  Threads <- MCThreads
  NoThread = NoThread
  W = 3
  Offsets <- MCOffsetsLow
  Ptrs <- MCPtrs
  MayFailAlloc = FALSE
  MaxCalls = 3
SPECIFICATION Spec
INVARIANTS
  IInv
  MaxIsHighestEnd
  FindIsLowestOverlap
  AddKeepsOutside
PROPERTIES
  AddTerminates
  SegMapSpec
