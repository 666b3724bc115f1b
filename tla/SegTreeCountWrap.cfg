CONSTANTS
  t1 = t1
  t2 = t2
  Threads <- MCThreads
  NoThread = NoThread
  W = 3
  Ptrs <- MCPtrs
  MaxCalls = 3
  Offsets <- MCOffsetsAll
  MayFailAlloc = FALSE
SPECIFICATION Spec
INVARIANT
  CountConsistent
