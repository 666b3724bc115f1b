CONSTANTS
  c1 = c1
  c2 = c2
  NoClient = NoClient
  Clients <- MCClients
  MaxMeta = 2
  NumServers = 2
  RangeSize = 2
  Index <- MCIndex
  Attrs <- MCAttrs
  FsyncClients <- MCClients
  ReadClients <- MCFirst
  Requests <- MCRequests
  InitExt <- MCNoExt
  MayFailKV = TRUE
  SetClients <- MCClients
  AttrGets <- MCGfids
  ExtGets <- MCRequests
  MaxCalls = 4
SPECIFICATION Spec
\* The bound on calls ends every behaviour; the delegator then waits for the next request.
CHECK_DEADLOCK FALSE
INVARIANT TypeOK
INVARIANT StoredAreFlushed
INVARIANT FlushedAreStored
INVARIANT AttrGetSees
INVARIANT GetSeesStore
