CONSTANTS
  c1 = c1
  c2 = c2
  NoClient = NoClient
  Clients <- MCClients
  MaxMeta = 2
  NumServers = 2
  RangeSize = 2
  Index <- MCIndexLong
  Attrs <- MCAttrs
  FsyncClients <- MCFirst
  ReadClients <- MCNone
  Requests <- MCRequests
  InitExt <- MCNoExt
  MayFailKV = FALSE
  SetClients <- MCNone
  AttrGets <- MCNone
  ExtGets <- MCNone
  MaxCalls = 1
SPECIFICATION Spec
\* The bound on calls ends every behaviour; the delegator then waits for the next request.
CHECK_DEADLOCK FALSE
INVARIANT NoOverflow
