CONSTANTS
  c1 = c1
  c2 = c2
  NoClient = NoClient
  Clients <- MCClients
  MaxMeta = 2
  NumServers = 2
  RangeSize = 2
  Index <- MCIndex
  Attrs <- MCAttrs
  FsyncClients <- MCNone
  ReadClients <- MCFirst
  Requests <- MCRequests
  InitExt <- MCInitExt
  MayFailKV = TRUE
  SetClients <- MCNone
  AttrGets <- MCNone
  ExtGets <- MCNone
  MaxCalls = 4
SPECIFICATION Spec
\* The bound on calls ends every behaviour; the delegator then waits for the next request.
CHECK_DEADLOCK FALSE
 
 
INVARIANT MsgMetaCount
