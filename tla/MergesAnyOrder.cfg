SPECIFICATION AllSpec
CONSTANTS
  u1 = u1
  v1 = v1
  v2 = v2
  h1 = h1
  k1 = k1
  m1 = m1
  m2 = m2
  NoBlob = NoBlob
  Users <- MCOneUser
  Owner = u1
  Names = {"main", "dev"}
  MainName = "main"
  Paths = {1}
  Blobs = {v1}
  CommitIds = {1, 2, 3, 4}
  NoCommit = 0
  BranchIds = {"b1", "b2"}
  WipIds = {"w1", "w2"}
  NoId = "none"
  TagNames = {"v1"}
  TagIds = {}
  Handlers = {h1}
  RefHandlers = {k1}
  RefOps = {"CreateBranch", "DeleteBranch"}
  MergeHandlers = {m1}
  MaxNumber = 1
  SetStates = {"seven"}
  Ops <- EmptyCommitOps
  SerialClients = TRUE
CHECK_DEADLOCK FALSE
INVARIANT AllTypeOK
INVARIANT RefsResolve
