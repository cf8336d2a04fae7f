SPECIFICATION ServerSpec
CONSTANTS
  u1 = u1
  v1 = v1
  h1 = h1
  k1 = k1
  k2 = k2
  NoBlob = NoBlob
  Users <- MCOneUser
  Owner = u1
  Names = {"main", "dev"}
  MainName = "main"
  Paths = {1}
  Blobs = {v1}
  CommitIds = {1}
  NoCommit = 0
  BranchIds = {"b1", "b2"}
  WipIds = {"w1"}
  NoId = "none"
  TagNames = {"v1"}
  TagIds = {"t1", "t2"}
  Handlers = {h1}
  RefHandlers = {k1, k2}
  RefOps <- AllRefOps
  Ops <- NoRevertOps
  SerialClients = TRUE
INVARIANT ServerTypeOK
INVARIANT RefsResolve
INVARIANT TreesResolve
PROPERTY TagsDeletedKnowingly
SYMMETRY RefSymmetry
CHECK_DEADLOCK FALSE
