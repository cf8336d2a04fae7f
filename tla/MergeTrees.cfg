SPECIFICATION MergeTreesSpec
CONSTANTS
  u1 = u1
  v1 = v1
  v2 = v2
  h1 = h1
  k1 = k1
  m1 = m1
  m2 = m2
  NoBlob = NoBlob
  Users <- MCOneUser
  Owner = u1
  Names = {"main", "dev", "old"}
  MainName = "main"
  Paths = {p1, p2}
  Blobs = {v1}
  CommitIds = {1, 2, 3, 4, 5, 6, 7, 8}
  NoCommit = 0
  BranchIds = {"b1", "b2", "b3"}
  WipIds = {"w1", "w2"}
  NoId = "none"
  TagNames = {"v1"}
  TagIds = {}
  Handlers = {h1}
  RefHandlers = {k1}
  RefOps = {}
  MergeHandlers = {m1}
  MaxNumber = 2
  SetStates = {}
  Ops = {}
  SerialClients = TRUE
CHECK_DEADLOCK FALSE
INVARIANT TreesResolve
INVARIANT MergeUndoesNothing
SYMMETRY PathSymmetry
