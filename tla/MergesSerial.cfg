SPECIFICATION AllSerialSpec
CONSTANTS
  u1 = u1
  v1 = v1
  v2 = v2
  h1 = h1
  k1 = k1
  m1 = m1
  m2 = m2
  NoBlob = NoBlob
  Users <- MCOneUser
  Owner = u1
  Names = {"main", "dev"}
  MainName = "main"
  Paths = {1}
  Blobs = {v1}
  CommitIds = {1, 2, 3, 4}
  NoCommit = 0
  BranchIds = {"b1", "b2"}
  WipIds = {"w1", "w2"}
  NoId = "none"
  TagNames = {"v1"}
  TagIds = {}
  Handlers = {h1}
  RefHandlers = {k1}
  RefOps = {"CreateBranch", "DeleteBranch", "SetHead"}
  MergeHandlers = {m1}
  MaxNumber = 2
  SetStates = {"closed"}
  Ops <- EmptyCommitOps
  SerialClients = TRUE
INVARIANT HeadExists
INVARIANT BranchNamesUnique
INVARIANT WipsHaveBranches
INVARIANT OneOpenRequest
INVARIANT MergedIsInTarget
INVARIANT WipBaseInHistory
PROPERTY BranchAdvances
CHECK_DEADLOCK FALSE
