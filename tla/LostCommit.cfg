SPECIFICATION Spec
CONSTANTS
  u1 = u1
  u2 = u2
  v1 = v1
  h1 = h1
  h2 = h2
  NoBlob = NoBlob
  Users <- MCUsers
  Owner = u1
  Names = {"main"}
  MainName = "main"
  Paths = {1}
  Blobs = {v1}
  CommitIds = {1, 2}
  NoCommit = 0
  BranchIds = {"b1"}
  WipIds = {"w1", "w2"}
  NoId = "none"
  Handlers <- MCTwoHandlers
  Ops <- EditOps
  SerialClients = TRUE
PROPERTY BranchAdvances
