SPECIFICATION UploadSpec
CONSTANTS
  MaxChunks = 4
  Concurrency = 1
  MaxFailures = 3
INVARIANT UploadTypeOK
INVARIANT ListedIsStaged
INVARIANT BuffersBalance
INVARIANT AcceptedIsStored
INVARIANT ObjectIsPart
PROPERTY CopyReturns
CHECK_DEADLOCK FALSE
