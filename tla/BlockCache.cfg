SPECIFICATION Spec
CONSTANTS
  BlockCount <- ShortAndLong
  Files <- ShortAndLongFiles
  BlocksInPiece = 2
  Startable = {2}
  Limits = {1, 2}
  WebseedData = {TRUE}
  DiskMayFail = TRUE
  MayWriteShort = FALSE
  MayClose = TRUE
INVARIANTS
  FinishedDataIsSafe
PROPERTIES
  IsStore
  LimitIsKept
CHECK_DEADLOCK FALSE
