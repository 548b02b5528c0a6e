SPECIFICATION Spec
CONSTANTS
  PieceCount = 3  CheckedFiles <- MCCheckedFiles
  JointCount = 2  JointFiles <- MCJointFiles  MaxTime = 2  Off = Off
  OpenableFiles <- MCOpenableFiles  Slots = {1, 2}  MaxClock = 1  MaxStale = 1
  BlockCount <- MCBlockCount  BlocksInPiece = 2  CachedFiles <- MCCachedFiles
  Limits = {2, 3}  WebseedData = {TRUE}
  SharedCount <- MCSharedCount  SharedFiles <- MCSharedFiles  SharedLimits = {2}
  Folders = {"a", "b", "i"}  Volume <- MCVolume  BlocksPerFile <- MCBlocksPerFile  Incomplete = "i"
  BlockSize = 2  PieceSize = 4  Wishes = {TRUE, FALSE}
  Downloads <- MCDownloads  Choices <- MCChoices  Seeds <- MCSeeds
  Priorities <- MCPriorities  Ratios = {0, 1, 2}  IdleLimits = {0, 1}
  Width = 2  Bits = 7  BitsPerPiece = 5  MaxHaves = 9
  Addresses = {0, 1, 2, 3, 4}  Texts <- MCTexts  Responses <- MCResponses
  DefaultName = "blocklist.bin"  Alike = {"blocklist.bin", "my-blocklist.bin"}
INVARIANTS DiskIsTrue ProgressIsTrue
PROPERTY ChecksAreDone
CHECK_DEADLOCK FALSE
