SPECIFICATION DownloadSpec
CONSTANTS
  BlockCount    = 3
  BlocksInPiece = 2
  BtPeers   = {fast, slow}
  FastPeers = {fast}
  ReliablePeers = {fast}
  Webseeds  = {}
  PeerHas <- AllAreSeeds
  Desired  = {1, 2, 3}
  MaxTasks = 0
PROPERTIES
  DownloadCompletes
