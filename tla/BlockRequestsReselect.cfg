SPECIFICATION TimedSpec
CONSTANTS
  BlockCount    = 2
  BlocksInPiece = 1
  BtPeers   = {fast}
  FastPeers = {fast}
  ReliablePeers = {fast}
  Webseeds  = {}
  PeerHas <- AllAreSeeds
  Desired  = {1, 2, 3}
  MaxTasks = 0
PROPERTIES
  SeedHasDesiredPieces
