SPECIFICATION Spec
CONSTANTS
  BlockCount    = 3
  BlocksInPiece = 2
  BtPeers   = {fast, slow}
  FastPeers = {fast}
  ReliablePeers = {fast}
  Webseeds  = {web}
  PeerHas <- AllAreSeeds
  Desired  = {1, 3}
  MaxTasks = 1
INVARIANTS
  TypeOK
  PendingExact
  NoRequestOfDeadPeer
  RequestsAreExact
PROPERTY WantedPiecesStayListed
