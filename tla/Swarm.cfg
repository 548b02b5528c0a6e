SPECIFICATION Spec
CONSTANTS
  Clients = {"h", "l"}  Askers = {"h"}  TorrentPieces = {1, 2}  REQQ = 2  MaxInFlight = 2
  Ends = {"h", "l"}  Known <- KnownAtTheEnds  MaxPex = 1  MaxMessages = 2
  MetadataPeers = {"h", "l"}  Honest = {"h"}  Liars = {"l"}  Size = 2  SizeHints = {0, 2, 3}
  METADATA_REQQ = 1  MaxUnanswered = 2
  Addresses = {"addr1", "addr2"}  Blocklists <- NoneOrOneBlocked  maxConnectedPeers = 1  peerLimit = 2
  MAX_CONNECTIONS_PER_PULSE = 1  MAX_BAD_PIECES_PER_PEER = 2  maxAtomCount = 1
  Owners = {"addr1", "addr2"}  pieceCount = 2  blockCountInPiece = 2  blockCountInLast = 1  Priorities = {0, 1}  Wanted = {1, 3}
  Peers = {"x", "y", "z"}  uploadSlotsPerTorrent = 1  OPTIMISTIC_UNCHOKE_MULTIPLIER = 1
  MIN_INTERESTING_PEERS = 1  maxWanted = 2  maxIncrease = 1
  MaxConnections = 2
INVARIANTS EndsAgree NoRequestIsForgotten ToldIsHeard MetadataAreAskedFor
  ConnectionsAreOwned PieceListIsExact SlotsAreKept HandshakesAgree
PROPERTY BlockedAreLeftAlone
CHECK_DEADLOCK FALSE
