SPECIFICATION Spec
CONSTANTS
  Flags = {"dht", "pex"}  Posted = {"dht"}  Ports = {1, 2}  Loaded <- InitialSettings
  MaxQueue = 3  MaxMissed = 1
  WeekDays = 2  MinutesPerDay = 3  Speeds = {0, 2}
  Peers = {"p", "q"}  TorrentOf <- TorrentOfPeer  PriorityOf <- PriorityOfPeer
  Increment = 1  Limits = {1}  Paces = {0, 100}  MaxOut = 2
  PublicPorts = {11}  MaxStray = 1  Routers <- OneOfEach
  Requests = {"a", "b", "c"}  Silent = {"c"}  Ttl = 2  AddrTtl = 4  CloseIn = 1
  Torrents = {"a", "b", "c"}  Http = {"a", "b"}
  List <- FourTorrents  Private = {"c"}  Interval = 3  Cap = 2
  First = 2  Again = 3  Retry = 1  Nodes <- SavedNodes  Names = 2  MaxToggles = 2
INVARIANTS SettingsAreHonoured LimitsAreKept PeersFindTheirWay NothingIsLostAtTheEnd
PROPERTY EverythingEnds
CHECK_DEADLOCK FALSE
