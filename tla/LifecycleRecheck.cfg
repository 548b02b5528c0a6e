SPECIFICATION Spec
CONSTANTS
  t1 = t1
  t2 = t2
  NoTorrent = NoTorrent
  Torrents <- Two
  QueuePosition <- PositionsOfTwo
  NewTorrents <- None
  Disappeared <- None
  Slots = 1
  RpcCommands = {}
  MaxCommands = 3
INVARIANT RecheckedTorrentExists
CHECK_DEADLOCK FALSE
