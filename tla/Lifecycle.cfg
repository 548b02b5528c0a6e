SPECIFICATION Spec
CONSTANTS
  t1 = t1
  t2 = t2
  NoTorrent = NoTorrent
  Torrents <- Two
  QueuePosition <- PositionsOfTwo
  NewTorrents <- First
  Disappeared <- None
  Slots = 1
  RpcCommands = {"start", "stop", "verify"}
  MaxCommands = 3
INVARIANTS
  ThreadsAgree
PROPERTIES
  ThreadsGetOn
  QueueIsServed
CHECK_DEADLOCK FALSE
