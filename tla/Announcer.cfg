SPECIFICATION Spec
CONSTANTS
  Tiers = {t1}
  TrackerCount = 2
  MaxTasks = 1
  MaxScrapes = 1
  MaxCommands = 4
INVARIANTS
  TiersAreSound
  EventsAreTold
PROPERTY KeepsAnnouncing
CHECK_DEADLOCK FALSE
