SPECIFICATION Spec
CONSTANTS
  Torrents = {t1, t2, t3, t4}
  MaxPosition = 4
  IntMax = 100
INVARIANTS
  TypeOK
  queueIsSequenced
  MovesAreExact
PROPERTY AtMostOneMoves
