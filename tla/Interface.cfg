SPECIFICATION Spec
CONSTANTS
  r1 = r1  r2 = r2  q1 = q1  q2 = q2  q3 = q3  q4 = q4  q5 = q5  q6 = q6  t1 = t1  t2 = t2
  Rows = {r1, r2}  MayHold <- MCMayHold  Modes = {"single", "multiple"}
  SortedRows = {q1, q2, q3}  MayHoldSorted <- MCMayHoldSorted  Values = {1, 2}
  NestedRows = {r1, r2, q4, q5, q6}  MayHoldNested <- MCMayHoldNested  Orders <- MCOrders
  AllColumns = {"a", "b"}  MinWidth = 2  MaxWidth = 3  Messages <- MCMessages
  Torrents = {t1, t2}  Magnets = {t1, t2}  Saved = {t2}  MaxMissed = 1
  Questions <- MCQuestions  Window = 1  Expiry = 2  MaxRestarts = 1
  Changes <- MCChanges  Arguments <- MCArguments  Urls = {"a", "b"}
  Keys = {3, 4}  Scalars <- MCScalars  Updates <- MCUpdates  Incoming <- MCIncoming
  MaxEdits = 2  MaxMerges = 1  MaxIncoming = 6
INVARIANTS OutlineIsTrue SortIsComplete ColumnsAreKept WhatIsShownIsTrue
CHECK_DEADLOCK FALSE
