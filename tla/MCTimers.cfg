SPECIFICATION Spec
CONSTANTS
  Days = 2
  Minutes = 3
  Hour = 3
  Timers <- MCTimers
  Lists <- MCLists
  MaxTime = 20
  WriteTimes = {0, 6}
  MaxWrites = 2
  MaxBreaks = 1
INVARIANTS
  ListsKept
  FiredWasSet
PROPERTIES
  DueIsFired
CHECK_DEADLOCK FALSE
