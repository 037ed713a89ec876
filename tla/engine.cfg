SPECIFICATION EngineSpec
CONSTANTS
  Units = 4
  MaxAverage = 25
  MaxPosition = 5
  Ids = {a, b, c}
  JoinTimes <- ThreeTimes
  Priorities <- FirstPriorities
  Times <- EarlyQuarters
  NoTime = NoTime
  LastRow = 2
  Chosen = 1
  MaxClicks = 2
  MaxOthers = 2
INVARIANTS RefusedOnlyMidService SortedAndNumbered RanksOfTheService
  DeskSettles FiguresSettle
PROPERTY DeskRefusedForCause
SYMMETRY Symmetry
\* A page whose query failed stands still: nothing on it loads again.
CHECK_DEADLOCK FALSE
