SPECIFICATION Spec
CONSTANTS
  Ids = {1, 2, 3}
  Fields <- Contents
  Uuids = {"r1"}
  DayLength = 2
  Offset <- OneBehind
  Queries <- SomeQueries
  Writes = {"create", "update", "delete"}
  None = None
CHECK_DEADLOCK FALSE
INVARIANTS TypeOK FiltersNarrow DaysAreWhole PageFitsCount MissedForAReason ShownTwiceForAReason
