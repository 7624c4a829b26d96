SPECIFICATION PartsSpec
CONSTANTS
  NULL = NULL
  Items = {i1, i2, i3, i4}
  Habits = {"remove"}
  Workers = {"u", "v", "w"}
  MaxRuns = 4
  Consumers = {"c", "d"}
  Base = 3
  Timeouts <- MCTimeouts
  MaxTime = 4
  Depths = {1}
INVARIANT ListsSound
INVARIANT FlagsTell
INVARIANT WaitReturnsRight
PROPERTY ImplementsTaskLists
PROPERTY WaitsEnd
