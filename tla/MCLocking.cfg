SPECIFICATION Spec
CONSTANTS
  Threads = {"main", "a", "b"}
  Main = "main"
  Objects = {"o", "p"}
  Programs <- MCPrograms
  MaxCalls = 1
CHECK_DEADLOCK FALSE
INVARIANT NoDeadlock
INVARIANT CreatorStandsStill
PROPERTY OperationsEnd
