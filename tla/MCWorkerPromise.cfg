SPECIFICATION FairSpec
CONSTANTS
  t1 = t1
  t2 = t2
  Tasks = {t1, t2}
  MaxStacked = 3
  BailoutPoints = {}
INVARIANTS
  JoinRunsAll
  NoActiveTaskOnFree
PROPERTIES
  ImplementsTaskQueue
  StackedIsTaken
  CallsReturn
