SPECIFICATION Spec
CONSTANTS
  t1 = t1
  t2 = t2
  Tasks = {t1, t2}
  MaxStacked = 4
  BailoutPoints = {"this", "task"}
SYMMETRY TaskSymmetry
INVARIANTS
  CacheMatchesGc
  CollectableReadable
  NoLostWakeup
  SyncWhileThreadQuiet
  Invariants
