SPECIFICATION Spec
CONSTANTS
  Classes = {"a", "b", "c"}
  Programs <- MCPrograms
  MaxCopies = 3
  Room = 2
INVARIANT PointersOwn
INVARIANT InstancesRight
INVARIANT StaticsRight
PROPERTY PreparationEnds
