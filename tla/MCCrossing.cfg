SPECIFICATION PartsSpec
CONSTANTS
  main = main
  left = left
  right = right
  ctx1 = ctx1
  ctx2 = ctx2
  fd1 = fd1
  fd2 = fd2
  Addresses = {"x", "y"}
  Classes = {"c", "d"}
  Places = {"p", "q"}
  Kinds = {"method", "closure", "immutable"}
  Reuse = FALSE
  MaxFunctions = 3
  MaxCopies = 4
  Inputs <- MCInputs
  NodeSize = 8
  ListSize = 16
  AstZvalSize = 24
  ChildSize = 8
  OpSizes <- MCOpSizes
  ZvalSize = 16
  Word = 256
  Bases = {0, 1600, 6400}
  Programs <- MCPrograms
  None = None
  Threads = {main, left, right}
  Main = main
  Sharers = {main}
  Closes = TRUE
  ShutdownReads = FALSE
  Limit = 2
  MaxTaken = 3
  Contexts = {ctx1, ctx2}
  Descriptors = {fd1, fd2}
  MaxSockets = 2
  NoDescriptor = NoDescriptor
SYMMETRY Symmetry
INVARIANT CopiesSound
INVARIANT AstFits
INVARIANT CopyRight
INVARIANT OperandsRight
INVARIANT OnlyOwnerDestroys
INVARIANT PointersRight
INVARIANT DescriptorsRight
CHECK_DEADLOCK FALSE
