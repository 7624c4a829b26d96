SPECIFICATION PoolSpec
CONSTANTS
  Sizes = {1, 2, 3}
  MaxSubmit = 4
  Reuse = FALSE
  StartFails = TRUE
INVARIANT WorkersWithinSize
INVARIANT CollectZeroMeansIdle
PROPERTY PoolCallsReturn
