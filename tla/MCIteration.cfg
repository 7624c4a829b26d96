SPECIFICATION Spec
CONSTANTS
  Keys = {k, l, m}
  MinSize = 2
  MaxInserts = 4
  Habits <- MCHabits
SYMMETRY KeySymmetry
INVARIANT LoopMeetsAll
INVARIANT PairMatches
PROPERTY ImplementsInsertionOrder
