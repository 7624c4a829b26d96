SPECIFICATION Spec
CONSTANTS
  A = A
  B = B
  a1 = a1
  a2 = a2
  b1 = b1
  k1 = k1
  k2 = k2
  Keys = {k1, k2}
  Threads = {A, B}
  Conns = {a1, a2, b1}
  ThreadOf <- MCThreadOf
  Strings = {3, 4}
  Programs <- MCOverwrite
  MaxMod = 2
  Nil = Nil
SYMMETRY ConnSymmetry
INVARIANT EveryReadIsCurrent
