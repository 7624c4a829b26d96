SPECIFICATION Spec
CONSTANTS
  Threads = {t1, t2}
  Addresses = {a1, a2, a3}
  Slots = {s1}
  MaxObjects = 3
  Freedoms <- MCFreedoms
SYMMETRY Symmetry
INVARIANT ConnectionsExact
INVARIANT ReadGetsStored
INVARIANT StoredIsReadable
