SPECIFICATION Spec
CONSTANTS
  c1 = c1
  c2 = c2
  t1 = t1
  t2 = t2
  Client = {c1, c2}
  Io = {t1, t2}
  Loads <- MCLoads
INVARIANTS
  ServerInvariant
  NeverDeaf
  HarmOnlyIfRaced
SYMMETRY MCSymmetry
CHECK_DEADLOCK FALSE
