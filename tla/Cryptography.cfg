CONSTANTS
  t1 = t1
  t2 = t2
  Threads = {t1, t2}
  NULL = NULL
  WordSize = 2
  BlockWords = 2
  Lengths = {0, 4, 9}
  MaxOpens = 3
  MaxFills = 3
  Folded <- MCFolded
SPECIFICATION Spec
SYMMETRY ThreadSymmetry
INVARIANTS
  TypeOK
  BytesGivenOnce
  SeededAfterOwnOpen
