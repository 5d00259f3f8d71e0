\* Two threads, HOME and one other variable.
CONSTANTS
  t1 = t1
  t2 = t2
  v1 = v1
  v2 = v2
  Threads = {t1, t2}
  Variables = {"HOME", "USER"}
  Values = {v1, v2}
  NULL = NULL
  Garbage = Garbage
SYMMETRY MCSymmetry
SPECIFICATION EnvSpec
INVARIANTS
  EnvTypeOK
  PointerValidUntilErased
  VariablesLostOnlyByRace
PROPERTY HomeStays
