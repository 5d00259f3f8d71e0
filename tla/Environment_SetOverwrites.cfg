\* One thread, against the comment on the flag of setenv.
CONSTANTS
  t1 = t1
  t2 = t2
  v1 = v1
  v2 = v2
  Threads = {t1}
  Variables = {"HOME", "USER"}
  Values = {v1, v2}
  NULL = NULL
  Garbage = Garbage
SPECIFICATION EnvSpec
INVARIANT SetOverwrites
