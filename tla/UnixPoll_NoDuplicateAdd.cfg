\* One socket in two entries, against the comment that they are merged.
CONSTANTS
  f1 = f1
  f2 = f2
  f3 = f3
  Fds = {f1, f2, f3}
  NoFd = NoFd
  MaxEvents = 2
  Scale = 10000
  IntMax = 32767
  Conditions <- MCConditions
  Calls <- MCCalls
  Timeouts <- MCTimeouts
SPECIFICATION Spec
INVARIANT NoDuplicateAdd
