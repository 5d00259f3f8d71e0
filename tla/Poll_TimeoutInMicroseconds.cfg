\* A Poll of one millisecond, against the comment on the conversion.
CONSTANTS
  f1 = f1
  f2 = f2
  f3 = f3
  Fds = {f1, f2, f3}
  NoFd = NoFd
  MaxEvents = 3
  Scale = 10000
  IntMax = 32767
  Conditions <- MCConditions
  Calls <- MCCalls
  Timeouts = {1}
SPECIFICATION Spec
INVARIANT TimeoutInMicroseconds
