\* Safety and liveness of poll(): a table of two entries and three sockets.
CONSTANTS
  f1 = f1
  f2 = f2
  f3 = f3
  Fds = {f1, f2, f3}
  NoFd = NoFd
  MaxEvents = 2
  Scale = 10000
  IntMax = 32767
  Conditions <- MCConditions
  Calls <- MCCalls
  Timeouts <- MCTimeouts
SPECIFICATION Spec
INVARIANTS
  TypeOK
  NothingDroppedSilently
  AnswersExact
PROPERTIES
  LimitedPollEnds
  ReadyPollEnds
