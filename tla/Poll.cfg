\* Safety and liveness of MultiplexIO::Poll.  MaxEvents = 3 accepts two
\* sockets and rejects three; IntMax = 32767 makes a timeout of 4 wrap.
CONSTANTS
  f1 = f1
  f2 = f2
  f3 = f3
  Fds = {f1, f2, f3}
  NoFd = NoFd
  MaxEvents = 3
  Scale = 10000
  IntMax = 32767
  Conditions <- MCConditions
  Calls <- MCCalls
  Timeouts <- MCTimeouts
SPECIFICATION Spec
INVARIANTS
  TypeOK
  NoDuplicateAdd
  RegistrationsReturned
  AnswersExact
  NoLostInterrupt
PROPERTIES
  InterruptReturns
  TimeoutReturns
  ReadyReturns
