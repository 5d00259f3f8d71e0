\* Every safety property of the resolver functions.
CONSTANTS
  t1 = t1
  t2 = t2
  h1 = h1
  h2 = h2
  a1 = a1
  a2 = a2
  p1 = p1
  p2 = p2
  Threads = {t1, t2}
  Hosts = {h1, h2}
  Addrs = {a1, a2}
  Resolves <- MCResolves
  Pools = {p1, p2}
  NoPool = NoPool
  NULL = NULL
SYMMETRY MCSymmetry
SPECIFICATION Spec
INVARIANTS
  TypeOK
  ByNameAnswerStays
  ByAddrExactIfAlone
  PoolsAbandonedOnlyWhen
