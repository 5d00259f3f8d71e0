---------------------------- MODULE HostResolver ----------------------------
(***************************************************************************)
(* gethostbyname and gethostbyaddr of Sockets.cpp, called by several       *)
(* threads.  Every call creates a libnet memory pool and a resolver in it, *)
(* asks the resolver, and destroys both; the answer is left in static      *)
(* variables, which gethostbyname has once per thread (__thread) and       *)
(* gethostbyaddr once for all threads.  One step is one libnet call.       *)
(*                                                                         *)
(* The network's directory is the function Resolves from names to          *)
(* addresses.  What a caller may read later through the returned pointers  *)
(* are the current values of the static variables.                         *)
(***************************************************************************)
EXTENDS Integers, FiniteSets

CONSTANTS
  Threads,
  Hosts,        \* host names
  Addrs,        \* IPv4 addresses
  Resolves,     \* the address of each host
  Pools,        \* the memory pools libnet can hand out
  NoPool,       \* a negative pool id
  NULL

ASSUME ResolverAssumption ==
  /\ Resolves \in [Hosts -> Addrs]
  /\ \A h, k \in Hosts : Resolves[h] = Resolves[k] => h = k
  /\ NoPool \notin Pools
  /\ NULL \notin Hosts /\ NULL \notin Addrs

VARIABLES
  pools,        \* the pools that exist
  resolvers,    \* the pools a resolver lives in
  pc,           \* per thread: "idle", or the libnet call it is about to make
  fn,           \* per thread: "byname" or "byaddr", the function it is (was last) in
  poolId,       \* per thread: local variable
  ret,          \* per thread: whether the query, then ResolverDestroy, succeeded
  pointer,      \* per thread: whether the last call returned &result (not NULL)
  tlsName, tlsAddr, \* the static __thread variables name and addr of gethostbyname
  name, addr,   \* the static variables of gethostbyaddr
  question,     \* history, per thread: what its last call asked
  alone,        \* history, per thread: no other gethostbyaddr since its call entered
  held,         \* history, per thread: the host its last gethostbyname gave a result for, or NULL
  failed,       \* history, per thread: the libnet calls that failed so far in its call
  abandoned     \* history: the call that returned without destroying a pool

statics == <<tlsName, tlsAddr, name, addr>>
locals  == <<fn, poolId, ret, pointer>>
history == <<question, alone, held, failed, abandoned>>
vars == <<pools, resolvers, pc, locals, statics, history>>

\* sceNetResolverCreate, sceNetResolverStartNtoa or -Aton, sceNetResolverDestroy
\* and sceNetPoolDestroy.
LibnetCalls == {"create", "query", "destroy", "pool"}
Causes == [fn : {"byname", "byaddr"}, failed : SUBSET LibnetCalls]
NoCause == [fn |-> "byname", failed |-> {}]

\* The types of the resolver's state: in particular no resolver is used that
\* was created without a pool.
TypeOK ==
  /\ pools \subseteq Pools /\ resolvers \subseteq Pools
  /\ pc \in [Threads -> {"idle", "ResolverCreate", "Query", "ResolverDestroy", "PoolDestroy"}]
  /\ fn \in [Threads -> {"byname", "byaddr"}]
  /\ poolId \in [Threads -> Pools \cup {NoPool}]
  /\ ret \in [Threads -> BOOLEAN] /\ pointer \in [Threads -> BOOLEAN]
  /\ tlsName \in [Threads -> Hosts \cup {NULL}] /\ tlsAddr \in [Threads -> Addrs \cup {NULL}]
  /\ name \in Hosts \cup Addrs \cup {NULL} /\ addr \in Addrs \cup {NULL}
  /\ question \in [Threads -> Hosts \cup Addrs \cup {NULL}]
  /\ alone \in [Threads -> BOOLEAN]
  /\ held \in [Threads -> Hosts \cup {NULL}]
  /\ failed \in [Threads -> SUBSET LibnetCalls]
  /\ abandoned \in [Pools -> Causes]

Init ==
  /\ pools = {} /\ resolvers = {}
  /\ pc = [t \in Threads |-> "idle"] /\ fn = [t \in Threads |-> "byname"]
  /\ poolId = [t \in Threads |-> NoPool]
  /\ ret = [t \in Threads |-> TRUE] /\ pointer = [t \in Threads |-> FALSE]
  /\ tlsName = [t \in Threads |-> NULL] /\ tlsAddr = [t \in Threads |-> NULL]
  /\ name = NULL /\ addr = NULL
  /\ question = [t \in Threads |-> NULL] /\ alone = [t \in Threads |-> TRUE]
  /\ held = [t \in Threads |-> NULL] /\ failed = [t \in Threads |-> {}]
  /\ abandoned = [p \in Pools |-> NoCause]

-----------------------------------------------------------------------------

\* Mutant: without __thread there is one set of variables, some thread's.
OwnStaticsShared(t) == CHOOSE u \in Threads : TRUE
\* Whose static __thread variables thread t uses.
OwnStatics(t) == t

\* sceNetPoolCreate: a new pool, or a negative id, which is not looked at.
PoolCreate(t) ==
  /\ \/ \E p \in Pools \ pools :
          /\ poolId' = [poolId EXCEPT ![t] = p] /\ pools' = pools \cup {p}
          /\ abandoned' = [abandoned EXCEPT ![p] = NoCause]
     \/ poolId' = [poolId EXCEPT ![t] = NoPool] /\ UNCHANGED <<pools, abandoned>>
  /\ pc' = [pc EXCEPT ![t] = "ResolverCreate"]
  /\ ret' = [ret EXCEPT ![t] = TRUE] /\ pointer' = [pointer EXCEPT ![t] = FALSE]
  /\ UNCHANGED <<resolvers, failed>>

GetHostByName(t, h) ==
  /\ pc[t] = "idle"
  /\ fn' = [fn EXCEPT ![t] = "byname"]
  /\ tlsName' = [tlsName EXCEPT ![OwnStatics(t)] = h]
  /\ question' = [question EXCEPT ![t] = h] /\ held' = [held EXCEPT ![t] = NULL]
  /\ PoolCreate(t)
  /\ UNCHANGED <<tlsAddr, name, addr, alone>>

\* Mutant: addr is initialised with the address, which a static is only once.
CopiedOnce(a) == IF addr = NULL THEN a ELSE addr
Copied(a) == a

\* The address is copied before anything else: from now on every answer of an
\* earlier gethostbyaddr, of any thread, shows it.
GetHostByAddr(t, a) ==
  /\ pc[t] = "idle"
  /\ fn' = [fn EXCEPT ![t] = "byaddr"]
  /\ addr' = Copied(a)
  /\ question' = [question EXCEPT ![t] = a]
  /\ alone' = [u \in Threads |->
                 IF u = t THEN \A v \in Threads \ {t} : pc[v] = "idle" \/ fn[v] = "byname"
                 ELSE FALSE]
  /\ PoolCreate(t)
  /\ UNCHANGED <<tlsName, tlsAddr, name, held>>

\* type # AF_INET: NULL before anything is touched.
RejectType(t) ==
  /\ pc[t] = "idle"
  /\ fn' = [fn EXCEPT ![t] = "byaddr"]
  /\ pointer' = [pointer EXCEPT ![t] = FALSE]
  /\ question' = [question EXCEPT ![t] = NULL]
  /\ UNCHANGED <<pools, resolvers, pc, poolId, ret, statics, alone, held, failed, abandoned>>

\* The call returns and forgets its pool; if the pool exists, nobody will
\* destroy it any more.  failing: its last libnet call, if that failed.
Leave(t, pointsToResult, failing, left) ==
  /\ pc' = [pc EXCEPT ![t] = "idle"]
  /\ pointer' = [pointer EXCEPT ![t] = pointsToResult]
  /\ poolId' = [poolId EXCEPT ![t] = NoPool]
  /\ failed' = [failed EXCEPT ![t] = {}]
  /\ abandoned' = IF poolId[t] \in left
                  THEN [abandoned EXCEPT ![poolId[t]] =
                          [fn |-> fn[t], failed |-> failed[t] \cup failing]]
                  ELSE abandoned

\* Mutant: the result of sceNetResolverCreate is not looked at either.
CanGoOnUnchecked(t) == TRUE
\* sceNetResolverCreate fails without a pool.
CanGoOn(t) == poolId[t] # NoPool

ResolverCreate(t) ==
  /\ pc[t] = "ResolverCreate" /\ CanGoOn(t)
  /\ resolvers' = resolvers \cup {poolId[t]}
  /\ pc' = [pc EXCEPT ![t] = "Query"]
  /\ UNCHANGED <<pools, locals, statics, history>>

\* The early return when there is no resolver, in particular no pool.
ResolverCreateFails(t) ==
  /\ pc[t] = "ResolverCreate"
  /\ Leave(t, FALSE, {"create"}, pools)
  /\ UNCHANGED <<pools, resolvers, fn, ret, statics, question, alone, held>>

\* sceNetResolverStartNtoa or sceNetResolverStartAton answers.
QueryAnswered(t) ==
  /\ pc[t] = "Query"
  /\ \/ /\ fn[t] = "byname"
        /\ tlsAddr' = [tlsAddr EXCEPT ![OwnStatics(t)] = Resolves[tlsName[OwnStatics(t)]]]
        /\ UNCHANGED name
     \/ /\ fn[t] = "byaddr"
        /\ \E h \in Hosts : Resolves[h] = addr /\ name' = h
        /\ UNCHANGED tlsAddr
  /\ pc' = [pc EXCEPT ![t] = "ResolverDestroy"]
  /\ UNCHANGED <<pools, resolvers, locals, tlsName, addr, history>>

\* The query fails; gethostbyaddr writes the dotted address as name.
QueryFails(t) ==
  /\ pc[t] = "Query"
  /\ name' = IF fn[t] = "byaddr" THEN addr ELSE name
  /\ ret' = [ret EXCEPT ![t] = FALSE]
  /\ failed' = [failed EXCEPT ![t] = @ \cup {"query"}]
  /\ pc' = [pc EXCEPT ![t] = "ResolverDestroy"]
  /\ UNCHANGED <<pools, resolvers, fn, poolId, pointer, tlsName, tlsAddr, addr, question,
                 alone, held, abandoned>>

\* Mutants of KeepsPool: gethostbyname, too, leaves the pool after a failed
\* query; nobody leaves it.
KeepsPoolAlways(t) == ~ret[t]
KeepsPoolNever(t) == FALSE

\* After a failed query gethostbyaddr does not destroy its pool.
KeepsPool(t) == ~ret[t] /\ fn[t] = "byaddr"

ResolversLeft(t) == resolvers \ {poolId[t]}

ResolverDestroy(t) ==
  /\ pc[t] = "ResolverDestroy"
  /\ resolvers' = ResolversLeft(t)
  /\ IF KeepsPool(t)
     THEN Leave(t, FALSE, {}, pools)
     ELSE /\ pc' = [pc EXCEPT ![t] = "PoolDestroy"]
          /\ UNCHANGED <<poolId, pointer, failed, abandoned>>
  /\ UNCHANGED <<pools, fn, ret, statics, question, alone, held>>

\* The resolver stays; the pool is destroyed all the same (if it can be), and
\* the call returns NULL.
ResolverDestroyFails(t) ==
  /\ pc[t] = "ResolverDestroy"
  /\ IF KeepsPool(t)
     THEN Leave(t, FALSE, {"destroy"}, pools) /\ UNCHANGED ret
     ELSE /\ pc' = [pc EXCEPT ![t] = "PoolDestroy"]
          /\ ret' = [ret EXCEPT ![t] = FALSE]
          /\ failed' = [failed EXCEPT ![t] = @ \cup {"destroy"}]
          /\ UNCHANGED <<poolId, pointer, abandoned>>
  /\ UNCHANGED <<pools, resolvers, fn, statics, question, alone, held>>

\* libnet does not destroy a pool that is in use.  &result is returned only if
\* nothing failed.
PoolDestroy(t) ==
  /\ pc[t] = "PoolDestroy" /\ poolId[t] \notin resolvers
  /\ pools' = pools \ {poolId[t]}
  /\ Leave(t, ret[t], {}, pools')
  /\ held' = IF fn[t] = "byname" /\ ret[t] THEN [held EXCEPT ![t] = question[t]] ELSE held
  /\ UNCHANGED <<resolvers, fn, ret, statics, question, alone>>

\* sceNetPoolDestroy fails, because the pool is in use or for a reason of its
\* own: NULL, whatever the query answered, and the pool stays.
PoolDestroyFails(t) ==
  /\ pc[t] = "PoolDestroy"
  /\ Leave(t, FALSE, {"pool"}, pools)
  /\ UNCHANGED <<pools, resolvers, fn, ret, statics, question, alone, held>>

-----------------------------------------------------------------------------

Step(t) ==
  \/ ResolverCreate(t) \/ ResolverCreateFails(t)
  \/ QueryAnswered(t) \/ QueryFails(t)
  \/ ResolverDestroy(t) \/ ResolverDestroyFails(t)
  \/ PoolDestroy(t) \/ PoolDestroyFails(t)

Call(t) ==
  \/ \E h \in Hosts : GetHostByName(t, h)
  \/ \E a \in Addrs : GetHostByAddr(t, a)
  \/ RejectType(t)

Next == \E t \in Threads : Call(t) \/ Step(t)

Spec == Init /\ [][Next]_vars

-----------------------------------------------------------------------------

\* Once gethostbyname returned a result, what the caller reads through it is
\* the host it asked for and that host's address, until this same thread calls
\* gethostbyname again - whatever other threads ask for, and although this
\* thread calls gethostbyaddr meanwhile: the variables are __thread, and
\* gethostbyaddr has its own.
ByNameAnswerStays ==
  \A t \in Threads :
    held[t] # NULL =>
      /\ tlsName[OwnStatics(t)] = held[t]
      /\ tlsAddr[OwnStatics(t)] = Resolves[held[t]]

\* A gethostbyaddr that met no other one answers its own question.  (One that
\* met another may not: its variables are shared.)
ByAddrExactIfAlone ==
  \A t \in Threads :
    pc[t] = "idle" /\ fn[t] = "byaddr" /\ pointer[t] /\ alone[t] =>
      addr = question[t] /\ name \in Hosts /\ Resolves[name] = question[t]

\* Where pools leak: one is abandoned only by a call whose resolver could not
\* be created, or whose resolver or pool could not be destroyed, or by a
\* gethostbyaddr whose query failed - never by a call in which nothing failed,
\* and never by a gethostbyname in which only the query failed.
PoolsAbandonedOnlyWhen ==
  \A p \in pools :
    \/ \E t \in Threads : pc[t] # "idle" /\ poolId[t] = p
    \/ abandoned[p].failed \cap {"create", "destroy", "pool"} # {}
    \/ abandoned[p].fn = "byaddr" /\ "query" \in abandoned[p].failed
=============================================================================
