------------------------- MODULE HostResolver_proofs -------------------------
(***************************************************************************)
(* What gethostbyname and gethostbyaddr answer, and which of them leave a  *)
(* pool behind, for any number of threads, hosts and pools.                *)
(***************************************************************************)
EXTENDS HostResolver, TLAPS

\* The types of a call's own variables, in parts.
PlaceTypes ==
  /\ pools \subseteq Pools /\ resolvers \subseteq Pools
  /\ pc \in [Threads -> {"idle", "ResolverCreate", "Query", "ResolverDestroy", "PoolDestroy"}]
  /\ fn \in [Threads -> {"byname", "byaddr"}]
  /\ poolId \in [Threads -> Pools \cup {NoPool}]

OutcomeTypes ==
  /\ ret \in [Threads -> BOOLEAN] /\ pointer \in [Threads -> BOOLEAN] /\ alone \in [Threads -> BOOLEAN]

AnswerTypes ==
  /\ tlsName \in [Threads -> Hosts \cup {NULL}] /\ tlsAddr \in [Threads -> Addrs \cup {NULL}]
  /\ name \in Hosts \cup Addrs \cup {NULL} /\ addr \in Addrs \cup {NULL}
  /\ question \in [Threads -> Hosts \cup Addrs \cup {NULL}] /\ held \in [Threads -> Hosts \cup {NULL}]

CauseTypes ==
  /\ failed \in [Threads -> SUBSET LibnetCalls]
  /\ abandoned \in [Pools -> Causes]

\* What a thread inside gethostbyname has asked for is in its own variables, and
\* so is the answer, from the query on; and what its last one gave a result for
\* is there, with its address, until it enters the next.
ByName(t) ==
  /\ fn[t] = "byname" /\ pc[t] # "idle" => question[t] \in Hosts /\ tlsName[t] = question[t]
  /\ fn[t] = "byname" /\ ret[t] /\ pc[t] \in {"ResolverDestroy", "PoolDestroy"} =>
       tlsAddr[t] = Resolves[question[t]]
  /\ fn[t] = "byname" /\ pc[t] # "idle" => held[t] = NULL
  /\ held[t] # NULL => tlsName[t] = held[t] /\ tlsAddr[t] = Resolves[held[t]]

ByNameInv == \A t \in Threads : ByName(t)

TypeInv == PlaceTypes /\ OutcomeTypes /\ AnswerTypes /\ CauseTypes

\* The types hold at the beginning.
LEMMA TypesAtInit == Init => TypeInv
  BY DEF Init, TypeInv, PlaceTypes, OutcomeTypes, AnswerTypes, CauseTypes, Causes, NoCause

\* What sceNetPoolCreate does to the types.
LEMMA PoolCreateTypes ==
  ASSUME TypeInv, NEW t \in Threads, PoolCreate(t)
  PROVE  /\ pools' \subseteq Pools /\ resolvers' = resolvers
         /\ pc' = [pc EXCEPT ![t] = "ResolverCreate"]
         /\ poolId' \in [Threads -> Pools \cup {NoPool}]
         /\ ret' = [ret EXCEPT ![t] = TRUE] /\ pointer' = [pointer EXCEPT ![t] = FALSE]
         /\ CauseTypes'
<1>1. abandoned' \in [Pools -> Causes]
  BY DEF PoolCreate, TypeInv, CauseTypes, Causes, NoCause
<1>2. failed' \in [Threads -> SUBSET LibnetCalls]
  BY DEF PoolCreate, TypeInv, CauseTypes
<1>3. pools' \subseteq Pools /\ poolId' \in [Threads -> Pools \cup {NoPool}]
  BY DEF PoolCreate, TypeInv, PlaceTypes
<1>4. QED
  BY <1>1, <1>2, <1>3 DEF PoolCreate, CauseTypes

\* What the return of a call does to the types.
LEMMA LeaveTypes ==
  ASSUME TypeInv, NEW t \in Threads, NEW p \in BOOLEAN, NEW failing \in SUBSET LibnetCalls,
         NEW left \in SUBSET Pools, Leave(t, p, failing, left)
  PROVE  /\ pc' = [pc EXCEPT ![t] = "idle"] /\ poolId' = [poolId EXCEPT ![t] = NoPool]
         /\ poolId' \in [Threads -> Pools \cup {NoPool}]
         /\ pointer' = [pointer EXCEPT ![t] = p] /\ pointer' \in [Threads -> BOOLEAN]
         /\ CauseTypes'
<1>1. [fn |-> fn[t], failed |-> failed[t] \cup failing] \in Causes
  BY DEF TypeInv, PlaceTypes, CauseTypes, Causes
<1>2. abandoned' \in [Pools -> Causes]
  BY <1>1 DEF Leave, TypeInv, CauseTypes
<1>3. failed' \in [Threads -> SUBSET LibnetCalls]
  BY DEF Leave, TypeInv, CauseTypes
<1>4. QED
  BY <1>2, <1>3 DEF Leave, TypeInv, PlaceTypes, OutcomeTypes, CauseTypes

\* The calls keep the types.
LEMMA CallTypes ==
  ASSUME TypeInv, NEW t \in Threads, Call(t)
  PROVE  TypeInv'
<1>1. ASSUME NEW h \in Hosts, GetHostByName(t, h) PROVE TypeInv'
  <2>1. PlaceTypes' /\ CauseTypes'
    BY <1>1, PoolCreateTypes DEF GetHostByName, TypeInv, PlaceTypes
  <2>2. OutcomeTypes'
    BY <1>1, PoolCreateTypes DEF GetHostByName, TypeInv, OutcomeTypes
  <2>3. AnswerTypes'
    BY <1>1 DEF GetHostByName, OwnStatics, TypeInv, AnswerTypes
  <2>4. QED
    BY <2>1, <2>2, <2>3 DEF TypeInv
<1>2. ASSUME NEW a \in Addrs, GetHostByAddr(t, a) PROVE TypeInv'
  <2>1. PlaceTypes' /\ CauseTypes'
    BY <1>2, PoolCreateTypes DEF GetHostByAddr, TypeInv, PlaceTypes
  <2>2. OutcomeTypes'
    <3>1. \A u \in Threads : (IF u = t THEN \A v \in Threads \ {t} : pc[v] = "idle" \/ fn[v] = "byname"
                              ELSE FALSE) \in BOOLEAN
      OBVIOUS
    <3>2. alone' \in [Threads -> BOOLEAN]
      BY <1>2, <3>1, Zenon DEF GetHostByAddr
    <3>3. QED
      BY <1>2, <3>2, PoolCreateTypes DEF GetHostByAddr, TypeInv, OutcomeTypes
  <2>3. AnswerTypes'
    BY <1>2 DEF GetHostByAddr, Copied, TypeInv, AnswerTypes
  <2>4. QED
    BY <2>1, <2>2, <2>3 DEF TypeInv
<1>3. CASE RejectType(t)
  <2>1. PlaceTypes' /\ OutcomeTypes'
    BY <1>3 DEF RejectType, TypeInv, PlaceTypes, OutcomeTypes
  <2>2. AnswerTypes' /\ CauseTypes'
    BY <1>3 DEF RejectType, statics, TypeInv, AnswerTypes, CauseTypes
  <2>3. QED
    BY <2>1, <2>2 DEF TypeInv
<1>4. QED
  BY <1>1, <1>2, <1>3 DEF Call

\* The steps of a call keep the types.
LEMMA StepTypes ==
  ASSUME TypeInv, ByNameInv, NEW t \in Threads, Step(t)
  PROVE  TypeInv'
<1>0. {} \in SUBSET LibnetCalls /\ \A call \in LibnetCalls : {call} \in SUBSET LibnetCalls
  OBVIOUS
<1>1. CASE ResolverCreate(t)
  <2>1. poolId[t] \in Pools
    BY <1>1 DEF ResolverCreate, CanGoOn, TypeInv, PlaceTypes
  <2>2. QED
    BY <1>1, <2>1 DEF ResolverCreate, locals, statics, history, TypeInv, PlaceTypes, OutcomeTypes, AnswerTypes, CauseTypes
<1>2. CASE ResolverCreateFails(t)
  <2>1. /\ pc' = [pc EXCEPT ![t] = "idle"] /\ poolId' \in [Threads -> Pools \cup {NoPool}]
        /\ pointer' \in [Threads -> BOOLEAN] /\ CauseTypes'
    BY <1>0, <1>2, LeaveTypes DEF ResolverCreateFails, LibnetCalls, TypeInv, PlaceTypes
  <2>2. QED
    BY <1>2, <2>1 DEF ResolverCreateFails, statics, TypeInv, PlaceTypes, OutcomeTypes, AnswerTypes
<1>3. CASE QueryAnswered(t)
  <2>1. CASE fn[t] = "byname" /\ tlsAddr' = [tlsAddr EXCEPT ![t] = Resolves[tlsName[t]]] /\ UNCHANGED name
    <3>1. tlsName[t] \in Hosts
      BY <1>3, <2>1 DEF QueryAnswered, ByNameInv, ByName
    <3>2. Resolves[tlsName[t]] \in Addrs
      BY <3>1, ResolverAssumption
    <3>3. AnswerTypes'
      BY <1>3, <2>1, <3>2 DEF QueryAnswered, history, TypeInv, AnswerTypes
    <3>4. QED
      BY <1>3, <3>3 DEF QueryAnswered, locals, history, TypeInv, PlaceTypes, OutcomeTypes, CauseTypes
  <2>2. CASE (\E h \in Hosts : name' = h) /\ UNCHANGED tlsAddr
    BY <1>3, <2>2 DEF QueryAnswered, locals, history, TypeInv, PlaceTypes, OutcomeTypes, AnswerTypes, CauseTypes
  <2>3. QED
    BY <1>3, <2>1, <2>2 DEF QueryAnswered, OwnStatics
<1>4. CASE QueryFails(t)
  <2>1. AnswerTypes'
    BY <1>4 DEF QueryFails, TypeInv, AnswerTypes
  <2>2. CauseTypes'
    BY <1>4 DEF QueryFails, LibnetCalls, TypeInv, CauseTypes
  <2>3. QED
    BY <1>4, <2>1, <2>2 DEF QueryFails, TypeInv, PlaceTypes, OutcomeTypes
<1>5. CASE ResolverDestroy(t)
  <2>1. resolvers' \subseteq Pools /\ UNCHANGED <<pools, fn, ret, statics, question, alone, held>>
    BY <1>5 DEF ResolverDestroy, ResolversLeft, TypeInv, PlaceTypes
  <2>2. CASE Leave(t, FALSE, {}, pools)
    BY <1>0, <2>1, <2>2, LeaveTypes DEF statics, TypeInv, PlaceTypes, OutcomeTypes, AnswerTypes
  <2>3. CASE pc' = [pc EXCEPT ![t] = "PoolDestroy"] /\ UNCHANGED <<poolId, pointer, failed, abandoned>>
    BY <2>1, <2>3 DEF statics, TypeInv, PlaceTypes, OutcomeTypes, AnswerTypes, CauseTypes
  <2>4. QED
    BY <1>5, <2>2, <2>3 DEF ResolverDestroy
<1>6. CASE ResolverDestroyFails(t)
  <2>1. UNCHANGED <<pools, resolvers, fn, statics, question, alone, held>>
    BY <1>6 DEF ResolverDestroyFails
  <2>2. CASE Leave(t, FALSE, {"destroy"}, pools) /\ UNCHANGED ret
    BY <1>0, <2>1, <2>2, LeaveTypes DEF LibnetCalls, statics, TypeInv, PlaceTypes, OutcomeTypes, AnswerTypes
  <2>3. CASE /\ pc' = [pc EXCEPT ![t] = "PoolDestroy"] /\ UNCHANGED <<poolId, pointer, abandoned>>
             /\ ret' = [ret EXCEPT ![t] = FALSE] /\ failed' = [failed EXCEPT ![t] = @ \cup {"destroy"}]
    <3>1. CauseTypes'
      BY <2>3 DEF LibnetCalls, TypeInv, CauseTypes
    <3>2. QED
      BY <2>1, <2>3, <3>1 DEF statics, TypeInv, PlaceTypes, OutcomeTypes, AnswerTypes
  <2>4. QED
    BY <1>6, <2>2, <2>3 DEF ResolverDestroyFails
<1>7. CASE PoolDestroy(t)
  <2>1. /\ Leave(t, ret[t], {}, pools') /\ pools' \in SUBSET Pools
        /\ UNCHANGED <<resolvers, fn, ret, statics, question, alone>>
    BY <1>7 DEF PoolDestroy, TypeInv, PlaceTypes
  <2>2. held' \in [Threads -> Hosts \cup {NULL}]
    <3>1. CASE fn[t] = "byname" /\ ret[t]
      <4>1. question[t] \in Hosts
        BY <1>7, <3>1 DEF PoolDestroy, ByNameInv, ByName
      <4>2. QED
        BY <1>7, <3>1, <4>1 DEF PoolDestroy, TypeInv, AnswerTypes
    <3>2. QED
      BY <1>7, <3>1 DEF PoolDestroy, TypeInv, AnswerTypes
  <2>3. ret[t] \in BOOLEAN
    BY DEF TypeInv, OutcomeTypes
  <2>4. QED
    BY <1>0, <2>1, <2>2, <2>3, LeaveTypes DEF statics, TypeInv, PlaceTypes, OutcomeTypes, AnswerTypes
<1>8. CASE PoolDestroyFails(t)
  <2>1. /\ Leave(t, FALSE, {"pool"}, pools)
        /\ UNCHANGED <<pools, resolvers, fn, ret, statics, question, alone, held>>
    BY <1>8 DEF PoolDestroyFails
  <2>2. {"pool"} \in SUBSET LibnetCalls /\ pools \in SUBSET Pools
    BY DEF LibnetCalls, TypeInv, PlaceTypes
  <2>3. QED
    BY <2>1, <2>2, LeaveTypes DEF statics, TypeInv, PlaceTypes, OutcomeTypes, AnswerTypes
<1>9. QED
  BY <1>1, <1>2, <1>3, <1>4, <1>5, <1>6, <1>7, <1>8 DEF Step

\* Every step keeps the types.
LEMMA TypesStep == TypeInv /\ ByNameInv /\ [Next]_vars => TypeInv'
<1>1. CASE UNCHANGED vars
  BY <1>1 DEF vars, locals, statics, history, TypeInv, PlaceTypes, OutcomeTypes, AnswerTypes, CauseTypes
<1>2. QED
  BY <1>1, CallTypes, StepTypes DEF Next

-----------------------------------------------------------------------------
(* What a step of one thread does to it and to the others. *)

\* What thread u has of its own is left alone.
Untouched(u) ==
  /\ pc'[u] = pc[u] /\ fn'[u] = fn[u] /\ poolId'[u] = poolId[u] /\ failed'[u] = failed[u]
  /\ (ret'[u] <=> ret[u]) /\ (pointer'[u] <=> pointer[u])
  /\ tlsName'[u] = tlsName[u] /\ tlsAddr'[u] = tlsAddr[u] /\ question'[u] = question[u] /\ held'[u] = held[u]

\* A step of one thread leaves the variables of every other thread alone,
\* except what the history knows of its having been alone.
LEMMA OthersUntouched ==
  ASSUME TypeInv, NEW t \in Threads, Call(t) \/ Step(t), NEW u \in Threads, u # t
  PROVE  Untouched(u)
<1>1. CASE \E h \in Hosts : GetHostByName(t, h)
  BY <1>1 DEF GetHostByName, OwnStatics, PoolCreate, Untouched, TypeInv, PlaceTypes, OutcomeTypes, AnswerTypes, CauseTypes
<1>2. CASE \E a \in Addrs : GetHostByAddr(t, a)
  BY <1>2 DEF GetHostByAddr, PoolCreate, Untouched, TypeInv, PlaceTypes, OutcomeTypes, AnswerTypes, CauseTypes
<1>3. CASE RejectType(t)
  BY <1>3 DEF RejectType, statics, Untouched, TypeInv, PlaceTypes, OutcomeTypes, AnswerTypes, CauseTypes
<1>4. CASE ResolverCreate(t)
  BY <1>4 DEF ResolverCreate, locals, statics, history, Untouched, TypeInv, PlaceTypes
<1>5. CASE ResolverCreateFails(t)
  BY <1>5 DEF ResolverCreateFails, Leave, statics, Untouched, TypeInv, PlaceTypes, OutcomeTypes, CauseTypes
<1>6. CASE QueryAnswered(t)
  BY <1>6 DEF QueryAnswered, OwnStatics, locals, history, Untouched, TypeInv, PlaceTypes, AnswerTypes
<1>7. CASE QueryFails(t)
  BY <1>7 DEF QueryFails, Untouched, TypeInv, PlaceTypes, OutcomeTypes, CauseTypes
<1>8. CASE ResolverDestroy(t)
  BY <1>8 DEF ResolverDestroy, Leave, statics, Untouched, TypeInv, PlaceTypes, OutcomeTypes, CauseTypes
<1>9. CASE ResolverDestroyFails(t)
  BY <1>9 DEF ResolverDestroyFails, Leave, statics, Untouched, TypeInv, PlaceTypes, OutcomeTypes, CauseTypes
<1>10. CASE PoolDestroy(t)
  <2>1. /\ pc' = [pc EXCEPT ![t] = "idle"] /\ poolId' = [poolId EXCEPT ![t] = NoPool]
        /\ failed' = [failed EXCEPT ![t] = {}]
        /\ pointer' = [pointer EXCEPT ![t] = ret[t]]
        /\ held' = held \/ held' = [held EXCEPT ![t] = question[t]]
        /\ UNCHANGED <<fn, ret, statics, question>>
    BY <1>10 DEF PoolDestroy, Leave
  <2>2. pointer'[u] = pointer[u]
    BY <2>1, Zenon DEF TypeInv, OutcomeTypes
  <2>3. QED
    BY <2>1, <2>2 DEF statics, Untouched, TypeInv, PlaceTypes, AnswerTypes, CauseTypes
<1>11. CASE PoolDestroyFails(t)
  BY <1>11 DEF PoolDestroyFails, Leave, statics, Untouched, TypeInv, PlaceTypes, OutcomeTypes, CauseTypes
<1>12. QED
  BY <1>1, <1>2, <1>3, <1>4, <1>5, <1>6, <1>7, <1>8, <1>9, <1>10, <1>11 DEF Call, Step

\* Where a step takes its thread, and whether its call points to a result then.
LEMMA Moves ==
  ASSUME TypeInv, NEW t \in Threads
  PROVE  /\ \A h \in Hosts : GetHostByName(t, h) =>
              /\ pc'[t] = "ResolverCreate" /\ fn'[t] = "byname" /\ tlsName'[t] = h /\ question'[t] = h
              /\ held'[t] = NULL
         /\ \A a \in Addrs : GetHostByAddr(t, a) =>
              pc'[t] = "ResolverCreate" /\ fn'[t] = "byaddr" /\ question'[t] = a
         /\ RejectType(t) => pc'[t] = "idle" /\ fn'[t] = "byaddr" /\ ~pointer'[t]
         /\ ResolverCreate(t) => pc'[t] = "Query"
         /\ ResolverCreateFails(t) => pc'[t] = "idle" /\ ~pointer'[t]
         /\ QueryAnswered(t) => pc'[t] = "ResolverDestroy"
         /\ QueryFails(t) => pc'[t] = "ResolverDestroy" /\ ~ret'[t]
         /\ ResolverDestroy(t) =>
              \/ pc'[t] = "idle" /\ ~pointer'[t]
              \/ pc'[t] = "PoolDestroy" /\ (ret'[t] <=> ret[t])
         /\ ResolverDestroyFails(t) =>
              \/ pc'[t] = "idle" /\ ~pointer'[t]
              \/ pc'[t] = "PoolDestroy" /\ ~ret'[t]
         /\ PoolDestroy(t) => pc'[t] = "idle" /\ (pointer'[t] => ret[t])
         /\ PoolDestroyFails(t) => pc'[t] = "idle" /\ ~pointer'[t]
         /\ Step(t) => UNCHANGED <<fn, question, tlsName, addr, alone>>
<1>1. /\ \A h \in Hosts : GetHostByName(t, h) =>
           /\ pc'[t] = "ResolverCreate" /\ fn'[t] = "byname" /\ tlsName'[t] = h /\ question'[t] = h
           /\ held'[t] = NULL
      /\ \A a \in Addrs : GetHostByAddr(t, a) =>
           pc'[t] = "ResolverCreate" /\ fn'[t] = "byaddr" /\ question'[t] = a
      /\ RejectType(t) => pc'[t] = "idle" /\ fn'[t] = "byaddr" /\ ~pointer'[t]
  BY DEF GetHostByName, GetHostByAddr, OwnStatics, PoolCreate, RejectType,
         TypeInv, PlaceTypes, OutcomeTypes, AnswerTypes
<1>2. /\ ResolverCreate(t) => pc'[t] = "Query"
      /\ ResolverCreateFails(t) => pc'[t] = "idle" /\ ~pointer'[t]
      /\ QueryAnswered(t) => pc'[t] = "ResolverDestroy"
      /\ QueryFails(t) => pc'[t] = "ResolverDestroy" /\ ~ret'[t]
  BY DEF ResolverCreate, ResolverCreateFails, QueryAnswered, QueryFails, Leave, TypeInv, PlaceTypes, OutcomeTypes
<1>3. ResolverDestroy(t) => \/ pc'[t] = "idle" /\ ~pointer'[t]
                            \/ pc'[t] = "PoolDestroy" /\ (ret'[t] <=> ret[t])
  BY DEF ResolverDestroy, Leave, TypeInv, PlaceTypes, OutcomeTypes
<1>4. ResolverDestroyFails(t) => \/ pc'[t] = "idle" /\ ~pointer'[t]
                                 \/ pc'[t] = "PoolDestroy" /\ ~ret'[t]
  BY DEF ResolverDestroyFails, Leave, TypeInv, PlaceTypes, OutcomeTypes
<1>5. PoolDestroy(t) => pc'[t] = "idle" /\ (pointer'[t] => ret[t])
  <2>1. PoolDestroy(t) => pc'[t] = "idle"
    BY DEF PoolDestroy, Leave, TypeInv, PlaceTypes
  <2>2. PoolDestroy(t) => pointer' = [pointer EXCEPT ![t] = ret[t]]
    BY DEF PoolDestroy, Leave
  <2>3. PoolDestroy(t) => (pointer'[t] => ret[t])
    BY <2>2, Zenon DEF TypeInv, OutcomeTypes
  <2>4. QED
    BY <2>1, <2>3
<1>6. Step(t) => UNCHANGED <<fn, question, tlsName, addr, alone>>
  BY DEF Step, ResolverCreate, ResolverCreateFails, QueryAnswered, QueryFails, ResolverDestroy,
         ResolverDestroyFails, PoolDestroy, PoolDestroyFails, locals, statics, history
<1>7. PoolDestroyFails(t) => pc'[t] = "idle" /\ ~pointer'[t]
  BY DEF PoolDestroyFails, Leave, TypeInv, PlaceTypes, OutcomeTypes
<1>8. QED
  BY <1>1, <1>2, <1>3, <1>4, <1>5, <1>6, <1>7

-----------------------------------------------------------------------------
(* What gethostbyname answers. *)

\* The thread that steps keeps its own question and answer.
LEMMA OwnByName ==
  ASSUME TypeInv, NEW t \in Threads, ByName(t), Call(t) \/ Step(t)
  PROVE  ByName(t)'
<1>1. CASE \E h \in Hosts : GetHostByName(t, h)
  BY <1>1, Moves DEF ByName
<1>2. CASE (\E a \in Addrs : GetHostByAddr(t, a)) \/ RejectType(t)
  <2>1. fn'[t] = "byaddr" /\ UNCHANGED <<tlsName, tlsAddr, held>>
    BY <1>2, Moves DEF GetHostByAddr, RejectType, statics
  <2>2. QED
    BY <2>1 DEF ByName
<1>3. CASE QueryAnswered(t)
  <2>1. pc[t] = "Query" /\ pc'[t] = "ResolverDestroy" /\ UNCHANGED <<fn, question, tlsName, held>>
    BY <1>3, Moves DEF QueryAnswered, Step, history
  <2>2. /\ fn[t] = "byname" => tlsAddr'[t] = Resolves[tlsName[t]]
        /\ fn[t] = "byaddr" => tlsAddr' = tlsAddr
    BY <1>3 DEF QueryAnswered, OwnStatics, TypeInv, AnswerTypes
  <2>3. fn[t] \in {"byname", "byaddr"}
    BY DEF TypeInv, PlaceTypes
  <2>4. QED
    BY <2>1, <2>2, <2>3 DEF ByName
<1>4. CASE ResolverCreate(t) \/ ResolverCreateFails(t) \/ QueryFails(t) \/ PoolDestroyFails(t)
  <2>1. /\ pc'[t] \in {"Query", "ResolverDestroy", "idle"} /\ pc[t] # "idle"
        /\ UNCHANGED <<fn, question, tlsName, tlsAddr, held>>
    BY <1>4, Moves DEF Step, ResolverCreate, ResolverCreateFails, QueryFails, PoolDestroyFails, statics, history
  <2>2. pc'[t] = "ResolverDestroy" => ~ret'[t]
    BY <1>4, Moves
  <2>3. QED
    BY <2>1, <2>2 DEF ByName
<1>5. CASE ResolverDestroy(t) \/ ResolverDestroyFails(t)
  <2>1. \/ pc'[t] = "idle"
        \/ pc'[t] = "PoolDestroy" /\ (ret'[t] => ret[t])
    BY <1>5, Moves
  <2>2. pc[t] = "ResolverDestroy" /\ UNCHANGED <<fn, question, tlsName, tlsAddr, held>>
    BY <1>5 DEF ResolverDestroy, ResolverDestroyFails, statics
  <2>3. QED
    BY <2>1, <2>2 DEF ByName
<1>6. CASE PoolDestroy(t)
  <2>1. pc[t] = "PoolDestroy" /\ pc'[t] = "idle" /\ UNCHANGED <<fn, question, tlsName, tlsAddr>>
    BY <1>6, Moves DEF PoolDestroy, statics
  <2>2. held'[t] = held[t] \/ (fn[t] = "byname" /\ ret[t] /\ held'[t] = question[t])
    BY <1>6 DEF PoolDestroy, TypeInv, AnswerTypes
  <2>3. QED
    BY <2>1, <2>2 DEF ByName
<1>7. QED
  BY <1>1, <1>2, <1>3, <1>4, <1>5, <1>6 DEF Call, Step

\* Every step keeps every thread's question and answer.
LEMMA ByNameStep == TypeInv /\ ByNameInv /\ [Next]_vars => ByNameInv'
<1>1. ASSUME TypeInv, ByNameInv, NEW t \in Threads, Call(t) \/ Step(t), NEW u \in Threads
      PROVE  ByName(u)'
  <2>1. CASE u = t
    BY <1>1, <2>1, OwnByName DEF ByNameInv
  <2>2. CASE u # t
    BY <1>1, <2>2, OthersUntouched DEF ByNameInv, ByName, Untouched
  <2>3. QED
    BY <2>1, <2>2
<1>2. ASSUME ByNameInv, UNCHANGED vars PROVE ByNameInv'
  BY <1>2 DEF vars, locals, statics, history, ByNameInv, ByName
<1>3. QED
  BY <1>1, <1>2 DEF Next, ByNameInv

\* Nothing is asked at the beginning.
LEMMA ByNameAtInit == Init => ByNameInv
  BY DEF Init, ByNameInv, ByName

\* The types and the questions together are inductive.
LEMMA ResolverInvariant == Spec => [](TypeInv /\ ByNameInv)
  BY TypesAtInit, TypesStep, ByNameAtInit, ByNameStep, PTL DEF Spec

\* The types of the resolver's state; in particular no resolver is created in a
\* pool that could not be had.
THEOREM ResolverTypeCorrect == Spec => []TypeOK
<1>1. TypeInv => TypeOK
  BY DEF TypeInv, PlaceTypes, OutcomeTypes, AnswerTypes, CauseTypes, TypeOK
<1>2. QED
  BY ResolverInvariant, <1>1, PTL

\* What the caller of gethostbyname reads through its result is the host it
\* asked for and that host's address, until the same thread calls gethostbyname
\* again, whatever it asks gethostbyaddr meanwhile.
THEOREM ByNameAnswerKept == Spec => []ByNameAnswerStays
<1>1. ByNameInv => ByNameAnswerStays
  BY DEF ByNameInv, ByName, ByNameAnswerStays, OwnStatics
<1>2. QED
  BY ResolverInvariant, <1>1, PTL

-----------------------------------------------------------------------------
(* What gethostbyaddr answers, although all threads share its variables. *)

\* No other thread is inside gethostbyaddr.
Apart(t) == \A v \in Threads \ {t} : pc[v] = "idle" \/ fn[v] = "byname"

\* A gethostbyaddr that met no other one has its question in addr, and from
\* the query on the answer in name.
ByAddr(t) ==
  /\ fn[t] = "byaddr" /\ alone[t] /\ (pc[t] # "idle" \/ pointer[t]) =>
       addr = question[t] /\ Apart(t)
  /\ fn[t] = "byaddr" /\ alone[t] /\ ret[t] /\ pc[t] \in {"ResolverDestroy", "PoolDestroy"} =>
       name \in Hosts /\ Resolves[name] = addr
  /\ fn[t] = "byaddr" /\ alone[t] /\ pc[t] = "idle" /\ pointer[t] =>
       name \in Hosts /\ Resolves[name] = addr

ByAddrInv == \A t \in Threads : ByAddr(t)

\* A step of a thread that is not inside gethostbyaddr, or of one that is the
\* only one there, keeps the others apart.
LEMMA ApartStays ==
  ASSUME TypeInv, NEW t \in Threads, Call(t) \/ Step(t), NEW u \in Threads, Apart(u),
         u # t => pc'[t] = "idle" \/ fn'[t] = "byname"
  PROVE  Apart(u)'
<1>1. ASSUME NEW v \in Threads \ {u} PROVE pc'[v] = "idle" \/ fn'[v] = "byname"
  <2>1. CASE v = t
    BY <2>1
  <2>2. CASE v # t
    <3>1. pc'[v] = pc[v] /\ fn'[v] = fn[v]
      BY <2>2, OthersUntouched DEF Untouched
    <3>2. QED
      BY <3>1 DEF Apart
  <2>3. QED
    BY <2>1, <2>2
<1>2. QED
  BY <1>1 DEF Apart

\* The thread that steps keeps its own question and answer.
LEMMA OwnByAddr ==
  ASSUME TypeInv, NEW t \in Threads, ByAddr(t), Call(t) \/ Step(t)
  PROVE  ByAddr(t)'
<1>1. ASSUME NEW h \in Hosts, GetHostByName(t, h) PROVE ByAddr(t)'
  BY <1>1, Moves DEF ByAddr
<1>2. ASSUME NEW a \in Addrs, GetHostByAddr(t, a) PROVE ByAddr(t)'
  <2>1. addr' = a /\ question'[t] = a /\ pc'[t] = "ResolverCreate"
    BY <1>2, Moves DEF GetHostByAddr, Copied
  <2>2. alone'[t] = Apart(t)
    BY <1>2, Zenon DEF GetHostByAddr, Apart
  <2>3. alone'[t] => Apart(t)'
    BY <1>2, <2>2, ApartStays DEF Call
  <2>4. QED
    BY <2>1, <2>3 DEF ByAddr
<1>3. CASE RejectType(t)
  BY <1>3, Moves DEF ByAddr
<1>4. ASSUME Step(t) PROVE ByAddr(t)'
  <2>1. UNCHANGED <<fn, question, addr, alone>> /\ pc[t] # "idle"
    BY <1>4, Moves DEF Step, ResolverCreate, ResolverCreateFails, QueryAnswered, QueryFails,
           ResolverDestroy, ResolverDestroyFails, PoolDestroy, PoolDestroyFails
  <2>2. fn[t] = "byaddr" /\ alone[t] => addr' = question'[t] /\ Apart(t)'
    BY <1>4, <2>1, ApartStays DEF ByAddr
  <2>3. CASE QueryAnswered(t)
    <3>1. fn[t] = "byaddr" => name' \in Hosts /\ Resolves[name'] = addr
      BY <2>3 DEF QueryAnswered
    <3>2. QED
      BY <2>1, <2>2, <2>3, <3>1, Moves DEF ByAddr
  <2>4. CASE ResolverCreate(t) \/ ResolverCreateFails(t) \/ QueryFails(t) \/ PoolDestroyFails(t)
    <3>1. /\ pc'[t] \in {"Query", "ResolverDestroy", "idle"}
          /\ pc'[t] = "ResolverDestroy" => ~ret'[t]
          /\ pc'[t] = "idle" => ~pointer'[t]
      BY <2>4, Moves
    <3>2. QED
      BY <2>1, <2>2, <3>1 DEF ByAddr
  <2>5. CASE ResolverDestroy(t) \/ ResolverDestroyFails(t)
    <3>1. \/ pc'[t] = "idle" /\ ~pointer'[t]
          \/ pc'[t] = "PoolDestroy" /\ (ret'[t] => ret[t])
      BY <2>5, Moves
    <3>2. pc[t] = "ResolverDestroy" /\ UNCHANGED name
      BY <2>5 DEF ResolverDestroy, ResolverDestroyFails, statics
    <3>3. QED
      BY <2>1, <2>2, <3>1, <3>2 DEF ByAddr
  <2>6. CASE PoolDestroy(t)
    <3>1. pc'[t] = "idle" /\ (pointer'[t] => ret[t])
      BY <2>6, Moves
    <3>2. pc[t] = "PoolDestroy" /\ UNCHANGED name
      BY <2>6 DEF PoolDestroy, statics
    <3>3. QED
      BY <2>1, <2>2, <3>1, <3>2 DEF ByAddr
  <2>7. QED
    BY <1>4, <2>3, <2>4, <2>5, <2>6 DEF Step
<1>5. QED
  BY <1>1, <1>2, <1>3, <1>4 DEF Call

\* A step of another thread either ends a thread's being alone or leaves its
\* question and answer where they are.
LEMMA OthersByAddr ==
  ASSUME TypeInv, NEW t \in Threads, Call(t) \/ Step(t), NEW u \in Threads, u # t, ByAddr(u)
  PROVE  ByAddr(u)'
<1>0. Untouched(u)
  BY OthersUntouched
<1>1. CASE \E a \in Addrs : GetHostByAddr(t, a)
  <2>1. ~alone'[u]
    BY <1>1 DEF GetHostByAddr
  <2>2. QED
    BY <2>1 DEF ByAddr
<1>2. ASSUME (\E h \in Hosts : GetHostByName(t, h)) \/ RejectType(t) PROVE ByAddr(u)'
  <2>1. UNCHANGED <<name, addr, alone>> /\ (pc'[t] = "idle" \/ fn'[t] = "byname")
    BY <1>2, Moves DEF GetHostByName, RejectType, statics
  <2>2. Apart(u) => Apart(u)'
    BY <2>1, ApartStays
  <2>3. QED
    BY <1>0, <2>1, <2>2 DEF ByAddr, Untouched
<1>3. ASSUME Step(t), fn[u] = "byaddr", alone[u], pc[u] # "idle" \/ pointer[u] PROVE ByAddr(u)'
  <2>1. addr = question[u] /\ Apart(u)
    BY <1>3 DEF ByAddr
  <2>2. fn[t] = "byname"
    BY <1>3, <2>1 DEF Apart, Step, ResolverCreate, ResolverCreateFails, QueryAnswered, QueryFails,
           ResolverDestroy, ResolverDestroyFails, PoolDestroy, PoolDestroyFails
  <2>3. UNCHANGED <<fn, addr, alone>>
    BY <1>3, Moves
  <2>4. UNCHANGED name
    BY <1>3, <2>2 DEF Step, ResolverCreate, ResolverCreateFails, QueryAnswered, QueryFails,
           ResolverDestroy, ResolverDestroyFails, PoolDestroy, PoolDestroyFails, statics
  <2>5. Apart(u)'
    BY <1>3, <2>1, <2>2, <2>3, ApartStays
  <2>6. QED
    BY <1>0, <2>3, <2>4, <2>5 DEF ByAddr, Untouched
<1>4. ASSUME Step(t), ~(fn[u] = "byaddr" /\ alone[u] /\ (pc[u] # "idle" \/ pointer[u])) PROVE ByAddr(u)'
  <2>1. UNCHANGED <<fn, alone>>
    BY <1>4, Moves
  <2>2. QED
    BY <1>0, <1>4, <2>1 DEF ByAddr, Untouched
<1>5. QED
  BY <1>1, <1>2, <1>3, <1>4 DEF Call

\* Every step keeps them.
LEMMA ByAddrStep == TypeInv /\ ByAddrInv /\ [Next]_vars => ByAddrInv'
<1>1. ASSUME TypeInv, ByAddrInv, NEW t \in Threads, Call(t) \/ Step(t), NEW u \in Threads
      PROVE  ByAddr(u)'
  BY <1>1, OwnByAddr, OthersByAddr DEF ByAddrInv
<1>2. ASSUME ByAddrInv, UNCHANGED vars PROVE ByAddrInv'
  BY <1>2 DEF vars, locals, statics, history, ByAddrInv, ByAddr, Apart
<1>3. QED
  BY <1>1, <1>2 DEF Next, ByAddrInv

\* A gethostbyaddr that met no other one answers its own question, as long as
\* nobody calls the function again.
THEOREM ByAddrAnswerExact == Spec => []ByAddrExactIfAlone
<1>1. Init => ByAddrInv
  BY DEF Init, ByAddrInv, ByAddr
<1>2. ByAddrInv => ByAddrExactIfAlone
  BY DEF ByAddrInv, ByAddr, ByAddrExactIfAlone
<1>3. Spec => []ByAddrInv
  BY ResolverInvariant, ByAddrStep, <1>1, PTL DEF Spec
<1>4. QED
  BY <1>3, <1>2, PTL

-----------------------------------------------------------------------------
(* Who owns a pool, and who leaves one behind. *)

\* The pool of a call exists, and a query that failed is on record.
Owner(t) ==
  pc[t] # "idle" =>
    /\ poolId[t] \in pools \cup {NoPool}
    /\ pc[t] # "PoolDestroy" /\ ~ret[t] => "query" \in failed[t]

\* A pool is one call's only.
Owners ==
  \A t, u \in Threads :
    pc[t] # "idle" /\ pc[u] # "idle" /\ poolId[t] = poolId[u] /\ poolId[t] # NoPool => t = u

\* The reasons for which a call leaves its pool behind.
LeftBehind(why) ==
  \/ why.failed \cap {"create", "destroy", "pool"} # {}
  \/ why.fn = "byaddr" /\ "query" \in why.failed

OwnerInv == (\A t \in Threads : Owner(t)) /\ Owners /\ PoolsAbandonedOnlyWhen

\* A pool is its owner's, or was left behind for one of the reasons.
Accounted(p) ==
  \/ \E t \in Threads : pc[t] # "idle" /\ poolId[t] = p
  \/ LeftBehind(abandoned[p])

\* A new call gets a pool of its own, or none.
LEMMA EnterOwners ==
  ASSUME TypeInv, OwnerInv, NEW t \in Threads, pc[t] = "idle", PoolCreate(t),
         \A u \in Threads \ {t} : Untouched(u)
  PROVE  OwnerInv'
<1> USE ResolverAssumption
<1>0. PICK p \in (Pools \ pools) \cup {NoPool} :
        /\ poolId' = [poolId EXCEPT ![t] = p]
        /\ pools' = pools \cup ({p} \cap Pools)
        /\ \A q \in pools : abandoned'[q] = abandoned[q]
  BY DEF PoolCreate, TypeInv, PlaceTypes, CauseTypes
<1>1. pc'[t] = "ResolverCreate" /\ poolId'[t] = p /\ ret'[t]
  BY <1>0 DEF PoolCreate, TypeInv, PlaceTypes, OutcomeTypes
<1>2. \A u \in Threads \ {t} : pc'[u] # "idle" =>
         poolId'[u] = poolId[u] /\ pc'[u] = pc[u] /\ failed'[u] = failed[u] /\ fn'[u] = fn[u] /\ (ret'[u] <=> ret[u])
         /\ poolId'[u] \in pools \cup {NoPool}
  BY DEF Untouched, OwnerInv, Owner
<1>3. \A u \in Threads : Owner(u)'
  <2> TAKE u \in Threads
  <2>1. CASE u = t
    BY <2>1, <1>0, <1>1 DEF Owner
  <2>2. CASE u # t
    BY <2>2, <1>0, <1>1, <1>2 DEF Owner, OwnerInv
  <2>3. QED
    BY <2>1, <2>2
<1>4. Owners'
  <2>1. ASSUME NEW u \in Threads \ {t}, pc'[u] # "idle" PROVE poolId'[u] = NoPool \/ poolId'[u] # p
    BY <2>1, <1>0, <1>2
  <2>2. ASSUME NEW u \in Threads \ {t}, NEW v \in Threads \ {t}, pc'[u] # "idle", pc'[v] # "idle",
               poolId'[u] = poolId'[v], poolId'[u] # NoPool
        PROVE  u = v
    BY <2>2, <1>2 DEF OwnerInv, Owners
  <2>3. QED
    BY <2>1, <2>2, <1>1 DEF Owners
<1>5. ASSUME NEW q \in pools' PROVE Accounted(q)'
  <2>1. CASE q \notin pools
    <3>1. q = p
      BY <2>1, <1>0, <1>5
    <3>2. QED
      BY <3>1, <1>1 DEF Accounted
  <2>2. CASE q \in pools
    <3>1. Accounted(q)
      BY <2>2 DEF OwnerInv, PoolsAbandonedOnlyWhen, Accounted, LeftBehind
    <3>2. CASE LeftBehind(abandoned[q])
      BY <2>2, <3>2, <1>0 DEF Accounted
    <3>3. ASSUME NEW u \in Threads, pc[u] # "idle", poolId[u] = q PROVE Accounted(q)'
      BY <3>3 DEF Accounted, Untouched
    <3>4. QED
      BY <3>1, <3>2, <3>3 DEF Accounted
  <2>3. QED
    BY <2>1, <2>2
<1>6. PoolsAbandonedOnlyWhen'
  BY <1>5 DEF PoolsAbandonedOnlyWhen, Accounted, LeftBehind
<1>7. QED
  BY <1>3, <1>4, <1>6 DEF OwnerInv

\* A call that goes on keeps its pool.
LEMMA GoOnOwners ==
  ASSUME TypeInv, OwnerInv, NEW t \in Threads, pc[t] # "idle", pc'[t] # "idle",
         UNCHANGED <<pools, poolId, abandoned>>,
         pc'[t] # "PoolDestroy" /\ ~ret'[t] => "query" \in failed'[t],
         \A u \in Threads \ {t} : Untouched(u)
  PROVE  OwnerInv'
<1>1. ASSUME NEW u \in Threads PROVE Owner(u)'
  <2>1. CASE u = t
    BY <2>1 DEF OwnerInv, Owner
  <2>2. CASE u # t
    BY <2>2 DEF Untouched, OwnerInv, Owner
  <2>3. QED
    BY <2>1, <2>2
<1>2. \A u \in Threads : pc'[u] # "idle" <=> pc[u] # "idle"
  BY DEF Untouched
<1>3. Owners'
  BY <1>2 DEF OwnerInv, Owners
<1>4. PoolsAbandonedOnlyWhen'
  BY <1>2 DEF OwnerInv, PoolsAbandonedOnlyWhen
<1>5. QED
  BY <1>1, <1>3, <1>4 DEF OwnerInv

\* A call that returns has destroyed its pool, or leaves it behind for one of
\* the reasons.
LEMMA LeaveOwners ==
  ASSUME TypeInv, OwnerInv, NEW t \in Threads, pc[t] # "idle", NEW p, NEW failing, Leave(t, p, failing, pools'),
         pools' \subseteq pools, \A q \in pools : q # poolId[t] => q \in pools',
         poolId[t] \in pools' => LeftBehind([fn |-> fn[t], failed |-> failed[t] \cup failing]),
         \A u \in Threads \ {t} : Untouched(u)
  PROVE  OwnerInv'
<1> USE ResolverAssumption
<1>1. pc'[t] = "idle" /\ pc' = [pc EXCEPT ![t] = "idle"]
  BY DEF Leave, TypeInv, PlaceTypes
<1>2. ASSUME NEW u \in Threads PROVE Owner(u)'
  <2>1. CASE u # t /\ pc[u] # "idle"
    <3>1. pc'[u] = pc[u] /\ failed'[u] = failed[u] /\ fn'[u] = fn[u] /\ (ret'[u] <=> ret[u]) /\ poolId'[u] = poolId[u]
      BY <2>1 DEF Untouched
    <3>2. poolId[u] \in pools' \cup {NoPool}
      BY <2>1 DEF OwnerInv, Owner, Owners
    <3>3. QED
      BY <2>1, <3>1, <3>2 DEF OwnerInv, Owner
  <2>2. CASE u = t \/ pc[u] = "idle"
    BY <2>2, <1>1 DEF Owner, Untouched
  <2>3. QED
    BY <2>1, <2>2
<1>3. Owners'
  BY <1>1 DEF OwnerInv, Owners, Untouched
<1>4. ASSUME NEW q \in pools' PROVE Accounted(q)'
  <2>0. q \in Pools
    BY <1>4 DEF TypeInv, PlaceTypes
  <2>1. CASE q = poolId[t]
    <3>1. abandoned'[q] = [fn |-> fn[t], failed |-> failed[t] \cup failing]
      BY <2>0, <2>1, <1>4 DEF Leave, TypeInv, CauseTypes
    <3>2. QED
      BY <3>1, <2>1, <1>4 DEF Accounted
  <2>2. CASE q # poolId[t]
    <3>1. Accounted(q)
      BY <1>4 DEF OwnerInv, PoolsAbandonedOnlyWhen, Accounted, LeftBehind
    <3>2. CASE LeftBehind(abandoned[q])
      <4>1. abandoned'[q] = abandoned[q]
        BY <2>0, <2>2 DEF Leave, TypeInv, CauseTypes
      <4>2. QED
        BY <3>2, <4>1 DEF Accounted
    <3>3. ASSUME NEW u \in Threads, pc[u] # "idle", poolId[u] = q PROVE Accounted(q)'
      BY <3>3, <2>2 DEF Accounted, Untouched
    <3>4. QED
      BY <3>1, <3>2, <3>3 DEF Accounted
  <2>3. QED
    BY <2>1, <2>2
<1>5. PoolsAbandonedOnlyWhen'
  BY <1>4 DEF PoolsAbandonedOnlyWhen, Accounted, LeftBehind
<1>6. QED
  BY <1>2, <1>3, <1>5 DEF OwnerInv

\* The steps of a call.
LEMMA StepOwners ==
  ASSUME TypeInv, OwnerInv, NEW t \in Threads, Step(t)
  PROVE  OwnerInv'
<1>0. \A u \in Threads \ {t} : Untouched(u)
  BY OthersUntouched
<1>1. CASE ResolverCreate(t)
  <2>1. pc[t] = "ResolverCreate" /\ pc'[t] = "Query" /\ UNCHANGED <<pools, poolId, abandoned, ret, failed>>
    BY <1>1, Moves DEF ResolverCreate, locals, history
  <2>2. ~ret'[t] => "query" \in failed'[t]
    BY <2>1 DEF OwnerInv, Owner
  <2>3. QED
    BY <1>0, <2>1, <2>2, GoOnOwners
<1>2. CASE ResolverCreateFails(t)
  <2>1. pc[t] # "idle" /\ pools' = pools /\ Leave(t, FALSE, {"create"}, pools')
    BY <1>2 DEF ResolverCreateFails
  <2>2. LeftBehind([fn |-> fn[t], failed |-> failed[t] \cup {"create"}])
    BY DEF LeftBehind
  <2>3. QED
    BY <1>0, <2>1, <2>2, LeaveOwners
<1>3. CASE QueryAnswered(t) \/ QueryFails(t)
  <2>1. pc[t] = "Query" /\ pc'[t] = "ResolverDestroy" /\ UNCHANGED <<pools, poolId, abandoned, fn>>
    BY <1>3, Moves DEF QueryAnswered, QueryFails, locals, history
  <2>2. ~ret'[t] => "query" \in failed'[t]
    BY <1>3, <2>1 DEF QueryAnswered, QueryFails, locals, history, TypeInv, CauseTypes, OwnerInv, Owner
  <2>3. QED
    BY <1>0, <2>1, <2>2, GoOnOwners
<1>4. CASE ResolverDestroy(t)
  <2>1. pc[t] = "ResolverDestroy" /\ pools' = pools
    BY <1>4 DEF ResolverDestroy
  <2>2. CASE KeepsPool(t) /\ Leave(t, FALSE, {}, pools)
    <3>1. fn[t] = "byaddr" /\ "query" \in failed[t]
      BY <2>1, <2>2 DEF KeepsPool, OwnerInv, Owner
    <3>2. LeftBehind([fn |-> fn[t], failed |-> failed[t] \cup {}])
      BY <3>1 DEF LeftBehind
    <3>3. Leave(t, FALSE, {}, pools') /\ pc[t] # "idle"
      BY <2>1, <2>2
    <3>4. QED
      BY <1>0, <2>1, <3>2, <3>3, LeaveOwners
  <2>3. CASE pc' = [pc EXCEPT ![t] = "PoolDestroy"] /\ UNCHANGED <<poolId, abandoned>>
    <3>1. pc'[t] = "PoolDestroy"
      BY <2>3 DEF TypeInv, PlaceTypes
    <3>2. QED
      BY <1>0, <2>1, <2>3, <3>1, GoOnOwners
  <2>4. QED
    BY <1>4, <2>2, <2>3 DEF ResolverDestroy
<1>5. CASE ResolverDestroyFails(t)
  <2>1. pc[t] = "ResolverDestroy" /\ pools' = pools
    BY <1>5 DEF ResolverDestroyFails
  <2>2. CASE Leave(t, FALSE, {"destroy"}, pools)
    <3>1. LeftBehind([fn |-> fn[t], failed |-> failed[t] \cup {"destroy"}])
      BY DEF LeftBehind
    <3>2. Leave(t, FALSE, {"destroy"}, pools') /\ pc[t] # "idle"
      BY <2>1, <2>2
    <3>3. QED
      BY <1>0, <2>1, <3>1, <3>2, LeaveOwners
  <2>3. CASE pc' = [pc EXCEPT ![t] = "PoolDestroy"] /\ UNCHANGED <<poolId, abandoned>>
    <3>1. pc'[t] = "PoolDestroy"
      BY <2>3 DEF TypeInv, PlaceTypes
    <3>2. QED
      BY <1>0, <2>1, <2>3, <3>1, GoOnOwners
  <2>4. QED
    BY <1>5, <2>2, <2>3 DEF ResolverDestroyFails
<1>6. CASE PoolDestroy(t)
  <2>1. pc[t] # "idle" /\ pools' = pools \ {poolId[t]} /\ Leave(t, ret[t], {}, pools')
    BY <1>6 DEF PoolDestroy
  <2>2. QED
    BY <1>0, <2>1, LeaveOwners
<1>7. CASE PoolDestroyFails(t)
  <2>1. pc[t] # "idle" /\ pools' = pools /\ Leave(t, FALSE, {"pool"}, pools')
    BY <1>7 DEF PoolDestroyFails
  <2>2. LeftBehind([fn |-> fn[t], failed |-> failed[t] \cup {"pool"}])
    BY DEF LeftBehind
  <2>3. QED
    BY <1>0, <2>1, <2>2, LeaveOwners
<1>8. QED
  BY <1>1, <1>2, <1>3, <1>4, <1>5, <1>6, <1>7 DEF Step

\* Every step keeps the pools accounted for.
LEMMA OwnerStep == TypeInv /\ OwnerInv /\ [Next]_vars => OwnerInv'
<1>1. ASSUME TypeInv, OwnerInv, NEW t \in Threads, Call(t) PROVE OwnerInv'
  <2>0. \A u \in Threads \ {t} : Untouched(u)
    BY <1>1, OthersUntouched
  <2>1. CASE pc[t] = "idle" /\ PoolCreate(t)
    BY <1>1, <2>0, <2>1, EnterOwners
  <2>2. CASE RejectType(t)
    <3>1. UNCHANGED <<pools, pc, poolId, abandoned>> /\ pc[t] = "idle"
      BY <2>2 DEF RejectType
    <3>2. \A u \in Threads : Owner(u)'
      BY <1>1, <2>0, <3>1 DEF OwnerInv, Owner, Untouched
    <3>3. QED
      BY <1>1, <3>1, <3>2 DEF OwnerInv, Owners, PoolsAbandonedOnlyWhen
  <2>3. QED
    BY <1>1, <2>1, <2>2 DEF Call, GetHostByName, GetHostByAddr
<1>2. ASSUME OwnerInv, UNCHANGED vars PROVE OwnerInv'
  BY <1>2 DEF vars, locals, history, OwnerInv, Owner, Owners, PoolsAbandonedOnlyWhen
<1>3. QED
  BY <1>1, <1>2, StepOwners DEF Next

\* A pool is left behind only by a call whose resolver could not be created, or
\* whose resolver or pool could not be destroyed, or by a gethostbyaddr whose
\* query failed.
THEOREM PoolsLeftOnlyWhen == Spec => []PoolsAbandonedOnlyWhen
<1>1. Init => OwnerInv
  BY DEF Init, OwnerInv, Owner, Owners, PoolsAbandonedOnlyWhen
<1>2. OwnerInv => PoolsAbandonedOnlyWhen
  BY DEF OwnerInv
<1>3. Spec => []OwnerInv
  BY ResolverInvariant, OwnerStep, <1>1, PTL DEF Spec
<1>4. QED
  BY <1>3, <1>2, PTL
=============================================================================
