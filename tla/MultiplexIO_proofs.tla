------------------------- MODULE MultiplexIO_proofs -------------------------
(***************************************************************************)
(* MultiplexIO is type correct and has its safety properties, for every    *)
(* set of sockets, every request vector, every timeout, every table size.  *)
(***************************************************************************)
EXTENDS MultiplexIO, FiniteSetTheorems, TLAPS

Entry == [ident : Fds, events : SUBSET SceEvents]

(***************************************************************************)
(* The conversion tables against the reference Condition.                  *)
(***************************************************************************)

\* What RemapUnixToSCEEvents returns are libnet's bits, whatever it is given.
LEMMA RemapType ==
  ASSUME NEW u
  PROVE  RemapUnixToSCEEvents(u) \in SUBSET SceEvents
  BY DEF RemapUnixToSCEEvents, vals, SceEvents

\* A row of a table, as a membership.
LEMMA SceBitBack ==
  ASSUME NEW S, NEW u
  PROVE  u \in RemapSCEToUnixEvents(S) <=> \E w \in vals : w[1] = u /\ w[2] \in S
  BY DEF RemapSCEToUnixEvents

\* A PollFlag PollEventsToPollFlags returns comes from a row of its table.
LEMMA FlagBack ==
  ASSUME NEW U, NEW flag
  PROVE  flag \in PollEventsToPollFlags(U) <=> \E w \in flagTable : w[1] = flag /\ w[2] \in U
  BY DEF PollEventsToPollFlags

\* A POLL bit PollFlagsToPollEvents returns comes from a row of its table.
LEMMA FlagForth ==
  ASSUME NEW F, NEW u
  PROVE  u \in PollFlagsToPollEvents(F) <=> \E w \in flagTable : w[2] = u /\ w[1] \in F
  BY DEF PollFlagsToPollEvents

\* A libnet bit RemapUnixToSCEEvents returns comes from a row of vals.
LEMMA SceBitForth ==
  ASSUME NEW U, NEW c
  PROVE  c \in RemapUnixToSCEEvents(U) <=> \E w \in vals : w[2] = c /\ w[1] \in U
  BY DEF RemapUnixToSCEEvents

\* From libnet's conditions to a flag: the two tables in a row.
LEMMA BackThroughTables ==
  ASSUME NEW flag \in PollFlags, NEW S
  PROVE  flag \in PollEventsToPollFlags(RemapSCEToUnixEvents(S))
           <=> Condition(flag) \cap S # {}
<1>1. flag \in PollEventsToPollFlags(RemapSCEToUnixEvents(S))
        <=> \E w \in flagTable, x \in vals : w[1] = flag /\ w[2] = x[1] /\ x[2] \in S
  BY SceBitBack, FlagBack
<1>2. CASE flag = "In"   BY <1>1, <1>2 DEF flagTable, vals, Condition
<1>3. CASE flag = "Pri"  BY <1>1, <1>3 DEF flagTable, vals, Condition
<1>4. CASE flag = "Out"  BY <1>1, <1>4 DEF flagTable, vals, Condition
<1>5. CASE flag = "Err"  BY <1>1, <1>5 DEF flagTable, vals, Condition
<1>6. CASE flag = "HUp"  BY <1>1, <1>6 DEF flagTable, vals, Condition
<1>7. CASE flag = "NVal" BY <1>1, <1>7 DEF flagTable, vals, Condition
<1>q. QED BY <1>2, <1>3, <1>4, <1>5, <1>6, <1>7 DEF PollFlags

\* From flags to libnet's conditions.
LEMMA ForthThroughTables ==
  ASSUME NEW flag \in PollFlags, NEW c
  PROVE  c \in RemapUnixToSCEEvents(PollFlagsToPollEvents({flag})) <=> c \in Condition(flag)
<1>1. c \in RemapUnixToSCEEvents(PollFlagsToPollEvents({flag}))
        <=> \E w \in flagTable, x \in vals : w[1] = flag /\ w[2] = x[1] /\ x[2] = c
  BY SceBitForth, FlagForth
<1>2. CASE flag = "In"   BY <1>1, <1>2 DEF flagTable, vals, Condition
<1>3. CASE flag = "Pri"  BY <1>1, <1>3 DEF flagTable, vals, Condition
<1>4. CASE flag = "Out"  BY <1>1, <1>4 DEF flagTable, vals, Condition
<1>5. CASE flag = "Err"  BY <1>1, <1>5 DEF flagTable, vals, Condition
<1>6. CASE flag = "HUp"  BY <1>1, <1>6 DEF flagTable, vals, Condition
<1>7. CASE flag = "NVal" BY <1>1, <1>7 DEF flagTable, vals, Condition
<1>q. QED BY <1>2, <1>3, <1>4, <1>5, <1>6, <1>7 DEF PollFlags

\* The mask of a request asks for the conditions of its flags, and no other.
LEMMA MaskThroughTables ==
  ASSUME NEW r \in Request, NEW c
  PROVE  c \in SceMask(r) <=> \E flag \in r.events : c \in Condition(flag)
<1>1. r.events \subseteq PollFlags
  BY DEF Request
<1>2. c \in SceMask(r)
        <=> \E flag \in r.events : c \in RemapUnixToSCEEvents(PollFlagsToPollEvents({flag}))
  <2>1. c \in SceMask(r)
          <=> \E x \in vals, w \in flagTable : x[2] = c /\ w[2] = x[1] /\ w[1] \in r.events
    BY SceBitForth, FlagForth DEF SceMask
  <2>2. \A flag : c \in RemapUnixToSCEEvents(PollFlagsToPollEvents({flag}))
          <=> \E x \in vals, w \in flagTable : x[2] = c /\ w[2] = x[1] /\ w[1] = flag
    BY SceBitForth, FlagForth
  <2>3. ASSUME NEW flag \in r.events,
               c \in RemapUnixToSCEEvents(PollFlagsToPollEvents({flag}))
        PROVE  c \in SceMask(r)
    <3>1. PICK x \in vals, w \in flagTable : x[2] = c /\ w[2] = x[1] /\ w[1] = flag
      BY <2>2, <2>3
    <3>q. QED BY <2>1, <2>3, <3>1
  <2>4. ASSUME c \in SceMask(r)
        PROVE  \E flag \in r.events : c \in RemapUnixToSCEEvents(PollFlagsToPollEvents({flag}))
    <3>1. PICK x \in vals, w \in flagTable : x[2] = c /\ w[2] = x[1] /\ w[1] \in r.events
      BY <2>1, <2>4
    <3>2. c \in RemapUnixToSCEEvents(PollFlagsToPollEvents({w[1]}))
      BY <2>2, <3>1
    <3>q. QED BY <3>1, <3>2
  <2>q. QED BY <2>3, <2>4
<1>q. QED BY <1>1, <1>2, ForthThroughTables

-----------------------------------------------------------------------------
(* What Poll computes. *)

\* The first pass of Poll fills epoll_events with entries of the sockets
\* asked for: the requests without a socket are gone.
LEMMA MergedType ==
  ASSUME NEW reqs \in Seq(Request)
  PROVE  Merged(reqs) \in SUBSET Entry
<1>0. \A i \in DOMAIN reqs : reqs[i] \in Request
  OBVIOUS
<1>1. RequestedFds(reqs) \subseteq Fds
  BY <1>0 DEF RequestedFds, Request
<1>2. ASSUME NEW f PROVE
        UNION {SceMask(reqs[i]) : i \in {j \in DOMAIN reqs : reqs[j].fd = f}} \in SUBSET SceEvents
  BY RemapType DEF SceMask
<1>q. QED BY <1>1, <1>2 DEF Merged, Entry

\* The merge makes no more entries than there are sockets asked for.
LEMMA MergedFits ==
  ASSUME NEW reqs \in Seq(Request), ~Rejected(reqs)
  PROVE  Cardinality(Merged(reqs)) < MaxEvents
<1> DEFINE S == RequestedFds(reqs)
           Mask(f) == UNION {SceMask(reqs[i]) : i \in {j \in DOMAIN reqs : reqs[j].fd = f}}
           entry == [f \in S |-> [ident |-> f, events |-> Mask(f)]]
<1>0. \A i \in DOMAIN reqs : reqs[i] \in Request
  OBVIOUS
<1>1. S \subseteq Fds
  BY <1>0 DEF RequestedFds, Request
<1>2. IsFiniteSet(S)
  BY <1>1, FS_Subset, MultiplexAssumption
<1>3. entry \in Surjection(S, Merged(reqs))
  BY DEF Merged, Surjection
<1>4. Cardinality(Merged(reqs)) <= Cardinality(S) /\ IsFiniteSet(Merged(reqs))
  BY <1>2, <1>3, FS_Surjection
<1>5. Cardinality(Merged(reqs)) \in Nat /\ Cardinality(S) \in Nat
  BY <1>2, <1>4, FS_CardinalityType
<1>q. QED BY <1>4, <1>5, MultiplexAssumption DEF Rejected

\* The merge leaves one entry per socket.
LEMMA MergedUnique ==
  ASSUME NEW reqs, NEW d \in Merged(reqs), NEW e \in Merged(reqs), d.ident = e.ident
  PROVE  d = e
  BY DEF Merged

\* The entry of a socket asks for what the requests for that socket ask for.
LEMMA MergedAsks ==
  ASSUME NEW reqs \in Seq(Request), NEW i \in DOMAIN reqs, reqs[i].fd \in Fds,
         NEW c \in SceMask(reqs[i])
  PROVE  \E e \in Merged(reqs) : e.ident = reqs[i].fd /\ c \in e.events
<1>1. reqs[i].fd \in RequestedFds(reqs)
  BY MultiplexAssumption DEF RequestedFds
<1> DEFINE U == UNION {SceMask(reqs[l]) : l \in {j \in DOMAIN reqs : reqs[j].fd = reqs[i].fd}}
<1>2. [ident |-> reqs[i].fd, events |-> U] \in Merged(reqs)
  BY <1>1 DEF Merged
<1>3. c \in U
  OBVIOUS
<1>q. QED BY <1>2, <1>3

\* The matching pass leaves a request a request.
LEMMA AnsweredType ==
  ASSUME NEW r \in Request, NEW results
  PROVE  Answered(r, results) \in Request
  BY DEF Answered, Request

\* What Poll hands to sceNetEpollWait is a number, wrapped or not.
LEMMA WaitTimeoutType ==
  ASSUME NEW t \in Int
  PROVE  WaitTimeout(t) \in Int
<1>1. ASSUME NEW x \in Int PROVE Int32(x) \in Int
  BY <1>1, MultiplexAssumption DEF Int32
<1>2. t * Scale \in Int
  BY MultiplexAssumption
<1>q. QED BY <1>1, <1>2 DEF WaitTimeout

\* CTL_DEL, or a close, takes the entry of a socket away and adds nothing.
LEMMA WithoutSubset ==
  ASSUME NEW S, NEW f
  PROVE  /\ Without(S, f) \subseteq S
         /\ f \notin Idents(Without(S, f))
  BY DEF Without, Idents

\* What sceNetEpollWait fills in has the form of an entry.
LEMMA ReportType ==
  ASSUME NEW S \in SUBSET Entry, NEW R \in [Fds -> SUBSET SceEvents]
  PROVE  Report(S, R) \in SUBSET Entry
  BY DEF Report, Reported, Entry

-----------------------------------------------------------------------------
(* Type correctness. *)

\* The types hold at the start.
LEMMA TypeInit == Init => TypeOK
<1>1. <<>> \in Seq(Request)
  OBVIOUS
<1>2. NothingSeen \in [Fds -> SUBSET SceEvents]
  BY DEF NothingSeen
<1>3. Init => requests \in Seq(Request) /\ asked \in Seq(Request)
  BY <1>1 DEF Init
<1>4. Init => timeout \in Int /\ waitTimeout \in Int
  BY DEF Init
<1>5. Init => ready \in [Fds -> SUBSET SceEvents] /\ seen \in [Fds -> SUBSET SceEvents]
  BY <1>2 DEF Init
<1>q. QED BY <1>3, <1>4, <1>5 DEF Init, TypeOK

\* Every libnet call, of every thread, keeps the types.
LEMMA TypeNext == TypeOK /\ [Next]_vars => TypeOK'
<1> SUFFICES ASSUME TypeOK, [Next]_vars PROVE TypeOK'
  OBVIOUS
<1> USE DEF TypeOK, epollVars, socketVars, callVars
<1>1. CASE Construct
  BY <1>1 DEF Construct
<1>2. CASE Destroy
  BY <1>2 DEF Destroy
<1>3. ASSUME NEW reqs \in Calls, NEW t \in Timeouts, RejectPoll(reqs, t) PROVE TypeOK'
  <2>1. reqs \in Seq(Request) /\ t \in Int
    BY MultiplexAssumption
  <2>q. QED BY <1>3, <2>1 DEF RejectPoll, EnterPoll, NothingSeen
<1>4. ASSUME NEW reqs \in Calls, NEW t \in Timeouts, StartPoll(reqs, t) PROVE TypeOK'
  <2>1. reqs \in Seq(Request) /\ t \in Int
    BY MultiplexAssumption
  <2>2. Merged(reqs) \in SUBSET Entry
    BY <2>1, MergedType
  <2>3. Cardinality(Merged(reqs)) < MaxEvents
    BY <1>4, <2>1, MergedFits DEF StartPoll
  <2>q. QED BY <1>4, <2>1, <2>2, <2>3 DEF StartPoll, EnterPoll, NothingSeen, Entry
<1>5. ASSUME NEW e \in pending, Add(e) PROVE TypeOK'
  BY <1>5 DEF Add
<1>6. ASSUME NEW e \in pending, Del(e) PROVE TypeOK'
  <2>1. interest' \subseteq interest
    BY <1>6, WithoutSubset DEF Del
  <2>q. QED BY <1>6, <2>1 DEF Del
<1>7. CASE BeginWait
  BY <1>7, WaitTimeoutType DEF BeginWait
<1>8. CASE WaitReady
  <2>1. Report(interest, ready) \in SUBSET Entry
    BY ReportType DEF Entry
  <2>q. QED BY <1>8, <2>1 DEF WaitReady, LeaveWait, Entry
<1>9. CASE WaitAborted
  BY <1>9 DEF WaitAborted, LeaveWait, NothingSeen
<1>10. CASE WaitTimedOut
  BY <1>10 DEF WaitTimedOut, LeaveWait, NothingSeen
<1>11. CASE WaitFailed
  BY <1>11 DEF WaitFailed, LeaveWait, NothingSeen
<1>12. CASE Return
  <2>1. \A i \in DOMAIN requests : Answered(requests[i], epoll_result_events) \in Request
    BY AnsweredType
  <2>2. requests' \in Seq(Request)
    BY <1>12, <2>1 DEF Return
  <2>q. QED BY <1>12, <2>2 DEF Return
<1>13. CASE InterruptPoll
  BY <1>13 DEF InterruptPoll
<1>14. ASSUME NEW f \in Fds, NEW c \in Conditions, SocketReadiness(f, c) PROVE TypeOK'
  BY <1>14, MultiplexAssumption DEF SocketReadiness
<1>15. ASSUME NEW f \in Fds, SocketClose(f) PROVE TypeOK'
  <2>1. interest' \subseteq interest
    BY <1>15, WithoutSubset DEF SocketClose
  <2>q. QED BY <1>15, <2>1 DEF SocketClose
<1>16. ASSUME NEW f \in Fds, SocketOpen(f) PROVE TypeOK'
  BY <1>16 DEF SocketOpen
<1>17. CASE UNCHANGED vars
  BY <1>17 DEF vars
<1>q. QED
  BY <1>1, <1>2, <1>3, <1>4, <1>5, <1>6, <1>7, <1>8, <1>9, <1>10, <1>11, <1>12, <1>13,
     <1>14, <1>15, <1>16, <1>17 DEF Next, PollCall, PollerStep, OtherThreads

\* Whatever the sockets, the other threads and the callers do, the state of
\* MultiplexIO and of its poller stays within its types.
THEOREM TypeCorrect == Spec => []TypeOK
<1>1. Init => TypeOK
  BY TypeInit
<1>2. TypeOK /\ [Next]_vars => TypeOK'
  BY TypeNext
<1>q. QED BY <1>1, <1>2, PTL DEF Spec

-----------------------------------------------------------------------------
(* The registrations: which entries may be on the interest list when. *)

RegistrationInv ==
  /\ m_epollId = "none" => pc = "idle"
  /\ \A d, e \in epoll_events : d.ident = e.ident => d = e
  /\ pc = "idle" => interest = {}
  /\ pc = "add"  => interest \cap pending = {}
  /\ pc \in {"add", "wait"} => interest \subseteq epoll_events
  /\ pc = "del"  => interest \subseteq pending

\* Nothing is registered at the start.
LEMMA RegistrationInit == Init => RegistrationInv
  BY DEF Init, RegistrationInv

\* Every step keeps the account of which entries are registered, of which
\* are still to be added, and of which are still to be deleted.
LEMMA RegistrationNext == TypeOK /\ RegistrationInv /\ [Next]_vars => RegistrationInv'
<1> SUFFICES ASSUME TypeOK, RegistrationInv, [Next]_vars PROVE RegistrationInv'
  OBVIOUS
<1> USE DEF RegistrationInv, epollVars, socketVars, callVars
<1>1. CASE Construct
  BY <1>1 DEF Construct
<1>2. CASE Destroy
  BY <1>2 DEF Destroy
<1>3. ASSUME NEW reqs, NEW t, RejectPoll(reqs, t) PROVE RegistrationInv'
  BY <1>3 DEF RejectPoll, EnterPoll
<1>4. ASSUME NEW reqs, NEW t, StartPoll(reqs, t) PROVE RegistrationInv'
  <2>1. \A d, e \in Merged(reqs) : d.ident = e.ident => d = e
    BY MergedUnique
  <2>q. QED BY <1>4, <2>1 DEF StartPoll, EnterPoll
<1>5. ASSUME NEW e \in pending, Add(e) PROVE RegistrationInv'
  BY <1>5 DEF Add, TypeOK
<1>6. ASSUME NEW e \in pending, Del(e) PROVE RegistrationInv'
  <2>1. interest' \subseteq pending'
    BY <1>6 DEF Del, Without
  <2>q. QED BY <1>6, <2>1 DEF Del
<1>7. CASE BeginWait
  BY <1>7 DEF BeginWait
<1>8. ASSUME NEW results, NEW saw, LeaveWait(results, saw) PROVE RegistrationInv'
  BY <1>8 DEF LeaveWait
<1>9. CASE Return
  BY <1>9 DEF Return
<1>10. CASE InterruptPoll
  BY <1>10 DEF InterruptPoll
<1>11. ASSUME NEW f, NEW c, SocketReadiness(f, c) PROVE RegistrationInv'
  BY <1>11 DEF SocketReadiness
<1>12. ASSUME NEW f, SocketClose(f) PROVE RegistrationInv'
  <2>1. interest' \subseteq interest
    BY <1>12, WithoutSubset DEF SocketClose
  <2>q. QED BY <1>12, <2>1 DEF SocketClose
<1>13. ASSUME NEW f, SocketOpen(f) PROVE RegistrationInv'
  BY <1>13 DEF SocketOpen
<1>14. CASE UNCHANGED vars
  BY <1>14 DEF vars
<1>15. CASE WaitReady \/ WaitAborted \/ WaitTimedOut \/ WaitFailed
  BY <1>8, <1>15 DEF WaitReady, WaitAborted, WaitTimedOut, WaitFailed
<1>q. QED
  BY <1>1, <1>2, <1>3, <1>4, <1>5, <1>6, <1>7, <1>9, <1>10, <1>11, <1>12, <1>13, <1>14,
     <1>15 DEF Next, PollCall, PollerStep, OtherThreads

\* The account of the interest list holds in every state, for every set of
\* sockets and every vector of requests; the next two theorems read it.
THEOREM RegistrationCorrect == Spec => []RegistrationInv
<1>1. Init => RegistrationInv
  BY RegistrationInit
<1>2. TypeOK /\ RegistrationInv /\ [Next]_vars => RegistrationInv'
  BY RegistrationNext
<1>q. QED BY <1>1, <1>2, TypeCorrect, PTL DEF Spec

\* A CTL_ADD is never issued for a socket that is already on the interest list:
\* the merge leaves one entry per socket, and nothing is left by earlier calls.
THEOREM NeverAddedTwice == Spec => []NoDuplicateAdd
<1>1. TypeOK /\ RegistrationInv => NoDuplicateAdd
  BY DEF TypeOK, RegistrationInv, NoDuplicateAdd, Idents
<1>q. QED BY <1>1, TypeCorrect, RegistrationCorrect, PTL

\* However a Poll ends, it leaves nothing on the interest list.
THEOREM NothingLeftRegistered == Spec => []RegistrationsReturned
<1>1. RegistrationInv => RegistrationsReturned
  BY DEF RegistrationInv, RegistrationsReturned
<1>q. QED BY <1>1, RegistrationCorrect, PTL

-----------------------------------------------------------------------------
(* Interruption. *)

InterruptInv == pc \in {"add", "wait"} /\ interrupted => aborted

\* Every step keeps an interruption: only the wait consumes it.
LEMMA InterruptNext == RegistrationInv /\ InterruptInv /\ [Next]_vars => InterruptInv'
<1> SUFFICES ASSUME RegistrationInv, InterruptInv, [Next]_vars PROVE InterruptInv'
  OBVIOUS
<1> USE DEF InterruptInv, epollVars, socketVars, callVars
<1>1. CASE Construct \/ Destroy
  <2>1. pc' = "idle"
    BY <1>1 DEF Construct, Destroy, RegistrationInv
  <2>q. QED BY <2>1
<1>2. CASE PollCall
  <2>1. PICK reqs \in Calls, t \in Timeouts : EnterPoll(reqs, t)
    BY <1>2 DEF PollCall, RejectPoll, StartPoll
  <2>2. interrupted' = FALSE
    BY <2>1 DEF EnterPoll
  <2>q. QED BY <2>2
<1>3. CASE \E e \in pending : Add(e) \/ Del(e)
  <2>1. UNCHANGED <<pc, interrupted, aborted>>
    BY <1>3 DEF Add, Del
  <2>q. QED BY <2>1
<1>4. CASE BeginWait \/ Return
  <2>1. /\ UNCHANGED <<interrupted, aborted>>
        /\ pc = "add" \/ pc' = "idle"
    BY <1>4 DEF BeginWait, Return
  <2>q. QED BY <2>1
<1>5. CASE WaitReady \/ WaitAborted \/ WaitTimedOut \/ WaitFailed
  <2>1. pc' = "del"
    BY <1>5 DEF WaitReady, WaitAborted, WaitTimedOut, WaitFailed, LeaveWait
  <2>q. QED BY <2>1
<1>6. CASE OtherThreads
  <2>1. CASE InterruptPoll
    BY <2>1 DEF InterruptPoll
  <2>2. CASE UNCHANGED <<pc, interrupted, aborted>>
    BY <2>2
  <2>q. QED BY <1>6, <2>1, <2>2 DEF OtherThreads, SocketReadiness, SocketClose, SocketOpen
<1>7. CASE UNCHANGED vars
  BY <1>7 DEF vars
<1>q. QED BY <1>1, <1>2, <1>3, <1>4, <1>5, <1>6, <1>7 DEF Next, PollerStep

\* An InterruptPoll between the entry of Poll and its wait is found by the
\* wait: nobody else consumes the preserved abort.
THEOREM InterruptKept == Spec => []NoLostInterrupt
<1>1. Init => InterruptInv
  BY DEF Init, InterruptInv
<1>2. RegistrationInv /\ InterruptInv /\ [Next]_vars => InterruptInv'
  BY InterruptNext
<1>3. InterruptInv => NoLostInterrupt
  BY DEF InterruptInv, NoLostInterrupt
<1>q. QED BY <1>1, <1>2, <1>3, RegistrationCorrect, PTL DEF Spec

-----------------------------------------------------------------------------
(* The answers. *)

\* What the wait brought, for one socket: the conditions seen that somebody
\* asked for, or that come unasked.
Brought(f, c) ==
  /\ c \in seen[f]
  /\ \/ c \in UnaskedEvents
     \/ \E e \in epoll_events : e.ident = f /\ c \in e.events

AnswerInv ==
  /\ pc # "idle" => epoll_events = Merged(requests) /\ requests = asked
  /\ pc = "del" => \A f \in Fds, c \in SceEvents :
       (\E r \in epoll_result_events : r.ident = f /\ c \in r.events) <=> Brought(f, c)
  /\ AnswersExact

\* What the report of a wait contains, when the entries' sockets are distinct.
LEMMA ReportExact ==
  ASSUME interest \subseteq epoll_events,
         \A d, e \in epoll_events : d.ident = e.ident => d = e
  PROVE  \A f \in Fds, c \in SceEvents :
           (\E r \in Report(interest, ready) : r.ident = f /\ c \in r.events)
             <=> /\ f \in Idents(interest) /\ c \in ready[f]
                 /\ c \in UnaskedEvents \/ \E e \in epoll_events : e.ident = f /\ c \in e.events
<1> TAKE f \in Fds, c \in SceEvents
<1>1. ASSUME NEW r \in Report(interest, ready), r.ident = f, c \in r.events
      PROVE  /\ f \in Idents(interest) /\ c \in ready[f]
             /\ c \in UnaskedEvents \/ \E e \in epoll_events : e.ident = f /\ c \in e.events
  BY <1>1 DEF Report, Reported, Idents
<1>2. ASSUME f \in Idents(interest), c \in ready[f],
             c \in UnaskedEvents \/ \E e \in epoll_events : e.ident = f /\ c \in e.events
      PROVE  \E r \in Report(interest, ready) : r.ident = f /\ c \in r.events
  <2>1. PICK d \in interest : d.ident = f
    BY <1>2 DEF Idents
  <2>2. c \in d.events \cup UnaskedEvents
    BY <1>2, <2>1
  <2>3. Reported(d, ready).ident = f /\ c \in Reported(d, ready).events
    BY <1>2, <2>1, <2>2 DEF Reported
  <2>q. QED BY <2>1, <2>3 DEF Report
<1>q. QED BY <1>1, <1>2

\* Before the first Poll there is no answer to be wrong.
LEMMA AnswerInit == Init => AnswerInv
  BY DEF Init, AnswerInv, AnswersExact

\* The matching pass turns what the wait brought into exact answers.
LEMMA ReturnExact ==
  ASSUME TypeOK, AnswerInv, Return
  PROVE  AnswersExact'
<1>1. /\ requests = asked /\ epoll_events = Merged(asked) /\ pc = "del"
      /\ asked' = asked /\ seen' = seen
      /\ requests' = [i \in DOMAIN asked |-> Answered(asked[i], epoll_result_events)]
  BY DEF AnswerInv, Return
<1>2. ASSUME NEW i \in DOMAIN asked
      PROVE  requests'[i].revents =
               asked[i].revents \cup
                 {flag \in asked[i].events : \E f \in Fds :
                    f = asked[i].fd /\ Condition(flag) \cap seen[f] # {}}
  <2> DEFINE r == asked[i]
  <2>1. r \in Request /\ asked \in Seq(Request)
    BY DEF TypeOK
  <2>2. requests'[i].revents = r.revents \cup
          UNION {r.events \cap PollEventsToPollFlags(RemapSCEToUnixEvents(e.events)) :
                   e \in {x \in epoll_result_events : x.ident = r.fd}}
    BY <1>1, <2>1 DEF Answered, Request
  <2>3. ASSUME NEW flag \in r.events
        PROVE  (\E e \in epoll_result_events : e.ident = r.fd /\
                   flag \in PollEventsToPollFlags(RemapSCEToUnixEvents(e.events)))
               <=> (\E f \in Fds : f = r.fd /\ Condition(flag) \cap seen[f] # {})
    <3>1. flag \in PollFlags
      BY <2>1 DEF Request
    <3>2. ASSUME NEW e \in epoll_result_events, e.ident = r.fd,
                 flag \in PollEventsToPollFlags(RemapSCEToUnixEvents(e.events))
          PROVE  \E f \in Fds : f = r.fd /\ Condition(flag) \cap seen[f] # {}
      <4>1. e.ident \in Fds /\ e.events \subseteq SceEvents
        BY DEF TypeOK
      <4>2. PICK c \in Condition(flag) : c \in e.events
        BY <3>1, <3>2, BackThroughTables
      <4>3. c \in seen[e.ident]
        BY <1>1, <4>1, <4>2 DEF AnswerInv, Brought
      <4>q. QED BY <3>2, <4>1, <4>2, <4>3
    <3>3. ASSUME NEW f \in Fds, f = r.fd, Condition(flag) \cap seen[f] # {}
          PROVE  \E e \in epoll_result_events : e.ident = r.fd /\
                   flag \in PollEventsToPollFlags(RemapSCEToUnixEvents(e.events))
      <4>1. PICK c \in Condition(flag) : c \in seen[f]
        BY <3>3
      <4>2. c \in SceEvents
        BY <4>1 DEF TypeOK
      <4>3. c \in SceMask(r)
        BY <2>1, <4>1, MaskThroughTables
      <4>4. \E e \in Merged(asked) : e.ident = f /\ c \in e.events
        BY <2>1, <3>3, <4>3, MergedAsks
      <4>5. Brought(f, c)
        BY <1>1, <4>1, <4>4 DEF Brought
      <4>6. PICK e \in epoll_result_events : e.ident = f /\ c \in e.events
        BY <1>1, <4>2, <4>5 DEF AnswerInv
      <4>q. QED BY <3>1, <3>3, <4>1, <4>6, BackThroughTables
    <3>q. QED BY <3>2, <3>3
  <2>q. QED BY <2>2, <2>3
<1>q. QED BY <1>1, <1>2 DEF AnswersExact

\* Every step keeps the account of what the wait brought, and Return turns it
\* into exact answers.
LEMMA AnswerNext ==
  TypeOK /\ RegistrationInv /\ AnswerInv /\ [Next]_vars => AnswerInv'
<1> SUFFICES ASSUME TypeOK, RegistrationInv, AnswerInv, [Next]_vars PROVE AnswerInv'
  OBVIOUS
\* Steps after which the poller is outside Poll, or only begins: no answers change.
<1>1. CASE Construct \/ Destroy
  BY <1>1 DEF Construct, Destroy, RegistrationInv, AnswerInv, AnswersExact, callVars
<1>2. ASSUME NEW reqs, NEW t, RejectPoll(reqs, t) PROVE AnswerInv'
  BY <1>2 DEF RejectPoll, EnterPoll, AnswerInv, AnswersExact
<1>3. ASSUME NEW reqs, NEW t, StartPoll(reqs, t) PROVE AnswerInv'
  BY <1>3 DEF StartPoll, EnterPoll, AnswerInv, AnswersExact
<1>4. ASSUME NEW e \in pending, Add(e) PROVE AnswerInv'
  BY <1>4 DEF Add, AnswerInv, AnswersExact, callVars
<1>5. CASE BeginWait
  BY <1>5 DEF BeginWait, AnswerInv, AnswersExact, callVars
\* The wait returns: this is where what it brought is decided.
<1>6. ASSUME NEW results, NEW saw, LeaveWait(results, saw),
             \A f \in Fds, c \in SceEvents :
               (\E r \in results : r.ident = f /\ c \in r.events)
                 <=> /\ c \in saw[f]
                     /\ c \in UnaskedEvents \/ \E e \in epoll_events : e.ident = f /\ c \in e.events
      PROVE  AnswerInv'
  BY <1>6 DEF LeaveWait, AnswerInv, AnswersExact, Brought, callVars
<1>7. CASE WaitReady
  <2> DEFINE saw == [f \in Fds |-> IF f \in Idents(interest) THEN ready[f] ELSE {}]
  <2>1. pc = "wait" /\ interest \subseteq epoll_events
    BY <1>7 DEF WaitReady, LeaveWait, RegistrationInv
  <2>2. \A f \in Fds, c \in SceEvents :
          (\E r \in Report(interest, ready) : r.ident = f /\ c \in r.events)
            <=> /\ f \in Idents(interest) /\ c \in ready[f]
                /\ c \in UnaskedEvents \/ \E e \in epoll_events : e.ident = f /\ c \in e.events
    <3>1. \A d, e \in epoll_events : d.ident = e.ident => d = e
      BY DEF RegistrationInv
    <3>q. QED BY <2>1, <3>1, ReportExact
  <2>3. \A f \in Fds, c \in SceEvents :
          c \in saw[f] <=> f \in Idents(interest) /\ c \in ready[f]
    OBVIOUS
  <2>4. LeaveWait(Report(interest, ready), saw)
    BY <1>7 DEF WaitReady
  <2> HIDE DEF saw
  <2>q. QED BY <1>6, <2>2, <2>3, <2>4
<1>8. CASE WaitAborted \/ WaitTimedOut \/ WaitFailed
  <2>1. LeaveWait({}, NothingSeen)
    BY <1>8 DEF WaitAborted, WaitTimedOut, WaitFailed
  <2>2. \A f \in Fds : NothingSeen[f] = {}
    BY DEF NothingSeen
  <2>q. QED BY <1>6, <2>1, <2>2
<1>9. ASSUME NEW e \in pending, Del(e) PROVE AnswerInv'
  BY <1>9 DEF Del, AnswerInv, AnswersExact, Brought, callVars
<1>10. CASE Return
  BY <1>10, ReturnExact DEF Return, AnswerInv
<1>11. CASE OtherThreads
  <2>1. UNCHANGED <<callVars, pc, epoll_events, epoll_result_events, status, seen>>
    BY <1>11 DEF OtherThreads, InterruptPoll, SocketReadiness, SocketClose, SocketOpen
  <2>q. QED BY <2>1 DEF AnswerInv, AnswersExact, Brought, callVars
<1>12. CASE UNCHANGED vars
  BY <1>12 DEF vars, AnswerInv, AnswersExact, Brought, callVars
<1>q. QED
  BY <1>1, <1>2, <1>3, <1>4, <1>5, <1>7, <1>8, <1>9, <1>10, <1>11, <1>12
     DEF Next, PollCall, PollerStep

\* A successful Poll answers every request exactly: the merge loses nothing,
\* the conversions lose nothing, and no answer reaches another request.
THEOREM AnswersCorrect == Spec => []AnswersExact
<1>1. Init => AnswerInv
  BY AnswerInit
<1>2. TypeOK /\ RegistrationInv /\ AnswerInv /\ [Next]_vars => AnswerInv'
  BY AnswerNext
<1>3. AnswerInv => AnswersExact
  BY DEF AnswerInv
<1>q. QED BY <1>1, <1>2, <1>3, TypeCorrect, RegistrationCorrect, PTL DEF Spec
=============================================================================
