---------------------------- MODULE MultiplexIO -----------------------------
(***************************************************************************)
(* il2cpp::Sockets::MultiplexIO: a long-lived epoll object, the poller     *)
(* thread that calls Poll on it, and the other threads that meanwhile call *)
(* InterruptPoll, move data through the sockets, close them and open new   *)
(* ones under a freed descriptor.                                          *)
(*                                                                         *)
(* One step is one libnet call; what Poll computes between two calls       *)
(* touches nothing shared and is part of the neighbouring step.  The array *)
(* epoll_events is the set of its entries: the passes over it do the same  *)
(* to each entry, in an order nothing depends on.                          *)
(***************************************************************************)
EXTENDS SceEpoll, Integers, Sequences, FiniteSets

CONSTANTS
  Fds,          \* socket descriptors
  NoFd,         \* -1, a request without a socket
  MaxEvents,    \* MAX_EVENTS
  Scale,        \* the factor Poll multiplies a timeout with (10000)
  IntMax,       \* INT32_MAX: the width of timeout
  Conditions,   \* what a socket's readiness may be
  Calls,        \* the request vectors Poll is called with
  Timeouts      \* the timeouts it is called with

Request == [fd : Fds \cup {NoFd}, events : SUBSET PollFlags, revents : SUBSET PollFlags]

ASSUME MultiplexAssumption ==
  /\ NoFd \notin Fds
  /\ IsFiniteSet(Fds)
  /\ MaxEvents \in Nat
  /\ Scale \in Nat /\ IntMax \in Nat
  /\ Conditions \subseteq SUBSET SceEvents
  /\ Calls \subseteq Seq(Request)
  /\ Timeouts \subseteq Int

VARIABLES
  m_epollId,            \* "none" (no object), "valid", "invalid" (create failed)
  interest,             \* the interest list of the epoll object
  aborted,              \* a preserved sceNetEpollAbort, not yet consumed
  open,                 \* the open sockets
  ready,                \* what each socket is ready for
  pc,                   \* the poller: "idle", or its pass "add", "wait", "del"
  requests,             \* the caller's vector
  timeout,              \* the timeout Poll was called with (milliseconds)
  waitTimeout,          \* the value handed to sceNetEpollWait
  epoll_events,         \* the merged entries of this call
  pending,              \* those the current pass has not reached yet
  epoll_result_events,  \* what the wait returned
  status,               \* the last os::WaitStatus returned
  asked,                \* history: requests as the caller passed them
  seen,                 \* history: readiness of the listed sockets when the wait returned
  interrupted           \* history: InterruptPoll was called since Poll entered

epollVars  == <<m_epollId, interest, aborted>>
socketVars == <<open, ready>>
callVars   == <<requests, timeout, asked>>
vars == <<epollVars, socketVars, callVars, pc, waitTimeout, epoll_events,
          pending, epoll_result_events, status, seen, interrupted>>

NothingSeen == [f \in Fds |-> {}]

\* The arrays of a Poll hold entries of sockets only, requests without a socket
\* (fd -1) having been merged away; they fit the table, whatever the requests
\* and their duplicates; and the pass never visits an entry that is not this
\* call's.
TypeOK ==
  /\ m_epollId \in {"none", "valid", "invalid"}
  /\ interest \subseteq [ident : Fds, events : SUBSET SceEvents]
  /\ aborted \in BOOLEAN
  /\ open \subseteq Fds
  /\ ready \in [Fds -> SUBSET SceEvents]
  /\ pc \in {"idle", "add", "wait", "del"}
  /\ requests \in Seq(Request)
  /\ timeout \in Int
  /\ waitTimeout \in Int
  /\ epoll_events \subseteq [ident : Fds, events : SUBSET SceEvents]
  /\ epoll_events # {} => Cardinality(epoll_events) < MaxEvents
  /\ pending \subseteq epoll_events
  /\ epoll_result_events \subseteq [ident : Fds, events : SUBSET SceEvents]
  /\ status \in {"none", "kWaitStatusSuccess", "kWaitStatusFailure"}
  /\ asked \in Seq(Request)
  /\ seen \in [Fds -> SUBSET SceEvents]
  /\ interrupted \in BOOLEAN

Init ==
  /\ m_epollId = "none" /\ interest = {} /\ aborted = FALSE
  /\ open = Fds /\ ready = NothingSeen
  /\ pc = "idle" /\ requests = <<>> /\ timeout = 0 /\ asked = <<>>
  /\ waitTimeout = 0 /\ epoll_events = {} /\ pending = {}
  /\ epoll_result_events = {} /\ status = "none"
  /\ seen = NothingSeen /\ interrupted = FALSE

-----------------------------------------------------------------------------
(* What Poll computes. *)

SceMask(r) == RemapUnixToSCEEvents(PollFlagsToPollEvents(r.events))

RequestedFds(reqs) == {reqs[i].fd : i \in DOMAIN reqs} \ {NoFd}

\* Mutants of Merged: one entry per request; the mask of the last request of
\* a socket instead of all of them (= for |=); a request without a socket kept.
MergedUnmerged(reqs) ==
  {[ident |-> reqs[i].fd, events |-> SceMask(reqs[i])] :
     i \in {j \in DOMAIN reqs : reqs[j].fd # NoFd}}
MergedLastWins(reqs) ==
  {[ident |-> reqs[i].fd, events |-> SceMask(reqs[i])] :
     i \in {j \in DOMAIN reqs : /\ reqs[j].fd # NoFd
                                /\ \A l \in DOMAIN reqs :
                                     reqs[l].fd = reqs[j].fd => l <= j}}
MergedWithNoFd(reqs) ==
  {[ident |-> reqs[i].fd, events |-> SceMask(reqs[i])] : i \in DOMAIN reqs}

\* The first pass: one entry per socket, with the union of what all requests
\* for that socket ask.
Merged(reqs) ==
  {[ident  |-> f,
    events |-> UNION {SceMask(reqs[i]) : i \in {j \in DOMAIN reqs : reqs[j].fd = f}}] :
     f \in RequestedFds(reqs)}

\* Mutant: the merge does not look whether the table is full.
RejectedIfEmpty(reqs) == reqs = <<>>

\* No request at all, or the table of MAX_EVENTS entries filled up.
Rejected(reqs) ==
  \/ reqs = <<>>
  \/ Cardinality(RequestedFds(reqs)) >= MaxEvents

\* A product that leaves the 32-bit range wraps around.
Int32(x) == ((x + IntMax + 1) % (2 * (IntMax + 1))) - (IntMax + 1)

\* Mutant: a zero timeout waits for ever.
WaitTimeoutPositive(t) == IF t > 0 THEN Int32(t * Scale) ELSE -1
WaitTimeout(t) == IF t >= 0 THEN Int32(t * Scale) ELSE -1

\* Mutant: what was reported is stored without the mask of what was asked.
AnsweredUnmasked(r, results) ==
  [r EXCEPT !.revents = @ \cup
     UNION {PollEventsToPollFlags(RemapSCEToUnixEvents(e.events)) :
              e \in {x \in results : x.ident = r.fd}}]

\* The last pass, for one request.
Answered(r, results) ==
  [r EXCEPT !.revents = @ \cup
     UNION {r.events \cap PollEventsToPollFlags(RemapSCEToUnixEvents(e.events)) :
              e \in {x \in results : x.ident = r.fd}}]

-----------------------------------------------------------------------------
(* The life of the object. *)

Construct ==
  /\ m_epollId = "none"
  /\ m_epollId' \in {"valid", "invalid"}
  /\ interest' = {} /\ aborted' = FALSE
  /\ UNCHANGED <<socketVars, callVars, pc, waitTimeout, epoll_events, pending,
                 epoll_result_events, status, seen, interrupted>>

\* ~MultiplexIO: the owner destroys the object after its last Poll returned.
Destroy ==
  /\ m_epollId # "none" /\ pc = "idle"
  /\ m_epollId' = "none" /\ interest' = {} /\ aborted' = FALSE
  /\ UNCHANGED <<socketVars, callVars, pc, waitTimeout, epoll_events, pending,
                 epoll_result_events, status, seen, interrupted>>

-----------------------------------------------------------------------------
(* Poll, on the poller thread. *)

EnterPoll(reqs, t) ==
  /\ m_epollId # "none" /\ pc = "idle"
  /\ requests' = reqs /\ asked' = reqs /\ timeout' = t
  /\ seen' = NothingSeen /\ interrupted' = FALSE
  /\ UNCHANGED <<epollVars, socketVars, waitTimeout, epoll_result_events>>

\* The two early returns: nothing has been registered yet.
RejectPoll(reqs, t) ==
  /\ EnterPoll(reqs, t)
  /\ Rejected(reqs)
  /\ status' = "kWaitStatusFailure"
  /\ UNCHANGED <<pc, epoll_events, pending>>

StartPoll(reqs, t) ==
  /\ EnterPoll(reqs, t)
  /\ ~Rejected(reqs)
  /\ status' = "none"
  /\ pc' = "add"
  /\ epoll_events' = Merged(reqs)
  /\ pending' = Merged(reqs)

\* CTL_ADD of one entry.  A failure is printed and otherwise ignored.
Add(e) ==
  /\ pc = "add" /\ e \in pending
  /\ interest' = IF m_epollId = "valid" /\ CanAdd(interest, open, e.ident)
                 THEN interest \cup {e} ELSE interest
  /\ pending' = pending \ {e}
  /\ UNCHANGED <<m_epollId, aborted, socketVars, callVars, pc, waitTimeout,
                 epoll_events, epoll_result_events, status, seen, interrupted>>

BeginWait ==
  /\ pc = "add" /\ pending = {}
  /\ pc' = "wait"
  /\ waitTimeout' = WaitTimeout(timeout)
  /\ UNCHANGED <<epollVars, socketVars, callVars, epoll_events, pending,
                 epoll_result_events, status, seen, interrupted>>

\* Mutant: a wait that brought no events skips the CTL_DEL pass.
LeaveWaitEarly(results, saw) ==
  /\ pc = "wait" /\ pc' = "del"
  /\ pending' = IF results = {} THEN {} ELSE epoll_events
  /\ epoll_result_events' = results
  /\ seen' = saw
  /\ UNCHANGED <<m_epollId, interest, socketVars, callVars, waitTimeout,
                 epoll_events, status, interrupted>>

\* sceNetEpollWait returned; whatever it returned, every entry is then deleted.
LeaveWait(results, saw) ==
  /\ pc = "wait" /\ pc' = "del"
  /\ pending' = epoll_events
  /\ epoll_result_events' = results
  /\ seen' = saw
  /\ UNCHANGED <<m_epollId, interest, socketVars, callVars, waitTimeout,
                 epoll_events, status, interrupted>>

WaitReady ==
  /\ Report(interest, ready) # {}
  /\ LeaveWait(Report(interest, ready),
               [f \in Fds |-> IF f \in Idents(interest) THEN ready[f] ELSE {}])
  /\ UNCHANGED aborted

\* SCE_NET_ERROR_EINTR: the preserved abort is consumed, no events.
WaitAborted ==
  /\ aborted
  /\ LeaveWait({}, NothingSeen)
  /\ aborted' = FALSE

WaitTimedOut ==
  /\ m_epollId = "valid" /\ waitTimeout >= 0
  /\ LeaveWait({}, NothingSeen)
  /\ UNCHANGED aborted

\* Any other negative result: no epoll object, or a timeout that is negative
\* without being the -1 that stands for "no limit" (libnet may also block).
WaitFailed ==
  /\ m_epollId = "invalid" \/ waitTimeout < -1
  /\ LeaveWait({}, NothingSeen)
  /\ UNCHANGED aborted

\* CTL_DEL of one entry.  A failure is printed and otherwise ignored.
Del(e) ==
  /\ pc = "del" /\ e \in pending
  /\ interest' = Without(interest, e.ident)
  /\ pending' = pending \ {e}
  /\ UNCHANGED <<m_epollId, aborted, socketVars, callVars, pc, waitTimeout,
                 epoll_events, epoll_result_events, status, seen, interrupted>>

\* The matching pass and the return.  The arrays go out of scope.
Return ==
  /\ pc = "del" /\ pending = {}
  /\ requests' = [i \in DOMAIN requests |-> Answered(requests[i], epoll_result_events)]
  /\ status' = "kWaitStatusSuccess"
  /\ pc' = "idle"
  /\ epoll_events' = {} /\ epoll_result_events' = {} /\ waitTimeout' = 0
  /\ UNCHANGED <<epollVars, socketVars, timeout, asked, pending, seen, interrupted>>

-----------------------------------------------------------------------------
(* The other threads. *)

\* Mutant: without SCE_NET_EPOLL_ABORT_FLAG_PRESERVATION the abort only
\* reaches a thread that is already waiting.
InterruptPollUnpreserved ==
  /\ m_epollId = "valid"
  /\ aborted' = (aborted \/ pc = "wait")
  /\ interrupted' = (interrupted \/ pc \in {"add", "wait"})
  /\ UNCHANGED <<m_epollId, interest, socketVars, callVars, pc, waitTimeout,
                 epoll_events, pending, epoll_result_events, status, seen>>

\* An abort of an invalid id fails and changes nothing.
InterruptPoll ==
  /\ m_epollId = "valid"
  /\ aborted' = TRUE
  /\ interrupted' = (interrupted \/ pc \in {"add", "wait"})
  /\ UNCHANGED <<m_epollId, interest, socketVars, callVars, pc, waitTimeout,
                 epoll_events, pending, epoll_result_events, status, seen>>

SocketReadiness(f, c) ==
  /\ f \in open /\ c # ready[f]
  /\ ready' = [ready EXCEPT ![f] = c]
  /\ UNCHANGED <<epollVars, open, callVars, pc, waitTimeout, epoll_events,
                 pending, epoll_result_events, status, seen, interrupted>>

SocketClose(f) ==
  /\ f \in open
  /\ open' = open \ {f}
  /\ ready' = [ready EXCEPT ![f] = {}]
  /\ interest' = Without(interest, f)
  /\ UNCHANGED <<m_epollId, aborted, callVars, pc, waitTimeout, epoll_events,
                 pending, epoll_result_events, status, seen, interrupted>>

\* A new socket takes the descriptor of a closed one.
SocketOpen(f) ==
  /\ f \notin open
  /\ open' = open \cup {f}
  /\ UNCHANGED <<epollVars, ready, callVars, pc, waitTimeout, epoll_events,
                 pending, epoll_result_events, status, seen, interrupted>>

-----------------------------------------------------------------------------


\* The poller thread inside Poll.
PollerStep ==
  \/ \E e \in pending : Add(e) \/ Del(e)
  \/ BeginWait
  \/ WaitReady \/ WaitAborted \/ WaitTimedOut \/ WaitFailed
  \/ Return

PollCall ==
  \E reqs \in Calls, t \in Timeouts : RejectPoll(reqs, t) \/ StartPoll(reqs, t)

OtherThreads ==
  \/ InterruptPoll
  \/ \E f \in Fds : \/ \E c \in Conditions : SocketReadiness(f, c)
                    \/ SocketClose(f)
                    \/ SocketOpen(f)

Next == Construct \/ Destroy \/ PollCall \/ PollerStep \/ OtherThreads

\* A thread inside Poll keeps running, and a wait with a reason to return
\* returns.  Nobody has to call Poll, to interrupt it, or to send data.
Fairness == WF_vars(PollerStep)

Spec == Init /\ [][Next]_vars /\ Fairness

-----------------------------------------------------------------------------
(* Safety. *)

\* MultiplexIO.cpp:105, "there should be no duplicates": a CTL_ADD is never
\* issued for a socket that is already on the interest list, neither by this
\* call (the merge) nor left behind by an earlier one (the CTL_DEL pass).
NoDuplicateAdd ==
  pc = "add" => Idents(pending) \cap Idents(interest) = {}

\* However a Poll ended (rejected, interrupted, timed out, failed, or with some
\* CTL_ADD refused), it leaves nothing registered for the next one.
RegistrationsReturned ==
  pc = "idle" => interest = {}

\* When Poll returns success, the revents of every request are what the caller
\* left in them plus exactly the flags it asked for whose condition held on
\* its socket when the wait returned: nothing of another request for the same
\* socket, of another socket, or of an earlier call, and nothing missing.
AnswersExact ==
  pc = "idle" /\ status = "kWaitStatusSuccess" =>
    /\ DOMAIN requests = DOMAIN asked
    /\ \A i \in DOMAIN asked :
         requests[i].revents =
           asked[i].revents \cup
             {flag \in asked[i].events : \E f \in Fds :
                /\ f = asked[i].fd
                /\ Condition(flag) \cap seen[f] # {}}

\* An InterruptPoll that arrives after Poll entered and before its wait began
\* is not lost: the wait finds it.
NoLostInterrupt ==
  pc = "wait" /\ interrupted => aborted

-----------------------------------------------------------------------------
(* Liveness. *)

\* A Poll that is interrupted before its wait returned ends, whatever its
\* timeout and however silent its sockets.
InterruptReturns == (interrupted /\ pc # "idle") ~> (pc = "idle")

\* The timeout is a limit, and its product with Scale fits in 32 bits.
LimitFits == timeout >= 0 /\ timeout * Scale <= IntMax

\* A Poll with a timeout that fits the 32-bit product ends by itself.
TimeoutReturns == (pc # "idle" /\ LimitFits) ~> (pc = "idle")

\* Some request asks for a condition that holds on a socket that was registered.
RequestSatisfiable ==
  \E i \in DOMAIN requests : \E f \in Idents(interest) :
    /\ requests[i].fd = f
    /\ \E flag \in requests[i].events : Condition(flag) \cap ready[f] # {}

\* Poll never blocks for ever on a request that stays satisfiable.
ReadyReturns == []<>~(pc = "wait" /\ RequestSatisfiable)

-----------------------------------------------------------------------------
(* What the repository says and the code does not do. *)

\* MultiplexIO.cpp:119, "handle timeout (milliseconds -> microseconds)".
TimeoutInMicroseconds ==
  pc = "wait" /\ timeout >= 0 => waitTimeout = timeout * 1000
=============================================================================
