------------------------------ MODULE UnixPoll ------------------------------
(***************************************************************************)
(* The free function poll() of Sockets.cpp and MultiplexIO::poll, which it *)
(* calls on a MultiplexIO object of its own: one thread inside the call,   *)
(* and other threads that move data through its sockets, close them and    *)
(* open new ones under a freed descriptor.  No other thread knows the      *)
(* object, so nobody can interrupt the wait, and concurrent calls meet     *)
(* only in the sockets.                                                    *)
(*                                                                         *)
(* Unlike MultiplexIO::Poll, poll() works on the caller's vector entry by  *)
(* entry and in order, and returns an int.                                 *)
(***************************************************************************)
EXTENDS SceEpoll, Integers, Sequences, FiniteSets

CONSTANTS
  Fds,          \* socket descriptors
  NoFd,         \* -1
  MaxEvents,    \* MAX_EVENTS
  Scale,        \* the factor a timeout is multiplied with (10000)
  IntMax,       \* INT32_MAX
  Conditions,   \* what a socket's readiness may be
  Calls,        \* the vectors poll() is called with
  Timeouts      \* the timeouts it is called with

\* struct pollfd
pollfd == [fd : Fds \cup {NoFd}, events : SUBSET UnixEvents, revents : SUBSET UnixEvents]

ASSUME UnixPollAssumption ==
  /\ NoFd \notin Fds
  /\ MaxEvents \in Nat /\ Scale \in Nat /\ IntMax \in Nat
  /\ Conditions \subseteq SUBSET SceEvents
  /\ Calls \subseteq Seq(pollfd)
  /\ Timeouts \subseteq Int

VARIABLES
  m_epollId,     \* "none", "valid" or "invalid": the object on poll()'s stack
  interest,      \* its interest list
  open, ready,   \* the sockets
  pc,            \* "idle", "add", "wait", "revoke"
  ufds,          \* the caller's vector
  timeout,       \* as passed
  waitTimeout,   \* as handed to sceNetEpollWait
  fds_idx,       \* the entry the current pass is at
  events_idx,    \* the number of entries of epoll_events in use
  epoll_events,  \* what the wait returned
  ret,           \* the value poll() is going to return, then its result
  asked,         \* history: ufds as the caller passed it
  watched,       \* history: the sockets on the list when the wait returned
  seen           \* history: their readiness then, if the wait reported it

socketVars == <<open, ready>>
vars == <<m_epollId, interest, socketVars, pc, ufds, timeout, waitTimeout, fds_idx,
          events_idx, epoll_events, ret, asked, watched, seen>>

NothingSeen == [f \in Fds |-> {}]

\* The types of poll()'s state; events_idx stays an index of epoll_events, which
\* has MAX_EVENTS places, and fds_idx one of the caller's vector or its end.
TypeOK ==
  /\ m_epollId \in {"none", "valid", "invalid"}
  /\ interest \subseteq [ident : Fds, events : SUBSET SceEvents]
  /\ open \subseteq Fds
  /\ ready \in [Fds -> SUBSET SceEvents]
  /\ pc \in {"idle", "add", "wait", "revoke"}
  /\ ufds \in Seq(pollfd) /\ asked \in Seq(pollfd)
  /\ timeout \in Int /\ waitTimeout \in Int
  /\ fds_idx \in 1 .. Len(ufds) + 1
  /\ events_idx \in 0 .. MaxEvents
  /\ epoll_events \subseteq [ident : Fds, events : SUBSET SceEvents]
  /\ ret \in Int /\ ret >= -1
  /\ watched \subseteq Fds
  /\ seen \in [Fds -> SUBSET SceEvents]

Init ==
  /\ m_epollId = "none" /\ interest = {}
  /\ open = Fds /\ ready = NothingSeen
  /\ pc = "idle" /\ ufds = <<>> /\ asked = <<>>
  /\ timeout = 0 /\ waitTimeout = 0
  /\ fds_idx = 1 /\ events_idx = 0 /\ epoll_events = {} /\ ret = 0
  /\ watched = {} /\ seen = NothingSeen

-----------------------------------------------------------------------------

\* A product that leaves the 32-bit range wraps around.
Int32(x) == ((x + IntMax + 1) % (2 * (IntMax + 1))) - (IntMax + 1)

\* Mutant: a zero timeout waits for ever.
WaitTimeoutPositive(t) == IF t > 0 THEN Int32(t * Scale) ELSE -1
WaitTimeout(t) == IF t >= 0 THEN Int32(t * Scale) ELSE -1

\* Mutant: the requested mask is shifted to the error condition only.
MaskErrorsOnly(p) == RemapUnixToSCEEvents(p.events) \cap UnaskedEvents
Mask(p) == RemapUnixToSCEEvents(p.events)

\* Mutant: one entry too many goes in (> for >=).
TableFullLate(used) == used > MaxEvents
TableFull(used) == used >= MaxEvents

FdsOf(v) == {v[i].fd : i \in DOMAIN v}

\* nfds <= 0: no object is created.
RejectPoll(v, t) ==
  /\ pc = "idle" /\ v = <<>>
  /\ ufds' = v /\ asked' = v /\ timeout' = t
  /\ ret' = -1
  /\ fds_idx' = 1
  /\ watched' = {} /\ seen' = NothingSeen
  /\ UNCHANGED <<m_epollId, interest, socketVars, pc, waitTimeout, events_idx,
                 epoll_events>>

\* The constructor of the object on the stack; the create may fail.
StartPoll(v, t) ==
  /\ pc = "idle" /\ v # <<>>
  /\ m_epollId' \in {"valid", "invalid"}
  /\ interest' = {}
  /\ ufds' = v /\ asked' = v /\ timeout' = t
  /\ pc' = "add" /\ fds_idx' = 1 /\ events_idx' = 0 /\ ret' = 0
  /\ watched' = {} /\ seen' = NothingSeen
  /\ UNCHANGED <<socketVars, waitTimeout, epoll_events>>

\* One round of the first loop: an entry that asks for nothing libnet knows is
\* skipped, a CTL_ADD that fails uses up a place of epoll_events all the same.
AddNext ==
  /\ pc = "add" /\ fds_idx <= Len(ufds) /\ ~TableFull(events_idx)
  /\ LET p == ufds[fds_idx] IN
       IF Mask(p) = {}
       THEN UNCHANGED <<interest, events_idx>>
       ELSE /\ interest' = IF m_epollId = "valid" /\ CanAdd(interest, open, p.fd)
                           THEN interest \cup {[ident |-> p.fd, events |-> Mask(p)]}
                           ELSE interest
            /\ events_idx' = events_idx + 1
  /\ fds_idx' = fds_idx + 1
  /\ UNCHANGED <<m_epollId, socketVars, pc, ufds, timeout, waitTimeout, epoll_events,
                 ret, asked, watched, seen>>

\* The loop ends, or breaks because the table is full.
BeginWait ==
  /\ pc = "add"
  /\ fds_idx > Len(ufds) \/ TableFull(events_idx)
  /\ pc' = "wait"
  /\ waitTimeout' = WaitTimeout(timeout)
  /\ UNCHANGED <<m_epollId, interest, socketVars, ufds, timeout, fds_idx, events_idx,
                 epoll_events, ret, asked, watched, seen>>

LeaveWait(results, r, saw) ==
  /\ pc = "wait" /\ pc' = "revoke"
  /\ epoll_events' = results
  /\ ret' = r
  /\ watched' = Idents(interest) /\ seen' = saw
  /\ fds_idx' = 1 /\ events_idx' = 0
  /\ UNCHANGED <<m_epollId, interest, socketVars, ufds, timeout, waitTimeout, asked>>

WaitReady ==
  /\ Report(interest, ready) # {}
  /\ LeaveWait(Report(interest, ready), Cardinality(Report(interest, ready)),
               [f \in Fds |-> IF f \in Idents(interest) THEN ready[f] ELSE {}])

WaitTimedOut ==
  /\ m_epollId = "valid" /\ waitTimeout >= 0
  /\ LeaveWait({}, 0, NothingSeen)

\* No epoll object, or a negative timeout other than -1 (libnet may also block).
WaitFailed ==
  /\ m_epollId = "invalid" \/ waitTimeout < -1
  /\ LeaveWait({}, -1, NothingSeen)

\* Mutant: a failed CTL_DEL is printed but does not become the result.
AfterRevokeIgnored(p, r) == r

\* The value to return after the CTL_DEL of an entry: a failure replaces it.
AfterRevoke(p, r) ==
  IF Mask(p) # {} /\ ~(m_epollId = "valid" /\ p.fd \in Idents(interest))
  THEN -1 ELSE r

\* Mutant: what was reported is added to the revents the caller left.
AnsweredAccumulating(p) ==
  [p EXCEPT !.revents = @ \cup
     UNION {RemapSCEToUnixEvents(e.events) : e \in {x \in epoll_events : x.ident = p.fd}}]

\* The inner loop: the first result for this socket overwrites revents.
Answered(p) ==
  IF p.fd \in Idents(epoll_events)
  THEN [p EXCEPT !.revents =
          RemapSCEToUnixEvents((CHOOSE e \in epoll_events : e.ident = p.fd).events)]
  ELSE p

\* One round of the second loop.
RevokeNext ==
  /\ pc = "revoke" /\ fds_idx <= Len(ufds)
  /\ LET p == ufds[fds_idx] IN
       /\ interest' = IF Mask(p) # {} THEN Without(interest, p.fd) ELSE interest
       /\ ret' = AfterRevoke(p, ret)
       /\ ufds' = [ufds EXCEPT ![fds_idx] = Answered(p)]
  /\ fds_idx' = fds_idx + 1
  /\ UNCHANGED <<m_epollId, socketVars, pc, timeout, waitTimeout, events_idx,
                 epoll_events, asked, watched, seen>>

\* poll() returns; the destructor destroys the epoll object.
Return ==
  /\ pc = "revoke" /\ fds_idx > Len(ufds)
  /\ pc' = "idle" /\ m_epollId' = "none" /\ interest' = {}
  /\ epoll_events' = {} /\ waitTimeout' = 0
  /\ UNCHANGED <<socketVars, ufds, timeout, fds_idx, events_idx, ret, asked, watched,
                 seen>>

-----------------------------------------------------------------------------
(* The other threads. *)

SocketReadiness(f, c) ==
  /\ f \in open /\ c # ready[f]
  /\ ready' = [ready EXCEPT ![f] = c]
  /\ UNCHANGED <<m_epollId, interest, open, pc, ufds, timeout, waitTimeout, fds_idx,
                 events_idx, epoll_events, ret, asked, watched, seen>>

SocketClose(f) ==
  /\ f \in open
  /\ open' = open \ {f}
  /\ ready' = [ready EXCEPT ![f] = {}]
  /\ interest' = Without(interest, f)
  /\ UNCHANGED <<m_epollId, pc, ufds, timeout, waitTimeout, fds_idx, events_idx,
                 epoll_events, ret, asked, watched, seen>>

SocketOpen(f) ==
  /\ f \notin open
  /\ open' = open \cup {f}
  /\ UNCHANGED <<m_epollId, interest, ready, pc, ufds, timeout, waitTimeout, fds_idx,
                 events_idx, epoll_events, ret, asked, watched, seen>>

-----------------------------------------------------------------------------

PollerStep ==
  \/ AddNext \/ BeginWait
  \/ WaitReady \/ WaitTimedOut \/ WaitFailed
  \/ RevokeNext \/ Return

PollCall == \E v \in Calls, t \in Timeouts : RejectPoll(v, t) \/ StartPoll(v, t)

OtherThreads ==
  \E f \in Fds : \/ \E c \in Conditions : SocketReadiness(f, c)
                 \/ SocketClose(f)
                 \/ SocketOpen(f)

Next == PollCall \/ PollerStep \/ OtherThreads

\* A thread inside poll() keeps running, and a wait with a reason to return
\* returns.
Fairness == WF_vars(PollerStep)

Spec == Init /\ [][Next]_vars /\ Fairness

-----------------------------------------------------------------------------
(* Safety.  Asking(v) are the entries that ask libnet for something. *)

Asking(v) == {i \in DOMAIN v : Mask(v[i]) # {}}

Returned == pc = "idle" /\ asked # <<>>

\* poll() never drops a socket silently: when it does not return an error,
\* every entry that asks for something was on the interest list when the wait
\* returned - although the table may have been full, the CTL_ADD refused, or
\* the socket closed meanwhile, and nothing but the second loop notices.
NothingDroppedSilently ==
  Returned /\ ret >= 0 => \A i \in Asking(asked) : asked[i].fd \in watched

\* What a socket is reported with: the conditions seen that the entry asked
\* for, plus the two that come unasked.
Raised(p) == {c \in seen[p.fd] : c \in UnaskedEvents \/ \E u \in p.events : c \in Condition(u)}

\* When the result is not an error, it counts the entries that were answered,
\* and the revents of these are exactly the POLL bits of what their sockets
\* were reported with, whatever the caller had left there and whatever other
\* entries ask for; an entry with nothing to report keeps what was left there.
AnswersExact ==
  Returned /\ ret >= 0 =>
    /\ ret = Cardinality({i \in Asking(asked) : Raised(asked[i]) # {}})
    /\ \A i \in Asking(asked) :
         ufds[i].revents =
           IF Raised(asked[i]) = {} THEN asked[i].revents
           ELSE {u \in UnixEvents : Condition(u) \cap Raised(asked[i]) # {}}

-----------------------------------------------------------------------------
(* Liveness. *)

\* The timeout is a limit, and its product with Scale fits in 32 bits.
LimitFits == timeout >= 0 /\ timeout * Scale <= IntMax

\* A poll() with a limit that fits the 32-bit product ends by itself.
LimitedPollEnds == (pc # "idle" /\ LimitFits) ~> (pc = "idle")

\* An entry whose socket no other entry names is registered and ready.
EntrySatisfiable ==
  \E i \in DOMAIN ufds : \E f \in Idents(interest) :
    /\ ufds[i].fd = f
    /\ \A j \in DOMAIN ufds : ufds[j].fd = f => j = i
    /\ \E u \in ufds[i].events : Condition(u) \cap ready[f] # {}

\* poll() never blocks for ever on an entry that stays ready for what it asks,
\* when its socket is on the list and named once.  (Named twice, only the first
\* entry is registered: NoDuplicateAdd below.)
ReadyPollEnds == []<>~(pc = "wait" /\ EntrySatisfiable)

-----------------------------------------------------------------------------
(* What the repository says and the code does not do. *)

\* MultiplexIO.cpp:175, "control does not like the same FD added twice [so] we
\* have to merge sets applying to the same FD": no CTL_ADD for a listed socket.
NoDuplicateAdd ==
  pc = "add" /\ fds_idx <= Len(ufds) /\ ~TableFull(events_idx) =>
    Mask(ufds[fds_idx]) = {} \/ ufds[fds_idx].fd \notin Idents(interest)
=============================================================================
