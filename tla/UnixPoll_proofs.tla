--------------------------- MODULE UnixPoll_proofs ---------------------------
(***************************************************************************)
(* poll() drops no entry silently, and answers what its sockets were       *)
(* reported with, for every vector, table size and timeout, and whatever   *)
(* other threads do to the sockets meanwhile.                              *)
(***************************************************************************)
EXTENDS UnixPoll, FiniteSetTheorems, TLAPS

Entry == [ident : Fds, events : SUBSET SceEvents]

\* The types, and a list of interest that is finite: it is built entry by entry.
TypeInv == TypeOK /\ IsFiniteSet(interest) /\ IsFiniteSet(epoll_events)

-----------------------------------------------------------------------------
(* The operators the model is built from. *)

\* An entry asks for libnet's bits.
LEMMA MaskType ==
  ASSUME NEW p
  PROVE  Mask(p) \in SUBSET SceEvents
  BY DEF Mask, RemapUnixToSCEEvents, vals, SceEvents

\* What is answered are POLL bits.
LEMMA RemapType ==
  ASSUME NEW s
  PROVE  RemapSCEToUnixEvents(s) \in SUBSET UnixEvents
  BY DEF RemapSCEToUnixEvents, vals, UnixEvents

\* A wrapped product is a number again.
LEMMA Int32Type ==
  ASSUME NEW x \in Int
  PROVE  Int32(x) \in Int
<1> DEFINE m == 2 * (IntMax + 1)
<1>1. m \in Nat /\ m > 0
  BY UnixPollAssumption
<1>2. (x + IntMax + 1) \in Int
  BY UnixPollAssumption
<1> HIDE DEF m
<1>3. (x + IntMax + 1) % m \in Int
  BY <1>1, <1>2
<1>4. QED
  BY <1>3, UnixPollAssumption DEF Int32, m

\* A timeout becomes a number.
LEMMA WaitTimeoutType ==
  ASSUME NEW t \in Int
  PROVE  WaitTimeout(t) \in Int
<1>1. t * Scale \in Int
  BY UnixPollAssumption
<1>2. QED
  BY <1>1, Int32Type DEF WaitTimeout

\* What a wait reports has the types of epoll_events, and there is one result
\* per listed socket with something to report.
LEMMA ReportType ==
  ASSUME NEW I \in SUBSET Entry, IsFiniteSet(I), NEW r \in [Fds -> SUBSET SceEvents]
  PROVE  Report(I, r) \in SUBSET Entry /\ IsFiniteSet(Report(I, r))
<1>1. ASSUME NEW e \in I PROVE Reported(e, r) \in Entry
  BY DEF Reported, Entry
<1> DEFINE T == {Reported(e, r) : e \in I}
           f == [e \in I |-> Reported(e, r)]
<1>2. f \in Surjection(I, T)
  BY DEF Surjection
<1>3. IsFiniteSet(T)
  BY <1>2, FS_Surjection
<1>4. Report(I, r) \subseteq T
  BY DEF Report
<1>5. IsFiniteSet(Report(I, r))
  BY <1>3, <1>4, FS_Subset
<1>6. T \subseteq Entry
  BY <1>1
<1>7. QED
  BY <1>4, <1>5, <1>6

\* An answered entry is the entry with other revents at most.
LEMMA AnsweredType ==
  ASSUME NEW p \in pollfd
  PROVE  Answered(p) \in pollfd /\ Answered(p).fd = p.fd /\ Answered(p).events = p.events
<1>1. CASE p.fd \in Idents(epoll_events)
  <2> DEFINE v == RemapSCEToUnixEvents((CHOOSE e \in epoll_events : e.ident = p.fd).events)
  <2>1. v \in SUBSET UnixEvents
    BY RemapType
  <2>2. Answered(p) = [p EXCEPT !.revents = v]
    BY <1>1 DEF Answered
  <2> HIDE DEF v
  <2>3. QED
    BY <2>1, <2>2 DEF pollfd
<1>2. CASE p.fd \notin Idents(epoll_events)
  BY <1>2 DEF Answered
<1>3. QED
  BY <1>1, <1>2

-----------------------------------------------------------------------------
(* The types. *)

\* They hold at the beginning.
LEMMA TypesAtInit == Init => TypeInv
<1> SUFFICES ASSUME Init PROVE TypeInv
  OBVIOUS
<1>1. ufds \in Seq(pollfd) /\ asked \in Seq(pollfd) /\ Len(ufds) = 0
  BY DEF Init
<1>2. IsFiniteSet(interest) /\ IsFiniteSet(epoll_events)
  BY FS_EmptySet DEF Init
<1>3. QED
  BY <1>1, <1>2, UnixPollAssumption DEF Init, TypeInv, TypeOK, NothingSeen

\* A call begins.
LEMMA CallTypes == TypeInv /\ PollCall => TypeInv'
<1> SUFFICES ASSUME TypeInv, NEW v \in Calls, NEW t \in Timeouts, RejectPoll(v, t) \/ StartPoll(v, t)
             PROVE  TypeInv'
  BY DEF PollCall
<1>1. v \in Seq(pollfd) /\ t \in Int /\ Len(v) \in Nat
  BY UnixPollAssumption
<1>2. 1 \in 1 .. Len(v) + 1 /\ 0 \in 0 .. MaxEvents
  BY <1>1, UnixPollAssumption
<1>3. CASE RejectPoll(v, t)
  BY <1>1, <1>2, <1>3 DEF RejectPoll, socketVars, TypeInv, TypeOK, NothingSeen
<1>4. CASE StartPoll(v, t)
  <2>1. interest' = {} /\ IsFiniteSet(interest') /\ IsFiniteSet(epoll_events')
    BY <1>4, FS_EmptySet DEF StartPoll, TypeInv
  <2>2. QED
    BY <1>1, <1>2, <1>4, <2>1 DEF StartPoll, socketVars, TypeInv, TypeOK, NothingSeen
<1>5. QED
  BY <1>3, <1>4

\* A round of the first loop.
LEMMA AddTypes == TypeInv /\ AddNext => TypeInv'
<1> SUFFICES ASSUME TypeInv, AddNext PROVE TypeInv'
  OBVIOUS
<1> DEFINE p == ufds[fds_idx]
<1>1. fds_idx \in 1 .. Len(ufds) /\ p \in pollfd /\ fds_idx' \in 1 .. Len(ufds) + 1
  BY DEF AddNext, TypeInv, TypeOK
<1>2. interest' \in SUBSET Entry /\ IsFiniteSet(interest')
  <2>1. CASE interest' = interest
    BY <2>1 DEF TypeInv, TypeOK, Entry
  <2>2. CASE CanAdd(interest, open, p.fd) /\ interest' = interest \cup {[ident |-> p.fd, events |-> Mask(p)]}
    <3>1. [ident |-> p.fd, events |-> Mask(p)] \in Entry
      BY <2>2, MaskType DEF CanAdd, Entry, TypeInv, TypeOK
    <3>2. IsFiniteSet(interest')
      BY <2>2, FS_AddElement DEF TypeInv
    <3>3. QED
      BY <2>2, <3>1, <3>2 DEF TypeInv, TypeOK, Entry
  <2>3. QED
    BY <2>1, <2>2 DEF AddNext
<1>3. events_idx' \in 0 .. MaxEvents
  BY UnixPollAssumption DEF AddNext, TableFull, TypeInv, TypeOK
<1>4. QED
  BY <1>1, <1>2, <1>3 DEF AddNext, socketVars, TypeInv, TypeOK, Entry

\* The wait begins.
LEMMA BeginTypes == TypeInv /\ BeginWait => TypeInv'
  BY WaitTimeoutType DEF BeginWait, socketVars, TypeInv, TypeOK

\* The wait returns.
LEMMA WaitTypes ==
  ASSUME TypeInv, NEW results \in SUBSET Entry, IsFiniteSet(results), NEW r \in Int, r >= -1,
         NEW saw \in [Fds -> SUBSET SceEvents], LeaveWait(results, r, saw)
  PROVE  TypeInv'
<1>1. Idents(interest) \subseteq Fds
  BY DEF Idents, TypeInv, TypeOK
<1>2. 1 \in 1 .. Len(ufds) + 1 /\ 0 \in 0 .. MaxEvents
  BY UnixPollAssumption DEF TypeInv, TypeOK
<1>3. QED
  BY <1>1, <1>2 DEF LeaveWait, socketVars, TypeInv, TypeOK, Entry

\* In each of the three ways it may return.
LEMMA WaitsTypes == TypeInv /\ (WaitReady \/ WaitTimedOut \/ WaitFailed) => TypeInv'
<1> SUFFICES ASSUME TypeInv, WaitReady \/ WaitTimedOut \/ WaitFailed PROVE TypeInv'
  OBVIOUS
<1>1. NothingSeen \in [Fds -> SUBSET SceEvents] /\ {} \in SUBSET Entry /\ IsFiniteSet({})
  BY FS_EmptySet DEF NothingSeen
<1>2. CASE WaitReady
  <2>1. Report(interest, ready) \in SUBSET Entry /\ IsFiniteSet(Report(interest, ready))
    BY ReportType DEF TypeInv, TypeOK, Entry
  <2>2. Cardinality(Report(interest, ready)) \in Nat
    BY <2>1, FS_CardinalityType
  <2>3. [f \in Fds |-> IF f \in Idents(interest) THEN ready[f] ELSE {}] \in [Fds -> SUBSET SceEvents]
    BY DEF TypeInv, TypeOK
  <2>4. QED
    BY <1>2, <2>1, <2>2, <2>3, WaitTypes DEF WaitReady
<1>3. CASE WaitTimedOut
  BY <1>1, <1>3, WaitTypes DEF WaitTimedOut
<1>4. CASE WaitFailed
  BY <1>1, <1>4, WaitTypes DEF WaitFailed
<1>5. QED
  BY <1>2, <1>3, <1>4

\* A list of interest only loses entries.
LEMMA WithoutType ==
  ASSUME NEW I, IsFiniteSet(I), NEW f
  PROVE  Without(I, f) \subseteq I /\ IsFiniteSet(Without(I, f))
<1>1. Without(I, f) \subseteq I
  BY DEF Without
<1>2. QED
  BY <1>1, FS_Subset

\* A round of the second loop, and the return.
LEMMA RevokeTypes == TypeInv /\ (RevokeNext \/ Return) => TypeInv'
<1> SUFFICES ASSUME TypeInv, RevokeNext \/ Return PROVE TypeInv'
  OBVIOUS
<1>1. CASE RevokeNext
  <2> DEFINE p == ufds[fds_idx]
  <2>1. fds_idx \in 1 .. Len(ufds) /\ p \in pollfd /\ fds_idx' \in 1 .. Len(ufds) + 1
    BY <1>1 DEF RevokeNext, TypeInv, TypeOK
  <2>2. ufds' = [ufds EXCEPT ![fds_idx] = Answered(p)] /\ Answered(p) \in pollfd
    BY <1>1, <2>1, AnsweredType DEF RevokeNext
  <2>3. ufds' \in Seq(pollfd) /\ Len(ufds') = Len(ufds)
    BY <2>1, <2>2 DEF TypeInv, TypeOK
  <2>4. interest' \subseteq interest /\ IsFiniteSet(interest')
    BY <1>1, WithoutType DEF RevokeNext, TypeInv
  <2>5. ret' \in {ret, -1}
    BY <1>1 DEF RevokeNext, AfterRevoke
  <2>6. QED
    BY <1>1, <2>1, <2>3, <2>4, <2>5 DEF RevokeNext, socketVars, TypeInv, TypeOK
<1>2. CASE Return
  <2>1. IsFiniteSet({})
    BY FS_EmptySet
  <2>2. QED
    BY <1>2, <2>1 DEF Return, socketVars, TypeInv, TypeOK
<1>3. QED
  BY <1>1, <1>2

\* The other threads.
LEMMA OthersTypes == TypeInv /\ OtherThreads => TypeInv'
<1> SUFFICES ASSUME TypeInv, NEW f \in Fds,
                    (\E c \in Conditions : SocketReadiness(f, c)) \/ SocketClose(f) \/ SocketOpen(f)
             PROVE  TypeInv'
  BY DEF OtherThreads
<1>1. CASE \E c \in Conditions : SocketReadiness(f, c)
  BY <1>1, UnixPollAssumption DEF SocketReadiness, TypeInv, TypeOK
<1>2. CASE SocketClose(f)
  <2>1. interest' \subseteq interest /\ IsFiniteSet(interest')
    BY <1>2, WithoutType DEF SocketClose, TypeInv
  <2>2. QED
    BY <1>2, <2>1 DEF SocketClose, TypeInv, TypeOK
<1>3. CASE SocketOpen(f)
  BY <1>3 DEF SocketOpen, TypeInv, TypeOK
<1>4. QED
  BY <1>1, <1>2, <1>3

\* Every step keeps the types.
LEMMA TypesStep == TypeInv /\ [Next]_vars => TypeInv'
<1>1. TypeInv /\ UNCHANGED vars => TypeInv'
  BY DEF vars, socketVars, TypeInv, TypeOK
<1>2. QED
  BY <1>1, CallTypes, AddTypes, BeginTypes, WaitsTypes, RevokeTypes, OthersTypes DEF Next, PollerStep

\* The types of poll()'s state; the indices stay within the tables they index,
\* for every vector and every size of the table.
THEOREM PollTypeCorrect == Spec => []TypeOK
<1>1. TypeInv => TypeOK
  BY DEF TypeInv
<1>2. QED
  BY TypesAtInit, TypesStep, <1>1, PTL DEF Spec

-----------------------------------------------------------------------------
(* The conversions, against the reference Condition. *)

\* A bit of the mask comes from a row of the table.
LEMMA MaskBit ==
  ASSUME NEW p, NEW c
  PROVE  c \in Mask(p) <=> \E w \in vals : w[2] = c /\ w[1] \in p.events
  BY DEF Mask, RemapUnixToSCEEvents

\* The row of the table for a POLL bit.
LEMMA RowOf ==
  ASSUME NEW u \in UnixEvents, NEW c
  PROVE  (\E w \in vals : w[2] = c /\ w[1] = u) <=> c \in Condition(u)
<1>1. CASE u = "POLLIN"   BY <1>1 DEF vals, Condition
<1>2. CASE u = "POLLPRI"  BY <1>2 DEF vals, Condition
<1>3. CASE u = "POLLOUT"  BY <1>3 DEF vals, Condition
<1>4. CASE u = "POLLERR"  BY <1>4 DEF vals, Condition
<1>5. CASE u = "POLLHUP"  BY <1>5 DEF vals, Condition
<1>6. CASE u = "POLLNVAL" BY <1>6 DEF vals, Condition
<1>7. QED BY <1>1, <1>2, <1>3, <1>4, <1>5, <1>6 DEF UnixEvents

\* An entry's mask asks for the conditions of its bits, and no other.
LEMMA MaskThroughTable ==
  ASSUME NEW p \in pollfd, NEW c
  PROVE  c \in Mask(p) <=> \E u \in p.events : c \in Condition(u)
<1>1. p.events \subseteq UnixEvents
  BY DEF pollfd
<1>2. ASSUME c \in Mask(p) PROVE \E u \in p.events : c \in Condition(u)
  <2>1. PICK w \in vals : w[2] = c /\ w[1] \in p.events
    BY <1>2, MaskBit
  <2>2. c \in Condition(w[1])
    BY <1>1, <2>1, RowOf
  <2>3. QED
    BY <2>1, <2>2
<1>3. ASSUME NEW u \in p.events, c \in Condition(u) PROVE c \in Mask(p)
  BY <1>1, <1>3, MaskBit, RowOf
<1>4. QED
  BY <1>2, <1>3

\* A condition is answered as the POLL bits that stand for it.
LEMMA AnswerThroughTable ==
  ASSUME NEW s
  PROVE  RemapSCEToUnixEvents(s) = {u \in UnixEvents : Condition(u) \cap s # {}}
<1>1. \A u : u \in RemapSCEToUnixEvents(s) <=> \E w \in vals : w[1] = u /\ w[2] \in s
  BY DEF RemapSCEToUnixEvents
<1>2. \A w \in vals : w[1] \in UnixEvents
  BY DEF vals, UnixEvents
<1>3. ASSUME NEW u \in UnixEvents
      PROVE  (\E w \in vals : w[1] = u /\ w[2] \in s) <=> Condition(u) \cap s # {}
  BY RowOf
<1>4. QED
  BY <1>1, <1>2, <1>3

\* What a socket is reported with is what a wait reports for its entry.
LEMMA RaisedIs ==
  ASSUME NEW p \in pollfd
  PROVE  Raised(p) = seen[p.fd] \cap (Mask(p) \cup UnaskedEvents)
  BY MaskThroughTable DEF Raised

-----------------------------------------------------------------------------
(* The list of interest, the results of the wait, and the second loop. *)

\* What an entry of the caller's vector puts on the list, and what the wait
\* finds for it.
Listed(i) == [ident |-> asked[i].fd, events |-> Mask(asked[i])]
Result(i) == [ident |-> asked[i].fd, events |-> Raised(asked[i])]

\* The list holds entries of the vector that ask for something, at most one
\* for a socket.
ListInv ==
  /\ pc = "idle" => interest = {}
  /\ pc \in {"add", "wait"} => ufds = asked
  /\ \A e \in interest : \E i \in Asking(asked) : e = Listed(i)
  /\ \A d, e \in interest : d.ident = e.ident => d = e

\* The results are those of entries that have something to report, one for a
\* socket, and none is missing of the sockets that were on the list.
ResultsInv ==
  /\ \A r \in epoll_events : \E i \in Asking(asked) : r = Result(i) /\ Raised(asked[i]) # {}
  /\ \A f \in watched : \E i \in Asking(asked) :
       asked[i].fd = f /\ (Raised(asked[i]) # {} => Result(i) \in epoll_events)
  /\ \A d, e \in epoll_events : d.ident = e.ident => d = e
  /\ ret \in {-1, Cardinality(epoll_events)}
  /\ Idents(interest) \subseteq watched

\* The entries the second loop has been at are answered; as long as there is no
\* error their sockets were on the list, and no entry had the socket of another.
DoneInv ==
  /\ Len(ufds) = Len(asked)
  /\ \A i \in 1 .. Len(asked) : ufds[i] = IF i < fds_idx THEN Answered(asked[i]) ELSE asked[i]
  /\ ret >= 0 =>
       /\ \A i \in Asking(asked) :
            i < fds_idx => asked[i].fd \in watched /\ asked[i].fd \notin Idents(interest)
       /\ \A i, j \in Asking(asked) :
            i < fds_idx /\ j < fds_idx /\ asked[i].fd = asked[j].fd => i = j

AnswerInv ==
  /\ ListInv
  /\ pc = "revoke" => ResultsInv /\ DoneInv
  /\ pc = "idle" => NothingDroppedSilently /\ AnswersExact

\* The entries that ask are entries of the vector.
LEMMA AskingType ==
  ASSUME TypeOK, NEW i \in Asking(asked)
  PROVE  i \in 1 .. Len(asked) /\ asked[i] \in pollfd
  BY DEF TypeOK, Asking

\* A call begins.
LEMMA CallAnswers == TypeInv /\ AnswerInv /\ PollCall => AnswerInv'
<1> SUFFICES ASSUME TypeInv, AnswerInv, NEW v \in Calls, NEW t \in Timeouts, RejectPoll(v, t) \/ StartPoll(v, t)
             PROVE  AnswerInv'
  BY DEF PollCall
<1>1. CASE RejectPoll(v, t)
  <2>1. pc' = "idle" /\ interest' = {} /\ asked' = <<>>
    BY <1>1 DEF RejectPoll, AnswerInv, ListInv
  <2>2. NothingDroppedSilently' /\ AnswersExact'
    BY <2>1 DEF NothingDroppedSilently, AnswersExact, Returned
  <2>3. QED
    BY <2>1, <2>2 DEF AnswerInv, ListInv
<1>2. CASE StartPoll(v, t)
  BY <1>2 DEF StartPoll, AnswerInv, ListInv
<1>3. QED
  BY <1>1, <1>2

\* A round of the first loop puts the entry it is at on the list, or nothing.
LEMMA AddAnswers == TypeInv /\ AnswerInv /\ (AddNext \/ BeginWait) => AnswerInv'
<1> SUFFICES ASSUME TypeInv, AnswerInv, AddNext \/ BeginWait PROVE AnswerInv'
  OBVIOUS
<1>0. UNCHANGED asked
  BY DEF AddNext, BeginWait
<1>a. \A i : Listed(i)' = Listed(i)
  BY <1>0 DEF Listed, Mask
<1>b. Asking(asked)' = Asking(asked)
  BY <1>0 DEF Asking, Mask
<1>1. CASE AddNext
  <2> DEFINE p == ufds[fds_idx]
  <2>1. pc = "add" /\ pc' = "add" /\ UNCHANGED <<ufds, asked>> /\ ufds = asked
    BY <1>1 DEF AddNext, AnswerInv, ListInv
  <2>2. CASE interest' = interest
    BY <1>a, <1>b, <2>1, <2>2 DEF AnswerInv, ListInv
  <2>3. CASE Mask(p) # {} /\ CanAdd(interest, open, p.fd) /\ interest' = interest \cup {Listed(fds_idx)}
    <3>1. fds_idx \in Asking(asked)
      BY <1>1, <2>1, <2>3 DEF AddNext, Asking, TypeInv, TypeOK
    <3>2. \A e \in interest : e.ident # Listed(fds_idx).ident
      BY <2>1, <2>3 DEF CanAdd, Idents, Listed
    <3>3. \A d, e \in interest' : d.ident = e.ident => d = e
      BY <2>3, <3>2 DEF AnswerInv, ListInv
    <3>4. \A e \in interest' : \E i \in Asking(asked) : e = Listed(i)
      BY <2>3, <3>1 DEF AnswerInv, ListInv
    <3>5. QED
      BY <1>a, <1>b, <2>1, <3>3, <3>4 DEF AnswerInv, ListInv
  <2>4. QED
    BY <1>1, <2>1, <2>2, <2>3 DEF AddNext, Listed
<1>2. CASE BeginWait
  BY <1>2, <1>a, <1>b DEF BeginWait, AnswerInv, ListInv
<1>3. QED
  BY <1>1, <1>2

\* The wait returns: what holds of its results.
LEMMA WaitAnswers ==
  ASSUME TypeInv, AnswerInv, NEW results, NEW r, NEW saw, LeaveWait(results, r, saw), ResultsInv',
         r \in Int
  PROVE  AnswerInv'
<1>1. pc' = "revoke" /\ fds_idx' = 1 /\ UNCHANGED <<interest, ufds, asked>> /\ ufds = asked
  BY DEF LeaveWait, AnswerInv, ListInv
<1>2. /\ \A i : Listed(i)' = Listed(i)
      /\ Asking(asked)' = Asking(asked)
  BY <1>1 DEF Listed, Asking, Mask
<1>3. ListInv'
  BY <1>1, <1>2 DEF AnswerInv, ListInv
<1>4. \A i \in 1 .. Len(asked) : ~(i < fds_idx')
  BY <1>1
<1>5. \A i \in Asking(asked) : i \in 1 .. Len(asked)
  BY AskingType DEF TypeInv
<1>6. DoneInv'
  BY <1>1, <1>2, <1>4, <1>5 DEF DoneInv
<1>7. QED
  BY <1>1, <1>3, <1>6 DEF AnswerInv

\* In each of the three ways it may return.
LEMMA WaitsAnswers == TypeInv /\ AnswerInv /\ (WaitReady \/ WaitTimedOut \/ WaitFailed) => AnswerInv'
<1> SUFFICES ASSUME TypeInv, AnswerInv, WaitReady \/ WaitTimedOut \/ WaitFailed PROVE AnswerInv'
  OBVIOUS
<1>1. UNCHANGED <<asked, interest>> /\ watched' = Idents(interest)
  BY DEF WaitReady, WaitTimedOut, WaitFailed, LeaveWait
<1>2. Asking(asked)' = Asking(asked) /\ \A i : Mask(asked[i])' = Mask(asked[i])
  BY <1>1 DEF Asking, Mask
<1>3. ASSUME NEW f \in watched' PROVE \E i \in Asking(asked) : asked[i].fd = f /\ Listed(i) \in interest
  <2>1. PICK e \in interest : e.ident = f
    BY <1>1, <1>3 DEF Idents
  <2>2. PICK i \in Asking(asked) : e = Listed(i)
    BY DEF AnswerInv, ListInv
  <2>3. QED
    BY <2>1, <2>2 DEF Listed
<1>4. TypeInv'
  BY WaitsTypes
<1>5. \A i \in Asking(asked) : Raised(asked[i])' = seen'[asked[i].fd] \cap (Mask(asked[i]) \cup UnaskedEvents)
  BY <1>1, <1>2, AskingType, MaskThroughTable DEF TypeInv, Raised
<1>6. CASE WaitReady
  <2> DEFINE R == Report(interest, ready)
  <2>1. epoll_events' = R /\ ret' = Cardinality(R)
        /\ seen' = [f \in Fds |-> IF f \in Idents(interest) THEN ready[f] ELSE {}]
    BY <1>6 DEF WaitReady, LeaveWait
  <2>2. ASSUME NEW i \in Asking(asked), Listed(i) \in interest
        PROVE  Reported(Listed(i), ready) = Result(i)'
    <3>1. asked[i].fd \in Idents(interest) /\ asked[i].fd \in Fds
      BY <2>2 DEF Listed, Idents, TypeInv, TypeOK
    <3>2. seen'[asked[i].fd] = ready[asked[i].fd]
      BY <2>1, <3>1
    <3>3. QED
      BY <1>1, <1>5, <3>2 DEF Reported, Result, Listed
  <2>3. ASSUME NEW r \in R PROVE \E i \in Asking(asked) : r = Result(i)' /\ Raised(asked[i])' # {}
    <3>1. PICK e \in interest : r = Reported(e, ready) /\ r.events # {}
      BY DEF Report
    <3>2. PICK i \in Asking(asked) : e = Listed(i)
      BY DEF AnswerInv, ListInv
    <3>3. r = Result(i)'
      BY <2>2, <3>1, <3>2
    <3>4. QED
      BY <3>1, <3>3 DEF Result
  <2>4. ASSUME NEW f \in watched'
        PROVE  \E i \in Asking(asked) : asked[i].fd = f /\ (Raised(asked[i])' # {} => Result(i)' \in R)
    <3>1. PICK i \in Asking(asked) : asked[i].fd = f /\ Listed(i) \in interest
      BY <1>3
    <3>2. Reported(Listed(i), ready) = Result(i)'
      BY <2>2, <3>1
    <3>3. Result(i)'.events = Raised(asked[i])'
      BY DEF Result
    <3>4. Raised(asked[i])' # {} => Result(i)' \in R
      BY <3>1, <3>2, <3>3 DEF Report
    <3>5. QED
      BY <3>1, <3>4
  <2>5. \A d, e \in R : d.ident = e.ident => d = e
    BY DEF Report, Reported, AnswerInv, ListInv
  <2>6. ResultsInv'
    BY <1>1, <1>2, <2>1, <2>3, <2>4, <2>5 DEF ResultsInv
  <2>7. ret' \in Int
    BY <1>4 DEF TypeInv, TypeOK
  <2>8. QED
    BY <1>6, <2>1, <2>6, <2>7, WaitAnswers DEF WaitReady
<1>7. CASE WaitTimedOut \/ WaitFailed
  <2>1. epoll_events' = {} /\ ret' \in {-1, 0} /\ seen' = NothingSeen
    BY <1>7 DEF WaitTimedOut, WaitFailed, LeaveWait
  <2>2. watched' \subseteq Fds
    BY <1>4 DEF TypeInv, TypeOK
  <2>3. ASSUME NEW f \in watched' PROVE \E i \in Asking(asked) : asked[i].fd = f /\ Raised(asked[i])' = {}
    <3>1. PICK i \in Asking(asked) : asked[i].fd = f
      BY <1>3
    <3>2. seen'[f] = {}
      BY <2>1, <2>2 DEF NothingSeen
    <3>3. QED
      BY <1>5, <3>1, <3>2
  <2>4. ret' \in {-1, Cardinality(epoll_events')}
    BY <2>1, FS_EmptySet
  <2>5. ResultsInv'
    BY <1>1, <1>2, <2>1, <2>3, <2>4 DEF ResultsInv
  <2>6. QED
    BY <1>7, <2>5, WaitAnswers DEF WaitTimedOut, WaitFailed
<1>8. QED
  BY <1>6, <1>7

\* What the second loop relies on is not touched by a step that leaves the
\* vector, the results and their history alone.
LEMMA ResultsStay ==
  ASSUME ResultsInv, UNCHANGED <<asked, seen, watched, epoll_events>>, interest' \subseteq interest,
         ret' \in {ret, -1}
  PROVE  ResultsInv'
<1>1. /\ Asking(asked)' = Asking(asked) /\ \A i : Result(i)' = Result(i)
      /\ \A i : Raised(asked[i])' = Raised(asked[i])
  BY DEF Asking, Result, Raised, Mask
<1>2. Idents(interest)' \subseteq Idents(interest)
  BY DEF Idents
<1>3. QED
  BY <1>1, <1>2 DEF ResultsInv

\* The list stays one entry for a socket when it loses entries.
LEMMA ListStays ==
  ASSUME ListInv, UNCHANGED asked, interest' \subseteq interest, pc' = "idle" => interest' = {},
         pc' \in {"add", "wait"} => ufds' = asked'
  PROVE  ListInv'
<1>1. Asking(asked)' = Asking(asked) /\ \A i : Listed(i)' = Listed(i)
  BY DEF Asking, Listed, Mask
<1>2. QED
  BY <1>1 DEF ListInv

\* A round of the second loop: the CTL_DEL finds the socket of an entry only if
\* it is listed still, and then it is no other's that the loop has been at.
LEMMA RevokeAnswers == TypeInv /\ AnswerInv /\ RevokeNext => AnswerInv'
<1> SUFFICES ASSUME TypeInv, AnswerInv, RevokeNext PROVE AnswerInv'
  OBVIOUS
<1> DEFINE k == fds_idx
           p == asked[k]
<1>0. ResultsInv /\ DoneInv /\ pc = "revoke" /\ pc' = "revoke"
  BY DEF RevokeNext, AnswerInv
<1>1. /\ k \in 1 .. Len(asked) /\ Len(ufds) = Len(asked) /\ p = ufds[k] /\ p \in pollfd
      /\ k \in Nat /\ fds_idx' = k + 1
  BY <1>0 DEF RevokeNext, DoneInv, TypeInv, TypeOK
<1>2. /\ interest' = IF Mask(p) # {} THEN Without(interest, p.fd) ELSE interest
      /\ ret' = AfterRevoke(p, ret)
      /\ ufds' = [ufds EXCEPT ![k] = Answered(p)]
      /\ UNCHANGED <<asked, seen, watched, epoll_events>>
  BY <1>1 DEF RevokeNext
<1>3. interest' \subseteq interest /\ ret' \in {ret, -1}
  BY <1>2 DEF Without, AfterRevoke
<1>4. ListInv' /\ ResultsInv'
  BY <1>0, <1>2, <1>3, ListStays, ResultsStay DEF AnswerInv
<1>5. Len(ufds') = Len(asked) /\ \A i \in 1 .. Len(asked) :
        ufds'[i] = IF i < fds_idx' THEN Answered(asked[i]) ELSE asked[i]
  BY <1>0, <1>1, <1>2 DEF DoneInv, TypeInv, TypeOK
<1>6. Asking(asked)' = Asking(asked) /\ \A q : Answered(q)' = Answered(q)
  BY <1>2 DEF Asking, Mask, Answered
<1>7. ASSUME ret' >= 0
      PROVE  /\ \A i \in Asking(asked) :
                  i < fds_idx' => asked[i].fd \in watched /\ asked[i].fd \notin Idents(interest')
             /\ \A i, j \in Asking(asked) :
                  i < fds_idx' /\ j < fds_idx' /\ asked[i].fd = asked[j].fd => i = j
  <2>1. ret >= 0 /\ (Mask(p) # {} => p.fd \in Idents(interest))
    BY <1>2, <1>7 DEF AfterRevoke
  <2>2. /\ \A i \in Asking(asked) :
             i < k => asked[i].fd \in watched /\ asked[i].fd \notin Idents(interest)
        /\ \A i, j \in Asking(asked) : i < k /\ j < k /\ asked[i].fd = asked[j].fd => i = j
    BY <1>0, <2>1 DEF DoneInv
  <2>3. k \in Asking(asked) => p.fd \in Idents(interest) /\ p.fd \in watched /\ p.fd \notin Idents(interest')
    <3>1. k \in Asking(asked) => Mask(p) # {}
      BY DEF Asking
    <3>2. Mask(p) # {} => p.fd \notin Idents(interest')
      BY <1>2 DEF Without, Idents
    <3>3. QED
      BY <1>0, <2>1, <3>1, <3>2 DEF ResultsInv
  <2>4. \A i \in Asking(asked) : i \in Nat /\ (i < fds_idx' => i < k \/ i = k)
    BY <1>1, AskingType DEF TypeInv
  <2>5. Idents(interest') \subseteq Idents(interest)
    BY <1>3 DEF Idents
  <2>6. QED
    BY <2>2, <2>3, <2>4, <2>5
<1>8. DoneInv'
  BY <1>2, <1>5, <1>6, <1>7 DEF DoneInv
<1>9. QED
  BY <1>0, <1>4, <1>8 DEF AnswerInv

\* When the second loop is through and nothing failed, the results are those of
\* the entries that have something to report, one each.
LEMMA ResultsCounted ==
  ASSUME TypeInv, ResultsInv, DoneInv, fds_idx > Len(ufds), ret >= 0
  PROVE  /\ \A i \in Asking(asked) : asked[i].fd \in watched
         /\ \A i \in Asking(asked) : Raised(asked[i]) # {} => Result(i) \in epoll_events
         /\ \A i \in Asking(asked), r \in epoll_events :
              r.ident = asked[i].fd => r = Result(i) /\ Raised(asked[i]) # {}
         /\ ret = Cardinality({i \in Asking(asked) : Raised(asked[i]) # {}})
<1>1. /\ \A i \in Asking(asked) : asked[i].fd \in watched
      /\ \A i, j \in Asking(asked) : asked[i].fd = asked[j].fd => i = j
  <2>1. \A i \in Asking(asked) : i < fds_idx
    BY AskingType DEF TypeInv, TypeOK, DoneInv
  <2>2. QED
    BY <2>1 DEF DoneInv
<1>2. ASSUME NEW i \in Asking(asked), Raised(asked[i]) # {} PROVE Result(i) \in epoll_events
  BY <1>1, <1>2 DEF ResultsInv
<1>3. ASSUME NEW i \in Asking(asked), NEW r \in epoll_events, r.ident = asked[i].fd
      PROVE  r = Result(i) /\ Raised(asked[i]) # {}
  <2>1. PICK j \in Asking(asked) : r = Result(j) /\ Raised(asked[j]) # {}
    BY DEF ResultsInv
  <2>2. i = j
    BY <1>1, <1>3, <2>1 DEF Result
  <2>3. QED
    BY <2>1, <2>2
<1>4. Cardinality(epoll_events) = Cardinality({i \in Asking(asked) : Raised(asked[i]) # {}})
  <2> DEFINE S == {i \in Asking(asked) : Raised(asked[i]) # {}}
             g == [i \in S |-> Result(i)]
  <2>1. \A i \in S : g[i] \in epoll_events
    BY <1>2
  <2>2. \A i, j \in S : g[i] = g[j] => i = j
    BY <1>1 DEF Result
  <2>3. \A r \in epoll_events : \E i \in S : g[i] = r
    BY DEF ResultsInv
  <2>4. g \in Bijection(S, epoll_events)
    BY <2>1, <2>2, <2>3 DEF Bijection, Injection, Surjection, IsInjective
  <2>5. IsFiniteSet(S)
    BY <2>4, FS_Injection DEF TypeInv, Bijection
  <2>6. QED
    BY <2>4, <2>5, FS_Bijection DEF ExistsBijection
<1>5. ret = Cardinality(epoll_events)
  BY DEF ResultsInv
<1>6. QED
  BY <1>1, <1>2, <1>3, <1>4, <1>5

\* The revents of an entry when it is through.
LEMMA AnsweredExactly ==
  ASSUME TypeInv, ResultsInv, DoneInv, fds_idx > Len(ufds), ret >= 0, NEW i \in Asking(asked)
  PROVE  ufds[i].revents = IF Raised(asked[i]) = {} THEN asked[i].revents
                           ELSE {u \in UnixEvents : Condition(u) \cap Raised(asked[i]) # {}}
<1>1. i \in 1 .. Len(asked) /\ asked[i] \in pollfd /\ ufds[i] = Answered(asked[i])
  BY AskingType DEF TypeInv, TypeOK, DoneInv
<1>2. CASE Raised(asked[i]) = {}
  <2>1. asked[i].fd \notin Idents(epoll_events)
    BY <1>2, ResultsCounted DEF Idents
  <2>2. QED
    BY <1>1, <1>2, <2>1 DEF Answered
<1>3. CASE Raised(asked[i]) # {}
  <2>1. Result(i) \in epoll_events
    BY <1>3, ResultsCounted
  <2> DEFINE e == CHOOSE x \in epoll_events : x.ident = asked[i].fd
  <2>2. asked[i].fd \in Idents(epoll_events) /\ e \in epoll_events /\ e.ident = asked[i].fd
    BY <2>1 DEF Idents, Result
  <2> HIDE DEF e
  <2>3. e = Result(i)
    BY <2>2, ResultsCounted
  <2>4. e.events = Raised(asked[i])
    BY <2>3 DEF Result
  <2>5. Answered(asked[i]).revents = RemapSCEToUnixEvents(Raised(asked[i]))
    BY <1>1, <2>2, <2>4 DEF Answered, pollfd, e
  <2>6. QED
    BY <1>1, <1>3, <2>5, AnswerThroughTable
<1>4. QED
  BY <1>2, <1>3

\* poll() returns.
LEMMA ReturnAnswers == TypeInv /\ AnswerInv /\ Return => AnswerInv'
<1> SUFFICES ASSUME TypeInv, AnswerInv, Return PROVE AnswerInv'
  OBVIOUS
<1>1. /\ ResultsInv /\ DoneInv /\ fds_idx > Len(ufds) /\ pc' = "idle" /\ interest' = {}
      /\ UNCHANGED <<ufds, asked, seen, watched, ret>>
  BY DEF Return, AnswerInv
<1>2. Asking(asked)' = Asking(asked) /\ \A i : Raised(asked[i])' = Raised(asked[i])
  BY <1>1 DEF Asking, Mask, Raised
<1>3. NothingDroppedSilently'
  BY <1>1, <1>2, ResultsCounted DEF NothingDroppedSilently
<1>4. AnswersExact'
  BY <1>1, <1>2, ResultsCounted, AnsweredExactly DEF AnswersExact
<1>5. ListInv'
  BY <1>1, ListStays DEF AnswerInv
<1>6. QED
  BY <1>1, <1>3, <1>4, <1>5 DEF AnswerInv

\* Other threads take sockets off the list at most.
LEMMA OthersAnswers == TypeInv /\ AnswerInv /\ (OtherThreads \/ UNCHANGED vars) => AnswerInv'
<1> SUFFICES ASSUME TypeInv, AnswerInv, OtherThreads \/ UNCHANGED vars PROVE AnswerInv'
  OBVIOUS
<1>1. /\ interest' \subseteq interest
      /\ UNCHANGED <<pc, ufds, asked, seen, watched, epoll_events, ret, fds_idx>>
  BY DEF OtherThreads, SocketReadiness, SocketClose, SocketOpen, Without, vars, socketVars
<1>2. ListInv'
  BY <1>1, ListStays DEF AnswerInv, ListInv
<1>3. pc = "revoke" => ResultsInv'
  BY <1>1, ResultsStay DEF AnswerInv
<1>4. /\ Asking(asked)' = Asking(asked) /\ \A q : Answered(q)' = Answered(q)
      /\ \A i : Raised(asked[i])' = Raised(asked[i])
      /\ Idents(interest)' \subseteq Idents(interest)
  BY <1>1 DEF Asking, Mask, Answered, Raised, Idents
<1>5. pc = "revoke" => DoneInv'
  BY <1>1, <1>4 DEF AnswerInv, DoneInv
<1>6. pc = "idle" => NothingDroppedSilently' /\ AnswersExact'
  BY <1>1, <1>4 DEF AnswerInv, NothingDroppedSilently, AnswersExact, Returned
<1>7. QED
  BY <1>1, <1>2, <1>3, <1>5, <1>6 DEF AnswerInv

\* The invariant holds of every behaviour.
LEMMA PollInvariant == Spec => [](TypeInv /\ AnswerInv)
<1>1. Init => AnswerInv
  BY DEF Init, AnswerInv, ListInv, NothingDroppedSilently, AnswersExact, Returned
<1>2. TypeInv /\ AnswerInv /\ [Next]_vars => AnswerInv'
  BY CallAnswers, AddAnswers, WaitsAnswers, RevokeAnswers, ReturnAnswers, OthersAnswers DEF Next, PollerStep
<1>3. QED
  BY TypesAtInit, TypesStep, <1>1, <1>2, PTL DEF Spec

\* When poll() does not return an error, every entry that asks for something
\* was on the list of interest when the wait returned.
THEOREM PollDropsNothing == Spec => []NothingDroppedSilently
<1>1. AnswerInv /\ TypeInv => NothingDroppedSilently
  BY DEF AnswerInv, NothingDroppedSilently, Returned
<1>2. QED
  BY PollInvariant, <1>1, PTL

\* When it does not return an error, the result counts the entries that were
\* answered, and they are answered with what their sockets were reported with.
THEOREM PollAnswersExactly == Spec => []AnswersExact
<1>1. AnswerInv /\ TypeInv => AnswersExact
  BY DEF AnswerInv, AnswersExact, Returned
<1>2. QED
  BY PollInvariant, <1>1, PTL
=============================================================================
