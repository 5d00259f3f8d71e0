------------------------------ MODULE SceEpoll ------------------------------
(***************************************************************************)
(* The part of Sony's libnet epoll that src/ relies on.  libnet is not in  *)
(* the repository; this is what MultiplexIO.cpp assumes of it:             *)
(*                                                                         *)
(*   - an epoll object keeps an interest list of [ident, events] entries,  *)
(*     at most one per socket ("control does not like the same FD added    *)
(*     twice"): CTL_ADD of a listed socket fails, and so does CTL_DEL of   *)
(*     an unlisted one;                                                    *)
(*   - closing a socket takes it off every interest list;                  *)
(*   - a wait reports, per listed socket, the conditions that hold now     *)
(*     (level triggered) out of those asked for and the two that are       *)
(*     reported unasked, error and hang-up.                                *)
(***************************************************************************)
EXTENDS PollEvents

Idents(entries) == {e.ident : e \in entries}

\* Everything SCE_NET_EPOLL_CTL_ADD needs in order to succeed.
CanAdd(interest, open, ident) ==
  /\ ident \in open
  /\ ident \notin Idents(interest)

\* The interest list without the entry of a socket (CTL_DEL, or a close).
Without(interest, ident) == {e \in interest : e.ident # ident}

UnaskedEvents == {"EPOLLERR", "EPOLLHUP"}

\* What a wait reports for one entry when the sockets' conditions are ready.
Reported(e, ready) ==
  [ident |-> e.ident, events |-> ready[e.ident] \cap (e.events \cup UnaskedEvents)]

\* The entries sceNetEpollWait fills in: those with something to report.
Report(interest, ready) ==
  {r \in {Reported(e, ready) : e \in interest} : r.events # {}}
=============================================================================
