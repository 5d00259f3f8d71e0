----------------------------- MODULE MCUnixPoll -----------------------------
(***************************************************************************)
(* Instances of UnixPoll for TLC.                                          *)
(***************************************************************************)
EXTENDS UnixPoll

CONSTANTS f1, f2, f3

Ask(fd, events) == [fd |-> fd, events |-> events, revents |-> {}]

\* Two sockets; one socket twice; one socket twice with nothing asked the
\* second time and stale revents; more sockets than MaxEvents = 2, with an
\* entry that asks for nothing in between; no socket; no entries.
MCCalls ==
  { <<Ask(f1, {"POLLIN"}), Ask(f2, {"POLLOUT", "POLLHUP"})>>,
    <<Ask(f1, {"POLLIN"}), Ask(f1, {"POLLOUT"})>>,
    <<[fd |-> f1, events |-> {"POLLIN"}, revents |-> {"POLLOUT"}], Ask(f1, {"POLLPRI"})>>,
    <<Ask(f1, {"POLLIN"}), Ask(f2, {}), Ask(f2, {"POLLIN"}), Ask(f3, {"POLLIN"})>>,
    <<Ask(NoFd, {"POLLIN"})>>,
    <<>> }

MCConditions == {{}, {"EPOLLIN"}, {"EPOLLIN", "EPOLLOUT"}, {"EPOLLERR", "EPOLLHUP"}}

\* No limit, no wait, and a product that no longer fits IntMax = 32767.
MCTimeouts == {-1, 0, 4}
=============================================================================
