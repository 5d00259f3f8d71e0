--------------------------- MODULE MCMultiplexIO ----------------------------
(***************************************************************************)
(* Instances of MultiplexIO for TLC.                                       *)
(***************************************************************************)
EXTENDS MultiplexIO, TLC

CONSTANTS f1, f2, f3

Ask(fd, events) == [fd |-> fd, events |-> events, revents |-> {}]

\* Two requests for one socket with different flags, a request without a
\* socket, a second socket, revents left over from an earlier call, an empty
\* vector, and one socket too many.
MCCalls ==
  { <<Ask(f1, {"In"}), Ask(f1, {"Out", "NVal"})>>,
    <<Ask(f1, {"In", "Pri"}), Ask(NoFd, {"In"}), Ask(f2, {"HUp"})>>,
    <<[fd |-> f2, events |-> {"Err", "In"}, revents |-> {"Out"}]>>,
    <<>>,
    <<Ask(f1, {"In"}), Ask(f2, {"In"}), Ask(f3, {"In"})>> }

MCConditions == {{}, {"EPOLLIN"}, {"EPOLLIN", "EPOLLOUT"}, {"EPOLLERR", "EPOLLHUP"}}

\* No limit, no wait, a limit that fits, and a product that no longer fits IntMax = 32767.
MCTimeouts == {-1, 0, 1, 4}

=============================================================================
