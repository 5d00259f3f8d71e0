----------------------------- MODULE PollEvents -----------------------------
(***************************************************************************)
(* The three vocabularies in which readiness is expressed, and the         *)
(* conversions between them:                                               *)
(*                                                                         *)
(*   os::PollFlags  what a managed caller asks for and is answered with    *)
(*   POLLxxx        the bits of sys/poll.h                                 *)
(*   EPOLLxxx       the bits SCE_NET_EPOLLxxx of libnet                    *)
(*                                                                         *)
(* A bit mask is the set of its bits; |= is union and & is intersection.   *)
(***************************************************************************)

PollFlags  == {"In", "Pri", "Out", "Err", "HUp", "NVal"}
UnixEvents == {"POLLIN", "POLLPRI", "POLLOUT", "POLLERR", "POLLHUP", "POLLNVAL"}
SceEvents  == {"EPOLLIN", "EPOLLOUT", "EPOLLERR", "EPOLLHUP"}

(***************************************************************************)
(* The table both Remap functions walk.  POLLPRI has no row, and POLLERR   *)
(* and POLLNVAL share EPOLLERR.  Its mutant loses the row of POLLHUP.      *)
(***************************************************************************)
valsWithoutHup == {<<"POLLIN", "EPOLLIN">>, <<"POLLOUT", "EPOLLOUT">>,
                   <<"POLLERR", "EPOLLERR">>, <<"POLLNVAL", "EPOLLERR">>}
vals == {<<"POLLIN", "EPOLLIN">>, <<"POLLOUT", "EPOLLOUT">>,
         <<"POLLERR", "EPOLLERR">>, <<"POLLHUP", "EPOLLHUP">>,
         <<"POLLNVAL", "EPOLLERR">>}

RemapUnixToSCEEvents(unixEvents) ==
  {v[2] : v \in {w \in vals : w[1] \in unixEvents}}

RemapSCEToUnixEvents(sceEvents) ==
  {v[1] : v \in {w \in vals : w[2] \in sceEvents}}

(***************************************************************************)
(* os/Posix/PosixHelpers.h, which is not in this repository: MultiplexIO   *)
(* uses it as a renaming of bits in both directions.                       *)
(***************************************************************************)
flagTable == {<<"In", "POLLIN">>, <<"Pri", "POLLPRI">>, <<"Out", "POLLOUT">>,
              <<"Err", "POLLERR">>, <<"HUp", "POLLHUP">>, <<"NVal", "POLLNVAL">>}

PollFlagsToPollEvents(flags) ==
  {v[2] : v \in {w \in flagTable : w[1] \in flags}}

PollEventsToPollFlags(events) ==
  {v[1] : v \in {w \in flagTable : w[2] \in events}}

-----------------------------------------------------------------------------

(***************************************************************************)
(* Reference definition, used by properties only: the libnet condition     *)
(* that a PollFlag or a POLL bit stands for, written without the code's    *)
(* tables.  Nothing can raise Pri.                                         *)
(***************************************************************************)
Condition(flag) ==
  CASE flag \in {"In", "POLLIN"}   -> {"EPOLLIN"}
    [] flag \in {"Out", "POLLOUT"} -> {"EPOLLOUT"}
    [] flag \in {"HUp", "POLLHUP"} -> {"EPOLLHUP"}
    [] flag \in {"Err", "NVal", "POLLERR", "POLLNVAL"} -> {"EPOLLERR"}
    [] OTHER -> {}
=============================================================================
