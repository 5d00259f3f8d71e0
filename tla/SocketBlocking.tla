--------------------------- MODULE SocketBlocking ---------------------------
(***************************************************************************)
(* setBlocking of Sockets.cpp: the option is set, read back, and compared. *)
(* Either call of libnet may fail, which is only printed; when the option  *)
(* cannot be read back, what is compared is an uninitialised variable,     *)
(* that is either value.                                                   *)
(***************************************************************************)
EXTENDS Integers

VARIABLES
  nbio,        \* SCE_NET_SO_NBIO of the socket: 1 if it does not block
  notblocking, \* what the setBlocking in progress sets
  setPc,       \* "idle", "set", "get"
  setResult,   \* what the last setBlocking returned: 0 or 1
  promised     \* history: the last setBlocking(true) read the option back and returned 0

optionVars == <<nbio, notblocking, setPc, setResult, promised>>

OptionTypeOK ==
  /\ nbio \in {0, 1} /\ notblocking \in {0, 1} /\ setResult \in {0, 1}
  /\ setPc \in {"idle", "set", "get"}
  /\ promised \in BOOLEAN

OptionInit ==
  /\ nbio \in {0, 1} /\ notblocking = 0
  /\ setPc = "idle" /\ setResult = 1 /\ promised = FALSE

setBlocking(blocking) ==
  /\ setPc = "idle" /\ setPc' = "set"
  /\ notblocking' = IF blocking THEN 0 ELSE 1
  /\ promised' = FALSE
  /\ UNCHANGED <<nbio, setResult>>

\* sceNetSetsockopt, which may fail.
Setsockopt ==
  /\ setPc = "set" /\ setPc' = "get"
  /\ nbio' \in {nbio, notblocking}
  /\ UNCHANGED <<notblocking, setResult, promised>>

\* Mutant: the result of the comparison is not looked at.
ComparedAsSet(value) == 0
Compared(value) == IF value # notblocking THEN 1 ELSE 0

\* The comparison, with the value that was read.
Compare(value) ==
  /\ setPc = "get" /\ setPc' = "idle"
  /\ setResult' = Compared(value)
  /\ UNCHANGED <<nbio, notblocking>>

Getsockopt ==
  /\ Compare(nbio)
  /\ promised' = (setResult' = 0 /\ notblocking = 0)

GetsockoptFails == \E value \in {0, 1} : Compare(value) /\ UNCHANGED promised

OptionStep == Setsockopt \/ Getsockopt \/ GetsockoptFails
=============================================================================
