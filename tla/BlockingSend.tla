---------------------------- MODULE BlockingSend ----------------------------
(***************************************************************************)
(* sendfile together with setBlocking: one thread copies files to a        *)
(* socket, the socket's owner changes its mode at any time, also under a   *)
(* copy.  What joins them is libnet: a send is refused with SCE_NET_EAGAIN *)
(* only when the socket does not block.                                    *)
(***************************************************************************)
EXTENDS SendFile, SocketBlocking

VARIABLE keptBlocking  \* history: the owner was promised a blocking socket before this call, and left it

allVars == <<vars, optionVars, keptBlocking>>

\* The types of the copy and of the socket.
TypeOK == CopyTypeOK /\ OptionTypeOK /\ keptBlocking \in BOOLEAN

SystemInit == Init /\ OptionInit /\ keptBlocking = FALSE

StartCopy == Call /\ keptBlocking' = promised /\ UNCHANGED optionVars

Refuses == nbio = 1

Refused == SendAgain /\ Refuses /\ UNCHANGED <<optionVars, keptBlocking>>

Copy(step) == step /\ UNCHANGED <<optionVars, keptBlocking>>

ChangeMode ==
  /\ \E blocking \in BOOLEAN : setBlocking(blocking)
  /\ keptBlocking' = FALSE /\ UNCHANGED vars

SystemNext ==
  \/ StartCopy \/ Copy(ReadReturns) \/ Copy(ReadInterrupted) \/ Copy(SendReturns) \/ Refused
  \/ ChangeMode
  \/ OptionStep /\ UNCHANGED <<vars, keptBlocking>>

\* Signals and a full socket do not go on for ever.
SystemSpec ==
  /\ SystemInit /\ [][SystemNext]_allVars
  /\ SF_allVars(Copy(ReadReturns)) /\ SF_allVars(Copy(SendReturns))

-----------------------------------------------------------------------------

\* If setBlocking(true) read the option back and returned 0, and nobody changes
\* the mode since, a sendfile never repeats a send, which would lose its length:
\* 0 is never returned for a socket that does not block, unless it could not be
\* read back.
BlockingNeverRetries == keptBlocking => ~retried
=============================================================================
