------------------------------ MODULE SendFile ------------------------------
(***************************************************************************)
(* sendfile of Sockets.cpp: a file is copied to a socket through a buffer, *)
(* one read and one send at a time.  One step is one read or send.         *)
(*                                                                         *)
(* The bytes of the file are the numbers 1 .. FileLen.  The variable n is  *)
(* the code's: it is both the length given to send and its result, so that *)
(* a send refused with SCE_NET_EAGAIN is retried with the length -1, which *)
(* is the largest size_t.  What such a send transmits begins with the      *)
(* buffer, whatever it holds, and may go on with what lies behind it.      *)
(***************************************************************************)
EXTENDS Integers, Sequences

CONSTANTS
  FileLen,         \* the length of the file
  BufferSize,      \* SF_BUFFER_SIZE
  Junk             \* a byte that is not the file's

ASSUME SendFileAssumption ==
  /\ FileLen \in Nat
  /\ BufferSize \in Nat \ {0}
  /\ Junk \notin 1 .. FileLen

VARIABLES
  pos,        \* how many bytes have been read of in_fd
  out,        \* the bytes out_fd has taken
  buffer,     \* the contents of the buffer
  allocated,  \* whether it is allocated
  n,          \* the result of the last read or send
  pc,         \* "idle", "read", "send"
  result,     \* what the last call returned, 0 or -1 (-1 before the first)
  lost,       \* history: the bytes a short send left out
  retried     \* history: a send of this call was refused with SCE_NET_EAGAIN

vars == <<pos, out, buffer, allocated, n, pc, result, lost, retried>>

Byte == 1 .. FileLen \cup {Junk}

\* The types of a copy's state; a send is never given the length 0, which is
\* the end of the file, and the buffer is allocated exactly while a call runs.
CopyTypeOK ==
  /\ pos \in 0 .. FileLen
  /\ out \in Seq(Byte)
  /\ buffer \in [1 .. BufferSize -> Byte]
  /\ allocated \in BOOLEAN /\ (allocated <=> pc # "idle")
  /\ n \in -1 .. BufferSize + 1
  /\ pc = "send" => n # 0
  /\ pc \in {"idle", "read", "send"}
  /\ result \in {0, -1}
  /\ lost \subseteq 1 .. FileLen
  /\ retried \in BOOLEAN

Init ==
  /\ pos = 0 /\ out = <<>>
  /\ buffer = [i \in 1 .. BufferSize |-> Junk] /\ allocated = FALSE
  /\ n = 0 /\ pc = "idle" /\ result = -1
  /\ lost = {} /\ retried = FALSE

\* A call, on a file and a socket of its own.
Call ==
  /\ pc = "idle"
  /\ pos' = 0 /\ out' = <<>> /\ lost' = {} /\ retried' = FALSE
  /\ buffer' = [i \in 1 .. BufferSize |-> Junk] /\ allocated' = TRUE
  /\ pc' = "read"
  /\ UNCHANGED <<n, result>>

\* Mutant: the exit at the end of the file does not free the buffer.
FreedOnError(r) == r = 0 /\ allocated
Freed(r) == FALSE

\* An exit: the buffer is freed.
Exit(r) == pc' = "idle" /\ result' = r /\ allocated' = Freed(r)

\* Mutant: a read always starts at the front of the file again.
ReadFromFront(k) == [i \in 1 .. BufferSize |-> IF i <= k THEN i ELSE buffer[i]]
\* The buffer after the next k bytes of the file have been read into it.
ReadInto(k) == [i \in 1 .. BufferSize |-> IF i <= k THEN pos + i ELSE buffer[i]]

Read ==
  /\ pc = "read"
  /\ \E k \in 1 .. BufferSize :
       /\ pos + k <= FileLen
       /\ buffer' = ReadInto(k)
       /\ pos' = pos + k /\ n' = k
  /\ pc' = "send"
  /\ UNCHANGED <<out, allocated, result, lost, retried>>

ReadInterrupted ==
  /\ pc = "read" /\ n' = -1
  /\ UNCHANGED <<pos, out, buffer, allocated, pc, result, lost, retried>>

\* Mutant: at the end of the file the code reads again.
ReadEndAgain ==
  /\ pc = "read" /\ pos = FileLen
  /\ n' = 0
  /\ UNCHANGED <<pos, out, buffer, allocated, pc, result, lost, retried>>
ReadEnd ==
  /\ pc = "read" /\ pos = FileLen
  /\ n' = 0 /\ Exit(0)
  /\ UNCHANGED <<pos, out, buffer, lost, retried>>

ReadFails ==
  /\ pc = "read"
  /\ n' = -1 /\ Exit(-1)
  /\ UNCHANGED <<pos, out, buffer, lost, retried>>

\* How many bytes the socket may take when send is given the length len; of an
\* impossible length it may take any number (bounded here by one byte more
\* than the buffer).
Takes(len) == 1 .. (IF len = -1 THEN BufferSize + 1 ELSE len)

\* The first k bytes in memory from the buffer on.
Sent(k) == [i \in 1 .. k |-> IF i <= BufferSize THEN buffer[i] ELSE Junk]

\* The rest of a short send is forgotten: the next step is a read.
Send ==
  /\ pc = "send"
  /\ \E k \in Takes(n) :
       /\ out' = out \o Sent(k)
       /\ lost' = lost \cup (IF n = -1 THEN {} ELSE {buffer[i] : i \in k + 1 .. n})
       /\ n' = k
  /\ pc' = "read"
  /\ UNCHANGED <<pos, buffer, allocated, result, retried>>

\* SCE_NET_EAGAIN: the length is gone.
SendAgain ==
  /\ pc = "send"
  /\ n' = -1 /\ retried' = TRUE
  /\ UNCHANGED <<pos, out, buffer, allocated, pc, result, lost>>

SendFails ==
  /\ pc = "send"
  /\ n' = -1 /\ Exit(-1)
  /\ UNCHANGED <<pos, out, buffer, lost, retried>>

-----------------------------------------------------------------------------

ReadReturns == Read \/ ReadEnd \/ ReadFails
SendReturns == Send \/ SendFails

Next ==
  Call \/ ReadReturns \/ ReadInterrupted \/ SendReturns \/ SendAgain

Spec == Init /\ [][Next]_vars

-----------------------------------------------------------------------------

\* How many bytes of the file are in the buffer and not sent yet.
Unsent == IF pc = "send" THEN n ELSE 0

\* As long as no send had to be repeated, the socket has exactly the bytes of
\* the file that were read and whose send is over, once each and in order,
\* without those that short sends left out; and a call that returns 0 has read
\* the whole file.
OutputExact ==
  ~retried =>
    /\ pc = "idle" /\ result = 0 => pos = FileLen
    /\ pc # "idle" \/ result = 0 =>
         /\ \A i, j \in 1 .. Len(out) : i < j => out[i] < out[j]
         /\ {out[i] : i \in 1 .. Len(out)} = (1 .. pos - Unsent) \ lost

\* Every call returns, if interruptions and refusals do not go on for ever.
CallsReturn == (pc # "idle") ~> (pc = "idle")
=============================================================================
