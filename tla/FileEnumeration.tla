--------------------------- MODULE FileEnumeration --------------------------
(***************************************************************************)
(* What a directory search promises its caller, without descriptors and    *)
(* buffers: the listing is walked once from the front; an entry is passed  *)
(* over only if it must be (it does not match, its attributes cannot be    *)
(* read, or it is gone), otherwise it is the next answer; "no more files"  *)
(* comes when nothing is left - or when reading the directory failed,      *)
(* which a caller cannot tell from the end.                                *)
(***************************************************************************)
EXTENDS Integers, Sequences

CONSTANTS
  Listing,      \* the names in the directory, in the order it lists them
  Matching,     \* the names the pattern matches
  Unreadable    \* the names whose attributes cannot be read

VARIABLES
  state,        \* "closed", "ready" (between two calls) or "busy" (in a call)
  next,         \* how many entries have been dealt with
  answer,       \* the last answer
  exists        \* the files that still exist

abstractVars == <<state, next, answer, exists>>

Deliverable(n) == n \in Matching /\ n \notin Unreadable /\ n \in exists

Init ==
  /\ state = "closed" /\ next = 0 /\ answer = "none"
  /\ exists = {Listing[i] : i \in 1 .. Len(Listing)}

\* FindFirstFile opens the directory and goes on as FindNextFile does.
Open ==
  /\ state = "closed" /\ state' = "busy"
  /\ next' = 0 /\ answer' = "none"
  /\ UNCHANGED exists

OpenFails ==
  /\ state = "closed" /\ answer' = "error"
  /\ UNCHANGED <<state, next, exists>>

Ask ==
  /\ state = "ready" /\ state' = "busy"
  /\ answer' = "none"
  /\ UNCHANGED <<next, exists>>

PassOver ==
  /\ state = "busy" /\ next < Len(Listing)
  /\ ~Deliverable(Listing[next + 1])
  /\ next' = next + 1
  /\ UNCHANGED <<state, answer, exists>>

Deliver ==
  /\ state = "busy" /\ next < Len(Listing)
  /\ Deliverable(Listing[next + 1])
  /\ next' = next + 1
  /\ state' = "ready" /\ answer' = Listing[next + 1]
  /\ UNCHANGED exists

NoMoreFiles ==
  /\ state = "busy" /\ next = Len(Listing)
  /\ state' = "ready" /\ answer' = "kErrorCodeNoMoreFiles"
  /\ UNCHANGED <<next, exists>>

ReadFailure ==
  /\ state = "busy"
  /\ state' = "ready" /\ answer' = "kErrorCodeNoMoreFiles"
  /\ UNCHANGED <<next, exists>>

Close ==
  /\ state = "ready" /\ state' = "closed"
  /\ next' = 0
  /\ UNCHANGED <<answer, exists>>

Delete(n) ==
  /\ n \in exists /\ exists' = exists \ {n}
  /\ UNCHANGED <<state, next, answer>>

Next ==
  \/ Open \/ OpenFails \/ Ask
  \/ PassOver \/ Deliver \/ NoMoreFiles \/ ReadFailure
  \/ Close
  \/ \E n \in exists : Delete(n)

Spec == Init /\ [][Next]_abstractVars
=============================================================================
