--------------------------- MODULE DirectorySearch --------------------------
(***************************************************************************)
(* os::Directory::FindHandle with FindFirstFile, FindNextFile and          *)
(* CloseOSHandle: one search over a directory that other threads delete    *)
(* files from.  One step is one system call, or one round of the loop of   *)
(* FindNextFile up to its next system call.                                *)
(*                                                                         *)
(* The buffer sceKernelGetdents fills is a sequence of entries, so that    *)
(* curpos counts entries where the code counts bytes; entry->d_reclen is   *)
(* 1 and bufferused is Len(buffer).                                        *)
(*                                                                         *)
(* The caller is outside src/: it calls FindFirstFile on a handle without  *)
(* an OS handle, FindNextFile on one with it, and CloseOSHandle at will.   *)
(***************************************************************************)
EXTENDS Integers, Sequences

CONSTANTS
  Listing,      \* the names in the directory, in the order it lists them
  Matching,     \* the names utils::Match accepts for the pattern
  Unreadable,   \* the names whose attributes File::GetFileAttributes cannot read
  BlkSize,      \* st_blksize: how many entries the buffer holds
  Descriptors,  \* the file descriptors sceKernelOpen may return
  NULL

Names == {Listing[i] : i \in 1 .. Len(Listing)}

ASSUME SearchAssumption ==
  /\ Listing \in Seq(Names)
  /\ \A i, j \in 1 .. Len(Listing) : Listing[i] = Listing[j] => i = j
  /\ BlkSize \in Nat \ {0}
  /\ NULL \notin Descriptors
  /\ Names \cap {"none", "error", "kErrorCodeNoMoreFiles"} = {}

VARIABLES
  exists,       \* the files that still exist
  openFds,      \* the descriptors the kernel has open for this search
  offset,       \* how many entries the kernel has handed out of the descriptor
  osHandle,     \* handle->fd, or NULL
  buffer,       \* the entries of the last sceKernelGetdents
  curpos,       \* how many of them have been taken
  pc,           \* "idle", "loop" (in FindNextFile), "stat" (an entry matched)
  filename,     \* the entry whose attributes are to be read
  answer,       \* the file found, or the error code, of the last call
  returned,     \* history: the files returned by this search
  readFailed    \* history: a sceKernelGetdents of this search failed

vars == <<exists, openFds, offset, osHandle, buffer, curpos, pc, filename, answer,
          returned, readFailed>>

Dirent == [d_name : Names, d_fileno : {0, 1}]

\* The types of a search's state; the buffer holds no more than the kernel has
\* handed out, and while attributes are read they are those of the entry of the
\* buffer that curpos has just passed.
TypeOK ==
  /\ exists \subseteq Names
  /\ openFds \subseteq Descriptors
  /\ offset \in 0 .. Len(Listing)
  /\ osHandle \in Descriptors \cup {NULL}
  /\ buffer \in Seq(Dirent) /\ Len(buffer) <= offset
  /\ curpos \in Nat
  /\ pc \in {"idle", "loop", "stat"}
  /\ filename \in Names \cup {NULL}
  /\ pc = "stat" => curpos \in 1 .. Len(buffer) /\ filename = buffer[curpos].d_name
  /\ answer \in Names \cup {"none", "error", "kErrorCodeNoMoreFiles"}
  /\ returned \in Seq(Names)
  /\ readFailed \in BOOLEAN

Init ==
  /\ exists = Names
  /\ openFds = {} /\ offset = 0 /\ osHandle = NULL
  /\ buffer = <<>> /\ curpos = 0
  /\ pc = "idle" /\ filename = NULL /\ answer = "none"
  /\ returned = <<>> /\ readFailed = FALSE

-----------------------------------------------------------------------------

\* handle->curpos "indicates no valid data".
NoValidData == BlkSize

\* FindFirstFile when the directory cannot be opened.
FindFirstFails ==
  /\ pc = "idle" /\ osHandle = NULL
  /\ answer' = "error"
  /\ UNCHANGED <<exists, openFds, offset, osHandle, buffer, curpos, pc, filename,
                 returned, readFailed>>

\* FindFirstFile up to its call of FindNextFile.
FindFirstFile(fd) ==
  /\ pc = "idle" /\ osHandle = NULL
  /\ fd \notin openFds
  /\ openFds' = openFds \cup {fd} /\ offset' = 0
  /\ osHandle' = fd
  /\ buffer' = <<>> /\ curpos' = NoValidData
  /\ pc' = "loop" /\ answer' = "none"
  /\ returned' = <<>> /\ readFailed' = FALSE
  /\ UNCHANGED <<exists, filename>>

FindNextFile ==
  /\ pc = "idle" /\ osHandle # NULL
  /\ pc' = "loop" /\ answer' = "none"
  /\ UNCHANGED <<exists, openFds, offset, osHandle, buffer, curpos, filename, returned,
                 readFailed>>

BufferSpent == curpos >= Len(buffer)

\* The entries sceKernelGetdents hands out when it hands out n of them: a file
\* that is gone has a zero d_fileno.
Dirents(n) ==
  [i \in 1 .. n |-> [d_name   |-> Listing[offset + i],
                     d_fileno |-> IF Listing[offset + i] \in exists THEN 1 ELSE 0]]

\* Mutant: the position is not set back after a refill.
RefilledPositionKept == curpos
RefilledPosition == 0

\* sceKernelGetdents returns at least one entry, at most a buffer full.
Refill ==
  /\ pc = "loop" /\ BufferSpent
  /\ \E n \in 1 .. BlkSize :
       /\ offset + n <= Len(Listing)
       /\ buffer' = Dirents(n)
       /\ offset' = offset + n
  /\ curpos' = RefilledPosition
  /\ UNCHANGED <<exists, openFds, osHandle, pc, filename, answer, returned, readFailed>>

\* sceKernelGetdents returns 0 at the end of the directory.
EndOfDirectory ==
  /\ pc = "loop" /\ BufferSpent
  /\ offset = Len(Listing)
  /\ pc' = "idle" /\ answer' = "kErrorCodeNoMoreFiles"
  /\ UNCHANGED <<exists, openFds, offset, osHandle, buffer, curpos, filename, returned,
                 readFailed>>

\* sceKernelGetdents fails: the same code as at the end.
ReadFails ==
  /\ pc = "loop" /\ BufferSpent
  /\ pc' = "idle" /\ answer' = "kErrorCodeNoMoreFiles"
  /\ readFailed' = TRUE
  /\ UNCHANGED <<exists, openFds, offset, osHandle, buffer, curpos, filename, returned>>

\* Mutant: curpos moves on only past an entry in use.
AdvancedIfKept(entry) ==
  IF entry.d_fileno # 0 THEN curpos + 1 ELSE curpos
\* Mutant: curpos moves on by the record and by its header.
AdvancedTwice(entry) == curpos + 2
Advanced(entry) == curpos + 1

\* One entry of the buffer.
Examine ==
  /\ pc = "loop" /\ ~BufferSpent
  /\ LET entry == buffer[curpos + 1] IN
       /\ curpos' = Advanced(entry)
       /\ IF entry.d_fileno # 0 /\ entry.d_name \in Matching
          THEN pc' = "stat" /\ filename' = entry.d_name
          ELSE UNCHANGED <<pc, filename>>
  /\ UNCHANGED <<exists, openFds, offset, osHandle, buffer, answer, returned, readFailed>>

\* File::GetFileAttributes of the entry: the call returns it, or goes on.
ReadAttributes ==
  /\ pc = "stat"
  /\ filename' = NULL
  /\ IF filename \in exists /\ filename \notin Unreadable
     THEN pc' = "idle" /\ answer' = filename /\ returned' = Append(returned, filename)
     ELSE pc' = "loop" /\ UNCHANGED <<answer, returned>>
  /\ UNCHANGED <<exists, openFds, offset, osHandle, buffer, curpos, readFailed>>

\* Mutant: the descriptor is left open.
ClosedForgotten == openFds
Closed == openFds \ {osHandle}

CloseOSHandle ==
  /\ pc = "idle" /\ osHandle # NULL
  /\ openFds' = Closed
  /\ osHandle' = NULL /\ offset' = 0
  /\ buffer' = <<>> /\ curpos' = 0
  /\ UNCHANGED <<exists, pc, filename, answer, returned, readFailed>>

\* Another thread deletes a file.
Delete(n) ==
  /\ n \in exists /\ exists' = exists \ {n}
  /\ UNCHANGED <<openFds, offset, osHandle, buffer, curpos, pc, filename, answer,
                 returned, readFailed>>

-----------------------------------------------------------------------------

\* The thread inside FindNextFile.
SearchStep == Refill \/ EndOfDirectory \/ ReadFails \/ Examine \/ ReadAttributes

Next ==
  \/ FindFirstFails
  \/ \E fd \in Descriptors : FindFirstFile(fd)
  \/ FindNextFile
  \/ SearchStep
  \/ CloseOSHandle
  \/ \E n \in exists : Delete(n)

Spec == Init /\ [][Next]_vars /\ WF_vars(SearchStep)

-----------------------------------------------------------------------------
(* Safety. *)

Returned(n) == \E i \in 1 .. Len(returned) : returned[i] = n

\* When a search ends without a read failure, every matching file that was
\* there all along has been returned, however the kernel cut the listing into
\* buffers and whatever was deleted around it.
ListingComplete ==
  pc = "idle" /\ answer = "kErrorCodeNoMoreFiles" /\ ~readFailed =>
    \A n \in (Matching \cap exists) \ Unreadable : n \in Names => Returned(n)

\* The search owns exactly the descriptor of its OS handle: a failed open
\* leaves none behind, a close gives it back, and the destructor's assertion
\* osHandle == NULL means that nothing is open.
OwnsItsDescriptor ==
  openFds = IF osHandle = NULL THEN {} ELSE {osHandle}

\* Every call of FindFirstFile or FindNextFile returns.
CallsReturn == (pc # "idle") ~> (pc = "idle")

-----------------------------------------------------------------------------
(* The search implements FileEnumeration. *)

\* The entries of the buffer that have not been taken.
Unread == IF BufferSpent THEN 0 ELSE Len(buffer) - curpos

Enumeration ==
  INSTANCE FileEnumeration WITH
    state <- IF pc # "idle" THEN "busy" ELSE IF osHandle = NULL THEN "closed" ELSE "ready",
    next  <- offset - Unread - (IF pc = "stat" THEN 1 ELSE 0)

\* Buffers and descriptors cannot be noticed: see FileEnumeration.
Enumerates == Enumeration!Spec
=============================================================================
