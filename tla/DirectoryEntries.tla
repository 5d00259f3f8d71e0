-------------------------- MODULE DirectoryEntries --------------------------
(***************************************************************************)
(* os::Directory::GetFileSystemEntries and the DirectoryGlob it calls: the *)
(* directory is read to its end and closed, and only then are the          *)
(* attributes of the names that matched read, while other threads delete   *)
(* files and change attributes.  Between two listings the caller creates   *)
(* and removes directories in it.  One step is one system call, or one     *)
(* round of a loop up to its next system call.                             *)
(*                                                                         *)
(* As in DirectorySearch the buffer is a sequence of entries.  The         *)
(* comparison of pathAttributes under a mask with the attributes asked for *)
(* is the membership of a file in selected.  A std::set is a set; the      *)
(* order in which its elements are taken does not matter.                  *)
(***************************************************************************)
EXTENDS Integers, Sequences

CONSTANTS
  Listing,      \* the names in the directory, in the order it lists them
  Dots,         \* the names "." and ".."
  Patterns,     \* what utils::Match accepts, for each pattern of a call
  EmptyPattern, \* the pattern without characters
  Unreadable,   \* the names whose attributes cannot be read
  BlkSize,      \* st_blksize: how many entries the buffer holds
  Failures      \* the codes with which the system calls on directories may fail

Names == {Listing[i] : i \in 1 .. Len(Listing)}

ASSUME EntriesAssumption ==
  /\ Listing \in Seq(Names)
  /\ \A i, j \in 1 .. Len(Listing) : Listing[i] = Listing[j] => i = j
  /\ BlkSize \in Nat \ {0}
  /\ EmptyPattern \notin Patterns

VARIABLES
  exists,       \* the files that still exist
  selected,     \* the files with the attributes asked for
  dirFd,        \* whether the descriptor of dirDetails is open
  offset,       \* how many entries the kernel has handed out of it
  buffer,       \* the entries of the last sceKernelGetdents
  curpos,       \* how many of them have been taken
  pc,           \* "idle", "glob", "close", "attributes"
  pattern,      \* the pattern of this call
  globResult,   \* the names that matched and whose attributes are to be read
  result,       \* the names returned
  error,        \* *error of the last call
  readFailed,   \* history: a sceKernelGetdents of this call failed
  steady,       \* history: the files that were there, and selected, all through this call
  atSomeTime    \* history: the files that were there and selected at some moment of it

dirVars  == <<dirFd, offset, buffer, curpos>>
fileVars == <<exists, selected>>
history  == <<readFailed, steady, atSomeTime>>
vars == <<fileVars, dirVars, pc, pattern, globResult, result, error, history>>

-----------------------------------------------------------------------------
(* Error codes. *)

sceErrnoToErrorCode(code) ==
  CASE code \in {"EACCES", "EPERM", "EROFS"} -> "kErrorCodeAccessDenied"
    [] code = "EAGAIN"                       -> "kErrorCodeSharingViolation"
    [] code = "EBUSY"                        -> "kErrorCodeLockViolation"
    [] code = "EEXIST"                       -> "kErrorCodeFileExists"
    [] code \in {"EINVAL", "ESPIPE"}         -> "kErrorSeek"
    [] code = "EISDIR"                       -> "kErrorCodeCannotMake"
    [] code \in {"ENFILE", "EMFILE"}         -> "kErrorCodeTooManyOpenFiles"
    [] code \in {"ENOENT", "ENOTDIR"}        -> "kErrorCodeFileNotFound"
    [] code = "ENOSPC"                       -> "kErrorCodeHandleDiskFull"
    [] code = "ENOTEMPTY"                    -> "kErrorCodeDirNotEmpty"
    [] code = "ENOEXEC"                      -> "kErrorBadFormat"
    [] code = "ENAMETOOLONG"                 -> "kErrorCodeFileNameExcedRange"
    [] code = "EINPROGRESS"                  -> "kErrorIoPending"
    [] code = "ENOSYS"                       -> "kErrorNotSupported"
    [] code \in {"EBADF", "EIO"}             -> "kErrorCodeInvalidHandle"
    [] code = "EINTR"                        -> "kErrorIoPending"
    [] code = "EPIPE"                        -> "kErrorCodeWriteFault"
    [] OTHER                                 -> "kErrorCodeGenFailure"

-----------------------------------------------------------------------------

Dirent == [d_name : Names, d_fileno : {0, 1}]

\* The types of a listing's state; curpos stays within the buffer, or is the
\* st_blksize that indicates no valid data, and the descriptor is open only
\* while the directory is read.
TypeOK ==
  /\ exists \subseteq Names /\ selected \subseteq Names
  /\ dirFd \in BOOLEAN /\ (dirFd <=> pc \in {"glob", "close"})
  /\ offset \in 0 .. Len(Listing)
  /\ buffer \in Seq(Dirent) /\ Len(buffer) <= offset
  /\ curpos \in 0 .. (IF buffer = <<>> THEN BlkSize ELSE Len(buffer))
  /\ pc \in {"idle", "glob", "close", "attributes"}
  /\ pattern \in Patterns \cup {EmptyPattern}
  /\ globResult \subseteq Names /\ result \subseteq Names
  /\ error \in {"kErrorCodeSuccess"} \cup {sceErrnoToErrorCode(c) : c \in Failures}
  /\ readFailed \in BOOLEAN
  /\ steady \subseteq Names /\ atSomeTime \subseteq Names

Init ==
  /\ exists = Names /\ selected \in SUBSET Names
  /\ dirFd = FALSE /\ offset = 0 /\ buffer = <<>> /\ curpos = 0
  /\ pc = "idle" /\ pattern = EmptyPattern
  /\ globResult = {} /\ result = {} /\ error = "kErrorCodeSuccess"
  /\ readFailed = FALSE
  /\ steady = {} /\ atSomeTime = {}

\* A call begins: what its history starts from.
Enter(p) ==
  /\ pc = "idle" /\ pattern' = p
  /\ globResult' = {} /\ result' = {}
  /\ readFailed' = FALSE
  /\ steady' = exists \cap selected /\ atSomeTime' = exists \cap selected
  /\ UNCHANGED fileVars

OpenFails(p, code) ==
  /\ Enter(p)
  /\ error' = sceErrnoToErrorCode(code)
  /\ UNCHANGED <<dirVars, pc>>

\* DirectoryGlob opens the directory; an empty pattern reads nothing.
Open(p) ==
  /\ Enter(p)
  /\ dirFd' = TRUE /\ offset' = 0
  /\ buffer' = <<>> /\ curpos' = BlkSize
  /\ pc' = IF p = EmptyPattern THEN "close" ELSE "glob"
  /\ UNCHANGED error

BufferSpent == curpos >= Len(buffer)

\* A file that is gone has a zero d_fileno.
Dirents(n) ==
  [i \in 1 .. n |-> [d_name   |-> Listing[offset + i],
                     d_fileno |-> IF Listing[offset + i] \in exists THEN 1 ELSE 0]]

\* Mutant: the position is not set back after a refill.
RefilledPositionKept == curpos
RefilledPosition == 0

Refill ==
  /\ pc = "glob" /\ BufferSpent
  /\ \E n \in 1 .. BlkSize :
       /\ offset + n <= Len(Listing)
       /\ buffer' = Dirents(n)
       /\ offset' = offset + n
  /\ curpos' = RefilledPosition
  /\ UNCHANGED <<fileVars, dirFd, pc, pattern, globResult, result, error, history>>

\* sceKernelGetdents returns 0 at the end, or a negative value: either way the
\* loop is left.
EndOfDirectory ==
  /\ pc = "glob" /\ BufferSpent /\ offset = Len(Listing)
  /\ pc' = "close"
  /\ UNCHANGED <<fileVars, dirVars, pattern, globResult, result, error, history>>

ReadFails ==
  /\ pc = "glob" /\ BufferSpent
  /\ pc' = "close" /\ readFailed' = TRUE
  /\ UNCHANGED <<fileVars, dirVars, pattern, globResult, result, error, steady, atSomeTime>>

\* One entry of the buffer.
Examine ==
  /\ pc = "glob" /\ ~BufferSpent
  /\ LET entry == buffer[curpos + 1] IN
       /\ globResult' = IF entry.d_fileno # 0 /\ entry.d_name \in pattern
                        THEN globResult \cup {entry.d_name} ELSE globResult
       /\ curpos' = curpos + 1
  /\ UNCHANGED <<fileVars, dirFd, offset, buffer, pc, pattern, result, error, history>>

\* Mutant: the loop's exit returns without closing.
CloseForgotten == UNCHANGED dirFd
CloseDescriptor == dirFd' = FALSE

\* The end of DirectoryGlob.
Close ==
  /\ pc = "close" /\ pc' = "attributes"
  /\ CloseDescriptor
  /\ offset' = 0 /\ buffer' = <<>> /\ curpos' = 0
  /\ UNCHANGED <<fileVars, pattern, globResult, result, error, history>>

\* Mutant: the attributes decide nothing.
ChosenWhateverAttributes(n) == n \in exists /\ n \notin Unreadable
Chosen(n) == n \in exists /\ n \notin Unreadable /\ n \in selected

\* One name of globResult: the dots are skipped, the rest is looked up.
ReadAttributes(n) ==
  /\ pc = "attributes" /\ n \in globResult
  /\ globResult' = globResult \ {n}
  /\ result' = IF n \notin Dots /\ Chosen(n) THEN result \cup {n} ELSE result
  /\ UNCHANGED <<fileVars, dirVars, pc, pattern, error, history>>

Return ==
  /\ pc = "attributes" /\ globResult = {}
  /\ pc' = "idle" /\ error' = "kErrorCodeSuccess"
  /\ UNCHANGED <<fileVars, dirVars, pattern, globResult, result, history>>

\* Directory::Create and Directory::Remove between two listings: the files are
\* then newFiles, unless the system call fails with a code of Failures.
MakeDirectory(newFiles) ==
  /\ pc = "idle"
  /\ \/ exists' = newFiles /\ error' = "kErrorCodeSuccess"
     \/ \E code \in Failures : error' = sceErrnoToErrorCode(code) /\ UNCHANGED exists
  /\ pattern' = EmptyPattern /\ result' = {} /\ steady' = {} /\ atSomeTime' = {}
  /\ readFailed' = FALSE
  /\ UNCHANGED <<selected, dirVars, pc, globResult>>

Create(n) == n \notin exists /\ MakeDirectory(exists \cup {n})
Remove(n) == n \in exists \ Dots /\ MakeDirectory(exists \ {n})

\* Another thread deletes a file, or changes attributes.
Disturb(newExists, newSelected) ==
  /\ exists' = newExists /\ selected' = newSelected
  /\ steady' = steady \cap newExists \cap newSelected
  /\ atSomeTime' = atSomeTime \cup (newExists \cap newSelected)
  /\ UNCHANGED <<dirVars, pc, pattern, globResult, result, error, readFailed>>

Delete(n) == n \in exists /\ Disturb(exists \ {n}, selected)

ChangeAttributes(n) ==
  /\ n \in exists
  /\ Disturb(exists, IF n \in selected THEN selected \ {n} ELSE selected \cup {n})

-----------------------------------------------------------------------------

GlobStep == Refill \/ EndOfDirectory \/ ReadFails \/ Examine \/ Close
CallStep == GlobStep \/ Return \/ \E n \in globResult : ReadAttributes(n)

GetFileSystemEntries ==
  \E p \in Patterns \cup {EmptyPattern} :
    Open(p) \/ \E code \in Failures : OpenFails(p, code)

OtherThreads == pc # "idle" /\ \E n \in exists : Delete(n) \/ ChangeAttributes(n)

Next ==
  \/ GetFileSystemEntries \/ CallStep
  \/ \E n \in Names : Create(n) \/ Remove(n)
  \/ OtherThreads

Spec == Init /\ [][Next]_vars

-----------------------------------------------------------------------------

\* The pattern a name is compared with; the empty one is compared with nothing.
Accepted == IF pattern = EmptyPattern THEN {} ELSE pattern

\* A call whose error code says success has returned every matching file that
\* was there with the attributes asked for all through the call, wherever the
\* kernel cut the listing into buffers - unless a read failed, which it cannot
\* report.  A failed open never looks like an empty directory.
EntriesComplete ==
  pc = "idle" /\ error = "kErrorCodeSuccess" /\ ~readFailed =>
    ((Accepted \cap steady) \ (Dots \cup Unreadable)) \subseteq result

\* Nothing is returned but matching files that, at some moment of this very
\* call, were there with the attributes asked for: the attributes are read
\* after the directory was, and nothing of an earlier call is left over.
EntriesJustified ==
  result \subseteq (Accepted \cap atSomeTime) \ (Dots \cup Unreadable)
=============================================================================
