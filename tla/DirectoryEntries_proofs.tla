----------------------- MODULE DirectoryEntries_proofs -----------------------
(***************************************************************************)
(* A listing of GetFileSystemEntries misses no file that was there all the *)
(* time and returns none that never was, for every directory, every size   *)
(* of the buffer and whatever other threads do to the files.               *)
(***************************************************************************)
EXTENDS DirectoryEntries, TLAPS

\* What the dots and the unreadable files are excluded from.
Readable(S) == S \ (Dots \cup Unreadable)

\* The files a complete listing has to return.
Due == Accepted \cap steady

\* An entry that the loop has not come to yet.
InBuffer(n) == \E k \in curpos + 1 .. Len(buffer) : buffer[k].d_name = n /\ buffer[k].d_fileno # 0

\* During a call the history follows the files.
CallInv ==
  /\ pc = "idle" => globResult = {}
  /\ pc # "idle" => steady \subseteq exists \cap selected /\ exists \cap selected \subseteq atSomeTime
  /\ pc = "glob" => pattern # EmptyPattern
  /\ globResult \subseteq Accepted

\* Where a file that has to be returned is: in globResult or still in the
\* buffer while the directory is read, and later in globResult or in result.
PlaceInv ==
  /\ pc = "glob" => \A i \in 1 .. offset : Listing[i] \in Due => Listing[i] \in globResult \/ InBuffer(Listing[i])
  /\ pc = "close" /\ ~readFailed => Due \subseteq globResult
  /\ pc = "attributes" /\ ~readFailed => Readable(Due) \subseteq globResult \cup result
  /\ EntriesComplete

ListingInv == TypeOK /\ CallInv /\ PlaceInv /\ EntriesJustified

-----------------------------------------------------------------------------

\* An error code is never the one for success.
LEMMA ErrorIsNoSuccess ==
  ASSUME NEW code
  PROVE  sceErrnoToErrorCode(code) # "kErrorCodeSuccess"
  BY DEF sceErrnoToErrorCode

\* What the kernel hands out at once.
LEMMA DirentsType ==
  ASSUME NEW n \in Nat, offset \in Nat, offset + n <= Len(Listing)
  PROVE  /\ Dirents(n) \in Seq(Dirent) /\ Len(Dirents(n)) = n
         /\ \A k \in 1 .. n : /\ Dirents(n)[k].d_name = Listing[offset + k]
                              /\ Listing[offset + k] \in exists => Dirents(n)[k].d_fileno = 1
<1>1. ASSUME NEW k \in 1 .. n
      PROVE  [d_name   |-> Listing[offset + k],
              d_fileno |-> IF Listing[offset + k] \in exists THEN 1 ELSE 0] \in Dirent
  <2>1. offset + k \in 1 .. Len(Listing)
    BY EntriesAssumption
  <2>2. QED
    BY <2>1 DEF Dirent, Names
<1>2. Dirents(n) \in [1 .. n -> Dirent]
  BY <1>1 DEF Dirents
<1>3. Dirents(n) \in Seq(Dirent) /\ Len(Dirents(n)) = n
  BY <1>2
<1>4. QED
  BY <1>3 DEF Dirents

\* The invariant holds at the beginning.
LEMMA ListingAtInit == Init => ListingInv
<1> SUFFICES ASSUME Init PROVE ListingInv
  OBVIOUS
<1>1. buffer \in Seq(Dirent) /\ Len(buffer) = 0 /\ Len(Listing) \in Nat /\ BlkSize \in Nat
  BY EntriesAssumption DEF Init
<1>2. Len(buffer) <= offset /\ curpos \in 0 .. (IF buffer = <<>> THEN BlkSize ELSE Len(buffer))
  BY <1>1 DEF Init
<1>3. offset \in 0 .. Len(Listing)
  BY <1>1 DEF Init
<1>4. dirFd \in BOOLEAN /\ (dirFd <=> pc \in {"glob", "close"})
  BY DEF Init
<1>5. TypeOK
  BY <1>1, <1>2, <1>4, <1>3 DEF Init, TypeOK
<1>6. CallInv /\ PlaceInv /\ EntriesJustified
  BY DEF Init, CallInv, PlaceInv, EntriesJustified, EntriesComplete, Accepted
<1>7. QED
  BY <1>5, <1>6 DEF ListingInv

\* A call begins, or its open fails.
LEMMA EnterStep == ListingInv /\ GetFileSystemEntries => ListingInv'
<1> SUFFICES ASSUME ListingInv, NEW p \in Patterns \cup {EmptyPattern},
                    Open(p) \/ \E code \in Failures : OpenFails(p, code)
             PROVE  ListingInv'
  BY DEF GetFileSystemEntries
<1>0. Len(Listing) \in Nat /\ BlkSize \in Nat
  BY EntriesAssumption
<1>1. ASSUME NEW code \in Failures, OpenFails(p, code) PROVE ListingInv'
  <2>1. TypeOK'
    BY <1>1 DEF OpenFails, Enter, dirVars, fileVars, ListingInv, TypeOK
  <2>2. error' # "kErrorCodeSuccess" /\ pc' = "idle" /\ globResult' = {} /\ result' = {}
    BY <1>1, ErrorIsNoSuccess DEF OpenFails, Enter
  <2>3. CallInv' /\ PlaceInv' /\ EntriesJustified'
    BY <2>2 DEF CallInv, PlaceInv, EntriesComplete, EntriesJustified
  <2>4. QED
    BY <2>1, <2>3 DEF ListingInv
<1>2. CASE Open(p)
  <2>1. buffer' = <<>> /\ buffer' \in Seq(Dirent) /\ Len(buffer') = 0
    BY <1>2 DEF Open
  <2>2. Len(buffer') <= offset' /\ curpos' \in 0 .. (IF buffer' = <<>> THEN BlkSize ELSE Len(buffer'))
    BY <1>0, <1>2, <2>1 DEF Open
  <2>3. dirFd' \in BOOLEAN /\ (dirFd' <=> pc' \in {"glob", "close"})
    BY <1>2 DEF Open
  <2>4. offset' \in 0 .. Len(Listing)
    BY <1>0, <1>2 DEF Open
  <2>5. TypeOK'
    BY <1>2, <2>1, <2>2, <2>3, <2>4 DEF Open, Enter, fileVars, ListingInv, TypeOK
  <2>6. CallInv'
    BY <1>2 DEF Open, Enter, fileVars, CallInv
  <2>7. PlaceInv'
    BY <1>2 DEF Open, Enter, PlaceInv, EntriesComplete, Due, Accepted
  <2>8. EntriesJustified'
    BY <1>2 DEF Open, Enter, EntriesJustified
  <2>9. QED
    BY <2>5, <2>6, <2>7, <2>8 DEF ListingInv
<1>3. QED
  BY <1>1, <1>2

\* The kernel hands out the next part of the directory.
LEMMA RefillStep == ListingInv /\ Refill => ListingInv'
<1> SUFFICES ASSUME ListingInv, Refill PROVE ListingInv'
  OBVIOUS
<1>0. Len(Listing) \in Nat /\ BlkSize \in Nat /\ offset \in Nat
  BY EntriesAssumption DEF ListingInv, TypeOK
<1>1. PICK n \in 1 .. BlkSize : offset + n <= Len(Listing) /\ buffer' = Dirents(n) /\ offset' = offset + n
  BY DEF Refill
<1>2. /\ buffer' \in Seq(Dirent) /\ Len(buffer') = n /\ curpos' = 0
      /\ \A k \in 1 .. n : /\ buffer'[k].d_name = Listing[offset + k]
                           /\ Listing[offset + k] \in exists => buffer'[k].d_fileno = 1
  BY <1>0, <1>1, DirentsType DEF Refill, RefilledPosition
<1>3. /\ UNCHANGED <<fileVars, dirFd, pc, pattern, globResult, result, error, history>>
      /\ pc = "glob" /\ curpos >= Len(buffer)
  BY DEF Refill, BufferSpent
<1>4. TypeOK'
  BY <1>0, <1>1, <1>2, <1>3 DEF fileVars, history, ListingInv, TypeOK
<1>5. CallInv' /\ EntriesJustified'
  BY <1>3 DEF fileVars, history, ListingInv, CallInv, EntriesJustified, Accepted
<1>6. Due' = Due
  BY <1>3 DEF history, Due, Accepted
<1>7. ASSUME NEW i \in 1 .. offset', Listing[i] \in Due
      PROVE  Listing[i] \in globResult' \/ InBuffer(Listing[i])'
  <2>1. CASE i \in 1 .. offset
    <3>1. ~InBuffer(Listing[i])
      BY <1>3 DEF InBuffer, ListingInv, TypeOK
    <3>2. QED
      BY <1>3, <1>7, <2>1, <3>1 DEF ListingInv, PlaceInv
  <2>2. CASE i > offset
    <3>1. i - offset \in 1 .. n /\ offset + (i - offset) = i
      BY <1>0, <1>1, <2>2
    <3>2. Listing[i] \in exists
      BY <1>3, <1>7 DEF ListingInv, CallInv, Due
    <3>3. buffer'[i - offset].d_name = Listing[i] /\ buffer'[i - offset].d_fileno = 1
      BY <1>2, <3>1, <3>2
    <3>4. i - offset \in curpos' + 1 .. Len(buffer')
      BY <1>2, <3>1
    <3>5. QED
      BY <3>3, <3>4 DEF InBuffer
  <2>3. QED
    BY <1>0, <2>1, <2>2
<1>8. PlaceInv'
  BY <1>3, <1>6, <1>7 DEF PlaceInv, EntriesComplete
<1>9. QED
  BY <1>4, <1>5, <1>8 DEF ListingInv

\* One entry of the buffer is examined.
LEMMA ExamineStep == ListingInv /\ Examine => ListingInv'
<1> SUFFICES ASSUME ListingInv, Examine PROVE ListingInv'
  OBVIOUS
<1> DEFINE entry == buffer[curpos + 1]
<1>0. curpos \in Nat /\ curpos + 1 \in 1 .. Len(buffer) /\ entry \in Dirent /\ Len(buffer) \in Nat
  BY EntriesAssumption DEF Examine, BufferSpent, ListingInv, TypeOK
<1>1. /\ globResult' = IF entry.d_fileno # 0 /\ entry.d_name \in pattern
                       THEN globResult \cup {entry.d_name} ELSE globResult
      /\ curpos' = curpos + 1 /\ pc = "glob"
      /\ UNCHANGED <<fileVars, dirFd, offset, buffer, pc, pattern, result, error, history>>
  BY DEF Examine
<1>2. Accepted = pattern
  BY <1>1 DEF ListingInv, CallInv, Accepted
<1>3. TypeOK'
  <2>1. globResult' \subseteq Names
    BY <1>0, <1>1 DEF Dirent, ListingInv, TypeOK
  <2>2. QED
    BY <1>0, <1>1, <2>1 DEF fileVars, history, ListingInv, TypeOK
<1>4. CallInv' /\ EntriesJustified'
  BY <1>1, <1>2 DEF fileVars, history, ListingInv, CallInv, EntriesJustified, Accepted
<1>5. Due' = Due
  BY <1>1 DEF history, Due, Accepted
<1>6. ASSUME NEW i \in 1 .. offset, Listing[i] \in Due
      PROVE  Listing[i] \in globResult' \/ InBuffer(Listing[i])'
  <2>1. CASE Listing[i] \in globResult
    BY <1>1, <2>1
  <2>2. CASE InBuffer(Listing[i])
    <3>1. PICK k \in curpos + 1 .. Len(buffer) : buffer[k].d_name = Listing[i] /\ buffer[k].d_fileno # 0
      BY <2>2 DEF InBuffer
    <3>2. CASE k = curpos + 1
      BY <1>1, <1>2, <1>6, <3>1, <3>2 DEF Due
    <3>3. CASE k # curpos + 1
      <4>1. k \in curpos' + 1 .. Len(buffer')
        BY <1>0, <1>1, <3>3
      <4>2. QED
        BY <1>1, <3>1, <4>1 DEF InBuffer
    <3>4. QED
      BY <3>2, <3>3
  <2>3. QED
    BY <1>1, <1>6, <2>1, <2>2 DEF ListingInv, PlaceInv
<1>7. PlaceInv'
  BY <1>1, <1>5, <1>6 DEF PlaceInv, EntriesComplete
<1>8. QED
  BY <1>3, <1>4, <1>7 DEF ListingInv

\* The directory has been read, to its end or to a failure, and is closed.
LEMMA EndStep == ListingInv /\ (EndOfDirectory \/ ReadFails \/ Close) => ListingInv'
<1> SUFFICES ASSUME ListingInv, EndOfDirectory \/ ReadFails \/ Close PROVE ListingInv'
  OBVIOUS
<1>0. Len(Listing) \in Nat /\ BlkSize \in Nat
  BY EntriesAssumption
<1>1. CASE EndOfDirectory
  <2>1. /\ pc = "glob" /\ pc' = "close" /\ curpos >= Len(buffer) /\ offset = Len(Listing)
        /\ UNCHANGED <<fileVars, dirVars, pattern, globResult, result, error, history>>
    BY <1>1 DEF EndOfDirectory, BufferSpent
  <2>2. TypeOK' /\ CallInv' /\ EntriesJustified'
    BY <2>1 DEF fileVars, dirVars, history, ListingInv, TypeOK, CallInv, EntriesJustified, Accepted
  <2>3. Due \subseteq globResult
    <3>1. ASSUME NEW n \in Due PROVE n \in globResult
      <4>1. PICK i \in 1 .. Len(Listing) : n = Listing[i]
        BY <3>1 DEF Due, ListingInv, TypeOK, Names
      <4>2. ~InBuffer(n)
        BY <2>1 DEF InBuffer, ListingInv, TypeOK
      <4>3. QED
        BY <2>1, <3>1, <4>1, <4>2 DEF ListingInv, PlaceInv
    <3>2. QED
      BY <3>1
  <2>4. Due' = Due
    BY <2>1 DEF history, Due, Accepted
  <2>5. QED
    BY <2>1, <2>2, <2>3, <2>4 DEF ListingInv, PlaceInv, EntriesComplete
<1>2. CASE ReadFails
  <2>1. TypeOK'
    BY <1>2 DEF ReadFails, fileVars, dirVars, ListingInv, TypeOK
  <2>2. CallInv' /\ PlaceInv' /\ EntriesJustified'
    BY <1>2 DEF ReadFails, fileVars, dirVars, ListingInv, CallInv, PlaceInv, EntriesComplete,
           EntriesJustified, Accepted
  <2>3. QED
    BY <2>1, <2>2 DEF ListingInv
<1>3. CASE Close
  <2>1. buffer' = <<>> /\ buffer' \in Seq(Dirent) /\ Len(buffer') = 0
    BY <1>3 DEF Close
  <2>2. Len(buffer') <= offset' /\ curpos' \in 0 .. (IF buffer' = <<>> THEN BlkSize ELSE Len(buffer'))
    BY <1>0, <1>3, <2>1 DEF Close
  <2>3. dirFd' \in BOOLEAN /\ (dirFd' <=> pc' \in {"glob", "close"})
    BY <1>3 DEF Close, CloseDescriptor
  <2>4. TypeOK'
    BY <1>0, <1>3, <2>1, <2>2, <2>3 DEF Close, CloseDescriptor, fileVars, history, ListingInv, TypeOK
  <2>5. CallInv' /\ PlaceInv' /\ EntriesJustified'
    BY <1>3 DEF Close, fileVars, history, ListingInv, CallInv, PlaceInv, EntriesComplete,
           EntriesJustified, Accepted, Due, Readable
  <2>6. QED
    BY <2>4, <2>5 DEF ListingInv
<1>4. QED
  BY <1>1, <1>2, <1>3

\* The attributes of the names that matched are read, and the call returns.
LEMMA AttributesStep == ListingInv /\ ((\E n \in globResult : ReadAttributes(n)) \/ Return) => ListingInv'
<1> SUFFICES ASSUME ListingInv, (\E n \in globResult : ReadAttributes(n)) \/ Return PROVE ListingInv'
  OBVIOUS
<1>1. ASSUME NEW n \in globResult, ReadAttributes(n) PROVE ListingInv'
  <2>1. /\ pc = "attributes" /\ globResult' = globResult \ {n}
        /\ result' = IF n \notin Dots /\ Chosen(n) THEN result \cup {n} ELSE result
        /\ UNCHANGED <<fileVars, dirVars, pc, pattern, error, history>>
    BY <1>1 DEF ReadAttributes
  <2>2. n \in Names /\ n \in Accepted
    BY <1>1 DEF ListingInv, TypeOK, CallInv
  <2>3. TypeOK'
    BY <2>1, <2>2 DEF fileVars, dirVars, history, ListingInv, TypeOK
  <2>4. CallInv'
    BY <2>1 DEF fileVars, history, ListingInv, CallInv, Accepted
  <2>5. EntriesJustified'
    BY <2>1, <2>2 DEF history, ListingInv, CallInv, EntriesJustified, Accepted, Chosen
  <2>6. Readable(Due)' = Readable(Due)
    BY <2>1 DEF history, Readable, Due, Accepted
  <2>7. n \in Readable(Due) => n \notin Dots /\ Chosen(n)
    BY <2>1 DEF Readable, Due, Chosen, ListingInv, CallInv
  <2>8. PlaceInv'
    BY <2>1, <2>6, <2>7 DEF history, ListingInv, PlaceInv, EntriesComplete
  <2>9. QED
    BY <2>3, <2>4, <2>5, <2>8 DEF ListingInv
<1>2. CASE Return
  <2>1. TypeOK'
    BY <1>2 DEF Return, fileVars, dirVars, history, ListingInv, TypeOK
  <2>2. CallInv' /\ EntriesJustified'
    BY <1>2 DEF Return, fileVars, history, ListingInv, CallInv, EntriesJustified, Accepted
  <2>3. PlaceInv'
    BY <1>2 DEF Return, history, ListingInv, PlaceInv, EntriesComplete, Readable, Due, Accepted
  <2>4. QED
    BY <2>1, <2>2, <2>3 DEF ListingInv
<1>3. QED
  BY <1>1, <1>2

\* Between two calls directories are created and removed.
LEMMA MakeStep ==
  ASSUME ListingInv, NEW newFiles \in SUBSET Names, MakeDirectory(newFiles)
  PROVE  ListingInv'
<1>1. /\ pc = "idle" /\ pattern' = EmptyPattern /\ result' = {} /\ steady' = {} /\ atSomeTime' = {}
      /\ readFailed' = FALSE /\ UNCHANGED <<selected, dirVars, pc, globResult>>
  BY DEF MakeDirectory
<1>2. exists' \subseteq Names /\ error' \in {"kErrorCodeSuccess"} \cup {sceErrnoToErrorCode(c) : c \in Failures}
  BY DEF MakeDirectory, ListingInv, TypeOK
<1>3. TypeOK'
  BY <1>1, <1>2 DEF dirVars, ListingInv, TypeOK
<1>4. CallInv' /\ PlaceInv' /\ EntriesJustified'
  BY <1>1 DEF ListingInv, CallInv, PlaceInv, EntriesComplete, EntriesJustified, Accepted
<1>5. QED
  BY <1>3, <1>4 DEF ListingInv

\* During a call other threads disturb the files.
LEMMA DisturbStep ==
  ASSUME ListingInv, pc # "idle", NEW newExists \in SUBSET Names, NEW newSelected \in SUBSET Names,
         Disturb(newExists, newSelected)
  PROVE  ListingInv'
<1>1. /\ exists' = newExists /\ selected' = newSelected
      /\ steady' = steady \cap newExists \cap newSelected
      /\ atSomeTime' = atSomeTime \cup (newExists \cap newSelected)
      /\ UNCHANGED <<dirVars, pc, pattern, globResult, result, error, readFailed>>
  BY DEF Disturb
<1>2. TypeOK'
  BY <1>1 DEF dirVars, ListingInv, TypeOK
<1>3. CallInv' /\ EntriesJustified'
  BY <1>1 DEF ListingInv, CallInv, EntriesJustified, Accepted
<1>4. Due' \subseteq Due /\ Readable(Due)' \subseteq Readable(Due) /\ \A n : InBuffer(n)' = InBuffer(n)
  BY <1>1 DEF dirVars, Due, Readable, Accepted, InBuffer
<1>5. PlaceInv'
  BY <1>1, <1>4 DEF dirVars, ListingInv, PlaceInv, EntriesComplete
<1>6. QED
  BY <1>2, <1>3, <1>5 DEF ListingInv

\* Every step keeps the invariant.
LEMMA ListingStep == ListingInv /\ [Next]_vars => ListingInv'
<1> SUFFICES ASSUME ListingInv, [Next]_vars PROVE ListingInv'
  OBVIOUS
<1>1. exists \subseteq Names /\ selected \subseteq Names
  BY DEF ListingInv, TypeOK
<1>2. ASSUME NEW n \in Names, Create(n) \/ Remove(n) PROVE ListingInv'
  BY <1>1, <1>2, MakeStep DEF Create, Remove
<1>3. CASE OtherThreads
  BY <1>1, <1>3, DisturbStep DEF OtherThreads, Delete, ChangeAttributes
<1>4. CASE UNCHANGED vars
  <2>1. TypeOK' /\ CallInv' /\ EntriesJustified'
    BY <1>4 DEF vars, fileVars, dirVars, history, ListingInv, TypeOK, CallInv, EntriesJustified, Accepted
  <2>2. PlaceInv'
    BY <1>4 DEF vars, fileVars, dirVars, history, ListingInv, PlaceInv, EntriesComplete, Readable, Due, Accepted, InBuffer
  <2>3. QED
    BY <2>1, <2>2 DEF ListingInv
<1>5. QED
  BY <1>2, <1>3, <1>4, EnterStep, RefillStep, ExamineStep, EndStep, AttributesStep
     DEF Next, CallStep, GlobStep

\* The invariant holds of every behaviour.
LEMMA ListingInvariant == Spec => []ListingInv
  BY ListingAtInit, ListingStep, PTL DEF Spec

\* The state of a listing stays within its types: the position stays within
\* the buffer, and the descriptor is open only while the directory is read.
THEOREM EntriesTypeCorrect == Spec => []TypeOK
<1>1. ListingInv => TypeOK
  BY DEF ListingInv
<1>2. QED
  BY ListingInvariant, <1>1, PTL

\* A call that says success returns every matching file that was there, with
\* the attributes asked for, all through the call, unless a read failed.
THEOREM EntriesAllReturned == Spec => []EntriesComplete
<1>1. ListingInv => EntriesComplete
  BY DEF ListingInv, PlaceInv
<1>2. QED
  BY ListingInvariant, <1>1, PTL

\* It returns only matching files that were there, with the attributes asked
\* for, at some moment of this call.
THEOREM EntriesAllJustified == Spec => []EntriesJustified
<1>1. ListingInv => EntriesJustified
  BY DEF ListingInv
<1>2. QED
  BY ListingInvariant, <1>1, PTL
=============================================================================
