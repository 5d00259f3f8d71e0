------------------------ MODULE DirectorySearch_proofs -----------------------
(***************************************************************************)
(* A directory search is type correct, owns its descriptor and implements  *)
(* FileEnumeration, for every directory, pattern and buffer size.          *)
(***************************************************************************)
EXTENDS DirectorySearch, TLAPS

\* The entries of the buffer come from the listing, just before offset.
BufferInv ==
  \A i \in 1 .. Len(buffer) :
    /\ buffer[i].d_name = Listing[offset - Len(buffer) + i]
    /\ buffer[i].d_fileno = 0 => buffer[i].d_name \notin exists

SearchInv ==
  /\ TypeOK
  /\ OwnsItsDescriptor
  /\ pc # "idle" => osHandle # NULL
  /\ osHandle = NULL => offset = 0 /\ buffer = <<>>
  /\ BufferInv
  /\ pc = "stat" => /\ 1 <= curpos /\ curpos <= Len(buffer)
                    /\ filename \in Names \cap Matching
                    /\ filename = Listing[offset - (Len(buffer) - curpos)]

\* The entries of the listing are names.
LEMMA ListingNames == \A i \in 1 .. Len(Listing) : Listing[i] \in Names
  BY DEF Names

\* What sceKernelGetdents hands out are the next n entries of the listing.
LEMMA DirentsType ==
  ASSUME TypeOK, NEW n \in 1 .. BlkSize, offset + n <= Len(Listing)
  PROVE  /\ Dirents(n) \in Seq(Dirent) /\ Len(Dirents(n)) = n
         /\ \A i \in 1 .. n :
              /\ Dirents(n)[i].d_name = Listing[offset + i]
              /\ Dirents(n)[i].d_fileno = 0 => Dirents(n)[i].d_name \notin exists
<1>1. n \in Nat /\ offset \in Nat
  BY SearchAssumption DEF TypeOK
<1>2. \A i \in 1 .. n : offset + i \in 1 .. Len(Listing)
  BY <1>1, SearchAssumption
<1>3. \A i \in 1 .. n : Listing[offset + i] \in Names
  BY <1>2, ListingNames
<1>4. Dirents(n) \in Seq(Dirent) /\ Len(Dirents(n)) = n
  BY <1>1, <1>3 DEF Dirents, Dirent
<1>5. \A i \in 1 .. n :
        Dirents(n)[i] = [d_name   |-> Listing[offset + i],
                         d_fileno |-> IF Listing[offset + i] \in exists THEN 1 ELSE 0]
  BY DEF Dirents
<1>q. QED BY <1>4, <1>5

\* No entries and no answers are well typed.
LEMMA EmptyBuffer == <<>> \in Seq(Dirent) /\ <<>> \in Seq(Names) /\ Len(<<>>) = 0
  OBVIOUS

\* One more answer leaves the answers a sequence of names.
LEMMA AppendNames ==
  ASSUME NEW s \in Seq(Names), NEW x \in Names
  PROVE  Append(s, x) \in Seq(Names)
  OBVIOUS

\* The invariant of a search holds at the start.
LEMMA SearchInit == Init => SearchInv
<1> SUFFICES ASSUME Init PROVE SearchInv
  OBVIOUS
<1>1. TypeOK
  <2>1. buffer \in Seq(Dirent) /\ Len(buffer) <= offset /\ returned \in Seq(Names)
    BY EmptyBuffer DEF Init
  <2>2. offset \in 0 .. Len(Listing) /\ curpos \in Nat
    BY SearchAssumption DEF Init
  <2>q. QED BY <2>1, <2>2 DEF Init, TypeOK
<1>2. BufferInv
  BY EmptyBuffer DEF Init, BufferInv
<1>q. QED BY <1>1, <1>2 DEF Init, SearchInv, OwnsItsDescriptor

\* Every step of a search, and every deletion, keeps its invariant.
LEMMA SearchNext == SearchInv /\ [Next]_vars => SearchInv'
<1> SUFFICES ASSUME SearchInv, [Next]_vars PROVE SearchInv'
  OBVIOUS
<1> USE SearchAssumption DEF SearchInv, TypeOK, OwnsItsDescriptor, BufferInv
<1>1. CASE FindFirstFails
  BY <1>1 DEF FindFirstFails
<1>2. ASSUME NEW fd \in Descriptors, FindFirstFile(fd) PROVE SearchInv'
  <2>1. /\ buffer' \in Seq(Dirent) /\ Len(buffer') <= offset' /\ returned' \in Seq(Names)
        /\ offset' \in 0 .. Len(Listing) /\ curpos' \in Nat
    BY <1>2, EmptyBuffer DEF FindFirstFile, NoValidData
  <2>2. BufferInv'
    BY <1>2, EmptyBuffer DEF FindFirstFile
  <2>q. QED BY <1>2, <2>1, <2>2 DEF FindFirstFile
<1>3. CASE FindNextFile
  BY <1>3 DEF FindNextFile
<1>4. CASE Refill
  <2>1. PICK n \in 1 .. BlkSize : /\ offset + n <= Len(Listing)
                                  /\ buffer' = Dirents(n) /\ offset' = offset + n
    BY <1>4 DEF Refill
  <2>2. /\ buffer' \in Seq(Dirent) /\ Len(buffer') = n
        /\ \A i \in 1 .. n : /\ buffer'[i].d_name = Listing[offset + i]
                             /\ buffer'[i].d_fileno = 0 => buffer'[i].d_name \notin exists
    BY <2>1, DirentsType
  <2>3. BufferInv'
    BY <1>4, <2>1, <2>2 DEF Refill
  <2>q. QED BY <1>4, <2>1, <2>2, <2>3 DEF Refill, RefilledPosition
<1>5. CASE EndOfDirectory
  BY <1>5 DEF EndOfDirectory
<1>6. CASE ReadFails
  BY <1>6 DEF ReadFails
<1>7. CASE Examine
  <2>1. curpos + 1 \in 1 .. Len(buffer) /\ curpos \in Nat
    BY <1>7 DEF Examine, BufferSpent
  <2>2. buffer[curpos + 1] \in Dirent
    BY <2>1
  <2>3. BufferInv'
    BY <1>7 DEF Examine
  <2>4. curpos' = curpos + 1
    BY <1>7 DEF Examine, Advanced
  <2>5. pc' = "stat" => /\ 1 <= curpos' /\ curpos' <= Len(buffer')
                        /\ filename' \in Names \cap Matching
                        /\ filename' = Listing[offset' - (Len(buffer') - curpos')]
                        /\ filename' = buffer'[curpos'].d_name
    <3>1. pc' = "stat" => filename' = buffer[curpos + 1].d_name
                         /\ filename' \in Names \cap Matching
      BY <1>7, <2>2 DEF Examine, Dirent
    <3>2. offset - Len(buffer) + (curpos + 1) = offset - (Len(buffer) - (curpos + 1))
      BY <2>1
    <3>3. buffer[curpos + 1].d_name = Listing[offset - (Len(buffer) - (curpos + 1))]
      BY <2>1, <3>2
    <3>q. QED BY <1>7, <2>1, <2>4, <3>1, <3>3 DEF Examine
  <2>q. QED BY <1>7, <2>1, <2>2, <2>3, <2>4, <2>5 DEF Examine, Dirent
<1>8. CASE ReadAttributes
  <2>1. returned' = returned \/ returned' = Append(returned, filename)
    BY <1>8 DEF ReadAttributes
  <2>2. filename \in Names
    BY <1>8 DEF ReadAttributes
  <2>3. returned' \in Seq(Names)
    BY <2>1, <2>2, AppendNames
  <2>q. QED BY <1>8, <2>2, <2>3 DEF ReadAttributes
<1>9. CASE CloseOSHandle
  BY <1>9 DEF CloseOSHandle, Closed
<1>10. ASSUME NEW n \in exists, Delete(n) PROVE SearchInv'
  BY <1>10 DEF Delete
<1>11. CASE UNCHANGED vars
  BY <1>11 DEF vars
<1>q. QED
  BY <1>1, <1>2, <1>3, <1>4, <1>5, <1>6, <1>7, <1>8, <1>9, <1>10, <1>11
     DEF Next, SearchStep

\* A search holds the descriptor of its OS handle, its buffer is the piece of
\* the listing before the kernel's offset, and an entry whose attributes are to
\* be read is the one taken last; for every listing and every buffer size.
THEOREM SearchInvariant == Spec => []SearchInv
<1>1. Init => SearchInv
  BY SearchInit
<1>2. SearchInv /\ [Next]_vars => SearchInv'
  BY SearchNext
<1>q. QED BY <1>1, <1>2, PTL DEF Spec

\* The state of a search stays within its types.
THEOREM SearchTypeCorrect == Spec => []TypeOK
<1>1. SearchInv => TypeOK
  BY DEF SearchInv
<1>q. QED BY <1>1, SearchInvariant, PTL

\* A search holds exactly the descriptor of its OS handle: when the destructor's
\* assertion osHandle == NULL holds, nothing has leaked.
THEOREM DescriptorOwned == Spec => []OwnsItsDescriptor
<1>1. SearchInv => OwnsItsDescriptor
  BY DEF SearchInv
<1>q. QED BY <1>1, SearchInvariant, PTL

-----------------------------------------------------------------------------
(* The refinement. *)

\* Where the search is in the listing, for the abstract enumeration.
LEMMA Position ==
  ASSUME SearchInv
  PROVE  /\ Unread \in Nat /\ offset \in Nat /\ Len(buffer) \in Nat /\ curpos \in Nat
         /\ BufferSpent => Unread = 0
         /\ ~BufferSpent => Unread = Len(buffer) - curpos
         /\ pc = "stat" => Unread = Len(buffer) - curpos
  BY SearchAssumption DEF SearchInv, TypeOK, Unread, BufferSpent

\* The first state of a search is one of the abstract enumeration.
LEMMA EnumerationInit == Init => Enumeration!Init
<1>1. Init => Unread = 0
  BY EmptyBuffer DEF Init, Unread, BufferSpent
<1>q. QED BY <1>1 DEF Init, Enumeration!Init, Names

\* A step of a search is a step of the abstract enumeration, or invisible to it:
\* a refill, or an entry taken whose attributes are yet to be read.
LEMMA EnumerationNext ==
  SearchInv /\ [Next]_vars => [Enumeration!Next]_(Enumeration!abstractVars)
<1> SUFFICES ASSUME SearchInv, [Next]_vars
             PROVE  [Enumeration!Next]_(Enumeration!abstractVars)
  OBVIOUS
<1>0. SearchInv'
  BY SearchNext
<1> USE DEF Enumeration!abstractVars
<1>1. CASE FindFirstFails
  <2>1. Unread' = Unread
    BY <1>1 DEF FindFirstFails, Unread, BufferSpent
  <2>q. QED BY <1>1, <2>1 DEF FindFirstFails, Enumeration!Next, Enumeration!OpenFails
<1>2. ASSUME NEW fd \in Descriptors, FindFirstFile(fd)
      PROVE  Enumeration!Open
  <2>1. Unread' = 0 /\ offset' = 0 /\ pc' = "loop"
    BY <1>2, EmptyBuffer, SearchAssumption DEF FindFirstFile, Unread, BufferSpent, NoValidData
  <2>q. QED BY <1>2, <2>1 DEF FindFirstFile, Enumeration!Open
<1>3. CASE FindNextFile
  <2>1. Unread' = Unread
    BY <1>3 DEF FindNextFile, Unread, BufferSpent
  <2>q. QED BY <1>3, <2>1 DEF FindNextFile, Enumeration!Next, Enumeration!Ask
<1>4. CASE Refill
  <2>1. PICK n \in 1 .. BlkSize : /\ offset + n <= Len(Listing)
                                  /\ buffer' = Dirents(n) /\ offset' = offset + n
    BY <1>4 DEF Refill
  <2>2. Len(buffer') = n
    BY <2>1, DirentsType DEF SearchInv
  <2>3. Unread = 0 /\ Unread' = n
    BY <1>4, <2>2, SearchAssumption DEF Refill, RefilledPosition, Unread, BufferSpent
  <2>q. QED BY <1>4, <2>1, <2>3, Position DEF Refill
<1>5. CASE EndOfDirectory
  <2>1. Unread = 0 /\ Unread' = 0
    BY <1>5 DEF EndOfDirectory, Unread, BufferSpent
  <2>q. QED
    BY <1>5, <2>1, Position DEF EndOfDirectory, SearchInv, Enumeration!Next, Enumeration!NoMoreFiles
<1>6. CASE ReadFails
  <2>1. Unread' = Unread
    BY <1>6 DEF ReadFails, Unread, BufferSpent
  <2>q. QED
    BY <1>6, <2>1 DEF ReadFails, SearchInv, Enumeration!Next, Enumeration!ReadFailure
<1>7. CASE Examine
  <2>1. /\ curpos < Len(buffer) /\ Unread = Len(buffer) - curpos
        /\ offset <= Len(Listing) /\ Len(buffer) <= offset
    BY <1>7, Position DEF Examine, BufferSpent, SearchInv, TypeOK
  <2>2. Unread' = Unread - 1
    BY <1>7, <2>1, Position DEF Examine, Advanced, Unread, BufferSpent
  <2>3. /\ buffer[curpos + 1].d_name = Listing[offset - Unread + 1]
        /\ buffer[curpos + 1].d_fileno = 0 => buffer[curpos + 1].d_name \notin exists
    <3>1. curpos + 1 \in 1 .. Len(buffer)
      BY <2>1, Position
    <3>2. offset - Len(buffer) + (curpos + 1) = offset - Unread + 1
      BY <2>1, Position
    <3>q. QED BY <3>1, <3>2 DEF SearchInv, BufferInv
  <2>4. CASE buffer[curpos + 1].d_fileno # 0 /\ buffer[curpos + 1].d_name \in Matching
    <3>1. pc' = "stat"
      BY <1>7, <2>4 DEF Examine
    <3>q. QED BY <1>7, <2>2, <3>1, Position DEF Examine
  <2>5. CASE ~(buffer[curpos + 1].d_fileno # 0 /\ buffer[curpos + 1].d_name \in Matching)
    <3>1. pc' = "loop" /\ pc = "loop"
      BY <1>7, <2>5 DEF Examine
    <3>2. ~Enumeration!Deliverable(Listing[offset - Unread + 1])
      BY <2>3, <2>5 DEF Enumeration!Deliverable
    <3>q. QED
      BY <1>7, <2>1, <2>2, <3>1, <3>2, Position DEF Examine, Enumeration!Next, Enumeration!PassOver
  <2>q. QED BY <2>4, <2>5
<1>8. CASE ReadAttributes
  <2>1. Unread' = Unread /\ Unread = Len(buffer) - curpos
    BY <1>8, Position DEF ReadAttributes, Unread, BufferSpent
  <2>2. /\ filename = Listing[offset - Unread - 1 + 1] /\ filename \in Matching
        /\ offset - Unread - 1 < Len(Listing)
    BY <1>8, <2>1, Position, SearchAssumption DEF ReadAttributes, SearchInv, TypeOK
  <2>3. CASE filename \in exists /\ filename \notin Unreadable
    <3>1. Enumeration!Deliverable(filename)
      BY <2>2, <2>3 DEF Enumeration!Deliverable
    <3>2. pc' = "idle" /\ answer' = filename /\ osHandle # NULL
      BY <1>8, <2>3 DEF ReadAttributes, SearchInv
    <3>q. QED
      BY <1>8, <2>1, <2>2, <3>1, <3>2, Position
         DEF ReadAttributes, Enumeration!Next, Enumeration!Deliver
  <2>4. CASE ~(filename \in exists /\ filename \notin Unreadable)
    <3>1. ~Enumeration!Deliverable(filename)
      BY <2>4 DEF Enumeration!Deliverable
    <3>2. pc' = "loop" /\ answer' = answer
      BY <1>8, <2>4 DEF ReadAttributes
    <3>q. QED
      BY <1>8, <2>1, <2>2, <3>1, <3>2, Position
         DEF ReadAttributes, Enumeration!Next, Enumeration!PassOver
  <2>q. QED BY <2>3, <2>4
<1>9. CASE CloseOSHandle
  <2>1. Unread' = 0
    BY <1>9, EmptyBuffer DEF CloseOSHandle, Unread, BufferSpent
  <2>q. QED BY <1>9, <2>1 DEF CloseOSHandle, Enumeration!Next, Enumeration!Close
<1>10. ASSUME NEW n \in exists, Delete(n) PROVE Enumeration!Delete(n)
  <2>1. Unread' = Unread
    BY <1>10 DEF Delete, Unread, BufferSpent
  <2>q. QED BY <1>10, <2>1 DEF Delete, Enumeration!Delete
<1>11. CASE UNCHANGED vars
  BY <1>11 DEF vars, Unread, BufferSpent
<1>q. QED
  BY <1>1, <1>2, <1>3, <1>4, <1>5, <1>6, <1>7, <1>8, <1>9, <1>10, <1>11
     DEF Next, SearchStep, Enumeration!Next

\* A directory search, with its buffers, its descriptor and the deletions of
\* other threads, is an enumeration of the listing in order, each entry once.
THEOREM SearchEnumerates == Spec => Enumerates
<1>1. Init => Enumeration!Init
  BY EnumerationInit
<1>2. SearchInv /\ [Next]_vars => [Enumeration!Next]_(Enumeration!abstractVars)
  BY EnumerationNext
<1>q. QED BY <1>1, <1>2, SearchInvariant, PTL DEF Spec, Enumerates, Enumeration!Spec
-----------------------------------------------------------------------------
(* Completeness. *)

\* How many entries of the listing the search has done with.
Dealt == offset - Unread - (IF pc = "stat" THEN 1 ELSE 0)

Deliverable(n) == n \in (Matching \cap exists) \ Unreadable

\* Whatever the search has done with was returned, if it is still there to be
\* returned.
CompleteInv ==
  /\ \A i \in 1 .. Dealt : Deliverable(Listing[i]) => Returned(Listing[i])
  /\ ListingComplete

\* A step that deals with no further entry, takes back no answer and creates no
\* file keeps what is true of the entries dealt with.
LEMMA DealtStays ==
  ASSUME SearchInv, CompleteInv, Dealt' = Dealt, returned' = returned, exists' \subseteq exists
  PROVE  \A i \in 1 .. Dealt' : Deliverable(Listing[i])' => Returned(Listing[i])'
  BY DEF CompleteInv, Deliverable, Returned

\* Completeness holds at the start.
LEMMA CompleteInit == Init => CompleteInv
<1>1. Init => Unread = 0
  BY EmptyBuffer DEF Init, Unread, BufferSpent
<1>q. QED BY <1>1 DEF Init, CompleteInv, Dealt, ListingComplete

\* Every step keeps it.
LEMMA CompleteNext == SearchInv /\ CompleteInv /\ [Next]_vars => CompleteInv'
<1> SUFFICES ASSUME SearchInv, CompleteInv, [Next]_vars PROVE CompleteInv'
  OBVIOUS
<1>0. SearchInv'
  BY SearchNext
<1>1. CASE FindFirstFails
  <2>1. Dealt' = Dealt
    BY <1>1 DEF FindFirstFails, Dealt, Unread, BufferSpent
  <2>2. ListingComplete'
    BY <1>1 DEF FindFirstFails, ListingComplete
  <2>q. QED BY <1>1, <2>1, <2>2, DealtStays DEF FindFirstFails, CompleteInv
<1>2. ASSUME NEW fd \in Descriptors, FindFirstFile(fd) PROVE CompleteInv'
  <2>1. Unread' = 0 /\ offset' = 0 /\ pc' = "loop"
    BY <1>2, EmptyBuffer, SearchAssumption DEF FindFirstFile, Unread, BufferSpent, NoValidData
  <2>2. Dealt' = 0
    BY <2>1 DEF Dealt
  <2>q. QED BY <2>1, <2>2 DEF CompleteInv, ListingComplete
<1>3. CASE FindNextFile
  <2>1. Dealt' = Dealt
    BY <1>3 DEF FindNextFile, Dealt, Unread, BufferSpent
  <2>2. ListingComplete'
    BY <1>3 DEF FindNextFile, ListingComplete
  <2>q. QED BY <1>3, <2>1, <2>2, DealtStays DEF FindNextFile, CompleteInv
<1>4. CASE Refill
  <2>1. PICK n \in 1 .. BlkSize : /\ offset + n <= Len(Listing)
                                  /\ buffer' = Dirents(n) /\ offset' = offset + n
    BY <1>4 DEF Refill
  <2>2. Len(buffer') = n
    BY <2>1, DirentsType DEF SearchInv
  <2>3. Unread = 0 /\ Unread' = n
    BY <1>4, <2>2, SearchAssumption DEF Refill, RefilledPosition, Unread, BufferSpent
  <2>4. Dealt' = Dealt
    BY <1>4, <2>1, <2>3, Position, SearchAssumption DEF Refill, Dealt
  <2>5. ListingComplete'
    BY <1>4 DEF Refill, ListingComplete
  <2>q. QED BY <1>4, <2>4, <2>5, DealtStays DEF Refill, CompleteInv
<1>5. CASE EndOfDirectory
  <2>1. Unread = 0 /\ Unread' = 0
    BY <1>5 DEF EndOfDirectory, Unread, BufferSpent
  <2>2. Dealt' = Dealt /\ Dealt = Len(Listing)
    BY <1>5, <2>1, Position DEF EndOfDirectory, Dealt
  <2>3. \A i \in 1 .. Dealt' : Deliverable(Listing[i])' => Returned(Listing[i])'
    BY <1>5, <2>2, DealtStays DEF EndOfDirectory
  <2>4. ListingComplete'
    BY <2>2, <2>3 DEF ListingComplete, Deliverable, Names
  <2>q. QED BY <2>3, <2>4 DEF CompleteInv
<1>6. CASE ReadFails
  <2>1. Dealt' = Dealt
    BY <1>6 DEF ReadFails, Dealt, Unread, BufferSpent
  <2>2. ListingComplete'
    BY <1>6 DEF ReadFails, ListingComplete
  <2>q. QED BY <1>6, <2>1, <2>2, DealtStays DEF ReadFails, CompleteInv
<1>7. CASE Examine
  <2>1. /\ curpos < Len(buffer) /\ Unread = Len(buffer) - curpos
        /\ offset <= Len(Listing) /\ Len(buffer) <= offset
    BY <1>7, Position DEF Examine, BufferSpent, SearchInv, TypeOK
  <2>2. Unread' = Unread - 1
    BY <1>7, <2>1, Position DEF Examine, Advanced, Unread, BufferSpent
  <2>3. ListingComplete'
    BY <1>7 DEF Examine, ListingComplete
  <2>4. CASE pc' = "stat"
    <3>1. Dealt' = Dealt
      BY <1>7, <2>1, <2>2, <2>4, Position DEF Examine, Dealt
    <3>q. QED BY <1>7, <2>3, <3>1, DealtStays DEF Examine, CompleteInv
  <2>5. CASE pc' # "stat"
    <3>1. Dealt' = Dealt + 1 /\ Dealt \in Nat /\ Dealt + 1 = offset - Unread + 1
      BY <1>7, <2>1, <2>2, <2>5, Position DEF Examine, Dealt
    <3>2. curpos + 1 \in 1 .. Len(buffer)
      BY <2>1, Position
    <3>3. offset - Len(buffer) + (curpos + 1) = Dealt + 1
      BY <2>1, <3>1, Position
    <3>4. /\ buffer[curpos + 1].d_name = Listing[Dealt + 1]
          /\ buffer[curpos + 1].d_fileno = 0 => Listing[Dealt + 1] \notin exists
      BY <3>2, <3>3 DEF SearchInv, BufferInv
    <3>5. ~Deliverable(Listing[Dealt + 1])
      BY <1>7, <2>5, <3>4 DEF Examine, Deliverable
    <3>6. exists' = exists /\ returned' = returned
      BY <1>7 DEF Examine
    <3>7. \A i \in 1 .. Dealt' : Deliverable(Listing[i])' => Returned(Listing[i])'
      BY <3>1, <3>5, <3>6 DEF CompleteInv, Deliverable, Returned
    <3>q. QED BY <2>3, <3>7 DEF CompleteInv
  <2>q. QED BY <2>4, <2>5
<1>8. CASE ReadAttributes
  <2>1. Unread' = Unread /\ Unread = Len(buffer) - curpos /\ pc = "stat" /\ pc' # "stat"
    BY <1>8, Position DEF ReadAttributes, Unread, BufferSpent
  <2>2. Dealt' = Dealt + 1 /\ Dealt \in Nat /\ Dealt + 1 = offset - (Len(buffer) - curpos)
    BY <1>8, <2>1, Position, SearchAssumption DEF ReadAttributes, SearchInv, TypeOK, Dealt
  <2>3. filename = Listing[Dealt + 1] /\ filename \in Names
    BY <2>1, <2>2 DEF SearchInv
  <2>4. returned \in Seq(Names)
    BY DEF SearchInv, TypeOK
  <2>5. \A n : Returned(n) => Returned(n)'
    <3>1. returned' = returned \/ returned' = Append(returned, filename)
      BY <1>8 DEF ReadAttributes
    <3>q. QED BY <2>3, <2>4, <3>1 DEF Returned
  <2>6. PICK f : f = filename
    OBVIOUS
  <2>7. Deliverable(f) => Returned(f)'
    <3>1. Deliverable(f) => returned' = Append(returned, f)
      BY <1>8, <2>6 DEF ReadAttributes, Deliverable
    <3>2. ASSUME returned' = Append(returned, f) PROVE Returned(f)'
      <4>1. /\ Len(returned') = Len(returned) + 1 /\ Len(returned) \in Nat
            /\ returned'[Len(returned) + 1] = f
        BY <2>3, <2>4, <2>6, <3>2
      <4>q. QED BY <4>1 DEF Returned
    <3>q. QED BY <3>1, <3>2
  <2>8. \A i \in 1 .. Dealt' : Deliverable(Listing[i])' => Returned(Listing[i])'
    <3>1. exists' = exists
      BY <1>8 DEF ReadAttributes
    <3>2. \A n : Deliverable(n)' <=> Deliverable(n)
      BY <3>1 DEF Deliverable
    <3>3. \A i \in 1 .. Dealt' : i \in 1 .. Dealt \/ Listing[i] = f
      BY <2>2, <2>3, <2>6
    <3>q. QED BY <2>5, <2>7, <3>2, <3>3 DEF CompleteInv
  <2>9. ListingComplete'
    BY <1>8, <2>3, SearchAssumption DEF ReadAttributes, ListingComplete
  <2>q. QED BY <2>8, <2>9 DEF CompleteInv
<1>9. CASE CloseOSHandle
  <2>1. Unread' = 0 /\ offset' = 0 /\ pc' = "idle"
    BY <1>9, EmptyBuffer DEF CloseOSHandle, Unread, BufferSpent
  <2>2. Dealt' = 0
    BY <2>1 DEF Dealt
  <2>3. ListingComplete'
    BY <1>9 DEF CloseOSHandle, CompleteInv, ListingComplete, Returned
  <2>q. QED BY <2>2, <2>3 DEF CompleteInv
<1>10. ASSUME NEW n \in exists, Delete(n) PROVE CompleteInv'
  <2>1. Dealt' = Dealt
    BY <1>10 DEF Delete, Dealt, Unread, BufferSpent
  <2>2. ListingComplete'
    BY <1>10 DEF Delete, CompleteInv, ListingComplete, Returned
  <2>q. QED BY <1>10, <2>1, <2>2, DealtStays DEF Delete, CompleteInv
<1>11. CASE UNCHANGED vars
  <2>1. Dealt' = Dealt
    BY <1>11 DEF vars, Dealt, Unread, BufferSpent
  <2>2. ListingComplete'
    BY <1>11 DEF vars, CompleteInv, ListingComplete, Returned
  <2>q. QED BY <1>11, <2>1, <2>2, DealtStays DEF vars, CompleteInv
<1>q. QED
  BY <1>1, <1>2, <1>3, <1>4, <1>5, <1>6, <1>7, <1>8, <1>9, <1>10, <1>11
     DEF Next, SearchStep

\* When a search ends without a read failure, every matching file that was there
\* all along has been returned: for every listing, wherever the kernel cuts it
\* into buffers, and whatever is deleted around it.
THEOREM SearchComplete == Spec => []ListingComplete
<1>1. CompleteInv => ListingComplete
  BY DEF CompleteInv
<1>q. QED BY <1>1, CompleteInit, CompleteNext, SearchInvariant, PTL DEF Spec
=============================================================================
