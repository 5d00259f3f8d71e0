------------------------- MODULE BlockingSend_proofs -------------------------
(***************************************************************************)
(* Proofs about BlockingSend: a socket that its owner was promised to      *)
(* block, and left so, never makes sendfile lose the length of a send.     *)
(***************************************************************************)
EXTENDS BlockingSend, TLAPS

\* What a promise says of the socket, for as long as nobody changes the mode:
\* the option is off and no setBlocking is under way; and a call that began
\* under a promise has repeated no send.
PromiseInv ==
  /\ promised => nbio = 0 /\ setPc = "idle"
  /\ keptBlocking => nbio = 0 /\ setPc = "idle" /\ ~retried

\* The promises hold at the beginning.
LEMMA PromiseInit == SystemInit => PromiseInv
  BY DEF SystemInit, OptionInit, PromiseInv

\* Every step of the copy or of the socket's owner keeps them.
LEMMA PromiseNext == PromiseInv /\ [SystemNext]_allVars => PromiseInv'
<1> SUFFICES ASSUME PromiseInv, [SystemNext]_allVars PROVE PromiseInv'
  OBVIOUS
<1> USE DEF PromiseInv
<1>1. CASE StartCopy
  BY <1>1 DEF StartCopy, Call, optionVars
<1>2. CASE Copy(ReadReturns)
  BY <1>2 DEF Copy, ReadReturns, Read, ReadEnd, ReadFails, optionVars
<1>3. CASE Copy(ReadInterrupted)
  BY <1>3 DEF Copy, ReadInterrupted, optionVars
<1>4. CASE Copy(SendReturns)
  BY <1>4 DEF Copy, SendReturns, Send, SendFails, optionVars
<1>5. CASE Refused
  \* A refused send needs a socket that does not block: no promise was kept.
  BY <1>5 DEF Refused, SendAgain, Refuses, optionVars
<1>6. CASE ChangeMode
  BY <1>6 DEF ChangeMode, setBlocking, vars
<1>7. CASE OptionStep /\ UNCHANGED <<vars, keptBlocking>>
  <2>1. CASE Setsockopt
    BY <1>7, <2>1 DEF Setsockopt, vars
  <2>2. CASE Getsockopt
    \* A promise is given only after the option was read as off.
    <3>1. promised' => setResult' = 0 /\ notblocking = 0
      BY <2>2, Zenon DEF Getsockopt
    <3>2. setResult' = 0 => nbio = notblocking
      BY <2>2 DEF Getsockopt, Compare, Compared
    <3>3. setPc' = "idle" /\ nbio' = nbio /\ ~keptBlocking
      BY <2>2 DEF Getsockopt, Compare
    <3>4. QED
      BY <1>7, <3>1, <3>2, <3>3
  <2>3. CASE GetsockoptFails
    BY <1>7, <2>3 DEF GetsockoptFails, Compare, vars
  <2>4. QED
    BY <1>7, <2>1, <2>2, <2>3 DEF OptionStep
<1>8. CASE UNCHANGED allVars
  BY <1>8 DEF allVars, vars, optionVars
<1>9. QED
  BY <1>1, <1>2, <1>3, <1>4, <1>5, <1>6, <1>7, <1>8 DEF SystemNext

\* BlockingNeverRetries for every file, every size of the buffer, and whatever
\* setBlocking and the network do in between.
THEOREM PromiseKept == SystemSpec => []BlockingNeverRetries
<1>1. PromiseInv => BlockingNeverRetries
  BY DEF PromiseInv, BlockingNeverRetries
<1>2. QED
  BY PromiseInit, PromiseNext, <1>1, PTL DEF SystemSpec

-----------------------------------------------------------------------------

\* The types, and what makes them inductive: while a send is due that was not
\* refused before, its length fits the buffer and the buffer holds file bytes.
CopyInv ==
  /\ TypeOK
  /\ pc = "send" /\ n # -1 => n \in 1 .. BufferSize /\ \A i \in 1 .. n : buffer[i] \in 1 .. FileLen

\* A read puts bytes of the file into the buffer.
LEMMA ReadIntoType ==
  ASSUME CopyTypeOK, NEW k \in 1 .. BufferSize, pos + k <= FileLen
  PROVE  /\ ReadInto(k) \in [1 .. BufferSize -> Byte]
         /\ \A i \in 1 .. k : ReadInto(k)[i] \in 1 .. FileLen
<1>1. \A i \in 1 .. k : pos + i \in 1 .. FileLen /\ i \in 1 .. BufferSize
  BY SendFileAssumption DEF CopyTypeOK
<1>2. \A i \in 1 .. BufferSize : (IF i <= k THEN pos + i ELSE buffer[i]) \in Byte
  BY <1>1, SendFileAssumption DEF CopyTypeOK, Byte
<1>3. \A i \in 1 .. k : ReadInto(k)[i] = pos + i
  BY <1>1 DEF ReadInto
<1>4. QED
  BY <1>1, <1>2, <1>3 DEF ReadInto

\* What a send transmits are bytes, whatever its length.
LEMMA SentType ==
  ASSUME CopyTypeOK, NEW k \in Nat
  PROVE  out \o Sent(k) \in Seq(Byte)
<1>1. \A i \in 1 .. k : (IF i <= BufferSize THEN buffer[i] ELSE Junk) \in Byte
  BY SendFileAssumption DEF CopyTypeOK, Byte
<1>2. Sent(k) \in [1 .. k -> Byte]
  BY <1>1 DEF Sent
<1>3. Sent(k) \in Seq(Byte)
  BY <1>2
<1>4. QED
  BY <1>3 DEF CopyTypeOK

\* The types hold at the beginning.
LEMMA CopyInit == SystemInit => CopyInv
<1>1. SystemInit => CopyTypeOK
  <2>1. SUFFICES ASSUME SystemInit PROVE CopyTypeOK
    OBVIOUS
  <2>2. allocated = FALSE /\ pc = "idle"
    BY <2>1 DEF SystemInit, Init
  <2>3. allocated \in BOOLEAN /\ (allocated <=> pc # "idle")
    BY <2>2, Zenon
  <2>4. buffer \in [1 .. BufferSize -> Byte]
    BY <2>1 DEF SystemInit, Init, Byte
  <2>5. out \in Seq(Byte) /\ lost \subseteq 1 .. FileLen /\ retried \in BOOLEAN
    <3>1. out = <<>> /\ lost = {} /\ retried = FALSE
      BY <2>1 DEF SystemInit, Init
    <3>2. <<>> \in Seq(Byte)
      OBVIOUS
    <3>3. QED
      BY <3>1, <3>2
  <2>6. pos \in 0 .. FileLen /\ n \in -1 .. BufferSize + 1 /\ result \in {0, -1}
    BY <2>1, SendFileAssumption DEF SystemInit, Init
  <2>7. QED
    BY <2>2, <2>3, <2>4, <2>5, <2>6 DEF CopyTypeOK
<1>2. QED
  BY <1>1 DEF SystemInit, Init, OptionInit, OptionTypeOK, TypeOK, CopyInv

\* Every step keeps them.
LEMMA CopyNext == CopyInv /\ [SystemNext]_allVars => CopyInv'
<1> SUFFICES ASSUME CopyInv, [SystemNext]_allVars PROVE CopyInv'
  OBVIOUS
<1>a. CopyTypeOK /\ OptionTypeOK /\ keptBlocking \in BOOLEAN
  BY DEF CopyInv, TypeOK
<1>b. ASSUME UNCHANGED optionVars, UNCHANGED keptBlocking PROVE OptionTypeOK' /\ keptBlocking' \in BOOLEAN
  BY <1>a, <1>b DEF OptionTypeOK, optionVars
<1>c. ASSUME UNCHANGED vars, OptionTypeOK', keptBlocking' \in BOOLEAN PROVE CopyInv'
  BY <1>a, <1>c DEF CopyInv, TypeOK, CopyTypeOK, vars
<1>1. CASE StartCopy
  <2>1. CopyTypeOK' /\ pc' = "read"
    <3>1. allocated' = TRUE /\ pc' = "read"
      BY <1>1 DEF StartCopy, Call
    <3>2. allocated' \in BOOLEAN /\ (allocated' <=> pc' # "idle")
      BY <3>1
    <3>3. buffer' \in [1 .. BufferSize -> Byte]
      BY <1>1 DEF StartCopy, Call, Byte
    <3>4. retried' \in BOOLEAN
      BY <1>1 DEF StartCopy, Call
    <3>5. QED
      BY <1>1, <1>a, <3>1, <3>2, <3>3, <3>4, SendFileAssumption DEF StartCopy, Call, CopyTypeOK
  <2>2. OptionTypeOK' /\ keptBlocking' \in BOOLEAN
    BY <1>1, <1>a DEF StartCopy, optionVars, OptionTypeOK
  <2>3. QED
    BY <2>1, <2>2 DEF CopyInv, TypeOK
<1>2. CASE Copy(ReadReturns)
  <2>1. OptionTypeOK' /\ keptBlocking' \in BOOLEAN
    BY <1>2, <1>b DEF Copy
  <2>2. CASE Read
    <3>1. PICK k \in 1 .. BufferSize :
            /\ pos + k <= FileLen /\ buffer' = ReadInto(k) /\ pos' = pos + k /\ n' = k
      BY <2>2 DEF Read
    <3>2. /\ buffer' \in [1 .. BufferSize -> Byte]
          /\ \A i \in 1 .. n' : buffer'[i] \in 1 .. FileLen
      BY <3>1, <1>a, ReadIntoType
    <3>3. CopyTypeOK' /\ n' \in 1 .. BufferSize
      BY <2>2, <3>1, <3>2, <1>a, SendFileAssumption DEF Read, CopyTypeOK
    <3>4. QED
      BY <2>1, <3>2, <3>3 DEF CopyInv, TypeOK
  <2>3. CASE ReadEnd
    <3>1. CopyTypeOK' /\ pc' = "idle"
      <4>1. allocated' = FALSE /\ pc' = "idle"
        BY <2>3 DEF ReadEnd, Exit, Freed
      <4>2. allocated' \in BOOLEAN /\ (allocated' <=> pc' # "idle")
        BY <4>1
      <4>3. QED
        BY <2>3, <1>a, <4>1, <4>2, SendFileAssumption DEF ReadEnd, Exit, CopyTypeOK
    <3>2. QED
      BY <2>1, <3>1 DEF CopyInv, TypeOK
  <2>4. CASE ReadFails
    <3>1. CopyTypeOK' /\ pc' = "idle"
      <4>1. allocated' = FALSE /\ pc' = "idle"
        BY <2>4 DEF ReadFails, Exit, Freed
      <4>2. allocated' \in BOOLEAN /\ (allocated' <=> pc' # "idle")
        BY <4>1
      <4>3. QED
        BY <2>4, <1>a, <4>1, <4>2, SendFileAssumption DEF ReadFails, Exit, CopyTypeOK
    <3>2. QED
      BY <2>1, <3>1 DEF CopyInv, TypeOK
  <2>5. QED
    BY <1>2, <2>2, <2>3, <2>4 DEF Copy, ReadReturns
<1>3. CASE Copy(ReadInterrupted)
  <2>1. OptionTypeOK' /\ keptBlocking' \in BOOLEAN
    BY <1>3, <1>b DEF Copy
  <2>2. CopyTypeOK' /\ pc' = "read"
    BY <1>3, <1>a, SendFileAssumption DEF Copy, ReadInterrupted, CopyTypeOK
  <2>3. QED
    BY <2>1, <2>2 DEF CopyInv, TypeOK
<1>4. CASE Copy(SendReturns)
  <2>1. OptionTypeOK' /\ keptBlocking' \in BOOLEAN
    BY <1>4, <1>b DEF Copy
  <2>2. CASE Send
    <3>1. PICK k \in Takes(n) :
            /\ out' = out \o Sent(k) /\ n' = k
            /\ lost' = lost \cup (IF n = -1 THEN {} ELSE {buffer[i] : i \in k + 1 .. n})
      BY <2>2 DEF Send
    <3>2. k \in 1 .. BufferSize + 1
      BY <2>2, <3>1, <1>a, SendFileAssumption DEF Takes, Send, CopyTypeOK
    <3>3. out' \in Seq(Byte)
      BY <3>1, <3>2, <1>a, SentType, SendFileAssumption
    <3>4. n # -1 => \A i \in k + 1 .. n : i \in 1 .. n /\ buffer[i] \in 1 .. FileLen
      BY <2>2, <3>2, SendFileAssumption DEF Send, CopyInv
    <3>5. lost' \subseteq 1 .. FileLen
      BY <3>1, <3>4, <1>a DEF CopyTypeOK
    <3>6. CopyTypeOK' /\ pc' = "read"
      BY <2>2, <3>1, <3>2, <3>3, <3>5, <1>a, SendFileAssumption DEF Send, CopyTypeOK
    <3>7. QED
      BY <2>1, <3>6 DEF CopyInv, TypeOK
  <2>3. CASE SendFails
    <3>1. CopyTypeOK' /\ pc' = "idle"
      <4>1. allocated' = FALSE /\ pc' = "idle"
        BY <2>3 DEF SendFails, Exit, Freed
      <4>2. allocated' \in BOOLEAN /\ (allocated' <=> pc' # "idle")
        BY <4>1
      <4>3. QED
        BY <2>3, <1>a, <4>1, <4>2, SendFileAssumption DEF SendFails, Exit, CopyTypeOK
    <3>2. QED
      BY <2>1, <3>1 DEF CopyInv, TypeOK
  <2>4. QED
    BY <1>4, <2>2, <2>3 DEF Copy, SendReturns
<1>5. CASE Refused
  <2>1. OptionTypeOK' /\ keptBlocking' \in BOOLEAN
    BY <1>5, <1>b DEF Refused
  <2>2. CopyTypeOK' /\ n' = -1
    BY <1>5, <1>a, SendFileAssumption DEF Refused, SendAgain, CopyTypeOK
  <2>3. QED
    BY <2>1, <2>2 DEF CopyInv, TypeOK
<1>6. CASE ChangeMode
  <2>1. OptionTypeOK' /\ keptBlocking' \in BOOLEAN
    BY <1>6, <1>a DEF ChangeMode, setBlocking, OptionTypeOK
  <2>2. QED
    BY <1>6, <2>1, <1>c DEF ChangeMode
<1>7. CASE OptionStep /\ UNCHANGED <<vars, keptBlocking>>
  <2>1. OptionTypeOK'
    <3>1. CASE Setsockopt
      BY <3>1, <1>a DEF Setsockopt, OptionTypeOK
    <3>2. CASE Getsockopt
      <4>1. promised' \in BOOLEAN
        BY <3>2, Zenon DEF Getsockopt
      <4>2. QED
        BY <3>2, <4>1, <1>a DEF Getsockopt, Compare, Compared, OptionTypeOK
    <3>3. CASE GetsockoptFails
      BY <3>3, <1>a DEF GetsockoptFails, Compare, Compared, OptionTypeOK
    <3>4. QED
      BY <1>7, <3>1, <3>2, <3>3 DEF OptionStep
  <2>2. QED
    BY <1>7, <2>1, <1>a, <1>c
<1>8. CASE UNCHANGED allVars
  BY <1>8, <1>a, <1>b, <1>c DEF allVars
<1>9. QED
  BY <1>1, <1>2, <1>3, <1>4, <1>5, <1>6, <1>7, <1>8 DEF SystemNext

\* The types of the copy and of the socket, for every file and buffer: no exit
\* keeps the buffer, and the length 0 is never sent.
THEOREM CopyTypeCorrect == SystemSpec => []TypeOK
<1>1. CopyInv => TypeOK
  BY DEF CopyInv
<1>2. QED
  BY CopyInit, CopyNext, <1>1, PTL DEF SystemSpec
-----------------------------------------------------------------------------

\* What makes OutputExact inductive: while no send was repeated, the buffer of a
\* send that is due ends with the byte read last, and what is lost was sent before.
ExactInv ==
  ~retried =>
    /\ pc = "send" => n \in 1 .. BufferSize /\ n <= pos /\ \A i \in 1 .. n : buffer[i] = pos - n + i
    /\ pc # "idle" => lost \subseteq 1 .. pos - Unsent
    /\ OutputExact

\* It holds at the beginning.
LEMMA ExactInit == SystemInit => ExactInv
  BY DEF SystemInit, Init, ExactInv, OutputExact

\* A send of k of the n bytes in the buffer appends these, in order.
LEMMA SentExact ==
  ASSUME CopyTypeOK, ExactInv, ~retried, pc = "send", NEW k \in 1 .. n
  PROVE  LET sent == out \o Sent(k)
             left == lost \cup {buffer[i] : i \in k + 1 .. n}
         IN /\ \A i, j \in 1 .. Len(sent) : i < j => sent[i] < sent[j]
            /\ {sent[i] : i \in 1 .. Len(sent)} = (1 .. pos) \ left
            /\ left \subseteq 1 .. pos
<1> DEFINE sent == out \o Sent(k)
           left == lost \cup {buffer[i] : i \in k + 1 .. n}
<1>1. /\ pos \in Nat /\ n \in 1 .. BufferSize /\ n <= pos /\ k \in 1 .. n /\ BufferSize \in Nat
      /\ \A i \in 1 .. n : buffer[i] = pos - n + i
  BY SendFileAssumption DEF ExactInv, CopyTypeOK
<1>2. /\ lost \subseteq 1 .. pos - n
      /\ \A i, j \in 1 .. Len(out) : i < j => out[i] < out[j]
      /\ {out[i] : i \in 1 .. Len(out)} = (1 .. pos - n) \ lost
  BY DEF ExactInv, OutputExact, Unsent
<1>3. Sent(k) \in Seq(Byte) /\ Len(Sent(k)) = k
  <2>1. \A i \in 1 .. k : (IF i <= BufferSize THEN buffer[i] ELSE Junk) \in Byte
    BY SendFileAssumption DEF CopyTypeOK, Byte
  <2>2. Sent(k) \in [1 .. k -> Byte] /\ k \in Nat
    BY <1>1, <2>1 DEF Sent
  <2>3. QED
    BY <2>2
<1>4. \A i \in 1 .. k : Sent(k)[i] = pos - n + i
  BY <1>1 DEF Sent
<1>5. out \in Seq(Byte) /\ Len(out) \in Nat
  BY DEF CopyTypeOK
<1>6. /\ Len(sent) = Len(out) + k
      /\ \A i \in 1 .. Len(out) : sent[i] = out[i]
      /\ \A i \in 1 .. k : sent[Len(out) + i] = pos - n + i
  <2>1. Len(sent) = Len(out) + k
    BY <1>3, <1>5
  <2>2. \A i \in 1 .. Len(out) : sent[i] = out[i]
    BY <1>3, <1>5
  <2>3. \A i \in 1 .. k : sent[Len(out) + i] = Sent(k)[i]
    BY <1>1, <1>3, <1>5
  <2>4. QED
    BY <1>4, <2>1, <2>2, <2>3
<1>7. \A i \in 1 .. Len(out) : out[i] \in 1 .. pos - n
  BY <1>2
<1> HIDE DEF sent
<1>8. \A i \in 1 .. Len(sent) :
        \/ i \in 1 .. Len(out) /\ sent[i] = out[i] /\ sent[i] \in 1 .. pos - n
        \/ i - Len(out) \in 1 .. k /\ sent[i] = pos - n + (i - Len(out))
  <2> SUFFICES ASSUME NEW i \in 1 .. Len(sent), i \notin 1 .. Len(out)
               PROVE  i - Len(out) \in 1 .. k /\ sent[i] = pos - n + (i - Len(out))
    BY <1>6, <1>7
  <2>1. i - Len(out) \in 1 .. k /\ i = Len(out) + (i - Len(out))
    BY <1>1, <1>5, <1>6
  <2>2. QED
    BY <1>6, <2>1
<1>9. \A i, j \in 1 .. Len(sent) : i < j => sent[i] < sent[j]
  <2> SUFFICES ASSUME NEW i \in 1 .. Len(sent), NEW j \in 1 .. Len(sent), i < j
               PROVE  sent[i] < sent[j]
    OBVIOUS
  <2>1. CASE i \in 1 .. Len(out) /\ j \in 1 .. Len(out)
    BY <1>2, <1>6, <2>1
  <2>2. CASE i \in 1 .. Len(out) /\ j \notin 1 .. Len(out)
    BY <1>1, <1>8, <2>2
  <2>3. CASE i \notin 1 .. Len(out)
    <3>1. j \notin 1 .. Len(out)
      BY <1>1, <1>5, <1>6, <2>3
    <3>2. QED
      BY <1>1, <1>5, <1>8, <2>3, <3>1
  <2>4. QED
    BY <2>1, <2>2, <2>3
<1>10. {buffer[i] : i \in k + 1 .. n} = pos - n + k + 1 .. pos
  <2>1. \A i \in k + 1 .. n : i \in 1 .. n /\ buffer[i] = pos - n + i
    BY <1>1
  <2>2. ASSUME NEW b \in pos - n + k + 1 .. pos PROVE \E i \in k + 1 .. n : buffer[i] = b
    <3>1. b - (pos - n) \in k + 1 .. n /\ b = pos - n + (b - (pos - n))
      BY <1>1
    <3>2. QED
      BY <2>1, <3>1
  <2>3. \A i \in k + 1 .. n : buffer[i] \in pos - n + k + 1 .. pos
    BY <1>1, <2>1
  <2>4. QED
    BY <2>2, <2>3
<1>11. {sent[i] : i \in 1 .. Len(sent)} = {out[i] : i \in 1 .. Len(out)} \cup (pos - n + 1 .. pos - n + k)
  <2>1. ASSUME NEW i \in 1 .. Len(sent)
        PROVE  sent[i] \in {out[l] : l \in 1 .. Len(out)} \cup (pos - n + 1 .. pos - n + k)
    BY <1>1, <1>5, <1>8
  <2>2. \A i \in 1 .. Len(out) : i \in 1 .. Len(sent) /\ sent[i] = out[i]
    BY <1>1, <1>5, <1>6
  <2>3. ASSUME NEW b \in pos - n + 1 .. pos - n + k PROVE \E i \in 1 .. Len(sent) : sent[i] = b
    <3>1. b - (pos - n) \in 1 .. k /\ b = pos - n + (b - (pos - n))
      BY <1>1
    <3>2. Len(out) + (b - (pos - n)) \in 1 .. Len(sent)
      BY <1>1, <1>5, <1>6, <3>1
    <3>3. QED
      BY <1>6, <3>1, <3>2
  <2>4. QED
    BY <2>1, <2>2, <2>3
<1>12. ((1 .. pos - n) \ lost) \cup (pos - n + 1 .. pos - n + k) = (1 .. pos) \ (lost \cup (pos - n + k + 1 .. pos))
  <2>1. \A x \in lost : x \in 1 .. pos - n
    BY <1>2
  <2>2. QED
    BY <1>1, <2>1
<1>13. {sent[i] : i \in 1 .. Len(sent)} = (1 .. pos) \ left
  BY <1>2, <1>10, <1>11, <1>12
<1>14. left \subseteq 1 .. pos
  <2>1. 1 .. pos - n \subseteq 1 .. pos /\ pos - n + k + 1 .. pos \subseteq 1 .. pos
    BY <1>1
  <2>2. QED
    BY <1>2, <1>10, <2>1
<1>15. QED
  BY <1>9, <1>13, <1>14 DEF sent

\* Every step keeps it.
LEMMA ExactNext == CopyInv /\ ExactInv /\ [SystemNext]_allVars => ExactInv'
<1> SUFFICES ASSUME CopyInv, ExactInv, [SystemNext]_allVars PROVE ExactInv'
  OBVIOUS
<1>0. CopyTypeOK
  BY DEF CopyInv, TypeOK
<1>1. ASSUME UNCHANGED vars PROVE ExactInv'
  BY <1>1 DEF vars, ExactInv, OutputExact, Unsent
<1>2. CASE Call
  <2>1. pos' = 0 /\ out' = <<>> /\ lost' = {} /\ pc' = "read"
    BY <1>2 DEF Call
  <2>2. QED
    BY <2>1 DEF ExactInv, OutputExact, Unsent
<1>3. CASE Read
  <2>1. PICK k \in 1 .. BufferSize :
          /\ pos + k <= FileLen /\ buffer' = ReadInto(k) /\ pos' = pos + k /\ n' = k
    BY <1>3 DEF Read
  <2>2. pc = "read" /\ pc' = "send" /\ UNCHANGED <<out, lost, retried>>
    BY <1>3 DEF Read
  <2>3. k \in Nat /\ pos \in Nat /\ BufferSize \in Nat
    BY <1>0, SendFileAssumption DEF CopyTypeOK
  <2>4. \A i \in 1 .. k : buffer'[i] = pos + i
    BY <2>1, <2>3 DEF ReadInto
  <2>5. Unsent = 0 /\ Unsent' = k /\ pos' - k = pos /\ pos - 0 = pos
    BY <2>1, <2>2, <2>3 DEF Unsent
  <2>6. ~retried' => n' \in 1 .. BufferSize /\ n' <= pos' /\ \A i \in 1 .. n' : buffer'[i] = pos' - n' + i
    BY <2>1, <2>3, <2>4
  <2>7. ~retried' => lost' \subseteq 1 .. pos' - Unsent'
    BY <2>1, <2>2, <2>5 DEF ExactInv
  <2>8. OutputExact'
    BY <2>1, <2>2, <2>5 DEF ExactInv, OutputExact
  <2>9. QED
    BY <2>6, <2>7, <2>8 DEF ExactInv
<1>4. CASE ReadInterrupted
  BY <1>4 DEF ReadInterrupted, ExactInv, OutputExact, Unsent
<1>5. CASE ReadEnd
  BY <1>5 DEF ReadEnd, Exit, ExactInv, OutputExact, Unsent
<1>6. CASE ReadFails \/ SendFails
  <2>1. pc' = "idle" /\ result' = -1
    BY <1>6 DEF ReadFails, SendFails, Exit
  <2>2. QED
    BY <2>1 DEF ExactInv, OutputExact
<1>7. CASE Send
  <2> SUFFICES ASSUME ~retried PROVE ExactInv'
    BY <1>7 DEF Send, ExactInv
  <2>1. pc = "send" /\ n \in 1 .. BufferSize /\ n # -1
    BY <1>7, SendFileAssumption DEF Send, ExactInv
  <2>2. PICK k \in 1 .. n : out' = out \o Sent(k) /\ lost' = lost \cup {buffer[i] : i \in k + 1 .. n}
    BY <1>7, <2>1 DEF Send, Takes
  <2>3. pc' = "read" /\ pos' = pos /\ Unsent' = 0 /\ pos - 0 = pos
    BY <1>0, <1>7, SendFileAssumption DEF Send, Unsent, CopyTypeOK
  <2>4. /\ \A i, j \in 1 .. Len(out') : i < j => out'[i] < out'[j]
        /\ {out'[i] : i \in 1 .. Len(out')} = (1 .. pos) \ lost'
        /\ lost' \subseteq 1 .. pos
    BY <1>0, <2>1, <2>2, SentExact
  <2>5. QED
    BY <2>3, <2>4 DEF ExactInv, OutputExact
<1>8. CASE SendAgain
  BY <1>8 DEF SendAgain, ExactInv
<1>9. QED
  BY <1>1, <1>2, <1>3, <1>4, <1>5, <1>6, <1>7, <1>8
     DEF SystemNext, StartCopy, Copy, ReadReturns, SendReturns, Refused, ChangeMode, allVars

\* As long as no send had to be repeated, the socket has the bytes that were
\* read, once each and in order, but for those that short sends left out, and
\* 0 means that the whole file was read: for every file and every buffer.
THEOREM OutputIsExact == SystemSpec => []OutputExact
<1>1. ExactInv => OutputExact
  BY DEF ExactInv, OutputExact
<1>2. QED
  BY CopyInit, CopyNext, ExactInit, ExactNext, <1>1, PTL DEF SystemSpec
=============================================================================
