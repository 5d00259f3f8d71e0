---------------------------- MODULE Platform_proofs ----------------------------
(***************************************************************************)
(* The smaller components of the platform.  The stack walk visits the      *)
(* frames in order, the library loader loads the best library there is,    *)
(* and what GetTempPath returns settles: each for every value of the       *)
(* constants of its component, and all three for their composition.  The   *)
(* environment, which has a specification of its own, loses variables and  *)
(* values to races alone.                                                  *)
(***************************************************************************)
EXTENDS MCPlatform, Environment, SequenceTheorems, FiniteSetTheorems, TLAPS

-----------------------------------------------------------------------------
(* The stack walk. *)

\* Frame i has been passed on.
Visited(i) == \E k \in 1 .. Len(visited) : visited[k] = i

\* What the callback received: frames looked for, in order; reversed, none that
\* the loop does not reach.
ReceivedInv ==
  /\ \A k \in 1 .. Len(visited) : visited[k] \in 1 .. Len(frames) /\ PassedOn(visited[k])
  /\ \A k, l \in 1 .. Len(visited) :
       k < l => IF Reversed THEN visited[k] > visited[l] ELSE visited[k] < visited[l]
  /\ Reversed => \A k \in 1 .. Len(visited) : visited[k] >= LastOfReversed

\* The loop stands between what it has passed on and what it has still to look at.
LoopInv ==
  IF Reversed
  THEN /\ next \in 0 .. Len(frames)
       /\ \A k \in 1 .. Len(visited) : visited[k] > next
       /\ \A i \in 1 .. Len(frames) : PassedOn(i) /\ i > next => Visited(i)
  ELSE /\ next \in 1 .. Len(frames) + 1
       /\ \A k \in 1 .. Len(visited) : visited[k] < next
       /\ \A i \in 1 .. Len(frames) : PassedOn(i) /\ i < next => Visited(i)

\* What a walk that is over leaves unvisited: what the reversed loop of the newer
\* build does not reach, or what comes after the frame at which it was stopped.
OverInv ==
  /\ noBacktrace \/ stopped \/
       \A i \in 1 .. Len(frames) : PassedOn(i) =>
         (Reversed /\ USE_NEW_BACKTRACE /\ i = 1) \/ Visited(i)
  /\ stopped =>
       /\ Len(visited) > 0
       /\ \A i \in 1 .. Len(frames) : PassedOn(i) =>
            \/ Visited(i)
            \/ IF Reversed THEN i < visited[Len(visited)] ELSE i > visited[Len(visited)]

WalkInv ==
  /\ WalkTypeOK
  /\ walkPc \in {"idle", "size"} => ~frameList
  /\ walkPc # "idle" => ~stopped /\ ~noBacktrace
  /\ walkPc \in {"size", "backtrace"} => visited = <<>>
  /\ ReceivedInv
  /\ walkPc = "walk" => LoopInv
  /\ walkPc = "idle" => OverInv

\* A stack has a height within the bound.
LEMMA StackHeight ==
  ASSUME NEW s \in Stacks
  PROVE  Len(s) \in 0 .. MaxFrames /\ DOMAIN s = 1 .. Len(s) /\ s \in Seq({UserAssemblies, OtherModule})
<1>1. PICK h \in 0 .. MaxFrames : s \in [1 .. h -> {UserAssemblies, OtherModule}]
  BY DEF Stacks
<1>2. h \in Nat
  BY WalkAssumption
<1>3. s \in Seq({UserAssemblies, OtherModule}) /\ Len(s) = h
  BY <1>1, <1>2
<1>4. QED
  BY <1>1, <1>3

\* The empty stack is one.
LEMMA EmptyStack == <<>> \in Stacks
<1>1. <<>> \in [1 .. 0 -> {UserAssemblies, OtherModule}]
  OBVIOUS
<1>2. QED
  BY <1>1, WalkAssumption DEF Stacks

\* What one more visit makes of the visits.
LEMMA AppendVisit ==
  ASSUME NEW s \in Seq(1 .. MaxFrames), NEW x \in 1 .. MaxFrames
  PROVE  /\ Append(s, x) \in Seq(1 .. MaxFrames) /\ Len(Append(s, x)) = Len(s) + 1
         /\ \A k \in 1 .. Len(s) : Append(s, x)[k] = s[k]
         /\ Append(s, x)[Len(s) + 1] = x
  BY WalkAssumption

\* The invariant holds at the beginning.
LEMMA WalkStarts == WalkInit => WalkInv
<1> SUFFICES ASSUME WalkInit PROVE WalkInv
  OBVIOUS
<1>1. frames = <<>> /\ visited = <<>> /\ Len(frames) = 0 /\ Len(visited) = 0
  BY DEF WalkInit
<1>2. visited \in Seq(1 .. MaxFrames)
  BY <1>1
<1>3. WalkTypeOK
  <2>1. /\ USE_NEW_BACKTRACE \in BOOLEAN /\ frameList \in BOOLEAN /\ stopped \in BOOLEAN
        /\ noBacktrace \in BOOLEAN
    BY Zenon DEF WalkInit
  <2>2. next \in 0 .. MaxFrames + 1
    BY WalkAssumption DEF WalkInit
  <2>3. frames \in Stacks /\ walkOrder \in WalkOrder /\ walkPc \in {"idle", "size", "backtrace", "walk"}
    BY <1>1, EmptyStack DEF WalkInit, WalkOrder
  <2>4. QED
    BY <1>2, <2>1, <2>2, <2>3 DEF WalkTypeOK
<1>4. ReceivedInv /\ OverInv
  BY <1>1 DEF ReceivedInv, OverInv, WalkInit
<1>5. QED
  BY <1>3, <1>4 DEF WalkInv, WalkInit

\* Steps that leave the stack and the visits alone keep what is true of them.
LEMMA ReceivedStays ==
  ASSUME ReceivedInv, UNCHANGED <<USE_NEW_BACKTRACE, frames, walkOrder, visited>>
  PROVE  ReceivedInv'
  BY DEF ReceivedInv, PassedOn, Reversed, LastOfReversed

\* A call begins.
LEMMA CallStep ==
  ASSUME WalkInv, NEW stack \in Stacks, NEW order \in WalkOrder, WalkStackNative(stack, order)
  PROVE  WalkInv'
<1>1. visited' = <<>> /\ Len(visited') = 0 /\ visited' \in Seq(1 .. MaxFrames)
  BY DEF WalkStackNative
<1>2. walkPc' \in {"size", "backtrace"} /\ (walkPc' = "size" => ~frameList')
  BY DEF WalkStackNative, WalkInv
<1>3. WalkTypeOK'
  BY <1>1, <1>2 DEF WalkStackNative, WalkTypeOK, WalkInv
<1>4. ReceivedInv'
  BY <1>1 DEF ReceivedInv
<1>5. QED
  BY <1>1, <1>2, <1>3, <1>4 DEF WalkInv, WalkStackNative

\* The buffer is allocated, the backtrace is had, or one of them fails.
LEMMA BacktraceStep ==
  ASSUME WalkInv, AllocateFrames \/ BacktraceFails \/ Backtrace
  PROVE  WalkInv'
<1>0. ReceivedInv'
  BY ReceivedStays DEF WalkInv, AllocateFrames, BacktraceFails, Backtrace
<1>h. Len(frames) \in 0 .. MaxFrames /\ MaxFrames \in Nat
  BY StackHeight, WalkAssumption DEF WalkInv, WalkTypeOK
<1>1. CASE AllocateFrames
  BY <1>0, <1>1 DEF AllocateFrames, WalkInv, WalkTypeOK
<1>2. CASE BacktraceFails
  <2>1. WalkTypeOK'
    <3>1. frameList' \in BOOLEAN /\ noBacktrace' \in BOOLEAN /\ next' = 0 /\ walkPc' = "idle"
      BY <1>2 DEF BacktraceFails, WalkReturns, Freed
    <3>2. QED
      BY <1>2, <1>h, <3>1 DEF BacktraceFails, WalkInv, WalkTypeOK
  <2>2. walkPc' = "idle" /\ ~frameList' /\ noBacktrace' /\ ~stopped'
    BY <1>2 DEF BacktraceFails, WalkReturns, Freed, WalkInv
  <2>3. OverInv'
    BY <2>2 DEF OverInv
  <2>4. QED
    BY <1>0, <2>1, <2>2, <2>3 DEF WalkInv
<1>3. CASE Backtrace
  <2>1. WalkTypeOK'
    BY <1>3, <1>h DEF Backtrace, WalkInv, WalkTypeOK
  <2>2. walkPc' = "walk" /\ ~stopped' /\ ~noBacktrace'
    BY <1>3 DEF Backtrace, WalkInv
  <2>3. Len(visited') = 0
    BY <1>3 DEF Backtrace, WalkInv
  <2>4. LoopInv'
    BY <1>3, <1>h, <2>3 DEF Backtrace, LoopInv, Reversed, PassedOn
  <2>5. QED
    BY <1>0, <2>1, <2>2, <2>4 DEF WalkInv
<1>4. QED
  BY <1>1, <1>2, <1>3

\* The loop ends: nothing is left that it can reach.
LEMMA EndStep ==
  ASSUME WalkInv, WalkEnds
  PROVE  WalkInv'
<1>0. ReceivedInv'
  BY ReceivedStays DEF WalkInv, WalkEnds
<1>h. Len(frames) \in 0 .. MaxFrames /\ MaxFrames \in Nat
  BY StackHeight, WalkAssumption DEF WalkInv, WalkTypeOK
<1>1. WalkTypeOK'
  <2>1. frameList' \in BOOLEAN /\ next' = 0 /\ walkPc' = "idle"
    BY DEF WalkEnds, WalkReturns, Freed
  <2>2. QED
    BY <1>h, <2>1 DEF WalkEnds, WalkInv, WalkTypeOK
<1>2. walkPc' = "idle" /\ ~frameList' /\ ~stopped'
  BY DEF WalkEnds, WalkReturns, Freed, WalkInv
<1>3. ASSUME NEW i \in 1 .. Len(frames), PassedOn(i)
      PROVE  (Reversed /\ USE_NEW_BACKTRACE /\ i = 1) \/ Visited(i)
  BY <1>3, <1>h DEF WalkEnds, WalkInv, LoopInv, InBounds, LastOfReversed
<1>4. OverInv'
  <2>1. UNCHANGED <<USE_NEW_BACKTRACE, frames, walkOrder, visited>>
    BY DEF WalkEnds
  <2>2. QED
    BY <1>2, <1>3, <2>1 DEF OverInv, Visited, PassedOn, Reversed
<1>5. QED
  BY <1>0, <1>1, <1>2, <1>4 DEF WalkInv

\* A round of the loop.
LEMMA VisitStep ==
  ASSUME WalkInv, VisitFrame
  PROVE  WalkInv'
<1>h. Len(frames) \in 0 .. MaxFrames /\ MaxFrames \in Nat
  BY StackHeight, WalkAssumption DEF WalkInv, WalkTypeOK
<1>u. UNCHANGED <<USE_NEW_BACKTRACE, frames, walkOrder, noBacktrace>> /\ walkPc = "walk"
  BY DEF VisitFrame
<1>n. next \in 1 .. Len(frames) /\ LoopInv /\ (Reversed => next >= LastOfReversed)
  BY <1>h, <1>u DEF VisitFrame, WalkInv, LoopInv, InBounds, LastOfReversed
<1>t. visited \in Seq(1 .. MaxFrames) /\ next \in 1 .. MaxFrames /\ Len(visited) \in Nat
  BY <1>h, <1>n DEF WalkInv, WalkTypeOK
<1>p. UNCHANGED Reversed /\ \A i : PassedOn(i)' = PassedOn(i)
  BY <1>u DEF Reversed, PassedOn
<1>s. stopped' \in BOOLEAN /\ (~PassedOn(next) => ~stopped')
  BY <1>u DEF VisitFrame, WalkInv, WalkTypeOK
<1>1. /\ visited' \in Seq(1 .. MaxFrames) /\ Len(visited') \in Nat
      /\ \A k \in 1 .. Len(visited) : k \in 1 .. Len(visited') /\ visited'[k] = visited[k]
      /\ \A k \in 1 .. Len(visited') : k \in 1 .. Len(visited) \/ (visited'[k] = next /\ PassedOn(next) /\ k = Len(visited'))
      /\ PassedOn(next) => Len(visited') > 0 /\ visited'[Len(visited')] = next
  <2>1. CASE PassedOn(next)
    <3>1. visited' = Append(visited, next)
      BY <2>1 DEF VisitFrame
    <3>2. /\ visited' \in Seq(1 .. MaxFrames) /\ Len(visited') = Len(visited) + 1
          /\ \A k \in 1 .. Len(visited) : visited'[k] = visited[k]
          /\ visited'[Len(visited) + 1] = next
      BY <1>t, <3>1, AppendVisit
    <3>3. QED
      BY <1>t, <2>1, <3>2
  <2>2. CASE ~PassedOn(next)
    BY <1>t, <2>2 DEF VisitFrame
  <2>3. QED
    BY <2>1, <2>2
<1>2. \A i : Visited(i) \/ (i = next /\ PassedOn(next)) => Visited(i)'
  <2>1. ASSUME NEW i, Visited(i) PROVE Visited(i)'
    BY <1>1, <2>1 DEF Visited
  <2>2. ASSUME NEW i, i = next, PassedOn(next) PROVE Visited(i)'
    <3>1. Len(visited') \in 1 .. Len(visited') /\ visited'[Len(visited')] = i
      BY <1>1, <2>2
    <3>2. QED
      BY <3>1 DEF Visited
  <2>3. QED
    BY <2>1, <2>2
<1>3. ReceivedInv'
  <2>1. \A k \in 1 .. Len(visited') : visited'[k] \in 1 .. Len(frames) /\ PassedOn(visited'[k])
    BY <1>1, <1>n DEF WalkInv, ReceivedInv
  <2>2. \A k, l \in 1 .. Len(visited') :
          k < l => IF Reversed THEN visited'[k] > visited'[l] ELSE visited'[k] < visited'[l]
    <3>1. ASSUME NEW k \in 1 .. Len(visited'), NEW l \in 1 .. Len(visited'), k < l
          PROVE  IF Reversed THEN visited'[k] > visited'[l] ELSE visited'[k] < visited'[l]
      <4>1. k \in 1 .. Len(visited) /\ visited'[k] = visited[k]
        BY <1>1, <3>1
      <4>2. CASE l \in 1 .. Len(visited)
        BY <1>1, <3>1, <4>1, <4>2 DEF WalkInv, ReceivedInv
      <4>3. CASE visited'[l] = next
        BY <1>n, <4>1, <4>3 DEF LoopInv
      <4>4. QED
        BY <1>1, <4>2, <4>3
    <3>2. QED
      BY <3>1
  <2>3. Reversed => \A k \in 1 .. Len(visited') : visited'[k] >= LastOfReversed
    BY <1>1, <1>n DEF WalkInv, ReceivedInv
  <2>4. LastOfReversed' = LastOfReversed
    BY <1>u DEF LastOfReversed
  <2>5. QED
    BY <1>u, <1>p, <2>1, <2>2, <2>3, <2>4 DEF ReceivedInv
<1>4. CASE stopped'
  <2>1. walkPc' = "idle" /\ ~frameList' /\ next' = 0
    BY <1>4 DEF VisitFrame, WalkReturns, Freed
  <2>2. PassedOn(next)
    BY <1>4, <1>s
  <2>3. ASSUME NEW i \in 1 .. Len(frames), PassedOn(i)
        PROVE  Visited(i)' \/ IF Reversed THEN i < next ELSE i > next
    <3>1. CASE i = next
      BY <1>2, <2>2, <3>1
    <3>2. CASE IF Reversed THEN i > next ELSE i < next
      BY <1>2, <1>n, <2>3, <3>2 DEF LoopInv
    <3>3. QED
      BY <1>n, <3>1, <3>2
  <2>4. OverInv'
    BY <1>1, <1>4, <1>u, <1>p, <2>2, <2>3 DEF OverInv
  <2>5. WalkTypeOK'
    <3>1. frameList' \in BOOLEAN
      BY <1>4 DEF VisitFrame, Freed
    <3>2. QED
      BY <1>1, <1>s, <1>u, <1>h, <2>1, <3>1 DEF WalkTypeOK, WalkInv
  <2>6. QED
    BY <1>3, <2>1, <2>4, <2>5 DEF WalkInv
<1>5. CASE ~stopped'
  <2>1. UNCHANGED <<walkPc, frameList>> /\ next' = (IF Reversed THEN next - 1 ELSE next + 1)
    BY <1>5 DEF VisitFrame
  <2>2. WalkTypeOK'
    BY <1>1, <1>s, <1>u, <1>h, <1>n, <2>1 DEF WalkTypeOK, WalkInv
  <2>3. \A k \in 1 .. Len(visited') : IF Reversed THEN visited'[k] > next' ELSE visited'[k] < next'
    <3>1. ASSUME NEW k \in 1 .. Len(visited')
          PROVE  visited'[k] \in Int /\ (visited'[k] = next \/ IF Reversed THEN visited'[k] > next ELSE visited'[k] < next)
      <4>1. CASE visited'[k] = next
        BY <1>n, <4>1
      <4>2. CASE k \in 1 .. Len(visited) /\ visited'[k] = visited[k]
        <5>1. visited[k] \in 1 .. MaxFrames /\ MaxFrames \in Nat
          BY <1>h, <1>t, <4>2
        <5>2. IF Reversed THEN visited[k] > next ELSE visited[k] < next
          BY <1>n, <4>2 DEF LoopInv
        <5>3. QED
          BY <4>2, <5>1, <5>2
      <4>3. QED
        BY <1>1, <4>1, <4>2
    <3>2. QED
      BY <3>1, <2>1, <1>n
  <2>4. \A i \in 1 .. Len(frames) : PassedOn(i) /\ (IF Reversed THEN i > next' ELSE i < next') => Visited(i)'
    <3>1. ASSUME NEW i \in 1 .. Len(frames), PassedOn(i), IF Reversed THEN i > next' ELSE i < next'
          PROVE  Visited(i)'
      <4>1. i = next \/ IF Reversed THEN i > next ELSE i < next
        BY <3>1, <2>1, <1>n
      <4>2. CASE i = next
        BY <4>2, <3>1, <1>2
      <4>3. CASE IF Reversed THEN i > next ELSE i < next
        BY <4>3, <3>1, <1>2, <1>n DEF LoopInv
      <4>4. QED
        BY <4>1, <4>2, <4>3
    <3>2. QED
      BY <3>1
  <2>5. IF Reversed THEN next' \in 0 .. Len(frames) ELSE next' \in 1 .. Len(frames) + 1
    BY <1>n, <1>h, <2>1
  <2>6. LoopInv'
    BY <1>u, <1>p, <2>3, <2>4, <2>5 DEF LoopInv
  <2>7. QED
    BY <1>3, <1>5, <1>u, <2>1, <2>2, <2>6 DEF WalkInv
<1>6. QED
  BY <1>4, <1>5

\* Every step keeps the invariant.
LEMMA WalkSteps == WalkInv /\ [WalkNext]_walkVars => WalkInv'
<1> SUFFICES ASSUME WalkInv, [WalkNext]_walkVars PROVE WalkInv'
  OBVIOUS
<1>1. CASE UNCHANGED walkVars
  BY <1>1 DEF walkVars, WalkInv, WalkTypeOK, ReceivedInv, LoopInv, OverInv, Visited, PassedOn,
              Reversed, LastOfReversed
<1>2. QED
  BY <1>1, CallStep, BacktraceStep, EndStep, VisitStep DEF WalkNext

\* The invariant says what WalkedInOrder says.
LEMMA InvInOrder == WalkInv => WalkedInOrder
<1> SUFFICES ASSUME WalkInv, walkPc = "idle" PROVE WalkedInOrder
  BY DEF WalkedInOrder
<1>1. DOMAIN visited = 1 .. Len(visited) /\ DOMAIN frames = 1 .. Len(frames)
  BY StackHeight DEF WalkInv, WalkTypeOK
<1>2. ~frameList /\ ReceivedInv /\ OverInv
  BY DEF WalkInv
<1>3. ASSUME ~noBacktrace, ~stopped
      PROVE  {i \in DOMAIN frames : PassedOn(i)}
               \ (IF Reversed /\ USE_NEW_BACKTRACE THEN {1} ELSE {}) = {visited[k] : k \in DOMAIN visited}
  <2>1. ASSUME NEW k \in 1 .. Len(visited)
        PROVE  /\ visited[k] \in 1 .. Len(frames) /\ PassedOn(visited[k])
               /\ Reversed /\ USE_NEW_BACKTRACE => visited[k] # 1
    BY <1>2 DEF ReceivedInv, LastOfReversed
  <2>2. ASSUME NEW i \in 1 .. Len(frames), PassedOn(i), ~(Reversed /\ USE_NEW_BACKTRACE /\ i = 1)
        PROVE  \E k \in 1 .. Len(visited) : visited[k] = i
    BY <1>2, <1>3, <2>2 DEF OverInv, Visited
  <2>3. QED
    BY <1>1, <2>1, <2>2
<1>4. \A k, l \in DOMAIN visited :
        k < l => IF Reversed THEN visited[k] > visited[l] ELSE visited[k] < visited[l]
  BY <1>1, <1>2 DEF ReceivedInv
<1>5. \A k \in DOMAIN visited : PassedOn(visited[k])
  BY <1>1, <1>2 DEF ReceivedInv
<1>6. stopped => \A i \in DOMAIN frames : PassedOn(i) =>
        \/ \E k \in DOMAIN visited : visited[k] = i
        \/ IF Reversed THEN i < visited[Len(visited)] ELSE i > visited[Len(visited)]
  BY <1>1, <1>2 DEF OverInv, Visited
<1>7. QED
  BY <1>2, <1>3, <1>4, <1>5, <1>6 DEF WalkedInOrder

\* In both builds and both orders, and for stacks of any height, a walk passes
\* on each frame it is looking for once and in order, stops where the callback
\* says, and frees its list.
THEOREM WalkOrderCorrect == WalkSpec => []WalkedInOrder
<1>1. QED
  BY WalkStarts, WalkSteps, InvInOrder, PTL DEF WalkSpec

-----------------------------------------------------------------------------
(* The library loader. *)

\* Lists of at most two elements, put together.
LEMMA SmallLists ==
  ASSUME NEW x, NEW y
  PROVE  /\ <<x>> \o <<y>> \o <<>> = <<x, y>>
         /\ <<>> \o <<x>> \o <<y>> = <<x, y>>
         /\ <<>> \o <<x>> \o <<>> = <<x>>
<1>1. <<x>> \in Seq({x, y}) /\ <<y>> \in Seq({x, y}) /\ <<>> \in Seq({x, y}) /\ <<x, y>> \in Seq({x, y})
  OBVIOUS
<1>2. <<x>> \o <<y>> = <<x, y>>
  <2> DEFINE s == <<x>> \o <<y>>
             t == <<x, y>>
  <2>1. s \in Seq({x, y}) /\ Len(s) = 2 /\ s[1] = x /\ s[2] = y
    BY <1>1
  <2>2. t \in Seq({x, y}) /\ Len(t) = 2 /\ t[1] = x /\ t[2] = y
    BY <1>1
  <2> HIDE DEF s, t
  <2>3. \A i \in 1 .. 2 : i = 1 \/ i = 2
    OBVIOUS
  <2>4. \A i \in 1 .. Len(s) : s[i] = t[i]
    BY <2>1, <2>2, <2>3
  <2>5. s = t
    BY <2>1, <2>2, <2>4, SeqEqual
  <2>6. QED
    BY <2>5 DEF s, t
<1>3. \A s \in Seq({x, y}) : s \o <<>> = s /\ <<>> \o s = s
  BY <1>1
<1>4. QED
  BY <1>1, <1>2, <1>3

\* The shapes of Acceptable: a .prx, a .dll, and the others.
LEMMA AcceptableShape ==
  ASSUME NEW name \in Names
  PROVE  /\ LastExtension(name) \in prx =>
              Acceptable(name) = <<name.ext, name.ext \o <<".prx">>>>
         /\ LastExtension(name) = ".dll" =>
              Acceptable(name) = <<name.ext \o <<".prx">>,
                                   SubSeq(name.ext, 1, Len(name.ext) - 1) \o <<".prx">>>>
         /\ LastExtension(name) \notin prx \cup {".dll"} =>
              Acceptable(name) = <<name.ext \o <<".prx">>>>
<1>1. ".dll" \notin prx
  BY DEF prx
<1>2. CASE LastExtension(name) \in prx
  <2>1. Acceptable(name) = <<name.ext>> \o <<name.ext \o <<".prx">>>> \o <<>>
    BY <1>1, <1>2 DEF Acceptable
  <2>2. QED
    BY <1>1, <1>2, <2>1, SmallLists
<1>3. CASE LastExtension(name) = ".dll"
  <2>1. Acceptable(name) = <<>> \o <<name.ext \o <<".prx">>>>
                             \o <<SubSeq(name.ext, 1, Len(name.ext) - 1) \o <<".prx">>>>
    BY <1>1, <1>3 DEF Acceptable
  <2>2. QED
    BY <1>1, <1>3, <2>1, SmallLists
<1>4. CASE LastExtension(name) \notin prx \cup {".dll"}
  <2>1. Acceptable(name) = <<>> \o <<name.ext \o <<".prx">>>> \o <<>>
    BY <1>4 DEF Acceptable
  <2>2. QED
    BY <1>4, <2>1, SmallLists
<1>5. QED
  BY <1>1, <1>2, <1>3, <1>4

\* The extensions of a name that was completed, and of one that was cut first.
LEMMA WithPrxShape ==
  ASSUME NEW name \in Names
  PROVE  /\ WithPrx(name) = [absolute |-> name.absolute, stem |-> name.stem, ext |-> name.ext \o <<".prx">>]
         /\ Completed(WithPrx(name)) = WithPrx(name)
<1>1. /\ name = [absolute |-> name.absolute, stem |-> name.stem, ext |-> name.ext]
      /\ name.ext \in Seq(STRING)
  BY LoaderAssumption
<1>2. Append(name.ext, ".prx") = name.ext \o <<".prx">>
  BY <1>1
<1>3. WithPrx(name) = [absolute |-> name.absolute, stem |-> name.stem, ext |-> Append(name.ext, ".prx")]
  BY <1>1 DEF WithPrx
<1>4. LastExtension(WithPrx(name)) = ".prx"
  <2>1. Append(name.ext, ".prx") # <<>>
    BY <1>1
  <2>2. Append(name.ext, ".prx")[Len(Append(name.ext, ".prx"))] = ".prx"
    BY <1>1
  <2>3. QED
    BY <1>3, <2>1, <2>2 DEF LastExtension
<1>5. QED
  BY <1>2, <1>3, <1>4 DEF Completed, prx

\* The extensions of a name whose .dll is replaced by a .prx.
LEMMA WithoutLastShape ==
  ASSUME NEW name \in Names, LastExtension(name) = ".dll"
  PROVE  LET cut == WithPrx(WithoutLast(name)) IN
         /\ cut = [absolute |-> name.absolute, stem |-> name.stem,
                   ext |-> SubSeq(name.ext, 1, Len(name.ext) - 1) \o <<".prx">>]
         /\ Completed(cut) = cut
<1> DEFINE short == SubSeq(name.ext, 1, Len(name.ext) - 1)
           cut == WithPrx(WithoutLast(name))
<1>1. /\ name = [absolute |-> name.absolute, stem |-> name.stem, ext |-> name.ext]
      /\ name.ext \in Seq(STRING)
  BY LoaderAssumption
<1>2. name.ext # <<>>
  BY DEF LastExtension
<1>3. short \in Seq(STRING)
  BY <1>1, <1>2
<1>4. WithoutLast(name) = [absolute |-> name.absolute, stem |-> name.stem, ext |-> short]
  BY <1>1 DEF WithoutLast
<1>5. cut = [absolute |-> name.absolute, stem |-> name.stem, ext |-> Append(short, ".prx")]
  <2>1. WithoutLast(name).ext = short
    BY <1>4
  <2>2. cut = [WithoutLast(name) EXCEPT !.ext = Append(WithoutLast(name).ext, ".prx")]
    BY DEF WithPrx
  <2>3. cut = [[absolute |-> name.absolute, stem |-> name.stem, ext |-> short]
                 EXCEPT !.ext = Append(short, ".prx")]
    BY <1>4, <2>1, <2>2
  <2>4. QED
    BY <2>3
<1> HIDE DEF short
<1>6. Append(short, ".prx") = short \o <<".prx">> /\ Append(short, ".prx") # <<>>
  <2>2. Append(short, ".prx") = short \o <<".prx">>
    BY <1>3
  <2>3. Append(short, ".prx") # <<>>
    BY <1>3
  <2>4. QED
    BY <2>2, <2>3
<1>7. Append(short, ".prx")[Len(Append(short, ".prx"))] = ".prx"
  BY <1>3
<1>8. LastExtension(cut) = ".prx"
  BY <1>5, <1>6, <1>7 DEF LastExtension
<1>9. QED
  BY <1>5, <1>6, <1>8 DEF Completed, prx, short

-----------------------------------------------------------------------------

\* Where the i-th acceptable name was looked for in vain: in the data folder, if
\* that did not change, or at the root.
Absent(i) ==
  \A folder \in seen : libraryName.absolute \/ seen = {folder} => Candidate(folder, i) \notin files

\* A probe has loaded nothing yet, knows the data folder, and has passed over
\* names only because there is no library of that name.
ProbeInv ==
  /\ files \subseteq Installed /\ libraryName \in Names
  /\ probePc \in {"idle", "as given", "with .prx", "without .dll"}
  /\ probePc # "idle" => handle = Invalid /\ s_datafolder \in seen
  /\ probePc \in {"with .prx", "without .dll"} => Absent(1)
  /\ probePc = "without .dll" => LastExtension(libraryName) = ".dll"
  /\ BestLibraryLoaded

\* A candidate at the root is the same for every folder.
LEMMA CandidateAtRoot ==
  ASSUME libraryName.absolute, NEW f, NEW g, NEW i
  PROVE  Candidate(f, i) = Candidate(g, i)
  BY DEF Candidate

\* If the i-th name is found, and no better one was, it is the best match.
LEMMA FoundIsBest ==
  ASSUME NEW i \in DOMAIN Acceptable(libraryName), \A j \in DOMAIN Acceptable(libraryName) : j \in Nat,
         i \in Nat, \A j \in DOMAIN Acceptable(libraryName) : j < i => Absent(j),
         s_datafolder \in seen, Candidate(s_datafolder, i) \in files,
         UNCHANGED <<libraryName, files, seen>>, handle' = Candidate(s_datafolder, i)
  PROVE  BestLibraryLoaded'
<1>1. handle' # Invalid =>
        \E folder \in seen', j \in DOMAIN Acceptable(libraryName') :
          handle' = [folder |-> IF libraryName'.absolute THEN Root ELSE folder,
                     stem |-> libraryName'.stem, ext |-> Acceptable(libraryName')[j]]
  BY DEF Candidate
<1>2. ASSUME NEW folder \in seen, libraryName.absolute \/ seen = {folder}
      PROVE  LET found == {j \in DOMAIN Acceptable(libraryName) : Candidate(folder, j) \in files}
             IN /\ i \in found /\ \A j \in found : i <= j
                /\ handle' = Candidate(folder, i)
  <2>1. Candidate(folder, i) = Candidate(s_datafolder, i)
    BY <1>2, CandidateAtRoot
  <2>2. ASSUME NEW j \in DOMAIN Acceptable(libraryName), Candidate(folder, j) \in files
        PROVE  i <= j
    BY <1>2, <2>2 DEF Absent
  <2>3. QED
    BY <2>1, <2>2
<1>3. \A folder, j : Candidate(folder, j)' = Candidate(folder, j)
  BY DEF Candidate
<1>4. QED
  BY <1>1, <1>2, <1>3 DEF BestLibraryLoaded, Candidate

\* If every name was looked for in vain, nothing is loaded, rightly.
LEMMA NoneIsBest ==
  ASSUME \A j \in DOMAIN Acceptable(libraryName) : Absent(j),
         UNCHANGED <<libraryName, files, seen>>, handle' = Invalid
  PROVE  BestLibraryLoaded'
<1>1. \A folder, j : Candidate(folder, j)' = Candidate(folder, j)
  BY DEF Candidate
<1>2. \A folder \in seen : libraryName.absolute \/ seen = {folder} =>
        {j \in DOMAIN Acceptable(libraryName) : Candidate(folder, j) \in files} = {}
  BY DEF Absent
<1>3. QED
  BY <1>1, <1>2 DEF BestLibraryLoaded

\* A name that was looked for in vain in the data folder is absent.
LEMMA MissedIsAbsent ==
  ASSUME NEW i, s_datafolder \in seen, Candidate(s_datafolder, i) \notin files
  PROVE  Absent(i)
  BY CandidateAtRoot DEF Absent

\* The position of the name a probe is at in Acceptable, and that a call of
\* LoadLibraryWithName looks for that one.
LEMMA LooksFor ==
  ASSUME ProbeInv
  PROVE  /\ 1 \in DOMAIN Acceptable(libraryName) /\ DOMAIN Acceptable(libraryName) \subseteq {1, 2}
         /\ BufferOf(libraryName) = Candidate(s_datafolder, 1)
         /\ LastExtension(libraryName) \in prx =>
              /\ DOMAIN Acceptable(libraryName) = {1, 2}
              /\ BufferOf(WithPrx(libraryName)) = Candidate(s_datafolder, 2)
         /\ LastExtension(libraryName) \notin prx =>
              BufferOf(WithPrx(libraryName)) = Candidate(s_datafolder, 1)
         /\ LastExtension(libraryName) = ".dll" =>
              /\ DOMAIN Acceptable(libraryName) = {1, 2}
              /\ BufferOf(WithPrx(WithoutLast(libraryName))) = Candidate(s_datafolder, 2)
         /\ LastExtension(libraryName) \notin prx \cup {".dll"} => DOMAIN Acceptable(libraryName) = {1}
<1>0. libraryName \in Names /\ ".dll" \notin prx
  BY DEF ProbeInv, prx
<1>1. \A x, y : DOMAIN <<x, y>> = {1, 2} /\ <<x, y>>[1] = x /\ <<x, y>>[2] = y
  OBVIOUS
<1>2. \A x : DOMAIN <<x>> = {1} /\ <<x>>[1] = x
  OBVIOUS
<1>3. /\ WithPrx(libraryName).ext = libraryName.ext \o <<".prx">>
      /\ WithPrx(libraryName).absolute = libraryName.absolute /\ WithPrx(libraryName).stem = libraryName.stem
      /\ Completed(WithPrx(libraryName)) = WithPrx(libraryName)
  BY <1>0, WithPrxShape
<1>4. BufferOf(WithPrx(libraryName)) =
        [folder |-> IF libraryName.absolute THEN Root ELSE s_datafolder,
         stem |-> libraryName.stem, ext |-> libraryName.ext \o <<".prx">>]
  BY <1>3 DEF BufferOf
<1>5. CASE LastExtension(libraryName) \in prx
  <2>1. Acceptable(libraryName) = <<libraryName.ext, libraryName.ext \o <<".prx">>>>
    BY <1>0, <1>5, AcceptableShape
  <2>2. DOMAIN Acceptable(libraryName) = {1, 2}
    BY <1>1, <2>1
  <2>3. BufferOf(libraryName) = Candidate(s_datafolder, 1)
    BY <1>1, <1>5, <2>1 DEF BufferOf, Completed, Candidate
  <2>4. BufferOf(WithPrx(libraryName)) = Candidate(s_datafolder, 2)
    BY <1>1, <1>4, <2>1 DEF Candidate
  <2>5. QED
    BY <1>0, <1>5, <2>2, <2>3, <2>4
<1>6. CASE LastExtension(libraryName) = ".dll"
  <2>1. Acceptable(libraryName) =
          <<libraryName.ext \o <<".prx">>, SubSeq(libraryName.ext, 1, Len(libraryName.ext) - 1) \o <<".prx">>>>
    BY <1>0, <1>6, AcceptableShape
  <2>2. DOMAIN Acceptable(libraryName) = {1, 2}
    BY <1>1, <2>1
  <2>3. BufferOf(libraryName) = Candidate(s_datafolder, 1)
    <3>1. Completed(libraryName).ext = libraryName.ext \o <<".prx">>
      BY <1>0, <1>3, <1>6 DEF Completed
    <3>2. Acceptable(libraryName)[1] = libraryName.ext \o <<".prx">>
      BY <1>1, <2>1
    <3>3. QED
      BY <3>1, <3>2 DEF BufferOf, Candidate
  <2>4. BufferOf(WithPrx(libraryName)) = Candidate(s_datafolder, 1)
    BY <1>1, <1>4, <2>1 DEF Candidate
  <2>5. BufferOf(WithPrx(WithoutLast(libraryName))) = Candidate(s_datafolder, 2)
    <3> DEFINE cut == WithPrx(WithoutLast(libraryName))
              shorter == SubSeq(libraryName.ext, 1, Len(libraryName.ext) - 1) \o <<".prx">>
    <3>1. cut = [absolute |-> libraryName.absolute, stem |-> libraryName.stem, ext |-> shorter]
      BY <1>0, <1>6, WithoutLastShape
    <3>c. Completed(cut) = cut
      BY <1>0, <1>6, WithoutLastShape
    <3>s. Acceptable(libraryName)[2] = shorter
      BY <1>1, <2>1
    <3> HIDE DEF cut, shorter
    <3>2. BufferOf(cut) = Candidate(s_datafolder, 2)
      <4>1. cut.absolute = libraryName.absolute /\ cut.stem = libraryName.stem /\ cut.ext = shorter
        BY <3>1
      <4>2. Completed(cut).ext = shorter
        BY <3>c, <4>1
      <4>3. QED
        BY <3>s, <4>1, <4>2 DEF BufferOf, Candidate
    <3>3. QED
      BY <3>2 DEF cut
  <2>6. QED
    BY <1>0, <1>6, <2>2, <2>3, <2>4, <2>5
<1>7. CASE LastExtension(libraryName) \notin prx \cup {".dll"}
  <2>1. Acceptable(libraryName) = <<libraryName.ext \o <<".prx">>>>
    BY <1>0, <1>7, AcceptableShape
  <2>2. DOMAIN Acceptable(libraryName) = {1}
    BY <1>2, <2>1
  <2>3. BufferOf(libraryName) = Candidate(s_datafolder, 1)
    BY <1>2, <1>3, <1>7, <2>1 DEF BufferOf, Completed, Candidate
  <2>4. BufferOf(WithPrx(libraryName)) = Candidate(s_datafolder, 1)
    BY <1>2, <1>4, <2>1 DEF Candidate
  <2>5. QED
    BY <1>7, <2>2, <2>3, <2>4
<1>8. QED
  BY <1>5, <1>6, <1>7

\* Definitions about the probe alone, unchanged if what they mention is.
LEMMA AbsentStays ==
  ASSUME UNCHANGED <<libraryName, files, seen>>, NEW i, Absent(i)
  PROVE  Absent(i)'
  BY DEF Absent, Candidate

\* A name is tried: it is loaded, and is the best match, or it is absent.
LEMMA TryStep ==
  ASSUME ProbeInv, probePc # "idle", NEW name, NEW otherwise,
         LoadLibraryWithName(name, otherwise),
         NEW i \in DOMAIN Acceptable(libraryName), BufferOf(name) = Candidate(s_datafolder, i),
         \A j \in DOMAIN Acceptable(libraryName) : j < i => Absent(j)
  PROVE  \/ probePc' = "idle" /\ BestLibraryLoaded'
         \/ probePc' = otherwise /\ handle' = Invalid /\ Absent(i)
<1>1. \A j \in DOMAIN Acceptable(libraryName) : j \in Nat
  BY LooksFor
<1>2. UNCHANGED <<libraryName, files, seen>> /\ handle = Invalid /\ s_datafolder \in seen
  BY DEF LoadLibraryWithName, ProbeInv
<1>3. CASE BufferOf(name) \in files
  <2>1. handle' = Candidate(s_datafolder, i) /\ probePc' = "idle"
    BY <1>3 DEF LoadLibraryWithName
  <2>2. BestLibraryLoaded'
    BY <1>1, <1>2, <1>3, <2>1, FoundIsBest
  <2>3. QED
    BY <2>1, <2>2
<1>4. CASE BufferOf(name) \notin files
  <2>1. probePc' = otherwise /\ handle' = Invalid
    BY <1>2, <1>4 DEF LoadLibraryWithName
  <2>2. Absent(i)
    BY <1>2, <1>4, MissedIsAbsent
  <2>3. QED
    BY <2>1, <2>2
<1>5. QED
  BY <1>3, <1>4

\* Every one of the three tries keeps the invariant.
LEMMA ProbeStep ==
  ASSUME ProbeInv, Probe
  PROVE  ProbeInv'
<1>0. /\ UNCHANGED <<libraryName, files, seen, s_datafolder>> /\ probePc # "idle"
      /\ handle = Invalid /\ s_datafolder \in seen /\ libraryName \in Names
  BY DEF Probe, AsGiven, WithSuffix, WithoutDll, LoadLibraryWithName, ProbeInv
<1>k. UNCHANGED LastExtension(libraryName)
  BY <1>0 DEF LastExtension
<1>d. ".dll" \notin prx
  BY DEF prx
<1>b. probePc' # "idle" => BestLibraryLoaded'
  BY DEF BestLibraryLoaded
<1>i. ASSUME probePc' = "idle", BestLibraryLoaded' PROVE ProbeInv'
  BY <1>0, <1>i DEF ProbeInv
<1>1. CASE AsGiven
  <2>1. \/ probePc' = "idle" /\ BestLibraryLoaded'
        \/ probePc' = "with .prx" /\ handle' = Invalid /\ Absent(1)
    <3>1. LoadLibraryWithName(libraryName, "with .prx")
      BY <1>1 DEF AsGiven
    <3>2. 1 \in DOMAIN Acceptable(libraryName) /\ BufferOf(libraryName) = Candidate(s_datafolder, 1)
          /\ \A j \in DOMAIN Acceptable(libraryName) : ~(j < 1)
      BY LooksFor
    <3>3. QED
      BY <1>0, <3>1, <3>2, TryStep
  <2>2. CASE probePc' = "with .prx" /\ handle' = Invalid /\ Absent(1)
    BY <1>0, <1>b, <2>2, AbsentStays DEF ProbeInv
  <2>3. QED
    BY <1>i, <2>1, <2>2
<1>2. CASE WithSuffix
  <2> DEFINE otherwise == IF LastExtension(libraryName) = ".dll" THEN "without .dll" ELSE "idle"
  <2>0. LoadLibraryWithName(WithPrx(libraryName), otherwise) /\ Absent(1)
    BY <1>2 DEF WithSuffix, ProbeInv
  <2> HIDE DEF otherwise
  <2>1. CASE LastExtension(libraryName) \in prx
    <3>1. DOMAIN Acceptable(libraryName) = {1, 2} /\ BufferOf(WithPrx(libraryName)) = Candidate(s_datafolder, 2)
      BY <2>1, LooksFor
    <3>2. \/ probePc' = "idle" /\ BestLibraryLoaded'
          \/ probePc' = otherwise /\ handle' = Invalid /\ Absent(2)
      <4>1. \A j \in DOMAIN Acceptable(libraryName) : j < 2 => Absent(j)
        BY <2>0, <3>1
      <4>2. QED
        BY <1>0, <2>0, <3>1, <4>1, TryStep
    <3>3. CASE probePc' = otherwise /\ handle' = Invalid /\ Absent(2)
      <4>1. \A j \in DOMAIN Acceptable(libraryName) : Absent(j)
        BY <2>0, <3>1, <3>3
      <4>2. BestLibraryLoaded'
        BY <1>0, <3>3, <4>1, NoneIsBest
      <4>3. probePc' = "idle"
        BY <1>d, <2>1, <3>3 DEF otherwise
      <4>4. QED
        BY <1>i, <4>2, <4>3
    <3>4. QED
      BY <1>i, <3>2, <3>3
  <2>2. CASE LastExtension(libraryName) \notin prx
    <3>1. \/ probePc' = "idle" /\ BestLibraryLoaded'
          \/ probePc' = otherwise /\ handle' = Invalid /\ Absent(1)
      <4>1. 1 \in DOMAIN Acceptable(libraryName) /\ BufferOf(WithPrx(libraryName)) = Candidate(s_datafolder, 1)
            /\ \A j \in DOMAIN Acceptable(libraryName) : ~(j < 1)
        BY <2>2, LooksFor
      <4>2. QED
        BY <1>0, <2>0, <4>1, TryStep
    <3>2. CASE probePc' = otherwise /\ handle' = Invalid /\ LastExtension(libraryName) = ".dll"
      <4>1. probePc' = "without .dll" /\ Absent(1)'
        BY <1>0, <2>0, <3>2, AbsentStays DEF otherwise
      <4>2. QED
        BY <1>0, <1>b, <1>k, <3>2, <4>1 DEF ProbeInv
    <3>3. CASE probePc' = otherwise /\ handle' = Invalid /\ LastExtension(libraryName) # ".dll"
      <4>1. DOMAIN Acceptable(libraryName) = {1}
        BY <2>2, <3>3, LooksFor
      <4>2. BestLibraryLoaded'
        BY <1>0, <2>0, <3>3, <4>1, NoneIsBest
      <4>3. probePc' = "idle"
        BY <3>3 DEF otherwise
      <4>4. QED
        BY <1>i, <4>2, <4>3
    <3>4. QED
      BY <1>i, <3>1, <3>2, <3>3
  <2>3. QED
    BY <2>1, <2>2
<1>3. CASE WithoutDll
  <2>0. /\ LoadLibraryWithName(WithPrx(WithoutLast(libraryName)), "idle") /\ Absent(1)
        /\ LastExtension(libraryName) = ".dll"
    BY <1>3 DEF WithoutDll, ProbeInv
  <2>1. /\ DOMAIN Acceptable(libraryName) = {1, 2}
        /\ BufferOf(WithPrx(WithoutLast(libraryName))) = Candidate(s_datafolder, 2)
    BY <2>0, LooksFor
  <2>2. \A j \in DOMAIN Acceptable(libraryName) : j < 2 => Absent(j)
    BY <2>0, <2>1
  <2>3. \/ probePc' = "idle" /\ BestLibraryLoaded'
        \/ probePc' = "idle" /\ handle' = Invalid /\ Absent(2)
    BY <1>0, <2>0, <2>1, <2>2, TryStep
  <2>4. CASE handle' = Invalid /\ Absent(2)
    <3>1. \A j \in DOMAIN Acceptable(libraryName) : Absent(j)
      BY <2>0, <2>1, <2>4
    <3>2. BestLibraryLoaded'
      BY <1>0, <2>4, <3>1, NoneIsBest
    <3>3. QED
      BY <1>i, <2>3, <3>2
  <2>5. QED
    BY <1>i, <2>3, <2>4
<1>4. QED
  BY <1>1, <1>2, <1>3 DEF Probe

\* The data folder may change under a probe: what was absent in the only folder
\* it has seen need not be considered any more.
LEMMA FolderStep ==
  ASSUME ProbeInv, NEW folder, DataFolderBecomes(folder),
         UNCHANGED <<files, probePc, libraryName, handle>>
  PROVE  ProbeInv'
<1>0. \A f, i : Candidate(f, i)' = Candidate(f, i)
  BY DEF Candidate
<1>1. CASE probePc = "idle"
  <2>1. UNCHANGED seen
    BY <1>1 DEF DataFolderBecomes
  <2>2. BestLibraryLoaded'
    BY <1>0, <2>1 DEF ProbeInv, BestLibraryLoaded, Candidate
  <2>3. QED
    BY <1>1, <2>2 DEF ProbeInv
<1>2. CASE probePc # "idle"
  <2>1. seen' = seen \cup {folder} /\ s_datafolder' = folder /\ s_datafolder \in seen /\ handle = Invalid
    BY <1>2 DEF DataFolderBecomes, ProbeInv
  <2>2. ASSUME Absent(1) PROVE Absent(1)'
    <3>1. ASSUME NEW f \in seen', libraryName.absolute \/ seen' = {f}
          PROVE  Candidate(f, 1) \notin files
      <4>1. CASE libraryName.absolute
        BY <2>1, <2>2, <4>1, CandidateAtRoot DEF Absent
      <4>2. CASE seen' = {f}
        BY <2>1, <2>2, <4>2 DEF Absent
      <4>3. QED
        BY <3>1, <4>1, <4>2
    <3>2. QED
      BY <1>0, <3>1 DEF Absent
  <2>3. BestLibraryLoaded'
    BY <1>2 DEF BestLibraryLoaded
  <2>4. UNCHANGED LastExtension(libraryName)
    BY DEF LastExtension
  <2>5. QED
    BY <1>2, <2>1, <2>2, <2>3, <2>4 DEF ProbeInv
<1>3. QED
  BY <1>1, <1>2

\* The invariant holds at the beginning.
LEMMA ProbeInit == LoaderInit => ProbeInv
  BY DEF LoaderInit, ProbeInv, BestLibraryLoaded

\* Every step keeps it.
LEMMA ProbeNext == ProbeInv /\ [LoaderNext]_loaderVars => ProbeInv'
<1> SUFFICES ASSUME ProbeInv, [LoaderNext]_loaderVars PROVE ProbeInv'
  OBVIOUS
<1>1. ASSUME NEW path \in Installed, Install(path) PROVE ProbeInv'
  BY <1>1 DEF Install, ProbeInv, BestLibraryLoaded
<1>2. ASSUME NEW folder \in Folders, SetDataFolder(folder) PROVE ProbeInv'
  BY <1>2, FolderStep DEF SetDataFolder
<1>3. CASE DataFolderSet
  BY <1>3, FolderStep DEF DataFolderSet
<1>4. ASSUME NEW name \in Names, ProbeForLibrary(name) PROVE ProbeInv'
  BY <1>4 DEF ProbeForLibrary, ProbeInv, BestLibraryLoaded
<1>5. CASE Probe
  BY <1>5, ProbeStep
<1>6. CASE UNCHANGED loaderVars
  BY <1>6 DEF loaderVars, ProbeInv, BestLibraryLoaded, Absent, Candidate, LastExtension
<1>7. QED
  BY <1>1, <1>2, <1>3, <1>4, <1>5, <1>6 DEF LoaderNext

\* A probe loads the best match there is, for every set of names and of
\* libraries, and whatever SetDataFolder does meanwhile.
THEOREM ProbeLoadsBest == LoaderSpec => []BestLibraryLoaded
<1>1. ProbeInv => BestLibraryLoaded
  BY DEF ProbeInv
<1>2. QED
  BY ProbeInit, ProbeNext, <1>1, PTL DEF LoaderSpec

-----------------------------------------------------------------------------
(* The start of the platform. *)

\* The mount point is the path before the flag is set, a reader that found the
\* flag set finds the path, and no reader has the path before the flag is set.
MountInv ==
  /\ StartTypeOK
  /\ initPc = "mounted" => g_TemporaryDataMountPoint = MountPath
  /\ g_TemporaryDataIsMounted => g_TemporaryDataMountPoint = MountPath /\ initPc = "done"
  /\ readFlag # {} => g_TemporaryDataIsMounted
  /\ \A r \in Readers : tempPath[r] # Placeholder => tempPath[r] = MountPath /\ g_TemporaryDataIsMounted

\* It holds at the beginning.
LEMMA MountInit == StartInit => MountInv
  BY DEF StartInit, MountInv, StartTypeOK

\* Every step of Initialize and of the readers keeps it.
LEMMA MountNext == MountInv /\ [StartNext]_startVars => MountInv'
<1> SUFFICES ASSUME MountInv, [StartNext]_startVars PROVE MountInv'
  OBVIOUS
<1> USE DEF MountInv, StartTypeOK
<1>1. CASE LoadModule \/ InitializeContent \/ InitializeFails
  BY <1>1 DEF LoadModule, InitializeContent, InitializeFails
<1>2. CASE TemporaryDataMount
  BY <1>2 DEF TemporaryDataMount
<1>3. CASE SetMounted
  BY <1>3 DEF SetMounted, FlagDue
<1>4. ASSUME NEW r \in Readers, GetTempPath(r) PROVE MountInv'
  BY <1>4 DEF GetTempPath
<1>5. ASSUME NEW r \in Readers, ReadMountPoint(r) PROVE MountInv'
  BY <1>5 DEF ReadMountPoint
<1>6. CASE UNCHANGED startVars
  BY <1>6 DEF startVars
<1>7. QED
  BY <1>1, <1>2, <1>3, <1>4, <1>5, <1>6 DEF StartNext, Initialize

\* A step that changes what a reader has gives it the path for the placeholder.
LEMMA SettlesStep ==
  ASSUME MountInv, [StartNext]_startVars, NEW r \in Readers, tempPath'[r] # tempPath[r]
  PROVE  tempPath[r] = Placeholder /\ tempPath'[r] = MountPath
<1>1. PICK q \in Readers : GetTempPath(q) \/ ReadMountPoint(q)
  BY DEF StartNext, Initialize, LoadModule, InitializeContent, InitializeFails, TemporaryDataMount,
         SetMounted, startVars
<1>2. CASE GetTempPath(q)
  \* It gives the placeholder, and before the flag is set every reader has that.
  BY <1>2 DEF GetTempPath, MountInv, StartTypeOK
<1>3. CASE ReadMountPoint(q)
  BY <1>3 DEF ReadMountPoint, MountInv, StartTypeOK
<1>4. QED
  BY <1>1, <1>2, <1>3

\* What GetTempPath returns to a thread changes once at most, from the
\* placeholder to the path that was mounted.
THEOREM TempPathSettlesAlways == StartSpec => TempPathSettles
<1>1. MountInv /\ [StartNext]_startVars =>
        [\A r \in Readers : tempPath'[r] # tempPath[r] =>
           tempPath[r] = Placeholder /\ tempPath'[r] = MountPath]_startVars
  BY SettlesStep
<1>2. QED
  BY MountInit, MountNext, <1>1, PTL DEF StartSpec, TempPathSettles

-----------------------------------------------------------------------------
(* The composition: each component takes its own steps and leaves the other *)
(* two alone.                                                               *)

PlatformInv == WalkInv /\ ProbeInv /\ LoaderTypeOK /\ MountInv

\* The loader stays within its types.
LEMMA LoaderTypes == LoaderTypeOK /\ [LoaderNext]_loaderVars => LoaderTypeOK'
<1> SUFFICES ASSUME LoaderTypeOK, [LoaderNext]_loaderVars PROVE LoaderTypeOK'
  OBVIOUS
<1> USE DEF LoaderTypeOK
<1>1. ASSUME NEW path \in Installed, Install(path) PROVE LoaderTypeOK'
  BY <1>1 DEF Install
<1>2. ASSUME NEW folder \in Folders, SetDataFolder(folder) PROVE LoaderTypeOK'
  BY <1>2 DEF SetDataFolder, DataFolderBecomes
<1>3. CASE DataFolderSet
  BY <1>3 DEF DataFolderSet, DataFolderBecomes
<1>4. ASSUME NEW name \in Names, ProbeForLibrary(name) PROVE LoaderTypeOK'
  BY <1>4 DEF ProbeForLibrary
<1>5. ASSUME NEW name, NEW otherwise \in {"idle", "with .prx", "without .dll"},
             LoadLibraryWithName(name, otherwise)
      PROVE  LoaderTypeOK'
  BY <1>5 DEF LoadLibraryWithName
<1>6. CASE Probe
  BY <1>5, <1>6 DEF Probe, AsGiven, WithSuffix, WithoutDll
<1>7. CASE UNCHANGED loaderVars
  BY <1>7 DEF loaderVars
<1>8. QED
  BY <1>1, <1>2, <1>3, <1>4, <1>6, <1>7 DEF LoaderNext

\* A step of the composition is a step or a stutter of every component.
LEMMA PlatformNext ==
  [Next]_<<running, walkVars, loaderVars, startVars>> =>
    [WalkNext]_walkVars /\ [LoaderNext]_loaderVars /\ [StartNext]_startVars
  BY DEF Next

\* The invariants of the components hold together.
LEMMA PlatformInvariant == Spec => []PlatformInv
<1>1. Init => PlatformInv
  BY WalkStarts, ProbeInit, MountInit DEF Init, PlatformInv, LoaderInit, LoaderTypeOK
<1>2. PlatformInv /\ [Next]_<<running, walkVars, loaderVars, startVars>> => PlatformInv'
  BY PlatformNext, WalkSteps, ProbeNext, LoaderTypes, MountNext DEF PlatformInv
<1>3. QED
  BY <1>1, <1>2, PTL DEF Spec

\* The state of the three components stays within its types: the stack walk's
\* index within the frames, the data folder one that was set, or half copied.
THEOREM PlatformTypeCorrect == Spec => []TypeOK
<1>1. PlatformInv => TypeOK
  BY DEF PlatformInv, WalkInv, MountInv, TypeOK
<1>2. QED
  BY PlatformInvariant, <1>1, PTL

\* The components do not disturb each other: composed, each keeps what it
\* promises alone.
THEOREM PlatformKeepsPromises == Spec => [](WalkedInOrder /\ BestLibraryLoaded) /\ TempPathSettles
<1>1. PlatformInv => WalkedInOrder /\ BestLibraryLoaded
  BY InvInOrder DEF PlatformInv, ProbeInv
<1>2. MountInv /\ [StartNext]_startVars =>
        [\A r \in Readers : tempPath'[r] # tempPath[r] =>
           tempPath[r] = Placeholder /\ tempPath'[r] = MountPath]_startVars
  BY SettlesStep
<1>3. PlatformInv => MountInv
  BY DEF PlatformInv
<1>4. QED
  BY PlatformInvariant, PlatformNext, <1>1, <1>2, <1>3, PTL DEF Spec, TempPathSettles

-----------------------------------------------------------------------------
(* The environment. *)

\* The types, in parts.
ModeTypes ==
  /\ pc \in [Threads -> {"idle", "new", "insert", "getenv", "copy", "assign", "answer"}]
  /\ home \in [Threads -> BOOLEAN]
  /\ arg \in [Threads -> Variables \X (Values \cup {NULL}) \X {0, 1}]

MapTypes ==
  /\ s_env \in {NULL} \cup Map /\ lastSet \in Map
  /\ created \in Nat /\ raced \in BOOLEAN

ReadTypes ==
  /\ pointer \in [Threads -> Values \cup {NULL, Garbage}]
  /\ variable \in [Threads -> Values \cup {NULL, Garbage}]
  /\ pointerMap \in [Threads -> 0 .. created]
  /\ erased \in [Threads -> BOOLEAN]

HomeTypes ==
  /\ homeDirectory \in Values \cup {NULL, Garbage}
  /\ homeAnswer \in Values \cup {"/", Garbage}
  /\ homeRaced \in BOOLEAN

\* A map is made before anything is inserted.
InsertInv == \A t \in Threads : pc[t] = "insert" => s_env # NULL

EnvTypes == ModeTypes /\ MapTypes /\ ReadTypes /\ HomeTypes /\ InsertInv

\* A map without any value is a map.
LEMMA EmptyMapType == EmptyMap \in Map /\ EmptyMap # NULL
<1>1. EmptyMap \in Map
  BY DEF EmptyMap, Map
<1>2. QED
  BY <1>1, EnvironmentAssumption DEF Map

\* The types hold at the beginning.
LEMMA EnvTypesInit == EnvInit => EnvTypes
<1> SUFFICES ASSUME EnvInit PROVE EnvTypes
  OBVIOUS
<1>1. ModeTypes /\ HomeTypes /\ InsertInv
  BY EnvironmentAssumption DEF EnvInit, ModeTypes, HomeTypes, InsertInv, NoCall
<1>2. MapTypes
  BY EmptyMapType DEF EnvInit, MapTypes
<1>3. ReadTypes
  BY DEF EnvInit, ReadTypes
<1>4. QED
  BY <1>1, <1>2, <1>3 DEF EnvTypes

\* What becomes of the pointers when the map changes.
LEMMA PointersType ==
  ASSUME EnvTypes, NEW newMap
  PROVE  PointersInto(newMap) \in [Threads -> Values \cup {NULL, Garbage}]
  BY DEF PointersInto, EnvTypes, ReadTypes

\* A map changes to a map.
LEMMA ChangeTypes ==
  ASSUME EnvTypes, NEW m \in Variables, NEW newMap \in Map, ChangeMap(m, newMap)
  PROVE  /\ s_env' \in Map /\ s_env' # NULL /\ ReadTypes'
         /\ UNCHANGED <<created, raced, homeVars, home>>
<1>1. \A t \in Threads :
        (erased[t] \/ (pc[t] = "copy" /\ arg[t][1] = m /\ newMap[m] = NULL)) \in BOOLEAN
  BY DEF EnvTypes, ReadTypes
<1>2. erased' \in [Threads -> BOOLEAN]
  BY <1>1, Zenon DEF ChangeMap
<1>3. newMap # NULL
  BY EnvironmentAssumption DEF Map
<1>4. QED
  BY <1>2, <1>3, PointersType DEF ChangeMap, EnvTypes, ReadTypes

\* setenv and unsetenv keep the types.
LEMMA WriteTypes ==
  ASSUME EnvTypes, NEW t \in Threads, Write(t)
  PROVE  EnvTypes'
<1>1. ASSUME NEW m \in Variables, NEW v \in Values \cup {NULL}, NEW o \in {0, 1}, Setenv(t, m, v, o)
      PROVE  EnvTypes'
  <2>1. ModeTypes' /\ InsertInv'
    BY <1>1 DEF Setenv, Goto, MapMissing, EnvTypes, ModeTypes, InsertInv
  <2>2. raced' \in BOOLEAN
    BY <1>1, Zenon DEF Setenv
  <2>3. QED
    BY <1>1, <2>1, <2>2 DEF Setenv, homeVars, readVars, EnvTypes, MapTypes, ReadTypes, HomeTypes
<1>2. CASE NewMap(t)
  <2>1. ModeTypes' /\ InsertInv' /\ MapTypes'
    BY <1>2, EmptyMapType DEF NewMap, Goto, EnvTypes, ModeTypes, MapTypes, InsertInv
  <2>2. \A k : k \in 0 .. created => k \in 0 .. created'
    BY <1>2 DEF NewMap, EnvTypes, MapTypes
  <2>3. pointerMap' \in [Threads -> 0 .. created']
    BY <1>2, <2>2 DEF NewMap, readVars, EnvTypes, ReadTypes
  <2>4. ReadTypes' /\ HomeTypes'
    BY <1>2, <2>3 DEF NewMap, homeVars, readVars, EnvTypes, ReadTypes, HomeTypes
  <2>5. QED
    BY <2>1, <2>4 DEF EnvTypes
<1>3. CASE Insert(t)
  <2> DEFINE m == arg[t][1]
             v == arg[t][2]
             newMap == IF v = NULL THEN [s_env EXCEPT ![m] = NULL] ELSE Inserted(m, v)
  <2>1. pc[t] = "insert" /\ m \in Variables /\ v \in Values \cup {NULL} /\ s_env \in Map
    BY <1>3 DEF Insert, EnvTypes, ModeTypes, MapTypes, InsertInv
  <2>2. newMap \in Map
    BY <2>1 DEF Inserted, Map
  <2>3. ChangeMap(m, newMap)
    BY <1>3 DEF Insert
  <2>4. lastSet' \in Map
    BY <1>3, <2>1 DEF Insert, Map, EnvTypes, MapTypes
  <2>5. pc' = [pc EXCEPT ![t] = "idle"] /\ arg' = [arg EXCEPT ![t] = NoCall]
    BY <1>3 DEF Insert, Goto
  <2> HIDE DEF m, v, newMap
  <2>6. s_env' \in Map /\ s_env' # NULL /\ ReadTypes' /\ UNCHANGED <<created, raced, homeVars, home>>
    BY <2>1, <2>2, <2>3, ChangeTypes
  <2>7. QED
    BY <2>4, <2>5, <2>6, EnvironmentAssumption DEF homeVars, NoCall, EnvTypes, ModeTypes, MapTypes, HomeTypes, InsertInv
<1>4. ASSUME NEW m \in Variables, Unsetenv(t, m) PROVE EnvTypes'
  <2> DEFINE newMap == [s_env EXCEPT ![m] = NULL]
  <2>1. newMap \in Map /\ lastSet' \in Map
    BY <1>4 DEF Unsetenv, Map, EnvTypes, MapTypes
  <2>2. ChangeMap(m, newMap) /\ UNCHANGED <<pc, arg>>
    BY <1>4 DEF Unsetenv
  <2> HIDE DEF newMap
  <2>3. s_env' \in Map /\ s_env' # NULL /\ ReadTypes' /\ UNCHANGED <<created, raced, homeVars, home>>
    BY <2>1, <2>2, ChangeTypes
  <2>4. QED
    BY <2>1, <2>2, <2>3 DEF homeVars, EnvTypes, ModeTypes, MapTypes, HomeTypes, InsertInv
<1>5. QED
  BY <1>1, <1>2, <1>3, <1>4 DEF Write

\* The reading calls keep the types.
LEMMA ReadingTypes ==
  ASSUME EnvTypes, NEW t \in Threads, Read(t)
  PROVE  EnvTypes'
<1> USE EnvironmentAssumption
<1>1. ASSUME NEW m \in Variables, GetEnvironmentVariable(t, m) PROVE EnvTypes'
  BY <1>1 DEF GetEnvironmentVariable, Goto, envVars, homeVars, readVars,
              EnvTypes, ModeTypes, MapTypes, ReadTypes, HomeTypes, InsertInv
<1>2. CASE HomeCached(t)
  BY <1>2 DEF HomeCached, HomeKnown, envVars, readVars,
              EnvTypes, ModeTypes, MapTypes, ReadTypes, HomeTypes, InsertInv
<1>3. CASE HomeLookUp(t)
  <2>1. homeRaced' \in BOOLEAN
    BY <1>3, Zenon DEF HomeLookUp
  <2>2. QED
    BY <1>3, <2>1 DEF HomeLookUp, Goto, NoCall, envVars, readVars,
              EnvTypes, ModeTypes, MapTypes, ReadTypes, HomeTypes, InsertInv
<1>4. CASE Getenv(t)
  <2>1. (IF s_env = NULL THEN NULL ELSE s_env[arg[t][1]]) \in Values \cup {NULL}
    BY DEF EnvTypes, ModeTypes, MapTypes, Map
  <2>2. created \in 0 .. created
    BY DEF EnvTypes, MapTypes
  <2>3. ReadTypes'
    BY <1>4, <2>1, <2>2 DEF Getenv, envVars, EnvTypes, ReadTypes
  <2>4. QED
    BY <1>4, <2>3 DEF Getenv, Goto, envVars, homeVars, EnvTypes, ModeTypes, MapTypes, HomeTypes, InsertInv
<1>5. CASE Copy(t)
  <2>1. 0 \in 0 .. created
    BY DEF EnvTypes, MapTypes
  <2>2. ReadTypes'
    BY <1>5, <2>1 DEF Copy, envVars, EnvTypes, ReadTypes
  <2>3. QED
    BY <1>5, <2>2 DEF Copy, Goto, NoCall, envVars, homeVars, EnvTypes, ModeTypes, MapTypes, HomeTypes, InsertInv
<1>6. CASE HomeAssign(t)
  BY <1>6 DEF HomeAssign, Goto, envVars, EnvTypes, ModeTypes, MapTypes, ReadTypes, HomeTypes, InsertInv
<1>7. CASE HomeReturn(t)
  BY <1>7 DEF HomeReturn, Goto, envVars, readVars,
              EnvTypes, ModeTypes, MapTypes, ReadTypes, HomeTypes, InsertInv
<1>8. QED
  BY <1>1, <1>2, <1>3, <1>4, <1>5, <1>6, <1>7 DEF Read

\* Every step keeps the types.
LEMMA EnvTypesStep == EnvTypes /\ [EnvNext]_vars => EnvTypes'
<1>1. EnvTypes /\ UNCHANGED vars => EnvTypes'
  BY DEF vars, envVars, homeVars, readVars, EnvTypes, ModeTypes, MapTypes, ReadTypes, HomeTypes, InsertInv
<1>2. QED
  BY <1>1, WriteTypes, ReadingTypes DEF EnvNext

-----------------------------------------------------------------------------
(* The maps that setenv creates, and what is in them. *)

Creating == {t \in Threads : pc[t] = "new"}

\* Before there is a map nothing has been set; while there is one, every thread
\* that is about to create another was there before the first.
MapInv ==
  /\ s_env = NULL => created = 0 /\ lastSet = EmptyMap
  /\ s_env # NULL => created + Cardinality(Creating) <= Cardinality(Threads)
  /\ ~raced =>
       /\ s_env # NULL => created = 1 /\ Creating = {}
       /\ \A t, u \in Creating : t = u
       /\ \A m \in Variables : lastSet[m] # NULL => s_env # NULL /\ s_env[m] # NULL

\* A finite number of threads is creating a map.
LEMMA CreatingFinite ==
  /\ IsFiniteSet(Creating) /\ Cardinality(Creating) \in Nat
  /\ Cardinality(Threads) \in Nat /\ Cardinality(Creating) <= Cardinality(Threads)
<1>1. Creating \in SUBSET Threads
  BY DEF Creating
<1>2. QED
  BY <1>1, EnvironmentAssumption, FS_Subset, FS_CardinalityType

\* The map stays, nobody new is about to create one, and what is set is set.
LEMMA MapStays ==
  ASSUME EnvTypes, MapInv, UNCHANGED envVars, Creating' = Creating
  PROVE  MapInv'
  BY DEF envVars, MapInv

\* Steps that do not begin or end in "new".
LEMMA CreatingStays ==
  ASSUME EnvTypes, NEW t \in Threads, NEW where, where # "new", pc[t] # "new", Goto(t, where)
  PROVE  Creating' = Creating
  BY DEF Creating, Goto, EnvTypes, ModeTypes

\* The reading calls do not touch the map.
LEMMA ReadingMap ==
  ASSUME EnvTypes, MapInv, NEW t \in Threads, Read(t)
  PROVE  MapInv'
<1>1. UNCHANGED envVars
  BY DEF Read, GetEnvironmentVariable, HomeCached, HomeLookUp, Getenv, Copy, HomeAssign, HomeReturn
<1>2. CASE HomeCached(t)
  <2>1. Creating' = Creating
    BY <1>2 DEF HomeCached, Creating
  <2>2. QED
    BY <1>1, <2>1, MapStays
<1>3. ASSUME ~HomeCached(t) PROVE Creating' = Creating
  <2>1. pc[t] # "new" /\ \E where \in {"getenv", "copy", "idle", "assign", "answer"} : Goto(t, where)
    BY <1>3 DEF Read, GetEnvironmentVariable, HomeCached, HomeLookUp, Getenv, Copy, HomeAssign, HomeReturn
  <2>2. QED
    BY <2>1, CreatingStays
<1>4. QED
  BY <1>1, <1>2, <1>3, MapStays

\* setenv finds the map missing, or there.
LEMMA SetenvMap ==
  ASSUME EnvTypes, MapInv, NEW t \in Threads, NEW m, NEW v, NEW o, Setenv(t, m, v, o)
  PROVE  MapInv'
<1>1. pc[t] = "idle" /\ UNCHANGED <<s_env, created, lastSet>>
  BY DEF Setenv
<1>2. CASE s_env # NULL
  <2>1. Goto(t, "insert")
    BY <1>2 DEF Setenv, MapMissing
  <2>2. Creating' = Creating
    BY <1>1, <2>1, CreatingStays
  <2>3. raced' <=> raced
    BY <1>2 DEF Setenv, MapMissing
  <2>4. QED
    BY <1>1, <2>2, <2>3 DEF MapInv
<1>3. CASE s_env = NULL
  <2>1. Goto(t, "new") /\ (raced' <=> raced \/ \E u \in Threads \ {t} : pc[u] = "new")
    BY <1>3 DEF Setenv, MapMissing
  <2>2. Creating' = Creating \cup {t}
    BY <2>1 DEF Goto, Creating, EnvTypes, ModeTypes
  <2>3. ~raced' => ~raced /\ Creating = {}
    BY <1>1, <2>1 DEF Creating
  <2>4. QED
    BY <1>1, <1>3, <2>2, <2>3 DEF MapInv
<1>4. QED
  BY <1>2, <1>3

\* A map is created: of those that are about to create one, one is through.
LEMMA NewMapMap ==
  ASSUME EnvTypes, MapInv, NEW t \in Threads, NewMap(t)
  PROVE  MapInv'
<1>1. /\ t \in Creating /\ s_env' = EmptyMap /\ created' = created + 1 /\ created \in Nat
      /\ UNCHANGED <<raced, lastSet>>
  BY DEF NewMap, Creating, EnvTypes, MapTypes
<1>2. Creating' = Creating \ {t}
  BY DEF NewMap, Goto, Creating, EnvTypes, ModeTypes
<1>3. Cardinality(Creating') = Cardinality(Creating) - 1
  BY <1>1, <1>2, CreatingFinite, FS_RemoveElement
<1>4. created + Cardinality(Creating) <= Cardinality(Threads)
  BY CreatingFinite DEF MapInv
<1>5. created' + Cardinality(Creating') <= Cardinality(Threads)
  BY <1>1, <1>3, <1>4, CreatingFinite
<1>6. ASSUME ~raced
      PROVE  created' = 1 /\ Creating' = {} /\ \A m \in Variables : lastSet[m] = NULL
  <2>1. s_env = NULL
    BY <1>1, <1>6 DEF MapInv
  <2>2. QED
    BY <1>1, <1>2, <1>6, <2>1 DEF MapInv, EmptyMap
<1>7. QED
  BY <1>1, <1>5, <1>6, EmptyMapType DEF MapInv

\* A value is set or erased.
LEMMA ChangeMapMap ==
  ASSUME EnvTypes, MapInv, s_env # NULL, s_env' # NULL, UNCHANGED <<created, raced>>, Creating' = Creating,
         \A m \in Variables : lastSet'[m] # NULL => s_env'[m] # NULL \/ (s_env[m] = NULL /\ lastSet[m] # NULL)
  PROVE  MapInv'
  BY DEF MapInv

\* Every step keeps MapInv.
LEMMA MapStep == EnvTypes /\ MapInv /\ [EnvNext]_vars => MapInv'
<1> SUFFICES ASSUME EnvTypes, MapInv, [EnvNext]_vars PROVE MapInv'
  OBVIOUS
<1>1. ASSUME NEW t \in Threads, Insert(t) PROVE MapInv'
  <2> DEFINE m == arg[t][1]
             v == arg[t][2]
  <2>1. pc[t] = "insert" /\ Goto(t, "idle") /\ s_env \in Map /\ s_env # NULL /\ lastSet \in Map
        /\ m \in Variables /\ v \in Values \cup {NULL}
    BY <1>1 DEF Insert, EnvTypes, ModeTypes, MapTypes, InsertInv
  <2>2. Creating' = Creating
    BY <2>1, CreatingStays
  <2>3. s_env' = IF v = NULL THEN [s_env EXCEPT ![m] = NULL] ELSE Inserted(m, v)
    BY <1>1 DEF Insert, ChangeMap
  <2>4. lastSet' = lastSet \/ lastSet' = [lastSet EXCEPT ![m] = v]
    BY <1>1 DEF Insert
  <2>5. lastSet' = lastSet => v # NULL \/ lastSet[m] = NULL
    BY <1>1, <2>1 DEF Insert, Map
  <2>6. s_env'[m] # NULL <=> v # NULL
    BY <2>1, <2>3 DEF Inserted, Map
  <2>7. \A k \in Variables : k # m => s_env'[k] = s_env[k] /\ lastSet'[k] = lastSet[k]
    BY <2>1, <2>3, <2>4 DEF Inserted, Map
  <2>8. lastSet'[m] # NULL => s_env'[m] # NULL
    BY <2>1, <2>4, <2>5, <2>6 DEF Map
  <2>9. s_env' # NULL /\ UNCHANGED <<created, raced>>
    <3>1. s_env' \in Map
      BY <2>1, <2>3 DEF Inserted, Map
    <3>2. QED
      BY <1>1, <3>1, EnvironmentAssumption DEF Insert, ChangeMap, Map
  <2> HIDE DEF m, v
  <2>10. QED
    BY <2>1, <2>2, <2>7, <2>8, <2>9, ChangeMapMap
<1>2. ASSUME NEW t \in Threads, NEW m \in Variables, Unsetenv(t, m) PROVE MapInv'
  <2>1. s_env \in Map /\ s_env # NULL /\ lastSet \in Map
    BY <1>2 DEF Unsetenv, EnvTypes, MapTypes
  <2>2. /\ s_env' = [s_env EXCEPT ![m] = NULL] /\ lastSet' = [lastSet EXCEPT ![m] = NULL]
        /\ UNCHANGED <<created, raced, pc>>
    BY <1>2 DEF Unsetenv, ChangeMap
  <2>3. s_env' # NULL /\ Creating' = Creating
    BY <2>1, <2>2, EnvironmentAssumption DEF Creating, Map
  <2>4. \A k \in Variables : lastSet'[k] # NULL => s_env'[k] # NULL \/ (s_env[k] = NULL /\ lastSet[k] # NULL)
    BY <2>1, <2>2 DEF Map
  <2>5. QED
    BY <2>1, <2>2, <2>3, <2>4, ChangeMapMap
<1>3. CASE UNCHANGED vars
  BY <1>3, MapStays DEF vars, Creating
<1>4. QED
  BY <1>1, <1>2, <1>3, SetenvMap, NewMapMap, ReadingMap DEF EnvNext, Write

-----------------------------------------------------------------------------
(* The pointers that getenv returns. *)

\* A pointer into the present map shows the present value of its variable, and
\* shows nothing of use only if that was erased.
PointerInv ==
  \A t \in Threads :
    pointer[t] # NULL =>
      /\ pc[t] = "copy"
      /\ pointer[t] = Garbage => erased[t]
      /\ pointer[t] # Garbage /\ pointerMap[t] = created => s_env # NULL /\ s_env[arg[t][1]] = pointer[t]

\* A change of the map keeps it: an insertion leaves a value that is there
\* alone, so that only an erase can disturb a pointer.
LEMMA ChangePointers ==
  ASSUME EnvTypes, PointerInv, s_env \in Map, NEW m \in Variables, NEW newMap \in Map, ChangeMap(m, newMap),
         \A k \in Variables : newMap[k] # s_env[k] => k = m /\ (s_env[m] = NULL \/ newMap[m] = NULL),
         NEW u \in Threads, pointer'[u] # NULL, UNCHANGED <<pc[u], arg[u]>>
  PROVE  /\ pc'[u] = "copy"
         /\ pointer'[u] = Garbage => erased'[u]
         /\ pointer'[u] # Garbage /\ pointerMap'[u] = created' => s_env' # NULL /\ s_env'[arg'[u][1]] = pointer'[u]
<1> DEFINE k == arg[u][1]
<1>1. k \in Variables
  BY DEF EnvTypes, ModeTypes
<1>2. /\ s_env' = newMap /\ UNCHANGED <<created, pointerMap>> /\ newMap # NULL
      /\ pointer'[u] = IF pointer[u] # NULL /\ pointerMap[u] = created /\ newMap[k] # s_env[k]
                       THEN Garbage ELSE pointer[u]
      /\ erased'[u] <=> erased[u] \/ (pc[u] = "copy" /\ k = m /\ newMap[m] = NULL)
  BY EnvironmentAssumption DEF ChangeMap, PointersInto, Map
<1>3. pointer[u] # NULL
  BY <1>2
<1>4. /\ pc[u] = "copy" /\ (pointer[u] = Garbage => erased[u])
      /\ pointer[u] # Garbage /\ pointerMap[u] = created => s_env[k] = pointer[u]
  BY <1>3 DEF PointerInv
<1>5. CASE pointerMap[u] = created /\ newMap[k] # s_env[k]
  <2>1. k = m /\ (s_env[m] = NULL \/ newMap[m] = NULL)
    BY <1>1, <1>5
  <2>2. erased'[u]
    BY <1>2, <1>3, <1>4, <1>5, <2>1
  <2>3. QED
    BY <1>2, <1>3, <1>4, <1>5, <2>2
<1>6. CASE ~(pointerMap[u] = created /\ newMap[k] # s_env[k])
  <2>1. pointer'[u] = pointer[u]
    BY <1>2, <1>6
  <2> HIDE DEF k
  <2>2. pointer'[u] # Garbage /\ pointerMap'[u] = created' => s_env'[k] = pointer'[u]
    BY <1>2, <1>4, <1>6, <2>1
  <2>3. QED
    BY <1>2, <1>4, <2>1, <2>2 DEF k
<1>7. QED
  BY <1>5, <1>6

\* setenv and unsetenv keep the pointers of all threads.
LEMMA WritePointers ==
  ASSUME EnvTypes, PointerInv, NEW t \in Threads, Write(t)
  PROVE  PointerInv'
<1>1. ASSUME NEW m \in Variables, NEW v \in Values \cup {NULL}, NEW o \in {0, 1}, Setenv(t, m, v, o)
      PROVE  PointerInv'
  BY <1>1 DEF Setenv, Goto, readVars, PointerInv, EnvTypes, ModeTypes
<1>2. CASE NewMap(t)
  <2>1. \A u \in Threads : pointerMap'[u] # created'
    BY <1>2 DEF NewMap, readVars, EnvTypes, MapTypes, ReadTypes
  <2>2. \A u \in Threads : pc[u] = "copy" => pc'[u] = "copy"
    BY <1>2 DEF NewMap, Goto, EnvTypes, ModeTypes
  <2>3. QED
    BY <1>2, <2>1, <2>2 DEF NewMap, readVars, PointerInv
<1>3. CASE Insert(t)
  <2> DEFINE m == arg[t][1]
             v == arg[t][2]
             newMap == IF v = NULL THEN [s_env EXCEPT ![m] = NULL] ELSE Inserted(m, v)
  <2>1. pc[t] = "insert" /\ m \in Variables /\ v \in Values \cup {NULL} /\ s_env \in Map
    BY <1>3 DEF Insert, EnvTypes, ModeTypes, MapTypes, InsertInv
  <2>2. newMap \in Map /\ ChangeMap(m, newMap)
    BY <1>3, <2>1 DEF Insert, Inserted, Map
  <2>3. \A k \in Variables : newMap[k] # s_env[k] => k = m /\ (s_env[m] = NULL \/ newMap[m] = NULL)
    BY <2>1 DEF Inserted, Map
  <2>4. \A u \in Threads : pointer'[u] # NULL => UNCHANGED <<pc[u], arg[u]>>
    <3>1. pointer[t] = NULL
      BY <2>1 DEF PointerInv
    <3>2. pointer'[t] = NULL
      <4>1. ASSUME NEW N PROVE PointersInto(N)[t] = NULL
        BY <3>1 DEF PointersInto
      <4>2. \E N : pointer' = PointersInto(N)
        BY <2>2 DEF ChangeMap
      <4>3. QED
        BY <4>1, <4>2
    <3>3. \A u \in Threads \ {t} : UNCHANGED <<pc[u], arg[u]>>
      BY <1>3 DEF Insert, Goto, EnvTypes, ModeTypes
    <3>4. QED
      BY <3>2, <3>3
  <2> HIDE DEF m, v, newMap
  <2>5. QED
    BY <2>1, <2>2, <2>3, <2>4, ChangePointers DEF PointerInv
<1>4. ASSUME NEW m \in Variables, Unsetenv(t, m) PROVE PointerInv'
  <2> DEFINE newMap == [s_env EXCEPT ![m] = NULL]
  <2>1. s_env \in Map /\ newMap \in Map /\ ChangeMap(m, newMap) /\ UNCHANGED <<pc, arg>>
    BY <1>4 DEF Unsetenv, Map, EnvTypes, MapTypes
  <2>2. \A k \in Variables : newMap[k] # s_env[k] => k = m /\ (s_env[m] = NULL \/ newMap[m] = NULL)
    BY <2>1 DEF Map
  <2> HIDE DEF newMap
  <2>3. QED
    BY <2>1, <2>2, ChangePointers DEF PointerInv
<1>5. QED
  BY <1>1, <1>2, <1>3, <1>4 DEF Write

\* The reading calls keep them too: getenv gets a pointer and Copy forgets it.
LEMMA ReadingPointers ==
  ASSUME EnvTypes, PointerInv, NEW t \in Threads, Read(t)
  PROVE  PointerInv'
<1>1. CASE HomeCached(t)
  BY <1>1 DEF HomeCached, envVars, readVars, PointerInv
<1>2. CASE (\E m \in Variables : GetEnvironmentVariable(t, m)) \/ HomeLookUp(t)
  BY <1>2 DEF GetEnvironmentVariable, HomeLookUp, Goto, envVars, readVars, PointerInv, EnvTypes, ModeTypes
<1>3. CASE Getenv(t)
  <2>1. pointer'[t] # NULL => pointer'[t] # Garbage /\ s_env # NULL /\ s_env[arg[t][1]] = pointer'[t]
    BY <1>3, EnvironmentAssumption DEF Getenv, EnvTypes, ModeTypes, MapTypes, ReadTypes, Map
  <2>2. pc'[t] = "copy" /\ UNCHANGED <<s_env, created, arg>>
    BY <1>3 DEF Getenv, Goto, envVars, EnvTypes, ModeTypes
  <2>3. \A u \in Threads \ {t} : UNCHANGED <<pc[u], pointer[u], pointerMap[u], erased[u]>>
    BY <1>3 DEF Getenv, Goto, EnvTypes, ModeTypes, ReadTypes
  <2>4. ASSUME NEW u \in Threads \ {t}, pointer'[u] # NULL
        PROVE  /\ pc'[u] = "copy"
               /\ pointer'[u] = Garbage => erased'[u]
               /\ pointer'[u] # Garbage /\ pointerMap'[u] = created' => s_env' # NULL /\ s_env'[arg'[u][1]] = pointer'[u]
    BY <2>2, <2>3, <2>4 DEF PointerInv
  <2>5. QED
    BY <2>1, <2>2, <2>4 DEF PointerInv
<1>4. CASE Copy(t)
  <2>1. pointer'[t] = NULL
    BY <1>4 DEF Copy, EnvTypes, ReadTypes
  <2>2. UNCHANGED <<s_env, created>>
    BY <1>4 DEF Copy, envVars
  <2>3. \A u \in Threads \ {t} : UNCHANGED <<pc[u], pointer[u], pointerMap[u], erased[u], arg[u]>>
    BY <1>4 DEF Copy, Goto, EnvTypes, ModeTypes, ReadTypes
  <2>4. QED
    BY <2>1, <2>2, <2>3 DEF PointerInv
<1>5. CASE HomeAssign(t) \/ HomeReturn(t)
  BY <1>5 DEF HomeAssign, HomeReturn, Goto, envVars, readVars, PointerInv, EnvTypes, ModeTypes
<1>6. QED
  BY <1>1, <1>2, <1>3, <1>4, <1>5 DEF Read

\* Every step keeps the pointers.
LEMMA PointerStep == EnvTypes /\ PointerInv /\ [EnvNext]_vars => PointerInv'
<1>1. PointerInv /\ UNCHANGED vars => PointerInv'
  BY DEF vars, envVars, readVars, PointerInv
<1>2. QED
  BY <1>1, WritePointers, ReadingPointers DEF EnvNext

-----------------------------------------------------------------------------
(* The home directory. *)

\* Who is in GetHomeDirectory, and what it has answered.
HomeInv ==
  /\ \A t \in Threads : home[t] => pc[t] \in {"getenv", "copy", "assign", "answer"}
  /\ \A t \in Threads : pc[t] \in {"assign", "answer"} => home[t]
  /\ ~homeRaced =>
       /\ \A t, u \in Threads : home[t] /\ home[u] => t = u
       /\ \A t \in Threads : home[t] /\ pc[t] # "answer" => homeDirectory = NULL
       /\ homeAnswer # "/" => homeDirectory = homeAnswer /\ homeAnswer # NULL

\* Calls of other functions do not touch what GetHomeDirectory keeps.
LEMMA HomeElsewhere ==
  ASSUME EnvTypes, HomeInv, NEW t \in Threads, UNCHANGED <<homeVars, home>>,
         NEW where, Goto(t, where), where # "assign", where # "answer",
         home[t] => pc[t] # "answer" /\ where \in {"getenv", "copy"}
  PROVE  HomeInv'
<1>1. \A u \in Threads : u # t => pc'[u] = pc[u]
  BY DEF Goto, EnvTypes, ModeTypes
<1>2. pc'[t] = where
  BY DEF Goto, EnvTypes, ModeTypes
<1>3. QED
  BY <1>1, <1>2 DEF homeVars, HomeInv

\* Every step keeps it.
LEMMA HomeStep == EnvTypes /\ HomeInv /\ [EnvNext]_vars => HomeInv'
<1> SUFFICES ASSUME EnvTypes, HomeInv, [EnvNext]_vars PROVE HomeInv'
  OBVIOUS
<1>1. ASSUME NEW t \in Threads, Write(t) PROVE HomeInv'
  <2>1. /\ UNCHANGED <<homeVars, home>> /\ pc[t] \notin {"getenv", "copy", "assign", "answer"}
        /\ UNCHANGED pc \/ \E where \in {"new", "insert", "idle"} : Goto(t, where)
    BY <1>1 DEF Write, Setenv, Unsetenv, NewMap, Insert, ChangeMap, readVars
  <2>2. CASE UNCHANGED <<pc, homeVars, home>>
    BY <2>2 DEF homeVars, HomeInv
  <2>3. ASSUME NEW where \in {"new", "insert", "idle"}, Goto(t, where) PROVE HomeInv'
    <3>1. ~home[t]
      BY <2>1, <2>3 DEF HomeInv
    <3>2. QED
      BY <2>1, <2>3, <3>1, HomeElsewhere
  <2>4. QED
    BY <2>1, <2>2, <2>3
<1>2. ASSUME NEW t \in Threads, Read(t) PROVE HomeInv'
  <2>1. CASE (\E m \in Variables : GetEnvironmentVariable(t, m)) \/ Getenv(t)
    <3>1. /\ UNCHANGED <<homeVars, home>> /\ pc[t] # "answer"
          /\ home[t] => pc[t] = "getenv"
          /\ \E where \in {"getenv", "copy"} : Goto(t, where)
      BY <2>1 DEF GetEnvironmentVariable, Getenv, HomeInv
    <3>2. QED
      BY <3>1, HomeElsewhere
  <2>2. CASE Copy(t)
    <3>1. /\ UNCHANGED <<homeVars, home>> /\ pc[t] = "copy"
          /\ pc'[t] = IF home[t] THEN "assign" ELSE "idle"
          /\ \A u \in Threads : u # t => pc'[u] = pc[u]
      BY <2>2 DEF Copy, Goto, EnvTypes, ModeTypes
    <3>2. QED
      BY <3>1 DEF homeVars, HomeInv
  <2>3. CASE HomeCached(t)
    BY <2>3 DEF HomeCached, HomeKnown, HomeInv
  <2>4. CASE HomeLookUp(t)
    <3>1. /\ pc[t] = "idle" /\ homeDirectory = NULL /\ UNCHANGED <<homeDirectory, homeAnswer>>
          /\ pc'[t] = "getenv" /\ home'[t]
          /\ \A u \in Threads : u # t => pc'[u] = pc[u] /\ (home'[u] <=> home[u])
      BY <2>4 DEF HomeLookUp, HomeKnown, Goto, EnvTypes, ModeTypes
    <3>2. homeRaced' <=> homeRaced \/ \E u \in Threads : home[u]
      BY <2>4 DEF HomeLookUp
    <3>3. QED
      BY <3>1, <3>2 DEF HomeInv
  <2>5. CASE HomeAssign(t)
    <3>1. /\ pc[t] = "assign" /\ pc'[t] = "answer" /\ UNCHANGED <<home, homeAnswer, homeRaced>>
          /\ \A u \in Threads : u # t => pc'[u] = pc[u]
      BY <2>5 DEF HomeAssign, Goto, EnvTypes, ModeTypes
    <3>2. home[t] /\ (~homeRaced => homeDirectory = NULL /\ homeAnswer = "/")
      BY <3>1 DEF HomeInv
    <3>3. QED
      BY <3>1, <3>2 DEF HomeInv
  <2>6. CASE HomeReturn(t)
    <3>1. /\ pc[t] = "answer" /\ pc'[t] = "idle" /\ ~home'[t] /\ UNCHANGED <<homeDirectory, homeRaced>>
          /\ homeAnswer' = IF homeDirectory = NULL THEN "/" ELSE homeDirectory
          /\ \A u \in Threads : u # t => pc'[u] = pc[u] /\ (home'[u] <=> home[u])
      BY <2>6 DEF HomeReturn, Goto, EnvTypes, ModeTypes
    <3>2. QED
      BY <3>1 DEF HomeInv
  <2>7. QED
    BY <1>2, <2>1, <2>2, <2>3, <2>4, <2>5, <2>6 DEF Read
<1>3. CASE UNCHANGED vars
  BY <1>3 DEF vars, homeVars, HomeInv
<1>4. QED
  BY <1>1, <1>2, <1>3 DEF EnvNext

-----------------------------------------------------------------------------
(* What the environment promises. *)

\* The invariant holds of every behaviour.
LEMMA EnvInvariant == EnvSpec => [](EnvTypes /\ MapInv /\ PointerInv /\ HomeInv)
<1>1. EnvInit => MapInv
  <2> SUFFICES ASSUME EnvInit PROVE MapInv
    OBVIOUS
  <2>1. Creating = {}
    BY DEF EnvInit, Creating
  <2>2. QED
    BY <2>1 DEF EnvInit, MapInv, EmptyMap
<1>2. EnvInit => PointerInv /\ HomeInv
  BY DEF EnvInit, PointerInv, HomeInv
<1>3. QED
  BY EnvTypesInit, EnvTypesStep, MapStep, PointerStep, HomeStep, <1>1, <1>2, PTL DEF EnvSpec

\* The types of the environment's state; setenv creates at most one map per
\* thread, for any number of threads.
THEOREM EnvTypeCorrect == EnvSpec => []EnvTypeOK
<1>1. EnvTypes /\ MapInv => EnvTypeOK
  <2> SUFFICES ASSUME EnvTypes, MapInv PROVE EnvTypeOK
    OBVIOUS
  <2>1. created \in 0 .. Cardinality(Threads)
    BY CreatingFinite DEF MapInv, EnvTypes, MapTypes
  <2>2. QED
    BY <2>1 DEF EnvTypes, ModeTypes, MapTypes, ReadTypes, HomeTypes, EnvTypeOK
<1>2. QED
  BY EnvInvariant, <1>1, PTL

\* A pointer that getenv returned is good until it is copied, unless its
\* variable was erased.
THEOREM PointersGood == EnvSpec => []PointerValidUntilErased
<1>1. EnvTypes /\ PointerInv => PointerValidUntilErased
  BY EnvironmentAssumption DEF PointerInv, PointerValidUntilErased
<1>2. QED
  BY EnvInvariant, <1>1, PTL

\* A variable that was set is there, unless two threads found the map missing
\* together.
THEOREM VariablesKept == EnvSpec => []VariablesLostOnlyByRace
<1>1. EnvTypes /\ MapInv => VariablesLostOnlyByRace
  BY DEF EnvTypes, MapTypes, MapInv, VariablesLostOnlyByRace
<1>2. QED
  BY EnvInvariant, <1>1, PTL

\* The answer of GetHomeDirectory does not change once it is a directory,
\* unless two threads looked it up together.
THEOREM HomeAnswerStays == EnvSpec => HomeStays
<1>1. EnvTypes /\ HomeInv /\ HomeInv' /\ [EnvNext]_vars =>
        [homeAnswer # "/" /\ ~homeRaced' => homeAnswer' = homeAnswer]_vars
  <2> SUFFICES ASSUME HomeInv, NEW t \in Threads, Write(t) \/ Read(t), homeAnswer # "/", ~homeRaced'
               PROVE  homeAnswer' = homeAnswer
    BY DEF EnvNext
  <2>1. CASE HomeCached(t) \/ HomeReturn(t)
    BY <2>1 DEF HomeCached, HomeKnown, HomeReturn, HomeInv
  <2>2. CASE ~(HomeCached(t) \/ HomeReturn(t))
    BY <2>2 DEF Write, Setenv, Unsetenv, NewMap, Insert, ChangeMap, Read, GetEnvironmentVariable, HomeLookUp,
                Getenv, Copy, HomeAssign, homeVars
  <2>3. QED
    BY <2>1, <2>2
<1>2. QED
  BY EnvInvariant, <1>1, PTL DEF EnvSpec, HomeStays
=============================================================================
