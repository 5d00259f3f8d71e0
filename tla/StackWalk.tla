------------------------------ MODULE StackWalk ------------------------------
(***************************************************************************)
(* os::StackTrace::WalkStackNative in both builds the source allows: with  *)
(* the newer backtrace of the platform, a linked list of frames of         *)
(* which only those of the user's assemblies are passed on, and with the   *)
(* older one, an array passed on as it is.  Frame 1 of a stack is the one  *)
(* called last (index 0 of the code).  The address the callback receives   *)
(* stands for the frame.  Names carry the prefix Walk where another module *)
(* could have the same.                                                    *)
(***************************************************************************)
EXTENDS Integers, Sequences

CONSTANTS
  UserAssemblies, \* the module name that the walk looks for
  OtherModule,    \* any other module name
  MaxFrames       \* bound: the height of a stack; what the older array holds

ASSUME WalkAssumption == UserAssemblies # OtherModule /\ MaxFrames \in Nat

Stacks == UNION {[1 .. n -> {UserAssemblies, OtherModule}] : n \in 0 .. MaxFrames}
WalkOrder == {"kFirstCalledToLastCalled", "kLastCalledToFirstCalled"}

VARIABLES
  USE_NEW_BACKTRACE, \* which branch was compiled
  frames,            \* the module name of each frame of the thread's stack
  walkOrder,         \* the order asked for
  walkPc,            \* "idle", "size", "backtrace", "walk"
  frameList,         \* whether the list of frames is allocated
  next,              \* the frame the loop looks at next
  visited,           \* the frames the callback received, in order
  stopped,           \* whether the callback returned false
  noBacktrace        \* history: the last walk had no backtrace

walkVars == <<USE_NEW_BACKTRACE, frames, walkOrder, walkPc, frameList, next, visited,
             stopped, noBacktrace>>

WalkTypeOK ==
  /\ USE_NEW_BACKTRACE \in BOOLEAN /\ frameList \in BOOLEAN /\ stopped \in BOOLEAN
  /\ noBacktrace \in BOOLEAN
  /\ frames \in Stacks /\ walkOrder \in WalkOrder
  /\ walkPc \in {"idle", "size", "backtrace", "walk"}
  /\ next \in 0 .. MaxFrames + 1
  /\ visited \in Seq(1 .. MaxFrames)

WalkInit ==
  /\ USE_NEW_BACKTRACE \in BOOLEAN
  /\ frames = <<>> /\ walkOrder = "kFirstCalledToLastCalled" /\ walkPc = "idle"
  /\ frameList = FALSE /\ next = 0 /\ visited = <<>> /\ stopped = FALSE
  /\ noBacktrace = FALSE

Reversed == walkOrder = "kFirstCalledToLastCalled"

\* Mutant: the older loop runs while i >= 0.
LastOfReversedZero == IF USE_NEW_BACKTRACE THEN 2 ELSE 0
\* The newer loop runs while i > 0, the older one while i-- was not zero: the
\* first leaves out the frame called last.
LastOfReversed == IF USE_NEW_BACKTRACE THEN 2 ELSE 1

\* Mutant: the forward loop ends like the reversed one, a frame early.
InBoundsShort(i) == IF Reversed THEN i >= LastOfReversed ELSE i < Len(frames)
InBounds(i) == IF Reversed THEN i >= LastOfReversed ELSE i <= Len(frames)

PassedOn(i) == USE_NEW_BACKTRACE => frames[i] = UserAssemblies

WalkStackNative(stack, order) ==
  /\ walkPc = "idle" /\ walkPc' = IF USE_NEW_BACKTRACE THEN "size" ELSE "backtrace"
  /\ frames' = stack /\ walkOrder' = order
  /\ visited' = <<>> /\ stopped' = FALSE /\ noBacktrace' = FALSE
  /\ UNCHANGED <<USE_NEW_BACKTRACE, frameList, next>>

\* sceLibcBacktraceGetBufferSize and calloc.
AllocateFrames ==
  /\ walkPc = "size" /\ walkPc' = "backtrace" /\ frameList' = TRUE
  /\ UNCHANGED <<USE_NEW_BACKTRACE, frames, walkOrder, next, visited, stopped, noBacktrace>>

Freed == frameList' = FALSE

\* The walk is over.
WalkReturns == walkPc' = "idle" /\ next' = 0

\* The size, the allocation or the backtrace cannot be had.
BacktraceFails ==
  /\ walkPc \in {"size", "backtrace"}
  /\ WalkReturns /\ Freed /\ noBacktrace' = TRUE
  /\ UNCHANGED <<USE_NEW_BACKTRACE, frames, walkOrder, visited, stopped>>

Backtrace ==
  /\ walkPc = "backtrace" /\ walkPc' = "walk"
  /\ next' = IF Reversed THEN Len(frames) ELSE 1
  /\ UNCHANGED <<USE_NEW_BACKTRACE, frames, walkOrder, frameList, visited, stopped, noBacktrace>>

\* One round of the loop; the callback may end it.
VisitFrame ==
  /\ walkPc = "walk" /\ InBounds(next)
  /\ IF PassedOn(next)
     THEN visited' = Append(visited, next) /\ stopped' \in BOOLEAN
     ELSE UNCHANGED <<visited, stopped>>
  /\ IF stopped'
     THEN WalkReturns /\ Freed
     ELSE next' = (IF Reversed THEN next - 1 ELSE next + 1) /\ UNCHANGED <<walkPc, frameList>>
  /\ UNCHANGED <<USE_NEW_BACKTRACE, frames, walkOrder, noBacktrace>>

WalkEnds ==
  /\ walkPc = "walk" /\ ~InBounds(next)
  /\ WalkReturns /\ Freed
  /\ UNCHANGED <<USE_NEW_BACKTRACE, frames, walkOrder, visited, stopped, noBacktrace>>

WalkNext ==
  \/ \E stack \in Stacks, order \in WalkOrder : WalkStackNative(stack, order)
  \/ AllocateFrames \/ BacktraceFails \/ Backtrace \/ VisitFrame \/ WalkEnds

WalkSpec == WalkInit /\ [][WalkNext]_walkVars
-----------------------------------------------------------------------------

\* A walk that had its backtrace passes on each frame it is looking for once, in
\* the order asked for, and none after the callback said to stop; only the
\* newer build leaves out the frame called last when the order is reversed.
\* However the walk ended, its list of frames is freed.
WalkedInOrder ==
  walkPc = "idle" =>
    /\ ~frameList
    /\ \A k, l \in DOMAIN visited :
         k < l => IF Reversed THEN visited[k] > visited[l] ELSE visited[k] < visited[l]
    /\ \A k \in DOMAIN visited : PassedOn(visited[k])
    /\ noBacktrace \/ stopped \/
         {i \in DOMAIN frames : PassedOn(i)}
           \ (IF Reversed /\ USE_NEW_BACKTRACE THEN {1} ELSE {}) = {visited[k] : k \in DOMAIN visited}
    /\ stopped => \A i \in DOMAIN frames : PassedOn(i) =>
         \/ \E k \in DOMAIN visited : visited[k] = i
         \/ IF Reversed THEN i < visited[Len(visited)] ELSE i > visited[Len(visited)]
=============================================================================
