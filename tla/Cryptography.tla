---------------------------- MODULE Cryptography ----------------------------
(***************************************************************************)
(* os::Cryptography: one generator, created by the first Open and seeded   *)
(* again by every later one, from which threads without a lock fill        *)
(* buffers: whole blocks straight into the buffer, the rest by way of a    *)
(* block on the stack.                                                     *)
(*                                                                         *)
(* The kernel's identifiers are numbered as it gives them out.  What their *)
(* fields are merged to, 32 bits, is the constant function Folded: any     *)
(* one, since different identifiers may well be merged to the same seed.   *)
(* A generator gives the stream of its seed: byte b of the stream of s is  *)
(* <<s, b>>.  A context that was allocated and not seeded gives that of    *)
(* Unseeded, the label of no seed.  A CRYPTOFILL reads the state of the    *)
(* generator and writes it back when it is done; if the state changed in   *)
(* between, either may remain.                                             *)
(***************************************************************************)
EXTENDS Integers

CONSTANTS
  Threads,      \* the threads; a context has the name of the thread that allocated it
  NULL,         \* no context
  WordSize,     \* the bytes of a SceUInt32
  BlockWords,   \* 4 * SCE_SFMT607_ARRAY_SIZE: the words of the smallest fill
  Lengths,      \* the lengths callers ask for
  MaxOpens,     \* bound: how many identifiers the kernel gives out
  MaxFills,     \* bound: how many buffers are filled
  Folded        \* of each identifier: the 32-bit value its fields are merged to

Unseeded == 0

ASSUME CryptographyAssumption ==
  /\ NULL \notin Threads
  /\ WordSize \in Nat \ {0} /\ BlockWords \in Nat \ {0}
  /\ Lengths \subseteq Nat
  /\ MaxOpens \in Nat /\ MaxFills \in Nat
  /\ Folded \in [1 .. MaxOpens -> Nat \ {Unseeded}]

VARIABLES
  s_cryptoProvider, \* the generator all threads share
  generator,        \* of each context: its seed, and how many words it gave
  pc,               \* of each thread: "idle"; in Open "test", "allocate", "init"; in Fill "whole", "rest"
  seed,             \* of each thread: what its Open is to seed with
  provider,         \* of each thread: what GetCryptographyProvider returned
  length,           \* of each thread: the bytes its Fill has left to fill
  written,          \* of each thread: how many bytes its Fill has written
  drawing,          \* of each thread: the state its CRYPTOFILL found
  answer,           \* of each thread: what its last call returned
  opens, fills,     \* the counters of the bounds
  asked,            \* history: the length each thread's Fill was called with
  incomplete,       \* history: a Fill returned true before every byte was written
  opened,           \* history: the threads of which some Open seeded the provider
  trusted,          \* history: the threads that had opened when they got their provider
  allocations,      \* history: how many contexts were allocated
  given,            \* history: the bytes that were written to buffers
  repeated,         \* history: the seeds of bytes that were written twice
  torn              \* history: the seeds of generators that calls used at once

openVars == <<s_cryptoProvider, seed, opens, opened, allocations>>
getVars  == <<provider, trusted>>
fillVars == <<length, written, drawing, fills, asked, incomplete, given, repeated, torn>>
vars == <<openVars, getVars, fillVars, generator, pc, answer>>

Seeds == {Unseeded} \cup {Folded[i] : i \in 1 .. MaxOpens}
BlockSize == WordSize * BlockWords
State == [seed : Seeds, words : Nat]

\* The types; a Fill accounts for each byte it was asked for.
TypeOK ==
  /\ s_cryptoProvider \in Threads \cup {NULL}
  /\ generator \in [Threads -> State] /\ drawing \in [Threads -> State \cup {NULL}]
  /\ pc \in [Threads -> {"idle", "test", "allocate", "init", "whole", "rest"}]
  /\ seed \in [Threads -> Seeds]
  /\ provider \in [Threads -> Threads \cup {NULL}]
  /\ length \in [Threads -> Nat] /\ written \in [Threads -> Nat] /\ asked \in [Threads -> Nat]
  /\ \A t \in Threads : length[t] + written[t] = asked[t]
  /\ answer \in [Threads -> {"none", "true", "false"}] /\ incomplete \in BOOLEAN
  /\ opens \in 0 .. MaxOpens /\ fills \in 0 .. MaxFills
  /\ opened \subseteq Threads /\ trusted \subseteq Threads /\ allocations \in Nat
  /\ given \subseteq Seeds \X Nat /\ repeated \subseteq Seeds /\ torn \subseteq Seeds

Init ==
  /\ s_cryptoProvider = NULL /\ provider = [t \in Threads |-> NULL]
  /\ generator = [t \in Threads |-> [seed |-> Unseeded, words |-> 0]]
  /\ pc = [t \in Threads |-> "idle"] /\ answer = [t \in Threads |-> "none"]
  /\ seed = [t \in Threads |-> Unseeded]
  /\ length = [t \in Threads |-> 0] /\ asked = [t \in Threads |-> 0]
  /\ written = [t \in Threads |-> 0] /\ incomplete = FALSE /\ drawing = [t \in Threads |-> NULL]
  /\ opens = 0 /\ fills = 0 /\ allocations = 0
  /\ opened = {} /\ trusted = {} /\ given = {} /\ repeated = {} /\ torn = {}

Go(t, where) == pc' = [pc EXCEPT ![t] = where]

Call(t, where) == pc[t] = "idle" /\ Go(t, where) /\ answer' = [answer EXCEPT ![t] = "none"]

Return(t, value) == Go(t, "idle") /\ answer' = [answer EXCEPT ![t] = value]

-----------------------------------------------------------------------------
(* OpenCryptographyProvider and GetCryptographyProvider. *)

\* Mutant: only the fields of the identifier that name the machine are merged.
MergedWithoutTime(uuid) == Folded[1]
Merged(uuid) == Folded[uuid]

UuidCreate(t) ==
  /\ Call(t, "test") /\ opens < MaxOpens
  /\ opens' = opens + 1
  /\ seed' = [seed EXCEPT ![t] = Merged(opens + 1)]
  /\ UNCHANGED <<s_cryptoProvider, opened, allocations, getVars, fillVars, generator>>

UuidCreateFails(t) ==
  /\ pc[t] = "idle" /\ Return(t, "false")
  /\ UNCHANGED <<openVars, getVars, fillVars, generator>>

TestProvider(t) ==
  /\ pc[t] = "test"
  /\ Go(t, IF s_cryptoProvider = NULL THEN "allocate" ELSE "init")
  /\ UNCHANGED <<openVars, getVars, fillVars, generator, answer>>

Allocate(t) ==
  /\ pc[t] = "allocate" /\ Go(t, "init")
  /\ s_cryptoProvider' = t /\ allocations' = allocations + 1
  /\ UNCHANGED <<seed, opens, opened, getVars, fillVars, generator, answer>>

\* Mutant: a thread seeds only the context that it allocated.
NeedsSeedIfOwn(t) == s_cryptoProvider = t
NeedsSeed(t) == TRUE

\* CRYPTOINIT of the provider there is now, whoever allocated it.
Seed(t) ==
  /\ pc[t] = "init" /\ Return(t, "true")
  /\ generator' = IF NeedsSeed(t)
                  THEN [generator EXCEPT ![s_cryptoProvider] = [seed |-> seed[t], words |-> 0]]
                  ELSE generator
  /\ opened' = opened \cup {t}
  /\ UNCHANGED <<s_cryptoProvider, seed, opens, allocations, getVars, fillVars>>

\* CRYPTOINIT fails and leaves the generator as it was; its result is not
\* looked at.
SeedFails(t) ==
  /\ pc[t] = "init" /\ Return(t, "true")
  /\ UNCHANGED <<openVars, getVars, fillVars, generator>>

GetCryptographyProvider(t) ==
  /\ pc[t] = "idle"
  /\ provider' = [provider EXCEPT ![t] = s_cryptoProvider]
  /\ trusted' = IF t \in opened THEN trusted \cup {t} ELSE trusted
  /\ UNCHANGED <<openVars, fillVars, generator, pc, answer>>

-----------------------------------------------------------------------------
(* FillBufferWithRandomBytes. *)

FillBuffer(t, n) ==
  /\ Call(t, IF n >= BlockSize THEN "whole" ELSE "rest") /\ fills < MaxFills
  /\ provider[t] # NULL /\ n > 0
  /\ fills' = fills + 1
  /\ length' = [length EXCEPT ![t] = n] /\ asked' = [asked EXCEPT ![t] = n]
  /\ UNCHANGED <<openVars, getVars, generator, written, drawing, incomplete, given, repeated, torn>>

\* Without a provider nothing is filled; nothing to fill succeeds.
FillNothing(t, n) ==
  /\ pc[t] = "idle" /\ (provider[t] = NULL \/ n = 0)
  /\ Return(t, IF provider[t] = NULL THEN "false" ELSE "true")
  /\ UNCHANGED <<openVars, getVars, generator, fillVars>>

\* A call returns after its last n bytes; its buffer is the caller's.
FillReturns(t, value, n) ==
  /\ Return(t, value)
  /\ incomplete' = (incomplete \/ (value = "true" /\ written[t] + n # asked[t]))
  /\ length' = [length EXCEPT ![t] = 0] /\ written' = [written EXCEPT ![t] = 0]
  /\ asked' = [asked EXCEPT ![t] = 0]

\* CRYPTOFILL begins.
DrawBegins(t) ==
  /\ pc[t] \in {"whole", "rest"} /\ drawing[t] = NULL
  /\ drawing' = [drawing EXCEPT ![t] = generator[provider[t]]]
  /\ UNCHANGED <<openVars, getVars, length, written, fills, asked, incomplete, given, repeated,
                 torn, generator, pc, answer>>

\* The first n bytes that a generator in the state g gives.
Bytes(g, n) == {<<g.seed, g.words * WordSize + i>> : i \in 1 .. n}

\* CRYPTOFILL ends after w words, of which n bytes are written to the buffer.
Drawn(t, w, n) ==
  LET c     == provider[t]
      bytes == Bytes(drawing[t], n)
      moved == [generator EXCEPT ![c] = [drawing[t] EXCEPT !.words = @ + w]]
  IN /\ drawing[t] # NULL
     /\ drawing' = [drawing EXCEPT ![t] = NULL]
     /\ given' = given \cup bytes
     /\ repeated' = IF bytes \cap given = {} THEN repeated ELSE repeated \cup {drawing[t].seed}
     /\ IF generator[c] = drawing[t]
        THEN generator' = moved /\ UNCHANGED torn
        ELSE /\ generator' \in {generator, moved}
             /\ torn' = torn \cup {generator[c].seed, drawing[t].seed}
     /\ UNCHANGED <<openVars, getVars, fills>>

\* Mutant: words are taken off the length as if they were bytes.
LeftInWords(n, words) == n - words
Left(n, words) == n - words * WordSize

FillWhole(t) ==
  LET words == (length[t] \div BlockSize) * BlockWords
      left  == Left(length[t], words)
  IN /\ pc[t] = "whole" /\ Drawn(t, words, words * WordSize)
     /\ IF left = 0
        THEN FillReturns(t, "true", words * WordSize)
        ELSE /\ Go(t, "rest")
             /\ length' = [length EXCEPT ![t] = left]
             /\ written' = [written EXCEPT ![t] = @ + words * WordSize]
             /\ UNCHANGED <<answer, asked, incomplete>>

\* A block on the stack is filled, and as much of it copied as is left.
FillRest(t) ==
  pc[t] = "rest" /\ Drawn(t, BlockWords, length[t]) /\ FillReturns(t, "true", length[t])

\* CRYPTOFILL fails: what was filled before it stays.
DrawFails(t) ==
  /\ drawing[t] # NULL /\ drawing' = [drawing EXCEPT ![t] = NULL]
  /\ FillReturns(t, "false", 0)
  /\ UNCHANGED <<openVars, getVars, fills, given, repeated, torn, generator>>

Open(t) == UuidCreate(t) \/ UuidCreateFails(t) \/ TestProvider(t) \/ Allocate(t) \/ Seed(t) \/ SeedFails(t)
Fill(t) ==
  \/ \E n \in Lengths : FillBuffer(t, n) \/ FillNothing(t, n)
  \/ DrawBegins(t) \/ FillWhole(t) \/ FillRest(t) \/ DrawFails(t)

Next == \E t \in Threads : Open(t) \/ GetCryptographyProvider(t) \/ Fill(t)

Spec == Init /\ [][Next]_vars

-----------------------------------------------------------------------------

\* The seeds that two of the identifiers given out so far are merged to.
Collided == {Folded[i] : i \in {k \in 1 .. opens : \E j \in (1 .. opens) \ {k} : Folded[j] = Folded[k]}}

\* A Fill that returns true has written every byte it was asked for, and no
\* byte of a generator is ever written to two places, within a buffer or of two
\* threads, in whole blocks, rests and across later Opens: unless two calls
\* used the generator at the same time, it was never seeded, or two of the
\* identifiers were merged to one seed.
BytesGivenOnce ==
  /\ ~incomplete
  /\ repeated \subseteq torn \cup {Unseeded} \cup Collided

\* A thread whose own Open seeded the provider before the thread got it holds a
\* seeded one, whatever other threads open at the same time.  It may hold an
\* unseeded one only if two threads found none together and both allocated, or
\* if a thread that never waited for an Open was already drawing from it.
SeededAfterOwnOpen ==
  allocations <= 1 /\ Unseeded \notin torn =>
    \A t \in trusted : generator[provider[t]].seed # Unseeded
=============================================================================
