-------------------------- MODULE Cryptography_proofs --------------------------
(***************************************************************************)
(* The generator of os::Cryptography is type correct, accounts for every   *)
(* byte asked for, and is seeded for every thread that opened it, for any  *)
(* number of threads, size of blocks and lengths.                          *)
(***************************************************************************)
EXTENDS Cryptography, TLAPS

\* TypeOK by what the variables belong to: Open, Fill, and both.
OpenTypes ==
  /\ s_cryptoProvider \in Threads \cup {NULL}
  /\ seed \in [Threads -> Seeds] /\ opens \in 0 .. MaxOpens
  /\ opened \subseteq Threads /\ allocations \in Nat

CallTypes ==
  /\ generator \in [Threads -> State]
  /\ pc \in [Threads -> {"idle", "test", "allocate", "init", "whole", "rest"}]
  /\ provider \in [Threads -> Threads \cup {NULL}] /\ trusted \subseteq Threads
  /\ answer \in [Threads -> {"none", "true", "false"}]

LengthTypes ==
  /\ length \in [Threads -> Nat] /\ written \in [Threads -> Nat] /\ asked \in [Threads -> Nat]
  /\ \A t \in Threads : length[t] + written[t] = asked[t]

DrawTypes ==
  /\ drawing \in [Threads -> State \cup {NULL}]
  /\ fills \in 0 .. MaxFills /\ incomplete \in BOOLEAN
  /\ given \subseteq Seeds \X Nat /\ repeated \subseteq Seeds /\ torn \subseteq Seeds

\* Where a thread is: it fills only from a provider, draws only when it fills,
\* and asks for nothing when it does not.
PlaceInv ==
  /\ \A t \in Threads :
       /\ pc[t] \in {"whole", "rest"} => provider[t] # NULL
       /\ drawing[t] # NULL => pc[t] \in {"whole", "rest"}
       /\ pc[t] = "init" => s_cryptoProvider # NULL
  /\ \A t \in Threads : pc[t] \notin {"whole", "rest"} => length[t] = 0 /\ written[t] = 0 /\ asked[t] = 0

TypeInv == OpenTypes /\ CallTypes /\ LengthTypes /\ DrawTypes /\ PlaceInv

\* The whole blocks of a length are no longer than it.
LEMMA WholeBlocks ==
  ASSUME NEW n \in Nat
  PROVE  /\ (n \div BlockSize) * BlockWords \in Nat
         /\ ((n \div BlockSize) * BlockWords) * WordSize \in 0 .. n
<1> DEFINE q == n \div BlockSize
<1>1. BlockSize \in Nat \ {0} /\ BlockWords \in Nat \ {0} /\ WordSize \in Nat \ {0}
  BY CryptographyAssumption DEF BlockSize
<1>2. q \in Nat /\ q * BlockSize <= n
  BY <1>1
<1> HIDE DEF q
<1>3. q * BlockWords \in Nat /\ (q * BlockWords) * WordSize \in Nat
  BY <1>1, <1>2
<1>4. (q * BlockWords) * WordSize = q * BlockSize
  BY <1>1, <1>2 DEF BlockSize
<1>5. QED
  BY <1>2, <1>3, <1>4 DEF q

\* The seeds there are.
LEMMA SeedBounds ==
  /\ Unseeded \in Seeds
  /\ \A o \in 0 .. MaxOpens : o + 1 <= MaxOpens => Folded[o + 1] \in Seeds /\ Folded[o + 1] # Unseeded
<1>1. ASSUME NEW o \in 0 .. MaxOpens, o + 1 <= MaxOpens PROVE o + 1 \in 1 .. MaxOpens
  BY <1>1, CryptographyAssumption
<1>2. QED
  BY <1>1, CryptographyAssumption DEF Seeds, Unseeded

\* The types hold at the beginning.
LEMMA TypesAtInit == Init => TypeInv
<1> SUFFICES ASSUME Init PROVE TypeInv
  OBVIOUS
<1>1. OpenTypes
  BY SeedBounds, CryptographyAssumption DEF Init, OpenTypes
<1>2. CallTypes
  <2>1. [seed |-> Unseeded, words |-> 0] \in State
    BY SeedBounds DEF State
  <2>2. QED
    BY <2>1 DEF Init, CallTypes
<1>3. LengthTypes
  BY DEF Init, LengthTypes
<1>4. DrawTypes
  <2>1. drawing \in [Threads -> State \cup {NULL}]
    BY DEF Init
  <2>2. fills \in 0 .. MaxFills
    BY CryptographyAssumption DEF Init
  <2>3. given = {} /\ repeated = {} /\ torn = {} /\ incomplete = FALSE
    BY DEF Init
  <2>4. QED
    BY <2>1, <2>2, <2>3 DEF DrawTypes
<1>5. PlaceInv
  BY DEF Init, PlaceInv
<1>6. QED
  BY <1>1, <1>2, <1>3, <1>4, <1>5 DEF TypeInv

\* Opening and getting leave what a Fill keeps alone.
LEMMA OpenTypesStep ==
  ASSUME TypeInv, NEW t \in Threads, Open(t) \/ GetCryptographyProvider(t)
  PROVE  TypeInv'
<1>0. UNCHANGED fillVars
  BY DEF Open, GetCryptographyProvider, UuidCreate, UuidCreateFails, TestProvider, Allocate, Seed, SeedFails
<1>1. LengthTypes' /\ DrawTypes'
  BY <1>0 DEF fillVars, TypeInv, LengthTypes, DrawTypes
<1>2. CASE UuidCreate(t)
  <2>1. OpenTypes'
    <3>1. Folded[opens + 1] \in Seeds /\ opens + 1 \in 0 .. MaxOpens
      BY <1>2, SeedBounds, CryptographyAssumption DEF UuidCreate, TypeInv, OpenTypes
    <3>2. QED
      BY <1>2, <3>1 DEF UuidCreate, Merged, TypeInv, OpenTypes
  <2>2. CallTypes'
    BY <1>2 DEF UuidCreate, Call, Go, getVars, TypeInv, CallTypes
  <2>3. PlaceInv'
    BY <1>0, <1>2 DEF UuidCreate, Call, Go, getVars, fillVars, TypeInv, PlaceInv, CallTypes
  <2>4. QED
    BY <1>1, <2>1, <2>2, <2>3 DEF TypeInv
<1>3. CASE UuidCreateFails(t)
  <2>1. OpenTypes' /\ CallTypes'
    BY <1>3 DEF UuidCreateFails, Return, Go, openVars, getVars, TypeInv, OpenTypes, CallTypes
  <2>2. PlaceInv'
    BY <1>0, <1>3 DEF UuidCreateFails, Return, Go, openVars, getVars, fillVars, TypeInv, PlaceInv, CallTypes
  <2>3. QED
    BY <1>1, <2>1, <2>2 DEF TypeInv
<1>4. CASE TestProvider(t)
  <2>1. OpenTypes' /\ CallTypes'
    BY <1>4 DEF TestProvider, Go, openVars, getVars, TypeInv, OpenTypes, CallTypes
  <2>2. PlaceInv'
    BY <1>0, <1>4 DEF TestProvider, Go, openVars, getVars, fillVars, TypeInv, PlaceInv, CallTypes
  <2>3. QED
    BY <1>1, <2>1, <2>2 DEF TypeInv
<1>5. CASE Allocate(t)
  <2>1. OpenTypes' /\ CallTypes'
    BY <1>5 DEF Allocate, Go, getVars, TypeInv, OpenTypes, CallTypes
  <2>2. t # NULL
    BY CryptographyAssumption
  <2>3. PlaceInv'
    BY <1>0, <1>5, <2>2 DEF Allocate, Go, getVars, fillVars, TypeInv, PlaceInv, CallTypes
  <2>4. QED
    BY <1>1, <2>1, <2>3 DEF TypeInv
<1>6. CASE Seed(t)
  <2>1. OpenTypes'
    BY <1>6 DEF Seed, TypeInv, OpenTypes
  <2>2. CallTypes'
    <3>1. [seed |-> seed[t], words |-> 0] \in State
      BY DEF TypeInv, OpenTypes, State
    <3>2. generator' \in [Threads -> State]
      BY <1>6, <3>1 DEF Seed, NeedsSeed, TypeInv, CallTypes
    <3>3. QED
      BY <1>6, <3>2 DEF Seed, Return, Go, getVars, TypeInv, CallTypes
  <2>3. PlaceInv'
    BY <1>0, <1>6 DEF Seed, Return, Go, getVars, fillVars, TypeInv, PlaceInv, CallTypes
  <2>4. QED
    BY <1>1, <2>1, <2>2, <2>3 DEF TypeInv
<1>7. CASE GetCryptographyProvider(t)
  <2>1. OpenTypes' /\ CallTypes'
    BY <1>7 DEF GetCryptographyProvider, openVars, TypeInv, OpenTypes, CallTypes
  <2>2. PlaceInv'
    BY <1>0, <1>7 DEF GetCryptographyProvider, openVars, fillVars, TypeInv, PlaceInv, CallTypes
  <2>3. QED
    BY <1>1, <2>1, <2>2 DEF TypeInv
<1>8. CASE SeedFails(t)
  <2>1. OpenTypes' /\ CallTypes'
    BY <1>8 DEF SeedFails, Return, Go, openVars, getVars, TypeInv, OpenTypes, CallTypes
  <2>2. PlaceInv'
    BY <1>0, <1>8 DEF SeedFails, Return, Go, openVars, getVars, fillVars, TypeInv, PlaceInv, CallTypes
  <2>3. QED
    BY <1>1, <2>1, <2>2 DEF TypeInv
<1>9. QED
  BY <1>2, <1>3, <1>4, <1>5, <1>6, <1>7, <1>8 DEF Open

\* The end of a CRYPTOFILL keeps the types of the generators and of the histories.
LEMMA DrawnTypes ==
  ASSUME TypeInv, NEW t \in Threads, NEW w \in Nat, NEW n \in Nat, Drawn(t, w, n)
  PROVE  /\ generator' \in [Threads -> State]
         /\ drawing' \in [Threads -> State \cup {NULL}] /\ drawing' = [drawing EXCEPT ![t] = NULL]
         /\ fills' \in 0 .. MaxFills
         /\ given' \subseteq Seeds \X Nat /\ repeated' \subseteq Seeds /\ torn' \subseteq Seeds
         /\ UNCHANGED <<openVars, getVars>>
<1> DEFINE moved == [generator EXCEPT ![provider[t]] = [drawing[t] EXCEPT !.words = @ + w]]
<1>1. drawing[t] \in State /\ provider[t] \in Threads
  BY DEF Drawn, TypeInv, DrawTypes, CallTypes, PlaceInv
<1>2. drawing[t].seed \in Seeds /\ drawing[t].words \in Nat /\ generator[provider[t]].seed \in Seeds
  BY <1>1 DEF State, TypeInv, CallTypes
<1>3. [drawing[t] EXCEPT !.words = @ + w] \in State
  BY <1>1 DEF State
<1>4. moved \in [Threads -> State]
  BY <1>1, <1>3 DEF TypeInv, CallTypes
<1>5. generator' \in {generator, moved}
  BY DEF Drawn
<1>6. Bytes(drawing[t], n) \subseteq Seeds \X Nat
  <2>1. WordSize \in Nat
    BY CryptographyAssumption
  <2>2. \A i \in 1 .. n : drawing[t].words * WordSize + i \in Nat
    BY <1>2, <2>1
  <2>3. QED
    BY <1>2, <2>2 DEF Bytes
<1>7. torn' \subseteq Seeds
  BY <1>2 DEF Drawn, TypeInv, DrawTypes
<1>8. given' \subseteq Seeds \X Nat /\ repeated' \subseteq Seeds
  BY <1>2, <1>6 DEF Drawn, TypeInv, DrawTypes
<1>9. drawing' = [drawing EXCEPT ![t] = NULL] /\ UNCHANGED <<openVars, getVars, fills>>
  BY DEF Drawn
<1>10. generator' \in [Threads -> State]
  BY <1>4, <1>5 DEF TypeInv, CallTypes
<1>11. QED
  BY <1>7, <1>8, <1>9, <1>10 DEF TypeInv, DrawTypes

\* A call that returns is accounted for: nothing is left of it.
LEMMA ReturnTypes ==
  ASSUME TypeInv, NEW t \in Threads, NEW value \in {"true", "false"}, NEW n, FillReturns(t, value, n)
  PROVE  /\ LengthTypes' /\ incomplete' \in BOOLEAN
         /\ pc' = [pc EXCEPT ![t] = "idle"] /\ answer' = [answer EXCEPT ![t] = value]
         /\ length'[t] = 0 /\ written'[t] = 0 /\ asked'[t] = 0
         /\ \A u \in Threads \ {t} : length'[u] = length[u] /\ written'[u] = written[u] /\ asked'[u] = asked[u]
<1>1. incomplete' \in BOOLEAN
  <2>1. incomplete' = (incomplete \/ (value = "true" /\ written[t] + n # asked[t]))
    BY DEF FillReturns
  <2>2. QED
    BY <2>1, Zenon
<1>2. QED
  BY <1>1 DEF FillReturns, Return, Go, TypeInv, LengthTypes

\* Every step of a Fill keeps the types.
LEMMA FillTypesStep ==
  ASSUME TypeInv, NEW t \in Threads, Fill(t)
  PROVE  TypeInv'
<1>0. Lengths \subseteq Nat
  BY CryptographyAssumption
<1>1. ASSUME NEW n \in Lengths, FillBuffer(t, n) PROVE TypeInv'
  <2>1. OpenTypes' /\ CallTypes'
    BY <1>1 DEF FillBuffer, Call, Go, openVars, getVars, TypeInv, OpenTypes, CallTypes
  <2>2. LengthTypes'
    BY <1>0, <1>1 DEF FillBuffer, Call, TypeInv, LengthTypes, PlaceInv
  <2>3. DrawTypes'
    <3>1. fills' \in 0 .. MaxFills
      BY <1>1, CryptographyAssumption DEF FillBuffer, TypeInv, DrawTypes
    <3>2. QED
      BY <1>1, <3>1 DEF FillBuffer, TypeInv, DrawTypes
  <2>4. PlaceInv'
    BY <1>1 DEF FillBuffer, Call, Go, openVars, getVars, TypeInv, CallTypes, LengthTypes, PlaceInv
  <2>5. QED
    BY <2>1, <2>2, <2>3, <2>4 DEF TypeInv
<1>2. ASSUME NEW n \in Lengths, FillNothing(t, n) PROVE TypeInv'
  <2>1. OpenTypes' /\ CallTypes'
    BY <1>2 DEF FillNothing, Return, Go, openVars, getVars, TypeInv, OpenTypes, CallTypes
  <2>2. LengthTypes' /\ DrawTypes'
    BY <1>2 DEF FillNothing, fillVars, TypeInv, LengthTypes, DrawTypes
  <2>3. PlaceInv'
    BY <1>2 DEF FillNothing, Return, Go, openVars, getVars, fillVars, TypeInv, CallTypes, PlaceInv
  <2>4. QED
    BY <2>1, <2>2, <2>3 DEF TypeInv
<1>3. CASE DrawBegins(t)
  <2>1. OpenTypes' /\ CallTypes' /\ LengthTypes'
    BY <1>3 DEF DrawBegins, openVars, getVars, TypeInv, OpenTypes, CallTypes, LengthTypes
  <2>2. DrawTypes'
    <3>1. provider[t] \in Threads
      BY <1>3 DEF DrawBegins, TypeInv, CallTypes, PlaceInv
    <3>2. generator[provider[t]] \in State
      BY <3>1 DEF TypeInv, CallTypes
    <3>3. drawing' \in [Threads -> State \cup {NULL}]
      BY <1>3, <3>2 DEF DrawBegins, TypeInv, DrawTypes
    <3>4. QED
      BY <1>3, <3>3 DEF DrawBegins, TypeInv, DrawTypes
  <2>3. PlaceInv'
    BY <1>3 DEF DrawBegins, openVars, getVars, TypeInv, DrawTypes, PlaceInv
  <2>4. QED
    BY <2>1, <2>2, <2>3 DEF TypeInv
<1>4. ASSUME NEW w \in Nat, NEW n \in Nat, NEW value \in {"true", "false"}, Drawn(t, w, n), FillReturns(t, value, n)
      PROVE  TypeInv'
  <2>1. OpenTypes' /\ CallTypes' /\ DrawTypes' /\ LengthTypes'
    BY <1>4, DrawnTypes, ReturnTypes DEF openVars, getVars, TypeInv, OpenTypes, CallTypes, DrawTypes
  <2>2. PlaceInv'
    BY <1>4, DrawnTypes, ReturnTypes DEF openVars, getVars, TypeInv, CallTypes, DrawTypes, PlaceInv
  <2>3. QED
    BY <2>1, <2>2 DEF TypeInv
<1>5. CASE FillWhole(t)
  <2> DEFINE words == (length[t] \div BlockSize) * BlockWords
             left  == Left(length[t], words)
  <2>1. length[t] \in Nat /\ written[t] \in Nat /\ asked[t] \in Nat /\ length[t] + written[t] = asked[t]
    BY DEF TypeInv, LengthTypes
  <2>2. words \in Nat /\ words * WordSize \in 0 .. length[t]
    BY <2>1, WholeBlocks
  <2>3. left = length[t] - words * WordSize
    BY DEF Left
  <2>4. Drawn(t, words, words * WordSize) /\ pc[t] = "whole"
    BY <1>5 DEF FillWhole
  <2>5. CASE left = 0
    <3>1. FillReturns(t, "true", words * WordSize)
      BY <1>5, <2>5 DEF FillWhole
    <3>2. QED
      BY <1>4, <2>1, <2>2, <2>4, <3>1
  <2>6. CASE left # 0
    <3>1. /\ Go(t, "rest") /\ length' = [length EXCEPT ![t] = left]
          /\ written' = [written EXCEPT ![t] = @ + words * WordSize]
          /\ UNCHANGED <<answer, asked, incomplete>>
      BY <1>5, <2>6 DEF FillWhole
    <3> HIDE DEF words
    <3>2. LengthTypes'
      <4>1. left \in Nat /\ written[t] + words * WordSize \in Nat
            /\ left + (written[t] + words * WordSize) = asked[t]
        BY <2>1, <2>2, <2>3
      <4> HIDE DEF left
      <4>2. QED
        BY <3>1, <4>1 DEF TypeInv, LengthTypes
    <3>3. words * WordSize \in Nat
      BY <2>1, <2>2
    <3>4. OpenTypes' /\ CallTypes' /\ DrawTypes'
      BY <2>2, <2>4, <3>1, <3>3, DrawnTypes DEF Go, openVars, getVars, TypeInv, OpenTypes, CallTypes, DrawTypes
    <3>5. PlaceInv'
      <4>1. UNCHANGED <<openVars, getVars, asked>> /\ drawing' = [drawing EXCEPT ![t] = NULL]
        BY <2>2, <2>4, <3>1, <3>3, DrawnTypes
      <4>2. pc' = [pc EXCEPT ![t] = "rest"] /\ provider[t] # NULL
        BY <2>4, <3>1 DEF Go, TypeInv, PlaceInv
      <4>3. QED
        BY <3>1, <4>1, <4>2 DEF openVars, getVars, TypeInv, CallTypes, DrawTypes, LengthTypes, PlaceInv
    <3>6. QED
      BY <3>2, <3>4, <3>5 DEF TypeInv
  <2>7. QED
    BY <2>5, <2>6
<1>6. CASE FillRest(t)
  <2>1. length[t] \in Nat /\ BlockWords \in Nat
    BY CryptographyAssumption DEF TypeInv, LengthTypes
  <2>2. QED
    BY <1>4, <1>6, <2>1 DEF FillRest
<1>7. CASE DrawFails(t)
  <2>1. OpenTypes' /\ CallTypes' /\ DrawTypes' /\ LengthTypes'
    BY <1>7, ReturnTypes DEF DrawFails, openVars, getVars, TypeInv, OpenTypes, CallTypes, DrawTypes
  <2>2. PlaceInv'
    BY <1>7, ReturnTypes DEF DrawFails, openVars, getVars, TypeInv, CallTypes, DrawTypes, PlaceInv
  <2>3. QED
    BY <2>1, <2>2 DEF TypeInv
<1>8. QED
  BY <1>1, <1>2, <1>3, <1>5, <1>6, <1>7 DEF Fill

\* Every step keeps the types.
LEMMA TypesStep == TypeInv /\ [Next]_vars => TypeInv'
<1>1. CASE UNCHANGED vars
  BY <1>1 DEF vars, openVars, getVars, fillVars, TypeInv, OpenTypes, CallTypes, LengthTypes, DrawTypes, PlaceInv
<1>2. QED
  BY <1>1, OpenTypesStep, FillTypesStep DEF Next

\* The state of the generator stays within its types, and each Fill has written
\* or has left to fill exactly the bytes it was asked for, whatever the sizes
\* of words and blocks.
THEOREM CryptographyTypeCorrect == Spec => []TypeOK
<1>1. TypeInv => TypeOK
  BY DEF TypeInv, OpenTypes, CallTypes, LengthTypes, DrawTypes, TypeOK
<1>2. QED
  BY TypesAtInit, TypesStep, <1>1, PTL DEF Spec

-----------------------------------------------------------------------------

\* Nothing went wrong that a lock would have prevented: one context at most was
\* allocated, and nobody was drawing from it while it was unseeded and seeded.
Undisturbed == allocations <= 1 /\ Unseeded \notin torn

\* What makes SeededAfterOwnOpen inductive: there is one provider, seeded once
\* any Open seeded it, and everybody who has one has that one.
SeededInv ==
  /\ \A t \in Threads : pc[t] \in {"test", "allocate", "init"} => seed[t] # Unseeded
  /\ s_cryptoProvider = NULL <=> allocations = 0
  /\ opened # {} => s_cryptoProvider # NULL
  /\ trusted \subseteq opened
  /\ \A t \in Threads : provider[t] # NULL => s_cryptoProvider # NULL
  /\ \A t \in trusted : provider[t] # NULL
  /\ Undisturbed =>
       /\ \A t \in Threads : provider[t] \in {NULL, s_cryptoProvider}
       /\ opened # {} => generator[s_cryptoProvider].seed # Unseeded

\* It holds at the beginning.
LEMMA SeededAtInit == Init => SeededInv
  BY CryptographyAssumption DEF Init, SeededInv

\* An identifier is not the seed of an unseeded context.
LEMMA IdentifierSeeds ==
  ASSUME TypeInv, opens < MaxOpens
  PROVE  Merged(opens + 1) # Unseeded
  BY SeedBounds, CryptographyAssumption DEF TypeInv, OpenTypes, Merged

\* Opening and getting keep it.
LEMMA OpenSeededStep ==
  ASSUME TypeInv, SeededInv, NEW t \in Threads, Open(t) \/ GetCryptographyProvider(t)
  PROVE  SeededInv'
<1>1. CASE UuidCreate(t)
  <2>1. seed' = [seed EXCEPT ![t] = Merged(opens + 1)] /\ Merged(opens + 1) # Unseeded
    BY <1>1, IdentifierSeeds DEF UuidCreate
  <2>2. QED
    BY <1>1, <2>1 DEF UuidCreate, Call, Go, getVars, fillVars, TypeInv, OpenTypes, CallTypes, SeededInv, Undisturbed
<1>2. CASE UuidCreateFails(t)
  BY <1>2 DEF UuidCreateFails, Return, Go, openVars, getVars, fillVars, TypeInv, CallTypes, SeededInv, Undisturbed
<1>3. CASE TestProvider(t)
  BY <1>3 DEF TestProvider, Go, openVars, getVars, fillVars, TypeInv, CallTypes, SeededInv, Undisturbed
<1>4. CASE Allocate(t)
  <2>1. /\ s_cryptoProvider' = t /\ t # NULL /\ allocations' = allocations + 1 /\ allocations \in Nat
        /\ pc' = [pc EXCEPT ![t] = "init"]
        /\ UNCHANGED <<seed, opened, provider, trusted, torn, generator>>
    BY <1>4, CryptographyAssumption DEF Allocate, Go, getVars, fillVars, TypeInv, OpenTypes
  <2>2. \A u \in Threads : pc'[u] \in {"test", "allocate", "init"} => seed'[u] # Unseeded
    BY <1>4, <2>1 DEF Allocate, TypeInv, CallTypes, SeededInv
  <2>3. Undisturbed' => s_cryptoProvider = NULL
    BY <2>1 DEF Undisturbed, SeededInv
  <2>4. QED
    BY <2>1, <2>2, <2>3 DEF SeededInv
<1>5. CASE Seed(t)
  <2>1. /\ generator' = [generator EXCEPT ![s_cryptoProvider] = [seed |-> seed[t], words |-> 0]]
        /\ opened' = opened \cup {t} /\ pc' = [pc EXCEPT ![t] = "idle"]
        /\ UNCHANGED <<s_cryptoProvider, seed, allocations, provider, trusted, torn>>
    BY <1>5 DEF Seed, NeedsSeed, Return, Go, getVars, fillVars
  <2>2. s_cryptoProvider \in Threads /\ s_cryptoProvider # NULL /\ seed[t] # Unseeded
    BY <1>5 DEF Seed, TypeInv, OpenTypes, PlaceInv, SeededInv
  <2>3. generator'[s_cryptoProvider].seed = seed[t]
    BY <2>1, <2>2 DEF TypeInv, CallTypes
  <2>4. \A u \in Threads : pc'[u] \in {"test", "allocate", "init"} => seed'[u] # Unseeded
    BY <2>1 DEF TypeInv, CallTypes, SeededInv
  <2>5. QED
    BY <2>1, <2>2, <2>3, <2>4 DEF SeededInv, Undisturbed
<1>6. CASE GetCryptographyProvider(t)
  <2>1. /\ provider' = [provider EXCEPT ![t] = s_cryptoProvider]
        /\ trusted' = IF t \in opened THEN trusted \cup {t} ELSE trusted
        /\ UNCHANGED <<s_cryptoProvider, seed, allocations, opened, torn, generator, pc>>
    BY <1>6 DEF GetCryptographyProvider, openVars, fillVars
  <2>2. QED
    BY <2>1 DEF TypeInv, OpenTypes, CallTypes, SeededInv, Undisturbed
<1>7. CASE SeedFails(t)
  BY <1>7 DEF SeedFails, Return, Go, openVars, getVars, fillVars, TypeInv, CallTypes, SeededInv, Undisturbed
<1>8. QED
  BY <1>1, <1>2, <1>3, <1>4, <1>5, <1>6, <1>7 DEF Open

\* A CRYPTOFILL that ends does not take the seed from a generator, unless it began
\* when there was none and the generator was seeded meanwhile.
LEMMA DrawnKeepsSeed ==
  ASSUME TypeInv, NEW t \in Threads, NEW w \in Nat, NEW n \in Nat, Drawn(t, w, n),
         NEW c \in Threads, generator[c].seed # Unseeded, Unseeded \notin torn'
  PROVE  Unseeded \notin torn /\ generator'[c].seed # Unseeded
<1> DEFINE moved == [generator EXCEPT ![provider[t]] = [drawing[t] EXCEPT !.words = @ + w]]
<1>1. drawing[t] \in State /\ provider[t] \in Threads
  BY DEF Drawn, TypeInv, DrawTypes, CallTypes, PlaceInv
<1>2. [drawing[t] EXCEPT !.words = @ + w].seed = drawing[t].seed
  BY <1>1 DEF State
<1>3. moved[c] = IF c = provider[t] THEN [drawing[t] EXCEPT !.words = @ + w] ELSE generator[c]
  BY <1>1 DEF TypeInv, CallTypes
<1>4. CASE generator[provider[t]] = drawing[t]
  <2>1. generator' = moved /\ UNCHANGED torn
    BY <1>4 DEF Drawn
  <2>2. QED
    BY <1>2, <1>3, <1>4, <2>1
<1>5. CASE generator[provider[t]] # drawing[t]
  <2>1. generator' \in {generator, moved} /\ torn' = torn \cup {generator[provider[t]].seed, drawing[t].seed}
    BY <1>5 DEF Drawn
  <2>2. drawing[t].seed # Unseeded
    BY <2>1
  <2>3. QED
    BY <1>2, <1>3, <2>1, <2>2
<1>6. QED
  BY <1>4, <1>5

\* The steps of a Fill keep it.
LEMMA FillSeededStep ==
  ASSUME TypeInv, SeededInv, NEW t \in Threads, Fill(t)
  PROVE  SeededInv'
<1>1. UNCHANGED <<openVars, getVars>>
  BY DEF Fill, FillBuffer, FillNothing, DrawBegins, FillWhole, FillRest, Drawn, DrawFails
<1>2. \A u \in Threads : pc'[u] \in {"test", "allocate", "init"} => pc[u] = pc'[u]
  BY DEF Fill, FillBuffer, FillNothing, DrawBegins, FillWhole, FillRest, DrawFails, FillReturns,
         Call, Return, Go, TypeInv, CallTypes
<1>3. Undisturbed' /\ opened # {} => Undisturbed /\ generator'[s_cryptoProvider].seed # Unseeded
  <2> SUFFICES ASSUME Undisturbed', opened # {}
               PROVE  Undisturbed /\ generator'[s_cryptoProvider].seed # Unseeded
    OBVIOUS
  <2>1. s_cryptoProvider \in Threads /\ UNCHANGED allocations
    BY <1>1 DEF openVars, TypeInv, OpenTypes, SeededInv
  <2>2. CASE UNCHANGED <<generator, torn>>
    BY <2>1, <2>2 DEF SeededInv, Undisturbed
  <2>3. ASSUME NEW w \in Nat, NEW n \in Nat, Drawn(t, w, n)
        PROVE  Undisturbed /\ generator'[s_cryptoProvider].seed # Unseeded
    <3>1. torn \subseteq torn'
      BY <2>3 DEF Drawn
    <3>2. Undisturbed
      BY <2>1, <3>1 DEF Undisturbed
    <3>3. generator[s_cryptoProvider].seed # Unseeded
      BY <3>2 DEF SeededInv
    <3>4. QED
      BY <2>1, <2>3, <3>2, <3>3, DrawnKeepsSeed DEF Undisturbed
  <2>4. CASE FillWhole(t)
    <3>1. length[t] \in Nat
      BY DEF TypeInv, LengthTypes
    <3>2. (length[t] \div BlockSize) * BlockWords \in Nat
          /\ ((length[t] \div BlockSize) * BlockWords) * WordSize \in Nat
      BY <3>1, WholeBlocks
    <3>3. Drawn(t, (length[t] \div BlockSize) * BlockWords, ((length[t] \div BlockSize) * BlockWords) * WordSize)
      BY <2>4 DEF FillWhole
    <3>4. QED
      BY <2>3, <3>2, <3>3
  <2>5. CASE FillRest(t)
    <3>1. length[t] \in Nat /\ BlockWords \in Nat
      BY CryptographyAssumption DEF TypeInv, LengthTypes
    <3>2. QED
      BY <2>3, <2>5, <3>1 DEF FillRest
  <2>6. QED
    BY <2>2, <2>4, <2>5 DEF Fill, FillBuffer, FillNothing, DrawBegins, DrawFails, fillVars
<1>4. Undisturbed' => Undisturbed
  <2>1. torn \subseteq torn'
    BY DEF Fill, FillBuffer, FillNothing, DrawBegins, FillWhole, FillRest, Drawn, DrawFails, fillVars
  <2>2. QED
    BY <1>1, <2>1 DEF Undisturbed, openVars
<1>5. QED
  BY <1>1, <1>2, <1>3, <1>4 DEF openVars, getVars, SeededInv

\* Every step keeps it.
LEMMA SeededStep == TypeInv /\ SeededInv /\ [Next]_vars => SeededInv'
<1>1. CASE UNCHANGED vars
  BY <1>1 DEF vars, openVars, getVars, fillVars, SeededInv, Undisturbed
<1>2. QED
  BY <1>1, OpenSeededStep, FillSeededStep DEF Next

\* A thread whose Open seeded the provider before the thread got it never holds
\* an unseeded one, for any number of threads: the two races that SeededAfterOwnOpen names
\* are the only ones that break this.
THEOREM SeededForWhoOpened == Spec => []SeededAfterOwnOpen
<1>1. TypeInv /\ SeededInv => SeededAfterOwnOpen
  BY DEF TypeInv, OpenTypes, SeededInv, Undisturbed, SeededAfterOwnOpen
<1>2. QED
  BY TypesAtInit, TypesStep, SeededAtInit, SeededStep, <1>1, PTL DEF Spec
-----------------------------------------------------------------------------
(* No byte twice. *)

Opening == {"test", "allocate", "init"}

\* The seeds of the identifiers given out so far.
Issued == {Folded[i] : i \in 1 .. opens}

\* A seed that no two identifiers were merged to.
Single(s) == s # Unseeded /\ s \notin Collided

Live(s) == Single(s) /\ s \notin torn

\* No generator, no fill and no buffer has anything of this seed.
Unused(s) ==
  /\ s # Unseeded
  /\ \A c \in Threads : generator[c].seed # s
  /\ \A t \in Threads : drawing[t] # NULL => drawing[t].seed # s
  /\ \A b \in Nat : <<s, b>> \notin given

\* Seeds come from the identifiers that were given out,
AgeInv ==
  /\ \A t \in Threads : seed[t] \in Issued \cup {Unseeded} /\ generator[t].seed \in Issued \cup {Unseeded}
  /\ \A t \in Threads : drawing[t] # NULL => drawing[t].seed \in Issued \cup {Unseeded}
  /\ \A s \in Seeds, b \in Nat : <<s, b>> \in given => s \in Issued \cup {Unseeded}

\* unless identifiers collide, an Open that is under way is the only one with
\* its seed,
FreshInv ==
  /\ \A t \in Threads : pc[t] \in Opening /\ seed[t] \notin Collided => Unused(seed[t])
  /\ \A t, u \in Threads :
       pc[t] \in Opening /\ pc[u] \in Opening /\ seed[t] = seed[u] /\ seed[t] \notin Collided => t = u

\* a seed never moves from one context to another,
HolderInv ==
  /\ \A c, d \in Threads : generator[c].seed = generator[d].seed /\ Single(generator[c].seed) => c = d
  /\ \A t, c \in Threads :
       drawing[t] # NULL /\ Single(drawing[t].seed) /\ generator[c].seed = drawing[t].seed => c = provider[t]
  /\ \A t, u \in Threads :
       drawing[t] # NULL /\ drawing[u] # NULL /\ Single(drawing[t].seed) /\ drawing[t].seed = drawing[u].seed
         => provider[t] = provider[u]

\* and a generator that no two calls used at once is past every byte it gave.
PastInv ==
  \A c \in Threads, b \in Nat :
    Live(generator[c].seed) /\ <<generator[c].seed, b>> \in given => b <= generator[c].words * WordSize

\* What makes BytesGivenOnce inductive.
StreamInv ==
  /\ AgeInv /\ FreshInv /\ HolderInv /\ PastInv
  /\ \A t \in Threads : pc[t] = "rest" => length[t] <= BlockSize
  /\ BytesGivenOnce

\* A product of a sum.
LEMMA TimesSum == \A a, b, k \in Nat : (a + b) * k = a * k + b * k /\ a * k \in Nat /\ b * k \in Nat
  OBVIOUS

\* What is left after the whole blocks of a length is less than a block.
LEMMA RestFits ==
  ASSUME NEW m \in Nat
  PROVE  m - ((m \div BlockSize) * BlockWords) * WordSize < BlockSize
<1> DEFINE q == m \div BlockSize
<1>1. BlockSize \in Nat \ {0} /\ BlockWords \in Nat \ {0} /\ WordSize \in Nat \ {0}
  BY CryptographyAssumption DEF BlockSize
<1>2. q \in Nat /\ m - q * BlockSize < BlockSize
  BY <1>1
<1> HIDE DEF q
<1>3. (q * BlockWords) * WordSize = q * BlockSize
  BY <1>1, <1>2 DEF BlockSize
<1>4. QED
  BY <1>2, <1>3 DEF q

\* An identifier given out adds its seed to those issued; a seed issued before
\* is then one of two identifiers, and what has collided stays so.
LEMMA NextIdentifier ==
  ASSUME TypeInv, opens < MaxOpens, opens' = opens + 1
  PROVE  /\ Folded[opens + 1] \in Issued' /\ Issued \subseteq Issued'
         /\ Folded[opens + 1] \in Issued => Folded[opens + 1] \in Collided'
         /\ Collided \subseteq Collided'
<1>1. opens \in Nat /\ opens + 1 \in 1 .. opens' /\ opens + 1 \notin 1 .. opens
      /\ \A i \in 1 .. opens : i \in 1 .. opens'
  BY CryptographyAssumption DEF TypeInv, OpenTypes
<1>2. Collided \subseteq Collided'
  BY <1>1 DEF Collided
<1>3. ASSUME Folded[opens + 1] \in Issued PROVE Folded[opens + 1] \in Collided'
  <2>1. PICK i \in 1 .. opens : Folded[i] = Folded[opens + 1]
    BY <1>3 DEF Issued
  <2>2. i \in (1 .. opens') \ {opens + 1}
    BY <1>1, <2>1
  <2>3. QED
    BY <1>1, <2>1, <2>2 DEF Collided
<1>4. QED
  BY <1>1, <1>2, <1>3 DEF Issued

\* The invariant holds at the beginning.
LEMMA StreamAtInit == Init => StreamInv
<1> SUFFICES ASSUME Init PROVE StreamInv
  OBVIOUS
<1>1. \A t \in Threads : generator[t].seed = Unseeded /\ seed[t] = Unseeded /\ drawing[t] = NULL /\ pc[t] = "idle"
  BY DEF Init
<1>2. given = {} /\ opens = 0 /\ repeated = {} /\ torn = {} /\ ~incomplete
  BY DEF Init
<1>3. QED
  BY <1>1, <1>2 DEF StreamInv, AgeInv, FreshInv, HolderInv, PastInv, BytesGivenOnce, Opening, Single, Live

\* Opening and getting keep it.
LEMMA OpenStreamStep ==
  ASSUME TypeInv, StreamInv, NEW t \in Threads, Open(t) \/ GetCryptographyProvider(t)
  PROVE  StreamInv'
<1>0. UNCHANGED <<length, written, drawing, fills, asked, incomplete, given, repeated, torn>>
  BY DEF fillVars, Open, GetCryptographyProvider, UuidCreate, UuidCreateFails, TestProvider, Allocate, Seed, SeedFails
<1>1. BytesGivenOnce' /\ \A u \in Threads : pc'[u] = "rest" => length'[u] <= BlockSize
  <2>1. \A u \in Threads : pc'[u] = "rest" => pc[u] = "rest"
    BY DEF Open, GetCryptographyProvider, UuidCreate, UuidCreateFails, TestProvider, Allocate, Seed,
           SeedFails, Call, Return, Go, TypeInv, CallTypes
  <2>2. Collided \subseteq Collided'
    <3>1. CASE UuidCreate(t)
      BY <3>1, NextIdentifier DEF UuidCreate
    <3>2. CASE UNCHANGED opens
      BY <3>2 DEF Collided
    <3>3. QED
      BY <3>1, <3>2 DEF Open, GetCryptographyProvider, UuidCreateFails, TestProvider, Allocate, Seed, SeedFails, openVars
  <2>3. QED
    BY <1>0, <2>1, <2>2 DEF StreamInv, BytesGivenOnce
<1>2. CASE UuidCreate(t)
  <2> DEFINE new == Folded[opens + 1]
  <2>1. /\ pc[t] = "idle" /\ pc' = [pc EXCEPT ![t] = "test"] /\ opens' = opens + 1 /\ opens < MaxOpens
        /\ seed' = [seed EXCEPT ![t] = new] /\ UNCHANGED <<generator, provider>>
    BY <1>2 DEF UuidCreate, Call, Go, getVars, Merged
  <2>2. new # Unseeded
    BY <1>2, IdentifierSeeds DEF UuidCreate, Merged
  <2>3. new \in Issued' /\ Issued \subseteq Issued' /\ (new \in Issued => new \in Collided') /\ Collided \subseteq Collided'
    BY <2>1, NextIdentifier
  <2> HIDE DEF new
  <2>4. seed'[t] = new /\ \A u \in Threads \ {t} : seed'[u] = seed[u] /\ pc'[u] = pc[u]
    BY <2>1 DEF TypeInv, OpenTypes, CallTypes
  <2>5. AgeInv'
    BY <1>0, <2>1, <2>3, <2>4 DEF StreamInv, AgeInv
  <2>6. ASSUME new \notin Issued, NEW c \in Threads
        PROVE  generator[c].seed # new /\ (drawing[c] # NULL => drawing[c].seed # new) /\ seed[c] # new
    BY <2>2, <2>6 DEF StreamInv, AgeInv
  <2>7. ASSUME new \notin Issued PROVE Unused(new)
    <3>1. given \subseteq Seeds \X Nat
      BY DEF TypeInv, DrawTypes
    <3>2. \A b \in Nat : <<new, b>> \notin given
      BY <2>2, <2>7, <3>1 DEF StreamInv, AgeInv
    <3>3. QED
      BY <2>2, <2>6, <2>7, <3>2 DEF Unused
  <2>8. FreshInv'
    <3>1. \A u \in Threads : pc'[u] \in Opening /\ seed'[u] \notin Collided' => Unused(seed'[u])
      BY <2>3, <2>4, <2>7 DEF StreamInv, FreshInv
    <3>2. \A u \in Threads : pc'[u] \in Opening /\ seed'[u] \notin Collided' => Unused(seed[u])'
      BY <1>0, <2>1, <3>1 DEF Unused
    <3>3. \A u, v \in Threads :
            pc'[u] \in Opening /\ pc'[v] \in Opening /\ seed'[u] = seed'[v] /\ seed'[u] \notin Collided' => u = v
      BY <2>3, <2>4, <2>6 DEF StreamInv, FreshInv
    <3>4. QED
      BY <3>2, <3>3 DEF FreshInv
  <2>9. HolderInv' /\ PastInv'
    <3>1. \A s : (Single(s)' => Single(s)) /\ (Live(s)' => Live(s))
      BY <1>0, <2>3 DEF Single, Live
    <3>2. QED
      BY <1>0, <2>1, <3>1 DEF StreamInv, HolderInv, PastInv
  <2>10. QED
    BY <1>1, <2>5, <2>8, <2>9 DEF StreamInv
<1>a. ASSUME UNCHANGED opens PROVE Issued' = Issued /\ Collided' = Collided
  BY <1>a DEF Issued, Collided
<1>b. ASSUME UNCHANGED opens, NEW s PROVE (Single(s)' <=> Single(s)) /\ (Live(s)' <=> Live(s))
  BY <1>0, <1>a, <1>b DEF Single, Live
<1>3. CASE UuidCreateFails(t) \/ TestProvider(t) \/ Allocate(t) \/ SeedFails(t)
  <2>1. UNCHANGED <<generator, provider, seed, opens>>
    BY <1>3 DEF UuidCreateFails, TestProvider, Allocate, SeedFails, openVars, getVars
  <2>2. \A u \in Threads : pc'[u] \in Opening => pc[u] \in Opening
    BY <1>3 DEF UuidCreateFails, TestProvider, Allocate, SeedFails, Go, Return, TypeInv, CallTypes, Opening
  <2>3. AgeInv' /\ HolderInv' /\ PastInv'
    BY <1>0, <1>a, <1>b, <2>1 DEF StreamInv, AgeInv, HolderInv, PastInv
  <2>4. FreshInv'
    BY <1>0, <1>a, <2>1, <2>2 DEF StreamInv, FreshInv, Unused
  <2>5. QED
    BY <1>1, <2>3, <2>4 DEF StreamInv
<1>4. CASE Seed(t)
  <2> DEFINE c == s_cryptoProvider
  <2>1. /\ pc[t] \in Opening /\ c \in Threads /\ pc' = [pc EXCEPT ![t] = "idle"]
        /\ generator' = [generator EXCEPT ![c] = [seed |-> seed[t], words |-> 0]]
        /\ UNCHANGED <<seed, opens, provider>>
    BY <1>4 DEF Seed, NeedsSeed, Return, Go, getVars, TypeInv, OpenTypes, PlaceInv, Opening
  <2>2. Single(seed[t]) => Unused(seed[t])
    BY <2>1 DEF StreamInv, FreshInv, Single
  <2>3. generator'[c] = [seed |-> seed[t], words |-> 0] /\ \A d \in Threads \ {c} : generator'[d] = generator[d]
    BY <2>1 DEF TypeInv, CallTypes
  <2>4. generator'[c].seed = seed[t]
    BY <2>3
  <2> HIDE DEF c
  <2>5. AgeInv'
    BY <1>0, <1>a, <2>1, <2>3, <2>4 DEF StreamInv, AgeInv
  <2>6. FreshInv'
    <3>1. \A u \in Threads : pc'[u] \in Opening => u # t /\ pc[u] \in Opening
      BY <2>1 DEF TypeInv, CallTypes, Opening
    <3>2. \A u \in Threads : pc'[u] \in Opening /\ seed[u] \notin Collided => Unused(seed[u]) /\ seed[u] # seed[t]
      BY <2>1, <3>1 DEF StreamInv, FreshInv
    <3>3. \A u \in Threads : pc'[u] \in Opening /\ seed[u] \notin Collided => Unused(seed[u])'
      BY <1>0, <2>1, <2>3, <2>4, <3>2 DEF Unused
    <3>4. QED
      BY <1>a, <2>1, <3>1, <3>3 DEF StreamInv, FreshInv
  <2>7. HolderInv'
    BY <1>0, <1>b, <2>1, <2>2, <2>3, <2>4 DEF StreamInv, HolderInv, Unused
  <2>8. PastInv'
    BY <1>0, <1>b, <2>1, <2>2, <2>3, <2>4 DEF StreamInv, PastInv, Live, Unused
  <2>9. QED
    BY <1>1, <2>5, <2>6, <2>7, <2>8 DEF StreamInv
<1>5. CASE GetCryptographyProvider(t)
  <2>1. /\ provider' = [provider EXCEPT ![t] = s_cryptoProvider] /\ drawing[t] = NULL
        /\ UNCHANGED <<seed, opens, generator, pc>>
    BY <1>5 DEF GetCryptographyProvider, openVars, TypeInv, PlaceInv
  <2>2. AgeInv' /\ FreshInv' /\ PastInv'
    BY <1>0, <1>a, <1>b, <2>1 DEF StreamInv, AgeInv, FreshInv, PastInv, Unused
  <2>3. HolderInv'
    BY <1>0, <1>b, <2>1 DEF StreamInv, HolderInv, TypeInv, CallTypes
  <2>4. QED
    BY <1>1, <2>2, <2>3 DEF StreamInv
<1>6. QED
  BY <1>2, <1>3, <1>4, <1>5 DEF Open

\* A CRYPTOFILL that ends gives bytes that were not given, unless its generator
\* was used meanwhile or has not the seed of one identifier; n of the bytes of w words are written.
LEMMA DrawnStream ==
  ASSUME TypeInv, StreamInv, NEW t \in Threads, NEW w \in Nat, NEW n \in Nat, n <= w * WordSize,
         Drawn(t, w, n), pc'[t] \notin Opening, \A u \in Threads \ {t} : pc'[u] = pc[u]
  PROVE  AgeInv' /\ FreshInv' /\ HolderInv' /\ PastInv' /\ repeated' \subseteq torn' \cup {Unseeded} \cup Collided'
<1> DEFINE c  == provider[t]
           g  == drawing[t]
           g2 == [g EXCEPT !.words = @ + w]
<1>1. /\ g \in State /\ c \in Threads /\ g # NULL
      /\ UNCHANGED <<openVars, getVars>> /\ drawing' = [drawing EXCEPT ![t] = NULL]
      /\ generator' \in [Threads -> State] /\ WordSize \in Nat
  BY DrawnTypes, CryptographyAssumption DEF Drawn, TypeInv, DrawTypes, CallTypes, PlaceInv
<1>2. g2.seed = g.seed /\ g2.words = g.words + w /\ g.seed \in Seeds /\ g.words \in Nat
  BY <1>1 DEF State
<1>3. \A u \in Threads : drawing'[u] # NULL => u # t /\ drawing'[u] = drawing[u] /\ drawing[u] # NULL
  BY <1>1 DEF TypeInv, DrawTypes
<1>4. UNCHANGED <<seed, opens, provider>>
  BY <1>1 DEF openVars, getVars
<1>5. given' = given \cup Bytes(g, n)
  BY DEF Drawn
<1>6. \/ generator' = [generator EXCEPT ![c] = g2] /\ torn' = torn /\ generator[c] = g
      \/ generator' = [generator EXCEPT ![c] = g2] /\ torn' = torn \cup {generator[c].seed, g.seed}
      \/ generator' = generator /\ torn' = torn \cup {generator[c].seed, g.seed}
  BY DEF Drawn
<1>7. \A s \in Seeds, b \in Nat :
        <<s, b>> \in given' => <<s, b>> \in given \/ (s = g.seed /\ b <= g.words * WordSize + n)
  BY <1>2, <1>5, <1>1 DEF Bytes
<1>8. \A p \in Bytes(g, n) : \E i \in 1 .. n : p = <<g.seed, g.words * WordSize + i>>
  BY DEF Bytes
<1>9. \A d \in Threads : d # c => generator'[d] = generator[d]
  BY <1>1, <1>6
<1>10. generator'[c] = g2 \/ generator'[c] = generator[c]
  BY <1>1, <1>6 DEF TypeInv, CallTypes
<1>11. \A d \in Threads : generator'[d].seed = generator[d].seed \/ (d = c /\ generator'[d].seed = g.seed)
  BY <1>2, <1>9, <1>10
<1>a. Issued' = Issued /\ Collided' = Collided /\ \A s : Single(s)' <=> Single(s)
  <2>1. UNCHANGED opens
    BY <1>4
  <2>2. QED
    BY <2>1 DEF Issued, Collided, Single
<1> HIDE DEF g2
<1>12. AgeInv'
  <2>1. \A d \in Threads : generator'[d].seed \in Issued \cup {Unseeded}
    BY <1>1, <1>11 DEF StreamInv, AgeInv
  <2>2. \A s \in Seeds, b \in Nat : <<s, b>> \in given' => s \in Issued \cup {Unseeded}
    BY <1>1, <1>7 DEF StreamInv, AgeInv
  <2>3. QED
    BY <1>3, <1>4, <1>a, <2>1, <2>2 DEF StreamInv, AgeInv
<1>13. FreshInv'
  <2>1. \A u \in Threads : pc'[u] \in Opening => u # t /\ pc[u] \in Opening
    OBVIOUS
  <2>2. \A u \in Threads : pc'[u] \in Opening /\ seed[u] \notin Collided => Unused(seed[u]) /\ seed[u] \in Seeds
    BY <2>1 DEF StreamInv, FreshInv, TypeInv, OpenTypes
  <2>3. \A u \in Threads : pc'[u] \in Opening /\ seed[u] \notin Collided => seed[u] # g.seed
    BY <1>1, <2>2 DEF Unused
  <2>4. \A u \in Threads : pc'[u] \in Opening /\ seed[u] \notin Collided => Unused(seed[u])'
    BY <1>3, <1>4, <1>7, <1>11, <2>2, <2>3 DEF Unused
  <2>5. QED
    BY <1>4, <1>a, <2>1, <2>4 DEF StreamInv, FreshInv
<1>14. HolderInv'
  <2>1. \A d, e \in Threads : generator'[d].seed = generator'[e].seed /\ Single(generator'[d].seed) => d = e
    BY <1>1, <1>11 DEF StreamInv, HolderInv
  <2>2. \A u, d \in Threads :
          drawing'[u] # NULL /\ Single(drawing'[u].seed) /\ generator'[d].seed = drawing'[u].seed => d = provider[u]
    BY <1>1, <1>3, <1>11 DEF StreamInv, HolderInv
  <2>3. QED
    BY <1>3, <1>4, <1>a, <2>1, <2>2 DEF StreamInv, HolderInv
<1>15. PastInv'
  <2> SUFFICES ASSUME NEW d \in Threads, NEW b \in Nat, Live(generator[d].seed)', <<generator'[d].seed, b>> \in given'
               PROVE  b <= generator'[d].words * WordSize
    BY DEF PastInv
  <2>1. Single(generator'[d].seed) /\ generator'[d].seed \notin torn' /\ torn \subseteq torn'
    BY <1>6, <1>a DEF Live
  <2>2. CASE d # c
    <3>1. generator'[d] = generator[d]
      BY <1>9, <2>2
    <3>2. generator[d].seed # g.seed
      BY <1>1, <2>1, <2>2, <3>1 DEF StreamInv, HolderInv
    <3>3. generator[d].seed \in Seeds
      BY DEF TypeInv, CallTypes, State
    <3>4. <<generator[d].seed, b>> \in given
      BY <1>7, <3>1, <3>2, <3>3
    <3>5. QED
      BY <2>1, <3>1, <3>4 DEF StreamInv, PastInv, Live
  <2>3. CASE d = c
    <3>1. generator[c] = g /\ torn' = torn /\ generator'[c] = g2
      BY <1>1, <1>2, <1>6, <2>1, <2>3 DEF TypeInv, CallTypes
    <3>2. <<g.seed, b>> \in given => b <= g.words * WordSize
      BY <1>1, <1>2, <2>1, <2>3, <3>1 DEF StreamInv, PastInv, Live
    <3>3. b <= g.words * WordSize \/ b <= g.words * WordSize + n
      BY <1>2, <1>7, <2>3, <3>1, <3>2
    <3>4. (g.words + w) * WordSize = g.words * WordSize + w * WordSize /\ g.words * WordSize \in Nat /\ w * WordSize \in Nat
      BY <1>1, <1>2, TimesSum
    <3>5. generator'[d].words = g.words + w
      BY <1>2, <2>3, <3>1
    <3>6. QED
      BY <3>3, <3>4, <3>5
  <2>4. QED
    BY <2>2, <2>3
<1>16. repeated' \subseteq torn' \cup {Unseeded} \cup Collided'
  <2>1. repeated \subseteq torn' \cup {Unseeded} \cup Collided' /\ torn \subseteq torn'
    BY <1>6, <1>a DEF StreamInv, BytesGivenOnce
  <2>2. repeated' = repeated \/ (repeated' = repeated \cup {g.seed} /\ Bytes(g, n) \cap given # {})
    BY DEF Drawn
  <2>3. CASE Bytes(g, n) \cap given # {} /\ Single(g.seed) /\ g.seed \notin torn'
    <3>1. generator[c] = g /\ torn' = torn
      BY <1>6, <2>3
    <3>2. PICK i \in 1 .. n : <<g.seed, g.words * WordSize + i>> \in given
      BY <1>8, <2>3
    <3>3. g.words * WordSize \in Nat /\ g.words * WordSize + i \in Nat
      BY <1>1, <1>2, TimesSum
    <3>4. g.words * WordSize + i <= g.words * WordSize
      BY <1>1, <2>3, <3>1, <3>2, <3>3 DEF StreamInv, PastInv, Live
    <3>5. QED
      BY <3>3, <3>4
  <2>4. QED
    BY <1>a, <2>1, <2>2, <2>3 DEF Single
<1>17. QED
  BY <1>12, <1>13, <1>14, <1>15, <1>16

\* The steps of a Fill keep it.
LEMMA FillStreamStep ==
  ASSUME TypeInv, StreamInv, NEW t \in Threads, Fill(t)
  PROVE  StreamInv'
<1>1. UNCHANGED <<openVars, getVars>>
  BY DEF Fill, FillBuffer, FillNothing, DrawBegins, FillWhole, FillRest, Drawn, DrawFails
<1>a. Issued' = Issued /\ Collided' = Collided /\ \A s : Single(s)' <=> Single(s)
  <2>1. UNCHANGED opens
    BY <1>1 DEF openVars
  <2>2. QED
    BY <2>1 DEF Issued, Collided, Single
<1>2. pc'[t] \notin Opening /\ \A u \in Threads \ {t} : pc'[u] = pc[u]
  BY DEF Fill, FillBuffer, FillNothing, DrawBegins, FillWhole, FillRest, DrawFails, FillReturns,
         Call, Return, Go, TypeInv, CallTypes, Opening
<1>3. LengthTypes' /\ length[t] \in Nat /\ written[t] \in Nat /\ length[t] + written[t] = asked[t]
  BY FillTypesStep DEF TypeInv, LengthTypes
<1>4. ASSUME UNCHANGED <<generator, given, torn>>, \A u \in Threads : drawing'[u] \in {NULL, drawing[u]}
      PROVE  AgeInv' /\ FreshInv' /\ HolderInv' /\ PastInv'
  <2>1. UNCHANGED <<seed, opens, provider>>
    BY <1>1 DEF openVars, getVars
  <2>2. AgeInv' /\ HolderInv' /\ PastInv'
    BY <1>a, <1>4, <2>1 DEF StreamInv, AgeInv, HolderInv, PastInv, Live
  <2>3. FreshInv'
    BY <1>a, <1>2, <1>4, <2>1 DEF StreamInv, FreshInv, Unused
  <2>4. QED
    BY <2>2, <2>3
<1>5. CASE \E k \in Lengths : FillBuffer(t, k)
  <2>1. PICK k \in Lengths : FillBuffer(t, k)
    BY <1>5
  <2>2. /\ pc' = [pc EXCEPT ![t] = IF k >= BlockSize THEN "whole" ELSE "rest"]
        /\ length' = [length EXCEPT ![t] = k] /\ UNCHANGED <<generator, given, torn, drawing, repeated, incomplete>>
    BY <2>1 DEF FillBuffer, Call, Go
  <2>3. k \in Nat /\ BlockSize \in Nat
    BY CryptographyAssumption DEF BlockSize
  <2>4. \A u \in Threads : pc'[u] = "rest" => length'[u] <= BlockSize
    BY <2>2, <2>3 DEF StreamInv, TypeInv, CallTypes, LengthTypes
  <2>5. BytesGivenOnce'
    BY <1>a, <2>2 DEF StreamInv, BytesGivenOnce
  <2>6. QED
    BY <1>4, <2>2, <2>4, <2>5 DEF StreamInv
<1>6. CASE \E k \in Lengths : FillNothing(t, k)
  <2>1. UNCHANGED <<length, generator, given, torn, drawing, repeated, incomplete>> /\ pc' = [pc EXCEPT ![t] = "idle"]
    BY <1>6 DEF FillNothing, Return, Go, fillVars
  <2>2. QED
    BY <1>a, <1>4, <2>1 DEF StreamInv, BytesGivenOnce, TypeInv, CallTypes
<1>7. CASE DrawBegins(t)
  <2>1. /\ provider[t] \in Threads /\ drawing[t] = NULL
        /\ drawing' = [drawing EXCEPT ![t] = generator[provider[t]]]
        /\ UNCHANGED <<seed, opens, provider, generator, pc, length, given, torn, repeated, incomplete>>
    BY <1>7 DEF DrawBegins, openVars, getVars, TypeInv, CallTypes, PlaceInv
  <2>2. drawing'[t] = generator[provider[t]] /\ \A u \in Threads \ {t} : drawing'[u] = drawing[u]
    BY <2>1 DEF TypeInv, DrawTypes
  <2>3. AgeInv' /\ HolderInv' /\ PastInv'
    BY <1>a, <2>1, <2>2 DEF StreamInv, AgeInv, HolderInv, PastInv, Live
  <2>4. FreshInv'
    BY <1>a, <2>1, <2>2 DEF StreamInv, FreshInv, Unused
  <2>5. QED
    BY <1>a, <2>1, <2>3, <2>4 DEF StreamInv, BytesGivenOnce
<1>8. ASSUME NEW value \in {"true", "false"}, NEW k \in Nat, FillReturns(t, value, k),
             value = "true" => k = length[t]
      PROVE  ~incomplete' /\ \A u \in Threads : pc'[u] = "rest" => length'[u] <= BlockSize
  <2>1. ~incomplete'
    <3>1. value = "true" => written[t] + k = asked[t]
      BY <1>3, <1>8
    <3>2. incomplete' = (incomplete \/ (value = "true" /\ written[t] + k # asked[t]))
      BY <1>8 DEF FillReturns
    <3>3. QED
      BY <1>a, <3>1, <3>2, Zenon DEF StreamInv, BytesGivenOnce
  <2>2. pc' = [pc EXCEPT ![t] = "idle"] /\ length' = [length EXCEPT ![t] = 0]
    BY <1>8 DEF FillReturns, Return, Go
  <2>3. QED
    BY <2>1, <2>2 DEF StreamInv, TypeInv, CallTypes, LengthTypes
<1>9. CASE FillWhole(t)
  <2> DEFINE words == (length[t] \div BlockSize) * BlockWords
             left  == Left(length[t], words)
  <2>1. words \in Nat /\ words * WordSize \in 0 .. length[t] /\ length[t] - words * WordSize < BlockSize
    BY <1>3, WholeBlocks, RestFits
  <2>2. Drawn(t, words, words * WordSize)
    BY <1>9 DEF FillWhole
  <2>3. left = length[t] - words * WordSize
    BY DEF Left
  <2>4. \/ left = 0 /\ FillReturns(t, "true", words * WordSize)
        \/ pc' = [pc EXCEPT ![t] = "rest"] /\ length' = [length EXCEPT ![t] = left] /\ UNCHANGED incomplete
    BY <1>9 DEF FillWhole, Go
  <2> HIDE DEF words
  <2>5. words * WordSize \in Nat
    BY <1>3, <2>1
  <2>6. AgeInv' /\ FreshInv' /\ HolderInv' /\ PastInv' /\ repeated' \subseteq torn' \cup {Unseeded} \cup Collided'
    BY <1>2, <2>1, <2>2, <2>5, DrawnStream
  <2>7. ~incomplete' /\ \A u \in Threads : pc'[u] = "rest" => length'[u] <= BlockSize
    <3>1. CASE left = 0 /\ FillReturns(t, "true", words * WordSize)
      <4>1. words * WordSize = length[t]
        BY <1>3, <2>3, <2>5, <3>1
      <4>2. QED
        BY <1>8, <2>5, <3>1, <4>1
    <3>2. CASE pc' = [pc EXCEPT ![t] = "rest"] /\ length' = [length EXCEPT ![t] = left] /\ UNCHANGED incomplete
      <4>1. BlockSize \in Nat /\ left \in Nat /\ left <= BlockSize
        BY <1>3, <2>1, <2>3, <2>5, CryptographyAssumption DEF BlockSize
      <4> HIDE DEF left
      <4>2. QED
        BY <1>a, <3>2, <4>1 DEF StreamInv, BytesGivenOnce, TypeInv, CallTypes, LengthTypes
    <3>3. QED
      BY <2>4, <3>1, <3>2
  <2>8. QED
    BY <1>a, <2>6, <2>7 DEF StreamInv, BytesGivenOnce
<1>10. CASE FillRest(t)
  <2>1. Drawn(t, BlockWords, length[t]) /\ FillReturns(t, "true", length[t]) /\ length[t] <= BlockSize
    BY <1>10 DEF FillRest, StreamInv
  <2>2. BlockWords \in Nat /\ WordSize \in Nat /\ BlockSize = BlockWords * WordSize
    BY CryptographyAssumption DEF BlockSize
  <2>3. AgeInv' /\ FreshInv' /\ HolderInv' /\ PastInv' /\ repeated' \subseteq torn' \cup {Unseeded} \cup Collided'
    BY <1>2, <1>3, <2>1, <2>2, DrawnStream
  <2>4. QED
    BY <1>a, <1>3, <1>8, <2>1, <2>3 DEF StreamInv, BytesGivenOnce
<1>11. CASE DrawFails(t)
  <2>1. FillReturns(t, "false", 0) /\ drawing' = [drawing EXCEPT ![t] = NULL] /\ UNCHANGED <<generator, given, torn, repeated>>
    BY <1>11 DEF DrawFails
  <2>2. AgeInv' /\ FreshInv' /\ HolderInv' /\ PastInv'
    BY <1>4, <2>1 DEF TypeInv, DrawTypes
  <2>3. QED
    BY <1>a, <1>8, <2>1, <2>2 DEF StreamInv, BytesGivenOnce
<1>12. QED
  BY <1>5, <1>6, <1>7, <1>9, <1>10, <1>11 DEF Fill

\* Every step keeps it.
LEMMA StreamStep == TypeInv /\ StreamInv /\ [Next]_vars => StreamInv'
<1>1. CASE UNCHANGED vars
  BY <1>1 DEF vars, openVars, getVars, fillVars, StreamInv, AgeInv, FreshInv, HolderInv, PastInv,
              BytesGivenOnce, Live, Unused, Single, Issued, Collided
<1>2. QED
  BY <1>1, OpenStreamStep, FillStreamStep DEF Next

\* A Fill that succeeds has written every byte, and no byte of a stream goes to
\* two places: for any number of threads, Opens and Fills, all sizes, and every
\* way to merge identifiers to seeds, as long as the generator was seeded, no
\* two calls used it at once, and no two identifiers were merged to its seed.
THEOREM NoByteTwice == Spec => []BytesGivenOnce
<1>1. StreamInv => BytesGivenOnce
  BY DEF StreamInv
<1>2. QED
  BY TypesAtInit, TypesStep, StreamAtInit, StreamStep, <1>1, PTL DEF Spec
=============================================================================
