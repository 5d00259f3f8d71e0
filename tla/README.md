# A TLA+ model of the PS5 layer of libil2cpp

The repository is the platform layer that libil2cpp (the runtime of compiled
.NET programs) uses on one console: sockets, directories, environment
variables, time, threads, random numbers, stack traces, libraries. Most of it
translates a POSIX-like call into one or more calls of the console's own
libraries. This directory holds TLA+ models of the parts where that
translation has *state* and *steps*, TLC configurations that check them on
small instances, and proofs checked by TLAPS for every value of the constants.

The paths below are relative to `src/libil2cpp/os/PS5/` unless they say otherwise.

## 1. The system

| Component | State | Operations | How it interacts | Hard part |
|---|---|---|---|---|
| `MultiplexIO` (`MultiplexIO.cpp`) | one epoll object that lives as long as the owner | `Poll`, `InterruptPoll`, constructor, destructor | the poller thread is in `Poll`; other threads interrupt it and use, close and reopen the sockets | interruption before the wait, registrations left behind, several requests for one socket |
| `poll()` (`Sockets.cpp`, `MultiplexIO::poll`) | an epoll object on its stack | `poll` | shares only the sockets with other threads | refused registrations, a full table, the result replaced by a later error, width of the timeout |
| Host resolver (`Sockets.cpp`) | static results: per thread in `gethostbyname`, shared in `gethostbyaddr`; a memory pool and a resolver per call | `gethostbyname`, `gethostbyaddr` | threads share the statics and the supply of pools | answers of one thread seen by another, pools leaked on failure paths |
| `sendfile`, `setBlocking` (`Sockets.cpp`) | buffer, length; the mode of the socket | one call each | a file and a socket whose owner may change its mode meanwhile | retries, short sends, freeing the buffer, an uninitialised answer |
| Other socket functions | none | `gethostname`, `inet_addr`, `get_local_ips`, `ioctl`, `dup2` | one libnet query each | - |
| Directory search (`Directory.cpp`) | handle: descriptor, buffer, position, length | `FindFirstFile`, `FindNextFile`, `CloseOSHandle` | other threads delete files | buffer boundaries, deleted entries, descriptor ownership |
| Directory listing (`Directory.cpp`) | local: descriptor, buffer, names | `GetFileSystemEntries`, `DirectoryGlob` | other threads delete files and change attributes | the time between reading names and reading attributes, error causes |
| Directory, rest | a string, no lock | `GetCurrent`, `SetCurrent`, `Create`, `Remove` | - | overlapping assignments of a string |
| Environment (`Environment.cpp`) | the map `s_env`, created lazily; `homeDirectory`; `s_datafolder` | `setenv`, `getenv`, `unsetenv`, `Set/GetEnvironmentVariable`, `GetOsUserName`, `GetHomeDirectory`, `SetDataFolder` | all threads, no lock | lazy creation, pointers into the map, check-then-assign |
| Cryptography (`Cryptography.cpp`) | one provider, created lazily | `Open`, `Get`, `Release`, `Fill` | all threads, no lock | double creation, re-seeding under a reader, whole blocks and a rest |
| Stack traces, image | none | `WalkStackNative` | a callback | order, bounds of the walk |
| Library loader | none | `ProbeForLibrary` | reads the data folder for every relative name it tries | the order of names tried, suffixes that are there already, a folder that changes, short names |
| Threads, time, locale | none | conversions before or after one call | - | widths and truncation |
| Initialize, path | flag `g_TemporaryDataIsMounted`, the mount point | `Initialize`, `GetTempPath` | `GetTempPath` reads the flag | called too early, or after a failure |
| Atomics, console, assert, image, headers | none | one call each | - | - |

What makes each component correct, in a sentence: a `Poll` answers exactly what
was asked and leaves nothing behind, an interrupt ends it; `poll()` never says
"fine" about a socket it did not watch; a resolver's answer is the answer to
the caller's question; `sendfile`'s success means that the file was sent; a
search returns every file once; a listing returns what was there; a variable
that was set is there; random bytes are given once, by a generator that was
seeded; a stack walk passes on each frame once, in order; a probe loads the best
match there is; nothing leaks except where stated.

## 2. Modules

| Module | Models |
|---|---|
| `PollEvents` | the bits of readiness in three vocabularies, `vals` and the two `Remap` functions of `MultiplexIO.cpp`; the flag conversions of `os/Posix/PosixHelpers.h` (not in the repository) |
| `SceEpoll` | libnet's epoll as `MultiplexIO.cpp` relies on it (external) |
| `MultiplexIO` | the long-lived object, `Poll` and its surroundings; extends `SceEpoll` |
| `UnixPoll` | `poll()` and `MultiplexIO::poll`; extends `SceEpoll` |
| `FileEnumeration` | abstract: what a search promises |
| `DirectorySearch` | `FindFirstFile`, `FindNextFile`, `CloseOSHandle`; implements `FileEnumeration` |
| `DirectoryEntries` | `GetFileSystemEntries`, both `DirectoryGlob`, `Create`, `Remove`, `sceErrnoToErrorCode` |
| `HostResolver` | `gethostbyname`, `gethostbyaddr` |
| `SendFile` | `sendfile` |
| `SocketBlocking` | `setBlocking` |
| `BlockingSend` | both on one socket; extends the two |
| `Environment` | `setenv`, `getenv`, `unsetenv` and what `os::Environment` builds on them |
| `Cryptography` | `OpenCryptographyProvider`, `GetCryptographyProvider`, `FillBufferWithRandomBytes` |
| `StackWalk` | `WalkStackNative`, both builds |
| `LibraryLoader` | `ProbeForLibrary`, with `SetDataFolder` and `GetDataFolder` |
| `Startup` | `Initialize`, `GetTempPath` |
| `MCPlatform` | the last three in one run, one at a time: they share nothing |
| `MC...` | an instance of the module for TLC |
| `MultiplexIO_proofs`, `UnixPoll_proofs`, `DirectorySearch_proofs`, `DirectoryEntries_proofs`, `HostResolver_proofs`, `BlockingSend_proofs`, `Cryptography_proofs` | theorems about the module of that name, and their proofs |
| `Platform_proofs` | the same for `StackWalk`, `LibraryLoader`, `Startup`, their composition `MCPlatform`, and `Environment` |

Conventions. The variables keep the names of the source where they exist there;
those marked *history* record what happened for the properties and are never
read by a guard. One step is one call of the platform's libraries, or one
round of a loop up to the next such call: between two calls a function touches
only its own locals. A definition commented as a *mutant* is a wrong version of
the one that follows it: it belongs to no behaviour of the model, and is there
to show that the property named for it in `PROJECT.json` notices the mistake.

### MultiplexIO

`pc` is the pass `Poll` is in: `add` (lines 105-114), `wait` (122-140), `del`
(143-148). `StartPoll` is everything before the first `CTL_ADD`, that is the
merge loop; `RejectPoll` the two early returns, which touch nothing. `Return`
is the matching pass. The array `epoll_events` is the set of its entries; the
passes treat each entry alike and the model takes them in any order, which
allows more behaviours than the code. A mask is a set of bits.

The owner has one poller per object and destroys the object when no `Poll` is
running; both are the caller's contract and not enforced in `src/`. Several
threads may call `InterruptPoll`. Assumed of libnet, from the way the code uses
it: level-triggered reporting, at most one registration per socket,
`CTL_ADD` of a closed or registered socket fails, a close ends registrations, an
abort with the preservation flag is kept for, and consumed by, one wait.

### UnixPoll

Entries are taken one after the other (`fds_idx`), because here the order
matters: of two entries for one socket only the first is registered, and the
`CTL_DEL` of the second fails and becomes the result. `events_idx` counts the
places used, also by refused controls; the loop breaks when the table is full.

### HostResolver

A call goes through pool, resolver, query, resolver destroyed, pool destroyed,
and each of the libnet calls may fail. The failure of `sceNetPoolCreate` is not
tested by the code; it shows as a failing `sceNetResolverCreate`. The static
variables a caller reads through the returned pointers are variables of the
model. An address is one value (`AF_INET`, four bytes). A pool in use is not
destroyed (assumed of libnet), and `sceNetPoolDestroy` may fail for any other
reason too: the call then returns `NULL` and the pool stays, as in the code.
The pools are bounded, as the libnet supply is: a leaked pool is gone.

Two histories serve the properties. `held` is the question of the thread's last
`gethostbyname` that answered: it outlives the `gethostbyaddr` calls the thread
makes afterwards, since the caller still has the pointer. `failed` is the set of
libnet calls that have failed in the present call; it is recorded in
`abandoned` if the call leaves its pool.

### SendFile, SocketBlocking, BlockingSend

`n` is both length and result, as in the code, so a send repeated after
`SCE_NET_EAGAIN` has the length -1. What the socket takes then is any number of
bytes, bounded by `BufferSize + 1` in the model. `offset` and `count` are
ignored by the code and absent from the model.

`setBlocking` prints a failing libnet call and goes on. When the option cannot
be read back, the value that is compared is uninitialised: either value, so that
0 may be returned for a socket whose mode is another. `BlockingSend` joins the two
by the only thing they share, the mode: a send is refused with
`SCE_NET_EAGAIN` only while the socket does not block.

### DirectorySearch and DirectoryEntries

`sceKernelGetdents` returns any positive number of entries up to a buffer full,
zero at the end, or an error at any time. Names have no characters; what the
pattern matches is a constant. The `d_fileno` of a file is what it was when the
buffer was filled: a file deleted later is noticed only by its attributes.
Files are deleted, not created: POSIX leaves open whether a reader sees a new
entry. `FileEnumeration` has no descriptor and no buffer; the mapping turns a
search into its position in the listing, `offset` less what is unread.
`Create` and `Remove` are one system call each and take place between listings,
as a caller would use them: what a listing makes of them is checked.

### Environment

Threads interleave between the test of `s_env` and its creation, between
`getenv` and the copy of the characters, and between the three steps of
`GetHomeDirectory`. One operation on the `std::map` is one step: two that really
overlap are undefined behaviour, and nothing is claimed about them. A pointer
into an erased value shows `Garbage`. The map that a second creation drops is
leaked, so pointers into it stay valid.

### Cryptography

A context has the name of the thread that allocated it. `Open` is four steps:
the kernel's identifier, the test, the allocation, and the seeding of whichever
context `s_cryptoProvider` is by then. A generator is its seed and how many words
it gave; byte *b* of the stream of seed *s* is the pair of both, so that "the
same random byte" is an equality. A `CRYPTOFILL` takes the state when it begins and
writes it back when it ends; if the state changed in between, either remains.
What the fields of an identifier are merged to is the constant function `Folded`,
which may be any: the code folds an identifier to 32 bits, so that two identifiers may
be merged to one seed, and the generator then repeats a stream (`Collided`).
The result of `CRYPTOINIT` is not looked at: when it fails (`SeedFails`), `Open` returns
true and the generator is what it was, unseeded the first time. An allocation that
fails in `Open` is left out: the seeding would go through a null pointer.

### StackWalk, LibraryLoader, Startup

Frame 1 of `StackWalk` is index 0 of the code. In the newer build, reversed, the loop
ends before it: the model keeps that, and `WalkedInOrder` names it as the only
frame left out. `frames` counts on an unsigned number; an empty stack makes
`num - 1` the integer -1, and no round of the loop.

In `LibraryLoader` a name is a stem and its extensions. Each of the three names that a
probe tries is completed by `.prx` unless it has it (in any case; `.PRX` stands for every other spelling), looked for in
the data folder of that moment, and the search goes on only if it was not there.
`SetDataFolder` copies and then terminates; in between, the array holds `Half`.

`Startup` is four calls that may fail, and readers that test the flag and then read
the mount point.

## 3. What TLC checks

| Run | Instance | Shows |
|---|---|---|
| `Poll` | 3 sockets, a table of 3, five request vectors, timeouts -1, 0, one that fits and one that wraps | `NoDuplicateAdd`, `RegistrationsReturned`, `AnswersExact`, `NoLostInterrupt`; `InterruptReturns`, `TimeoutReturns`, `ReadyReturns` |
| `UnixPoll` | 3 sockets, a table of 2, six vectors, timeouts -1, 0 and one that wraps | `NothingDroppedSilently`, `AnswersExact`; `LimitedPollEnds`, `ReadyPollEnds` |
| `DirectorySearch` | 5 entries, a buffer of 2, one not matching, one unreadable | `ListingComplete`, `OwnsItsDescriptor`, `CallsReturn`, `Enumerates` (refinement) |
| `DirectoryEntries` | 4 entries with ".", a buffer of 2, two patterns and the empty one, three ways to fail | `EntriesComplete`, `EntriesJustified` |
| `HostResolver` | 2 threads, 2 hosts with their addresses, 2 pools (pools symmetric, and the hosts together with their addresses) | `ByNameAnswerStays`, `ByAddrExactIfAlone`, `PoolsAbandonedOnlyWhen` |
| `BlockingSend` | a file of 4, a buffer of 3, a mode that changes | `OutputExact`, `BlockingNeverRetries`, `CallsReturn` |
| `Environment` | 2 threads, 2 names, 2 values (threads and values symmetric) | `PointerValidUntilErased`, `VariablesLostOnlyByRace`, `HomeStays` |
| `Cryptography` | 2 threads (symmetric), blocks of two words of two bytes, lengths 0, 4 and 9, three opens, of which the first and the third have the same seed, three fills | `BytesGivenOnce`, `SeededAfterOwnOpen` |
| `Platform` | stacks of up to 4 frames, both builds; seven names, eight files, two folders; two readers | `WalkedInOrder`, `BestLibraryLoaded`, `TempPathSettles` |

Each passing run also checks the module's `TypeOK`, which says more than types where
the code has a bound or an account to keep: the merged requests of `Poll` and the
places `poll()` uses fit the table, the attributes a search reads are those of the entry
it took last, a fill accounts for each byte, no resolver is created without a pool.
Every property has a mutant that breaks it, listed in `PROJECT.json`.

Why the bounds are enough. Two requests for one socket, one for another and one
for none are what the merge distinguishes; a third socket fills the table.
`IntMax = 32767` with `Scale = 10000` lets the timeout 4 wrap as 214749 does in
32 bits; the code's own width appears in nothing else. Five entries through a
buffer of two give full, partial and last buffers, with deletions before and
after each is filled; four bytes through a buffer of three give two reads and
short ones. The lengths 0, 4 and 9 are nothing, a whole block, and blocks with a
rest; three opens and fills give a re-seeding under a fill and a fill after it, with
a seed of its own and with one that was used before.
The names have no extension, `.dll`, `.prx` in either case, and two; four frames are
the empty stack, a single frame, and user's frames before and after others. Two threads and two pools give one
call in the middle of another's, and a leak that starves both. Threads
interact pairwise in `Environment`; a third adds no new kind of overlap.

Three runs end in a violation on purpose: they check sentences of the repository
that the code does not keep.

| Run | The repository says | The code does |
|---|---|---|
| `Poll_TimeoutInMicroseconds` | `MultiplexIO.cpp:119` "milliseconds -> microseconds" | multiplies with 10000 |
| `UnixPoll_NoDuplicateAdd` | `MultiplexIO.cpp:175` "we have to merge" | `poll` does not merge |
| `Environment_SetOverwrites` | `Environment.cpp:120` "1 means overwrite" | `std::map::insert` keeps the old value |

The models also show, inside properties that hold, more facts worth knowing:

- `gethostbyaddr` leaks its pool when its query fails, and both functions when the
  resolver cannot be created or `sceNetPoolDestroy` fails (`PoolsAbandonedOnlyWhen` has
  to allow it);
- `sendfile` promises nothing once a send was repeated (`OutputExact` has to exclude
  it), which a socket that blocks rules out (`BlockingNeverRetries`);
- `Poll` refuses 16 sockets for a table of 16 (`Rejected`), and the time limit of
  `poll()` is one only if its product with 10000 fits 32 bits (`LimitedPollEnds`);
- two threads that open the cryptography provider for the first time together
  may leave one of them with a context that nobody seeded, and a fill
  before the seeding, or under a re-seeding, may undo it (`SeededAfterOwnOpen` has
  to exclude all of this); fills that overlap may give the same bytes twice, and
  so may two identifiers that are merged to the same 32 bits (`BytesGivenOnce` has to
  exclude both);
- a reversed walk of the newer build leaves out the frame called last
  (`WalkedInOrder`);
- a probe during `SetDataFolder` may look for a library in half a folder, or for each
  name in another one (`BestLibraryLoaded`).

### Fairness

`MultiplexIO`, `UnixPoll`, `DirectorySearch`: weak fairness of
the steps of the thread inside the call. It says that a thread which can run
does, and that a wait with a lasting reason to return (an abort, a report, an
expired limit) returns; a wait without a reason may last for ever. Nothing is
assumed of callers, sockets or other threads. `BlockingSend`: strong fairness of a
read that returns and of a send that returns, because a signal or a full socket
may recur but not for ever; without it the retry loops need not end. The other
modules state safety only: they have no loop, or a loop over a finite table, or,
in `DirectoryEntries`, that of `DirectorySearch`.

## 4. What is proved

The theorems hold for every value of the constants that satisfies the `ASSUME`
of the module (TLC evaluates it on every run).

`MultiplexIO_proofs`, about `MultiplexIO` (assumption `MultiplexAssumption`: `NoFd` is
no socket, the sockets are finitely many, numbers are numbers):

- `TypeCorrect`: `Spec => []TypeOK`. That the merged requests fit the table is the
  lemma `MergedFits`: the merge makes no more entries than there are sockets asked
  for, by a surjection, and `Poll` has refused a call that asks for too many.
- `NeverAddedTwice`, `NothingLeftRegistered`: from the invariant `RegistrationInv`,
  which says for each pass which entries may be registered: none outside `Poll`;
  only entries already taken out of `pending` during `add`; only entries of this
  call during `wait`; only entries still `pending` during `del`. Neither property
  is inductive alone: what is on the list at the end depends on what the passes
  have not reached yet. That `epoll_events` has one entry per socket is needed
  too, and follows from the merge.
- `InterruptKept`: from `InterruptInv`, that an interrupt since the entry of `Poll`
  leaves `aborted` set as long as the wait has not consumed it.
- `AnswersCorrect`: from `AnswerInv`, that what the wait brought is exact for the
  registered sockets; `Return` turns it into exact answers by the lemmas on the
  conversion tables (`BackThroughTables`, `ForthThroughTables`,
  `MaskThroughTables`), the lemmas `MergedAsks` and `MergedUnique` on the merge,
  and `ReturnExact`. The tables are the code's: a row lost from `vals` is a proof
  that fails.

`UnixPoll_proofs`, about `UnixPoll` (assumption `UnixPollAssumption`: `NoFd` is no
socket, the calls are vectors of entries, what a socket shows are libnet's bits):

- `PollTypeCorrect`: `Spec => []TypeOK`, with `TypeInv`, which adds that the list of
  interest and the results are finite; they are built entry by entry.
- `PollDropsNothing`, `PollAnswersExactly`: from `AnswerInv`. `ListInv` says that the
  list holds entries of the vector, one for a socket; `ResultsInv` what the wait
  brought; and `DoneInv` that, as long as there is no error, the entries the second
  loop has been at had a socket on the list that no other of them had. The last is
  why nothing is dropped: a failing `CTL_DEL` is the only witness of an entry that was
  not registered, and only because the loop deletes each socket from a list that
  has it once. The number returned is matched to the entries by a bijection
  between the results and the entries that were answered.

`DirectorySearch_proofs`, about `DirectorySearch` (assumption `SearchAssumption`: the
listing has no name twice, a buffer holds at least one entry, `NULL` is no
descriptor, the answers are not names):

- `SearchTypeCorrect`, `DescriptorOwned`: parts of the invariant `SearchInv`.
- `SearchEnumerates`: `Spec => Enumerates`, the refinement. The strengthening is
  `BufferInv`: the buffer is the piece of the listing that ends at the kernel's
  `offset`, and the entry whose attributes are to be read is the one taken last.
  Without it a `Deliver` of the abstract module could not be matched to the name.
- `SearchComplete`: from `CompleteInv`, that of the entries the search has dealt with
  (those before `offset` that are neither unread nor at their attributes) none is
  missing that could still be returned. At the end of the listing all are dealt with.

`DirectoryEntries_proofs`, about `DirectoryEntries` (assumption `EntriesAssumption`: no
name twice, a buffer holds at least one entry, the empty pattern is a case of its
own):

- `EntriesTypeCorrect`: `TypeOK` is inductive; it holds that the descriptor is open in
  exactly the passes `glob` and `close`.
- `EntriesAllReturned`: from `PlaceInv`, which says where a file that has to be returned
  is: in the result of the glob or still in the buffer; then in the result of the
  glob; then in that or in the final result.
- `EntriesAllJustified`: from `CallInv`, that during a call the files with the attributes
  asked for are those the history counts.

`HostResolver_proofs`, about `HostResolver` (assumption `ResolverAssumption`: each host
has an address and no two the same, `NULL` and `NoPool` are none of the others):

- `ResolverTypeCorrect`: from `TypeInv`, in parts: where a call is, what it has
  in hand, what its answers are.
- `ByNameAnswerKept`: from `ByNameInv`, about the question in `held`: what a thread
  was answered by name stays, through its own `gethostbyaddr` calls too, until it
  asks by name again. The lemma `OthersUntouched`, that a step
  of one thread leaves what another has to itself, carries each thread's part
  through the steps of the others.
- `ByAddrAnswerExact`: from `ByAddrInv`; a call that is alone is the only one in
  `gethostbyaddr` (`Apart`), and only then does the same argument hold for
  the shared statics.
- `PoolsLeftOnlyWhen`: from `OwnerInv`, that a pool has one owner at most and
  that its owner destroys it or records the calls that failed: a resolver that could
  not be created, a resolver or a pool that could not be destroyed, or, in
  `gethostbyaddr` only, the query.

`BlockingSend_proofs`, about `BlockingSend` (assumption `SendFileAssumption`: a buffer
holds at least one byte, `Junk` is no byte of the file):

- `CopyTypeCorrect`: `SystemSpec => []TypeOK`. A first send has the length of the
  read before it, so that it is positive and at most a buffer; only a send that
  is repeated has the length -1.
- `PromiseKept`: from `PromiseInv`, that a promise holds only while the option is
  off and no `setBlocking` is under way. The promise made by a call that returned is
  what a later `sendfile` relies on, so it must be part of the invariant.
- `OutputIsExact`: from `ExactInv`, that before a send the buffer ends with the byte
  of the file that was read last, and that what was lost lies before it. The lemma
  `SentExact` then shows that a send, short or not, appends the next bytes in order.

`Cryptography_proofs`, about `Cryptography` (assumption `CryptographyAssumption`: `NULL`
is no thread, words and blocks are not empty, and `Folded` gives each identifier a
seed, which is not the label of an unseeded context; two identifiers may have the same):

- `CryptographyTypeCorrect`: from `TypeInv`, which adds to the types in which passes
  of a call a thread has a provider and a generator in use. The lemma `WholeBlocks`
  shows that the whole blocks never exceed what is left of the buffer.
- `SeededForWhoOpened`: from `SeededInv`. As long as one context was allocated at
  most and nobody drew from it while it was seeded (`Undisturbed`), every provider
  held is `s_cryptoProvider`, and that is seeded once an `Open` has returned.
- `NoByteTwice`: from `StreamInv`. Seeds come from the identifiers given out (`AgeInv`);
  and of the seeds that no two identifiers share (`Collided` has the others), an
  `Open` under way has one that gave nothing yet (`FreshInv`), none moves from one context
  to another (`HolderInv`), and a generator that no two calls used together is past
  every byte it gave (`PastInv`). The lemma `NextIdentifier` shows that a new identifier
  is either merged to a seed never given out or makes its seed one of `Collided`. The lemma `RestFits` shows that the
  rest is less than a block.

`Platform_proofs`, first about `StackWalk` (assumption `WalkAssumption`), `LibraryLoader`
(assumption `LoaderAssumption`: a name is a stem with a list of extensions, half a
folder is no folder) and `Startup` (assumption `StartupAssumption`):

- `WalkOrderCorrect`: `WalkSpec => []WalkedInOrder`, from `WalkInv`. What the
  callback received is ordered (`ReceivedInv`); during the loop, `next` separates
  the frames passed on from the others (`LoopInv`); afterwards, what is missing
  was not reached or comes after the stop (`OverInv`).
- `ProbeLoadsBest`: `LoaderSpec => []BestLibraryLoaded`, from `ProbeInv`: what was
  passed over is absent from the folder looked in (`Absent`). The lemmas
  `AcceptableShape` and `LooksFor` match the names the code builds step by step
  with the list that says what should be found.
- `TempPathSettlesAlways`: an action property, from `MountInv`: the mount point
  is written before the flag, so that who finds the flag finds the path.
- `PlatformTypeCorrect`, `PlatformKeepsPromises`: the composition that TLC checks keeps
  the types and all three promises, by the lemma `PlatformNext`: each of its steps
  is a step of one component and a stutter of the others.

and then about `Environment` (assumption `EnvironmentAssumption`: there is a variable
`HOME`, finitely many threads, `NULL` is no value and no map, and `Garbage` neither
`NULL` nor a value):

- `EnvTypeCorrect`: `EnvSpec => []EnvTypeOK`, with `MapInv`. That no more maps are created
  than there are threads holds because a thread that creates one found none:
  those that still will (`Creating`) were there before the first was created.
- `VariablesKept`: from the rest of `MapInv`. Without the race there is one map at most,
  and nobody left to create another.
- `PointersGood`: from `PointerInv`, that a pointer into the present map shows the
  value the map has. It rests on the same fact as the run
  `Environment_SetOverwrites`: an insertion never changes a value that is there.
- `HomeAnswerStays`: an action property, from `HomeInv`: without the race one thread at
  most is in `GetHomeDirectory`, and it assigns only what nobody has answered yet.

Only model-checked: liveness under fairness (`InterruptReturns`, `TimeoutReturns`,
`ReadyReturns`, `LimitedPollEnds`, `ReadyPollEnds`, and `CallsReturn` of two modules),
because ENABLED is outside the prover; and the three runs that end in a
violation, which are counterexamples. Every invariant and every action property
of the passing runs has a theorem.

## 5. Not modelled, and the plan

All of the components with state and steps are modelled. Left in the plan:

1. `GetEnvironmentVariableNames` in `Environment`, if a meaning is given to an
   iteration over a map that changes (it is undefined behaviour).
2. `Conversions`: time, relative timeouts and locale as operators with widths.
   They have no state and no order; `pthread_cond_timedwait_relative_np` would show
   the wrap of a limit of more than 71 minutes (`Threads.cpp:43`).
3. More proofs. The invariants and action properties that the runs check are proved;
   what is left is worth stating about the operators: that the two tables of
   `PollEvents` invert each other on the bits they share, and that a merge of
   `MultiplexIO` asks for no bit that no request asked for.

Not modelled: `gethostname`, `inet_addr`, `get_local_ips`, `ioctl` and `dup2` (one query
of libnet each, formatted), `SetCurrent`/`GetCurrent` (one string assignment), a
data folder longer than its array, library names of fewer than four characters
(what stands before a string in memory), an allocation that fails in
`OpenCryptographyProvider`, a stack taller than the array of 128 frames of the older
build of `WalkStackNative`, `uname`, `getdomainname`, the constants of
`Environment`, console, assertions, atomics (one instruction each).

Left out for good: string formatting and path manipulation, `utils::Match` (not
in the repository), character handling, the inside of libnet and of the kernel,
overlapping operations on one `std::map` or `std::string` (undefined behaviour),
and stubs that return constants.
