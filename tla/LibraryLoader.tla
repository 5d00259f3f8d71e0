---------------------------- MODULE LibraryLoader ----------------------------
(***************************************************************************)
(* os::LibraryLoader::ProbeForLibrary, the names it tries one after the    *)
(* other, and the data folder of Environment.cpp that a relative name is   *)
(* looked for in, which another thread may set meanwhile.                  *)
(*                                                                         *)
(* A name is a record: whether it is absolute, its stem, and its           *)
(* extensions from left to right.  A path is a name with its folder.  The  *)
(* comparison with ".prx" ignores case, that with ".dll" does not.  A name *)
(* of fewer than four characters makes the length without ".dll" wrap; the *)
(* comparison then begins before the name and is decided by its last       *)
(* characters, so it fails for every name that is not a tail of ".dll",    *)
(* and such tails are not among Names.                                     *)
(***************************************************************************)
EXTENDS Integers, Sequences

CONSTANTS
  Folders,      \* what SetDataFolder is called with
  Half,         \* what the array holds while it is being copied to
  Root,         \* where an absolute path begins
  Names,        \* the names of libraries that are asked for
  Installed,    \* the paths that may be loadable libraries
  Invalid       \* Baselib_DynamicLibrary_Handle_Invalid

ASSUME LoaderAssumption ==
  /\ Half \notin Folders /\ Root \notin Folders \cup {Half}
  /\ Invalid \notin Installed
  /\ \A name \in Names :
       /\ name = [absolute |-> name.absolute, stem |-> name.stem, ext |-> name.ext]
       /\ name.absolute \in BOOLEAN /\ name.ext \in Seq(STRING)

VARIABLES
  files,        \* the libraries that can be loaded
  s_datafolder, \* the data folder
  copying,      \* the folder a SetDataFolder is copying
  probePc,      \* "idle", "as given", "with .prx", "without .dll"
  libraryName,  \* the name asked for
  handle,       \* what the last ProbeForLibrary returned: the path loaded, or Invalid
  seen          \* history: what the data folder was during this call

loaderVars == <<files, s_datafolder, copying, probePc, libraryName, handle, seen>>

\* The two spellings of the suffix: ".PRX" stands for all that strcasecmp accepts
\* besides ".prx", which the loader treats alike.
prx == {".prx", ".PRX"}

LastExtension(name) == IF name.ext = <<>> THEN "" ELSE name.ext[Len(name.ext)]
WithPrx(name) == [name EXCEPT !.ext = Append(@, ".prx")]
WithoutLast(name) == [name EXCEPT !.ext = SubSeq(@, 1, Len(@) - 1)]

LoaderTypeOK ==
  /\ files \subseteq Installed
  /\ s_datafolder \in Folders \cup {Half} /\ copying \in Folders \cup {Half}
  /\ probePc \in {"idle", "as given", "with .prx", "without .dll"}
  /\ libraryName \in Names
  /\ handle \in Installed \cup {Invalid}
  /\ seen \subseteq Folders \cup {Half}

LoaderInit ==
  /\ files = {} /\ s_datafolder \in Folders /\ copying = Half
  /\ probePc = "idle" /\ libraryName \in Names /\ handle = Invalid /\ seen = {}

\* Between calls a library is installed, or removed.
Install(path) ==
  /\ probePc = "idle"
  /\ files' = IF path \in files THEN files \ {path} ELSE files \cup {path}
  /\ handle' = Invalid /\ seen' = {}
  /\ UNCHANGED <<s_datafolder, copying, probePc, libraryName>>

\* The data folder becomes this one, and a call in progress may see it.
DataFolderBecomes(folder) ==
  /\ s_datafolder' = folder
  /\ seen' = IF probePc = "idle" THEN seen ELSE seen \cup {folder}

\* SetDataFolder copies, and then writes the terminator.
SetDataFolder(folder) ==
  /\ copying = Half /\ s_datafolder # folder
  /\ copying' = folder /\ DataFolderBecomes(Half)
  /\ UNCHANGED <<files, probePc, libraryName, handle>>

DataFolderSet ==
  /\ copying # Half
  /\ DataFolderBecomes(copying) /\ copying' = Half
  /\ UNCHANGED <<files, probePc, libraryName, handle>>

-----------------------------------------------------------------------------

ProbeForLibrary(name) ==
  /\ probePc = "idle" /\ probePc' = "as given"
  /\ libraryName' = name /\ handle' = Invalid /\ seen' = {s_datafolder}
  /\ UNCHANGED <<files, s_datafolder, copying>>

\* Mutant: ".prx" is added whatever the name ends in.
CompletedAlways(name) == WithPrx(name)
Completed(name) == IF LastExtension(name) \in prx THEN name ELSE WithPrx(name)

\* The buffer LoadLibraryWithName makes of a name.
BufferOf(name) == [folder |-> IF name.absolute THEN Root ELSE s_datafolder,
                   stem |-> name.stem, ext |-> Completed(name).ext]

\* LoadLibraryWithName, and where the probe goes on if nothing was loaded.
LoadLibraryWithName(name, otherwise) ==
  /\ IF BufferOf(name) \in files
     THEN handle' = BufferOf(name) /\ probePc' = "idle"
     ELSE probePc' = otherwise /\ UNCHANGED handle
  /\ UNCHANGED <<files, s_datafolder, copying, libraryName, seen>>

AsGiven == probePc = "as given" /\ LoadLibraryWithName(libraryName, "with .prx")

\* CheckLibraryVariations adds its one suffix to the name.
WithSuffix ==
  /\ probePc = "with .prx"
  /\ LoadLibraryWithName(WithPrx(libraryName),
                         IF LastExtension(libraryName) = ".dll" THEN "without .dll" ELSE "idle")

WithoutDll ==
  /\ probePc = "without .dll"
  /\ LoadLibraryWithName(WithPrx(WithoutLast(libraryName)), "idle")

Probe == AsGiven \/ WithSuffix \/ WithoutDll

LoaderNext ==
  \/ \E path \in Installed : Install(path)
  \/ (\E folder \in Folders : SetDataFolder(folder)) \/ DataFolderSet
  \/ (\E name \in Names : ProbeForLibrary(name)) \/ Probe

LoaderSpec == LoaderInit /\ [][LoaderNext]_loaderVars

-----------------------------------------------------------------------------

\* What a library of a name may be called on disk, the best match first: its
\* own name if that is a .prx already, the name completed to a .prx, and for a
\* .dll the .prx that replaces it.
Acceptable(name) ==
  LET own      == IF LastExtension(name) \in prx THEN <<name.ext>> ELSE <<>>
      complete == <<name.ext \o <<".prx">>>>
      replaced == IF LastExtension(name) = ".dll"
                  THEN <<SubSeq(name.ext, 1, Len(name.ext) - 1) \o <<".prx">>>> ELSE <<>>
  IN own \o complete \o replaced

Candidate(folder, i) == [folder |-> IF libraryName.absolute THEN Root ELSE folder,
                         stem |-> libraryName.stem, ext |-> Acceptable(libraryName)[i]]

\* A probe loads an acceptable library out of a folder that was the data folder
\* at some time of the call.  If the folder did not change, it is the best
\* match there is, and Invalid only if there is none, whatever the extension of
\* the name; the names are tried so that a .dll is never replaced by another
\* library while one of its own full name is there.
BestLibraryLoaded ==
  probePc = "idle" /\ seen # {} =>
    /\ handle # Invalid =>
         \E folder \in seen, i \in DOMAIN Acceptable(libraryName) : handle = Candidate(folder, i)
    /\ \A folder \in seen : libraryName.absolute \/ seen = {folder} =>
         LET found == {i \in DOMAIN Acceptable(libraryName) : Candidate(folder, i) \in files}
         IN IF found = {} THEN handle = Invalid
            ELSE \E i \in found : (\A j \in found : i <= j) /\ handle = Candidate(folder, i)
=============================================================================
