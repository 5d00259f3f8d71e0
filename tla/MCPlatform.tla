------------------------------ MODULE MCPlatform ------------------------------
(***************************************************************************)
(* The stack walk, the library loader and the start of the platform, which *)
(* share nothing: a behaviour is one of any of the three, and the state of *)
(* the other two is what it was at the beginning.                          *)
(***************************************************************************)
EXTENDS StackWalk, LibraryLoader, Startup

VARIABLE running   \* the component that runs

Name(absolute, extensions) == [absolute |-> absolute, stem |-> "plugin", ext |-> extensions]
Path(folder, extensions)   == [folder |-> folder, stem |-> "plugin", ext |-> extensions]

MCNames ==
  {Name(FALSE, ext) : ext \in {<<>>, <<".dll">>, <<".prx">>, <<".PRX">>, <<".DLL">>, <<".dll", ".dll">>}}
    \cup {Name(TRUE, <<".dll">>)}

MCInstalled ==
  {Path("data", ext) : ext \in {<<".prx">>, <<".PRX">>, <<".dll", ".prx">>, <<".prx", ".prx">>,
                                <<".dll">>}}
    \cup {Path("patch", <<".prx">>), Path("/", <<".prx">>), Path("/", <<".dll", ".prx">>)}

Init ==
  /\ running \in {"walk", "loader", "startup"}
  /\ WalkInit /\ LoaderInit /\ StartInit
  /\ running # "walk" => USE_NEW_BACKTRACE
  /\ s_datafolder = "data" /\ libraryName = Name(FALSE, <<>>)

Next ==
  \/ running = "walk"    /\ WalkNext   /\ UNCHANGED <<running, loaderVars, startVars>>
  \/ running = "loader"  /\ LoaderNext /\ UNCHANGED <<running, walkVars, startVars>>
  \/ running = "startup" /\ StartNext  /\ UNCHANGED <<running, walkVars, loaderVars>>

Spec == Init /\ [][Next]_<<running, walkVars, loaderVars, startVars>>

\* The types of all three.
TypeOK == WalkTypeOK /\ LoaderTypeOK /\ StartTypeOK
=============================================================================
