----------------------------- MODULE Environment -----------------------------
(***************************************************************************)
(* The emulated process environment: the map s_env, created by the first   *)
(* setenv, with setenv, unsetenv and getenv, and os::Environment's calls   *)
(* SetEnvironmentVariable, GetEnvironmentVariable, GetOsUserName and       *)
(* GetHomeDirectory on top of them, from several threads.  Nothing locks.  *)
(*                                                                         *)
(* The points at which threads interleave are those where a value that was *)
(* read is used later: the test of s_env before its creation, the pointer  *)
(* getenv returns before it is copied, the test of homeDirectory before it *)
(* is assigned.  One operation on the map is one step; what two map        *)
(* operations that really overlap would do to its tree is not modelled.    *)
(***************************************************************************)
EXTENDS Integers, FiniteSets

CONSTANTS
  Threads,
  Variables,    \* environment variables, among them "HOME"
  Values,       \* non-empty values
  NULL,         \* no map, no pointer, and the empty string as a value
  Garbage       \* what a pointer to an erased value may show

ASSUME EnvironmentAssumption ==
  /\ IsFiniteSet(Threads)
  /\ "HOME" \in Variables
  /\ NULL \notin Values /\ Garbage \notin Values /\ Garbage # NULL
  /\ NULL \notin [Variables -> Values \cup {NULL}]

VARIABLES
  s_env,          \* NULL, or the map: the value of each name, NULL if it has none
  homeDirectory,  \* the static string of GetHomeDirectory, NULL if it is empty
  pc,             \* per thread: "idle", or what its call does next
  home,           \* per thread: it is in GetHomeDirectory
  arg,            \* per thread: the name, the value and the flag of its call
  pointer,        \* per thread: what is at the char* that getenv returned
  variable,       \* per thread: what GetEnvironmentVariable returned to GetHomeDirectory
  created,        \* history: how many maps have been created
  pointerMap,     \* history, per thread: which of them its pointer points into
  raced,          \* history: two threads found s_env missing together
  lastSet,        \* history: per name, the last value set, NULL after an erase
  erased,         \* history, per thread: its variable was erased since getenv
  homeAnswer,     \* history: the last answer of GetHomeDirectory, "/" before any
  homeRaced       \* history: two threads found homeDirectory empty together

envVars  == <<s_env, created, raced, lastSet>>
homeVars == <<homeDirectory, homeAnswer, homeRaced>>
readVars == <<pointer, pointerMap, variable, erased>>
vars == <<envVars, homeVars, readVars, pc, home, arg>>

Map == [Variables -> Values \cup {NULL}]
EmptyMap == [m \in Variables |-> NULL]

\* The types of the environment's state; setenv creates at most one map per
\* thread, however the threads overlap.
EnvTypeOK ==
  /\ s_env \in {NULL} \cup Map
  /\ homeDirectory \in Values \cup {NULL, Garbage}
  /\ pc \in [Threads -> {"idle", "new", "insert", "getenv", "copy", "assign", "answer"}]
  /\ home \in [Threads -> BOOLEAN]
  /\ arg \in [Threads -> Variables \X (Values \cup {NULL}) \X {0, 1}]
  /\ pointer \in [Threads -> Values \cup {NULL, Garbage}]
  /\ variable \in [Threads -> Values \cup {NULL, Garbage}]
  /\ created \in 0 .. Cardinality(Threads)
  /\ pointerMap \in [Threads -> 0 .. created]
  /\ lastSet \in Map
  /\ erased \in [Threads -> BOOLEAN]
  /\ homeAnswer \in Values \cup {"/", Garbage}
  /\ raced \in BOOLEAN /\ homeRaced \in BOOLEAN

\* What arg and variable hold outside a call.
NoCall == <<"HOME", NULL, 1>>

EnvInit ==
  /\ s_env = NULL /\ created = 0 /\ raced = FALSE /\ lastSet = EmptyMap
  /\ homeDirectory = NULL /\ homeAnswer = "/" /\ homeRaced = FALSE
  /\ pc = [t \in Threads |-> "idle"] /\ home = [t \in Threads |-> FALSE]
  /\ arg = [t \in Threads |-> NoCall]
  /\ pointer = [t \in Threads |-> NULL] /\ pointerMap = [t \in Threads |-> 0]
  /\ variable = [t \in Threads |-> NULL] /\ erased = [t \in Threads |-> FALSE]

Goto(t, where) == pc' = [pc EXCEPT ![t] = where]

-----------------------------------------------------------------------------
(* setenv and unsetenv. *)

\* Mutant: every setenv creates a map.
MapMissingAlways == TRUE
MapMissing == s_env = NULL

\* setenv up to its creation of the map; SetEnvironmentVariable of a non-empty
\* value calls it with overwrite = 1.
Setenv(t, m, v, overwrite) ==
  /\ pc[t] = "idle"
  /\ arg' = [arg EXCEPT ![t] = <<m, v, overwrite>>]
  /\ Goto(t, IF MapMissing THEN "new" ELSE "insert")
  /\ raced' = (raced \/ (MapMissing /\ \E u \in Threads \ {t} : pc[u] = "new"))
  /\ UNCHANGED <<s_env, created, lastSet, homeVars, readVars, home>>

NewMap(t) ==
  /\ pc[t] = "new" /\ Goto(t, "insert")
  /\ s_env' = EmptyMap /\ created' = created + 1
  /\ UNCHANGED <<raced, lastSet, homeVars, readVars, home, arg>>

\* Mutant: operator[] in place of insert.
InsertedOver(m, v) == [s_env EXCEPT ![m] = v]
\* std::map::insert leaves a key that is there alone.
Inserted(m, v) == IF s_env[m] = NULL THEN [s_env EXCEPT ![m] = v] ELSE s_env

\* What pointers into the map show once it has become newMap: the characters
\* of a value that was erased or assigned have been freed.
PointersInto(newMap) ==
  [t \in Threads |->
     IF pointer[t] # NULL /\ pointerMap[t] = created /\ newMap[arg[t][1]] # s_env[arg[t][1]]
     THEN Garbage ELSE pointer[t]]

\* s_env becomes newMap, in which name m was changed.
ChangeMap(m, newMap) ==
  /\ s_env' = newMap
  /\ pointer' = PointersInto(newMap)
  /\ erased' = [t \in Threads |->
                  erased[t] \/ (pc[t] = "copy" /\ arg[t][1] = m /\ newMap[m] = NULL)]
  /\ UNCHANGED <<created, raced, homeVars, pointerMap, variable, home>>

\* The rest of setenv: an empty value erases; an insertion keeps an old value,
\* whether the flag asks for that or not.
Insert(t) ==
  LET m == arg[t][1]  v == arg[t][2]  overwrite == arg[t][3] IN
    /\ pc[t] = "insert" /\ Goto(t, "idle")
    /\ ChangeMap(m, IF v = NULL THEN [s_env EXCEPT ![m] = NULL] ELSE Inserted(m, v))
    /\ lastSet' = IF overwrite = 0 /\ v # NULL /\ s_env[m] # NULL
                  THEN lastSet ELSE [lastSet EXCEPT ![m] = v]
    /\ arg' = [arg EXCEPT ![t] = NoCall]

\* unsetenv; SetEnvironmentVariable of an empty value calls it.
Unsetenv(t, m) ==
  /\ pc[t] = "idle" /\ s_env # NULL
  /\ ChangeMap(m, [s_env EXCEPT ![m] = NULL])
  /\ lastSet' = [lastSet EXCEPT ![m] = NULL]
  /\ UNCHANGED <<pc, arg>>

-----------------------------------------------------------------------------
(* GetEnvironmentVariable, also for GetOsUserName, and GetHomeDirectory. *)

GetEnvironmentVariable(t, m) ==
  /\ pc[t] = "idle" /\ Goto(t, "getenv")
  /\ arg' = [arg EXCEPT ![t] = <<m, NULL, 1>>]
  /\ UNCHANGED <<envVars, homeVars, readVars, home>>

\* getenv returns a pointer into the map.
Getenv(t) ==
  /\ pc[t] = "getenv" /\ Goto(t, "copy")
  /\ pointer' = [pointer EXCEPT ![t] = IF s_env = NULL THEN NULL ELSE s_env[arg[t][1]]]
  /\ pointerMap' = [pointerMap EXCEPT ![t] = created]
  /\ erased' = [erased EXCEPT ![t] = FALSE]
  /\ UNCHANGED <<envVars, homeVars, variable, home, arg>>

\* The std::string is made from the pointer, and the pointer forgotten; the
\* string is the caller's, or GetHomeDirectory's.
Copy(t) ==
  /\ pc[t] = "copy" /\ Goto(t, IF home[t] THEN "assign" ELSE "idle")
  /\ variable' = [variable EXCEPT ![t] = IF home[t] THEN pointer[t] ELSE NULL]
  /\ pointer' = [pointer EXCEPT ![t] = NULL] /\ pointerMap' = [pointerMap EXCEPT ![t] = 0]
  /\ erased' = [erased EXCEPT ![t] = FALSE] /\ arg' = [arg EXCEPT ![t] = NoCall]
  /\ UNCHANGED <<envVars, homeVars, home>>

\* Mutant: the directory is looked up at every call.
HomeKnownNever == FALSE
HomeKnown == homeDirectory # NULL

\* GetHomeDirectory returns what it found earlier,
HomeCached(t) ==
  /\ pc[t] = "idle" /\ HomeKnown
  /\ homeAnswer' = homeDirectory
  /\ UNCHANGED <<envVars, homeDirectory, homeRaced, readVars, pc, home, arg>>

\* or looks HOME up,
HomeLookUp(t) ==
  /\ pc[t] = "idle" /\ ~HomeKnown /\ Goto(t, "getenv")
  /\ home' = [home EXCEPT ![t] = TRUE]
  /\ arg' = [arg EXCEPT ![t] = NoCall]
  /\ homeRaced' = (homeRaced \/ \E u \in Threads : home[u])
  /\ UNCHANGED <<envVars, homeDirectory, homeAnswer, readVars>>

\* remembers it,
HomeAssign(t) ==
  /\ pc[t] = "assign" /\ Goto(t, "answer")
  /\ homeDirectory' = variable[t]
  /\ variable' = [variable EXCEPT ![t] = NULL]
  /\ UNCHANGED <<envVars, homeAnswer, homeRaced, pointer, pointerMap, erased, home, arg>>

\* and returns what is remembered now, or "/".
HomeReturn(t) ==
  /\ pc[t] = "answer" /\ Goto(t, "idle")
  /\ home' = [home EXCEPT ![t] = FALSE]
  /\ homeAnswer' = IF homeDirectory = NULL THEN "/" ELSE homeDirectory
  /\ UNCHANGED <<envVars, homeDirectory, homeRaced, readVars, arg>>

-----------------------------------------------------------------------------

Write(t) ==
  \/ \E m \in Variables, v \in Values \cup {NULL}, o \in {0, 1} : Setenv(t, m, v, o)
  \/ \E m \in Variables : Unsetenv(t, m)
  \/ NewMap(t) \/ Insert(t)

Read(t) ==
  \/ \E m \in Variables : GetEnvironmentVariable(t, m)
  \/ HomeCached(t) \/ HomeLookUp(t)
  \/ Getenv(t) \/ Copy(t) \/ HomeAssign(t) \/ HomeReturn(t)

EnvNext == \E t \in Threads : Write(t) \/ Read(t)

EnvSpec == EnvInit /\ [][EnvNext]_vars

-----------------------------------------------------------------------------

\* The pointer that getenv returned shows the variable's value until it is
\* copied, unless the variable was erased: another thread that sets it, or that
\* creates the map anew, does not pull the characters away.
PointerValidUntilErased ==
  \A t \in Threads : pc[t] = "copy" /\ pointer[t] = Garbage => erased[t]

\* A variable that was set and not erased is there, unless two threads found
\* the map missing together: only that creates a second map.
VariablesLostOnlyByRace ==
  ~raced =>
    /\ created <= 1
    /\ \A m \in Variables : lastSet[m] # NULL => s_env # NULL /\ s_env[m] # NULL

\* Once GetHomeDirectory has answered with a directory, it answers with it for
\* ever, whatever happens to HOME, unless two threads looked it up together.
HomeStays ==
  [][homeAnswer # "/" /\ ~homeRaced' => homeAnswer' = homeAnswer]_vars

-----------------------------------------------------------------------------
(* What the repository says and the code does not do. *)

\* Environment.cpp:120, "1 means overwrite": a variable has the value that was
\* last set with that flag.
SetOverwrites ==
  ~raced => \A m \in Variables : lastSet[m] # NULL => s_env[m] = lastSet[m]
=============================================================================
