------------------------------- MODULE Startup -------------------------------
(***************************************************************************)
(* os::Initialize, which mounts the temporary data in four steps each of   *)
(* which may fail, and Path::GetTempPath, which other threads call at any  *)
(* time: it reads the flag, and then the mount point.                      *)
(***************************************************************************)
CONSTANTS
  Readers,      \* the threads that call GetTempPath
  MountPath,    \* what the platform writes to the mount point
  Blank,        \* what the mount point holds before
  Placeholder   \* "<GetTempPath is not implemented>"

ASSUME StartupAssumption == MountPath # Blank /\ Placeholder \notin {MountPath, Blank}

VARIABLES
  initPc,                   \* "start", "loaded", "initialized", "mounted", "done"
  g_TemporaryDataIsMounted, \* the flag
  g_TemporaryDataMountPoint, \* the path of the mount
  readFlag,                 \* the readers that found the flag set
  tempPath                  \* what GetTempPath last returned to each reader

startVars == <<initPc, g_TemporaryDataIsMounted, g_TemporaryDataMountPoint, readFlag, tempPath>>

StartTypeOK ==
  /\ initPc \in {"start", "loaded", "initialized", "mounted", "done"}
  /\ g_TemporaryDataIsMounted \in BOOLEAN
  /\ g_TemporaryDataMountPoint \in {MountPath, Blank}
  /\ readFlag \subseteq Readers
  /\ tempPath \in [Readers -> {MountPath, Blank, Placeholder}]

StartInit ==
  /\ initPc = "start" /\ g_TemporaryDataIsMounted = FALSE
  /\ g_TemporaryDataMountPoint = Blank
  /\ readFlag = {} /\ tempPath = [r \in Readers |-> Placeholder]

\* sceSysmoduleLoadModule, then sceAppContentInitialize.
LoadModule ==
  /\ initPc = "start" /\ initPc' = "loaded"
  /\ UNCHANGED <<g_TemporaryDataIsMounted, g_TemporaryDataMountPoint, readFlag, tempPath>>

InitializeContent ==
  /\ initPc = "loaded" /\ initPc' = "initialized"
  /\ UNCHANGED <<g_TemporaryDataIsMounted, g_TemporaryDataMountPoint, readFlag, tempPath>>

\* Any of the calls fails: Initialize returns.
InitializeFails ==
  /\ initPc \in {"start", "loaded", "initialized"} /\ initPc' = "done"
  /\ UNCHANGED <<g_TemporaryDataIsMounted, g_TemporaryDataMountPoint, readFlag, tempPath>>

TemporaryDataMount ==
  /\ initPc = "initialized" /\ initPc' = "mounted"
  /\ g_TemporaryDataMountPoint' = MountPath
  /\ UNCHANGED <<g_TemporaryDataIsMounted, readFlag, tempPath>>

\* Mutant: the flag is set without waiting for the mount.
FlagDueEarly == initPc = "initialized"
FlagDue == initPc = "mounted"

SetMounted ==
  /\ FlagDue /\ initPc' = "done"
  /\ g_TemporaryDataIsMounted' = TRUE
  /\ UNCHANGED <<g_TemporaryDataMountPoint, readFlag, tempPath>>

GetTempPath(r) ==
  /\ r \notin readFlag
  /\ IF g_TemporaryDataIsMounted
     THEN readFlag' = readFlag \cup {r} /\ UNCHANGED tempPath
     ELSE tempPath' = [tempPath EXCEPT ![r] = Placeholder] /\ UNCHANGED readFlag
  /\ UNCHANGED <<initPc, g_TemporaryDataIsMounted, g_TemporaryDataMountPoint>>

ReadMountPoint(r) ==
  /\ r \in readFlag /\ readFlag' = readFlag \ {r}
  /\ tempPath' = [tempPath EXCEPT ![r] = g_TemporaryDataMountPoint]
  /\ UNCHANGED <<initPc, g_TemporaryDataIsMounted, g_TemporaryDataMountPoint>>

Initialize == LoadModule \/ InitializeContent \/ InitializeFails \/ TemporaryDataMount \/ SetMounted

StartNext == Initialize \/ \E r \in Readers : GetTempPath(r) \/ ReadMountPoint(r)

StartSpec == StartInit /\ [][StartNext]_startVars

-----------------------------------------------------------------------------

\* What GetTempPath returns changes once at most, from the placeholder to the
\* path that was mounted: never a blank path, and never back, although the flag
\* and the mount point are separate variables without a lock.
TempPathSettles ==
  [][\A r \in Readers : tempPath'[r] # tempPath[r] =>
       tempPath[r] = Placeholder /\ tempPath'[r] = MountPath]_startVars
=============================================================================
