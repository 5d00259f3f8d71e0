CONSTANTS
  UserAssemblies = UserAssemblies
  OtherModule = OtherModule
  MaxFrames = 4
  Folders = {"data", "patch"}
  Half = "half"
  Root = "/"
  Names <- MCNames
  Installed <- MCInstalled
  Invalid = Invalid
  r1 = r1
  r2 = r2
  Readers = {r1, r2}
  MountPath = "/temp0"
  Blank = ""
  Placeholder = "<GetTempPath is not implemented>"
SPECIFICATION Spec
INVARIANTS
  TypeOK
  WalkedInOrder
  BestLibraryLoaded
PROPERTIES
  TempPathSettles
