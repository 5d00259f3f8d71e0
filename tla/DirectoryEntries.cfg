\* Every safety property of GetFileSystemEntries.
CONSTANTS
  Listing <- MCListing
  Dots = {"."}
  Patterns = {{".", "a", "b", "c"}, {"b"}}
  EmptyPattern = {}
  Unreadable = {"c"}
  BlkSize = 2
  Failures = {"ENOENT", "EEXIST", "ENOTEMPTY"}
SPECIFICATION Spec
INVARIANTS
  TypeOK
  EntriesComplete
  EntriesJustified
