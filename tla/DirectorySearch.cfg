\* Safety, termination and refinement of a directory search.
CONSTANTS
  a = "a"
  b = "b"
  c = "c"
  d = "d"
  e = "e"
  Listing <- MCListing
  Matching = {"a", "c", "d", "e"}
  Unreadable = {"d"}
  BlkSize = 2
  Descriptors = {3, 4}
  NULL = NULL
SPECIFICATION Spec
INVARIANTS
  TypeOK
  ListingComplete
  OwnsItsDescriptor
PROPERTIES
  CallsReturn
  Enumerates
