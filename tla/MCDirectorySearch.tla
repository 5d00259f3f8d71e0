-------------------------- MODULE MCDirectorySearch -------------------------
(***************************************************************************)
(* An instance of DirectorySearch for TLC: five entries read through a     *)
(* buffer of two, one that does not match and one that cannot be read.     *)
(***************************************************************************)
EXTENDS DirectorySearch

CONSTANTS a, b, c, d, e

MCListing == <<a, b, c, d, e>>
=============================================================================
