------------------------- MODULE MCDirectoryEntries -------------------------
(***************************************************************************)
(* An instance of DirectoryEntries for TLC: "." between two files, read    *)
(* through a buffer of two, and a file that cannot be read.                *)
(***************************************************************************)
EXTENDS DirectoryEntries

MCListing == <<"a", ".", "b", "c">>
=============================================================================
