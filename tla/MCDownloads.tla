----------------------------- MODULE MCDownloads -----------------------------
(***************************************************************************)
(* A small instance of Downloads: an index that is tried as a diff, packed *)
(* (though that is not listed) and then as it is, and a file.              *)
(***************************************************************************)
EXTENDS Downloads

CONSTANTS gz, i1, f1

MCEncodings == <<Diff, gz, Plain>>

=============================================================================
