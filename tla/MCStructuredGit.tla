--------------------------- MODULE MCStructuredGit ---------------------------
(***************************************************************************)
(* An instance of StructuredGit for TLC.                                   *)
(***************************************************************************)
EXTENDS StructuredGit, TLC
=============================================================================
