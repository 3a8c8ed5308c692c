--------------------------- MODULE MCReleaseProof ---------------------------
(***************************************************************************)
(* A small instance of ReleaseProof for TLC.                               *)
(***************************************************************************)
EXTENDS ReleaseProof
=============================================================================
