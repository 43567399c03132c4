------------------------------ MODULE MCUpload ------------------------------
(***************************************************************************)
(* Instances of Upload for TLC; the constants are numbers, set in the cfgs.*)
(***************************************************************************)
EXTENDS Upload
=============================================================================
