----------------------------- MODULE MCReports -----------------------------
(***************************************************************************)
(* Instances of Reports for TLC; the constants are set in the cfg.         *)
(***************************************************************************)
EXTENDS Reports
=============================================================================
