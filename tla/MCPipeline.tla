----------------------------- MODULE MCPipeline -----------------------------
(***************************************************************************)
(* Instances of Pipeline for TLC; the constants are set in the cfg.        *)
(***************************************************************************)
EXTENDS Pipeline
=============================================================================
