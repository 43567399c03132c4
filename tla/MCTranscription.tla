-------------------------- MODULE MCTranscription --------------------------
(***************************************************************************)
(* Instances of Transcription for TLC.  Symmetry is used for safety only.  *)
(***************************************************************************)
EXTENDS Transcription, TLC

Symmetry ==
  Permutations(Sessions) \cup Permutations(Workers) \cup Permutations(Callers)
=============================================================================
