-------------------------- MODULE MCGenerationLoop --------------------------
(***************************************************************************)
(* Instances of GenerationLoop for TLC; the .cfg files give the constants. *)
(***************************************************************************)
EXTENDS GenerationLoop
=============================================================================
