-------------------------- MODULE MCEngineRefines --------------------------
(***************************************************************************)
(* EngineRefinement for TLC: the liveness of the engine across a shutdown, *)
(* and the refinement of SerialStore.                                      *)
(***************************************************************************)
EXTENDS EngineRefinement

RefinementKinds == {"maint", "save"}
=============================================================================
