------------------------------ MODULE MCEngine ------------------------------
(* Constant values for the model checking of Engine.                       *)
EXTENDS Engine, TLC

Symmetry == Permutations(Client)

EveryKind == AllKinds
BeginKinds == {"begin", "dml"}

=============================================================================
