--------------------------- MODULE MCProcessLock ---------------------------
(* Constant values for the model checking of ProcessLock.                  *)
EXTENDS ProcessLock, TLC

Symmetry == Permutations(Proc) \union Permutations(File)
=============================================================================
