---------------------------- MODULE MCWebServer ----------------------------
(***************************************************************************)
(* Instance of WebServer: one key is stored, deleted and stored again.     *)
(***************************************************************************)
EXTENDS WebServer, TLC

MCOp == <<"upsert", "delete">>
Symmetry == Permutations(Request)
=============================================================================
