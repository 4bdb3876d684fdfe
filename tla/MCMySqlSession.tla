---------------------------- MODULE MCMySqlSession ----------------------------
(* A statement without a parameter and one with, signed and unsigned       *)
(* integers of two widths and two values each, and ids that have gone      *)
(* round with the third statement.                                         *)
EXTENDS MySqlSession

CONSTANTS s1, p1, int, uint, long, longlong, d1, d2

TypeCodes == [t \in {int, uint} |-> IF t = int THEN long ELSE longlong]
=============================================================================
