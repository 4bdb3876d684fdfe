------------------------------- MODULE MCGrants -------------------------------
(* A user besides admin, a role besides the builtin ones, a table.         *)
EXTENDS Grants

CONSTANTS u1, r1, t1, q1

Some == {<<"relation", "read">>, <<"schema", "read">>}
Them == {<<"user", u1>>, <<"role", r1>>}
=============================================================================
