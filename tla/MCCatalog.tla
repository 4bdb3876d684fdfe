------------------------------ MODULE MCCatalog ------------------------------
(* Three relation names; init_sql makes a table and a view of it.          *)
EXTENDS Catalog

CONSTANTS n1, n2, n3, c1, c2

Created == ViewMade(TableMade(Empty, n1, c1), n2, ViewOf(n1, c1), c1, 1)
=============================================================================
