------------------------------- MODULE Catalog -------------------------------
(***************************************************************************)
(* The catalog of rsduck: the rs_* rows of relations, columns, indexes,    *)
(* dependencies and comments, the objects DuckDB has for them, the DDL     *)
(* commands that change both in one transaction, and the snapshot that     *)
(* carries the catalog over a restart.  A command that fails is rolled     *)
(* back as a whole and is no step here.                                    *)
(*                                                                         *)
(* One schema; a view is SELECT col FROM from; an index has one column.    *)
(* Types, defaults, constraints, owners and rows are left out, partitioned *)
(* tables are in Partition, vector indexes in VectorIndex, the files of    *)
(* snapshots in SnapshotStore.                                             *)
(***************************************************************************)
EXTENDS Naturals, FiniteSets, Sequences

CONSTANTS Name,     \* names of relations
          NoName,   \* read by an object that is no view
          Column,   \* names of columns
          First,    \* what bootstrap and init_sql make of an empty database
          MaxOid,   \* bound: the last oid allocated
          MaxUnsaved,   \* bound: oids allocated after a snapshot and before the next
          MaxComments   \* bound: comments at a time

ASSUME MaxOidAssumption == MaxOid \in Nat /\ MaxUnsaved \in Nat /\ MaxComments \in Nat
ASSUME NameAssumption == IsFiniteSet(Name) /\ NoName \notin Name

VARIABLES db,       \* the write connection's database
          saved,    \* the last snapshot, or NoSnapshot
          phase     \* "up", or "failed" when restore refused to start

vars == <<db, saved, phase>>

Oid == 1..MaxOid

-----------------------------------------------------------------------------
(***************************************************************************)
(* Rows of the catalog.  The attnum of a column is its place in cols; born *)
(* is the journal id of the command that made it, which nothing reads.     *)
(***************************************************************************)
Attribute == [name: Column, born: Oid, dropped: BOOLEAN]

Relation == [name: Name, kind: {"r", "v", "i"}, cols: Seq(Attribute),
             active: BOOLEAN,
             on: Oid \union {0}, key: Nat]   \* rs_index: indrelid, indkey

Comment == [oid: Oid, sub: Nat, of: Oid]     \* of: what it was said of

(* What DuckDB has under a name: nothing, a table or a view.               *)
Object == [kind: {"none", "r", "v"}, cols: Seq(Column), from: Name \union {NoName}]
PhysicalIndex == [name: Name, on: Name, col: Column]

IsCatalog(d) ==
  /\ d = [rel |-> d.rel, dep |-> d.dep, comment |-> d.comment, next |-> d.next,
          phys |-> d.phys, pindex |-> d.pindex, left |-> d.left, suspect |-> d.suspect]
  /\ DOMAIN d.rel \subseteq Oid          \* rs_relation, rs_column, rs_index
  /\ d.rel = [o \in DOMAIN d.rel |-> d.rel[o]]
  /\ \A o \in DOMAIN d.rel : d.rel[o] \in Relation
  /\ d.dep \subseteq Oid \X Oid          \* rs_dependency: <<objid, refobjid>>
  /\ d.comment \subseteq Comment         \* rs_comment
  /\ d.next \in 1..MaxOid + 1            \* rs_oid_alloc.next_oid

IsDatabase(d) ==
  /\ IsCatalog(d)
  /\ d.phys \in [Name -> Object]         \* tables and views of DuckDB
  /\ d.pindex \subseteq PhysicalIndex    \* indexes of DuckDB
  /\ d.left \subseteq Name               \* history: views a CASCADE left in DuckDB
  /\ d.suspect \subseteq Oid             \* history: views changed under their dependents

ViewDdl == [oid: Oid, name: Name, from: Name, col: Column]

IsSnapshot(s) == /\ s = [db |-> s.db, views |-> s.views]
                 /\ IsDatabase(s.db)
                 /\ s.views \subseteq ViewDdl
NoSnapshot == [db |-> "none"]

Nothing == [kind |-> "none", cols |-> <<>>, from |-> NoName]
ViewOf(f, c) == [kind |-> "v", cols |-> <<c>>, from |-> f]

Empty == [rel |-> <<>>, dep |-> {}, comment |-> {}, next |-> 1,
          phys |-> [n \in Name |-> Nothing], pindex |-> {}, left |-> {}, suspect |-> {}]

TypeOK == /\ IsDatabase(db)
          /\ saved # NoSnapshot => IsSnapshot(saved)
          /\ phase \in {"up", "failed"}

-----------------------------------------------------------------------------
(* Lookups                                                                 *)

Rows(d) == DOMAIN d.rel

(* relation_exists: whatever the status.                                   *)
Taken(d, n) == \E o \in Rows(d) : d.rel[o].name = n

(* find_relation_meta, relation_oid: active rows only.                     *)
IsActive(d, n, o) == o \in Rows(d) /\ d.rel[o].name = n /\ d.rel[o].active

Attnum(d, o, c, k) == /\ k \in DOMAIN d.rel[o].cols
                      /\ d.rel[o].cols[k].name = c
                      /\ ~d.rel[o].cols[k].dropped

HasColumn(d, o, c) == \E k \in DOMAIN d.rel[o].cols : Attnum(d, o, c, k)

Dependents(d, o) == {x \in Oid : <<x, o>> \in d.dep}

Has(cols, c) == \E k \in DOMAIN cols : cols[k] = c

(* The columns that are not dropped, their names in the order of attnum.   *)
Live(cols) == {k \in DOMAIN cols : ~cols[k].dropped}
Place(cols, k) == Cardinality({j \in Live(cols) : j <= k})
LiveColumns(cols) ==
  [i \in 1..Cardinality(Live(cols)) |->
     cols[CHOOSE k \in Live(cols) : Place(cols, k) = i].name]

(* The index DuckDB has for the row of an index.                           *)
IndexEntry(d, i) ==
  LET r == d.rel[i]
      t == d.rel[r.on]
  IN  [name |-> r.name, on |-> t.name, col |-> t.cols[r.key].name]

(* The names DuckDB can bind: tables, and views over a column such a name  *)
(* has, through any number of views.                                       *)
Binds(phys) ==
  LET Within[k \in 0..Cardinality(Name)] ==
        IF k = 0 THEN {n \in Name : phys[n].kind = "r"}
        ELSE Within[k - 1] \union
             {n \in Name : /\ phys[n].kind = "v"
                           /\ phys[n].from \in Within[k - 1]
                           /\ Has(phys[phys[n].from].cols, phys[n].cols[1])}
  IN  Within[Cardinality(Name)]

(* The views DuckDB has, with an active row, over column c of n.           *)
ActiveView(d, o) == o \in Rows(d) /\ d.rel[o].kind = "v" /\ d.rel[o].active
ReadersOf(d, n, c) ==
  {o \in Oid : /\ ActiveView(d, o)
               /\ d.phys[d.rel[o].name].from = n
               /\ d.phys[d.rel[o].name].cols[1] = c}
Readers(d, n) == UNION {ReadersOf(d, n, c) : c \in Column}

-----------------------------------------------------------------------------
(* Commands, as what they make of a database                               *)

Without(f, S) == [x \in DOMAIN f \ S |-> f[x]]
With(f, o, r) == [x \in DOMAIN f \union {o} |-> IF x = o THEN r ELSE f[x]]

NewColumn(c, j) == [name |-> c, born |-> j, dropped |-> FALSE]
Row(n, kind, cols, on, key) == [name |-> n, kind |-> kind, cols |-> cols,
                                active |-> TRUE, on |-> on, key |-> key]

(* A relation takes an oid and a journal id (its row type's is left out).  *)
TableMade(d, n, c) ==
  [d EXCEPT !.rel = With(@, d.next, Row(n, "r", <<NewColumn(c, d.next + 1)>>, 0, 0)),
            !.next = @ + 2,
            !.phys = [@ EXCEPT ![n] = [Nothing EXCEPT !.kind = "r", !.cols = <<c>>]]]

CanMakeTable(d, n) == /\ ~Taken(d, n)
                      /\ d.phys[n].kind = "none"
                      /\ d.next + 1 <= MaxOid

CanReadView(d, f, c) == f \in Binds(d.phys) /\ Has(d.phys[f].cols, c)

(* obj is what DuckDB has of view n afterwards, and c its column.          *)
ViewMade(d, n, obj, c, fo) ==
  [d EXCEPT !.rel = With(@, d.next, Row(n, "v", <<NewColumn(c, d.next + 1)>>, 0, 0)),
            !.dep = @ \union {<<d.next, fo>>},
            !.next = @ + 2,
            !.phys = [@ EXCEPT ![n] = obj],
            !.left = @ \ {n},
            !.suspect = IF d.phys[n].kind = "v"
                        THEN @ \union {d.next} \union Readers(d, n) ELSE @]

(* Mutant: the comments on the old columns stay.                           *)
ViewReplacedKeepingComments(d, n, o, c, f, fo) ==
  [d EXCEPT !.rel = [@ EXCEPT ![o].cols = <<NewColumn(c, d.next)>>],
            !.dep = {e \in @ : e[1] # o} \union {<<o, fo>>},
            !.next = @ + 1,
            !.phys = [@ EXCEPT ![n] = ViewOf(f, c)],
            !.suspect = @ \union {o} \union Readers(d, n)]

(* CREATE OR REPLACE keeps the oid and the dependents; columns, column     *)
(* comments and the view's own dependencies are made anew.                 *)
ViewReplaced(d, n, o, c, f, fo) ==
  [d EXCEPT !.rel = [@ EXCEPT ![o].cols = <<NewColumn(c, d.next)>>, ![o].active = TRUE],
            !.comment = {m \in @ : m.oid # o \/ m.sub = 0},
            !.dep = {e \in @ : e[1] # o} \union {<<o, fo>>},
            !.next = @ + 1,
            !.phys = [@ EXCEPT ![n] = ViewOf(f, c)],
            !.suspect = (@ \ {o}) \union (Readers(d, n) \ ReadersOf(d, n, c))
                        \union (IF d.rel[fo].kind = "v" /\ fo > o THEN {o} ELSE {})]

IndexMade(d, n, t, o, c, k) ==
  [d EXCEPT !.rel = With(@, d.next, Row(n, "i", <<>>, o, k)),
            !.dep = @ \union {<<d.next, o>>},
            !.next = @ + 2,
            !.pindex = @ \union {[name |-> n, on |-> t, col |-> c]}]

(* Mutant: only the relation's own dependencies are deleted.               *)
RowsDeletedHalf(d, S) ==
  [d EXCEPT !.rel = Without(@, S),
            !.dep = {e \in @ : e[1] \notin S},
            !.comment = {m \in @ : m.oid \notin S}]

(* delete_relation_catalog                                                 *)
RowsDeleted(d, S) ==
  [d EXCEPT !.rel = Without(@, S),
            !.dep = {e \in @ : e[1] \notin S /\ e[2] \notin S},
            !.comment = {m \in @ : m.oid \notin S}]

PhysicalDrop(d, n, kind) ==
  IF kind = "i" THEN [d EXCEPT !.pindex = {i \in @ : i.name # n}]
  ELSE [d EXCEPT !.phys = [@ EXCEPT ![n] = Nothing],
                 !.pindex = {i \in @ : i.on # n}]

(* The rows of the dependents go with the row; DuckDB drops the object and *)
(* its indexes, and keeps the views over it.                               *)
Dropped(d, n, o) ==
  LET gone == Dependents(d, o)
      views == {x \in gone \intersect Rows(d) : d.rel[x].kind = "v"}
      cut == UNION {Dependents(d, x) : x \in views}
      rows == RowsDeleted(d, gone \union {o})
  IN  [PhysicalDrop(rows, n, d.rel[o].kind)
         EXCEPT !.next = @ + 1,
                !.left = @ \union {d.rel[x].name : x \in views},
                !.suspect = (@ \union cut) \ (gone \union {o})]

CanDrop(d, n, o, kind, cascade) ==
  /\ IsActive(d, n, o)
  /\ d.rel[o].kind = kind
  /\ cascade \/ Dependents(d, o) = {}
  /\ d.next <= MaxOid

(* Mutant: the attnum of a dropped column is given out again.              *)
ColumnAddedReusing(d, n, o, c) ==
  LET cols == d.rel[o].cols
      free == {k \in DOMAIN cols : cols[k].dropped}
      new == NewColumn(c, d.next)
  IN  [d EXCEPT !.rel = [@ EXCEPT ![o].cols = IF free = {} THEN Append(cols, new)
                                              ELSE [cols EXCEPT ![CHOOSE k \in free : TRUE] = new]],
                !.next = @ + 1,
                !.phys = [@ EXCEPT ![n].cols = Append(d.phys[n].cols, c)]]

ColumnAdded(d, n, o, c) ==
  [d EXCEPT !.rel = [@ EXCEPT ![o].cols = Append(d.rel[o].cols, NewColumn(c, d.next))],
            !.next = @ + 1,
            !.phys = [@ EXCEPT ![n].cols = Append(d.phys[n].cols, c)]]

(* DuckDB's columns without c: those after it move up.                     *)
Cut(cols, c) ==
  LET p == CHOOSE p \in DOMAIN cols : cols[p] = c
  IN  [i \in 1..Len(cols) - 1 |-> IF i < p THEN cols[i] ELSE cols[i + 1]]

(* The row of a dropped column stays, so that its attnum is not given out. *)
ColumnDropped(d, n, o, c, k) ==
  [d EXCEPT !.rel = [@ EXCEPT ![o].cols[k].dropped = TRUE],
            !.next = @ + 1,
            !.phys = [@ EXCEPT ![n].cols = Cut(d.phys[n].cols, c)],
            !.suspect = @ \union ReadersOf(d, n, c)]

ColumnRenamed(d, n, o, k, c, new) ==
  LET cols == d.phys[n].cols
  IN  [d EXCEPT !.rel = [@ EXCEPT ![o].cols[k].name = new],
                !.next = @ + 1,
                !.phys = [@ EXCEPT ![n].cols =
                           [i \in DOMAIN cols |-> IF cols[i] = c THEN new ELSE cols[i]]]]

Commented(d, o, k, text) ==
  LET of == IF k = 0 THEN o ELSE d.rel[o].cols[k].born
  IN  [d EXCEPT !.comment = {m \in @ : m.oid # o \/ m.sub # k} \union
                            (IF text THEN {[oid |-> o, sub |-> k, of |-> of]} ELSE {}),
                !.next = @ + 1]

-----------------------------------------------------------------------------
(* Snapshot and restore                                                    *)

(* The manifest takes the SQL DuckDB has for the views with an active row. *)
ViewsOf(d) ==
  {[oid |-> o, name |-> d.rel[o].name, from |-> d.phys[d.rel[o].name].from,
    col |-> d.phys[d.rel[o].name].cols[1]] : o \in {x \in Rows(d) : ActiveView(d, x)}}

TableRows(d) == {o \in Rows(d) : d.rel[o].kind = "r" /\ d.rel[o].active}

(* Tables come back first, then views in the order of their oids: a view   *)
(* needs a table that has its column, or such a view with a lower oid.     *)
(* Mutant: the views come back newest first.                               *)
ViewRestoresNewestFirst(s, missing, v) ==
  \/ \E o \in TableRows(s.db) \ missing : /\ s.db.rel[o].name = v.from
                                          /\ Has(LiveColumns(s.db.rel[o].cols), v.col)
  \/ \E w \in s.views : w.oid > v.oid /\ w.name = v.from /\ w.col = v.col

ViewRestores(s, missing, v) ==
  \/ \E o \in TableRows(s.db) \ missing : /\ s.db.rel[o].name = v.from
                                          /\ Has(LiveColumns(s.db.rel[o].cols), v.col)
  \/ \E w \in s.views : w.oid < v.oid /\ w.name = v.from /\ w.col = v.col

Restores(s, missing) == \A v \in s.views : ViewRestores(s, missing, v)

(* A table without its data file is unavailable, and so is its index.      *)
Unavailable(s, missing) ==
  missing \union {i \in Rows(s.db) : s.db.rel[i].kind = "i" /\ s.db.rel[i].on \in missing}

Restored(s, missing) ==
  LET d == s.db
      off == Unavailable(s, missing)
      rel == [o \in Rows(d) |-> IF o \in off THEN [d.rel[o] EXCEPT !.active = FALSE]
                                ELSE d.rel[o]]
      tables == {o \in TableRows(d) : o \notin missing}
      Table(n) == {o \in tables : d.rel[o].name = n}
      View(n) == {v \in s.views : v.name = n}
  IN  [d EXCEPT
        !.rel = rel,
        !.phys = [n \in Name |->
                   IF Table(n) # {}
                   THEN [Nothing EXCEPT !.kind = "r",
                           !.cols = LiveColumns(d.rel[CHOOSE o \in Table(n) : TRUE].cols)]
                   ELSE IF View(n) # {}
                   THEN LET v == CHOOSE v \in View(n) : TRUE
                        IN  ViewOf(v.from, v.col)
                   ELSE Nothing],
        !.pindex = {IndexEntry(d, i) :
                    i \in {x \in Rows(d) : d.rel[x].kind = "i" /\ rel[x].active}},
        !.left = {}]

-----------------------------------------------------------------------------
(* The write worker                                                        *)

Init == db = First /\ saved = NoSnapshot /\ phase = "up"

Up == phase = "up"

Commit(d) == /\ saved # NoSnapshot => d.next <= saved.db.next + MaxUnsaved
             /\ db' = d /\ UNCHANGED <<saved, phase>>

CreateTable(n, c) == Up /\ CanMakeTable(db, n) /\ Commit(TableMade(db, n, c))

(* All the tables of an import in one transaction.                         *)
ImportParquet(n, m, c) ==
  /\ Up /\ n # m /\ CanMakeTable(db, n) /\ ~Taken(db, m)
  /\ LET d == TableMade(db, n, c)
     IN  CanMakeTable(d, m) /\ Commit(TableMade(d, m, c))

(* Plain, IF NOT EXISTS and OR REPLACE differ only over a view that DuckDB *)
(* still has, left by a CASCADE: the plain form fails there, and keep, IF  *)
(* NOT EXISTS, leaves that view as it is.                                  *)
CreateView(n, c, f, keep) ==
  /\ Up
  /\ db.next + 1 <= MaxOid
  /\ ~Taken(db, n)
  /\ keep => db.phys[n].kind = "v"
  /\ LET obj == IF keep THEN db.phys[n] ELSE ViewOf(f, c)
     IN  \E fo \in Rows(db), k \in Column :
           /\ IsActive(db, f, fo) /\ db.rel[fo].kind # "i"
           /\ CanReadView(db, f, c)
           /\ obj.cols = <<k>>
           /\ Commit(ViewMade(db, n, obj, k, fo))

ReplaceView(n, c, f) ==
  /\ Up
  /\ db.next <= MaxOid
  /\ n # f
  /\ \E o, fo \in Rows(db) : /\ IsActive(db, n, o) /\ db.rel[o].kind = "v"
                            /\ IsActive(db, f, fo) /\ db.rel[fo].kind # "i"
                            /\ CanReadView(db, f, c)
                            /\ Commit(ViewReplaced(db, n, o, c, f, fo))

CreateIndex(n, t, c) ==
  /\ Up
  /\ ~Taken(db, n)
  /\ db.next + 1 <= MaxOid
  /\ \A i \in db.pindex : i.name # n
  /\ \E o \in Rows(db) : /\ IsActive(db, t, o) /\ db.rel[o].kind = "r"
                    /\ \E k \in DOMAIN db.rel[o].cols :
                         Attnum(db, o, c, k) /\ Commit(IndexMade(db, n, t, o, c, k))

(* DROP of one name, or of two in one transaction.                         *)
Drop(n, kind, cascade) ==
  /\ Up
  /\ \E o \in Rows(db) : CanDrop(db, n, o, kind, cascade) /\ Commit(Dropped(db, n, o))

DropTwo(n, m, kind, cascade) ==
  /\ Up
  /\ \E o, p \in Rows(db) :
       /\ CanDrop(db, n, o, kind, cascade)
       /\ CanDrop(Dropped(db, n, o), m, p, kind, cascade)
       /\ Commit(Dropped(Dropped(db, n, o), m, p))

AddColumn(n, c) ==
  /\ Up
  /\ db.next <= MaxOid
  /\ \E o \in Rows(db) : /\ IsActive(db, n, o) /\ db.rel[o].kind = "r"
                    /\ ~HasColumn(db, o, c)
                    /\ Commit(ColumnAdded(db, n, o, c))

(* Constraints and indexes on the column refuse it, views over it do not;  *)
(* DuckDB refuses to drop the only column.                                 *)
DropColumn(n, c) ==
  /\ Up
  /\ db.next <= MaxOid
  /\ Len(db.phys[n].cols) > 1
  /\ \E o \in Rows(db) : /\ IsActive(db, n, o) /\ db.rel[o].kind = "r"
                    /\ \E k \in DOMAIN db.rel[o].cols :
                         /\ Attnum(db, o, c, k)
                         /\ \A i \in Rows(db) : db.rel[i].on = o => db.rel[i].key # k
                         /\ Commit(ColumnDropped(db, n, o, c, k))

(* Mutant: nothing asks for views over the table.                          *)
RenameColumnUnderView(n, c, new) ==
  /\ Up
  /\ db.next <= MaxOid
  /\ \E o \in Rows(db) : /\ IsActive(db, n, o) /\ db.rel[o].kind = "r"
                    /\ ~HasColumn(db, o, new)
                    /\ \E k \in DOMAIN db.rel[o].cols :
                         Attnum(db, o, c, k) /\ Commit(ColumnRenamed(db, n, o, k, c, new))

RenameColumn(n, c, new) ==
  /\ Up
  /\ db.next <= MaxOid
  /\ \E o \in Rows(db) : /\ IsActive(db, n, o) /\ db.rel[o].kind = "r"
                    /\ ~HasColumn(db, o, new)
                    /\ Dependents(db, o) = {}
                    /\ \E k \in DOMAIN db.rel[o].cols :
                         Attnum(db, o, c, k) /\ Commit(ColumnRenamed(db, n, o, k, c, new))

(* COMMENT ON a relation, or on a live column of it; NULL removes it.      *)
CommentOn(n, text) ==
  /\ Up
  /\ text => Cardinality(db.comment) < MaxComments
  /\ db.next <= MaxOid
  /\ \E o \in Rows(db) : /\ IsActive(db, n, o)
                    /\ \E k \in {0} \union DOMAIN db.rel[o].cols :
                         /\ k > 0 => ~db.rel[o].cols[k].dropped
                         /\ Commit(Commented(db, o, k, text))

SaveSnapshot ==
  /\ Up
  /\ saved' = [db |-> db, views |-> ViewsOf(db)]
  /\ UNCHANGED <<db, phase>>

(* A start with the data files of some tables gone.  What was not saved is *)
(* lost; a restore that fails ends the process.                            *)
Restart(missing) ==
  /\ UNCHANGED saved
  /\ \/ saved = NoSnapshot /\ db' = First /\ phase' = "up"
     \/ /\ saved # NoSnapshot
        /\ Restores(saved, missing)
        /\ db' = Restored(saved, missing) /\ phase' = "up"
     \/ /\ saved # NoSnapshot
        /\ ~Restores(saved, missing)
        /\ phase' = "failed" /\ UNCHANGED db

Next ==
  \/ \E n \in Name, c \in Column :
       \/ CreateTable(n, c)
       \/ \E m \in Name : ImportParquet(n, m, c)
       \/ \E f \in Name, keep \in BOOLEAN : CreateView(n, c, f, keep)
       \/ \E f \in Name : ReplaceView(n, c, f)
       \/ \E t \in Name : CreateIndex(n, t, c)
       \/ AddColumn(n, c)
       \/ DropColumn(n, c)
       \/ \E new \in Column : RenameColumn(n, c, new)
  \/ \E n \in Name, cascade \in BOOLEAN, kind \in {"r", "v", "i"} :
       \/ Drop(n, kind, cascade)
       \/ \E m \in Name : DropTwo(n, m, kind, cascade)
  \/ \E n \in Name, text \in BOOLEAN : CommentOn(n, text)
  \/ SaveSnapshot
  \/ \E missing \in SUBSET (IF saved = NoSnapshot THEN {} ELSE TableRows(saved.db)) :
       Restart(missing)

Spec == Init /\ [][Next]_vars

-----------------------------------------------------------------------------
(* Properties                                                              *)

(* lookup.rs:588-676, recovery.rs:122-244: no DROP leaves a row that names *)
(* a relation without a row: what validate_catalog_integrity would refuse  *)
(* a start for.                                                            *)
NoDangling(d) ==
  /\ \A e \in d.dep : e[1] \in Rows(d) /\ e[2] \in Rows(d)
  /\ \A m \in d.comment : m.oid \in Rows(d)
  /\ \A i \in Rows(d) : d.rel[i].kind = "i" => d.rel[i].on \in Rows(d)

NothingDangles == NoDangling(db) /\ (saved # NoSnapshot => NoDangling(saved.db))

(* comment.rs:5-76, view.rs:96-104, alter_table.rs:710-722: a comment is   *)
(* shown for the column it was said of, whatever was added, dropped,       *)
(* renamed, replaced or restored since.                                    *)
OwnComments(d) ==
  \A m \in d.comment :
    m.sub > 0 => m.sub \in DOMAIN d.rel[m.oid].cols /\ d.rel[m.oid].cols[m.sub].born = m.of

CommentsOwn == OwnComments(db)

(* alter_table.rs:604-649, index.rs:44-64: the column of an index is not   *)
(* dropped, so that restore can name it.                                   *)
KeysLive(d) ==
  \A i \in Rows(d) : d.rel[i].kind = "i" =>
    LET t == d.rel[d.rel[i].on] IN d.rel[i].key \in DOMAIN t.cols /\ ~t.cols[d.rel[i].key].dropped

IndexKeysLive == KeysLive(db)

(* Besides: an index has one dependency row, on its table, tables depend   *)
(* on nothing, and next_oid is above the oids in use.                      *)
Indexed(d) ==
  /\ \A i \in Rows(d) : d.rel[i].kind = "i" => /\ <<i, d.rel[i].on>> \in d.dep
                                               /\ d.rel[d.rel[i].on].kind = "r"
  /\ \A e \in d.dep : /\ d.rel[e[1]].kind # "r"
                      /\ d.rel[e[1]].kind = "i" => e[2] = d.rel[e[1]].on
  /\ \A o \in Rows(d) : o < d.next

(* Rows and objects: names, rows that have their object, objects a row.    *)
NamesUnique(d) == \A o, p \in Rows(d) : d.rel[o].name = d.rel[p].name => o = p

HasObject(d, o) ==
  LET r == d.rel[o]
  IN  IF r.kind = "i" THEN IndexEntry(d, o) \in d.pindex
      ELSE d.phys[r.name].kind = r.kind /\ d.phys[r.name].cols = LiveColumns(r.cols)

RowsHaveObjects(d) == \A o \in Rows(d) : d.rel[o].active => HasObject(d, o)

ObjectsHaveRows(d) ==
  /\ \A n \in Name : d.phys[n].kind # "none" =>
       \/ \E o \in Rows(d) : IsActive(d, n, o) /\ d.rel[o].kind = d.phys[n].kind
       \/ d.phys[n].kind = "v" /\ n \in d.left
  /\ \A i \in d.pindex : \E o \in Rows(d) :
       /\ IsActive(d, i.name, o) /\ d.rel[o].kind = "i"
       /\ i.on = d.rel[d.rel[o].on].name

Agrees(d) == NamesUnique(d) /\ RowsHaveObjects(d) /\ ObjectsHaveRows(d)

(* recovery.rs:263-316 checks it at a start: an active row and the object  *)
(* of DuckDB agree, column by column and in order, at all times; and       *)
(* DuckDB has nothing else, save views a DROP ... CASCADE left (lookup.rs: *)
(* 433-452), which the next start no longer has.                           *)
PhysicalAgrees == Up => Agrees(db)

(* What a view reads: a relation that must not go before it.               *)
Protected(d) ==
  \A o \in Rows(d) : ActiveView(d, o) /\ o \notin d.suspect =>
    LET v == d.phys[d.rel[o].name]
    IN  \E f \in Rows(d) : /\ IsActive(d, v.from, f)
                           /\ <<o, f>> \in d.dep
                           /\ HasColumn(d, f, v.cols[1])
                           /\ d.rel[f].kind = "r" \/ f < o

(* lookup.rs:433-452, view.rs:140-162: a view reads an active relation     *)
(* that has its column and was made before it, and a dependency row keeps  *)
(* that relation from being dropped or renamed under it; the exceptions    *)
(* are the views that one of these touched: a CASCADE two levels below,    *)
(* DROP COLUMN, CREATE OR REPLACE of the view it reads or of itself over a *)
(* newer view, CREATE VIEW over what a CASCADE left.                       *)
ViewsProtected == Protected(db)

(* snapshot.rs:374-399: a snapshot without such a view restores.           *)
RestoresUnlessSuspect == saved # NoSnapshot /\ saved.db.suspect = {} => Restores(saved, {})

(* Besides: a view has one column, an index none of its own, and no two    *)
(* live columns of a relation have the same name.                          *)
RowShaped(r) ==
  /\ r.kind = "v" => Len(r.cols) = 1 /\ ~r.cols[1].dropped
  /\ r.kind = "i" => r.cols = <<>>
  /\ \A j, k \in Live(r.cols) : r.cols[j].name = r.cols[k].name => j = k

Shaped(d) == \A o \in Rows(d) : RowShaped(d.rel[o])

Sound(d) == NoDangling(d) /\ OwnComments(d) /\ KeysLive(d) /\ Indexed(d)

(* bootstrap.rs and init_sql make such a catalog.                          *)
ASSUME FirstAssumption == /\ IsDatabase(First) /\ Sound(First)
                          /\ Agrees(First) /\ Protected(First) /\ Shaped(First)

(* README.md:225: a snapshot that was saved restores, all its files there. *)
SavedRestores == saved # NoSnapshot => Restores(saved, {})
=============================================================================
