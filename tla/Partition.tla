------------------------------ MODULE Partition ------------------------------
(***************************************************************************)
(* One managed range-partitioned table: its partitions, the view through   *)
(* which it is queried, retention, quarantine and repair, DDL, and what a  *)
(* snapshot and a restart make of it.  src/catalog/partition/,             *)
(* src/catalog/mutation/{table,index,alter_table,drop}.rs,                 *)
(* src/catalog/recovery.rs, src/db/snapshot.rs.  The write worker runs one *)
(* command at a time, each in one transaction (Engine): a command that     *)
(* fails leaves nothing behind and is a stuttering step here.              *)
(***************************************************************************)
EXTENDS Naturals, Sequences, FiniteSets

CONSTANTS
    N,          \* partition values 1..N, in the order of their bounds
    Retention,  \* retention_count
    MaxRows,    \* bound: rows ever inserted for one value
    MaxUnsaved, \* bound: commands between a snapshot and the next, or a kill
    Column,     \* names of columns
    Key,        \* that of the partition key, which is never renamed here
    First       \* the columns of CREATE TABLE, in order

\* parse_partition_options refuses any other retention.
ASSUME PartitionAssumption ==
    /\ N \in Nat /\ Retention \in Nat \ {0} /\ MaxRows \in Nat /\ MaxUnsaved \in Nat
    /\ Key \in Column /\ First \in Seq(Column) /\ \E i \in DOMAIN First : First[i] = Key

Value == 1..N

VARIABLES
    up,       \* is the service running?
    parent,   \* rs_relation.status of the table, "none" without a table
    pcols,    \* its columns in rs_column, by attnum
    pidx,     \* has it a UNIQUE index in rs_index?
    part,     \* rs_partition.status and row_count of each value, with
              \* rs_relation.status and the columns of its child
    tbl,      \* the child tables in DuckDB: rows, columns in their order, index, equal keys
    view,     \* the entry view in DuckDB: the tables it reads, its columns
    snap,     \* the latest snapshot
    unsaved,  \* commands since
    \* history
    gone,     \* rows of each value removed by expiry
    mended    \* partitions repaired with columns or indexes not the parent's

catalog == <<parent, pcols, pidx, part>>
physical == <<tbl, view>>
history == <<gone, mended>>
vars == <<up, catalog, physical, snap, unsaved, history>>

NoPart == [st |-> "none", rel |-> "none", cols |-> <<>>, count |-> 0]
NoTable == [on |-> FALSE, rows |-> 0, cols |-> <<>>, idx |-> FALSE, dups |-> FALSE]
NoView == [on |-> FALSE, of |-> {}, cols |-> <<>>]

Empty ==
    /\ parent' = "none" /\ pcols' = <<>> /\ pidx' = FALSE
    /\ part' = [v \in Value |-> NoPart]
    /\ tbl' = [v \in Value |-> NoTable] /\ view' = NoView
    /\ gone' = [v \in Value |-> 0] /\ mended' = {}

\* active_partition_children.
Active(p) == {v \in Value : p[v].st = "active"}

\* The partitions retention_partitions lists before the last Retention ones.
\* Mutant: one too many is kept.
OldestButOne(p) ==
    {v \in Active(p) : Cardinality({w \in Active(p) : w >= v}) > Retention + 1}

Oldest(p) ==
    {v \in Active(p) : Cardinality({w \in Active(p) : w >= v}) > Retention}

\* delete_partition_child_catalog, and status 'dropped' in rs_partition.
Dropped(p, gon) ==
    [v \in Value |-> IF v \in gon
                     THEN [p[v] EXCEPT !.st = "dropped", !.rel = "none", !.cols = <<>>]
                     ELSE p[v]]
Without(t, gon) == [v \in Value |-> IF v \in gon THEN NoTable ELSE t[v]]

\* DuckDB: a UNION ALL of SELECT * goes by position.  It takes the names of its
\* first branch, and wants as many columns of every other.
UnionBinds(t, of) ==
    /\ \A v \in of : t[v].on
    /\ \A v, w \in of : Len(t[v].cols) = Len(t[w].cols)
UnionColumns(t, of, cols) ==
    IF of = {} THEN cols
    ELSE t[CHOOSE v \in of : \A w \in of : v <= w].cols

\* refresh_partition_entrypoint: CREATE OR REPLACE VIEW over the active
\* partitions, or over no row with the columns of the parent.
Refresh ==
    /\ UnionBinds(tbl', Active(part'))
    /\ view' = [on |-> TRUE, of |-> Active(part'),
                cols |-> UnionColumns(tbl', Active(part'), pcols')]

-----------------------------------------------------------------------------
(***************************************************************************)
(* Commands                                                                *)
(***************************************************************************)
Ready == up /\ parent = "active"

\* create_range_partitioned_table.
CreateTable ==
    /\ up /\ parent = "none"
    /\ parent' = "active" /\ pcols' = First
    /\ view' = [on |-> TRUE, of |-> {}, cols |-> First]
    /\ UNCHANGED <<up, pidx, part, tbl, snap, history>>

\* create_range_partition: columns and indexes of the parent's catalog rows.
\* Mutant: the indexes are left to a later CREATE INDEX.
NewTableBare == [on |-> TRUE, rows |-> 0, cols |-> pcols, idx |-> FALSE, dups |-> FALSE]

NewTable == [on |-> TRUE, rows |-> 0, cols |-> pcols, idx |-> pidx, dups |-> FALSE]

\* ensure_active_partition refuses a value whose partition is not active.
Insertable(v) == part[v].st \in {"active", "none"}

\* insert_partitioned_relation: one row for every value of vs, its key new or,
\* for the values of again, that of a row already there.  Into a table whose
\* columns are not the parent's it fails or not, as the columns it names.
Insert(vs, again) ==
    LET made == [v \in Value |->
            IF v \notin vs THEN part[v]
            ELSE IF part[v].st = "active" THEN [part[v] EXCEPT !.count = @ + 1]
            ELSE [st |-> "active", rel |-> "active", cols |-> pcols, count |-> 1]]
        base == [v \in Value |-> IF v \in vs /\ part[v].st = "none" THEN NewTable ELSE tbl[v]]
        filled == [v \in Value |->
            IF v \in vs THEN [base[v] EXCEPT !.rows = @ + 1, !.dups = @ \/ v \in again]
            ELSE base[v]]
        gon == Oldest(made)
    IN
    /\ Ready
    /\ \A v \in vs : Insertable(v) /\ part[v].count < MaxRows
    /\ \A v \in again : tbl[v].rows > 0 /\ ~tbl[v].idx
    /\ part' = Dropped(made, gon) /\ tbl' = Without(filled, gon)
    /\ gone' = [v \in Value |-> IF v \in gon THEN made[v].count ELSE gone[v]]
    /\ mended' = mended \ gon
    /\ UNCHANGED <<up, parent, pcols, pidx, snap>>
    /\ Refresh

\* run_partition_maintenance.
Maintain ==
    /\ Ready
    /\ part' = Dropped(part, Oldest(part)) /\ tbl' = Without(tbl, Oldest(part))
    /\ gone' = [v \in Value |-> IF v \in Oldest(part) THEN part[v].count ELSE gone[v]]
    /\ mended' = mended \ Oldest(part)
    /\ UNCHANGED <<up, parent, pcols, pidx, snap>>
    /\ Refresh

\* mark_partition_unavailable: the partition leaves the view, its table stays.
\* Mutant: the view is not refreshed.
MarkStaleView(v) ==
    /\ Ready
    /\ part[v].rel # "none"
    /\ part' = [part EXCEPT ![v].st = "failed", ![v].rel = "unavailable"]
    /\ UNCHANGED <<up, parent, pcols, pidx, physical, snap, history>>

Mark(v) ==
    /\ Ready
    /\ part[v].rel # "none"
    /\ part' = [part EXCEPT ![v].st = "failed", ![v].rel = "unavailable"]
    /\ UNCHANGED <<up, parent, pcols, pidx, tbl, snap, history>>
    /\ Refresh

\* repair_partition of an expired value: a new table under the old oid.
RepairDropped(v) ==
    /\ Ready
    /\ part[v].st \notin {"none", "active"} /\ part[v].rel = "none"
    /\ part' = [part EXCEPT ![v].st = "active", ![v].rel = "active", ![v].cols = pcols]
    /\ tbl' = [tbl EXCEPT ![v] = NewTable]
    /\ UNCHANGED <<up, parent, pcols, pidx, snap, history>>
    /\ Refresh

\* repair_partition of a quarantined one: its table must be as its own catalog
\* rows say, column by column (validate_table_physical), whatever has become of the parent.
\* Mutant: a table that is missing is made again.
RepairFailedAnew(v) ==
    /\ Ready
    /\ part[v].st \notin {"none", "active"} /\ part[v].rel # "none"
    /\ part' = [part EXCEPT ![v].st = "active", ![v].rel = "active", ![v].cols = pcols]
    /\ tbl' = IF tbl[v].on THEN tbl ELSE [tbl EXCEPT ![v] = NewTable]
    /\ UNCHANGED <<up, parent, pcols, pidx, snap, gone, mended>>
    /\ Refresh

RepairFailed(v) ==
    /\ Ready
    /\ part[v].st \notin {"none", "active"} /\ part[v].rel # "none"
    /\ tbl[v].on /\ tbl[v].cols = part[v].cols
    /\ part' = [part EXCEPT ![v].st = "active", ![v].rel = "active"]
    /\ mended' = IF tbl[v].cols = pcols /\ tbl[v].idx = pidx THEN mended \ {v} ELSE mended \union {v}
    /\ UNCHANGED <<up, parent, pcols, pidx, tbl, snap, gone>>
    /\ Refresh

\* CREATE UNIQUE INDEX: on every active partition; a table that has an index
\* of this name already keeps it.
\* Mutant: only partitions to come get the index.
CreateIndexLater ==
    /\ Ready /\ ~pidx
    /\ pidx' = TRUE
    /\ UNCHANGED <<up, parent, pcols, part, physical, snap, history>>

CreateIndex ==
    /\ Ready /\ ~pidx
    /\ \A v \in Active(part) : ~tbl[v].dups
    /\ pidx' = TRUE
    /\ tbl' = [v \in Value |-> IF v \in Active(part) THEN [tbl[v] EXCEPT !.idx = TRUE] ELSE tbl[v]]
    /\ UNCHANGED <<up, parent, pcols, part, view, snap, history>>

\* drop_partitioned_index.
DropIndex ==
    /\ Ready /\ pidx
    /\ pidx' = FALSE
    /\ tbl' = [v \in Value |-> IF v \in Active(part) THEN [tbl[v] EXCEPT !.idx = FALSE] ELSE tbl[v]]
    /\ UNCHANGED <<up, parent, pcols, part, view, snap, history>>

\* What ADD COLUMN d, DROP COLUMN c, RENAME COLUMN c TO d make of a table.
Names(cols) == {cols[i] : i \in DOMAIN cols}
At(cols, c) == CHOOSE i \in DOMAIN cols : cols[i] = c
Edited(op, c, d, cols) ==
    CASE op = "add"    -> Append(cols, d)
      [] op = "drop"   -> [i \in 1..(Len(cols) - 1) |-> cols[IF i < At(cols, c) THEN i ELSE i + 1]]
      [] op = "rename" -> [cols EXCEPT ![At(cols, c)] = d]

\* The columns it finds, in the catalog and in the tables.
Editable(op, c, d, cols) ==
    /\ op # "add" => c \in Names(cols) \ {Key}
    /\ op # "drop" => d \notin Names(cols)

\* DuckDB: a table with an index keeps its names, and the columns up to the one
\* indexed, which is the key.
IndexAllows(op, c, t) ==
    t.idx => op # "rename" /\ (op = "drop" => At(t.cols, Key) < At(t.cols, c))

\* alter_partitioned_table_{add_column,drop_columns,rename_column}: every active
\* partition, and then the parent.
Alter(op, c, d) ==
    /\ Ready
    /\ Active(part) # {}
    /\ Editable(op, c, d, pcols)
    /\ \A v \in Active(part) : Editable(op, c, d, tbl[v].cols) /\ IndexAllows(op, c, tbl[v])
    /\ pcols' = Edited(op, c, d, pcols)
    /\ part' = [v \in Value |->
                  IF v \in Active(part)
                  THEN [part[v] EXCEPT !.cols = Edited(op, c, d, part[v].cols)] ELSE part[v]]
    /\ tbl' = [v \in Value |->
                 IF v \in Active(part)
                 THEN [tbl[v] EXCEPT !.cols = Edited(op, c, d, tbl[v].cols)] ELSE tbl[v]]
    /\ UNCHANGED <<up, parent, pidx, snap, history>>
    /\ Refresh

\* DROP TABLE ... CASCADE: the view, then the table of every partition that has
\* a row in rs_relation.
DropTable ==
    /\ Ready
    /\ \A v \in Value : part[v].rel # "none" => tbl[v].on
    /\ Empty
    /\ UNCHANGED <<up, snap>>

-----------------------------------------------------------------------------
(***************************************************************************)
(* Snapshot and restart                                                    *)
(***************************************************************************)

\* save_snapshot_blocking: the catalog, the definition of the view of an active
\* table, and a data file of every relation that is active.
Image ==
    [parent |-> parent, pcols |-> pcols, pidx |-> pidx, part |-> part,
     view |-> IF parent = "active" THEN view ELSE NoView,
     data |-> [v \in Value |-> IF part[v].rel = "active" THEN tbl[v] ELSE NoTable],
     lost |-> FALSE, gone |-> gone, mended |-> mended]

Save ==
    /\ up
    /\ \A v \in Value : part[v].rel = "active" => tbl[v].on
    /\ snap' = Image /\ unsaved' = 0
    /\ UNCHANGED <<up, catalog, physical, history>>

\* A kill or a shutdown: what was in memory is gone.
Crash ==
    /\ up
    /\ up' = FALSE /\ unsaved' = 0
    /\ Empty
    /\ UNCHANGED snap

\* A data file of the snapshot disappears.
LoseFile(v) ==
    /\ ~up
    /\ snap.data[v].on
    /\ snap' = [snap EXCEPT !.data[v] = NoTable, !.lost = TRUE]
    /\ UNCHANGED <<up, catalog, physical, unsaved, history>>

\* restore_snapshot_table: the columns come from the catalog, the rows from the
\* file.  Without a file the relation becomes unavailable.
RestoredPart(v) ==
    IF snap.part[v].rel = "active" /\ ~snap.data[v].on
    THEN [snap.part[v] EXCEPT !.rel = "unavailable"] ELSE snap.part[v]
Indexed(v) == snap.pidx /\ snap.parent = "active" /\ snap.part[v].st = "active"
RestoredTable(v) ==
    IF snap.data[v].on
    THEN [snap.data[v] EXCEPT !.cols = snap.part[v].cols, !.idx = Indexed(v)]
    ELSE NoTable
RestoredTables == [v \in Value |-> RestoredTable(v)]

\* Every statement of restore_partition_indexes and restore_snapshot_views
\* succeeds.
Restores ==
    /\ \A v \in Value : Indexed(v) => snap.data[v].on /\ ~snap.data[v].dups
    /\ snap.view.on => UnionBinds(RestoredTables, snap.view.of)

\* validate_partitioned_relation makes the view anew from the catalog.  It would
\* fail a partition whose table is missing, but the view of the snapshot, over
\* the same partitions, cannot be created then.
RestoredView ==
    LET of == Active(snap.part) IN
    IF snap.parent = "active"
    THEN [on |-> TRUE, of |-> of, cols |-> UnionColumns(RestoredTables, of, snap.pcols)]
    ELSE NoView

\* restore_snapshot_v2.
Start ==
    /\ ~up
    /\ Restores
    /\ up' = TRUE
    /\ part' = [v \in Value |-> RestoredPart(v)]
    /\ tbl' = RestoredTables
    /\ pcols' = snap.pcols /\ pidx' = snap.pidx
    /\ view' = RestoredView
    /\ parent' = IF snap.parent = "active" /\ RestoredView.cols # snap.pcols
                 THEN "unavailable" ELSE snap.parent
    /\ gone' = snap.gone /\ mended' = snap.mended
    /\ UNCHANGED <<snap, unsaved>>

\* The process gives up, and may be started again.
StartFails ==
    /\ ~up
    /\ ~Restores
    /\ UNCHANGED vars

AlterColumns ==
    \E c, d \in Column :
        (c = d /\ (Alter("add", c, d) \/ Alter("drop", c, d))) \/ Alter("rename", c, d)

Command ==
    \/ CreateTable \/ DropTable
    \/ \E vs \in SUBSET Value \ {{}} : \E again \in SUBSET vs : Insert(vs, again)
    \/ Maintain
    \/ \E v \in Value : Mark(v) \/ RepairDropped(v) \/ RepairFailed(v)
    \/ CreateIndex \/ DropIndex
    \/ AlterColumns

Next ==
    \/ /\ unsaved < MaxUnsaved /\ unsaved' = unsaved + 1
       /\ Command
    \/ Save \/ Crash \/ Start \/ StartFails
    \/ \E v \in Value : LoseFile(v)

\* A fresh catalog: bootstrap_fresh.
Init ==
    /\ up = TRUE
    /\ parent = "none" /\ pcols = <<>> /\ pidx = FALSE
    /\ part = [v \in Value |-> NoPart]
    /\ tbl = [v \in Value |-> NoTable] /\ view = NoView
    /\ gone = [v \in Value |-> 0] /\ mended = {}
    /\ snap = Image /\ unsaved = 0

Spec == Init /\ [][Next]_vars

-----------------------------------------------------------------------------
(***************************************************************************)
(* Properties                                                              *)
(***************************************************************************)
PartType ==
    [st : {"none", "active", "failed", "dropped"}, rel : {"none", "active", "unavailable"},
     cols : Seq(Column), count : Nat]
TableType ==
    [on : BOOLEAN, rows : Nat, cols : Seq(Column), idx : BOOLEAN, dups : BOOLEAN]
ViewType == [on : BOOLEAN, of : SUBSET Value, cols : Seq(Column)]

\* Types of the variables, and the statuses rs_partition knows.
TypeOK ==
    /\ up \in BOOLEAN /\ unsaved \in Nat
    /\ parent \in {"none", "active", "unavailable"}
    /\ pcols \in Seq(Column) /\ pidx \in BOOLEAN
    /\ part \in [Value -> PartType] /\ tbl \in [Value -> TableType]
    /\ view \in ViewType
    /\ gone \in [Value -> Nat] /\ mended \subseteq Value
    /\ snap \in [parent : {"none", "active", "unavailable"}, pcols : Seq(Column),
                 pidx : BOOLEAN, part : [Value -> PartType], view : ViewType,
                 data : [Value -> TableType], lost : BOOLEAN,
                 gone : [Value -> Nat], mended : SUBSET Value]

\* An active partition holds every row ever inserted for its value that expiry
\* has not removed, whatever it went through: quarantine, repair, expiry and
\* repair, snapshot and restart (ensure_active_partition, repair_partition,
\* restore_snapshot_table).
RowsKept ==
    up => \A v \in Value : part[v].st = "active" /\ part[v].rel = "active" =>
              tbl[v].on /\ tbl[v].rows + gone[v] = part[v].count

\* The view reads the active partitions, all of them and nothing else, under
\* the columns of the table in their order, unless the first of them came back
\* by a repair with other columns (refresh_partition_entrypoint,
\* validate_partitioned_relation).
ViewExact ==
    Ready =>
        /\ view.on /\ view.of = Active(part)
        /\ \/ view.cols = pcols
           \/ \E v \in Active(part) : v \in mended /\ \A w \in Active(part) : v <= w

\* The active partitions have the columns of the table in its order, so that the
\* UNION ALL of the view puts like with like, and its index, in the catalog and
\* in DuckDB, except those repaired with a table made before the
\* last DDL (create_range_partition, create_partition_indexes, ALTER TABLE).
Uniform ==
    Ready => \A v \in Active(part) :
        /\ tbl[v].cols = part[v].cols
        /\ v \notin mended =>
               tbl[v].cols = pcols /\ tbl[v].idx = pidx

\* A start fails only on a snapshot that has lost a file, or was taken after a
\* repair brought in a table with other columns or indexes
\* (save_snapshot_blocking, restore_snapshot_v2).
Restorable == snap.lost \/ snap.mended # {} \/ Restores

\* What expires is older than all that stays and no more than retention asks
\* for, and no insert leaves more active partitions than it allows
\* (expire_old_partitions).
RetentionKept ==
    [][up /\ up' /\ parent' = "active" =>
        /\ \A v \in Value : part[v].st # "dropped" /\ part'[v].st = "dropped" =>
              /\ \A w \in Active(part') : w > v
              /\ Cardinality(Active(part')) = Retention
        /\ (\E v \in Value : part'[v].count > part[v].count) =>
              Cardinality(Active(part')) <= Retention]_vars

=============================================================================
