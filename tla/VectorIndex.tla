----------------------------- MODULE VectorIndex -----------------------------
(***************************************************************************)
(* One vector space: its HNSW index, the table of its vectors, and the     *)
(* clients of the Vector API.  src/catalog/mutation/vector_index.rs,       *)
(* src/db/vector.rs, and what src/db/snapshot.rs and                       *)
(* src/catalog/recovery.rs do with both at a restart.  Commands of the     *)
(* write worker run one at a time under the gate (Engine); searches run on *)
(* another connection, two statements each, between any two commits.  The  *)
(* vectors enter the database through the Vector API only.                 *)
(***************************************************************************)
EXTENDS Naturals, Sequences, FiniteSets

CONSTANTS
    Key,        \* (tenant_id, agent_id, memory_id)
    NoRow,
    Source,     \* the events of the source of truth, in order
    Rogue,      \* further upserts, of producers that do not follow it
    MaxBatch,   \* bound: events in a batch
    Versions    \* versions of the VSS extension that may be installed

Ops == {"upsert", "delete"}
Event == [op : Ops, key : Key, ver : Nat, hash : Nat]

\* source_version increases along the events of a key.
ASSUME VectorIndexAssumption ==
    /\ Source \in Seq(Event) /\ Rogue \subseteq Event
    /\ \A i, j \in DOMAIN Source :
         i < j /\ Source[i].key = Source[j].key => Source[i].ver < Source[j].ver
    /\ MaxBatch \in Nat \ {0}
    /\ Versions # {} /\ Versions \subseteq Nat
    /\ NoRow \notin [ver : Nat, hash : Nat]

VARIABLES
    up,        \* is the service running?
    status,    \* rs_vector_index.build_status, "none" without an index
    rel,       \* rs_relation.status of the index
    phys,      \* does DuckDB have the index?
    ext,       \* rs_vector_index.extension_version
    vss,       \* the version of the loaded extension
    table,     \* does DuckDB have the table?
    unique,    \* ... with its UNIQUE constraint?
    rows,      \* the row of each key: [ver, hash]
    cmd,       \* the maintenance command the write worker is in
    txn,       \* has a panic left a transaction open on its connection?
    search,    \* the search a read worker is in
    snap,      \* the latest snapshot
    pos,       \* events of Source the consumer has had acknowledged
    \* history
    panicked,  \* has a command of this process panicked?
    dropped,   \* was the index dropped since the search read its status?
    scanned    \* has an ANN query run without an index for another reason?

index == <<status, rel, phys, ext>>
data == <<table, unique, rows>>
write == <<cmd, txn, panicked>>
read == <<search, dropped, scanned>>
vars == <<up, index, vss, data, write, read, snap, pos>>

Image == [status |-> status, rel |-> rel, ext |-> ext,
          table |-> table, rows |-> rows, pos |-> pos]

Init ==
    /\ up = TRUE
    /\ status = "none" /\ rel = "none" /\ phys = FALSE
    /\ vss \in Versions /\ ext = vss
    /\ table = TRUE /\ unique = TRUE
    /\ rows = [k \in Key |-> NoRow]
    /\ cmd = "none" /\ txn = FALSE /\ panicked = FALSE
    /\ search = "idle" /\ dropped = FALSE /\ scanned = FALSE
    /\ pos = 0
    /\ snap = Image

\* The write worker takes the next command.  In a transaction left open it
\* commits nothing any more: BEGIN fails, and what it writes stays inside.
Free == up /\ cmd = "none" /\ ~txn

-----------------------------------------------------------------------------
(***************************************************************************)
(* The status machine                                                      *)
(***************************************************************************)
\* vector_index_transition_allowed.
Allowed ==
    {"pending", "building", "active", "rebuilding", "compacting", "stale"}
        \X {"unavailable"}
    \union {<<"pending", "building">>, <<"building", "active">>}
    \union {<<"active", next>> : next \in {"rebuilding", "compacting", "stale"}}
    \union {<<"rebuilding", "active">>, <<"compacting", "active">>}
    \union {<<"stale", "rebuilding">>, <<"failed", "rebuilding">>}
    \union {<<"failed", "unavailable">>, <<"unavailable", "rebuilding">>}
    \union ({"pending", "building", "rebuilding", "compacting"} \X {"failed"})

\* transition_vector_index_status, in autocommit mode.
Transition(next) ==
    /\ <<status, next>> \in Allowed
    /\ status' = next

-----------------------------------------------------------------------------
(***************************************************************************)
(* Commands of the write worker                                            *)
(***************************************************************************)

\* create_vector_index: pending, building and active within one transaction.
\* The contract of the table includes its UNIQUE constraint.
Create ==
    /\ Free
    /\ status = "none"
    /\ table /\ unique
    /\ status' = "active" /\ rel' = "active" /\ phys' = TRUE /\ ext' = vss
    /\ UNCHANGED <<up, vss, data, write, read, snap, pos>>

\* DROP INDEX: the physical index and the catalog rows in one transaction.  A
\* relation that is not active "does not exist".
Drop ==
    /\ Free
    /\ rel = "active" /\ phys
    /\ status' = "none" /\ rel' = "none" /\ phys' = FALSE
    /\ dropped' = (search # "idle")
    /\ UNCHANGED <<up, ext, vss, data, write, search, scanned, snap, pos>>

\* The rules of one event, for the row of its key.
\* Mutant: the comparison is swapped.
StaleSwapped(e) == rows[e.key] # NoRow /\ rows[e.key].ver < e.ver

Stale(e) == rows[e.key] # NoRow /\ rows[e.key].ver > e.ver
Conflicts(e) ==
    /\ e.op = "upsert"
    /\ rows[e.key] # NoRow
    /\ rows[e.key].ver = e.ver /\ rows[e.key].hash # e.hash

RowAfter(e) == IF e.op = "upsert" THEN [ver |-> e.ver, hash |-> e.hash] ELSE NoRow

\* Mutant: no version is stale.
ValidIfCurrent(batch) == \A e \in batch : ~Conflicts(e)

Valid(batch) == \A e \in batch : ~Stale(e) /\ ~Conflicts(e)

\* upsert_vectors_blocking, delete_vectors_blocking, with an active index: one
\* transaction a batch, in which no key occurs twice.
Apply(batch) ==
    /\ Free
    /\ status = "active"
    /\ Valid(batch)
    /\ rows' = [k \in Key |->
                 IF \E e \in batch : e.key = k
                 THEN RowAfter(CHOOSE e \in batch : e.key = k) ELSE rows[k]]
    /\ UNCHANGED <<up, index, vss, table, unique, write, read, snap>>

\* The consumer of the outbox sends the events that follow its position, in
\* batches of one operation.
Window(n) == {Source[i] : i \in pos + 1..pos + n}
IsBatch(n) ==
    /\ n \in 1..MaxBatch /\ pos + n <= Len(Source)
    /\ \A e, f \in Window(n) : e.op = f.op /\ (e.key = f.key => e = f)

Deliver ==
    \E n \in 1..MaxBatch :
        /\ IsBatch(n)
        /\ Apply(Window(n))
        /\ pos' = pos + n

\* STALE_SOURCE_VERSION rolled the batch back: the consumer discards the
\* obsolete event, which is the first, or sends a shorter batch.
Discard ==
    /\ Free
    /\ status = "active"
    /\ IsBatch(1) /\ ~Valid(Window(1))
    /\ pos' = pos + 1
    /\ UNCHANGED <<up, index, vss, data, write, read, snap>>

\* At-least-once delivery: the consumer starts again from an earlier event.
Redeliver ==
    /\ pos' \in 0..pos
    /\ UNCHANGED <<up, index, vss, data, write, read, snap>>

\* A producer that does not follow the source reuses a version.
DeliverRogue == \E e \in Rogue : Apply({e}) /\ UNCHANGED pos

\* A panic inside run_vector_transaction or run_catalog_tx: nothing is
\* committed and the transaction stays open.
PanicInTransaction ==
    /\ Free
    /\ txn' = TRUE /\ panicked' = TRUE
    /\ UNCHANGED <<up, index, vss, data, cmd, read, snap, pos>>

-----------------------------------------------------------------------------
(***************************************************************************)
(* Rebuild and compact: a statement before and after the work              *)
(***************************************************************************)
RebuildBegin ==
    /\ Free
    /\ Transition("rebuilding")
    /\ cmd' = "rebuild"
    /\ UNCHANGED <<up, rel, phys, ext, vss, data, txn, panicked, read, snap, pos>>

\* Mutant: the new version of the extension is not recorded.
RebuildCommitOldVersion ==
    /\ cmd = "rebuild"
    /\ table
    /\ Transition("active")
    /\ rel' = "active" /\ phys' = TRUE /\ ext' = ext
    /\ cmd' = "none"
    /\ UNCHANGED <<up, vss, data, txn, panicked, read, snap, pos>>

\* One transaction: drop, create, generation, version, status.
RebuildCommit ==
    /\ cmd = "rebuild"
    /\ table
    /\ Transition("active")
    /\ rel' = "active" /\ phys' = TRUE /\ ext' = vss
    /\ cmd' = "none"
    /\ UNCHANGED <<up, vss, data, txn, panicked, read, snap, pos>>

CompactBegin ==
    /\ Free
    /\ status = "active"
    /\ Transition("compacting")
    /\ cmd' = "compact"
    /\ UNCHANGED <<up, rel, phys, ext, vss, data, txn, panicked, read, snap, pos>>

CompactEnd ==
    /\ cmd = "compact"
    /\ Transition("active")
    /\ cmd' = "none"
    /\ UNCHANGED <<up, rel, phys, ext, vss, data, txn, panicked, read, snap, pos>>

\* Mutant: an error returns at once.
MaintFailsSilently ==
    /\ cmd # "none"
    /\ cmd' = "none"
    /\ UNCHANGED <<up, index, vss, data, txn, panicked, read, snap, pos>>

\* The work fails: the failure is recorded, after the rollback of a rebuild.
MaintFails ==
    /\ cmd # "none"
    /\ Transition("failed")
    /\ cmd' = "none"
    /\ UNCHANGED <<up, rel, phys, ext, vss, data, txn, panicked, read, snap, pos>>

\* A panic: nothing is recorded, and the transaction of a rebuild stays open.
MaintPanics ==
    /\ cmd # "none"
    /\ panicked' = TRUE
    /\ txn' = (cmd = "rebuild")
    /\ cmd' = "none"
    /\ UNCHANGED <<up, index, vss, data, read, snap, pos>>

-----------------------------------------------------------------------------
(***************************************************************************)
(* search_vectors_blocking: the status, then the query                     *)
(***************************************************************************)
\* Mutant: ANN without looking at the status.
SearchableAnyway(mode) == status # "none"

Searchable(mode) == status # "none" /\ (mode = "ann" => status = "active")

SearchBegin ==
    /\ up /\ search = "idle"
    /\ \E mode \in {"ann", "exact"} : Searchable(mode) /\ search' = mode
    /\ dropped' = FALSE
    /\ UNCHANGED <<up, index, vss, data, write, scanned, snap, pos>>

\* DuckDB answers an ANN query without an index by a scan.
SearchEnd ==
    /\ search # "idle"
    /\ search' = "idle"
    /\ scanned' = (scanned \/ (search = "ann" /\ ~phys /\ ~dropped))
    /\ UNCHANGED <<up, index, vss, data, write, dropped, snap, pos>>

-----------------------------------------------------------------------------
(***************************************************************************)
(* Snapshot and restart                                                    *)
(***************************************************************************)
Save ==
    /\ up /\ cmd = "none"
    /\ snap' = Image
    /\ UNCHANGED <<up, index, vss, data, write, read, pos>>

\* The process ends, in whatever it is doing.
Crash ==
    /\ up
    /\ up' = FALSE
    /\ cmd' = "none" /\ txn' = FALSE /\ panicked' = FALSE
    /\ search' = "idle" /\ dropped' = FALSE
    /\ UNCHANGED <<index, vss, data, scanned, snap, pos>>

\* restore_snapshot_vector_indexes creates an index whose relation and table
\* are active, whatever its status was; then validate_after_start marks it
\* stale or unavailable.  ix: there is such an index; tb: the table was loaded.
Restored(ix, tb) ==
    /\ status' = CASE ix /\ tb -> IF snap.ext = vss' THEN "active" ELSE "stale"
                   [] ix /\ ~tb -> "unavailable"
                   [] OTHER -> snap.status
    /\ phys' = (ix /\ tb) /\ ext' = snap.ext
    /\ rel' = IF ix /\ ~tb THEN "unavailable" ELSE snap.rel

\* restore_snapshot_v2 with the installed extension; the data file of the
\* table may be missing.  The table is created from its columns, without its
\* constraints.  The consumer resumes at a position the snapshot covers.
Start ==
    /\ ~up
    /\ up' = TRUE
    /\ vss' \in Versions
    /\ \E tb \in BOOLEAN :
         /\ tb => snap.table
         /\ Restored(snap.rel = "active", tb)
         /\ table' = tb
         /\ rows' = IF tb THEN snap.rows ELSE [k \in Key |-> NoRow]
    /\ unique' = FALSE
    /\ pos' \in 0..snap.pos
    /\ UNCHANGED <<write, read, snap>>

-----------------------------------------------------------------------------
Next ==
    \/ Create \/ Drop \/ Deliver \/ Discard \/ Redeliver \/ DeliverRogue
    \/ PanicInTransaction
    \/ RebuildBegin \/ RebuildCommit \/ CompactBegin \/ CompactEnd
    \/ MaintFails \/ MaintPanics
    \/ SearchBegin \/ SearchEnd
    \/ Save \/ Crash \/ Start

Spec == Init /\ [][Next]_vars

-----------------------------------------------------------------------------
(***************************************************************************)
(* Properties                                                              *)
(***************************************************************************)
Statuses == {"none", "pending", "building", "active", "rebuilding", "compacting",
             "stale", "failed", "unavailable"}
RelStatuses == {"none", "active", "unavailable"}
Rows == [Key -> [ver : Nat, hash : Nat] \union {NoRow}]

\* Every variable has its type.
TypeOK ==
    /\ up \in BOOLEAN
    /\ status \in Statuses /\ rel \in RelStatuses /\ phys \in BOOLEAN
    /\ ext \in Versions /\ vss \in Versions
    /\ table \in BOOLEAN /\ unique \in BOOLEAN /\ rows \in Rows
    /\ cmd \in {"none", "rebuild", "compact"} /\ txn \in BOOLEAN
    /\ search \in {"idle", "ann", "exact"}
    /\ snap \in [status : Statuses, rel : RelStatuses, ext : Versions,
                 table : BOOLEAN, rows : Rows, pos : 0..Len(Source)]
    /\ pos \in 0..Len(Source)
    /\ panicked \in BOOLEAN /\ dropped \in BOOLEAN /\ scanned \in BOOLEAN

\* build_status "active" is the truth in every state a reader can see: DuckDB
\* has the index, over a loaded table, built by the loaded extension.
ActiveIsUsable ==
    up /\ status = "active" => phys /\ table /\ rel = "active" /\ ext = vss

\* Between two commands the index of a loaded table is in a status that a
\* rebuild can leave, unless a command of this process has panicked: a restart
\* repairs what was interrupted.  (Without its table it stays as it was saved.)
Rebuildable ==
    Free /\ table /\ ~panicked => status = "none" \/ <<status, "rebuilding">> \in Allowed

\* The Vector API never replaces a row by an older one, nor by another one of
\* the same version, whatever is delivered again or late.
VersionsGrow ==
    [][up /\ up' => \A k \in Key :
         rows[k] # NoRow /\ rows'[k] # NoRow /\ rows'[k] # rows[k]
            => rows'[k].ver > rows[k].ver]_vars

\* The state the source has reached after its first n events.
LastOf(k, n) ==
    {i \in 1..n : Source[i].key = k /\ \A j \in i + 1..n : Source[j].key # k}
SourceRow(k, n) ==
    IF LastOf(k, n) = {} THEN NoRow
    ELSE RowAfter(Source[CHOOSE i \in LastOf(k, n) : TRUE])

\* What other producers send is older than the last event of its key, an upsert.
RogueOvertaken ==
    \A e \in Rogue : \E l \in LastOf(e.key, Len(Source)) :
        Source[l].op = "upsert" /\ e.ver < Source[l].ver

\* However often the outbox starts again, across restarts from a snapshot and
\* in batches cut anywhere, having delivered the whole source leaves its state
\* (upsert_vectors_blocking, delete_vectors_blocking), if RogueOvertaken: a
\* newer row of another producer would stay.
Converges ==
    up /\ table /\ pos = Len(Source) => \A k \in Key : rows[k] = SourceRow(k, pos)

\* An ANN query runs without its index only when DROP INDEX came between its
\* two statements; rebuild, compact, restart and failures never cause it.
AnnUsesIndex == ~scanned
=============================================================================
