# A TLA+ development for rsduck

rsduck serves one in-memory DuckDB database over MySQL and HTTP, keeps its own catalog of
managed objects in the schema `rsduck_catalog`, and makes the database durable only through
snapshot directories. These modules model what a reader of single functions does not see: which
thread touches the database when, what an answer to a client promises, what a snapshot contains
and what a restart finds. Source paths are relative to `src/src/` unless they start with `src/`.

Contents: 1 inventory, 2 modules, 3 runs, 4 proofs, 5 findings, 6 what is left out, 7 seen on the
way, 8 plan.

## 1. Inventory

| Component | State it keeps | Operations | Talks to | Hard behaviour |
|---|---|---|---|---|
| Command engine (`db/engine.rs`, `db/worker.rs`) | three kinds of bounded channel, `next_read`, `snapshot_write_gate`, one DuckDB connection a thread | every `DbHandle` method, the arms of the workers, `DbEngine::shutdown` | clients (Web, MySQL, periodic tasks) by channel and oneshot; all other components run inside its arms | interleaving of workers, full queues, panics under `catch_unwind`, shutdown by queue |
| Transactions and journal (`catalog/journal.rs`, `db/execute.rs`, `run_vector_transaction`) | the transaction of the write connection, `rs_journal`, catalog epoch and checksum | `run_catalog_tx`, plain `conn.execute`, `BEGIN`/`COMMIT` sent by clients | called by worker arms | partial failure, a transaction that outlives its request |
| Process lock (`process_lock.rs`) | `.rsduck.lock.guard`, `.rsduck.lock`, an advisory lock | `acquire`, `Drop` | taken by `main` and by `reset-admin-password` | two processes interleaved, kills, leftover files |
| Snapshot store and process life cycle (`main.rs`, `shutdown.rs`, `db/snapshot.rs`, `db/restore.rs`) | snapshot directories, their `.tmp` twins, the periodic task | save, latest, restore, clean-up, offline password reset, graceful exit | snapshot worker, file system, clock | kill between any two steps, names by the second, retention, clock set back |
| Snapshot contents, restore, recovery (`db/snapshot.rs`, `catalog/recovery.rs`, `catalog/checksum.rs`) | manifest, exported Parquet and catalog files | export, import, verify, reset of partition indexes and vector indexes | snapshot store, catalog | order of restoring views, macros and tables, damaged files |
| Catalog mutation (`catalog/mutation/*`, `catalog/lookup.rs`, `catalog/storage.rs`) | `rs_relation`, `rs_column`, `rs_index`, `rs_dependency`, ... and the physical objects | CREATE, ALTER, DROP, COMMENT, indexes, views | journal, guard, recovery | catalog and physical object must change together, dependencies |
| Vector indexes (`catalog/mutation/vector_index.rs`, `db/vector.rs`) | `rs_vector_index.build_status`, vector rows and their `source_version` | create, upsert, delete, search, rebuild, compact, recovery at restart | write and read workers, Web API | a status machine written in several statements, redelivered upserts |
| Managed partitions (`catalog/partition/*`) | `rs_partition`, partition tables, the entry view | CREATE, routed INSERT, retention, repair, SHOW | maintenance task, write worker | one transaction over many partitions, boundary values |
| Users, roles, grants, guard (`catalog/guard.rs`, `catalog/auth/*`, `mutation/grant.rs`, `mutation/user_role.rs`) | `rs_user`, `rs_role`, `rs_grant` | authenticate, authorize, GRANT, REVOKE, ALTER USER | every statement | grants under DROP and re-creation, membership |
| Statement routing (`sql_route.rs`, `db/execute.rs`, `db/params.rs`) | none | read or write, one statement a request | engine, guard | a statement routed to a worker that may not run it |
| MySQL server (`server/mysql/*`) | a session a connection: database, prepared statements, next id | handshake, COM_QUERY, COM_STMT_*, COM_INIT_DB | engine | protocol sequences, ids that go round |
| MySQL compatibility rewriting (`mysql_compat.rs`) | none | rewrites SQL, answers SHOW and SELECT @@ | MySQL server | none: text to text |
| Web server (`server/web.rs`) | session tokens, permits of the vector API | login, logout, query, snapshot, import, vector API | engine | permits and timeouts against late answers, clients that leave |
| SQL parsing for the catalog (`catalog/mutation/parser.rs`) | none | a statement becomes a record | catalog mutation | none: text to record |
| DuckDB file import (`duckdb_import.rs`) | a fresh in-memory database | copy objects, write one snapshot | snapshot store | partial failure |
| Configuration, logging, extensions; tray and benchmark programs | none that later steps change | | | |

What must be true, component by component:

* Engine: no export overlaps the body of a gated command; a snapshot is one committed state; Ok
  means applied; a refusal means never applied; reads see acknowledged writes; every accepted
  request is answered; a shutdown ends.
* Process lock: one process a directory; the metadata names it.
* Snapshot store: only complete snapshots are restored; a saved write survives until its snapshot
  expires; a graceful exit loses nothing acknowledged before the signal.
* Snapshot contents: restore rebuilds what was exported, or fails.
* Catalog: catalog rows and physical objects agree after every command, also after one that fails;
  no object outlives what it depends on.
* Vector indexes: the status says whether the index may be used; an old version of a memory never
  replaces a newer one.
* Partitions: a row stays until its partition expires; the view reads the active partitions and no
  other; DDL reaches partitions there are and partitions made later; a snapshot can be restored.
* Grants: a query runs on rights its user had since it asked, and is refused for want of them; what
  is created under a used name inherits nothing.
* Web: permits are neither lost nor doubled and come back; an answer says what became of the command.
* MySQL: an answer is that of the command the client waits for; an execution runs the statement, the
  database and the types of its handle.

## 2. Modules

**Engine.tla** models `db/engine.rs` and `db/worker.rs`. A command is a record with its client, a
number and a *kind*; the kinds stand for the arms of the workers (`dml`, `ddl`, `begin`, `commit`,
`rollback` for `RunTyped` on the write route; `batch` for Parquet import, creation of a vector
index, vector upsert and delete; `maint` for rebuild and compact; `auth`; `describe`; `query` for
the read route; `save`). `queue[w]` is the channel of worker `w` (0 the write worker, then the
readers, then the snapshot worker), `pc[w]` where its thread stands, `gate` the holder of
`snapshot_write_gate`. The database is the log of the changes it holds: `db` the committed image,
`view` the image of the write connection, `txn` its transaction. `Submit` is `try_send` by a caller
(round robin for reads, `queue_full` or `worker_stopped` at once), `Receive`, `LockGate`, `WriteRun`,
`MaintBegin`/`MaintEnd`, `ReadRun`, `ExportCatalog`, `ExportData`, `Publish` and the replies are the
steps of the threads, `ShutdownSend` and `ShutdownJoin` those of `DbEngine::shutdown`. `StopWorker`
drops the receiver and with it the commands that were still queued.

**SerialStore.tla** is what the engine promises: one store, whole writes one at a time, snapshots of
one instant, honest answers. **EngineRefinement.tla** is the refinement mapping: the abstract log is
`db.log`, without the first half of a maintenance command in progress; the commands pending are those
queued or in a worker's hand. It holds without transaction statements and panics, which break the
promise (section 5). **MCEngine.tla** and **MCEngineRefines.tla** have the constants.

**ProcessLock.tla** models `process_lock.rs`. The advisory lock belongs to a *file*, not to a path:
`guard` is the file the path names, `fd[p]` the file process `p` has open, `lock[f]` the owner. The
steps of `acquire` and of `Drop` are separate actions, and `Crash` may come between any two: the
operating system then releases the lock and leaves both files. `raced` records that a lock was taken
in the window of a `Drop`.

**SnapshotStore.tla** models the snapshot directory across processes. `snaps` are the directories
with a final name (the second, whether the manifest is readable, whether the data is whole), `tmp`
the temporary ones; `up` is the phase of the one process; `asked` the snapshot queue, `saver` the
save in progress, `per` the periodic task with its clean-up. A save is `SaveBegin` (name free),
`SaveExported`, `SavePublish` (rename), or one of `SaveRefused` and `SaveFails`. Clean-up removes
the files of a directory one by one. `Crash` may come between any two steps.

It stands on the other two: one process at a time (`ProcessLock`, unless raced), and a save that
copies one state of the database (`Engine`, `SnapshotConsistent`), which is why a save takes `mem` at
its publication while no write is possible.

A start reads the directory with errors swallowed, as `find_latest_snapshot_dir` does
(`db/snapshot.rs:990-998`): with `IOErrors`, any of the snapshots may be `unread`, and it takes an older one,
or none and a fresh database. `missed` is the history of those it overlooked so. A snapshot that is not whole
loads without the tables whose file is gone (`Restored`). `Abort` sends Shutdown by `try_send`: with a full snapshot
queue the process becomes "stuck" and nothing but a kill ends it.

**VectorIndex.tla** models one vector space: `catalog/mutation/vector_index.rs`, `db/vector.rs`, and
what `db/snapshot.rs` and `catalog/recovery.rs` make of its index and rows at a restart. `status` and
`rel` are the two status columns of the catalog, `phys` is the HNSW index in DuckDB, `ext` the VSS
version recorded and `vss` the one loaded; `rows` holds version and hash of each key. `Allowed` is the
transition relation, `Transition` the statement that uses it. `Create` and `Drop` are one transaction
each; rebuild and compact commit their status first (`RebuildBegin`, `CompactBegin`), work, and then
commit the result, a failure (`MaintFails`) or, after a panic, nothing (`MaintPanics`). A panic inside
a transaction leaves it open (`txn`), and the write worker then commits nothing more: what that does
to other statements is Engine's subject. `Apply` is one batch of `upsert_vectors_blocking` or
`delete_vectors_blocking`; a batch that is refused changes nothing. The consumer of the outbox, which
`doc/agent-vector-memory.en.md` describes and which is not in the repository, sends `Source` in order,
in batches of any length, may start again from any earlier event, and after a restart does so from
one the snapshot covers. `Rogue` events come from elsewhere and reuse a version. `Save` and `Start` are the
snapshot and the restore of this state. Searches run on a read worker between any two of these steps.
**MCVectorIndex.tla** has the events.

**Partition.tla** models one range-partitioned table: `catalog/partition/*`, the parts of
`catalog/mutation/{table,index,alter_table,drop}.rs` for tables of kind `p`, and what
`db/snapshot.rs` and `catalog/recovery.rs` make of it. `part[v]` is the row of `rs_partition` for
value `v` together with the row of its child in `rs_relation` (`rel`) and its columns in `rs_column`,
in their order, since the UNION ALL of the view and `recovery.rs:642-675` go by position;
`parent`, `pcols`, `pidx` are the rows of the table itself; `tbl` and `view` are what DuckDB has.
The write worker runs one command at a time in one transaction, so that each command is one action
and one that fails is a stuttering step: `CreateTable`, `DropTable`, `Insert` (rows for any set of
values, with the partitions it makes, those that expire, and the new view), `Maintain`, `Mark` and
the two outcomes of `rsduck_repair_partition` (`RepairDropped` makes the table anew,
`RepairFailed` takes back the one that is there), `CreateIndex`, `DropIndex`, `Alter` (ADD, DROP and
RENAME COLUMN). `Save` takes `Image`; `Start` is the restore, from `RestoredTable` to the checks of
`validate_partitioned_relation`; `StartFails` a restore with a statement that fails. What DuckDB
itself does is in `UnionBinds`, `UnionColumns` and in the guard of `CreateIndex` (equal keys).
`mended` records the partitions brought back with other columns, the same in another order included, or other
indexes than the table's. **MCPartition.tla** has the columns.

**WebServer.tla** models `server/web.rs`: `session` (with the histories `issued` and `out`), the
semaphore of the vector API (`free`), and one record in `req` for each request: where its handler is,
its command in the engine, who holds its permit, its answer. A handler is credentials (one action a
route: `Login`, `Sql`, `Search`, `Deliver`, ...), `Acquire`, and `Submit` (`try_send`), because other
threads run in between. `Answer` and `Timeout` are the two branches of the `select!` in
`run_vector_request`; the timeout moves the permit to a task that ends with the command
(`TaskEnds`). `Leave` is a client that goes away: hyper drops the future. The engine is its write
queue (`RunWrite`), its readers and its snapshot worker (`RunRead`) and `Stop`; how it works inside is Engine's
subject. Of the queues of readers and snapshot worker only the sum is kept, and the order in them is free:
`MayBeFull` lets any one be full before the rest, `HasRoom` refuses nothing as long as one may have room. The
outbox consumer (`Deliver`, `Acked`) is external and described in `doc/agent-vector-memory.en.md`: it
sends event `next` again and again until a success or an obsolete version is acknowledged, and `row`
is what the version rules of `db/vector.rs` make of it. **MCWebServer.tla** has the events.

**Catalog.tla** models `catalog/mutation/*`, `catalog/lookup.rs`, `catalog/journal.rs` and, for
tables, views and ordinary indexes, `db/snapshot.rs` and `catalog/recovery.rs`. `db` is the write
connection's database: the rows of `rs_relation`, `rs_column`, `rs_index` (`rel`, by oid), of
`rs_dependency` (`dep`) and `rs_comment`, the next oid, and what DuckDB has (`phys`, `pindex`). Each
DDL command is one transaction of `run_catalog_tx` and one action; one that fails is rolled back and
is no step. `SaveSnapshot` takes the image, `Restart` rebuilds it: tables whose file is not in
`missing`, then the views in the order of their oids, then the indexes; a statement DuckDB cannot bind
fails the start. `left` and `suspect` are histories: views that CASCADE left in DuckDB, and views that
were changed under what depends on them (section 5). `Agrees` says that rows and DuckDB match, `Shaped`
what a row of each kind looks like, `Protected` what keeps a view readable. DuckDB may refuse to drop a column of an indexed table;
the model lets it, which adds behaviours and takes none away. **MCCatalog.tla** has what
`init_sql` makes (`Created`), in itself a legal run of the commands.

**Grants.tla** models `catalog/auth/*`, `catalog/mutation/{grant,user_role,drop}.rs` and the guard
of a query. `user`, `role`, `rel` are the ids under a name, `member` and `priv` the rows of
`rs_user_role` and `rs_privilege`. A command is authorized and carried out on the one write connection and is one
step. A query is authorized on a read connection by one statement after another, each of which sees
what is committed by then: `ReadUser`, `ReadRoles`, `Resolve`, `DecideRelation`, `DecideSchema` and
`Run`, with any commands in between. `had` is what its user had at some time since the query was asked,
`kept` the ways to read the table that lasted all that time. **MCGrants.tla** says what may be granted to whom.

**MySqlSession.tla** models one connection of `server/mysql/*`. `phase`, `session` and `job` are the
server's: the greeting or the loop, `MySqlSession`, and what it awaits from the engine. A `Read...`
action takes one packet of `sent` and answers it, asks the engine, or ends the connection, as the arm of
the loop does; `EngineAnswers` is what follows the `await`. The client is external: it waits for the
answer of a command that has one by the protocol, sends packets that have none (COM_STMT_CLOSE, an empty one,
COM_STMT_SEND_LONG_DATA, which the server does answer) before the next, may use any
statement it holds, and may leave at any time. `handles` are the statements it prepared, with the types
its last execution sent; `chosen` is the database it chose last at login or by COM_INIT_DB; `longData` records
that it has sent COM_STMT_SEND_LONG_DATA. A type is a code and, for an integer, a sign; the server keeps the code
(`Coded`) and reads every integer as signed (`Decoded`), and `Meant` is what the client meant. A USE sent as a query is
one of `Sql`: it goes to the engine, and the session keeps its database. **MCMySqlSession.tla** has the types.

**EngineProofs**, **LifeCycleProofs** (ProcessLock and SnapshotStore), **VectorIndexProofs**,
**PartitionProofs**, **WebServerProofs**, **CatalogProofs**, **GrantsProofs**, **MySqlSessionProofs**:
theorems, section 4.

How the modules stand on one another. Engine gives the others their atomicity: a command of Catalog,
Partition, Grants or VectorIndex is one step, because the write worker runs one at a time in a
transaction and a snapshot copies one committed state (`SnapshotConsistent`). WebServer and MySqlSession take from it
that a command accepted is run in order or dropped with its answer channel (`RequestsAnswered`).

Definitions called mutants in the modules are altered forms of an operator, used to check that a
property fails when the code has that mistake. No specification uses them.

## 3. Runs

| Run | Module | Bounds | Question |
|---|---|---|---|
| `engine_safety` | MCEngine | 3 clients, 2 readers, every queue 1, 3 requests of any kind, panics | What do gate, queues and transactions promise of writes, reads and snapshots? |
| `engine_live` | MCEngineRefines | 2 clients, 1 reader, write queue 2, 3 requests (`maint`, `save`), a shutdown | Is every request answered, does a shutdown end, is the engine a serial store? |
| `engine_begin` | MCEngine | 2 requests | Finding: BEGIN leaks into the next request. |
| `lock_acquire` | MCProcessLock | 3 processes, 4 files | Who may hold the lock together, whom does the metadata name? |
| `store_crash` | SnapshotStore | clock 0..2, 2 writes, queue 1, retention 1, I/O errors | What does a restart find after any kill and unreadable entries; does the signal end the process, or leave a stuck join? |
| `vector_index` | MCVectorIndex | 2 keys, 5 source events, 1 rogue event, batches of 2, 2 VSS versions | Does "active" mean usable, does a rebuild stay possible, do redelivered batches converge? |
| `partition` | MCPartition | 2 values, 1 retained, 2 rows a value, 3 columns in any order, 1 index, 1 command between snapshots | Do rows stay, do view, columns and indexes follow, can every snapshot be restored? |
| `web` | MCWebServer | 3 requests, 1 token, limit 1, capacity 2, 2 queues beside the write queue's, 2 events (upsert, delete) | Do permits come back, is an answer true, does a consumer that retries lose or undo nothing? |
| `catalog` | MCCatalog | 3 names, 2 columns, 9 oids, 2 oids between snapshots, 1 comment | Do rows, DuckDB and restarts agree after every order of DDL? |
| `catalog_restore` | MCCatalog | the same | Finding: a snapshot no start restores. |
| `grants` | MCGrants | admin and 1 user, 1 role besides admin and reader, 1 table, 1 query, 6 ids, 2 commands during a query | On which rights does a query run while they change, and what does a new name inherit? |
| `mysql` | MCMySqlSession | 2 statements (one with a parameter), 2 types (a signed and an unsigned integer) of 2 values, 2 databases, 2 ids, 3 prepares, 2 unanswered packets on their way | Whose answer does a client read, and what does an execution run? |

Type invariants, `GateExclusive`, `ExportFrozen`, `GuardedExclusion`, `AnsweredRan`, `LogoutFinal`,
`IndexKeysLive` and `NoOrphans` are defined in the modules and proved for all constants (section 4), so
that no run repeats them.

Why the bounds are enough. *Engine*: a violation of a gate property needs one writer and one export;
of the queue properties one command running, one queued and one refused, hence three clients and
queues of one; a third request lets something run after the pair. Two readers make consecutive
queries go to different threads. *ProcessLock*: one process that leaves, one that slips in and one
newcomer; a file more than processes, so that a path can always be created anew. *SnapshotStore*:
three seconds are one snapshot that expires, one that does not and the present; two writes tell
"older" from "newer" state; the number of restarts is not bounded. *VectorIndex*: the five events
give one key an upsert, a delete and an upsert, the other two upserts, so that every pair of operations
on a key meets in every order of redelivery; a batch of two can fail on either event; restarts,
rebuilds, panics and redeliveries are not bounded. *Partition*: with two values and one retained the
newer expires the older and a late row of the older is expired by its own insert; two rows of a value
may have equal keys. The key and two more columns can be dropped and added again in the other order while a
partition is in quarantine. `MaxUnsaved` bounds the commands since the last snapshot by one: a save changes
nothing but the snapshot, and a restart depends on nothing but the snapshot, so that every state of
the running table and every snapshot are still reached. *WebServer*: one request holds the permit,
one is refused or comes after a timeout, one occupies the second place of the queue; requests are used again when they
are over, so that their number in time is not bounded; an upsert and the delete after it are the pair
that a late copy could undo. *Catalog*: three names are a table, a view and a view over it, or an index;
nine oids are the two of `Created` and several commands, two of them between snapshots; each command
also takes an oid for its journal entry. *Grants*: the one table can be dropped and made again, the one role lost and
given, both within one query; six ids are admin, the builtin roles and three creations. *MySqlSession*:
`MaxStatementId = 2` stands for 2^32 - 1: with three prepares the ids go round while a statement may still be open.
`Half = 1` gives an integer one bit that is its sign. COM_STMT_SEND_LONG_DATA may come with one statement prepared
and is followed by simple commands only, for what it makes of later ones is excepted; an empty packet, which leaves
nothing behind, comes before the first statement. The login chooses the database `First`, later commands either.

Deadlock is not checked where the system may really stop or a bound stops the model: Engine after its
shutdown or its bound of requests, SnapshotStore and Catalog at their bounds, Catalog after a failed start,
Grants when nobody may run a command (the admin role can be revoked from admin), MySqlSession after the
connection has closed. `lock_acquire`, `vector_index`, `partition` and `web` check it.

Fairness. `Engine` has weak fairness of each worker thread and of the thread in `shutdown`: the
operating system runs them, and each blocks only in `recv`, on the gate or in `join`. Clients and
the signal owe nothing. A std `Mutex` is not fair, but with a bounded number of requests a waiting
thread is continuously enabled after the last one. `SnapshotStore` has weak fairness of the snapshot
worker's steps, of a clean-up, and of `main` after the signal (a stuck join is no step of it), assuming that Web connections end
(`axum` waits for them without a limit). Clock, callers, I/O errors and kills owe nothing.
`WebServer` has weak fairness of the handlers and tasks that can go on, which the runtime polls, and of
the workers, which take what is queued; clients, `Stop` and the clock of a timeout owe nothing.
`MySqlSession` has weak fairness of the task of the connection, of the engine's answer
(`RequestsAnswered`) and of the client's reading of the answer it waits for; the client need not send anything, nor leave.

## 4. Proofs

All proofs are checked by TLAPS for every value of the constants, under the assumptions named in the
modules: `EngineAssumption`, `ProcessLockAssumption`, `SnapshotStoreAssumption` (bounds are naturals,
model values differ, enough file identities); `VectorIndexAssumption` (versions increase along the
events of a key, "no row" is no row); `PartitionAssumption` (at least one partition is retained, tables
have finitely many columns); `WebAssumption` (what `validate_vector_api_limits` checks, finitely many
requests and tokens); `MaxOidAssumption`, `NameAssumption` and `FirstAssumption` of Catalog (finitely
many names; what `init_sql` leaves is a sound catalog that agrees with DuckDB); `NamesAssumption`,
`GrantAssumption` and `BoundAssumption` of Grants (admin and the builtin roles exist);
`SqlAssumption`, `NamesAssumption`, `TypeAssumption` and `NumberAssumption` of MySqlSession (every type has a code). TLC evaluates them in the runs.
Two theorems have a hypothesis of their own, which says when the property is true at all:
`NoOpenTransactions` for the refinement of Engine and `RogueOvertaken` for `Converges`.

**EngineProofs** goes in four steps. (1) `IInv`: `GateExclusive` alone is not inductive; it needs that
whoever runs a gated body or an export is the recorded holder of the gate, that a queued or current
command is of a kind its worker serves, that only the write worker leaves the autocommit state, and that
the image an export reads is still the committed one. The key lemma is `FrozenStep`: a step that changes
`db.log` is one of the write worker under the gate, so no export is running. `TypeCorrect`,
`GateIsExclusive`, `SnapshotsAreConsistent` and the action property `ExportsAreFrozen` follow. (2)
`TracesInv` follows a command: `PlacesInv` says that it is in one place only (one queue, one worker, or
answered), and that a change is nowhere but with the write worker; `LogsInv` that one that is untouched is in no log and that no log has
one twice, but for the two halves of a maintenance command. `CommandsAppliedOnce` and
`MaintenanceIsWhole` follow. (3) `SeenInv`: what was answered Ok is in the committed image, unless a command
ended with a transaction open; so is what a client has seen. `AckedIsApplied` and
`ReadsSeeAcknowledged` follow. (4) `EngineImplementsSerialStore`: under `NoOpenTransactions` the initial
states map to initial states and every step of every thread to a step of SerialStore or to a stutter;
one lemma for each kind of step, which cites the invariants of (1) to (3).

**LifeCycleProofs** has the two modules that are about processes. *Lock*: `LockInv` adds to the types
that a process past `TryLock` owns the lock of the file it has open and, unless raced, that this
file is the one at the path. `ExclusionUnlessRaced`, `OneGuardedHolder` and `HolderIsNamed` follow. *Store*:
`Inv` says that every directory holds what was published (`SnapsPublished`), that what has not
expired is still whole (`FreshThere`), that names and contents grow (`LastIsLatest`, `Cumulative`), and that the
snapshot a start picks, the memory of a process and the snapshots after a signal cover what came before
(`PickCovers`, `MemCovers`, `BeforeKept`). The clean-up needs `TasksLive`: it removes what had expired
when it began, and expired stays expired. What a start overlooked is in `missed`, and was older than what it had
not overlooked (`MissedEarlier`); among the snapshots it could read it takes the greatest, of which there is one
(`OnePicked`) by the well-foundedness of `>` below the clock (`GreatestExists`). `StartsPublished`, `SavedIsKept` and
`ShutdownIsCovered` follow for any number of crashes, restarts and snapshots; the last two say what they do of snapshots
no start has overlooked.

**VectorIndexProofs**: `IndexInv` says how the two status columns agree, live and in the snapshot
(`Agree`), which status a running command has (`InCommand`), that an index is usable also while
compacting (`Usable`, since a compaction ends in "active" whatever happened in between), and which
statuses remain between commands (`Settled`). The step that needs all of it is `StartStep`: the restart
computes the status from the saved one. `ActiveCorrect`, `RebuildCorrect`, `AnnCorrect` and
`VersionsCorrect` (an action property, from the guard of `Apply`) follow, for every sequence of events.
`OutboxConverges` needs `OutboxInv`: the row of a key is always what some event at or after the position of the
outbox left (`Sourced`: a replay goes back and the rows stay), or older than the last event of the key, which
is still to come (`Awaited`); the same of the snapshot. At the end of the source only one row is left.

**PartitionProofs**: `PartitionInv` says which pairs of statuses a partition and its child can have
(`Statuses`), that the rows in its table and the expired ones add up to `row_count` (`Rows`), what
view, columns and index follow (`ViewOf`, `ViewCols`, `Same`, `Keys`), and the same of the snapshot
(`SnapInv`), because a start takes everything from there. The columns of the view are those of the first
branch of its UNION, the smallest value: `Smallest` finds it by the well-foundedness of `<`. Columns are sequences,
so that all of this is about their order, and a partition that is not `mended` has them in the order of the table.
`RowsCorrect`, `ViewCorrect`, `UniformCorrect` and `RestoreCorrect` follow for any number of values, rows,
columns and commands between two snapshots. `RetentionCorrect`, the action property, rests on lemmas about the
cardinality of what `Oldest` leaves: an insert drops only values below all that stay, and exactly
`Retention` stay.

**WebServerProofs**: `IInv` says which combinations of handler, command and permit a request can have
(`Shapes`), that the queue holds exactly the queued writes, each once (`QueueOK`), that permits add up, and
of the outbox that every write still in flight is about event `next`, that one handler at most has one,
and that no older copy is behind the one this handler waits for (`OutboxOK`). `PermitsHold`, `WorkIsBounded`, `AnswersTrue`,
`OutboxHolds` and `LogoutHolds` follow for any limit, capacity, number of requests and events.

**CatalogProofs** has three layers, each of the running database and of the snapshot, because a
start takes everything from there. `Sound`: every dependency, comment and index names a row there is,
a comment is on the column it was said of, the column of an index is alive, an index has one dependency row,
on its table (a DROP of the table finds it by that row), and oids in use are below the next one.
`CatalogNeverDangles`, `CommentsStay` and `KeysStayLive` follow. `Phys`: the object DuckDB has under a
name is the one its row describes. The lemmas under it are about column lists: `LiveColumns` takes the columns
that are alive in the order of their attnum, and `Place`, the number of live columns up to one, shows what
adding, renaming and dropping a column do to that list. `CatalogAgrees` follows. `Protected`: a view
reads a relation that is active, has its column, is named in a dependency row (which keeps it from a DROP
without CASCADE), and, if it is itself a view, is older. `ViewsStayProtected` follows, and with it
`SnapshotsRestore`: creating the views in the order of their oids never meets one that cannot be bound.
That `Protected` needs no argument over the depth of views is due to that last clause. Each
layer has one lemma per command; `WholeInv` joins them.

**GrantsProofs**: `IInv` adds to the types that two names never share an id, that members and privileges
name ids that exist (`AccountsInv`), and what each phase of a query knows: the user id and the roles it
has read are in `had`. `QueriesReadWhatIsGranted`, `NoRightsOfTheGone` and the action property
`NewInheritsNothing` (ids are never given twice) follow. `RefusalsAreRight` is the other direction and has an
invariant of its own, `WaysInv`: a way to read the table that has lasted since the query was asked goes
through the user, the roles and the relation the query has read so far, so that the statement that
refuses has seen it missing.

**MySqlSessionProofs**: `IInv` says where the command the client waits for is: nowhere (`Resting`), on its
way (`Coming`), with the engine (`Asked`), answered (`Answered`), or lost with the connection
(`Lost`), with nothing but packets that have no answer (`Unanswered`) before it; it speaks of the time before the client
sends COM_STMT_SEND_LONG_DATA. `StaysInSync` and `SameDatabase` follow for any
number of statements, ids and unanswered packets. `RunsItsOwn` needs the invariant `Book`: every open handle of the client has
an entry of the server with its statement, its database and the code of its type, unless its close is on the way; ids
follow `next` backwards (`IdsFollow`), so that two open handles share one only after the ids have gone round. That what is
decoded is what was meant is then a matter of `Decoded` and `Meant`, which differ on unsigned integers from `Half` on.

Only model-checked are the liveness properties (`RequestsAnswered`, `ShutdownCompletes`, `ShutdownEnds`,
`PermitsReturn`, `AnsweredOrClosed`): a proof from weak fairness needs ENABLED, which is out of this
prover's reach. Everything else a passing run checks is also a theorem. The two properties of section 5 are
false of the code and have counterexamples.

## 5. Findings

* `engine_begin`: an administrator's BEGIN through Web SQL stays open on the shared write connection
  (`db/execute.rs:61`), against `src/README.md:308` and `:100`. Later writes of other clients are
  answered Ok and are not durable. A panic between BEGIN and COMMIT of `run_catalog_tx` has the same
  effect (`catch_unwind`, no ROLLBACK); `engine_safety` runs with panics, and `AckedApplied` holds
  only as long as no command has ended with a transaction open (`tainted`).
* `catalog_restore`: a snapshot the program saved and no start restores, against `src/README.md:225`. A start
  creates the views in the order of their oids (`db/snapshot.rs:703`) and ends on the first that DuckDB
  cannot bind. Three ways lead there: CREATE OR REPLACE VIEW keeps the oid of a view and lets
  it read a newer one (`catalog/mutation/view.rs:97`); DROP COLUMN asks for indexes and constraints but
  not for the views over the column (`alter_table.rs:604`); and DROP ... CASCADE over a chain of views
  deletes the row of the nearest view together with the dependencies of the view over it
  (`catalog/lookup.rs:446`), which stays, active and unusable. `suspect` marks the views these commands
  touch, and those made afterwards over what a CASCADE left in DuckDB; `RestoresUnlessSuspect` shows that
  no other of the commands modelled makes a snapshot no start restores.

## 6. What is left out

Values of SQL: a statement is its kind, a row or a table is a member of a small set. Formatting,
packets, logging and configuration. In the engine: the oneshot of a caller that went away (its
result is dropped, nothing else changes), and reads that a DuckDB snapshot isolation would let see an
older image (one statement reads the committed image at one instant). In the store: the data inside a
snapshot, names of other prefixes, `restore_on_startup = false` (a fresh start on purpose), a clock that is set back, and
Windows semantics of deleting open files in ProcessLock. In the vector index:
plain SQL on the vector table, authorization, dropping the table, an error of the checksum statement
that follows a status update, and a second vector space. In partitions: how a key becomes a partition
value, the types of columns and SET DATA TYPE, renaming the key, constraints and defaults, views over the table, a second table, and an index
that is not UNIQUE (it differs only in that `CreateIndex` and `Start` never fail on equal keys). In
the Web server: the permissions and scopes of a bearer token, the pages of a query, and which text of an error
becomes which answer (`server/web.rs:807`). In the catalog: schemas, macros, sequences, RENAME TABLE, constraints, defaults and types, and
the checksum. In grants: passwords and ALTER USER, which tokens of a statement name its tables,
reserved schemas, actions other than read of a query. In the MySQL server: packet formats, result
rows, DESCRIBE's dummy values, the rewriting of SQL, NULL parameters, and what a client that has sent
COM_STMT_SEND_LONG_DATA takes the shifted answers for. Not modelled at all: routing, parsing and
rewriting of statements, which are functions of their text that tests compare; DuckDB file import, an
offline command with nothing beside it; configuration, tray and benchmark programs.

## 7. Seen on the way

What no run is about, because another property or a restricted one covers the hazard:

* `DbEngine::shutdown` ignores a full queue (`db/engine.rs:433`) and joins a worker that was never told,
  against `doc/architecture-overview.en.md:372`. `ShutdownCompletes` is about the shutdowns whose
  commands all found room; in SnapshotStore the state is "stuck", reached when a save is queued behind one that is
  exporting, and `ShutdownEnds` names it as the other end of the signal.
* `find_latest_snapshot_dir` swallows I/O errors (`db/snapshot.rs:990-998`): a directory that cannot be listed
  counts as empty, so that the start goes on with a fresh database, and a manifest that cannot be read makes it take
  an older snapshot, against `src/README.md:224` and `doc/architecture-overview.en.md:57`. The saved writes are still
  on disk, and the clean-up may later remove them. `SavedSurvives` and `ShutdownCovers` except the
  snapshots a start overlooked (`missed`).
* A missing data file starts the service without the rows of that table (`db/snapshot.rs:502`). The clean-up runs after
  a failed save too (`main.rs:180`): when saves fail for `retain_hours`, it removes the last good snapshot.
  `SavedSurvives` speaks of snapshots that have not expired.
* The lock is released first and the guard path removed afterwards (`process_lock.rs:98-102`), so that
  two processes may both hold it, against `doc/architecture-overview.en.md:56`. `UnracedExclusion`
  excepts a lock taken in that window.
* A snapshot's name is a second: the save before exit is refused when the name is taken, or the
  queue full, and `main` only logs it (`db/snapshot.rs:91`), against `src/README.md:152`.
* A delete keeps nothing of its version (`db/vector.rs:168`): an older upsert delivered again is applied
  and the record is back until its delete is delivered again, against `src/README.md:825`.
  `Converges` shows that a consumer that replays in order ends right.
* The missing data file of a partition makes the partition unavailable, and the next statements over
  its table, an index (`db/snapshot.rs:911`) or the view (`db/snapshot.rs:707`), fail the whole start,
  against `src/README.md:697`. `Restorable` is about snapshots whose files are all there.
* Snapshots are ordered by local time: after the end of daylight saving time an older one may be
  restored (`db/snapshot.rs:1002`).
* The rows of a partition that is marked unavailable are in no snapshot (`db/snapshot.rs:206`): after
  a restart it cannot be repaired, nor the table dropped.
* A partition repaired after DDL is taken back as it was (`catalog/partition/repair.rs:119-145`), with other columns or
  without the index. Quarantine a partition with columns a, b, then DROP a and ADD a, so that the table has
  b, a, and repair: the names agree, the UNION ALL of the view mixes a and b by position, and, when the partition
  is the first of the view, the next start finds other columns than the table's and marks the table unavailable
  (`catalog/recovery.rs:642-675`). The properties of Partition except such a partition by `mended`.
* `doc/agent-vector-memory.en.md:86` says an interrupted operation discovered at startup enters
  `unavailable`; the restore rebuilds the index first (`db/snapshot.rs:843`) and it enters `active`. An
  index whose table lost its data file is never repaired: `Rebuildable` is about loaded tables.
  Restored tables have no UNIQUE constraint (`db/snapshot.rs:515`), so `Create` is refused after a restart.
* `src/README.md:389` calls CREATE OR REPLACE VIEW unsupported; `catalog/mutation/view.rs:57` supports it.
* A client that leaves frees its permit while its command is still queued (`server/web.rs:760-770`), so that
  the engine may hold more vector commands than `max_concurrent_requests`; `WorkBounded` excepts them.
* A table dropped and made again between the authorization of a query and its run is read with the
  right to the old one, since the run finds it by name (`db/execute.rs:50`). `ReadsGranted` is about the
  relation that was authorized.
* REVOKE of the admin role from admin is not refused, and leaves nobody who may manage accounts.
* COM_STMT_PREPARE of SQL that cannot be described ends the connection (`server/mysql/command.rs:127`)
  where COM_QUERY would answer an error. COM_STMT_RESET forgets the parameter types, so that a client that
  then leaves them out loses its connection. Statement ids go round at 2^32 and may replace an open
  statement (`server/mysql/session.rs:44`); `RunsWhatWasAsked` excepts it by `WentRound`.
* COM_STMT_SEND_LONG_DATA is answered with an error (`server/mysql/command.rs:57-64`), though the protocol has no answer
  to it: a connector takes that for the answer of its next command, and every later answer is one too late. `InSync`
  and `RunsWhatWasAsked` except what follows (`longData`).
* A parameter of an unsigned type is decoded as a signed integer (`server/mysql/stmt.rs:129` drops the flag, `:152-160`
  decode): an unsigned TINY of 200 becomes -56. `RunsWhatWasAsked` excepts unsigned integers from `Half` on.
* USE sent as a query, or prepared, goes to the engine and leaves the database of the session as it was: SELECT DATABASE()
  and the statements rewritten for it go on with the old name, while the engine runs it on the one write connection of
  all clients (`catalog/guard.rs:250` allows USE, SET and PRAGMA to anyone). The properties speak of the database
  chosen at login or by COM_INIT_DB.

## 8. Plan

1. Engine, ProcessLock, SnapshotStore, VectorIndex, Partition, WebServer, Catalog, Grants and
   MySqlSession: done; every safety property of every passing run is a theorem.
2. Proofs left: what the engine still promises with transaction statements and panics, as a weaker
   abstract store; that what a restart loads (`SnapshotStore`) is a state of Catalog and Partition.
   Liveness stays with TLC.
3. Models left: schemas, macros, sequences and RENAME TABLE in Catalog; the other actions of a statement
   in Grants; DuckDB file import on top of Catalog.
