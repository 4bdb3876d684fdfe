------------------------------- MODULE Engine -------------------------------
(***************************************************************************)
(* The command engine of rsduck: src/db/engine.rs (DbHandle, DbEngine) and *)
(* src/db/worker.rs.  Clients (Web handlers, MySQL sessions, the periodic  *)
(* tasks of main.rs) send commands with try_send into bounded queues: one  *)
(* write worker, NumReaders read workers picked round robin and one        *)
(* snapshot worker, each a thread with a DuckDB connection of its own.     *)
(* The write worker and the snapshot worker share snapshot_write_gate.     *)
(*                                                                         *)
(* The database is abstracted to the sequence of the changes it holds: db  *)
(* is the committed image every connection reads, view the image the write *)
(* connection reads, which differs while a transaction is open on it.      *)
(***************************************************************************)
EXTENDS Naturals, Sequences, FiniteSets

CONSTANTS
    Client,           \* callers of DbHandle, each with one request at a time
    NumReaders,       \* cfg.read_workers.max(1)
    WriteQueueSize,   \* cfg.write_queue_size
    ReadQueueSize,    \* cfg.read_queue_size
    SnapshotQueueSize,\* cfg.snapshot_queue_size
    Kinds,            \* the kinds of request the clients issue
    Panics,           \* may a command body panic?
    Stops,            \* may the process be told to stop?
    MaxReq            \* bound: requests issued in a behaviour

\* RunTyped requests of the write route: a plain statement, a statement that
\* run_catalog_tx wraps in a transaction, and the transaction statements an
\* administrator may send (guard.rs: `_ if principal.is_admin() => Ok(())`).
TypedWrites == {"dml", "ddl", "begin", "commit", "rollback"}
\* ImportParquet, CreateVectorIndex, VectorUpsert, VectorDelete ("batch") and
\* RebuildVectorIndex, CompactVectorIndex ("maint").
VectorWrites == {"batch", "maint"}
\* "auth" is Authenticate, "describe" a Describe of a write statement; "query"
\* stands for every command of the read route, "save" for SnapshotCommand::Save.
AllKinds == TypedWrites \union VectorWrites \union
            {"auth", "describe", "query", "save"}

ASSUME EngineAssumption ==
    /\ NumReaders \in Nat \ {0}
    /\ WriteQueueSize \in Nat /\ ReadQueueSize \in Nat
    /\ SnapshotQueueSize \in Nat
    /\ Kinds \subseteq AllKinds
    /\ Panics \in BOOLEAN /\ Stops \in BOOLEAN
    /\ MaxReq \in Nat

\* Workers in the order DbHandle::open pushes their join handles.
Write == 0
Readers == 1..NumReaders
Snapshot == NumReaders + 1
Workers == 0..NumReaders + 1
NoWorker == NumReaders + 2

-----------------------------------------------------------------------------
VARIABLES
    queue,     \* queue[w]: commands in the channel of worker w
    nextRead,  \* DbEngine.next_read, modulo the number of read workers
    pc,        \* pc[w]: where the thread of worker w is
    cur,       \* cur[w]: the command it is handling
    out,       \* out[w]: the result it is about to send
    gate,      \* holder of snapshot_write_gate
    db,        \* committed image: [log, logins]
    view,      \* image seen by the write connection
    txn,       \* transaction state of the write connection
    exp,       \* images read by the export in progress: [cat, data]
    saved,     \* published snapshots
    reqs,      \* number of requests issued
    st,        \* st[c]: "idle" or "waiting" for the oneshot
    main,      \* the thread that runs DbEngine::shutdown
    mk,        \* the worker it sends to or joins next
    dropped,   \* workers whose Shutdown command found the queue full
    \* history
    acked,     \* changes acknowledged with Ok
    refused,   \* changes answered queue_full or worker_stopped
    seen,      \* seen[c]: acked when c issued its last request
    got,       \* got[c]: the log its last query or save read, if any
    tainted    \* has a command ended with a transaction still open?

dbVars == <<db, view, txn>>
clientVars == <<reqs, st, acked, refused, seen, got>>
shutVars == <<main, mk, dropped>>
vars == <<queue, nextRead, pc, cur, out, gate, dbVars, exp, saved,
          clientVars, shutVars, tainted>>

Cmd == [c : Client, n : Nat, kind : AllKinds]
ShutdownCmd == [kind |-> "shutdown"]
Results == {"none", "ok", "error"}
EmptyImage == [log |-> <<>>, logins |-> 0]

AtLeastOne(n) == IF n = 0 THEN 1 ELSE n

\* sync_channel(size.max(1)).
Capacity(w) ==
    IF w = Write THEN AtLeastOne(WriteQueueSize)
    ELSE IF w = Snapshot THEN AtLeastOne(SnapshotQueueSize)
    ELSE AtLeastOne(ReadQueueSize)

Init ==
    /\ queue = [w \in Workers |-> <<>>]
    /\ nextRead = 0
    /\ pc = [w \in Workers |-> "recv"]
    /\ cur = [w \in Workers |-> ShutdownCmd]
    /\ out = [w \in Workers |-> "none"]
    /\ gate = NoWorker
    /\ db = EmptyImage /\ view = EmptyImage /\ txn = "none"
    /\ exp = [cat |-> <<>>, data |-> <<>>]
    /\ saved = {}
    /\ reqs = 0
    /\ st = [c \in Client |-> "idle"]
    /\ main = "serve" /\ mk = 0 /\ dropped = {}
    /\ acked = {} /\ refused = {}
    /\ seen = [c \in Client |-> {}]
    /\ got = [c \in Client |-> {}]
    /\ tainted = FALSE

-----------------------------------------------------------------------------
(***************************************************************************)
(* Clients                                                                 *)
(***************************************************************************)

\* The kinds that change the database and so appear in the log.
Changing(kind) == kind \in {"dml", "ddl", "batch", "maint"}

\* The queue a request goes to: the route of the statement decides, there is
\* no fallback from one queue to another.
Target(kind) ==
    CASE kind = "save"  -> Snapshot
      [] kind = "query" -> nextRead + 1
      [] OTHER          -> Write

HasRoom(w) == Len(queue[w]) < Capacity(w)

\* The answer to the request cmd, what the caller's await returns; logs holds
\* the log a query or a snapshot was taken from.
Answered(cmd, r, logs) ==
    /\ st' = [st EXCEPT ![cmd.c] = "idle"]
    /\ got' = [got EXCEPT ![cmd.c] = logs]
    /\ acked' = IF r = "ok" /\ Changing(cmd.kind) THEN acked \union {cmd} ELSE acked
    /\ UNCHANGED <<reqs, seen, refused>>

\* A client calls a method of DbHandle: try_send on the queue of the route.
Submit(c, kind) ==
    LET w == Target(kind)
        cmd == [c |-> c, n |-> reqs + 1, kind |-> kind]
    IN  /\ main # "exit"
        /\ st[c] = "idle"
        /\ reqs < MaxReq
        /\ reqs' = reqs + 1
        /\ seen' = [seen EXCEPT ![c] = acked]
        /\ got' = [got EXCEPT ![c] = {}]
        /\ nextRead' = IF kind = "query" THEN (nextRead + 1) % NumReaders ELSE nextRead
        /\ \/ /\ pc[w] # "stopped" /\ HasRoom(w)
              /\ queue' = [queue EXCEPT ![w] = Append(@, cmd)]
              /\ st' = [st EXCEPT ![c] = "waiting"]
              /\ UNCHANGED refused
           \/ /\ pc[w] = "stopped" \/ ~HasRoom(w)
              /\ refused' = refused \union {cmd}
              /\ UNCHANGED <<queue, st>>
        /\ UNCHANGED <<pc, cur, out, gate, dbVars, exp, saved, acked, shutVars, tainted>>

-----------------------------------------------------------------------------
(***************************************************************************)
(* Every worker: receive a command, and stop on Shutdown                   *)
(***************************************************************************)

\* Mutant: the vector commands without the gate.
GatedTypedOnly(kind) == kind \in TypedWrites

\* The arms of the write worker that take the gate.
Gated(kind) == kind \in TypedWrites \union VectorWrites

\* Mutant: the snapshot worker does not lock.
NeedsGateToWrite(w, kind) == w = Write /\ Gated(kind)

NeedsGate(w, kind) == w = Snapshot \/ (w = Write /\ Gated(kind))

Receive(w) ==
    LET cmd == Head(queue[w])
    IN  /\ pc[w] = "recv"
        /\ queue[w] # <<>>
        /\ cmd # ShutdownCmd
        /\ queue' = [queue EXCEPT ![w] = Tail(@)]
        /\ cur' = [cur EXCEPT ![w] = cmd]
        /\ pc' = [pc EXCEPT ![w] = IF NeedsGate(w, cmd.kind) THEN "gate" ELSE "run"]
        /\ UNCHANGED <<nextRead, out, gate, dbVars, exp, saved, clientVars, shutVars, tainted>>

\* Mutant: the receiver outlives the worker, nobody is told.
AbandonedNobody(w) == {}

\* The requests still in the channel when its receiver is dropped.
Abandoned(w) == {queue[w][i] : i \in 2..Len(queue[w])} \ {ShutdownCmd}

\* SqlCommand::Shutdown / SnapshotCommand::Shutdown => break: the receiver is
\* dropped, so every sender still in the channel is and its caller gets
\* worker_stopped.
StopWorker(w) ==
    /\ pc[w] = "recv"
    /\ queue[w] # <<>>
    /\ Head(queue[w]) = ShutdownCmd
    /\ pc' = [pc EXCEPT ![w] = "stopped"]
    /\ queue' = [queue EXCEPT ![w] = <<>>]
    /\ st' = [c \in Client |-> IF \E m \in Abandoned(w) : m.c = c THEN "idle" ELSE st[c]]
    /\ refused' = refused \union Abandoned(w)
    /\ UNCHANGED <<nextRead, cur, out, gate, dbVars, exp, saved, reqs, acked, seen, got,
                   shutVars, tainted>>

\* Mutant: the lock is not waited for.
GateIgnored == TRUE

\* lock_snapshot_gate: a poisoned mutex is recovered, so only its holder matters.
GateFree == gate = NoWorker

LockGate(w) ==
    /\ pc[w] = "gate"
    /\ GateFree
    /\ gate' = w
    /\ pc' = [pc EXCEPT ![w] = "run"]
    /\ UNCHANGED <<queue, nextRead, cur, out, dbVars, exp, saved, clientVars, shutVars, tainted>>

\* Mutant: the guard outlives the arm.
ReplyKeepsGate(w) ==
    /\ pc[w] = "reply"
    /\ pc' = [pc EXCEPT ![w] = "recv"]
    /\ out' = [out EXCEPT ![w] = "none"]
    /\ tainted' = (tainted \/ (w = Write /\ txn # "none"))
    /\ UNCHANGED <<queue, nextRead, cur, gate, dbVars, exp, saved, shutVars>>

\* `let _ = resp.send(result)`, with the guard dropped at the end of the arm.
Reply(w) ==
    /\ pc[w] = "reply"
    /\ pc' = [pc EXCEPT ![w] = "recv"]
    /\ out' = [out EXCEPT ![w] = "none"]
    /\ gate' = IF gate = w THEN NoWorker ELSE gate
    /\ tainted' = (tainted \/ (w = Write /\ txn # "none"))
    /\ UNCHANGED <<queue, nextRead, cur, dbVars, exp, saved, shutVars>>

-----------------------------------------------------------------------------
(***************************************************************************)
(* The write worker                                                        *)
(***************************************************************************)

\* Mutant: the write connection does not commit.
ChangeUncommitted(image) == view' = image /\ UNCHANGED <<db, txn>>

\* One change of the write connection: at once when it is in autocommit mode,
\* within its open transaction otherwise.
Change(image) ==
    /\ view' = image
    /\ db' = IF txn = "none" THEN image ELSE db
    /\ UNCHANGED txn

Logged(cmd) == [view EXCEPT !.log = Append(@, cmd)]
NoChange == UNCHANGED dbVars

\* A statement that fails leaves no change; within a transaction DuckDB may
\* mark that transaction aborted.
Fails ==
    /\ UNCHANGED <<db, view>>
    /\ \/ UNCHANGED txn
       \/ txn = "open" /\ txn' = "aborted"

\* A panic between BEGIN and COMMIT: catch_unwind answers the client and no
\* ROLLBACK is sent.
PanicInTransaction(cmd) ==
    /\ Panics /\ txn = "none"
    /\ txn' = "open"
    /\ view' \in {view, Logged(cmd)}
    /\ UNCHANGED db

\* Mutant: a statement that succeeded is executed again.
PlainStatementRetried(cmd, ok) ==
    \/ ok /\ txn # "aborted" /\ Change([view EXCEPT !.log = @ \o <<cmd, cmd>>])
    \/ ~ok /\ Fails

\* conn.execute of a statement that is no catalog mutation.
PlainStatement(cmd, ok) ==
    \/ ok /\ txn # "aborted" /\ Change(Logged(cmd))
    \/ ~ok /\ Fails

\* Mutant: the error of the body is swallowed after its ROLLBACK.
CatalogTxSwallowsError(cmd, ok) ==
    \/ ok /\ txn = "none" /\ (Change(Logged(cmd)) \/ NoChange)
    \/ ~ok /\ Fails
    \/ ~ok /\ PanicInTransaction(cmd)

\* run_catalog_tx: BEGIN fails when a transaction is open already.
CatalogTx(cmd, ok) ==
    \/ ok /\ txn = "none" /\ Change(Logged(cmd))
    \/ ~ok /\ Fails
    \/ ~ok /\ PanicInTransaction(cmd)

\* BEGIN, COMMIT and ROLLBACK sent as SQL reach conn.execute.
TxStatement(cmd, ok) ==
    \/ /\ cmd.kind = "begin" /\ ok /\ txn = "none"
       /\ txn' = "open" /\ UNCHANGED <<db, view>>
    \/ /\ cmd.kind = "commit" /\ ok /\ txn = "open"
       /\ db' = view /\ txn' = "none" /\ UNCHANGED view
    \/ /\ cmd.kind = "commit" /\ ~ok /\ txn = "aborted"
       /\ view' = db /\ txn' = "none" /\ UNCHANGED db
    \/ /\ cmd.kind = "rollback" /\ ok /\ txn # "none"
       /\ view' = db /\ txn' = "none" /\ UNCHANGED db
    \/ ~ok /\ Fails

\* CatalogAuthenticator stamps rs_user.last_login_at on success.
Login(ok) ==
    \/ ok /\ txn # "aborted" /\ Change([view EXCEPT !.logins = @ + 1])
    \/ ~ok /\ Fails

\* The guard of RunTyped is scoped to the execution: released before resp.send.
ReleasedEarly(kind) == kind \in TypedWrites

\* A command body of one step.
WriteRun(ok) ==
    LET cmd == cur[Write]
    IN  /\ pc[Write] = "run"
        /\ \/ cmd.kind = "dml" /\ PlainStatement(cmd, ok)
           \/ cmd.kind \in {"ddl", "batch"} /\ CatalogTx(cmd, ok)
           \/ cmd.kind \in {"begin", "commit", "rollback"} /\ TxStatement(cmd, ok)
           \/ cmd.kind = "auth" /\ Login(ok)
           \/ cmd.kind = "describe" /\ NoChange
           \/ cmd.kind = "maint" /\ ~ok /\ Fails
        /\ out' = [out EXCEPT ![Write] = IF ok THEN "ok" ELSE "error"]
        /\ pc' = [pc EXCEPT ![Write] = "reply"]
        /\ gate' = IF ReleasedEarly(cmd.kind) THEN NoWorker ELSE gate
        /\ UNCHANGED <<queue, nextRead, cur, exp, saved, clientVars, shutVars, tainted>>

\* rebuild_vector_index and compact_vector_index change the status in a
\* statement of its own ...
MaintBegin ==
    LET cmd == cur[Write]
    IN  /\ pc[Write] = "run"
        /\ cmd.kind = "maint" /\ txn # "aborted"
        /\ Change(Logged(cmd))
        /\ pc' = [pc EXCEPT ![Write] = "run2"]
        /\ UNCHANGED <<queue, nextRead, cur, out, gate, exp, saved, clientVars, shutVars, tainted>>

\* ... and then either finish or record the failure; a panic does neither.
MaintEnd(ok) ==
    LET cmd == cur[Write]
    IN  /\ pc[Write] = "run2"
        /\ \/ txn # "aborted" /\ Change(Logged(cmd))
           \/ ~ok /\ txn = "aborted" /\ NoChange
           \/ ~ok /\ Panics /\ NoChange
           \/ ~ok /\ PanicInTransaction(cmd)
        /\ out' = [out EXCEPT ![Write] = IF ok THEN "ok" ELSE "error"]
        /\ pc' = [pc EXCEPT ![Write] = "reply"]
        /\ UNCHANGED <<queue, nextRead, cur, gate, exp, saved, clientVars, shutVars, tainted>>

WriteReply ==
    /\ Reply(Write)
    /\ Answered(cur[Write], out[Write], {})

-----------------------------------------------------------------------------
(***************************************************************************)
(* The read workers: one statement on the committed image, no gate         *)
(***************************************************************************)
ReadRun(r, ok) ==
    /\ pc[r] = "run"
    /\ pc' = [pc EXCEPT ![r] = "recv"]
    /\ Answered(cur[r], IF ok THEN "ok" ELSE "error", IF ok THEN {db.log} ELSE {})
    /\ UNCHANGED <<queue, nextRead, cur, out, gate, dbVars, exp, saved, shutVars, tainted>>

-----------------------------------------------------------------------------
(***************************************************************************)
(* The snapshot worker: save_snapshot_blocking under the gate              *)
(***************************************************************************)
SnapshotFail ==
    /\ pc[Snapshot] \in {"run", "data", "verify"}
    /\ out' = [out EXCEPT ![Snapshot] = "error"]
    /\ pc' = [pc EXCEPT ![Snapshot] = "reply"]
    /\ UNCHANGED <<queue, nextRead, cur, gate, dbVars, exp, saved, clientVars, shutVars, tainted>>

\* catalog_snapshot_metadata and export_catalog_database.
ExportCatalog ==
    /\ pc[Snapshot] = "run"
    /\ exp' = [exp EXCEPT !.cat = db.log]
    /\ pc' = [pc EXCEPT ![Snapshot] = "data"]
    /\ UNCHANGED <<queue, nextRead, cur, out, gate, dbVars, saved, clientVars, shutVars, tainted>>

\* export_snapshot_tables, snapshot_partitions, snapshot_views, snapshot_macros.
ExportData ==
    /\ pc[Snapshot] = "data"
    /\ exp' = [exp EXCEPT !.data = db.log]
    /\ pc' = [pc EXCEPT ![Snapshot] = "verify"]
    /\ UNCHANGED <<queue, nextRead, cur, out, gate, dbVars, saved, clientVars, shutVars, tainted>>

\* What the catalog epoch and checksum tell apart: the journalled mutations.
CatalogVersion(log) == SelectSeq(log, LAMBDA m : m.kind \in {"ddl", "batch"})

\* The second catalog_snapshot_metadata, the manifest and the rename.
Publish ==
    /\ pc[Snapshot] = "verify"
    /\ CatalogVersion(db.log) = CatalogVersion(exp.cat)
    /\ saved' = saved \union {exp}
    /\ out' = [out EXCEPT ![Snapshot] = "ok"]
    /\ pc' = [pc EXCEPT ![Snapshot] = "reply"]
    /\ UNCHANGED <<queue, nextRead, cur, gate, dbVars, exp, clientVars, shutVars, tainted>>

SnapshotReply ==
    /\ Reply(Snapshot)
    /\ Answered(cur[Snapshot], out[Snapshot],
                IF out[Snapshot] = "ok" THEN {exp.data} ELSE {})

-----------------------------------------------------------------------------
(***************************************************************************)
(* DbEngine::shutdown, run once by main.rs                                 *)
(***************************************************************************)
ShutdownBegin ==
    /\ Stops
    /\ main = "serve"
    /\ main' = "send" /\ mk' = 0
    /\ UNCHANGED <<queue, nextRead, pc, cur, out, gate, dbVars, exp, saved, clientVars,
                   dropped, tainted>>

\* `let _ = tx.try_send(Shutdown)`: write, then each reader, then snapshot.
ShutdownSend ==
    /\ main = "send"
    /\ \/ HasRoom(mk) /\ queue' = [queue EXCEPT ![mk] = Append(@, ShutdownCmd)]
          /\ UNCHANGED dropped
       \/ ~HasRoom(mk) /\ dropped' = dropped \union {mk} /\ UNCHANGED queue
    /\ IF mk = Snapshot THEN main' = "join" /\ UNCHANGED mk
                        ELSE mk' = mk + 1 /\ UNCHANGED main
    /\ UNCHANGED <<nextRead, pc, cur, out, gate, dbVars, exp, saved, clientVars, tainted>>

\* workers.pop() and join(), the snapshot worker first.
ShutdownJoin ==
    /\ main = "join"
    /\ pc[mk] = "stopped"
    /\ IF mk = Write THEN main' = "exit" /\ UNCHANGED mk
                     ELSE mk' = mk - 1 /\ UNCHANGED main
    /\ UNCHANGED <<queue, nextRead, pc, cur, out, gate, dbVars, exp, saved, clientVars,
                   dropped, tainted>>

-----------------------------------------------------------------------------
WriteStep ==
    \/ \E ok \in BOOLEAN : WriteRun(ok) \/ MaintEnd(ok)
    \/ MaintBegin
    \/ WriteReply

ReadStep(r) == \E ok \in BOOLEAN : ReadRun(r, ok)

SnapshotStep == SnapshotFail \/ ExportCatalog \/ ExportData \/ Publish \/ SnapshotReply

WorkerStep(w) ==
    \/ Receive(w) \/ StopWorker(w) \/ LockGate(w)
    \/ w = Write /\ WriteStep
    \/ w \in Readers /\ ReadStep(w)
    \/ w = Snapshot /\ SnapshotStep

ShutdownStep == ShutdownSend \/ ShutdownJoin

Next ==
    \/ \E c \in Client, kind \in Kinds : Submit(c, kind)
    \/ \E w \in Workers : WorkerStep(w)
    \/ ShutdownBegin
    \/ ShutdownStep

Spec == Init /\ [][Next]_vars

\* Worker threads and the shutting-down thread are scheduled; clients and the
\* shutdown signal owe nothing.
Fairness == (\A w \in Workers : WF_vars(WorkerStep(w))) /\ WF_vars(ShutdownStep)

FairSpec == Spec /\ Fairness

-----------------------------------------------------------------------------
(***************************************************************************)
(* Properties                                                              *)
(***************************************************************************)
Log == Seq(Cmd)
Image == [log : Log, logins : Nat]

\* Every variable has its type, and no channel holds more than its capacity.
TypeOK ==
    /\ queue \in [Workers -> Seq(Cmd \union {ShutdownCmd})]
    /\ \A w \in Workers : Len(queue[w]) <= Capacity(w)
    /\ nextRead \in 0..NumReaders - 1
    /\ pc \in [Workers -> {"recv", "gate", "run", "run2", "data", "verify", "reply", "stopped"}]
    /\ cur \in [Workers -> Cmd \union {ShutdownCmd}]
    /\ out \in [Workers -> Results]
    /\ gate \in Workers \union {NoWorker}
    /\ db \in Image /\ view \in Image
    /\ txn \in {"none", "open", "aborted"}
    /\ exp \in [cat : Log, data : Log]
    /\ saved \subseteq [cat : Log, data : Log]
    /\ reqs \in Nat
    /\ st \in [Client -> {"idle", "waiting"}]
    /\ main \in {"serve", "send", "join", "exit"}
    /\ mk \in Workers
    /\ dropped \subseteq Workers
    /\ acked \subseteq Cmd /\ refused \subseteq Cmd
    /\ seen \in [Client -> SUBSET Cmd]
    /\ got \in [Client -> SUBSET Log]
    /\ tainted \in BOOLEAN

InLog(log, m) == \E i \in DOMAIN log : log[i] = m
Occurrences(log, m) == Cardinality({i \in DOMAIN log : log[i] = m})

WritingUnderGate == pc[Write] \in {"run", "run2"} /\ Gated(cur[Write].kind)
Exporting == pc[Snapshot] \in {"run", "data", "verify"}

\* snapshot_write_gate: the body of a gated command and an export never
\* overlap (worker.rs, both lock_snapshot_gate call sites).
GateExclusive == ~(WritingUnderGate /\ Exporting)

\* While an export runs no step commits a change of a managed object.
ExportFrozen == [][pc[Snapshot] \in {"data", "verify"} => db'.log = db.log]_vars

\* A published snapshot is one state of the database: its catalog and its data
\* were read from the same log.
SnapshotConsistent == \A s \in saved : s.cat = s.data

\* Of a two-step command that was acknowledged a snapshot holds both steps or
\* neither (rebuild_vector_index, compact_vector_index).
MaintenanceWhole ==
    \A s \in saved, m \in acked :
        m.kind = "maint" => Occurrences(s.data, m) \in {0, 2}

\* Unless a transaction was left open on the write connection, Ok to a write
\* means that the change is committed.
AckedApplied == ~tainted => \A m \in acked : InLog(db.log, m)

\* queue_full and worker_stopped mean that the command never ran and never
\* will, and no command runs twice.
AppliedOnce ==
    /\ \A m \in refused : ~InLog(view.log, m)
    /\ \A i \in DOMAIN view.log :
         Occurrences(view.log, view.log[i]) <= (IF view.log[i].kind = "maint" THEN 2 ELSE 1)

\* A query, on whichever read worker, and a snapshot see every write that was
\* acknowledged before they were requested.
ReadsSeeAcked ==
    ~tainted => \A c \in Client : \A log \in got[c] : \A m \in seen[c] : InLog(log, m)

\* Every accepted request is answered, across a shutdown too.
RequestsAnswered == \A c \in Client : st[c] = "waiting" ~> st[c] = "idle"

\* When every Shutdown command found room, the joins return.
ShutdownCompletes == (main = "join" /\ dropped = {}) ~> main = "exit"

\* Said by README.md: "Transactions or temporary objects must not leak into
\* later user requests": between two commands no transaction is open.
NoTransactionLeak == pc[Write] = "recv" => txn = "none"
=============================================================================
