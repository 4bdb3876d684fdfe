---------------------------- MODULE EngineProofs ----------------------------
(***************************************************************************)
(* Theorems about Engine, for every number of clients, readers and         *)
(* requests and every queue size.                                          *)
(***************************************************************************)
EXTENDS EngineRefinement, SequenceTheorems, FiniteSetTheorems, TLAPS

Busy == {"gate", "run", "run2", "data", "verify", "reply"}

\* A worker that is handling something handles a client's command.
BusyHasCommand == \A w \in Workers : pc[w] \in Busy => cur[w] \in Cmd

\* In autocommit mode the write connection sees the committed image.
AutocommitView == txn = "none" => view = db

\* Who holds snapshot_write_gate: the body of a gated command, and the
\* snapshot worker from the start of a save to its reply.
GateHeld ==
    /\ WritingUnderGate => gate = Write
    /\ pc[Write] = "run2" => Gated(cur[Write].kind)
    /\ pc[Snapshot] \in {"run", "data", "verify", "reply"} => gate = Snapshot

\* What an export has read is still the committed log.
ExportCurrent ==
    /\ pc[Snapshot] \in {"data", "verify"} => exp.cat = db.log
    /\ pc[Snapshot] = "verify" => exp.data = db.log

IInv ==
    /\ TypeOK
    /\ BusyHasCommand
    /\ AutocommitView
    /\ GateHeld
    /\ ExportCurrent
    /\ SnapshotConsistent

-----------------------------------------------------------------------------
(***************************************************************************)
(* The workers and the images.                                             *)
(***************************************************************************)

\* The write worker, the readers and the snapshot worker are different.
LEMMA WorkerFacts ==
    /\ Write \in Workers /\ Snapshot \in Workers
    /\ Readers \subseteq Workers
    /\ Write # Snapshot
    /\ Write \notin Readers /\ Snapshot \notin Readers
    /\ NoWorker \notin Workers
    /\ NumReaders \in Nat
BY EngineAssumption DEF Write, Snapshot, Workers, Readers, NoWorker

\* Every channel holds at least one command.
LEMMA CapacityPositive ==
    ASSUME NEW w \in Workers
    PROVE  Capacity(w) \in Nat \ {0}
BY EngineAssumption DEF Capacity, AtLeastOne

LEMMA ShutdownIsNoCommand ==
    /\ ShutdownCmd.kind = "shutdown"
    /\ ShutdownCmd \notin Cmd
    /\ \A m \in Cmd : m # ShutdownCmd
<1>1. \A m \in Cmd : m.kind \in AllKinds
  BY DEF Cmd
<1>2. "shutdown" \notin AllKinds
  BY DEF AllKinds, TypedWrites, VectorWrites
<1>3. ShutdownCmd.kind = "shutdown"
  BY DEF ShutdownCmd
<1> QED
  BY <1>1, <1>2, <1>3

\* What the images of the database may be.
DbType ==
    /\ db \in Image /\ view \in Image
    /\ txn \in {"none", "open", "aborted"}
    /\ AutocommitView

LEMMA LoggedType ==
    ASSUME DbType, NEW cmd \in Cmd
    PROVE  Logged(cmd) \in Image
<1>1. view.log \in Log /\ view \in [log : Log, logins : Nat]
  BY DEF DbType, Image
<1>2. Append(view.log, cmd) \in Log
  BY <1>1, AppendProperties DEF Log
<1> QED
  BY <1>1, <1>2 DEF Logged, Image

LEMMA ChangeType ==
    ASSUME DbType, NEW image \in Image, Change(image)
    PROVE  DbType'
BY DEF DbType, Change, AutocommitView

LEMMA FailsType ==
    ASSUME DbType, Fails
    PROVE  DbType' /\ db' = db
BY DEF DbType, Fails, AutocommitView

LEMMA PanicType ==
    ASSUME DbType, NEW cmd \in Cmd, PanicInTransaction(cmd)
    PROVE  DbType' /\ db' = db
BY LoggedType DEF DbType, PanicInTransaction, AutocommitView

LEMMA PlainStatementType ==
    ASSUME DbType, NEW cmd \in Cmd, NEW ok, PlainStatement(cmd, ok)
    PROVE  DbType'
BY LoggedType, ChangeType, FailsType DEF PlainStatement

LEMMA CatalogTxType ==
    ASSUME DbType, NEW cmd \in Cmd, NEW ok, CatalogTx(cmd, ok)
    PROVE  DbType'
BY LoggedType, ChangeType, FailsType, PanicType DEF CatalogTx

LEMMA TxStatementType ==
    ASSUME DbType, NEW cmd \in Cmd, NEW ok, TxStatement(cmd, ok)
    PROVE  DbType'
<1>1. CASE ~ok /\ Fails
  BY <1>1, FailsType
<1>2. CASE ~(~ok /\ Fails)
  BY <1>2 DEF TxStatement, DbType, AutocommitView
<1> QED
  BY <1>1, <1>2

\* A login changes no managed object.
LEMMA LoginType ==
    ASSUME DbType, NEW ok, Login(ok)
    PROVE  DbType' /\ db'.log = db.log
<1>1. CASE ~ok /\ Fails
  BY <1>1, FailsType
<1>2. CASE ok /\ txn # "aborted" /\ Change([view EXCEPT !.logins = @ + 1])
  <2> DEFINE image == [view EXCEPT !.logins = @ + 1]
  <2>1. image \in Image /\ image.log = view.log
    BY DEF DbType, Image
  <2>2. DbType'
    BY <1>2, <2>1, ChangeType
  <2>3. db'.log = db.log
    BY <1>2, <2>1 DEF Change, DbType, AutocommitView
  <2> QED
    BY <2>2, <2>3
<1> QED
  BY <1>1, <1>2 DEF Login

-----------------------------------------------------------------------------
(***************************************************************************)
(* Initial states and the steps, one lemma for each group of actions.      *)
(***************************************************************************)
LEMMA InitIInv == Init => IInv
<1> SUFFICES ASSUME Init PROVE IInv
  OBVIOUS
<1>1. <<>> \in Log /\ EmptyImage \in Image
  BY DEF Log, Image, EmptyImage
<1>2. TypeOK
  <2>1. \A w \in Workers : Len(queue[w]) <= Capacity(w)
    BY CapacityPositive DEF Init
  <2>2. nextRead \in 0..NumReaders - 1
    BY EngineAssumption DEF Init
  <2>3. exp \in [cat : Log, data : Log] /\ saved \subseteq [cat : Log, data : Log]
    BY <1>1 DEF Init
  <2>4. queue \in [Workers -> Seq(Cmd \union {ShutdownCmd})]
    BY DEF Init
  <2>5. mk \in Workers /\ dropped \subseteq Workers
    BY WorkerFacts DEF Init, Write
  <2>6. cur \in [Workers -> Cmd \union {ShutdownCmd}] /\ out \in [Workers -> Results]
    BY DEF Init, Results
  <2> QED
    BY <1>1, <2>1, <2>2, <2>3, <2>4, <2>5, <2>6 DEF Init, TypeOK
<1>3. BusyHasCommand /\ AutocommitView /\ SnapshotConsistent
  BY DEF Init, BusyHasCommand, Busy, AutocommitView, SnapshotConsistent
<1>4. GateHeld /\ ExportCurrent
  BY WorkerFacts DEF Init, GateHeld, WritingUnderGate, ExportCurrent
<1> QED
  BY <1>2, <1>3, <1>4 DEF IInv

\* A command is queued or refused.
LEMMA SubmitStep ==
    ASSUME IInv, NEW c \in Client, NEW kind \in Kinds, Submit(c, kind)
    PROVE  IInv'
<1> DEFINE w == Target(kind)
           cmd == [c |-> c, n |-> reqs + 1, kind |-> kind]
<1>1. cmd \in Cmd
  BY EngineAssumption DEF Cmd, IInv, TypeOK
<1>2. w \in Workers
  BY EngineAssumption DEF Target, Workers, Write, Snapshot, IInv, TypeOK
<1>3. nextRead' \in 0..NumReaders - 1
  BY EngineAssumption DEF Submit, IInv, TypeOK
<1>4. queue' \in [Workers -> Seq(Cmd \union {ShutdownCmd})]
      /\ \A v \in Workers : Len(queue'[v]) <= Capacity(v)
  <2>1. CASE UNCHANGED queue
    BY <2>1 DEF IInv, TypeOK
  <2>2. CASE HasRoom(w) /\ queue' = [queue EXCEPT ![w] = Append(@, cmd)]
    <3>1. queue[w] \in Seq(Cmd \union {ShutdownCmd})
      BY <1>2 DEF IInv, TypeOK
    <3>2. Append(queue[w], cmd) \in Seq(Cmd \union {ShutdownCmd})
          /\ Len(Append(queue[w], cmd)) = Len(queue[w]) + 1
      BY <1>1, <3>1, AppendProperties
    <3>3. Len(queue[w]) < Capacity(w) /\ Len(queue[w]) \in Nat
      BY <2>2, <3>1 DEF HasRoom
    <3>4. Len(queue[w]) + 1 <= Capacity(w)
      BY <1>2, <3>3, CapacityPositive
    <3> QED
      BY <1>2, <2>2, <3>2, <3>4 DEF IInv, TypeOK
  <2> QED
    BY <2>1, <2>2 DEF Submit
<1>5. reqs' \in Nat /\ st' \in [Client -> {"idle", "waiting"}]
      /\ acked' \subseteq Cmd /\ refused' \subseteq Cmd
      /\ seen' \in [Client -> SUBSET Cmd] /\ got' \in [Client -> SUBSET Log]
  <2>1. reqs' \in Nat /\ acked' \subseteq Cmd
    BY DEF Submit, IInv, TypeOK
  <2>2. st' \in [Client -> {"idle", "waiting"}]
    BY DEF Submit, IInv, TypeOK
  <2>3. refused' \subseteq Cmd
    BY <1>1 DEF Submit, IInv, TypeOK
  <2>4. seen' \in [Client -> SUBSET Cmd] /\ got' \in [Client -> SUBSET Log]
    BY DEF Submit, IInv, TypeOK
  <2> QED
    BY <2>1, <2>2, <2>3, <2>4
<1>6. UNCHANGED <<pc, cur, out, gate, db, view, txn, exp, saved, main, mk, dropped, tainted>>
  BY DEF Submit, dbVars, shutVars
<1>7. TypeOK'
  BY <1>3, <1>4, <1>5, <1>6 DEF IInv, TypeOK
<1> QED
  BY <1>6, <1>7 DEF IInv, BusyHasCommand, AutocommitView, GateHeld, WritingUnderGate,
                    ExportCurrent, SnapshotConsistent

\* Taking a command or Shutdown out of a channel keeps it within its bounds.
LEMMA TailType ==
    ASSUME IInv, NEW w \in Workers, queue[w] # <<>>
    PROVE  /\ Head(queue[w]) \in Cmd \union {ShutdownCmd}
           /\ LET q == [queue EXCEPT ![w] = Tail(@)]
              IN  /\ q \in [Workers -> Seq(Cmd \union {ShutdownCmd})]
                  /\ \A v \in Workers : Len(q[v]) <= Capacity(v)
<1>1. queue[w] \in Seq(Cmd \union {ShutdownCmd})
  BY DEF IInv, TypeOK
<1>2. /\ Head(queue[w]) \in Cmd \union {ShutdownCmd}
      /\ Tail(queue[w]) \in Seq(Cmd \union {ShutdownCmd})
      /\ Len(Tail(queue[w])) = Len(queue[w]) - 1
  BY <1>1, HeadTailProperties
<1>3. Len(queue[w]) \in Nat /\ Len(queue[w]) <= Capacity(w) /\ Capacity(w) \in Nat
  BY <1>1, CapacityPositive DEF IInv, TypeOK
<1>4. Len(Tail(queue[w])) <= Capacity(w)
  BY <1>2, <1>3
<1> QED
  BY <1>2, <1>4 DEF IInv, TypeOK

LEMMA ReceiveStep ==
    ASSUME IInv, NEW w \in Workers, Receive(w)
    PROVE  IInv'
<1> DEFINE cmd == Head(queue[w])
<1>1. cmd \in Cmd
  BY TailType DEF Receive
<1>2. queue' \in [Workers -> Seq(Cmd \union {ShutdownCmd})]
      /\ \A v \in Workers : Len(queue'[v]) <= Capacity(v)
  BY TailType DEF Receive
<1>3. UNCHANGED <<nextRead, out, gate, db, view, txn, exp, saved, reqs, st, acked, refused,
                  seen, got, main, mk, dropped, tainted>>
  BY DEF Receive, dbVars, clientVars, shutVars
<1>4. pc' = [pc EXCEPT ![w] = IF NeedsGate(w, cmd.kind) THEN "gate" ELSE "run"]
      /\ cur' = [cur EXCEPT ![w] = cmd]
  BY DEF Receive
<1>5. pc \in [Workers -> {"recv", "gate", "run", "run2", "data", "verify", "reply", "stopped"}]
      /\ cur \in [Workers -> Cmd \union {ShutdownCmd}]
  BY DEF IInv, TypeOK
<1>6. pc' \in [Workers -> {"recv", "gate", "run", "run2", "data", "verify", "reply", "stopped"}]
      /\ cur' \in [Workers -> Cmd \union {ShutdownCmd}]
  BY <1>1, <1>4, <1>5
<1>7. TypeOK'
  BY <1>2, <1>3, <1>6 DEF IInv, TypeOK
<1>8. BusyHasCommand'
  BY <1>1, <1>4, <1>5 DEF IInv, BusyHasCommand
<1>9. GateHeld'
  <2>1. CASE w = Write
    BY <1>3, <1>4, <1>5, <2>1, WorkerFacts DEF IInv, GateHeld, WritingUnderGate, NeedsGate
  <2>2. CASE w = Snapshot
    BY <1>3, <1>4, <1>5, <2>2, WorkerFacts DEF IInv, GateHeld, WritingUnderGate, NeedsGate
  <2>3. CASE w # Write /\ w # Snapshot
    BY <1>3, <1>4, <1>5, <2>3, WorkerFacts DEF IInv, GateHeld, WritingUnderGate
  <2> QED
    BY <2>1, <2>2, <2>3
<1>10. AutocommitView' /\ SnapshotConsistent'
  BY <1>3 DEF IInv, AutocommitView, SnapshotConsistent
<1>11. ExportCurrent'
  BY <1>3, <1>4, <1>5, WorkerFacts DEF IInv, ExportCurrent
<1> QED
  BY <1>7, <1>8, <1>9, <1>10, <1>11 DEF IInv

LEMMA StopWorkerStep ==
    ASSUME IInv, NEW w \in Workers, StopWorker(w)
    PROVE  IInv'
<1>1. queue' \in [Workers -> Seq(Cmd \union {ShutdownCmd})]
      /\ \A v \in Workers : Len(queue'[v]) <= Capacity(v)
  BY CapacityPositive DEF StopWorker, IInv, TypeOK
<1>2. pc' \in [Workers -> {"recv", "gate", "run", "run2", "data", "verify", "reply", "stopped"}]
      /\ st' \in [Client -> {"idle", "waiting"}]
  BY DEF StopWorker, IInv, TypeOK
<1>3. refused' \subseteq Cmd
  <2>1. queue[w] \in Seq(Cmd \union {ShutdownCmd})
    BY DEF IInv, TypeOK
  <2>2. \A i \in 2..Len(queue[w]) : queue[w][i] \in Cmd \union {ShutdownCmd}
    BY <2>1
  <2>3. Abandoned(w) \subseteq Cmd
    BY <2>2 DEF Abandoned
  <2> QED
    BY <2>3 DEF StopWorker, IInv, TypeOK
<1>4. UNCHANGED <<nextRead, cur, out, gate, db, view, txn, exp, saved, reqs, acked,
                  seen, got, main, mk, dropped, tainted>>
  BY DEF StopWorker, dbVars, shutVars
<1>5. TypeOK'
  BY <1>1, <1>2, <1>3, <1>4 DEF IInv, TypeOK
<1>6. \A v \in Workers : pc'[v] = pc[v] \/ pc'[v] = "stopped"
  BY DEF StopWorker, IInv, TypeOK
<1>7. BusyHasCommand' /\ GateHeld' /\ ExportCurrent'
  BY <1>4, <1>6, WorkerFacts
     DEF IInv, BusyHasCommand, Busy, GateHeld, WritingUnderGate, ExportCurrent
<1>8. AutocommitView' /\ SnapshotConsistent'
  BY <1>4 DEF IInv, AutocommitView, SnapshotConsistent
<1> QED
  BY <1>5, <1>7, <1>8 DEF IInv

LEMMA LockGateStep ==
    ASSUME IInv, NEW w \in Workers, LockGate(w)
    PROVE  IInv'
<1>1. UNCHANGED <<queue, nextRead, cur, out, db, view, txn, exp, saved, reqs, st, acked,
                  refused, seen, got, main, mk, dropped, tainted>>
  BY DEF LockGate, dbVars, clientVars, shutVars
<1>2. gate = NoWorker /\ gate' = w /\ pc[w] = "gate" /\ pc' = [pc EXCEPT ![w] = "run"]
  BY DEF LockGate, GateFree
<1>3. TypeOK'
  BY <1>1, <1>2 DEF IInv, TypeOK
<1>4. BusyHasCommand'
  BY <1>1, <1>2 DEF IInv, BusyHasCommand, Busy, TypeOK
<1>5. GateHeld'
  BY <1>1, <1>2, WorkerFacts DEF IInv, GateHeld, WritingUnderGate, TypeOK
<1>6. AutocommitView' /\ SnapshotConsistent' /\ ExportCurrent'
  BY <1>1, <1>2, WorkerFacts
     DEF IInv, AutocommitView, SnapshotConsistent, ExportCurrent, TypeOK
<1> QED
  BY <1>3, <1>4, <1>5, <1>6 DEF IInv

\* The answer keeps the types of what the clients see.
LEMMA AnsweredType ==
    ASSUME IInv, NEW cmd \in Cmd, NEW r, NEW logs \in SUBSET Log, Answered(cmd, r, logs)
    PROVE  /\ st' \in [Client -> {"idle", "waiting"}]
           /\ got' \in [Client -> SUBSET Log]
           /\ acked' \subseteq Cmd
           /\ UNCHANGED <<reqs, seen, refused>>
<1>1. st' \in [Client -> {"idle", "waiting"}]
  BY DEF Answered, IInv, TypeOK
<1>2. got' \in [Client -> SUBSET Log]
  BY DEF Answered, IInv, TypeOK
<1>3. acked' \subseteq Cmd
  BY DEF Answered, IInv, TypeOK
<1> QED
  BY <1>1, <1>2, <1>3 DEF Answered

LEMMA ReplyStep ==
    ASSUME IInv, NEW w \in Workers, NEW logs \in SUBSET Log,
           Reply(w), Answered(cur[w], out[w], logs)
    PROVE  IInv'
<1>1. cur[w] \in Cmd
  BY DEF Reply, IInv, BusyHasCommand, Busy
<1>2. UNCHANGED <<queue, nextRead, cur, db, view, txn, exp, saved, main, mk, dropped>>
  BY DEF Reply, dbVars, shutVars
<1>3. pc[w] = "reply" /\ pc' = [pc EXCEPT ![w] = "recv"]
      /\ out' = [out EXCEPT ![w] = "none"] /\ tainted' \in BOOLEAN
      /\ gate' = (IF gate = w THEN NoWorker ELSE gate)
  BY DEF Reply, IInv, TypeOK
<1>4. TypeOK'
  BY <1>1, <1>2, <1>3, AnsweredType DEF IInv, TypeOK, Results
<1>5. BusyHasCommand'
  BY <1>2, <1>3 DEF IInv, BusyHasCommand, Busy, TypeOK
<1>6. GateHeld'
  BY <1>2, <1>3, WorkerFacts DEF IInv, GateHeld, WritingUnderGate, TypeOK
<1>7. AutocommitView' /\ SnapshotConsistent' /\ ExportCurrent'
  BY <1>2, <1>3, WorkerFacts
     DEF IInv, AutocommitView, SnapshotConsistent, ExportCurrent, TypeOK
<1> QED
  BY <1>4, <1>5, <1>6, <1>7 DEF IInv

LEMMA ReadRunStep ==
    ASSUME IInv, NEW r \in Readers, NEW ok \in BOOLEAN, ReadRun(r, ok)
    PROVE  IInv'
<1>1. cur[r] \in Cmd /\ r \in Workers /\ r # Write /\ r # Snapshot
  BY WorkerFacts DEF ReadRun, IInv, BusyHasCommand, Busy
<1>2. UNCHANGED <<queue, nextRead, cur, out, gate, db, view, txn, exp, saved, main, mk,
                  dropped, tainted>>
  BY DEF ReadRun, dbVars, shutVars
<1>3. pc' = [pc EXCEPT ![r] = "recv"]
  BY DEF ReadRun
<1>4. (IF ok THEN {db.log} ELSE {}) \in SUBSET Log
  BY DEF IInv, TypeOK, Image
<1>5. /\ st' \in [Client -> {"idle", "waiting"}]
      /\ got' \in [Client -> SUBSET Log]
      /\ acked' \subseteq Cmd
      /\ UNCHANGED <<reqs, seen, refused>>
  BY <1>1, <1>4, AnsweredType DEF ReadRun
<1>6. TypeOK'
  BY <1>1, <1>2, <1>3, <1>5 DEF IInv, TypeOK
<1>7. BusyHasCommand'
  BY <1>2, <1>3 DEF IInv, BusyHasCommand, Busy, TypeOK
<1>8. GateHeld'
  BY <1>1, <1>2, <1>3, WorkerFacts DEF IInv, GateHeld, WritingUnderGate, TypeOK
<1>9. AutocommitView' /\ SnapshotConsistent' /\ ExportCurrent'
  BY <1>1, <1>2, <1>3, WorkerFacts
     DEF IInv, AutocommitView, SnapshotConsistent, ExportCurrent, TypeOK
<1> QED
  BY <1>6, <1>7, <1>8, <1>9 DEF IInv

\* The bodies of the write worker, given what they do to the database: they
\* change no managed object unless they hold the gate.
LEMMA WriteBodyStep ==
    ASSUME IInv, NEW p \in {"run2", "reply"}, NEW o \in Results, NEW g \in {gate, NoWorker},
           pc[Write] \in {"run", "run2"},
           p = "run2" => Gated(cur[Write].kind) /\ g = gate,
           DbType', ~Gated(cur[Write].kind) => db'.log = db.log,
           g = NoWorker => g = gate \/ Gated(cur[Write].kind),
           pc' = [pc EXCEPT ![Write] = p], out' = [out EXCEPT ![Write] = o], gate' = g,
           UNCHANGED <<queue, nextRead, cur, exp, saved, clientVars, shutVars, tainted>>
    PROVE  IInv'
<1>1. UNCHANGED <<queue, nextRead, cur, exp, saved, reqs, st, acked, refused, seen, got,
                  main, mk, dropped, tainted>>
  BY DEF clientVars, shutVars
<1>2. TypeOK'
  BY <1>1, WorkerFacts DEF IInv, TypeOK, DbType
<1>3. BusyHasCommand'
  BY <1>1, WorkerFacts DEF IInv, BusyHasCommand, Busy, TypeOK
<1>4. GateHeld'
  BY <1>1, WorkerFacts DEF IInv, GateHeld, WritingUnderGate, TypeOK
<1>5. ExportCurrent'
  <2>1. pc'[Snapshot] = pc[Snapshot]
    BY WorkerFacts DEF IInv, TypeOK
  <2>2. pc[Snapshot] \in {"data", "verify"} => db'.log = db.log
    BY WorkerFacts DEF IInv, GateHeld, WritingUnderGate
  <2> QED
    BY <1>1, <2>1, <2>2 DEF IInv, ExportCurrent
<1>6. SnapshotConsistent' /\ AutocommitView'
  BY <1>1 DEF IInv, SnapshotConsistent, DbType
<1> QED
  BY <1>2, <1>3, <1>4, <1>5, <1>6 DEF IInv

LEMMA WriteRunStep ==
    ASSUME IInv, NEW ok \in BOOLEAN, WriteRun(ok)
    PROVE  IInv'
<1> DEFINE cmd == cur[Write]
           o == IF ok THEN "ok" ELSE "error"
           g == IF ReleasedEarly(cmd.kind) THEN NoWorker ELSE gate
<1>1. cmd \in Cmd /\ DbType
  BY WorkerFacts DEF WriteRun, IInv, BusyHasCommand, Busy, TypeOK, DbType
<1>2. DbType' /\ (~Gated(cmd.kind) => db'.log = db.log)
  <2>1. CASE cmd.kind = "dml" /\ PlainStatement(cmd, ok)
    BY <1>1, <2>1, PlainStatementType DEF Gated, TypedWrites
  <2>2. CASE cmd.kind \in {"ddl", "batch"} /\ CatalogTx(cmd, ok)
    BY <1>1, <2>2, CatalogTxType DEF Gated, TypedWrites, VectorWrites
  <2>3. CASE cmd.kind \in {"begin", "commit", "rollback"} /\ TxStatement(cmd, ok)
    BY <1>1, <2>3, TxStatementType DEF Gated, TypedWrites
  <2>4. CASE cmd.kind = "auth" /\ Login(ok)
    BY <1>1, <2>4, LoginType
  <2>5. CASE cmd.kind = "describe" /\ NoChange
    BY <1>1, <2>5 DEF NoChange, dbVars, DbType, AutocommitView
  <2>6. CASE cmd.kind = "maint" /\ ~ok /\ Fails
    BY <1>1, <2>6, FailsType
  <2> QED
    BY <2>1, <2>2, <2>3, <2>4, <2>5, <2>6 DEF WriteRun
<1>3. o \in Results /\ g \in {gate, NoWorker}
  BY DEF Results
<1>4. g = NoWorker => g = gate \/ Gated(cmd.kind)
  BY DEF ReleasedEarly, Gated
<1>5. /\ pc[Write] = "run" /\ pc' = [pc EXCEPT ![Write] = "reply"]
      /\ out' = [out EXCEPT ![Write] = o] /\ gate' = g
      /\ UNCHANGED <<queue, nextRead, cur, exp, saved, clientVars, shutVars, tainted>>
  BY DEF WriteRun
<1> HIDE DEF o, g
<1> QED
  BY <1>2, <1>3, <1>4, <1>5, WriteBodyStep

LEMMA MaintBeginStep ==
    ASSUME IInv, MaintBegin
    PROVE  IInv'
<1>1. cur[Write] \in Cmd /\ DbType
  BY WorkerFacts DEF MaintBegin, IInv, BusyHasCommand, Busy, TypeOK, DbType
<1>2. DbType' /\ Gated(cur[Write].kind)
  BY <1>1, LoggedType, ChangeType DEF MaintBegin, Gated, VectorWrites
<1>3. out \in [Workers -> Results] /\ Write \in Workers
  BY WorkerFacts DEF IInv, TypeOK
<1>4. out[Write] \in Results /\ out' = [out EXCEPT ![Write] = out[Write]]
  BY <1>3 DEF MaintBegin
<1>5. /\ pc[Write] = "run" /\ pc' = [pc EXCEPT ![Write] = "run2"] /\ gate' = gate
      /\ UNCHANGED <<queue, nextRead, cur, exp, saved, clientVars, shutVars, tainted>>
  BY DEF MaintBegin
<1> QED
  BY <1>2, <1>4, <1>5, WriteBodyStep

LEMMA MaintEndStep ==
    ASSUME IInv, NEW ok \in BOOLEAN, MaintEnd(ok)
    PROVE  IInv'
<1> DEFINE cmd == cur[Write]
           o == IF ok THEN "ok" ELSE "error"
<1>1. cmd \in Cmd /\ DbType
  BY WorkerFacts DEF MaintEnd, IInv, BusyHasCommand, Busy, TypeOK, DbType
<1>2. DbType'
  <2>1. CASE Change(Logged(cmd))
    BY <1>1, <2>1, LoggedType, ChangeType
  <2>2. CASE NoChange
    BY <1>1, <2>2 DEF NoChange, dbVars, DbType, AutocommitView
  <2>3. CASE PanicInTransaction(cmd)
    BY <1>1, <2>3, PanicType
  <2> QED
    BY <2>1, <2>2, <2>3 DEF MaintEnd
<1>3. Gated(cmd.kind)
  BY DEF MaintEnd, IInv, GateHeld
<1>4. o \in Results
  BY DEF Results
<1>5. /\ pc[Write] = "run2" /\ pc' = [pc EXCEPT ![Write] = "reply"]
      /\ out' = [out EXCEPT ![Write] = o] /\ gate' = gate
      /\ UNCHANGED <<queue, nextRead, cur, exp, saved, clientVars, shutVars, tainted>>
  BY DEF MaintEnd
<1> HIDE DEF o
<1> QED
  BY <1>2, <1>3, <1>4, <1>5, WriteBodyStep

\* A step of the snapshot worker before its reply changes only its own state
\* and what is published.
LEMMA SnapshotBodyStep ==
    ASSUME IInv, pc[Snapshot] \in {"run", "data", "verify"},
           SnapshotFail \/ ExportCatalog \/ ExportData \/ Publish
    PROVE  IInv'
<1>1. /\ UNCHANGED <<queue, nextRead, cur, gate, db, view, txn, reqs, st, acked, refused,
                     seen, got, main, mk, dropped, tainted>>
      /\ \E p \in {"data", "verify", "reply"} : pc' = [pc EXCEPT ![Snapshot] = p]
  BY DEF SnapshotFail, ExportCatalog, ExportData, Publish, dbVars, clientVars, shutVars
<1>2. /\ db.log \in Log
      /\ exp \in [cat : Log, data : Log]
  BY DEF IInv, TypeOK, Image
<1>3. out' \in [Workers -> Results] /\ exp' \in [cat : Log, data : Log]
      /\ saved' \subseteq [cat : Log, data : Log]
  BY <1>2 DEF SnapshotFail, ExportCatalog, ExportData, Publish, IInv, TypeOK, Results
<1>4. pc' \in [Workers -> {"recv", "gate", "run", "run2", "data", "verify", "reply", "stopped"}]
  BY <1>1 DEF IInv, TypeOK
<1>5. TypeOK'
  BY <1>1, <1>3, <1>4 DEF IInv, TypeOK
<1>6. BusyHasCommand'
  BY <1>1, WorkerFacts DEF IInv, BusyHasCommand, Busy, TypeOK
<1>7. GateHeld'
  BY <1>1, WorkerFacts DEF IInv, GateHeld, WritingUnderGate, TypeOK
<1>8. AutocommitView'
  BY <1>1 DEF IInv, AutocommitView
<1>9. ExportCurrent' /\ SnapshotConsistent'
  <2>1. CASE SnapshotFail
    BY <2>1, WorkerFacts DEF SnapshotFail, dbVars, IInv, TypeOK, ExportCurrent, SnapshotConsistent
  <2>2. CASE ExportCatalog
    BY <2>2, <1>2, WorkerFacts
       DEF ExportCatalog, dbVars, IInv, TypeOK, ExportCurrent, SnapshotConsistent
  <2>3. CASE ExportData
    BY <2>3, <1>2, WorkerFacts
       DEF ExportData, dbVars, IInv, TypeOK, ExportCurrent, SnapshotConsistent
  <2>4. CASE Publish
    BY <2>4, WorkerFacts DEF Publish, dbVars, IInv, TypeOK, ExportCurrent, SnapshotConsistent
  <2> QED
    BY <2>1, <2>2, <2>3, <2>4
<1> QED
  BY <1>5, <1>6, <1>7, <1>8, <1>9 DEF IInv

LEMMA ShutdownSendStep ==
    ASSUME IInv, ShutdownSend
    PROVE  IInv'
<1>1. mk \in Workers /\ mk' \in Workers
  BY EngineAssumption DEF ShutdownSend, IInv, TypeOK, Workers, Snapshot
<1>2. queue' \in [Workers -> Seq(Cmd \union {ShutdownCmd})]
      /\ \A v \in Workers : Len(queue'[v]) <= Capacity(v)
  <2>1. CASE UNCHANGED queue
    BY <2>1 DEF IInv, TypeOK
  <2>2. CASE HasRoom(mk) /\ queue' = [queue EXCEPT ![mk] = Append(@, ShutdownCmd)]
    <3>1. queue[mk] \in Seq(Cmd \union {ShutdownCmd})
      BY <1>1 DEF IInv, TypeOK
    <3>2. Append(queue[mk], ShutdownCmd) \in Seq(Cmd \union {ShutdownCmd})
          /\ Len(Append(queue[mk], ShutdownCmd)) = Len(queue[mk]) + 1
      BY <3>1, AppendProperties
    <3>3. Len(queue[mk]) < Capacity(mk) /\ Len(queue[mk]) \in Nat
      BY <2>2, <3>1 DEF HasRoom
    <3>4. Len(queue[mk]) + 1 <= Capacity(mk)
      BY <1>1, <3>3, CapacityPositive
    <3> QED
      BY <1>1, <2>2, <3>2, <3>4 DEF IInv, TypeOK
  <2> QED
    BY <2>1, <2>2 DEF ShutdownSend
<1>3. main' \in {"serve", "send", "join", "exit"} /\ dropped' \subseteq Workers
  BY <1>1 DEF ShutdownSend, IInv, TypeOK
<1>4. UNCHANGED <<nextRead, pc, cur, out, gate, db, view, txn, exp, saved, reqs, st, acked,
                  refused, seen, got, tainted>>
  BY DEF ShutdownSend, dbVars, clientVars
<1>5. TypeOK'
  BY <1>1, <1>2, <1>3, <1>4 DEF IInv, TypeOK
<1> QED
  BY <1>4, <1>5 DEF IInv, BusyHasCommand, AutocommitView, GateHeld, WritingUnderGate,
                    ExportCurrent, SnapshotConsistent

LEMMA ShutdownBeginJoinStep ==
    ASSUME IInv, ShutdownBegin \/ ShutdownJoin
    PROVE  IInv'
<1>1. mk' \in Workers
  BY EngineAssumption DEF ShutdownBegin, ShutdownJoin, IInv, TypeOK, Workers, Write
<1>2. main' \in {"serve", "send", "join", "exit"}
  BY DEF ShutdownBegin, ShutdownJoin, IInv, TypeOK
<1>3. UNCHANGED <<queue, nextRead, pc, cur, out, gate, db, view, txn, exp, saved, reqs, st,
                  acked, refused, seen, got, dropped, tainted>>
  BY DEF ShutdownBegin, ShutdownJoin, dbVars, clientVars
<1>4. TypeOK'
  BY <1>1, <1>2, <1>3 DEF IInv, TypeOK
<1> QED
  BY <1>3, <1>4 DEF IInv, BusyHasCommand, AutocommitView, GateHeld, WritingUnderGate,
                    ExportCurrent, SnapshotConsistent

LEMMA WriteReplyStep ==
    ASSUME IInv, WriteReply
    PROVE  IInv'
BY ReplyStep, WorkerFacts DEF WriteReply

LEMMA SnapshotReplyStep ==
    ASSUME IInv, SnapshotReply
    PROVE  IInv'
<1> DEFINE logs == IF out[Snapshot] = "ok" THEN {exp.data} ELSE {}
<1>1. logs \in SUBSET Log
  BY DEF IInv, TypeOK
<1>2. Reply(Snapshot) /\ Answered(cur[Snapshot], out[Snapshot], logs)
  BY DEF SnapshotReply
<1> HIDE DEF logs
<1> QED
  BY <1>1, <1>2, ReplyStep, WorkerFacts

LEMMA NextIInv ==
    ASSUME IInv, [Next]_vars
    PROVE  IInv'
<1>1. CASE \E c \in Client, kind \in Kinds : Submit(c, kind)
  BY <1>1, SubmitStep
<1>2. ASSUME NEW w \in Workers, WorkerStep(w)
      PROVE  IInv'
  <2>1. CASE Receive(w) \/ StopWorker(w) \/ LockGate(w)
    BY <2>1, ReceiveStep, StopWorkerStep, LockGateStep
  <2>2. CASE WriteStep
    BY <2>2, WriteRunStep, MaintEndStep, MaintBeginStep, WriteReplyStep DEF WriteStep
  <2>3. CASE w \in Readers /\ ReadStep(w)
    BY <2>3, ReadRunStep DEF ReadStep
  <2>4. CASE SnapshotStep
    <3>1. CASE SnapshotReply
      BY <3>1, SnapshotReplyStep
    <3>2. CASE SnapshotFail \/ ExportCatalog \/ ExportData \/ Publish
      <4>1. pc[Snapshot] \in {"run", "data", "verify"}
        BY <3>2 DEF SnapshotFail, ExportCatalog, ExportData, Publish
      <4> QED
        BY <3>2, <4>1, SnapshotBodyStep
    <3> QED
      BY <2>4, <3>1, <3>2 DEF SnapshotStep
  <2> QED
    BY <1>2, <2>1, <2>2, <2>3, <2>4 DEF WorkerStep
<1>3. CASE ShutdownBegin \/ ShutdownStep
  BY <1>3, ShutdownBeginJoinStep, ShutdownSendStep DEF ShutdownStep
<1>4. CASE UNCHANGED vars
  BY <1>4 DEF vars, dbVars, clientVars, shutVars, IInv, TypeOK, BusyHasCommand, AutocommitView,
              GateHeld, WritingUnderGate, ExportCurrent, SnapshotConsistent
<1> QED
  BY <1>1, <1>2, <1>3, <1>4 DEF Next

\* While an export runs the write worker is outside the body of a gated
\* command, and nothing else changes the committed log.
LEMMA FrozenStep ==
    ASSUME IInv, [Next]_vars, pc[Snapshot] \in {"data", "verify"}
    PROVE  db'.log = db.log
<1>1. ~WritingUnderGate
  BY WorkerFacts DEF IInv, GateHeld
<1>2. ASSUME NEW ok \in BOOLEAN, WriteRun(ok)
      PROVE  db'.log = db.log
  <2>1. ~Gated(cur[Write].kind)
    BY <1>1, <1>2 DEF WritingUnderGate, WriteRun
  <2>2. (cur[Write].kind = "auth" /\ Login(ok)) \/ NoChange
    BY <1>2, <2>1 DEF WriteRun, Gated, TypedWrites, VectorWrites
  <2>3. DbType
    BY DEF IInv, TypeOK, DbType
  <2> QED
    BY <2>2, <2>3, LoginType DEF NoChange, dbVars
<1>3. pc[Write] # "run2" /\ (MaintBegin => Gated(cur[Write].kind))
  BY <1>1 DEF IInv, GateHeld, WritingUnderGate, MaintBegin, Gated, VectorWrites
<1>4. ~MaintBegin /\ \A ok : ~MaintEnd(ok)
  BY <1>1, <1>3 DEF WritingUnderGate, MaintBegin, MaintEnd
<1>5. CASE \E c \in Client, kind \in Kinds : Submit(c, kind)
  BY <1>5 DEF Submit, dbVars
<1>6. ASSUME NEW w \in Workers, WorkerStep(w)
      PROVE  db'.log = db.log
  <2>1. CASE Receive(w) \/ StopWorker(w) \/ LockGate(w)
    BY <2>1 DEF Receive, StopWorker, LockGate, dbVars
  <2>2. CASE WriteStep
    BY <2>2, <1>2, <1>4 DEF WriteStep, WriteReply, Reply, dbVars
  <2>3. CASE w \in Readers /\ ReadStep(w)
    BY <2>3 DEF ReadStep, ReadRun, dbVars
  <2>4. CASE SnapshotStep
    BY <2>4 DEF SnapshotStep, SnapshotFail, ExportCatalog, ExportData, Publish, SnapshotReply,
                Reply, dbVars
  <2> QED
    BY <1>6, <2>1, <2>2, <2>3, <2>4 DEF WorkerStep
<1>7. CASE ShutdownBegin \/ ShutdownStep
  BY <1>7 DEF ShutdownBegin, ShutdownStep, ShutdownSend, ShutdownJoin, dbVars
<1>8. CASE UNCHANGED vars
  BY <1>8 DEF vars, dbVars
<1> QED
  BY <1>5, <1>6, <1>7, <1>8 DEF Next

-----------------------------------------------------------------------------
(***************************************************************************)
(* Theorems about the gate.                                                *)
(***************************************************************************)

\* IInv is an inductive invariant of the command engine.
THEOREM InductiveInvariant == Spec => []IInv
<1>1. Init => IInv
  BY InitIInv
<1>2. IInv /\ [Next]_vars => IInv'
  BY NextIInv
<1> QED
  BY <1>1, <1>2, PTL DEF Spec

\* Every variable has its type and no channel of worker.rs exceeds the
\* capacity sync_channel gave it, whatever the queue sizes.
THEOREM TypeCorrect == Spec => []TypeOK
<1>1. IInv => TypeOK
  BY DEF IInv
<1> QED
  BY <1>1, InductiveInvariant, PTL

\* snapshot_write_gate: the body of a gated command and an export never
\* overlap, for any number of clients, readers and requests, panics included.
THEOREM GateIsExclusive == Spec => []GateExclusive
<1>1. IInv => GateExclusive
  BY WorkerFacts DEF IInv, GateHeld, GateExclusive, Exporting
<1> QED
  BY <1>1, InductiveInvariant, PTL

\* No step of any worker commits a change of a managed object while an export
\* is running (save_snapshot_blocking under the gate).
THEOREM ExportsAreFrozen == Spec => ExportFrozen
<1>1. IInv /\ [Next]_vars =>
        [pc[Snapshot] \in {"data", "verify"} => db'.log = db.log]_vars
  BY FrozenStep
<1> QED
  BY <1>1, InductiveInvariant, PTL DEF Spec, ExportFrozen

\* A published snapshot is one state of the database: the catalog it exports
\* and the data it exports come from the same committed log.
THEOREM SnapshotsAreConsistent == Spec => []SnapshotConsistent
<1>1. IInv => SnapshotConsistent
  BY DEF IInv
<1> QED
  BY <1>1, InductiveInvariant, PTL

-----------------------------------------------------------------------------
(***************************************************************************)
(* What becomes of each command: where it waits, and how often the logs    *)
(* have it.                                                                *)
(***************************************************************************)

\* Place 0 of a worker is its hand, the others are those of its channel.
Holds(w, i, m) ==
    \/ i = 0 /\ pc[w] \in Busy /\ cur[w] = m
    \/ i \in DOMAIN queue[w] /\ queue[w][i] = m

\* A client that waits for an answer has one command, in one place.
OnePlace ==
    \A v, w \in Workers, i, j \in Nat, m, n \in Cmd :
        Holds(v, i, m) /\ Holds(w, j, n) /\ m.c = n.c => v = w /\ i = j

\* A command in a place is waited for and has no answer yet.
Unanswered ==
    \A w \in Workers, i \in Nat, m \in Cmd :
        Holds(w, i, m) =>
            /\ st[m.c] = "waiting" /\ m.n <= reqs
            /\ m \notin acked /\ m \notin refused

\* Only the write worker is sent what changes the database.
Routed ==
    \A w \in Workers, i \in Nat, m \in Cmd : Holds(w, i, m) /\ Changing(m.kind) => w = Write

\* The logs a client or a restart may see.
Logs == {db.log, view.log} \union {s.data : s \in saved}

\* The write worker has its command in hand and has begun it.
Begun(w, i) == w = Write /\ i = 0 /\ pc[Write] \in {"run2", "reply"}

\* Not issued, refused, or still to be begun.
Untouched(m) ==
    \/ m.n > reqs
    \/ m \in refused
    \/ \E w \in Workers, i \in Nat : Holds(w, i, m) /\ ~Begun(w, i)

UntouchedNowhere ==
    \A m \in Cmd : Untouched(m) => \A log \in Logs : Occurrences(log, m) = 0

NoneTwice ==
    \A m \in Cmd : \A log \in Logs :
        Occurrences(log, m) <= (IF m.kind = "maint" THEN 2 ELSE 1)

\* Both steps of a maintenance command, or neither.
Whole(m) == \A log \in Logs : Occurrences(log, m) \in {0, 2}

WholeMaint ==
    /\ \A m \in acked : m.kind = "maint" => Whole(m)
    /\ pc[Write] = "reply" /\ out[Write] = "ok" /\ cur[Write].kind = "maint" => Whole(cur[Write])

\* Between the two steps of a maintenance command.
HalfMaint ==
    pc[Write] = "run2" =>
        /\ cur[Write].kind = "maint"
        /\ Occurrences(view.log, cur[Write]) = 1
        /\ Occurrences(db.log, cur[Write]) = IF txn = "none" THEN 1 ELSE 0
        /\ \A s \in saved : Occurrences(s.data, cur[Write]) = 0

\* Until a command ends with a transaction open, only the one in hand may have one.
Autocommit == ~tainted /\ pc[Write] # "reply" => txn = "none"

OkApplied ==
    ~tainted /\ pc[Write] = "reply" /\ out[Write] = "ok" /\ Changing(cur[Write].kind)
        => InLog(db.log, cur[Write])

\* A client's last request was made after the acknowledgements it has seen, and
\* the snapshot about to be reported has them.
SeenAcked == \A c \in Client : seen[c] \subseteq acked

SavedSeen ==
    ~tainted /\ pc[Snapshot] = "reply" /\ out[Snapshot] = "ok"
        => \A m \in seen[cur[Snapshot].c] : InLog(exp.data, m)

Known == \A m \in acked \union refused : m.n <= reqs

PlacesInv == OnePlace /\ Unanswered /\ Routed /\ Known
LogsInv == UntouchedNowhere /\ NoneTwice /\ WholeMaint /\ HalfMaint
SeenInv == Autocommit /\ OkApplied /\ AckedApplied /\ SeenAcked /\ SavedSeen /\ ReadsSeeAcked

-----------------------------------------------------------------------------
(***************************************************************************)
(* How often a log has a command.                                          *)
(***************************************************************************)
LEMMA OccurrencesType ==
    ASSUME NEW log \in Log, NEW m
    PROVE  /\ Occurrences(log, m) \in Nat
           /\ Occurrences(log, m) = 0 <=> ~InLog(log, m)
<1> DEFINE S == {i \in DOMAIN log : log[i] = m}
<1>1. DOMAIN log = 1..Len(log) /\ Len(log) \in Nat
  BY DEF Log
<1>2. IsFiniteSet(DOMAIN log)
  BY <1>1, FS_Interval
<1>3. S \subseteq DOMAIN log
  OBVIOUS
<1>4. IsFiniteSet(S)
  BY <1>2, <1>3, FS_Subset
<1>5. Cardinality(S) \in Nat /\ (Cardinality(S) = 0 <=> S = {})
  BY <1>4, FS_CardinalityType, FS_EmptySet
<1>6. S = {} <=> ~InLog(log, m)
  BY DEF InLog
<1> QED
  BY <1>5, <1>6 DEF Occurrences

LEMMA OccurrencesAppend ==
    ASSUME NEW log \in Log, NEW x \in Cmd, NEW m
    PROVE  Occurrences(Append(log, x), m)
               = Occurrences(log, m) + (IF x = m THEN 1 ELSE 0)
<1> DEFINE new == Append(log, x)
           S == {i \in DOMAIN log : log[i] = m}
           T == {i \in DOMAIN new : new[i] = m}
           k == Len(log) + 1
<1>1. /\ DOMAIN log = 1..Len(log) /\ Len(log) \in Nat
      /\ DOMAIN new = 1..k
      /\ \A i \in 1..Len(log) : new[i] = log[i]
      /\ new[k] = x
  BY AppendProperties DEF Log
<1>2. IsFiniteSet(S)
  <2>1. IsFiniteSet(DOMAIN log)
    BY <1>1, FS_Interval
  <2> QED
    BY <2>1, FS_Subset
<1>3. k \notin S
  BY <1>1
<1>4. T = IF x = m THEN S \union {k} ELSE S
  <2>1. 1..k = (1..Len(log)) \union {k} /\ k \notin 1..Len(log)
    BY <1>1
  <2> QED
    BY <1>1, <2>1
<1>5. Cardinality(S \union {k}) = Cardinality(S) + 1 /\ Cardinality(S) \in Nat
  BY <1>2, <1>3, FS_AddElement, FS_CardinalityType
<1>6. Occurrences(new, m) = Cardinality(T) /\ Occurrences(log, m) = Cardinality(S)
  BY DEF Occurrences
<1> HIDE DEF S, T, k
<1>7. CASE x = m
  BY <1>4, <1>5, <1>6, <1>7
<1>8. CASE x # m
  BY <1>4, <1>5, <1>6, <1>8
<1> QED
  BY <1>7, <1>8

LEMMA EmptyLog == <<>> \in Log /\ \A m : Occurrences(<<>>, m) = 0
<1>1. <<>> \in Log
  BY DEF Log
<1>2. \A m : ~InLog(<<>>, m)
  BY DEF InLog
<1> QED
  BY <1>1, <1>2, OccurrencesType

LEMMA InLogAppend ==
    ASSUME NEW log \in Log, NEW x \in Cmd, NEW m
    PROVE  InLog(Append(log, x), m) <=> InLog(log, m) \/ m = x
<1>1. Append(log, x) \in Log
  BY AppendProperties DEF Log
<1>2. Occurrences(log, m) \in Nat /\ Occurrences(Append(log, x), m) \in Nat
  BY <1>1, OccurrencesType
<1> QED
  BY <1>1, <1>2, OccurrencesType, OccurrencesAppend

-----------------------------------------------------------------------------
(***************************************************************************)
(* Places, one lemma for each way a step moves commands.                   *)
(***************************************************************************)
\* What a step leaves in its place stays unanswered.
LEMMA PlacesKept ==
    ASSUME PlacesInv, reqs \in Nat, reqs' \in Nat, reqs' >= reqs,
           \A w \in Workers, i \in Nat, m \in Cmd :
               Holds(w, i, m)' => /\ Holds(w, i, m) /\ st'[m.c] = st[m.c]
                                  /\ m \notin acked' /\ m \notin refused',
           \A m \in acked' \union refused' : m.n <= reqs'
    PROVE  PlacesInv'
<1>1. OnePlace'
  BY DEF PlacesInv, OnePlace
<1>2. Routed'
  BY DEF PlacesInv, Routed
<1>3. Unanswered'
  <2> SUFFICES ASSUME NEW w \in Workers, NEW i \in Nat, NEW m \in Cmd, Holds(w, i, m)'
               PROVE  /\ st'[m.c] = "waiting" /\ m.n <= reqs'
                      /\ m \notin acked' /\ m \notin refused'
    BY DEF Unanswered
  <2>1. Holds(w, i, m) /\ m.n \in Nat
    BY DEF Cmd
  <2> QED
    BY <2>1 DEF PlacesInv, Unanswered
<1> QED
  BY <1>1, <1>2, <1>3 DEF PlacesInv, Known

\* The command a client sends has a number nobody had before.
LEMMA SubmitPlaces ==
    ASSUME IInv, PlacesInv, NEW c \in Client, NEW kind \in Kinds, Submit(c, kind)
    PROVE  /\ PlacesInv'
           /\ \A m \in Cmd : Untouched(m)' => Untouched(m)
<1> DEFINE w == Target(kind)
           cmd == [c |-> c, n |-> reqs + 1, kind |-> kind]
           last == Len(queue[w]) + 1
<1>1. cmd \in Cmd /\ reqs \in Nat /\ reqs' = reqs + 1
  BY EngineAssumption DEF Cmd, IInv, TypeOK, Submit
<1>2. w \in Workers /\ (Changing(kind) => w = Write)
  BY EngineAssumption DEF Target, Changing, Workers, Write, Snapshot, IInv, TypeOK
<1>3. queue[w] \in Seq(Cmd \union {ShutdownCmd}) /\ last \in Nat
  BY <1>2 DEF IInv, TypeOK
<1>4. UNCHANGED <<pc, cur, acked>> /\ st[c] = "idle"
  BY DEF Submit
<1>5. ASSUME NEW v \in Workers, NEW i \in Nat, NEW m \in Cmd, Holds(v, i, m)'
      PROVE  \/ Holds(v, i, m)
             \/ v = w /\ i = last /\ m = cmd /\ st' = [st EXCEPT ![c] = "waiting"]
                /\ UNCHANGED refused
  <2>1. CASE UNCHANGED queue
    BY <1>4, <1>5, <2>1 DEF Holds
  <2>2. CASE queue' = [queue EXCEPT ![w] = Append(@, cmd)]
             /\ st' = [st EXCEPT ![c] = "waiting"] /\ UNCHANGED refused
    <3>1. CASE v # w
      <4>1. queue'[v] = queue[v]
        BY <2>2, <3>1 DEF IInv, TypeOK
      <4> QED
        BY <1>4, <1>5, <4>1 DEF Holds
    <3>2. CASE v = w
      <4>1. queue'[w] = Append(queue[w], cmd)
        BY <1>2, <2>2 DEF IInv, TypeOK
      <4>2. /\ DOMAIN queue'[w] = 1..last /\ queue'[w][last] = cmd
            /\ \A j \in 1..Len(queue[w]) : queue'[w][j] = queue[w][j]
            /\ DOMAIN queue[w] = 1..Len(queue[w]) /\ Len(queue[w]) \in Nat
        BY <1>1, <1>3, <4>1, AppendProperties
      <4> QED
        BY <1>4, <1>5, <2>2, <3>2, <4>2 DEF Holds
    <3> QED
      BY <3>1, <3>2
  <2> QED
    BY <2>1, <2>2 DEF Submit
<1>6. ASSUME NEW v \in Workers, NEW i \in Nat, NEW m \in Cmd, Holds(v, i, m)
      PROVE  /\ m.c # c /\ m.n <= reqs /\ m # cmd /\ st'[m.c] = "waiting"
             /\ m \notin acked' /\ m \notin refused'
  <2>1. st[m.c] = "waiting" /\ m.n <= reqs /\ m \notin acked /\ m \notin refused
    BY <1>6 DEF PlacesInv, Unanswered
  <2>2. m.c # c /\ m.c \in Client /\ m.n \in Nat
    BY <1>4, <2>1 DEF Cmd
  <2>3. m # cmd
    BY <2>2
  <2>4. st'[m.c] = st[m.c]
    BY <2>2 DEF Submit, IInv, TypeOK
  <2>5. refused' \subseteq refused \union {cmd}
    BY DEF Submit
  <2> QED
    BY <1>4, <2>1, <2>2, <2>3, <2>4, <2>5
<1>7. \A m \in acked' \union refused' : m = cmd \/ m.n <= reqs
  BY <1>4 DEF PlacesInv, Known, Submit
<1>8. OnePlace'
  <2> SUFFICES ASSUME NEW v \in Workers, NEW u \in Workers, NEW i \in Nat, NEW j \in Nat,
                      NEW m \in Cmd, NEW n \in Cmd,
                      Holds(v, i, m)', Holds(u, j, n)', m.c = n.c
               PROVE  v = u /\ i = j
    BY DEF OnePlace
  <2>1. cmd.c = c
    OBVIOUS
  <2> QED
    BY <1>5, <1>6, <2>1 DEF PlacesInv, OnePlace
<1>9. Unanswered'
  <2> SUFFICES ASSUME NEW v \in Workers, NEW i \in Nat, NEW m \in Cmd, Holds(v, i, m)'
               PROVE  /\ st'[m.c] = "waiting" /\ m.n <= reqs'
                      /\ m \notin acked' /\ m \notin refused'
    BY DEF Unanswered
  <2>1. CASE Holds(v, i, m)
    <3>1. m.n \in Nat /\ m.n <= reqs
      BY <1>6, <2>1 DEF Cmd
    <3> QED
      BY <1>1, <1>6, <2>1, <3>1
  <2>2. CASE m = cmd /\ st' = [st EXCEPT ![c] = "waiting"] /\ UNCHANGED refused
    <3>1. cmd.n = reqs + 1 /\ cmd.c = c
      OBVIOUS
    <3>2. cmd \notin acked /\ cmd \notin refused
      BY <1>1, <3>1 DEF PlacesInv, Known
    <3>3. st'[c] = "waiting"
      BY <2>2 DEF IInv, TypeOK
    <3> QED
      BY <1>1, <1>4, <2>2, <3>1, <3>2, <3>3
  <2> QED
    BY <1>5, <2>1, <2>2
<1>10. Routed'
  BY <1>2, <1>5 DEF PlacesInv, Routed
<1>11. Known'
  <2>1. \A m \in acked' \union refused' : m \in Cmd
    BY SubmitStep DEF IInv, TypeOK
  <2>2. \A m \in acked' \union refused' : m.n \in Nat
    BY <2>1 DEF Cmd
  <2>3. cmd.n = reqs + 1
    OBVIOUS
  <2> HIDE DEF cmd
  <2> QED
    BY <1>1, <1>7, <2>2, <2>3 DEF Known
<1>12. \A m \in Cmd : Untouched(m)' => Untouched(m)
  <2> SUFFICES ASSUME NEW m \in Cmd, Untouched(m)' PROVE Untouched(m)
    OBVIOUS
  <2>1. m.n \in Nat /\ cmd.n = reqs + 1
    BY DEF Cmd
  <2>2. CASE m = cmd
    BY <1>1, <2>1, <2>2 DEF Untouched
  <2>3. CASE m # cmd
    <3>1. CASE m.n > reqs'
      BY <1>1, <2>1, <3>1 DEF Untouched
    <3>2. CASE m \in refused'
      BY <2>3, <3>2 DEF Untouched, Submit
    <3>3. ASSUME NEW v \in Workers, NEW i \in Nat, Holds(v, i, m)', ~Begun(v, i)'
          PROVE  Untouched(m)
      BY <1>4, <1>5, <2>3, <3>3 DEF Untouched, Begun
    <3> QED
      BY <3>1, <3>2, <3>3 DEF Untouched
  <2> QED
    BY <2>2, <2>3
<1> QED
  BY <1>8, <1>9, <1>10, <1>11, <1>12 DEF PlacesInv

\* A command received moves from the head of the channel to the hand.
LEMMA ReceivePlaces ==
    ASSUME IInv, PlacesInv, NEW w \in Workers, Receive(w)
    PROVE  /\ PlacesInv'
           /\ \A m \in Cmd : Untouched(m)' => Untouched(m)
<1>1. /\ pc[w] = "recv" /\ queue[w] # <<>>
      /\ queue' = [queue EXCEPT ![w] = Tail(@)]
      /\ cur' = [cur EXCEPT ![w] = Head(queue[w])]
      /\ \E p \in {"gate", "run"} : pc' = [pc EXCEPT ![w] = p]
      /\ UNCHANGED <<reqs, st, acked, refused>>
  BY DEF Receive, clientVars
<1>2. queue[w] \in Seq(Cmd \union {ShutdownCmd})
  BY DEF IInv, TypeOK
<1>3. ASSUME NEW v \in Workers, NEW i \in Nat, NEW m \in Cmd, Holds(v, i, m)'
      PROVE  \/ v = w /\ Holds(v, i + 1, m)
             \/ v # w /\ Holds(v, i, m) /\ (Begun(v, i) => Begun(v, i)')
  <2>1. CASE v # w
    <3>1. queue'[v] = queue[v] /\ pc'[v] = pc[v] /\ cur'[v] = cur[v]
      BY <1>1, <2>1 DEF IInv, TypeOK
    <3> QED
      BY <1>3, <2>1, <3>1 DEF Holds, Begun
  <2>2. CASE v = w
    <3>1. /\ queue'[w] = Tail(queue[w]) /\ cur'[w] = Head(queue[w])
      BY <1>1 DEF IInv, TypeOK
    <3>2. /\ DOMAIN queue[w] = 1..Len(queue[w]) /\ Len(queue[w]) \in Nat /\ Len(queue[w]) >= 1
          /\ Head(queue[w]) = queue[w][1]
          /\ DOMAIN Tail(queue[w]) = 1..Len(queue[w]) - 1
          /\ \A j \in 1..Len(queue[w]) - 1 : Tail(queue[w])[j] = queue[w][j + 1]
      BY <1>1, <1>2, HeadTailProperties
    <3>3. CASE i = 0 /\ cur'[w] = m
      BY <2>2, <3>1, <3>2, <3>3 DEF Holds
    <3>4. CASE i \in DOMAIN queue'[w] /\ queue'[w][i] = m
      BY <2>2, <3>1, <3>2, <3>4 DEF Holds
    <3> QED
      BY <1>3, <2>2, <3>3, <3>4 DEF Holds
  <2> QED
    BY <2>1, <2>2
<1>4. OnePlace'
  <2> SUFFICES ASSUME NEW v \in Workers, NEW u \in Workers, NEW i \in Nat, NEW j \in Nat,
                      NEW m \in Cmd, NEW n \in Cmd,
                      Holds(v, i, m)', Holds(u, j, n)', m.c = n.c
               PROVE  v = u /\ i = j
    BY DEF OnePlace
  <2>1. i + 1 \in Nat /\ j + 1 \in Nat
    OBVIOUS
  <2>2. \A k, l \in Nat : Holds(v, k, m) /\ Holds(u, l, n) => v = u /\ k = l
    BY DEF PlacesInv, OnePlace
  <2> QED
    BY <1>3, <2>1, <2>2
<1>5. ASSUME NEW v \in Workers, NEW i \in Nat, NEW m \in Cmd, Holds(v, i, m)'
      PROVE  \E j \in Nat : Holds(v, j, m) /\ (~Begun(v, i)' => ~Begun(v, j))
  <2>1. i + 1 \in Nat /\ i + 1 # 0
    OBVIOUS
  <2> QED
    BY <1>3, <1>5, <2>1 DEF Begun
<1>6. Unanswered' /\ Routed'
  BY <1>1, <1>5 DEF PlacesInv, Unanswered, Routed
<1>7. Known'
  BY <1>1 DEF PlacesInv, Known
<1>8. \A m \in Cmd : Untouched(m)' => Untouched(m)
  BY <1>1, <1>5 DEF Untouched
<1> QED
  BY <1>4, <1>6, <1>7, <1>8 DEF PlacesInv

\* The requests abandoned in a channel are refused, the others stay.
LEMMA StopWorkerPlaces ==
    ASSUME IInv, PlacesInv, NEW w \in Workers, StopWorker(w)
    PROVE  /\ PlacesInv'
           /\ \A m \in Cmd : Untouched(m)' => Untouched(m)
<1>1. /\ pc[w] = "recv" /\ pc' = [pc EXCEPT ![w] = "stopped"]
      /\ queue' = [queue EXCEPT ![w] = <<>>]
      /\ st' = [c \in Client |-> IF \E m \in Abandoned(w) : m.c = c THEN "idle" ELSE st[c]]
      /\ refused' = refused \union Abandoned(w)
      /\ UNCHANGED <<cur, reqs, acked>>
  BY DEF StopWorker
<1>2. queue[w] \in Seq(Cmd \union {ShutdownCmd}) /\ reqs \in Nat
  BY DEF IInv, TypeOK
<1>3. \A m \in Abandoned(w) : m \in Cmd /\ \E j \in Nat : j # 0 /\ Holds(w, j, m)
  <2>1. \A j \in 2..Len(queue[w]) : j \in DOMAIN queue[w] /\ j \in Nat /\ j # 0
                                    /\ queue[w][j] \in Cmd \union {ShutdownCmd}
    BY <1>2
  <2> QED
    BY <2>1 DEF Abandoned, Holds
<1>4. ASSUME NEW v \in Workers, NEW i \in Nat, NEW m \in Cmd, Holds(v, i, m)'
      PROVE  /\ v # w /\ Holds(v, i, m) /\ (Begun(v, i) => Begun(v, i)')
             /\ st'[m.c] = st[m.c] /\ m \notin acked' /\ m \notin refused'
  <2>1. v # w
    BY <1>1, <1>4 DEF Holds, IInv, TypeOK, Busy
  <2>2. Holds(v, i, m) /\ (Begun(v, i) => Begun(v, i)')
    BY <1>1, <1>4, <2>1 DEF Holds, Begun, IInv, TypeOK
  <2>3. \A n \in Abandoned(w) : n.c # m.c
    BY <1>3, <2>1, <2>2 DEF PlacesInv, OnePlace
  <2>4. m.c \in Client /\ m \notin acked /\ m \notin refused
    BY <2>2 DEF Cmd, PlacesInv, Unanswered
  <2> QED
    BY <1>1, <2>1, <2>2, <2>3, <2>4
<1>5. \A m \in acked' \union refused' : m.n <= reqs'
  BY <1>1, <1>3 DEF PlacesInv, Known, Unanswered
<1>6. PlacesInv'
  BY <1>1, <1>2, <1>4, <1>5, PlacesKept
<1>7. \A m \in Cmd : Untouched(m)' => Untouched(m)
  <2> SUFFICES ASSUME NEW m \in Cmd, Untouched(m)' PROVE Untouched(m)
    OBVIOUS
  <2>1. CASE m \in Abandoned(w)
    BY <1>3, <2>1 DEF Untouched, Begun
  <2>2. CASE m \notin Abandoned(w)
    BY <1>1, <1>4, <2>2 DEF Untouched
  <2> QED
    BY <2>1, <2>2
<1> QED
  BY <1>6, <1>7

\* The answer to the command in a worker's hand.
LEMMA AnswerPlaces ==
    ASSUME IInv, PlacesInv, NEW w \in Workers, NEW r, NEW logs,
           pc[w] \in Busy, pc' = [pc EXCEPT ![w] = "recv"],
           Answered(cur[w], r, logs), UNCHANGED <<queue, cur>>
    PROVE  /\ PlacesInv'
           /\ \A m \in Cmd : Untouched(m)' => Untouched(m)
<1>1. /\ cur[w] \in Cmd /\ Holds(w, 0, cur[w])
      /\ st' = [st EXCEPT ![cur[w].c] = "idle"]
      /\ acked' \subseteq acked \union {cur[w]}
      /\ UNCHANGED <<reqs, refused>> /\ reqs \in Nat
  BY DEF Answered, IInv, BusyHasCommand, Holds, TypeOK
<1>2. ASSUME NEW v \in Workers, NEW i \in Nat, NEW m \in Cmd, Holds(v, i, m)'
      PROVE  /\ Holds(v, i, m) /\ (Begun(v, i) => Begun(v, i)')
             /\ st'[m.c] = st[m.c] /\ m \notin acked' /\ m \notin refused'
  <2>1. Holds(v, i, m) /\ (v # w \/ i # 0)
    BY <1>2 DEF Holds, IInv, TypeOK, Busy
  <2>2. Begun(v, i) => Begun(v, i)'
    BY <2>1 DEF Begun, IInv, TypeOK
  <2>3. m.c # cur[w].c
    BY <1>1, <2>1 DEF PlacesInv, OnePlace
  <2>4. m \notin acked /\ m \notin refused /\ m.c \in Client
    BY <2>1 DEF PlacesInv, Unanswered, Cmd
  <2>5. st'[m.c] = st[m.c]
    BY <1>1, <2>3, <2>4 DEF IInv, TypeOK
  <2>6. m # cur[w]
    BY <2>3
  <2> QED
    BY <1>1, <2>1, <2>2, <2>4, <2>5, <2>6
<1>3. \A m \in acked' \union refused' : m.n <= reqs'
  BY <1>1 DEF PlacesInv, Known, Unanswered
<1>4. PlacesInv'
  BY <1>1, <1>2, <1>3, PlacesKept
<1>5. \A m \in Cmd : Untouched(m)' => Untouched(m)
  BY <1>1, <1>2 DEF Untouched
<1> QED
  BY <1>4, <1>5

\* A step that takes no command anywhere, but may go on with one in hand, and may
\* add Shutdown to a channel.
LEMMA StillPlaces ==
    ASSUME IInv, PlacesInv, UNCHANGED <<cur, st, reqs, acked, refused>>,
           \A v \in Workers : pc'[v] \in Busy => pc[v] \in Busy,
           pc[Write] \in {"run2", "reply"} => pc'[Write] \in {"run2", "reply"},
           \A v \in Workers : queue'[v] \in {queue[v], Append(queue[v], ShutdownCmd)}
    PROVE  /\ PlacesInv'
           /\ \A m \in Cmd : Untouched(m)' => Untouched(m)
           /\ \A v \in Workers, i \in Nat, m \in Cmd : Holds(v, i, m)' => Holds(v, i, m)
<1>1. reqs \in Nat /\ reqs' = reqs
  BY DEF IInv, TypeOK
<1>2. ASSUME NEW v \in Workers, NEW i \in Nat, NEW m \in Cmd, Holds(v, i, m)'
      PROVE  /\ Holds(v, i, m) /\ (Begun(v, i) => Begun(v, i)')
             /\ st'[m.c] = st[m.c] /\ m \notin acked' /\ m \notin refused'
  <2>1. Holds(v, i, m)
    <3>1. CASE queue'[v] = queue[v]
      BY <1>2, <3>1 DEF Holds
    <3>2. CASE queue'[v] = Append(queue[v], ShutdownCmd)
      <4>1. queue[v] \in Seq(Cmd \union {ShutdownCmd})
        BY DEF IInv, TypeOK
      <4>2. /\ DOMAIN queue'[v] = 1..Len(queue[v]) + 1
            /\ queue'[v][Len(queue[v]) + 1] = ShutdownCmd
            /\ \A j \in 1..Len(queue[v]) : queue'[v][j] = queue[v][j]
            /\ DOMAIN queue[v] = 1..Len(queue[v]) /\ Len(queue[v]) \in Nat
        BY <3>2, <4>1, AppendProperties
      <4> QED
        BY <1>2, <4>2, ShutdownIsNoCommand DEF Holds
    <3> QED
      BY <3>1, <3>2
  <2>2. Begun(v, i) => Begun(v, i)'
    BY DEF Begun
  <2>3. m \notin acked /\ m \notin refused
    BY <2>1 DEF PlacesInv, Unanswered
  <2> QED
    BY <2>1, <2>2, <2>3
<1>3. \A m \in acked' \union refused' : m.n <= reqs'
  BY DEF PlacesInv, Known
<1>4. PlacesInv'
  BY <1>1, <1>2, <1>3, PlacesKept
<1>5. \A m \in Cmd : Untouched(m)' => Untouched(m)
  BY <1>2 DEF Untouched
<1> QED
  BY <1>2, <1>4, <1>5

-----------------------------------------------------------------------------
(***************************************************************************)
(* Logs.                                                                   *)
(***************************************************************************)
\* A step that changes no image keeps what the logs have; it may publish the
\* committed log, and acknowledge what the write worker has answered.
LEMMA LogsKept ==
    ASSUME LogsInv, UNCHANGED <<db, view, txn>>,
           \A s \in saved' : s \in saved \/ (s.data = db.log /\ pc[Write] # "run2"),
           \A m \in Cmd : Untouched(m)' => Untouched(m),
           \A m \in acked' :
               m \in acked \/ (m.kind = "maint" => /\ m = cur[Write]
                                                   /\ pc[Write] = "reply" /\ out[Write] = "ok"),
           pc'[Write] \in {"run2", "reply"} =>
               /\ pc'[Write] = pc[Write] /\ cur'[Write] = cur[Write]
               /\ out'[Write] = out[Write]
    PROVE  LogsInv'
<1>1. \A log \in Logs' : log \in Logs
  BY DEF Logs
<1>2. UntouchedNowhere'
  BY <1>1 DEF LogsInv, UntouchedNowhere
<1>3. NoneTwice'
  BY <1>1 DEF LogsInv, NoneTwice
<1>4. \A m : Whole(m) => Whole(m)'
  BY <1>1 DEF Whole
<1>5. WholeMaint'
  BY <1>4 DEF LogsInv, WholeMaint
<1>6. HalfMaint'
  BY DEF LogsInv, HalfMaint
<1> QED
  BY <1>2, <1>3, <1>5, <1>6 DEF LogsInv

\* What a command body makes of the two logs.
Written(cmd) ==
    {db'.log, view'.log} \subseteq {db.log, view.log, Append(view.log, cmd)}

LEMMA ChangeWritten ==
    ASSUME DbType, NEW cmd \in Cmd, Change(Logged(cmd))
    PROVE  /\ Written(cmd) /\ UNCHANGED txn
           /\ view'.log = Append(view.log, cmd)
           /\ db'.log = IF txn = "none" THEN Append(view.log, cmd) ELSE db.log
<1>1. Logged(cmd).log = Append(view.log, cmd)
  BY DEF Logged, DbType, Image
<1> QED
  BY <1>1 DEF Change, Written

LEMMA FailsWritten ==
    ASSUME NEW cmd, Fails \/ NoChange
    PROVE  Written(cmd) /\ UNCHANGED <<db, view>>
BY DEF Fails, NoChange, dbVars, Written

LEMMA PanicWritten ==
    ASSUME DbType, NEW cmd \in Cmd, PanicInTransaction(cmd)
    PROVE  Written(cmd)
<1>1. Logged(cmd).log = Append(view.log, cmd)
  BY DEF Logged, DbType, Image
<1> QED
  BY <1>1 DEF PanicInTransaction, Written

LEMMA TxStatementWritten ==
    ASSUME NEW cmd, NEW ok, TxStatement(cmd, ok)
    PROVE  Written(cmd)
<1>1. CASE ~ok /\ Fails
  BY <1>1, FailsWritten
<1>2. CASE ~(~ok /\ Fails)
  BY <1>2 DEF TxStatement, Written
<1> QED
  BY <1>1, <1>2

LEMMA LoginWritten ==
    ASSUME DbType, NEW cmd, NEW ok, Login(ok)
    PROVE  Written(cmd)
<1>1. CASE ~ok /\ Fails
  BY <1>1, FailsWritten
<1>2. CASE ok /\ Change([view EXCEPT !.logins = @ + 1])
  <2>1. [view EXCEPT !.logins = @ + 1].log = view.log
    BY DEF DbType, Image
  <2> QED
    BY <1>2, <2>1 DEF Change, Written
<1> QED
  BY <1>1, <1>2 DEF Login

LEMMA WriteRunWritten ==
    ASSUME DbType, NEW ok \in BOOLEAN, WriteRun(ok), cur[Write] \in Cmd
    PROVE  Written(cur[Write])
<1> DEFINE cmd == cur[Write]
<1>1. CASE PlainStatement(cmd, ok)
  BY <1>1, ChangeWritten, FailsWritten DEF PlainStatement
<1>2. CASE CatalogTx(cmd, ok)
  BY <1>2, ChangeWritten, FailsWritten, PanicWritten DEF CatalogTx
<1>3. CASE TxStatement(cmd, ok)
  BY <1>3, TxStatementWritten
<1>4. CASE Login(ok)
  BY <1>4, LoginWritten
<1>5. CASE Fails \/ NoChange
  BY <1>5, FailsWritten
<1> QED
  BY <1>1, <1>2, <1>3, <1>4, <1>5 DEF WriteRun

LEMMA MaintEndWritten ==
    ASSUME DbType, NEW ok \in BOOLEAN, MaintEnd(ok), cur[Write] \in Cmd
    PROVE  Written(cur[Write])
BY ChangeWritten, FailsWritten, PanicWritten DEF MaintEnd

\* What the command in the hand of the write worker has written before a step of
\* its body, and what no other command gets from that step.
LEMMA WriteBodyLogs ==
    ASSUME IInv, PlacesInv, LogsInv,
           pc[Write] \in {"run", "run2"}, pc'[Write] \in {"run2", "reply"},
           Written(cur[Write]), UNCHANGED <<queue, cur, saved, reqs, acked, refused>>,
           \A v \in Workers : v # Write => pc'[v] = pc[v]
    PROVE  /\ UntouchedNowhere' /\ NoneTwice'
           /\ \A m \in acked' : m.kind = "maint" => Whole(m)'
           /\ cur[Write] \in Cmd /\ view.log \in Log /\ db.log \in Log
           /\ pc[Write] = "run" =>
                /\ \A log \in Logs : Occurrences(log, cur[Write]) = 0
                /\ Occurrences(Append(view.log, cur[Write]), cur[Write]) = 1
           /\ pc[Write] = "run2" =>
                Occurrences(Append(view.log, cur[Write]), cur[Write]) = 2
<1> DEFINE cmd == cur[Write]
           new == Append(view.log, cmd)
<1>1. /\ cmd \in Cmd /\ view.log \in Log /\ db.log \in Log
      /\ Holds(Write, 0, cmd) /\ Write \in Workers
  BY WorkerFacts DEF IInv, BusyHasCommand, Busy, TypeOK, Image, Holds
<1>2. cmd.n <= reqs /\ cmd \notin acked /\ cmd \notin refused /\ cmd.n \in Nat /\ reqs \in Nat
  BY <1>1 DEF PlacesInv, Unanswered, Cmd, IInv, TypeOK
<1>3. view.log \in Logs /\ \A log \in Logs' : log \in Logs \/ log = new
  BY DEF Logs, Written
<1>4. \A m : Occurrences(new, m) = Occurrences(view.log, m) + (IF cmd = m THEN 1 ELSE 0)
  BY <1>1, OccurrencesAppend
<1>5. \A m : Occurrences(view.log, m) \in Nat
  BY <1>1, OccurrencesType
<1>6. pc[Write] = "run" => \A log \in Logs : Occurrences(log, cmd) = 0
  BY <1>1 DEF LogsInv, UntouchedNowhere, Untouched, Begun
<1>7. pc[Write] = "run2" => Occurrences(view.log, cmd) = 1 /\ cmd.kind = "maint"
  BY DEF LogsInv, HalfMaint
<1>8. ASSUME NEW m \in Cmd, Untouched(m)'
      PROVE  Untouched(m) /\ m # cmd
  <2>1. CASE m.n > reqs \/ m \in refused
    BY <1>2, <2>1 DEF Untouched
  <2>2. ASSUME NEW w \in Workers, NEW i \in Nat, Holds(w, i, m)', ~Begun(w, i)'
        PROVE  Untouched(m) /\ m # cmd
    <3>1. w # Write \/ i # 0
      BY <2>2 DEF Begun
    <3>2. Holds(w, i, m) /\ ~Begun(w, i)
      BY <2>2, <3>1 DEF Holds, Begun
    <3> QED
      BY <1>1, <3>1, <3>2 DEF Untouched, PlacesInv, OnePlace
  <2> QED
    BY <1>8, <2>1, <2>2 DEF Untouched
<1>9. \A m \in Cmd : m # cmd => Occurrences(new, m) = Occurrences(view.log, m)
  BY <1>4, <1>5
<1>10. UntouchedNowhere'
  <2> SUFFICES ASSUME NEW m \in Cmd, Untouched(m)', NEW log \in Logs'
               PROVE  Occurrences(log, m) = 0
    BY DEF UntouchedNowhere
  <2>1. m # cmd /\ \A l \in Logs : Occurrences(l, m) = 0
    BY <1>8 DEF LogsInv, UntouchedNowhere
  <2> QED
    BY <1>3, <1>9, <2>1
<1>11. Occurrences(new, cmd) <= (IF cmd.kind = "maint" THEN 2 ELSE 1)
  BY <1>3, <1>4, <1>6, <1>7
<1>12. NoneTwice'
  BY <1>3, <1>9, <1>11 DEF LogsInv, NoneTwice
<1>13. ASSUME NEW m \in acked', m.kind = "maint"
       PROVE  Whole(m)'
  <2>1. m \in acked /\ m \in Cmd /\ m # cmd
    BY <1>2 DEF IInv, TypeOK
  <2>2. Whole(m)
    BY <1>13, <2>1 DEF LogsInv, WholeMaint
  <2> QED
    BY <1>3, <1>9, <2>1, <2>2 DEF Whole
<1> QED
  BY <1>1, <1>3, <1>4, <1>6, <1>7, <1>10, <1>12, <1>13

LEMMA WriteRunLogs ==
    ASSUME IInv, PlacesInv, LogsInv, NEW ok \in BOOLEAN, WriteRun(ok)
    PROVE  LogsInv'
<1>1. /\ pc[Write] = "run" /\ pc' = [pc EXCEPT ![Write] = "reply"]
      /\ UNCHANGED <<queue, cur, saved, reqs, acked, refused>>
      /\ out' = [out EXCEPT ![Write] = IF ok THEN "ok" ELSE "error"]
      /\ ok => cur[Write].kind # "maint"
  BY DEF WriteRun, clientVars
<1>2. pc'[Write] = "reply" /\ \A v \in Workers : v # Write => pc'[v] = pc[v]
  BY <1>1, WorkerFacts DEF IInv, TypeOK
<1>3. Written(cur[Write])
  BY <1>1, WriteRunWritten, WorkerFacts DEF IInv, BusyHasCommand, Busy, TypeOK, DbType
<1>4. UntouchedNowhere' /\ NoneTwice' /\ \A m \in acked' : m.kind = "maint" => Whole(m)'
  BY <1>1, <1>2, <1>3, WriteBodyLogs
<1>5. out'[Write] = "ok" => cur'[Write].kind # "maint"
  BY <1>1, WorkerFacts DEF IInv, TypeOK
<1> QED
  BY <1>2, <1>4, <1>5 DEF LogsInv, WholeMaint, HalfMaint

LEMMA MaintBeginLogs ==
    ASSUME IInv, PlacesInv, LogsInv, MaintBegin
    PROVE  LogsInv'
<1>1. /\ pc[Write] = "run" /\ pc' = [pc EXCEPT ![Write] = "run2"]
      /\ UNCHANGED <<queue, cur, saved, reqs, acked, refused>>
      /\ cur[Write].kind = "maint" /\ Change(Logged(cur[Write]))
  BY DEF MaintBegin, clientVars
<1>2. pc'[Write] = "run2" /\ \A v \in Workers : v # Write => pc'[v] = pc[v]
  BY <1>1, WorkerFacts DEF IInv, TypeOK
<1>3. /\ Written(cur[Write]) /\ UNCHANGED txn
      /\ view'.log = Append(view.log, cur[Write])
      /\ db'.log = IF txn = "none" THEN Append(view.log, cur[Write]) ELSE db.log
  BY <1>1, ChangeWritten, WorkerFacts DEF IInv, BusyHasCommand, Busy, TypeOK, DbType
<1>4. /\ UntouchedNowhere' /\ NoneTwice' /\ \A m \in acked' : m.kind = "maint" => Whole(m)'
      /\ \A log \in Logs : Occurrences(log, cur[Write]) = 0
      /\ Occurrences(Append(view.log, cur[Write]), cur[Write]) = 1
  BY <1>1, <1>2, <1>3, WriteBodyLogs
<1>5. HalfMaint'
  BY <1>1, <1>3, <1>4 DEF HalfMaint, Logs
<1> QED
  BY <1>2, <1>4, <1>5 DEF LogsInv, WholeMaint

LEMMA MaintEndLogs ==
    ASSUME IInv, PlacesInv, LogsInv, NEW ok \in BOOLEAN, MaintEnd(ok)
    PROVE  LogsInv'
<1>1. /\ pc[Write] = "run2" /\ pc' = [pc EXCEPT ![Write] = "reply"]
      /\ UNCHANGED <<queue, cur, saved, reqs, acked, refused>>
      /\ out' = [out EXCEPT ![Write] = IF ok THEN "ok" ELSE "error"]
      /\ ok => Change(Logged(cur[Write]))
  BY DEF MaintEnd, clientVars
<1>2. pc'[Write] = "reply" /\ \A v \in Workers : v # Write => pc'[v] = pc[v]
  BY <1>1, WorkerFacts DEF IInv, TypeOK
<1>3. cur[Write] \in Cmd /\ DbType
  BY <1>1, WorkerFacts DEF IInv, BusyHasCommand, Busy, TypeOK, DbType
<1>4. Written(cur[Write])
  BY <1>3, MaintEndWritten
<1>5. /\ UntouchedNowhere' /\ NoneTwice' /\ \A m \in acked' : m.kind = "maint" => Whole(m)'
      /\ Occurrences(Append(view.log, cur[Write]), cur[Write]) = 2
  BY <1>1, <1>2, <1>4, WriteBodyLogs
<1>6. ok => Whole(cur[Write])'
  <2> SUFFICES ASSUME ok PROVE Whole(cur[Write])'
    OBVIOUS
  <2>1. /\ view'.log = Append(view.log, cur[Write])
        /\ db'.log = IF txn = "none" THEN Append(view.log, cur[Write]) ELSE db.log
    BY <1>1, <1>3, ChangeWritten
  <2>2. /\ \A s \in saved : Occurrences(s.data, cur[Write]) = 0
        /\ txn # "none" => Occurrences(db.log, cur[Write]) = 0
    BY <1>1 DEF LogsInv, HalfMaint
  <2> QED
    BY <1>1, <1>5, <2>1, <2>2 DEF Whole, Logs
<1>7. out'[Write] = "ok" => Whole(cur[Write])'
  BY <1>1, <1>6, WorkerFacts DEF IInv, TypeOK
<1> QED
  BY <1>1, <1>2, <1>5, <1>7 DEF LogsInv, WholeMaint, HalfMaint

-----------------------------------------------------------------------------
(***************************************************************************)
(* Places and logs, one lemma for each group of actions.                   *)
(***************************************************************************)
TracesInv == PlacesInv /\ LogsInv

\* Only the write worker acknowledges a change.
LEMMA AckedByWrite ==
    ASSUME IInv, PlacesInv, NEW w \in Workers, NEW r, NEW logs, pc[w] \in Busy,
           Answered(cur[w], r, logs)
    PROVE  \A m \in acked' : m \in acked \/ (m = cur[w] /\ w = Write /\ r = "ok"
                                             /\ Changing(cur[w].kind))
<1>1. cur[w] \in Cmd /\ Holds(w, 0, cur[w])
  BY DEF IInv, BusyHasCommand, Holds
<1>2. Changing(cur[w].kind) => w = Write
  BY <1>1 DEF PlacesInv, Routed
<1> QED
  BY <1>2 DEF Answered

LEMMA SubmitTraces ==
    ASSUME IInv, TracesInv, NEW c \in Client, NEW kind \in Kinds, Submit(c, kind)
    PROVE  TracesInv'
<1>1. UNCHANGED <<pc, cur, out, db, view, txn, saved, acked>>
  BY DEF Submit, dbVars
<1>2. PlacesInv' /\ \A m \in Cmd : Untouched(m)' => Untouched(m)
  BY SubmitPlaces DEF TracesInv
<1> QED
  BY <1>1, <1>2, LogsKept DEF TracesInv

LEMMA ReceiveTraces ==
    ASSUME IInv, TracesInv, NEW w \in Workers, Receive(w)
    PROVE  TracesInv'
<1>1. /\ UNCHANGED <<out, db, view, txn, saved, acked>>
      /\ \E p \in {"gate", "run"} : pc' = [pc EXCEPT ![w] = p]
      /\ cur' = [cur EXCEPT ![w] = Head(queue[w])]
  BY DEF Receive, dbVars, clientVars
<1>2. pc'[Write] \in {"run2", "reply"} => pc'[Write] = pc[Write] /\ cur'[Write] = cur[Write]
  BY <1>1, WorkerFacts DEF IInv, TypeOK
<1>3. PlacesInv' /\ \A m \in Cmd : Untouched(m)' => Untouched(m)
  BY ReceivePlaces DEF TracesInv
<1> QED
  BY <1>1, <1>2, <1>3, LogsKept DEF TracesInv

LEMMA StopWorkerTraces ==
    ASSUME IInv, TracesInv, NEW w \in Workers, StopWorker(w)
    PROVE  TracesInv'
<1>1. UNCHANGED <<cur, out, db, view, txn, saved, acked>> /\ pc' = [pc EXCEPT ![w] = "stopped"]
  BY DEF StopWorker, dbVars
<1>2. pc'[Write] \in {"run2", "reply"} => pc'[Write] = pc[Write]
  BY <1>1, WorkerFacts DEF IInv, TypeOK
<1>3. PlacesInv' /\ \A m \in Cmd : Untouched(m)' => Untouched(m)
  BY StopWorkerPlaces DEF TracesInv
<1> QED
  BY <1>1, <1>2, <1>3, LogsKept DEF TracesInv

LEMMA LockGateTraces ==
    ASSUME IInv, TracesInv, NEW w \in Workers, LockGate(w)
    PROVE  TracesInv'
<1>1. /\ UNCHANGED <<queue, cur, out, db, view, txn, saved, st, reqs, acked, refused>>
      /\ pc[w] = "gate" /\ pc' = [pc EXCEPT ![w] = "run"]
  BY DEF LockGate, dbVars, clientVars
<1>2. /\ \A v \in Workers : pc'[v] \in Busy => pc[v] \in Busy
      /\ pc[Write] \in {"run2", "reply"} => pc'[Write] \in {"run2", "reply"}
      /\ pc'[Write] \in {"run2", "reply"} => pc'[Write] = pc[Write]
  BY <1>1, WorkerFacts DEF IInv, TypeOK, Busy
<1>3. PlacesInv' /\ \A m \in Cmd : Untouched(m)' => Untouched(m)
  BY <1>1, <1>2, StillPlaces DEF TracesInv
<1> QED
  BY <1>1, <1>2, <1>3, LogsKept DEF TracesInv

\* WriteReply, SnapshotReply and ReadRun.
LEMMA AnswerTraces ==
    ASSUME IInv, TracesInv, NEW w \in Workers, NEW r, NEW logs,
           pc[w] \in Busy, pc' = [pc EXCEPT ![w] = "recv"], Answered(cur[w], r, logs),
           w = Write => pc[w] = "reply" /\ r = out[w],
           w # Write => out'[Write] = out[Write],
           UNCHANGED <<queue, cur, db, view, txn, saved>>
    PROVE  TracesInv'
<1>1. PlacesInv' /\ \A m \in Cmd : Untouched(m)' => Untouched(m)
  BY AnswerPlaces DEF TracesInv
<1>2. pc'[Write] \in {"run2", "reply"} => pc'[Write] = pc[Write] /\ out'[Write] = out[Write]
  BY WorkerFacts DEF IInv, TypeOK
<1>3. \A m \in acked' : m \in acked \/ (m = cur[Write] /\ pc[Write] = "reply" /\ out[Write] = "ok")
  BY AckedByWrite DEF TracesInv
<1> QED
  BY <1>1, <1>2, <1>3, LogsKept DEF TracesInv

LEMMA WriteBodyTraces ==
    ASSUME IInv, TracesInv, NEW ok \in BOOLEAN, WriteRun(ok) \/ MaintBegin \/ MaintEnd(ok)
    PROVE  TracesInv'
<1>1. /\ pc[Write] \in {"run", "run2"}
      /\ \E p \in {"run2", "reply"} : pc' = [pc EXCEPT ![Write] = p]
      /\ UNCHANGED <<queue, cur, st, reqs, acked, refused>>
  BY DEF WriteRun, MaintBegin, MaintEnd, clientVars
<1>2. /\ \A v \in Workers : pc'[v] \in Busy => pc[v] \in Busy
      /\ pc'[Write] \in {"run2", "reply"}
  BY <1>1, WorkerFacts DEF IInv, TypeOK, Busy
<1>3. PlacesInv'
  BY <1>1, <1>2, StillPlaces DEF TracesInv
<1> QED
  BY <1>3, WriteRunLogs, MaintBeginLogs, MaintEndLogs DEF TracesInv

LEMMA SnapshotBodyTraces ==
    ASSUME IInv, TracesInv, SnapshotFail \/ ExportCatalog \/ ExportData \/ Publish
    PROVE  TracesInv'
<1>1. /\ pc[Snapshot] \in {"run", "data", "verify"}
      /\ \E p \in {"data", "verify", "reply"} : pc' = [pc EXCEPT ![Snapshot] = p]
      /\ out' = out \/ \E r \in Results : out' = [out EXCEPT ![Snapshot] = r]
      /\ UNCHANGED <<queue, cur, db, view, txn, st, reqs, acked, refused>>
  BY DEF SnapshotFail, ExportCatalog, ExportData, Publish, dbVars, clientVars, Results
<1>2. /\ \A v \in Workers : pc'[v] \in Busy => pc[v] \in Busy
      /\ pc'[Write] = pc[Write] /\ out'[Write] = out[Write]
  BY <1>1, WorkerFacts DEF IInv, TypeOK, Busy
<1>3. \A s \in saved' : s \in saved \/ (s.data = db.log /\ pc[Write] # "run2")
  <2>1. CASE Publish
    <3>1. saved' = saved \union {exp} /\ exp.data = db.log
      BY <2>1 DEF Publish, IInv, ExportCurrent
    <3>2. pc[Write] # "run2"
      BY <1>1, WorkerFacts DEF IInv, GateHeld, WritingUnderGate
    <3> QED
      BY <3>1, <3>2
  <2>2. CASE ~Publish
    BY <2>2 DEF SnapshotFail, ExportCatalog, ExportData
  <2> QED
    BY <2>1, <2>2
<1>4. PlacesInv' /\ \A m \in Cmd : Untouched(m)' => Untouched(m)
  BY <1>1, <1>2, StillPlaces DEF TracesInv
<1> QED
  BY <1>1, <1>2, <1>3, <1>4, LogsKept DEF TracesInv

LEMMA ShutdownTraces ==
    ASSUME IInv, TracesInv, ShutdownBegin \/ ShutdownStep
    PROVE  TracesInv'
<1>1. UNCHANGED <<pc, cur, out, db, view, txn, saved, st, reqs, acked, refused>>
  BY DEF ShutdownBegin, ShutdownStep, ShutdownSend, ShutdownJoin, dbVars, clientVars
<1>2. \A v \in Workers : queue'[v] \in {queue[v], Append(queue[v], ShutdownCmd)}
  BY DEF ShutdownBegin, ShutdownStep, ShutdownSend, ShutdownJoin, IInv, TypeOK
<1>3. PlacesInv' /\ \A m \in Cmd : Untouched(m)' => Untouched(m)
  BY <1>1, <1>2, StillPlaces DEF TracesInv
<1> QED
  BY <1>1, <1>3, LogsKept DEF TracesInv

LEMMA NextTraces ==
    ASSUME IInv, TracesInv, [Next]_vars
    PROVE  TracesInv'
<1>1. CASE \E c \in Client, kind \in Kinds : Submit(c, kind)
  BY <1>1, SubmitTraces
<1>2. ASSUME NEW w \in Workers, WorkerStep(w)
      PROVE  TracesInv'
  <2>1. CASE Receive(w) \/ StopWorker(w) \/ LockGate(w)
    BY <2>1, ReceiveTraces, StopWorkerTraces, LockGateTraces
  <2>2. CASE WriteStep
    <3>1. CASE WriteReply
      <4>1. /\ pc[Write] = "reply" /\ pc' = [pc EXCEPT ![Write] = "recv"]
            /\ Answered(cur[Write], out[Write], {})
            /\ UNCHANGED <<queue, cur, db, view, txn, saved>>
        BY <3>1 DEF WriteReply, Reply, dbVars
      <4>2. pc[Write] \in Busy
        BY <4>1 DEF Busy
      <4> QED
        BY <4>1, <4>2, AnswerTraces, WorkerFacts
    <3> QED
      BY <2>2, <3>1, WriteBodyTraces DEF WriteStep
  <2>3. CASE w \in Readers /\ ReadStep(w)
    <3>1. PICK ok \in BOOLEAN : ReadRun(w, ok)
      BY <2>3 DEF ReadStep
    <3>2. /\ pc[w] = "run" /\ pc' = [pc EXCEPT ![w] = "recv"]
          /\ \E r, logs : Answered(cur[w], r, logs)
          /\ UNCHANGED <<queue, cur, out, db, view, txn, saved>>
      BY <3>1 DEF ReadRun, dbVars
    <3>3. pc[w] \in Busy /\ w # Write
      BY <2>3, <3>2, WorkerFacts DEF Busy
    <3> QED
      BY <3>2, <3>3, AnswerTraces
  <2>4. CASE SnapshotStep
    <3>1. CASE SnapshotReply
      <4>1. /\ pc[Snapshot] = "reply" /\ pc' = [pc EXCEPT ![Snapshot] = "recv"]
            /\ \E r, logs : Answered(cur[Snapshot], r, logs)
            /\ out' = [out EXCEPT ![Snapshot] = "none"]
            /\ UNCHANGED <<queue, cur, db, view, txn, saved>>
        BY <3>1 DEF SnapshotReply, Reply, dbVars
      <4>2. out'[Write] = out[Write]
        BY <4>1, WorkerFacts DEF IInv, TypeOK
      <4>3. pc[Snapshot] \in Busy
        BY <4>1 DEF Busy
      <4> QED
        BY <4>1, <4>2, <4>3, AnswerTraces, WorkerFacts
    <3> QED
      BY <2>4, <3>1, SnapshotBodyTraces DEF SnapshotStep
  <2> QED
    BY <1>2, <2>1, <2>2, <2>3, <2>4 DEF WorkerStep
<1>3. CASE ShutdownBegin \/ ShutdownStep
  BY <1>3, ShutdownTraces
<1>4. CASE UNCHANGED vars
  <2>1. /\ UNCHANGED <<queue, pc, cur, out, db, view, txn, saved, st, reqs, acked, refused>>
    BY <1>4 DEF vars, dbVars, clientVars
  <2>2. PlacesInv' /\ \A m \in Cmd : Untouched(m)' => Untouched(m)
    BY <2>1, StillPlaces DEF TracesInv
  <2> QED
    BY <2>1, <2>2, LogsKept DEF TracesInv
<1> QED
  BY <1>1, <1>2, <1>3, <1>4 DEF Next

LEMMA InitTraces == Init => TracesInv
<1> SUFFICES ASSUME Init PROVE TracesInv
  OBVIOUS
<1>1. \A w \in Workers, i \in Nat, m \in Cmd : ~Holds(w, i, m)
  BY DEF Init, Holds, Busy
<1>2. PlacesInv
  BY <1>1 DEF Init, PlacesInv, OnePlace, Unanswered, Routed, Known
<1>3. \A log \in Logs : log = <<>>
  BY DEF Init, Logs, EmptyImage
<1>4. \A log \in Logs : \A m : Occurrences(log, m) = 0
  BY <1>3, EmptyLog
<1>5. UntouchedNowhere /\ NoneTwice
  BY <1>4 DEF UntouchedNowhere, NoneTwice
<1>6. WholeMaint /\ HalfMaint
  BY WorkerFacts DEF Init, WholeMaint, HalfMaint
<1> QED
  BY <1>2, <1>5, <1>6 DEF TracesInv, LogsInv

\* What becomes of each command is an inductive invariant, relative to IInv.
THEOREM TracesInvariant == Spec => []TracesInv
<1>1. Init => TracesInv
  BY InitTraces
<1>2. IInv /\ TracesInv /\ [Next]_vars => TracesInv'
  BY NextTraces
<1> QED
  BY <1>1, <1>2, InductiveInvariant, PTL DEF Spec

\* A command answered queue_full or worker_stopped changes nothing, ever, and no
\* command is executed twice, whatever fails and whoever stops.
THEOREM CommandsAppliedOnce == Spec => []AppliedOnce
<1>1. IInv /\ TracesInv => AppliedOnce
  <2> SUFFICES ASSUME IInv, TracesInv PROVE AppliedOnce
    OBVIOUS
  <2>1. view.log \in Log /\ view.log \in Logs /\ refused \subseteq Cmd
    BY DEF IInv, TypeOK, Image, Logs
  <2>2. \A m \in refused : ~InLog(view.log, m)
    BY <2>1, OccurrencesType DEF TracesInv, LogsInv, UntouchedNowhere, Untouched
  <2>3. \A i \in DOMAIN view.log : view.log[i] \in Cmd
    BY <2>1 DEF Log
  <2> QED
    BY <2>1, <2>2, <2>3 DEF AppliedOnce, TracesInv, LogsInv, NoneTwice
<1> QED
  BY <1>1, InductiveInvariant, TracesInvariant, PTL

\* A snapshot holds both steps of an acknowledged rebuild_vector_index or
\* compact_vector_index, or neither of them.
THEOREM MaintenanceIsWhole == Spec => []MaintenanceWhole
<1>1. TracesInv => MaintenanceWhole
  BY DEF TracesInv, LogsInv, WholeMaint, Whole, Logs, MaintenanceWhole
<1> QED
  BY <1>1, TracesInvariant, PTL

-----------------------------------------------------------------------------
(***************************************************************************)
(* What is acknowledged and what is seen, one lemma for each group.        *)
(***************************************************************************)
\* A step that changes no image and answers nobody.
LEMMA SeenKept ==
    ASSUME SeenInv, UNCHANGED <<db, txn, acked, seen, got, tainted>>,
           pc'[Write] = "reply" <=> pc[Write] = "reply",
           pc'[Write] = "reply" => cur'[Write] = cur[Write] /\ out'[Write] = out[Write],
           pc'[Snapshot] = "reply" /\ out'[Snapshot] = "ok" =>
               /\ pc[Snapshot] = "reply" /\ out[Snapshot] = "ok"
               /\ cur'[Snapshot] = cur[Snapshot] /\ exp' = exp
    PROVE  SeenInv'
BY DEF SeenInv, Autocommit, OkApplied, AckedApplied, SeenAcked, SavedSeen, ReadsSeeAcked

LEMMA SubmitSeen ==
    ASSUME IInv, PlacesInv, SeenInv, NEW c \in Client, NEW kind \in Kinds, Submit(c, kind)
    PROVE  SeenInv'
<1>1. /\ UNCHANGED <<pc, cur, out, db, txn, exp, acked, tainted>> /\ st[c] = "idle"
      /\ seen' = [seen EXCEPT ![c] = acked] /\ got' = [got EXCEPT ![c] = {}]
  BY DEF Submit, dbVars
<1>2. \A d \in Client : /\ seen'[d] = IF d = c THEN acked ELSE seen[d]
                        /\ got'[d] = IF d = c THEN {} ELSE got[d]
  BY <1>1 DEF IInv, TypeOK
<1>3. SeenAcked'
  BY <1>1, <1>2 DEF SeenInv, SeenAcked
<1>4. ReadsSeeAcked'
  BY <1>1, <1>2 DEF SeenInv, ReadsSeeAcked
<1>5. SavedSeen'
  <2> SUFFICES ASSUME pc[Snapshot] = "reply" PROVE SavedSeen'
    BY <1>1 DEF SavedSeen
  <2>1. cur[Snapshot] \in Cmd /\ Holds(Snapshot, 0, cur[Snapshot])
    BY WorkerFacts DEF IInv, BusyHasCommand, Busy, Holds
  <2>2. cur[Snapshot].c # c /\ cur[Snapshot].c \in Client
    BY <1>1, <2>1, WorkerFacts DEF PlacesInv, Unanswered, Cmd
  <2> QED
    BY <1>1, <1>2, <2>2 DEF SeenInv, SavedSeen
<1> QED
  BY <1>1, <1>3, <1>4, <1>5 DEF SeenInv, Autocommit, OkApplied, AckedApplied

\* In autocommit mode a command body adds to the committed log or leaves it.
LEMMA BodyAdds ==
    ASSUME IInv, txn = "none", NEW ok \in BOOLEAN,
           WriteRun(ok) \/ MaintBegin \/ MaintEnd(ok)
    PROVE  /\ db'.log = db.log \/ db'.log = Append(db.log, cur[Write])
           /\ (WriteRun(ok) \/ MaintEnd(ok)) /\ ok /\ Changing(cur[Write].kind)
                => db'.log = Append(db.log, cur[Write])
           /\ MaintBegin => UNCHANGED txn
<1> DEFINE cmd == cur[Write]
<1>1. cmd \in Cmd /\ DbType /\ view = db
  BY WorkerFacts DEF WriteRun, MaintBegin, MaintEnd, IInv, BusyHasCommand, Busy, TypeOK, DbType,
                     AutocommitView
<1>2. Change(Logged(cmd)) => db'.log = Append(db.log, cmd) /\ UNCHANGED txn
  BY <1>1, ChangeWritten
<1>3. Fails \/ NoChange \/ PanicInTransaction(cmd) => db' = db
  BY DEF Fails, NoChange, PanicInTransaction, dbVars
<1>4. Login(ok) => db'.log = db.log
  BY <1>1, LoginType
<1>5. TxStatement(cmd, ok) => db' = db
  BY <1>3 DEF TxStatement
<1>6. CASE MaintBegin
  BY <1>2, <1>6 DEF MaintBegin, WriteRun, MaintEnd
<1>7. CASE WriteRun(ok)
  BY <1>2, <1>3, <1>4, <1>5, <1>7
     DEF WriteRun, PlainStatement, CatalogTx, Changing, MaintBegin
<1>8. CASE MaintEnd(ok)
  BY <1>2, <1>3, <1>8 DEF MaintEnd, MaintBegin
<1> QED
  BY <1>6, <1>7, <1>8

LEMMA WriteBodySeen ==
    ASSUME IInv, SeenInv, NEW ok \in BOOLEAN, WriteRun(ok) \/ MaintBegin \/ MaintEnd(ok)
    PROVE  SeenInv'
<1>1. /\ pc[Write] \in {"run", "run2"}
      /\ UNCHANGED <<cur, exp, acked, seen, got, tainted>>
      /\ \/ MaintBegin /\ pc' = [pc EXCEPT ![Write] = "run2"] /\ out' = out
         \/ /\ WriteRun(ok) \/ MaintEnd(ok)
            /\ pc' = [pc EXCEPT ![Write] = "reply"]
            /\ out' = [out EXCEPT ![Write] = IF ok THEN "ok" ELSE "error"]
  BY DEF WriteRun, MaintBegin, MaintEnd, clientVars
<1>2. pc'[Snapshot] = pc[Snapshot] /\ out'[Snapshot] = out[Snapshot]
  BY <1>1, WorkerFacts DEF IInv, TypeOK
<1>3. SeenAcked' /\ SavedSeen' /\ ReadsSeeAcked'
  BY <1>1, <1>2 DEF SeenInv, SeenAcked, SavedSeen, ReadsSeeAcked
<1>4. cur[Write] \in Cmd /\ db.log \in Log /\ acked \subseteq Cmd
  BY <1>1, WorkerFacts DEF IInv, BusyHasCommand, Busy, TypeOK, Image
<1>5. CASE tainted
  BY <1>1, <1>3, <1>5 DEF SeenInv, Autocommit, OkApplied, AckedApplied
<1>6. CASE ~tainted
  <2>1. txn = "none"
    BY <1>1, <1>6 DEF SeenInv, Autocommit
  <2>2. AckedApplied'
    <3>1. db'.log = db.log \/ db'.log = Append(db.log, cur[Write])
      BY <2>1, BodyAdds
    <3>2. \A m : InLog(db.log, m) => InLog(db'.log, m)
      <4>1. \A m : InLog(Append(db.log, cur[Write]), m) <=> InLog(db.log, m) \/ m = cur[Write]
        BY <1>4, InLogAppend
      <4> QED
        BY <3>1, <4>1
    <3> QED
      BY <1>1, <1>6, <3>2 DEF SeenInv, AckedApplied
  <2>3. Autocommit'
    BY <1>1, <2>1, BodyAdds, WorkerFacts DEF Autocommit, IInv, TypeOK
  <2>4. OkApplied'
    <3>1. CASE MaintBegin /\ pc' = [pc EXCEPT ![Write] = "run2"]
      BY <3>1, WorkerFacts DEF OkApplied, IInv, TypeOK
    <3>2. CASE (WriteRun(ok) \/ MaintEnd(ok))
               /\ out' = [out EXCEPT ![Write] = IF ok THEN "ok" ELSE "error"]
      <4>1. out'[Write] = "ok" => ok
        BY <3>2, WorkerFacts DEF IInv, TypeOK
      <4>2. ok /\ Changing(cur[Write].kind) => InLog(db'.log, cur[Write])
        BY <1>4, <2>1, <3>2, BodyAdds, InLogAppend
      <4> QED
        BY <1>1, <4>1, <4>2 DEF OkApplied
    <3> QED
      BY <1>1, <3>1, <3>2
  <2> QED
    BY <1>3, <2>2, <2>3, <2>4 DEF SeenInv
<1> QED
  BY <1>5, <1>6

LEMMA WriteReplySeen ==
    ASSUME IInv, SeenInv, WriteReply
    PROVE  SeenInv'
<1>1. /\ pc[Write] = "reply" /\ pc' = [pc EXCEPT ![Write] = "recv"]
      /\ out' = [out EXCEPT ![Write] = "none"]
      /\ tainted' = (tainted \/ txn # "none")
      /\ UNCHANGED <<cur, db, txn, exp, seen>>
      /\ got' = [got EXCEPT ![cur[Write].c] = {}]
      /\ acked' = IF out[Write] = "ok" /\ Changing(cur[Write].kind)
                  THEN acked \union {cur[Write]} ELSE acked
  BY DEF WriteReply, Reply, Answered, dbVars
<1>2. /\ pc'[Write] = "recv"
      /\ pc'[Snapshot] = pc[Snapshot] /\ out'[Snapshot] = out[Snapshot]
  BY <1>1, WorkerFacts DEF IInv, TypeOK
<1>3. Autocommit' /\ OkApplied' /\ SeenAcked' /\ SavedSeen'
  BY <1>1, <1>2 DEF SeenInv, Autocommit, OkApplied, SeenAcked, SavedSeen
<1>4. AckedApplied'
  <2> SUFFICES ASSUME ~tainted', NEW m \in acked' PROVE InLog(db.log, m)
    BY <1>1 DEF AckedApplied
  <2>1. ~tainted
    BY <1>1
  <2>2. CASE m \in acked
    BY <2>1, <2>2 DEF SeenInv, AckedApplied
  <2>3. CASE m \notin acked
    <3>1. m = cur[Write] /\ out[Write] = "ok" /\ Changing(cur[Write].kind)
      BY <1>1, <2>3
    <3> QED
      BY <1>1, <2>1, <3>1 DEF SeenInv, OkApplied
  <2> QED
    BY <2>2, <2>3
<1>5. \A c \in Client : got'[c] \subseteq got[c]
  BY <1>1 DEF IInv, TypeOK
<1>6. ReadsSeeAcked'
  BY <1>1, <1>5 DEF SeenInv, ReadsSeeAcked
<1> QED
  BY <1>3, <1>4, <1>6 DEF SeenInv

\* A reader answers with the committed log of that instant.
LEMMA ReadRunSeen ==
    ASSUME IInv, PlacesInv, SeenInv, NEW r \in Readers, NEW ok \in BOOLEAN, ReadRun(r, ok)
    PROVE  SeenInv'
<1> DEFINE logs == IF ok THEN {db.log} ELSE {}
<1>1. /\ pc' = [pc EXCEPT ![r] = "recv"] /\ pc[r] = "run"
      /\ UNCHANGED <<cur, out, db, txn, exp, seen, tainted>>
      /\ got' = [got EXCEPT ![cur[r].c] = logs]
  BY DEF ReadRun, Answered, dbVars
<1>2. acked' = acked
  <2>1. r \in Workers /\ r # Write /\ r \in Readers
    BY WorkerFacts
  <2>2. pc[r] \in Busy
    BY <1>1 DEF Busy
  <2>3. acked \subseteq acked'
    BY DEF ReadRun, Answered
  <2>4. Answered(cur[r], IF ok THEN "ok" ELSE "error", logs)
    BY DEF ReadRun
  <2>5. \A m \in acked' : m \in acked
    BY <2>1, <2>2, <2>4, AckedByWrite
  <2> QED
    BY <2>3, <2>5
<1>3. pc'[Write] = pc[Write] /\ pc'[Snapshot] = pc[Snapshot]
  BY <1>1, WorkerFacts DEF IInv, TypeOK
<1>4. Autocommit' /\ OkApplied' /\ SeenAcked' /\ SavedSeen' /\ AckedApplied'
  BY <1>1, <1>2, <1>3 DEF SeenInv, Autocommit, OkApplied, SeenAcked, SavedSeen, AckedApplied
<1>5. \A c \in Client : \A log \in got'[c] : log \in got[c] \/ log = db.log
  BY <1>1 DEF IInv, TypeOK
<1>6. ReadsSeeAcked'
  BY <1>1, <1>5 DEF SeenInv, ReadsSeeAcked, AckedApplied, SeenAcked
<1> QED
  BY <1>4, <1>6 DEF SeenInv

LEMMA SnapshotReplySeen ==
    ASSUME IInv, PlacesInv, SeenInv, SnapshotReply
    PROVE  SeenInv'
<1> DEFINE logs == IF out[Snapshot] = "ok" THEN {exp.data} ELSE {}
           c == cur[Snapshot].c
<1>1. /\ pc[Snapshot] = "reply" /\ pc' = [pc EXCEPT ![Snapshot] = "recv"]
      /\ out' = [out EXCEPT ![Snapshot] = "none"]
      /\ UNCHANGED <<cur, db, txn, exp, seen>>
      /\ tainted' = tainted
      /\ got' = [got EXCEPT ![c] = logs]
  BY WorkerFacts DEF SnapshotReply, Reply, Answered, dbVars, IInv, TypeOK
<1>2. acked' = acked
  <2>1. pc[Snapshot] \in Busy
    BY <1>1 DEF Busy
  <2>2. acked \subseteq acked' /\ Answered(cur[Snapshot], out[Snapshot], logs)
    BY DEF SnapshotReply, Answered
  <2>3. \A m \in acked' : m \in acked
    BY <2>1, <2>2, AckedByWrite, WorkerFacts
  <2> QED
    BY <2>2, <2>3
<1>3. /\ pc'[Write] = pc[Write] /\ out'[Write] = out[Write]
      /\ pc'[Snapshot] = "recv"
  BY <1>1, WorkerFacts DEF IInv, TypeOK
<1>4. Autocommit' /\ OkApplied' /\ SeenAcked' /\ SavedSeen' /\ AckedApplied'
  BY <1>1, <1>2, <1>3 DEF SeenInv, Autocommit, OkApplied, SeenAcked, SavedSeen, AckedApplied
<1>5. \A d \in Client : \A log \in got'[d] :
          log \in got[d] \/ (d = c /\ log = exp.data /\ out[Snapshot] = "ok")
  BY <1>1 DEF IInv, TypeOK
<1>6. ReadsSeeAcked'
  BY <1>1, <1>5 DEF SeenInv, ReadsSeeAcked, SavedSeen
<1> QED
  BY <1>4, <1>6 DEF SeenInv

\* The snapshot published is the committed log, which has every acknowledged change.
LEMMA PublishSeen ==
    ASSUME IInv, SeenInv, Publish
    PROVE  SeenInv'
<1>1. /\ pc[Snapshot] = "verify" /\ pc' = [pc EXCEPT ![Snapshot] = "reply"]
      /\ out' = [out EXCEPT ![Snapshot] = "ok"]
      /\ UNCHANGED <<cur, db, txn, exp, acked, seen, got, tainted>>
  BY DEF Publish, dbVars, clientVars
<1>2. pc'[Write] = pc[Write] /\ out'[Write] = out[Write]
  BY <1>1, WorkerFacts DEF IInv, TypeOK
<1>3. exp.data = db.log /\ cur[Snapshot].c \in Client
  BY <1>1, WorkerFacts DEF IInv, ExportCurrent, BusyHasCommand, Busy, Cmd
<1>4. SavedSeen'
  BY <1>1, <1>3 DEF SeenInv, SavedSeen, SeenAcked, AckedApplied
<1> QED
  BY <1>1, <1>2, <1>4
     DEF SeenInv, Autocommit, OkApplied, AckedApplied, SeenAcked, ReadsSeeAcked

LEMMA NextSeen ==
    ASSUME IInv, PlacesInv, SeenInv, [Next]_vars
    PROVE  SeenInv'
<1>1. CASE \E c \in Client, kind \in Kinds : Submit(c, kind)
  BY <1>1, SubmitSeen
<1>2. ASSUME NEW w \in Workers, WorkerStep(w)
      PROVE  SeenInv'
  <2>1. CASE Receive(w) \/ StopWorker(w) \/ LockGate(w)
    <3>1. /\ UNCHANGED <<out, db, txn, exp, acked, seen, got, tainted>>
          /\ pc[w] \in {"recv", "gate"}
          /\ \E p \in {"gate", "run", "stopped"} : pc' = [pc EXCEPT ![w] = p]
          /\ cur' = cur \/ cur' = [cur EXCEPT ![w] = Head(queue[w])]
      BY <2>1 DEF Receive, StopWorker, LockGate, dbVars, clientVars
    <3>2. \A v \in Workers : /\ pc'[v] = "reply" <=> pc[v] = "reply"
                             /\ pc'[v] = "reply" => cur'[v] = cur[v]
      BY <3>1 DEF IInv, TypeOK
    <3> QED
      BY <3>1, <3>2, SeenKept, WorkerFacts
  <2>2. CASE WriteStep
    BY <2>2, WriteBodySeen, WriteReplySeen DEF WriteStep
  <2>3. CASE w \in Readers /\ ReadStep(w)
    BY <2>3, ReadRunSeen DEF ReadStep
  <2>4. CASE SnapshotStep
    <3>1. CASE SnapshotFail \/ ExportCatalog \/ ExportData
      <4>1. /\ UNCHANGED <<cur, db, txn, acked, seen, got, tainted>>
            /\ pc[Snapshot] \in {"run", "data", "verify"}
            /\ \/ out' = out /\ \E p \in {"data", "verify"} : pc' = [pc EXCEPT ![Snapshot] = p]
               \/ out' = [out EXCEPT ![Snapshot] = "error"] /\ pc' = [pc EXCEPT ![Snapshot] = "reply"]
        BY <3>1 DEF SnapshotFail, ExportCatalog, ExportData, dbVars, clientVars
      <4>2. /\ pc'[Write] = pc[Write] /\ out'[Write] = out[Write]
            /\ ~(pc'[Snapshot] = "reply" /\ out'[Snapshot] = "ok")
        BY <4>1, WorkerFacts DEF IInv, TypeOK
      <4> QED
        BY <4>1, <4>2, SeenKept
    <3> QED
      BY <2>4, <3>1, PublishSeen, SnapshotReplySeen DEF SnapshotStep
  <2> QED
    BY <1>2, <2>1, <2>2, <2>3, <2>4 DEF WorkerStep
<1>3. CASE ShutdownBegin \/ ShutdownStep \/ UNCHANGED vars
  <2>1. UNCHANGED <<pc, cur, out, db, txn, exp, acked, seen, got, tainted>>
    BY <1>3 DEF ShutdownBegin, ShutdownStep, ShutdownSend, ShutdownJoin, vars, dbVars, clientVars
  <2> QED
    BY <2>1, SeenKept
<1> QED
  BY <1>1, <1>2, <1>3 DEF Next

\* What is acknowledged and what is seen is an inductive invariant, relative to
\* IInv and TracesInv.
THEOREM SeenInvariant == Spec => []SeenInv
<1>1. Init => SeenInv
  BY WorkerFacts DEF Init, SeenInv, Autocommit, OkApplied, AckedApplied, SeenAcked, SavedSeen,
                     ReadsSeeAcked
<1>2. IInv /\ TracesInv /\ SeenInv /\ [Next]_vars => SeenInv'
  BY NextSeen DEF TracesInv
<1> QED
  BY <1>1, <1>2, InductiveInvariant, TracesInvariant, PTL DEF Spec

\* Until a command leaves a transaction open on the write connection, a write
\* answered with Ok is committed.
THEOREM AckedIsApplied == Spec => []AckedApplied
<1>1. SeenInv => AckedApplied
  BY DEF SeenInv
<1> QED
  BY <1>1, SeenInvariant, PTL

\* And a query of any read worker, or a snapshot, has every write acknowledged
\* before it was asked for.
THEOREM ReadsSeeAcknowledged == Spec => []ReadsSeeAcked
<1>1. SeenInv => ReadsSeeAcked
  BY DEF SeenInv
<1> QED
  BY <1>1, SeenInvariant, PTL

-----------------------------------------------------------------------------
(***************************************************************************)
(* Engine implements SerialStore.                                          *)
(***************************************************************************)

\* A transaction statement or a panic can leave a transaction open: no
\* behaviour of the store is behind what follows.
NoOpenTransactions ==
    /\ Kinds \intersect {"begin", "commit", "rollback"} = {}
    /\ Panics = FALSE

\* The command is in some place.
Held(m) == \E w \in Workers, i \in Nat : Holds(w, i, m)

\* The commands in a place are commands the clients can issue, the write
\* connection has no transaction, and between the steps of a maintenance command
\* the log ends with the first.
MapInv ==
    /\ reqs <= MaxReq
    /\ \A m \in Cmd : Held(m) => m \in Commands
    /\ txn = "none" /\ ~tainted
    /\ pc[Write] = "run2" =>
         \E log \in Log : db.log = Append(log, cur[Write])

PendingIsHeld == \A m : m \in Pending <=> m \in Cmd /\ Held(m)

LEMMA PendingHeld == IInv => PendingIsHeld
<1> SUFFICES ASSUME IInv PROVE PendingIsHeld
  OBVIOUS
<1>1. ASSUME NEW m, m \in Queued
      PROVE  m \in Cmd /\ Held(m)
  <2>1. PICK w \in Workers : \E i \in DOMAIN queue[w] : m = queue[w][i] /\ m # ShutdownCmd
    BY <1>1 DEF Queued
  <2>0. PICK i \in DOMAIN queue[w] : m = queue[w][i] /\ m # ShutdownCmd
    BY <2>1
  <2>2. queue[w] \in Seq(Cmd \union {ShutdownCmd})
    BY DEF IInv, TypeOK
  <2>3. i \in Nat /\ m \in Cmd
    BY <2>0, <2>2
  <2> QED
    BY <2>0, <2>3 DEF Held, Holds
<1>2. ASSUME NEW m, m \in InHand
      PROVE  m \in Cmd /\ Held(m)
  <2>1. PICK w \in Workers : m = cur[w] /\ pc[w] \notin {"recv", "stopped"}
    BY <1>2 DEF InHand
  <2>2. pc[w] \in Busy
    BY <2>1 DEF IInv, TypeOK, Busy
  <2> QED
    BY <2>1, <2>2 DEF Held, Holds, IInv, BusyHasCommand
<1>3. ASSUME NEW m \in Cmd, Held(m)
      PROVE  m \in Pending
  <2>1. PICK w \in Workers, i \in Nat : Holds(w, i, m)
    BY <1>3 DEF Held
  <2>2. CASE pc[w] \in Busy /\ cur[w] = m
    BY <2>2 DEF Busy, InHand, Pending
  <2>3. CASE i \in DOMAIN queue[w] /\ queue[w][i] = m
    BY <2>3, ShutdownIsNoCommand DEF Queued, Pending
  <2> QED
    BY <2>1, <2>2, <2>3 DEF Holds
<1> QED
  BY <1>1, <1>2, <1>3 DEF Pending, PendingIsHeld

LEMMA PendingHeldNext == IInv' => PendingIsHeld'
BY PendingHeld, PTL

\* A step that leaves every command somewhere changes nothing of Pending.
LEMMA PendingKept ==
    ASSUME IInv, IInv', \A m \in Cmd : Held(m)' <=> Held(m)
    PROVE  Pending' = Pending
BY PendingHeld, PendingHeldNext DEF PendingIsHeld

\* How each way to move commands changes what is held.
LEMMA SubmitHeld ==
    ASSUME IInv, NEW c \in Client, NEW kind \in Kinds, Submit(c, kind)
    PROVE  LET cmd == [c |-> c, n |-> reqs + 1, kind |-> kind]
           IN  \/ /\ \A m \in Cmd : Held(m)' <=> Held(m)
                  /\ refused' = refused \union {cmd}
               \/ /\ \A m \in Cmd : Held(m)' <=> Held(m) \/ m = cmd
                  /\ UNCHANGED refused
<1> DEFINE w == Target(kind)
           cmd == [c |-> c, n |-> reqs + 1, kind |-> kind]
           last == Len(queue[w]) + 1
<1>1. cmd \in Cmd
  BY EngineAssumption DEF Cmd, IInv, TypeOK
<1>2. w \in Workers
  BY EngineAssumption DEF Target, Workers, Write, Snapshot, IInv, TypeOK
<1>3. queue[w] \in Seq(Cmd \union {ShutdownCmd}) /\ last \in Nat
  BY <1>2 DEF IInv, TypeOK
<1>4. UNCHANGED <<pc, cur>>
  BY DEF Submit
<1>5. CASE UNCHANGED queue /\ refused' = refused \union {cmd}
  BY <1>4, <1>5 DEF Held, Holds
<1>6. CASE queue' = [queue EXCEPT ![w] = Append(@, cmd)] /\ UNCHANGED refused
  <2>1. /\ queue'[w] = Append(queue[w], cmd)
        /\ \A v \in Workers : v # w => queue'[v] = queue[v]
    BY <1>2, <1>6 DEF IInv, TypeOK
  <2>2. /\ DOMAIN queue'[w] = 1..last /\ queue'[w][last] = cmd
        /\ \A j \in 1..Len(queue[w]) : queue'[w][j] = queue[w][j]
        /\ DOMAIN queue[w] = 1..Len(queue[w]) /\ Len(queue[w]) \in Nat
    BY <1>1, <1>3, <2>1, AppendProperties
  <2>3. \A v \in Workers, i \in Nat, m \in Cmd :
            Holds(v, i, m)' <=> Holds(v, i, m) \/ (v = w /\ i = last /\ m = cmd)
    <3> SUFFICES ASSUME NEW v \in Workers, NEW i \in Nat, NEW m \in Cmd
                 PROVE  Holds(v, i, m)' <=> Holds(v, i, m) \/ (v = w /\ i = last /\ m = cmd)
      OBVIOUS
    <3>1. CASE v = w
      BY <1>4, <2>2, <3>1 DEF Holds
    <3>2. CASE v # w
      BY <1>4, <2>1, <3>2 DEF Holds
    <3> QED
      BY <3>1, <3>2
  <2>4. \A m \in Cmd : Held(m)' <=> Held(m) \/ m = cmd
    BY <1>2, <1>3, <2>3 DEF Held
  <2> QED
    BY <1>6, <2>4
<1> QED
  BY <1>5, <1>6 DEF Submit

LEMMA ReceiveHeld ==
    ASSUME IInv, NEW w \in Workers, Receive(w)
    PROVE  \A m \in Cmd : Held(m)' <=> Held(m)
<1>1. /\ pc[w] = "recv" /\ queue[w] # <<>>
      /\ queue' = [queue EXCEPT ![w] = Tail(@)]
      /\ cur' = [cur EXCEPT ![w] = Head(queue[w])]
      /\ \E p \in {"gate", "run"} : pc' = [pc EXCEPT ![w] = p]
  BY DEF Receive
<1>2. queue[w] \in Seq(Cmd \union {ShutdownCmd})
  BY DEF IInv, TypeOK
<1>3. /\ queue'[w] = Tail(queue[w]) /\ cur'[w] = Head(queue[w])
      /\ pc'[w] \in Busy /\ pc[w] \notin Busy
      /\ \A v \in Workers : v # w => /\ queue'[v] = queue[v] /\ pc'[v] = pc[v]
                                     /\ cur'[v] = cur[v]
  BY <1>1 DEF IInv, TypeOK, Busy
<1>4. /\ DOMAIN queue[w] = 1..Len(queue[w]) /\ Len(queue[w]) \in Nat /\ Len(queue[w]) >= 1
      /\ Head(queue[w]) = queue[w][1]
      /\ DOMAIN Tail(queue[w]) = 1..Len(queue[w]) - 1
      /\ \A j \in 1..Len(queue[w]) - 1 : Tail(queue[w])[j] = queue[w][j + 1]
  BY <1>1, <1>2, HeadTailProperties
<1>5. \A m \in Cmd, v \in Workers, i \in Nat : v # w => (Holds(v, i, m)' <=> Holds(v, i, m))
  BY <1>3 DEF Holds
<1>6. \A m \in Cmd, i \in Nat : Holds(w, i, m)' <=> Holds(w, i + 1, m)
  BY <1>3, <1>4 DEF Holds
<1>7. \A m \in Cmd, i \in Nat : Holds(w, i, m) => i # 0 /\ i - 1 \in Nat /\ (i - 1) + 1 = i
  BY <1>3, <1>4 DEF Holds
<1>8. ASSUME NEW m \in Cmd, Held(m)'
      PROVE  Held(m)
  <2>1. PICK v \in Workers, i \in Nat : Holds(v, i, m)'
    BY <1>8 DEF Held
  <2>2. i + 1 \in Nat
    OBVIOUS
  <2> QED
    BY <1>5, <1>6, <2>1, <2>2 DEF Held
<1>9. ASSUME NEW m \in Cmd, Held(m)
      PROVE  Held(m)'
  <2>1. PICK v \in Workers, i \in Nat : Holds(v, i, m)
    BY <1>9 DEF Held
  <2>2. CASE v = w
    <3>1. i - 1 \in Nat /\ (i - 1) + 1 = i
      BY <1>7, <2>1, <2>2
    <3>2. Holds(w, i - 1, m)'
      BY <1>6, <2>1, <2>2, <3>1
    <3> QED
      BY <3>1, <3>2 DEF Held
  <2>3. CASE v # w
    BY <1>5, <2>1, <2>3 DEF Held
  <2> QED
    BY <2>2, <2>3
<1> QED
  BY <1>8, <1>9

LEMMA StopWorkerHeld ==
    ASSUME IInv, PlacesInv, NEW w \in Workers, StopWorker(w)
    PROVE  /\ \A m \in Cmd : Held(m)' <=> Held(m) /\ m \notin Abandoned(w)
           /\ \A m \in Abandoned(w) : m \in Cmd /\ Held(m) /\ Untouched(m)
<1>1. /\ pc[w] = "recv" /\ pc' = [pc EXCEPT ![w] = "stopped"]
      /\ queue[w] # <<>> /\ Head(queue[w]) = ShutdownCmd
      /\ queue' = [queue EXCEPT ![w] = <<>>] /\ cur' = cur
  BY DEF StopWorker
<1>2. queue[w] \in Seq(Cmd \union {ShutdownCmd})
  BY DEF IInv, TypeOK
<1>3. /\ queue'[w] = <<>> /\ pc'[w] \notin Busy /\ pc[w] \notin Busy
      /\ \A v \in Workers : v # w => queue'[v] = queue[v] /\ pc'[v] = pc[v]
  BY <1>1 DEF IInv, TypeOK, Busy
<1>4. \A i \in DOMAIN queue[w] : i \in Nat /\ (i \in 2..Len(queue[w]) \/ queue[w][i] = ShutdownCmd)
  BY <1>1, <1>2
<1>5. \A i \in 2..Len(queue[w]) : i \in DOMAIN queue[w] /\ i \in Nat /\ i # 0
                                  /\ queue[w][i] \in Cmd \union {ShutdownCmd}
  BY <1>2
<1>6. \A m \in Cmd, i \in Nat : Holds(w, i, m) => m \in Abandoned(w)
  BY <1>3, <1>4, ShutdownIsNoCommand DEF Holds, Abandoned
<1>7. \A m \in Abandoned(w) : m \in Cmd /\ \E i \in Nat : i # 0 /\ Holds(w, i, m)
  BY <1>5 DEF Abandoned, Holds
<1>8. \A m \in Cmd, i \in Nat : ~Holds(w, i, m)'
  BY <1>3 DEF Holds
<1>9. \A m \in Cmd, v \in Workers, i \in Nat : v # w => (Holds(v, i, m)' <=> Holds(v, i, m))
  BY <1>1, <1>3 DEF Holds
<1>10. \A m \in Abandoned(w), v \in Workers, i \in Nat : Holds(v, i, m) => v = w
  BY <1>7 DEF PlacesInv, OnePlace
<1>11. \A m \in Cmd : Held(m)' <=> Held(m) /\ m \notin Abandoned(w)
  BY <1>6, <1>8, <1>9, <1>10 DEF Held
<1>12. \A m \in Abandoned(w) : m \in Cmd /\ Held(m) /\ Untouched(m)
  BY <1>7 DEF Held, Untouched, Begun
<1> QED
  BY <1>11, <1>12

LEMMA AnswerHeld ==
    ASSUME IInv, PlacesInv, NEW w \in Workers, pc[w] \in Busy,
           pc' = [pc EXCEPT ![w] = "recv"], UNCHANGED <<queue, cur>>
    PROVE  /\ cur[w] \in Cmd /\ Held(cur[w])
           /\ \A m \in Cmd : Held(m)' <=> Held(m) /\ m # cur[w]
<1>1. cur[w] \in Cmd /\ Holds(w, 0, cur[w])
  BY DEF IInv, BusyHasCommand, Holds
<1>2. /\ pc'[w] \notin Busy
      /\ \A v \in Workers : v # w => pc'[v] = pc[v]
  BY DEF IInv, TypeOK, Busy
<1>3. \A v \in Workers, i \in Nat : Holds(v, i, cur[w]) => v = w /\ i = 0
  BY <1>1 DEF PlacesInv, OnePlace
<1>4. 0 \notin DOMAIN queue[w]
  BY DEF IInv, TypeOK
<1>5. \A v \in Workers, i \in Nat : ~Holds(v, i, cur[w])'
  BY <1>2, <1>3, <1>4 DEF Holds
<1>6. \A m \in Cmd, v \in Workers, i \in Nat :
          m # cur[w] => (Holds(v, i, m)' <=> Holds(v, i, m))
  BY <1>2 DEF Holds
<1> QED
  BY <1>1, <1>5, <1>6 DEF Held

LEMMA StillHeld ==
    ASSUME IInv, cur' = cur,
           \A v \in Workers : pc'[v] \in Busy <=> pc[v] \in Busy,
           \A v \in Workers : queue'[v] \in {queue[v], Append(queue[v], ShutdownCmd)}
    PROVE  \A m \in Cmd : Held(m)' <=> Held(m)
<1>1. \A v \in Workers, i \in Nat, m \in Cmd :
          i \in DOMAIN queue'[v] /\ queue'[v][i] = m <=> i \in DOMAIN queue[v] /\ queue[v][i] = m
  <2> SUFFICES ASSUME NEW v \in Workers, NEW i \in Nat, NEW m \in Cmd
               PROVE  i \in DOMAIN queue'[v] /\ queue'[v][i] = m
                        <=> i \in DOMAIN queue[v] /\ queue[v][i] = m
    OBVIOUS
  <2>1. CASE queue'[v] = queue[v]
    BY <2>1
  <2>2. CASE queue'[v] = Append(queue[v], ShutdownCmd)
    <3>1. queue[v] \in Seq(Cmd \union {ShutdownCmd})
      BY DEF IInv, TypeOK
    <3>2. /\ DOMAIN queue'[v] = 1..Len(queue[v]) + 1
          /\ queue'[v][Len(queue[v]) + 1] = ShutdownCmd
          /\ \A j \in 1..Len(queue[v]) : queue'[v][j] = queue[v][j]
          /\ DOMAIN queue[v] = 1..Len(queue[v]) /\ Len(queue[v]) \in Nat
      BY <2>2, <3>1, AppendProperties
    <3> QED
      BY <3>2, ShutdownIsNoCommand
  <2> QED
    BY <2>1, <2>2
<1>2. \A v \in Workers, i \in Nat, m \in Cmd : Holds(v, i, m)' <=> Holds(v, i, m)
  BY <1>1 DEF Holds
<1> QED
  BY <1>2 DEF Held

\* The abstract log is the committed one without a half-done maintenance command.
LEMMA AbstractLogFacts ==
    ASSUME IInv, MapInv
    PROVE  /\ AbstractLog \in Log /\ db.log \in Log
           /\ pc[Write] = "run2" => db.log = Append(AbstractLog, cur[Write])
           /\ pc[Write] # "run2" => AbstractLog = db.log
           /\ \A m : Store!Applied(m) <=> InLog(AbstractLog, m)
           /\ \A m : Store!Applied(m) => InLog(db.log, m)
<1>1. db.log \in Log
  BY DEF IInv, TypeOK, Image
<1>2. \A m : Store!Applied(m) <=> InLog(AbstractLog, m)
  BY DEF Store!Applied, InLog
<1>3. CASE pc[Write] # "run2"
  BY <1>1, <1>2, <1>3 DEF AbstractLog, HalfDone
<1>4. CASE pc[Write] = "run2"
  <2>1. PICK log \in Log : db.log = Append(log, cur[Write])
    BY <1>4 DEF MapInv
  <2>2. cur[Write] \in Cmd
    BY <1>4, WorkerFacts DEF IInv, BusyHasCommand, Busy
  <2>3. SubSeq(db.log, 1, Len(db.log) - 1) = log
    BY <2>1, <2>2 DEF Log
  <2>4. AbstractLog = log
    BY <1>4, <2>3 DEF AbstractLog, HalfDone
  <2>5. \A m : InLog(log, m) => InLog(Append(log, cur[Write]), m)
    BY <2>2, InLogAppend
  <2> QED
    BY <1>1, <1>2, <1>4, <2>1, <2>4, <2>5
<1> QED
  BY <1>3, <1>4

LEMMA UntouchedNotApplied ==
    ASSUME IInv, LogsInv, MapInv, NEW m \in Cmd, Untouched(m)
    PROVE  ~Store!Applied(m)
<1>1. Occurrences(db.log, m) = 0
  BY DEF LogsInv, UntouchedNowhere, Logs
<1>2. ~InLog(db.log, m)
  BY <1>1, AbstractLogFacts, OccurrencesType
<1> QED
  BY <1>2, AbstractLogFacts

\* What every step of the refinement starts from, and what it must show.
RefInv == IInv /\ TracesInv /\ SeenInv /\ MapInv
StoreStep == [Store!Next]_(Store!vars)

\* A step that the store does not see.
LEMMA Invisible ==
    ASSUME IInv, IInv', MapInv, UNCHANGED <<db, txn, saved, reqs, acked, refused, tainted>>,
           \A m \in Cmd : Held(m)' <=> Held(m),
           pc'[Write] = "run2" <=> pc[Write] = "run2",
           pc'[Write] = "run2" => cur'[Write] = cur[Write]
    PROVE  MapInv' /\ StoreStep
<1>1. Pending' = Pending
  BY PendingKept
<1>2. AbstractLog' = AbstractLog /\ SavedLogs' = SavedLogs
  BY DEF AbstractLog, HalfDone, SavedLogs
<1>3. UNCHANGED Store!vars
  BY <1>1, <1>2 DEF Store!vars
<1>4. MapInv'
  BY DEF MapInv
<1> QED
  BY <1>3, <1>4 DEF StoreStep

LEMMA SubmitMaps ==
    ASSUME RefInv, IInv', NEW c \in Client, NEW kind \in Kinds, Submit(c, kind)
    PROVE  MapInv' /\ StoreStep
<1> DEFINE cmd == [c |-> c, n |-> reqs + 1, kind |-> kind]
<1>1. /\ reqs' = reqs + 1 /\ reqs < MaxReq /\ reqs \in Nat /\ MaxReq \in Nat
      /\ UNCHANGED <<pc, cur, db, txn, saved, acked, tainted>>
  BY EngineAssumption DEF Submit, dbVars, RefInv, IInv, TypeOK
<1>2. cmd \in Commands /\ cmd \in Cmd /\ cmd.n > reqs
  BY <1>1, EngineAssumption DEF Commands, Cmd
<1>3. \/ /\ \A m \in Cmd : Held(m)' <=> Held(m)
         /\ refused' = refused \union {cmd}
      \/ /\ \A m \in Cmd : Held(m)' <=> Held(m) \/ m = cmd
         /\ UNCHANGED refused
  BY SubmitHeld DEF RefInv
<1> HIDE DEF cmd
<1>4. PendingIsHeld /\ PendingIsHeld'
  BY PendingHeld, PendingHeldNext DEF RefInv
<1>5. \/ Pending' = Pending /\ refused' = refused \union {cmd}
      \/ Pending' = Pending \union {cmd} /\ UNCHANGED refused
  <2>1. CASE (\A m \in Cmd : Held(m)' <=> Held(m)) /\ refused' = refused \union {cmd}
    BY <1>4, <2>1 DEF PendingIsHeld
  <2>2. CASE (\A m \in Cmd : Held(m)' <=> Held(m) \/ m = cmd) /\ UNCHANGED refused
    <3>1. \A m : m \in Pending' <=> m \in Pending \union {cmd}
      BY <1>2, <1>4, <2>2 DEF PendingIsHeld
    <3> QED
      BY <2>2, <3>1
  <2> QED
    BY <1>3, <2>1, <2>2
<1>6. ~Store!Applied(cmd)
  BY <1>2, UntouchedNotApplied DEF RefInv, TracesInv, Untouched
<1>7. cmd \notin Pending \union acked \union refused
  <2>1. cmd \notin acked \union refused
    BY <1>1, <1>2 DEF RefInv, TracesInv, PlacesInv, Known, Cmd
  <2>2. cmd \notin Pending
    BY <1>1, <1>2, <1>4 DEF PendingIsHeld, Held, RefInv, TracesInv, PlacesInv, Unanswered, Cmd
  <2> QED
    BY <2>1, <2>2
<1>8. AbstractLog' = AbstractLog /\ SavedLogs' = SavedLogs
  BY <1>1 DEF AbstractLog, HalfDone, SavedLogs
<1>9. Store!Call(cmd)
  BY <1>1, <1>5, <1>6, <1>7, <1>8 DEF Store!Call
<1>10. MapInv'
  <2>1. \A m \in Cmd : Held(m)' => m \in Commands
    BY <1>2, <1>3 DEF RefInv, MapInv
  <2> QED
    BY <1>1, <2>1 DEF RefInv, MapInv
<1> QED
  BY <1>2, <1>9, <1>10 DEF StoreStep, Store!Next

LEMMA StopWorkerMaps ==
    ASSUME RefInv, IInv', NEW w \in Workers, StopWorker(w)
    PROVE  MapInv' /\ StoreStep
<1>1. /\ pc[w] = "recv" /\ pc' = [pc EXCEPT ![w] = "stopped"]
      /\ refused' = refused \union Abandoned(w)
      /\ UNCHANGED <<cur, db, txn, saved, reqs, acked, tainted>>
  BY DEF StopWorker, dbVars
<1>2. /\ \A m \in Cmd : Held(m)' <=> Held(m) /\ m \notin Abandoned(w)
      /\ \A m \in Abandoned(w) : m \in Cmd /\ Held(m) /\ Untouched(m)
  BY StopWorkerHeld DEF RefInv, TracesInv
<1>3. PendingIsHeld /\ PendingIsHeld'
  BY PendingHeld, PendingHeldNext DEF RefInv
<1>4. Pending' = Pending \ Abandoned(w)
  <2>1. \A m : m \in Pending' <=> m \in Pending \ Abandoned(w)
    BY <1>2, <1>3 DEF PendingIsHeld
  <2> QED
    BY <2>1
<1>5. Abandoned(w) \in SUBSET {m \in Pending : ~Store!Applied(m)}
  BY <1>2, <1>3, UntouchedNotApplied DEF PendingIsHeld, RefInv, TracesInv
<1>6. pc'[Write] = "run2" <=> pc[Write] = "run2"
  BY <1>1, WorkerFacts DEF RefInv, IInv, TypeOK
<1>7. AbstractLog' = AbstractLog /\ SavedLogs' = SavedLogs
  BY <1>1, <1>6 DEF AbstractLog, HalfDone, SavedLogs
<1>8. Store!Abandon
  BY <1>1, <1>4, <1>5, <1>7 DEF Store!Abandon
<1>9. MapInv'
  BY <1>1, <1>2, <1>6 DEF RefInv, MapInv
<1> QED
  BY <1>8, <1>9 DEF StoreStep, Store!Next

\* The answer to the command in a worker's hand.
LEMMA AnswerMaps ==
    ASSUME RefInv, IInv', NEW w \in Workers, NEW r, NEW logs, pc[w] \in Busy, pc[w] # "run2",
           pc' = [pc EXCEPT ![w] = "recv"], Answered(cur[w], r, logs),
           w = Write => r = out[Write] /\ pc[Write] = "reply",
           UNCHANGED <<queue, cur, db, txn, saved, tainted>>
    PROVE  MapInv' /\ StoreStep
<1> DEFINE cmd == cur[w]
<1>1. /\ cmd \in Cmd /\ Held(cmd)
      /\ \A m \in Cmd : Held(m)' <=> Held(m) /\ m # cmd
  BY AnswerHeld DEF RefInv, TracesInv
<1>2. PendingIsHeld /\ PendingIsHeld'
  BY PendingHeld, PendingHeldNext DEF RefInv
<1>3. cmd \in Pending /\ cmd \in Commands /\ Pending' = Pending \ {cmd}
  <2>1. \A m : m \in Pending' <=> m \in Pending \ {cmd}
    BY <1>1, <1>2 DEF PendingIsHeld
  <2> QED
    BY <1>1, <1>2, <2>1 DEF PendingIsHeld, RefInv, MapInv
<1>4. pc'[Write] = "run2" <=> pc[Write] = "run2"
  BY WorkerFacts DEF RefInv, IInv, TypeOK
<1>5. AbstractLog' = AbstractLog /\ SavedLogs' = SavedLogs
  BY <1>4 DEF AbstractLog, HalfDone, SavedLogs
<1>6. \/ cmd \in WriteCommands /\ Store!Applied(cmd) /\ acked' = acked \union {cmd}
      \/ UNCHANGED acked
  <2>1. CASE r = "ok" /\ Changing(cmd.kind)
    <3>1. w = Write
      BY <1>1, <2>1 DEF Holds, RefInv, TracesInv, PlacesInv, Routed
    <3>2. InLog(db.log, cmd)
      BY <2>1, <3>1 DEF RefInv, MapInv, SeenInv, OkApplied
    <3>3. Store!Applied(cmd)
      BY <3>1, <3>2, AbstractLogFacts DEF RefInv
    <3> QED
      BY <1>3, <2>1, <3>3 DEF Answered, WriteCommands
  <2> QED
    BY <2>1 DEF Answered
<1>7. UNCHANGED <<reqs, refused>>
  BY DEF Answered
<1> HIDE DEF cmd
<1>8. Store!Answer(cmd)
  BY <1>3, <1>5, <1>6, <1>7 DEF Store!Answer
<1>9. MapInv'
  BY <1>1, <1>4, <1>7 DEF RefInv, MapInv
<1> QED
  BY <1>3, <1>8, <1>9 DEF StoreStep, Store!Next

\* A command body of one step takes effect at once, or not at all.
LEMMA WriteRunMaps ==
    ASSUME NoOpenTransactions, RefInv, IInv', NEW ok \in BOOLEAN, WriteRun(ok)
    PROVE  MapInv' /\ StoreStep
<1> DEFINE cmd == cur[Write]
<1>1. /\ pc[Write] = "run" /\ pc' = [pc EXCEPT ![Write] = "reply"]
      /\ UNCHANGED <<queue, cur, saved, reqs, acked, refused, tainted>>
  BY DEF WriteRun, clientVars
<1>2. /\ pc'[Write] = "reply"
      /\ \A v \in Workers : pc'[v] \in Busy <=> pc[v] \in Busy
  BY <1>1, WorkerFacts DEF RefInv, IInv, TypeOK, Busy
<1>3. cmd \in Cmd /\ Holds(Write, 0, cmd) /\ Held(cmd)
  BY <1>1, WorkerFacts DEF RefInv, IInv, BusyHasCommand, Busy, Holds, Held
<1>4. \A m \in Cmd : Held(m)' <=> Held(m)
  BY <1>1, <1>2, StillHeld DEF RefInv
<1>5. Pending' = Pending
  BY <1>4, PendingKept DEF RefInv
<1>6. cmd \in Commands /\ cmd \in Pending /\ cmd.kind \notin {"begin", "commit", "rollback"}
  <2>1. PendingIsHeld
    BY PendingHeld DEF RefInv
  <2>2. cmd \in Commands
    BY <1>3 DEF RefInv, MapInv
  <2> QED
    BY <1>3, <2>1, <2>2 DEF PendingIsHeld, Commands, NoOpenTransactions
<1>7. txn = "none" /\ view = db /\ DbType
  BY DEF RefInv, MapInv, IInv, AutocommitView, TypeOK, DbType
<1>8. UNCHANGED txn /\ (db'.log = db.log \/ (db'.log = Append(db.log, cmd) /\ Changing(cmd.kind)
                                             /\ cmd.kind # "maint"))
  <2>1. Change(Logged(cmd)) => UNCHANGED txn /\ db'.log = Append(db.log, cmd)
    BY <1>3, <1>7, ChangeWritten
  <2>2. Fails => UNCHANGED txn /\ db' = db
    BY <1>7 DEF Fails
  <2>3. ~PanicInTransaction(cmd)
    BY DEF PanicInTransaction, NoOpenTransactions
  <2>4. Login(ok) => UNCHANGED txn /\ db'.log = db.log
    BY <1>7, <2>2, LoginType DEF Login, Change
  <2>5. NoChange => UNCHANGED txn /\ db' = db
    BY DEF NoChange, dbVars
  <2> QED
    BY <1>6, <2>1, <2>2, <2>3, <2>4, <2>5
       DEF WriteRun, PlainStatement, CatalogTx, Changing
<1>9. AbstractLog = db.log /\ AbstractLog' = db'.log /\ SavedLogs' = SavedLogs /\ db.log \in Log
  BY <1>1, <1>2, AbstractLogFacts DEF RefInv, AbstractLog, HalfDone, SavedLogs
<1>10. MapInv'
  BY <1>1, <1>2, <1>4, <1>8 DEF RefInv, MapInv
<1>11. CASE db'.log = db.log
  BY <1>1, <1>5, <1>9, <1>10, <1>11 DEF StoreStep, Store!vars
<1>12. CASE db'.log = Append(db.log, cmd) /\ Changing(cmd.kind) /\ cmd.kind # "maint"
  <2>1. ~Store!Applied(cmd)
    BY <1>1, <1>3, WorkerFacts, UntouchedNotApplied
       DEF RefInv, TracesInv, Untouched, Begun
  <2>2. AbstractLog' = AbstractLog \o EffectOf(cmd)
    BY <1>3, <1>9, <1>12 DEF EffectOf, Log
  <2>3. Store!Apply(cmd)
    BY <1>1, <1>5, <1>6, <1>9, <1>12, <2>1, <2>2 DEF Store!Apply, WriteCommands
  <2> QED
    BY <1>6, <1>10, <2>3 DEF StoreStep, Store!Next
<1> QED
  BY <1>8, <1>11, <1>12

\* The first step of a maintenance command is not seen ...
LEMMA MaintBeginMaps ==
    ASSUME RefInv, IInv', MaintBegin
    PROVE  MapInv' /\ StoreStep
<1> DEFINE cmd == cur[Write]
<1>1. /\ pc[Write] = "run" /\ pc' = [pc EXCEPT ![Write] = "run2"]
      /\ Change(Logged(cmd))
      /\ UNCHANGED <<queue, cur, saved, reqs, acked, refused, tainted>>
  BY DEF MaintBegin, clientVars
<1>2. /\ pc'[Write] = "run2"
      /\ \A v \in Workers : pc'[v] \in Busy <=> pc[v] \in Busy
  BY <1>1, WorkerFacts DEF RefInv, IInv, TypeOK, Busy
<1>3. cmd \in Cmd /\ db.log \in Log /\ view = db /\ txn = "none" /\ DbType
  BY <1>1, WorkerFacts
     DEF RefInv, MapInv, IInv, BusyHasCommand, Busy, TypeOK, Image, DbType, AutocommitView
<1>4. \A m \in Cmd : Held(m)' <=> Held(m)
  BY <1>1, <1>2, StillHeld DEF RefInv
<1>5. Pending' = Pending
  BY <1>4, PendingKept DEF RefInv
<1>6. UNCHANGED txn /\ db'.log = Append(db.log, cmd)
  BY <1>1, <1>3, ChangeWritten
<1>7. AbstractLog' = AbstractLog /\ SavedLogs' = SavedLogs
  <2>1. SubSeq(Append(db.log, cmd), 1, Len(Append(db.log, cmd)) - 1) = db.log
    BY <1>3 DEF Log
  <2> QED
    BY <1>1, <1>2, <1>6, <2>1 DEF AbstractLog, HalfDone, SavedLogs
<1>8. MapInv'
  BY <1>1, <1>3, <1>4, <1>6 DEF RefInv, MapInv
<1> QED
  BY <1>1, <1>5, <1>7, <1>8 DEF StoreStep, Store!vars

\* ... and the second is when the store sees both.
LEMMA MaintEndMaps ==
    ASSUME NoOpenTransactions, RefInv, IInv', NEW ok \in BOOLEAN, MaintEnd(ok)
    PROVE  MapInv' /\ StoreStep
<1> DEFINE cmd == cur[Write]
<1>1. /\ pc[Write] = "run2" /\ pc' = [pc EXCEPT ![Write] = "reply"]
      /\ UNCHANGED <<queue, cur, saved, reqs, acked, refused, tainted>>
      /\ Change(Logged(cmd))
  BY DEF MaintEnd, clientVars, PanicInTransaction, NoOpenTransactions, RefInv, MapInv
<1>2. /\ pc'[Write] = "reply"
      /\ \A v \in Workers : pc'[v] \in Busy <=> pc[v] \in Busy
  BY <1>1, WorkerFacts DEF RefInv, IInv, TypeOK, Busy
<1>3. /\ cmd \in Cmd /\ Held(cmd) /\ db.log \in Log /\ view = db /\ txn = "none" /\ DbType
      /\ cmd.kind = "maint" /\ Occurrences(db.log, cmd) = 1
  BY <1>1, WorkerFacts
     DEF RefInv, MapInv, IInv, BusyHasCommand, Busy, TypeOK, Image, DbType, AutocommitView,
         Holds, Held, TracesInv, LogsInv, HalfMaint
<1>4. \A m \in Cmd : Held(m)' <=> Held(m)
  BY <1>1, <1>2, StillHeld DEF RefInv
<1>5. Pending' = Pending
  BY <1>4, PendingKept DEF RefInv
<1>6. UNCHANGED txn /\ db'.log = Append(db.log, cmd)
  BY <1>1, <1>3, ChangeWritten
<1>7. AbstractLog \in Log /\ db.log = Append(AbstractLog, cmd)
  BY <1>1, AbstractLogFacts DEF RefInv
<1>8. AbstractLog' = AbstractLog \o EffectOf(cmd) /\ SavedLogs' = SavedLogs
  <2>1. AbstractLog' = Append(Append(AbstractLog, cmd), cmd)
    BY <1>2, <1>6, <1>7 DEF AbstractLog, HalfDone
  <2>2. \A log \in Log : Append(Append(log, cmd), cmd) = log \o <<cmd, cmd>>
    BY <1>3 DEF Log
  <2> QED
    BY <1>1, <1>3, <1>7, <2>1, <2>2 DEF EffectOf, SavedLogs
<1>9. ~Store!Applied(cmd)
  <2>1. Occurrences(AbstractLog, cmd) = 0
    BY <1>3, <1>7, OccurrencesAppend, OccurrencesType
  <2> QED
    BY <1>7, <2>1, OccurrencesType, AbstractLogFacts DEF RefInv
<1>10. cmd \in Pending /\ cmd \in Commands
  BY <1>3, PendingHeld DEF PendingIsHeld, RefInv, MapInv
<1>11. Store!Apply(cmd)
  BY <1>1, <1>3, <1>5, <1>8, <1>9, <1>10 DEF Store!Apply, WriteCommands, Changing
<1>12. MapInv'
  BY <1>1, <1>2, <1>4, <1>6 DEF RefInv, MapInv
<1> QED
  BY <1>10, <1>11, <1>12 DEF StoreStep, Store!Next

\* A snapshot is published while no maintenance command is half done.
LEMMA PublishMaps ==
    ASSUME RefInv, IInv', Publish
    PROVE  MapInv' /\ StoreStep
<1>1. /\ pc[Snapshot] = "verify" /\ pc' = [pc EXCEPT ![Snapshot] = "reply"]
      /\ saved' = saved \union {exp}
      /\ UNCHANGED <<queue, cur, db, txn, reqs, acked, refused, tainted>>
  BY DEF Publish, dbVars, clientVars
<1>2. /\ pc'[Write] = pc[Write] /\ pc[Write] # "run2" /\ exp.data = db.log
      /\ \A v \in Workers : pc'[v] \in Busy <=> pc[v] \in Busy
  BY <1>1, WorkerFacts DEF RefInv, IInv, TypeOK, Busy, GateHeld, WritingUnderGate, ExportCurrent
<1>3. \A m \in Cmd : Held(m)' <=> Held(m)
  BY <1>1, <1>2, StillHeld DEF RefInv
<1>4. Pending' = Pending
  BY <1>3, PendingKept DEF RefInv
<1>5. AbstractLog' = AbstractLog /\ AbstractLog = db.log
  BY <1>1, <1>2 DEF AbstractLog, HalfDone
<1>6. SavedLogs' = SavedLogs \union {AbstractLog}
  BY <1>1, <1>2, <1>5 DEF SavedLogs
<1>7. Store!Save
  BY <1>1, <1>4, <1>5, <1>6 DEF Store!Save
<1>8. MapInv'
  BY <1>1, <1>2, <1>3 DEF RefInv, MapInv
<1> QED
  BY <1>7, <1>8 DEF StoreStep, Store!Next

LEMMA WorkerMaps ==
    ASSUME NoOpenTransactions, RefInv, IInv', NEW w \in Workers, WorkerStep(w)
    PROVE  MapInv' /\ StoreStep
<1>1. CASE Receive(w)
  <2>1. /\ UNCHANGED <<db, txn, saved, reqs, acked, refused, tainted>>
        /\ \E p \in {"gate", "run"} : pc' = [pc EXCEPT ![w] = p]
        /\ cur' = [cur EXCEPT ![w] = Head(queue[w])] /\ pc[w] = "recv"
    BY <1>1 DEF Receive, dbVars, clientVars
  <2>2. /\ pc'[Write] = "run2" <=> pc[Write] = "run2"
        /\ pc'[Write] = "run2" => cur'[Write] = cur[Write]
    BY <2>1, WorkerFacts DEF RefInv, IInv, TypeOK
  <2>3. \A m \in Cmd : Held(m)' <=> Held(m)
    BY <1>1, ReceiveHeld DEF RefInv
  <2> QED
    BY <2>1, <2>2, <2>3, Invisible DEF RefInv
<1>2. CASE StopWorker(w)
  BY <1>2, StopWorkerMaps
<1>3. CASE LockGate(w)
  <2>1. /\ UNCHANGED <<queue, cur, db, txn, saved, reqs, acked, refused, tainted>>
        /\ pc[w] = "gate" /\ pc' = [pc EXCEPT ![w] = "run"]
    BY <1>3 DEF LockGate, dbVars, clientVars
  <2>2. /\ pc'[Write] = "run2" <=> pc[Write] = "run2"
        /\ \A v \in Workers : pc'[v] \in Busy <=> pc[v] \in Busy
    BY <2>1, WorkerFacts DEF RefInv, IInv, TypeOK, Busy
  <2>3. \A m \in Cmd : Held(m)' <=> Held(m)
    BY <2>1, <2>2, StillHeld DEF RefInv
  <2> QED
    BY <2>1, <2>2, <2>3, Invisible DEF RefInv
<1>4. CASE WriteStep
  <2>1. CASE WriteReply
    <3>1. /\ pc[Write] = "reply" /\ pc' = [pc EXCEPT ![Write] = "recv"]
          /\ Answered(cur[Write], out[Write], {})
          /\ UNCHANGED <<queue, cur, db, txn, saved, tainted>>
      BY <2>1 DEF WriteReply, Reply, dbVars, RefInv, MapInv, IInv, TypeOK
    <3>2. pc[Write] \in Busy
      BY <3>1 DEF Busy
    <3> QED
      BY <3>1, <3>2, AnswerMaps, WorkerFacts
  <2> QED
    BY <1>4, <2>1, WriteRunMaps, MaintBeginMaps, MaintEndMaps DEF WriteStep
<1>5. CASE w \in Readers /\ ReadStep(w)
  <2>1. PICK ok \in BOOLEAN : ReadRun(w, ok)
    BY <1>5 DEF ReadStep
  <2>2. /\ pc[w] = "run" /\ pc' = [pc EXCEPT ![w] = "recv"]
        /\ \E r, logs : Answered(cur[w], r, logs)
        /\ UNCHANGED <<queue, cur, db, txn, saved, tainted>>
    BY <2>1 DEF ReadRun, dbVars
  <2>3. pc[w] \in Busy /\ w # Write
    BY <1>5, <2>2, WorkerFacts DEF Busy
  <2> QED
    BY <2>2, <2>3, AnswerMaps
<1>6. CASE SnapshotStep
  <2>1. CASE SnapshotReply
    <3>1. /\ pc[Snapshot] = "reply" /\ pc' = [pc EXCEPT ![Snapshot] = "recv"]
          /\ \E r, logs : Answered(cur[Snapshot], r, logs)
          /\ UNCHANGED <<queue, cur, db, txn, saved, tainted>>
      BY <2>1, WorkerFacts DEF SnapshotReply, Reply, dbVars, RefInv, MapInv, IInv, TypeOK
    <3>2. pc[Snapshot] \in Busy
      BY <3>1 DEF Busy
    <3> QED
      BY <3>1, <3>2, AnswerMaps, WorkerFacts
  <2>2. CASE SnapshotFail \/ ExportCatalog \/ ExportData
    <3>1. /\ UNCHANGED <<queue, cur, db, txn, saved, reqs, acked, refused, tainted>>
          /\ pc[Snapshot] \in {"run", "data", "verify"}
          /\ \E p \in {"data", "verify", "reply"} : pc' = [pc EXCEPT ![Snapshot] = p]
      BY <2>2 DEF SnapshotFail, ExportCatalog, ExportData, dbVars, clientVars
    <3>2. /\ pc'[Write] = pc[Write]
          /\ \A v \in Workers : pc'[v] \in Busy <=> pc[v] \in Busy
      BY <3>1, WorkerFacts DEF RefInv, IInv, TypeOK, Busy
    <3>3. \A m \in Cmd : Held(m)' <=> Held(m)
      BY <3>1, <3>2, StillHeld DEF RefInv
    <3> QED
      BY <3>1, <3>2, <3>3, Invisible DEF RefInv
  <2> QED
    BY <1>6, <2>1, <2>2, PublishMaps DEF SnapshotStep
<1> QED
  BY <1>1, <1>2, <1>3, <1>4, <1>5, <1>6 DEF WorkerStep

LEMMA NextMaps ==
    ASSUME NoOpenTransactions, RefInv, IInv', [Next]_vars
    PROVE  MapInv' /\ StoreStep
<1>1. CASE \E c \in Client, kind \in Kinds : Submit(c, kind)
  BY <1>1, SubmitMaps
<1>2. CASE \E w \in Workers : WorkerStep(w)
  BY <1>2, WorkerMaps
<1>3. CASE ShutdownBegin \/ ShutdownStep \/ UNCHANGED vars
  <2>1. UNCHANGED <<pc, cur, db, txn, saved, reqs, acked, refused, tainted>>
    BY <1>3 DEF ShutdownBegin, ShutdownStep, ShutdownSend, ShutdownJoin, vars, dbVars, clientVars
  <2>2. \A v \in Workers : queue'[v] \in {queue[v], Append(queue[v], ShutdownCmd)}
    BY <1>3 DEF ShutdownBegin, ShutdownStep, ShutdownSend, ShutdownJoin, vars, RefInv, IInv, TypeOK
  <2>3. \A m \in Cmd : Held(m)' <=> Held(m)
    BY <2>1, <2>2, StillHeld DEF RefInv
  <2> QED
    BY <2>1, <2>3, Invisible DEF RefInv
<1> QED
  BY <1>1, <1>2, <1>3 DEF Next

LEMMA InitMaps == Init => MapInv /\ Store!Init
<1> SUFFICES ASSUME Init PROVE MapInv /\ Store!Init
  OBVIOUS
<1>1. \A m : ~Held(m)
  BY DEF Init, Held, Holds, Busy
<1>2. pc[Write] = "recv"
  BY WorkerFacts DEF Init
<1>3. MapInv
  BY <1>1, <1>2, EngineAssumption DEF Init, MapInv
<1>4. Pending = {}
  BY <1>1, InitIInv, PendingHeld DEF PendingIsHeld
<1>5. AbstractLog = <<>> /\ SavedLogs = {}
  BY <1>2 DEF Init, AbstractLog, HalfDone, SavedLogs, EmptyImage
<1> QED
  BY <1>3, <1>4, <1>5 DEF Store!Init, Init

\* Every behaviour of the engine, shutdowns, failures and full queues included,
\* is one of a store that applies writes one at a time and whole, saves its own
\* states and answers Ok only for what it has applied, as long as no client can
\* leave a transaction open.
THEOREM EngineImplementsSerialStore ==
    ASSUME NoOpenTransactions
    PROVE  Spec => ImplementsSerialStore
<1>1. Init => MapInv /\ Store!Init
  BY InitMaps
<1>2. IInv /\ TracesInv /\ SeenInv /\ MapInv /\ IInv' /\ [Next]_vars => MapInv' /\ StoreStep
  BY NextMaps, NoOpenTransactions DEF RefInv
<1>3. Spec => [](IInv /\ TracesInv /\ SeenInv)
  BY InductiveInvariant, TracesInvariant, SeenInvariant, PTL
<1>4. Spec => []MapInv /\ [][Store!Next]_(Store!vars)
  BY <1>1, <1>2, <1>3, PTL DEF Spec, StoreStep
<1> QED
  BY <1>1, <1>4, PTL DEF Spec, ImplementsSerialStore, Store!Spec
=============================================================================
