-------------------------- MODULE EngineRefinement --------------------------
(***************************************************************************)
(* How Engine implements SerialStore.  The first step of a maintenance     *)
(* command is invisible to the abstract store until the second is done;    *)
(* everything else maps one to one.                                        *)
(***************************************************************************)
EXTENDS Engine

\* What the clients can issue.
Commands == [c : Client, n : 1..MaxReq, kind : Kinds]
WriteCommands == {m \in Commands : Changing(m.kind)}

\* The changes a write leaves in the log.
EffectOf(m) == IF m.kind = "maint" THEN <<m, m>> ELSE <<m>>

HalfDone == pc[Write] = "run2"
AbstractLog == IF HalfDone THEN SubSeq(db.log, 1, Len(db.log) - 1) ELSE db.log

SavedLogs == {s.data : s \in saved}

Queued == UNION {{queue[w][i] : i \in DOMAIN queue[w]} \ {ShutdownCmd} : w \in Workers}
InHand == {cur[w] : w \in {v \in Workers : pc[v] \notin {"recv", "stopped"}}}
Pending == Queued \union InHand

Store == INSTANCE SerialStore WITH
    Command  <- Commands,
    WriteCmd <- WriteCommands,
    Effect   <- EffectOf,
    log      <- AbstractLog,
    saved    <- SavedLogs,
    pending  <- Pending

\* Every behaviour of the engine is one of the serial store: writes one at a
\* time and whole, snapshots of one instant, Ok only for what is applied
\* (engine.rs, worker.rs).  It is so when no client leaves a transaction open:
\* no transaction statement is sent and no command body panics.
ImplementsSerialStore == Store!Spec
=============================================================================
