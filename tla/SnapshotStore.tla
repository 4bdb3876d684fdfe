--------------------------- MODULE SnapshotStore ---------------------------
(***************************************************************************)
(* The snapshot directory and the processes that use it, across crashes    *)
(* and restarts: src/main.rs, and in src/db/snapshot.rs the save, the      *)
(* choice of the snapshot to restore and the offline password reset.       *)
(* One process runs at a time (ProcessLock) and a save copies one state of *)
(* the database (Engine); the database is the set of the writes it holds,  *)
(* a directory is known by the second in its name.                         *)
(***************************************************************************)
EXTENDS Naturals, Sequences, FiniteSets

CONSTANTS
    MaxTime,    \* bound: the last second of the clock
    MaxWrites,  \* bound: writes acknowledged, by every process together
    QueueSize,  \* snapshot_queue_size, at least 1
    Retain,     \* retain_hours, in units of the clock
    IOErrors    \* may file system operations and signal handlers fail?

ASSUME SnapshotStoreAssumption ==
    /\ MaxTime \in Nat /\ MaxWrites \in Nat
    /\ QueueSize \in Nat \ {0} /\ Retain \in Nat
    /\ IOErrors \in BOOLEAN

Writes == 1..MaxWrites

VARIABLES
    now,       \* chrono::Local::now(), in seconds
    snaps,     \* the directories with a final name
    tmp,       \* the seconds for which a .tmp directory exists
    up,        \* what the process of this directory is doing
    picked,    \* the snapshot find_latest_snapshot_dir chose, as a set
    mem,       \* the writes in the database
    count,     \* writes acknowledged so far
    asked,     \* callers in the snapshot queue, in order
    saver,     \* the save the snapshot worker is doing: [at, ts, by]
    per,       \* the periodic snapshot task
    cut,       \* the time its cleanup started
    shut,      \* the outcome of the snapshot before exit
    \* history
    before,    \* the writes in the database when the shutdown signal came
    published, \* every snapshot ever published: [ts, log]
    last,      \* the one published last, as a set
    missed     \* those a start could not read and took an older one, or none

storeVars == <<snaps, tmp, published, last>>
procVars == <<up, picked, shut, before, missed>>
dataVars == <<mem, count>>
taskVars == <<asked, saver, per, cut>>
vars == <<now, storeVars, procVars, dataVars, taskVars>>

Callers == {"periodic", "manual", "shutdown", "reset"}
Idle == [at |-> "idle", ts |-> 0, by |-> "manual"]

Init ==
    /\ now = 0
    /\ snaps = {} /\ tmp = {} /\ published = {} /\ last = {}
    /\ up = "down" /\ picked = {} /\ shut = "none" /\ before = {} /\ missed = {}
    /\ mem = {} /\ count = 0
    /\ asked = <<>> /\ saver = Idle /\ per = "tick" /\ cut = 0

-----------------------------------------------------------------------------
(***************************************************************************)
(* The clock, which is never set back, and the end of a process            *)
(***************************************************************************)
Tick ==
    /\ now < MaxTime /\ now' = now + 1
    /\ UNCHANGED <<storeVars, procVars, dataVars, taskVars>>

\* Whatever was in memory is gone, what is on disk stays as it is.
Ended ==
    /\ up' = "down" /\ picked' = {}
    /\ mem' = {}
    /\ asked' = <<>> /\ saver' = Idle /\ per' = "tick"
    /\ UNCHANGED <<now, storeVars, shut, before, missed, count, cut>>

\* The process is killed between any two steps.
Crash == up # "down" /\ Ended

-----------------------------------------------------------------------------
(***************************************************************************)
(* Start: main.rs picks a snapshot, restore_or_initialize loads it         *)
(***************************************************************************)

\* Mutant: the oldest snapshot.
OldestSnapshot(readable) ==
    {s \in readable : s.manifest /\ \A t \in readable : t.manifest => t.ts >= s.ts}

\* find_latest_snapshot_dir: the greatest timestamp among the final names with
\* a readable manifest.
LatestSnapshot(readable) ==
    {s \in readable : s.manifest /\ \A t \in readable : t.manifest => t.ts <= s.ts}

\* The snapshots a start would have taken but could not read.
Overlooked(unread, chosen) ==
    {[ts |-> s.ts, log |-> s.log] : s \in {u \in unread : \A t \in chosen : t.ts < u.ts}}

\* main (service) and run_reset_admin_password (reset), under the process lock.
\* A manifest or a directory entry that cannot be read is skipped, and a
\* directory that cannot be read (everything in it unread) counts as empty.
Start ==
    /\ up = "down"
    /\ \E unread \in SUBSET snaps :
         /\ IOErrors \/ unread = {}
         /\ picked' = LatestSnapshot(snaps \ unread)
         /\ missed' = missed \union Overlooked(unread, picked')
    /\ \/ up' = "starting"
       \/ up' = "resetting" /\ picked' # {}
    /\ UNCHANGED <<now, storeVars, shut, before, dataVars, taskVars>>

\* What restore_snapshot_v2 loads: a table whose data file is missing becomes
\* unavailable, and the restore goes on with the others.
Restored(log) ==
    IF \A s \in picked : s.whole THEN log = UNION {s.log : s \in picked}
                                 ELSE log \subseteq UNION {s.log : s \in picked}

\* restore_snapshot_v2, or a fresh catalog when there is no snapshot.
Restore ==
    /\ up = "starting"
    /\ mem' \in {log \in SUBSET Writes : Restored(log)}
    /\ up' = "serving" /\ shut' = "none" /\ before' = {}
    /\ UNCHANGED <<now, storeVars, picked, missed, count, taskVars>>

\* reset_admin_password_offline: restore, ALTER USER admin, save.
Reset ==
    /\ up = "resetting"
    /\ count < MaxWrites
    /\ count' = count + 1
    /\ mem' \in {log \union {count + 1} : log \in {l \in SUBSET Writes : Restored(l)}}
    /\ asked' = <<"reset">>
    /\ up' = "reset" /\ shut' = "none" /\ before' = {}
    /\ UNCHANGED <<now, storeVars, picked, missed, saver, per, cut>>

\* The catalog or a data file cannot be read: the process gives up.
StartFails ==
    /\ up \in {"starting", "resetting"}
    /\ IOErrors \/ \E s \in picked : ~s.whole
    /\ Ended

-----------------------------------------------------------------------------
(***************************************************************************)
(* Service                                                                 *)
(***************************************************************************)

\* After Abort the tasks are gone and the workers are being joined; a process is
\* stuck when its snapshot worker was not told to stop.
Aborted == up \in {"joining", "stuck"}
Serving == up \in {"serving", "closing", "stopping"} \/ Aborted

\* The snapshot worker holds the gate from the start of a save to its end.
Exporting == saver.at # "idle"

\* A write is applied and acknowledged.  Nothing stops writes before the
\* workers themselves stop: Web connections are drained after the shutdown
\* snapshot, MySQL sessions are not told.
Write ==
    /\ Serving
    /\ ~Exporting
    /\ count < MaxWrites
    /\ count' = count + 1
    /\ mem' = mem \union {count + 1}
    /\ UNCHANGED <<now, storeVars, procVars, taskVars>>

\* DbHandle::save_snapshot: try_send on the snapshot queue.
Accepted(by) == Len(asked) < QueueSize /\ asked' = Append(asked, by)
QueueFull == Len(asked) >= QueueSize /\ UNCHANGED asked

\* POST /snapshot.
AskManual ==
    /\ up \in {"serving", "closing", "stopping"}
    /\ Accepted("manual")
    /\ UNCHANGED <<now, storeVars, procVars, dataVars, saver, per, cut>>

\* The periodic task: an interval elapsed.
AskPeriodic ==
    /\ up \in {"serving", "closing", "stopping"}
    /\ per = "tick"
    /\ \/ Accepted("periodic") /\ per' = "saving" /\ UNCHANGED cut
       \/ QueueFull /\ per' = "cleaning" /\ cut' = now
    /\ UNCHANGED <<now, storeVars, procVars, dataVars, saver>>

\* wait_for_shutdown: the signal, and then the snapshot before exit.
AskShutdown ==
    /\ up = "serving"
    /\ before' = mem
    /\ \/ Accepted("shutdown") /\ up' = "closing" /\ shut' = "asked"
       \/ QueueFull /\ up' = "stopping" /\ shut' = "failed"
    /\ UNCHANGED <<now, storeVars, picked, missed, dataVars, saver, per, cut>>

\* "Listen shutdown signal failed": main goes on without a snapshot.
ListenFails ==
    /\ IOErrors
    /\ up = "serving"
    /\ up' = "stopping" /\ shut' = "failed"
    /\ UNCHANGED <<now, storeVars, picked, before, missed, dataVars, taskVars>>

-----------------------------------------------------------------------------
(***************************************************************************)
(* save_snapshot_blocking                                                  *)
(***************************************************************************)
NameTaken(ts) == ts \in tmp \/ \E s \in snaps : s.ts = ts

\* Mutants: a failure is taken for a success, or wakes no caller.
ResumeSaved(by, ok) ==
    /\ per' = IF by = "periodic" /\ ~Aborted THEN "cleaning" ELSE per
    /\ cut' = IF by = "periodic" /\ ~Aborted THEN now ELSE cut
    /\ shut' = IF by = "shutdown" THEN "saved" ELSE shut
    /\ up' = CASE by = "shutdown" -> "stopping"
               [] by = "reset"    -> "leaving"
               [] OTHER           -> up

ResumeOnSuccess(by, ok) ==
    IF ok THEN ResumeSaved(by, ok) ELSE UNCHANGED <<per, cut, shut, up>>

\* The caller awaiting the save resumes with its result.
Resume(by, ok) ==
    /\ per' = IF by = "periodic" /\ ~Aborted THEN "cleaning" ELSE per
    /\ cut' = IF by = "periodic" /\ ~Aborted THEN now ELSE cut
    /\ shut' = IF by = "shutdown" THEN (IF ok THEN "saved" ELSE "failed") ELSE shut
    /\ up' = CASE by = "shutdown" -> "stopping"
               [] by = "reset"    -> "leaving"
               [] OTHER           -> up

\* The name is free: the temporary directory is created.
SaveBegin ==
    /\ ~Exporting /\ asked # <<>>
    /\ ~NameTaken(now)
    /\ saver' = [at |-> "export", ts |-> now, by |-> Head(asked)]
    /\ asked' = Tail(asked)
    /\ tmp' = tmp \union {now}
    /\ UNCHANGED <<now, snaps, published, last, procVars, dataVars, per, cut>>

\* "snapshot target already exists": a snapshot of this second exists.
SaveRefused ==
    /\ ~Exporting /\ asked # <<>>
    /\ NameTaken(now)
    /\ asked' = Tail(asked)
    /\ Resume(Head(asked), FALSE)
    /\ UNCHANGED <<now, storeVars, picked, before, missed, dataVars, saver>>

\* Catalog and data are in the temporary directory, and then its manifest.
SaveExported ==
    /\ saver.at = "export"
    /\ saver' = [saver EXCEPT !.at = "manifest"]
    /\ UNCHANGED <<now, storeVars, procVars, dataVars, asked, per, cut>>

\* Any step fails: the temporary directory is removed, if it can be.
SaveFails ==
    /\ IOErrors
    /\ Exporting
    /\ tmp' \in {tmp, tmp \ {saver.ts}}
    /\ Resume(saver.by, FALSE)
    /\ saver' = Idle
    /\ UNCHANGED <<now, snaps, published, last, picked, before, missed, dataVars, asked>>

\* Mutant: the directory gets its final name before it is complete.
RenameEarly(at) == at \in {"export", "manifest"}

Renamable(at) == at = "manifest"

\* fs::rename to the final name.
SavePublish ==
    /\ Renamable(saver.at)
    /\ LET s == [ts |-> saver.ts, log |-> mem]
       IN  /\ snaps' = snaps \union
                       {[ts |-> s.ts, log |-> s.log, manifest |-> TRUE,
                         whole |-> saver.at = "manifest"]}
           /\ published' = published \union {s}
           /\ last' = {s}
    /\ tmp' = tmp \ {saver.ts}
    /\ Resume(saver.by, TRUE)
    /\ saver' = Idle
    /\ UNCHANGED <<now, picked, before, missed, dataVars, asked>>

-----------------------------------------------------------------------------
(***************************************************************************)
(* cleanup_old_snapshots, after every periodic save, failed or not         *)
(***************************************************************************)

Expired(ts, time) == ts + Retain < time

\* remove_dir_all takes the files of an expired directory away one by one ...
CleanSome ==
    /\ per = "cleaning"
    /\ \E s \in snaps :
         /\ Expired(s.ts, cut) /\ s.whole
         /\ \E m \in BOOLEAN :
              snaps' = (snaps \ {s}) \union {[s EXCEPT !.whole = FALSE, !.manifest = m]}
    /\ UNCHANGED <<now, tmp, published, last, procVars, dataVars, taskVars>>

\* ... and then the directory itself.
CleanOne ==
    /\ per = "cleaning"
    /\ \E s \in snaps : Expired(s.ts, cut) /\ ~s.whole /\ snaps' = snaps \ {s}
    /\ UNCHANGED <<now, tmp, published, last, procVars, dataVars, taskVars>>

CleanEnd ==
    /\ per = "cleaning"
    /\ IOErrors \/ \A s \in snaps : ~Expired(s.ts, cut)
    /\ per' = "tick"
    /\ UNCHANGED <<now, storeVars, procVars, dataVars, asked, saver, cut>>

-----------------------------------------------------------------------------
\* Joining the workers drains the snapshot queue; dropping the runtime lets a
\* running cleanup end.
Drained == asked = <<>> /\ ~Exporting /\ per # "cleaning"

\* The Web connections have ended: the tasks are aborted, the periodic one at
\* its next await, and DbEngine::shutdown tells the workers to stop and joins
\* them.  The snapshot worker is told by try_send, whose failure is ignored: with
\* a full queue the join has no end.
Abort ==
    /\ up = "stopping"
    /\ up' = IF Len(asked) < QueueSize THEN "joining" ELSE "stuck"
    /\ per' = IF per = "cleaning" THEN per ELSE "tick"
    /\ UNCHANGED <<now, storeVars, picked, shut, before, missed, dataVars, asked, saver, cut>>

\* The end of main, or of the offline command.
Stop ==
    /\ up \in {"joining", "leaving"}
    /\ Drained
    /\ Ended

Next ==
    \/ Tick \/ Crash
    \/ Start \/ Restore \/ Reset \/ StartFails
    \/ Write \/ AskManual \/ AskPeriodic \/ AskShutdown \/ ListenFails
    \/ SaveBegin \/ SaveRefused \/ SaveExported \/ SaveFails \/ SavePublish
    \/ CleanSome \/ CleanOne \/ CleanEnd
    \/ Abort \/ Stop

Spec == Init /\ [][Next]_vars

\* The snapshot worker, a cleanup and main are scheduled, and the last Web
\* connection ends; the clock and the callers owe nothing.
Fairness ==
    /\ WF_vars(SaveBegin \/ SaveRefused)
    /\ WF_vars(SaveExported \/ SavePublish)
    /\ WF_vars(CleanSome \/ CleanOne \/ CleanEnd)
    /\ WF_vars(Abort) /\ WF_vars(Stop)

FairSpec == Spec /\ Fairness

-----------------------------------------------------------------------------
(***************************************************************************)
(* Properties                                                              *)
(***************************************************************************)
\* Not older than retain_hours.
Fresh(s) == s.ts + Retain >= now

\* A process starts from something that was published as a whole; it may fail
\* to start only on a snapshot that had expired.
StartsFromPublished ==
    \A s \in picked :
        /\ [ts |-> s.ts, log |-> s.log] \in published
        /\ s.whole \/ ~Fresh(s)

\* What a snapshot that has not expired holds, an offline password reset
\* included, survives every crash, restart and clean-up, unless a start
\* overlooked that very snapshot.
SavedSurvives ==
    Serving => \A s \in published \ missed : Fresh(s) => s.log \subseteq mem

\* Once the snapshot before exit was saved, and until it expires, a start that
\* does not overlook it chooses a snapshot with every write acknowledged before
\* the signal, whatever ended the process.
ShutdownCovers ==
    (/\ up \in {"starting", "resetting"}
     /\ shut = "saved"
     /\ \A s \in last : Fresh(s) /\ s \notin missed)
        => \E s \in picked : before \subseteq s.log

\* The signal leads to the end of the process, or to a join that has none since
\* the queue of the snapshot worker was full when it was to be told to stop.
ShutdownEnds == up = "closing" ~> up \in {"down", "stuck"}

=============================================================================
