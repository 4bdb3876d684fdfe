---------------------------- MODULE ProcessLock ----------------------------
(***************************************************************************)
(* src/process_lock.rs: the lock of a working directory.  A process opens  *)
(* (and creates) .rsduck.lock.guard, takes an exclusive advisory lock on   *)
(* it and writes .rsduck.lock; dropping the lock removes the metadata,     *)
(* unlocks, closes, and only then removes the guard file.  The advisory    *)
(* lock belongs to the file that was opened, not to its path, and the      *)
(* operating system releases it when its process ends (POSIX semantics).   *)
(***************************************************************************)
EXTENDS Naturals, FiniteSets

CONSTANTS
    Proc,    \* processes started in the directory (service or reset-admin-password)
    File,    \* identities of guard files; one may be reused once nothing refers to it
    NoProc, NoFile

\* Enough files for one at the path and one opened by each process.
ASSUME ProcessLockAssumption ==
    /\ IsFiniteSet(Proc) /\ IsFiniteSet(File)
    /\ Cardinality(File) > Cardinality(Proc)
    /\ NoProc \notin Proc /\ NoFile \notin File

VARIABLES
    guard,    \* the file the guard path names, or NoFile
    meta,     \* the process .rsduck.lock names, NoProc if absent or being written
    lock,     \* lock[f]: the process holding the advisory lock of file f
    fd,       \* fd[p]: the guard file p has open
    pc,       \* pc[p]: where p is in acquire, holding, or drop
    raced     \* history: was a lock taken between another's unlock and its
              \* removal of the guard, or on a guard already removed?

lockVars == <<guard, meta, lock, fd, pc, raced>>

LockInit ==
    /\ guard = NoFile /\ meta = NoProc
    /\ lock = [f \in File |-> NoProc]
    /\ fd = [p \in Proc |-> NoFile]
    /\ pc = [p \in Proc |-> "out"]
    /\ raced = FALSE

\* The end of the descriptor of p: its advisory lock goes with it.
Close(p) ==
    /\ fd' = [fd EXCEPT ![p] = NoFile]
    /\ lock' = [f \in File |-> IF lock[f] = p THEN NoProc ELSE lock[f]]

-----------------------------------------------------------------------------
\* OpenOptions::create(true).open(&guard_path).
OpenGuard(p) ==
    /\ pc[p] = "out"
    /\ guard' \in IF guard # NoFile THEN {guard}
                  ELSE File \ {fd[q] : q \in Proc}
    /\ fd' = [fd EXCEPT ![p] = guard']
    /\ pc' = [pc EXCEPT ![p] = "opened"]
    /\ UNCHANGED <<meta, lock, raced>>

\* Mutant: the result of try_lock_exclusive is ignored.
LockAnyway(p) == TRUE

LockFree(p) == lock[fd[p]] = NoProc

\* try_lock_exclusive; the guard is not looked at again.
TryLock(p) ==
    /\ pc[p] = "opened"
    /\ LockFree(p)
    /\ lock' = [lock EXCEPT ![fd[p]] = p]
    /\ pc' = [pc EXCEPT ![p] = "locked"]
    /\ raced' = (raced \/ fd[p] # guard \/ \E q \in Proc : pc[q] = "unlocked")
    /\ UNCHANGED <<guard, meta, fd>>

\* The lock is held: acquire returns the error that names the holder.
Refused(p) ==
    /\ pc[p] = "opened"
    /\ ~LockFree(p)
    /\ Close(p)
    /\ pc' = [pc EXCEPT ![p] = "out"]
    /\ UNCHANGED <<guard, meta, raced>>

\* Mutant: the metadata is truncated before the lock is known to be ours.
OpenMetaEarly(p) ==
    /\ pc[p] \in {"opened", "locked"}
    /\ meta' = NoProc
    /\ pc' = [pc EXCEPT ![p] = IF @ = "locked" THEN "writing" ELSE @]
    /\ UNCHANGED <<guard, lock, fd, raced>>

\* Open the metadata file with truncate(true).
OpenMeta(p) ==
    /\ pc[p] = "locked"
    /\ meta' = NoProc
    /\ pc' = [pc EXCEPT ![p] = "writing"]
    /\ UNCHANGED <<guard, lock, fd, raced>>

\* write_all and sync_all of the payload, then of the guard file.
WriteMeta(p) ==
    /\ pc[p] = "writing"
    /\ meta' = p
    /\ pc' = [pc EXCEPT ![p] = "held"]
    /\ UNCHANGED <<guard, lock, fd, raced>>

\* An I/O error after the lock was taken: acquire returns Err and drops
\* guard_file; both files stay.
Fail(p) ==
    /\ pc[p] \in {"locked", "writing"}
    /\ Close(p)
    /\ pc' = [pc EXCEPT ![p] = "out"]
    /\ UNCHANGED <<guard, meta, raced>>

-----------------------------------------------------------------------------
\* Drop, first the metadata ...
RemoveMeta(p) ==
    /\ pc[p] = "held"
    /\ meta' = NoProc
    /\ pc' = [pc EXCEPT ![p] = "unlocking"]
    /\ UNCHANGED <<guard, lock, fd, raced>>

\* ... then unlock and close ...
Unlock(p) ==
    /\ pc[p] = "unlocking"
    /\ Close(p)
    /\ pc' = [pc EXCEPT ![p] = "unlocked"]
    /\ UNCHANGED <<guard, meta, raced>>

\* ... and then the file that is at the guard path by now.
RemoveGuard(p) ==
    /\ pc[p] = "unlocked"
    /\ guard' = NoFile
    /\ pc' = [pc EXCEPT ![p] = "out"]
    /\ UNCHANGED <<meta, lock, fd, raced>>

\* The process is killed, or leaves by process::exit: no Drop runs.
Killed(p) ==
    /\ pc[p] # "out"
    /\ Close(p)
    /\ pc' = [pc EXCEPT ![p] = "out"]
    /\ UNCHANGED <<guard, meta, raced>>

Step(p) ==
    \/ OpenGuard(p) \/ TryLock(p) \/ Refused(p) \/ OpenMeta(p) \/ WriteMeta(p) \/ Fail(p)
    \/ RemoveMeta(p) \/ Unlock(p) \/ RemoveGuard(p) \/ Killed(p)

LockNext == \E p \in Proc : Step(p)

LockSpec == LockInit /\ [][LockNext]_lockVars

-----------------------------------------------------------------------------
(***************************************************************************)
(* Properties                                                              *)
(***************************************************************************)
States == {"out", "opened", "locked", "writing", "held", "unlocking", "unlocked"}

\* Every variable has its type; a process has the guard open exactly from its
\* open to its close, and owns only the lock of the file it has open.
LockTypeOK ==
    /\ guard \in File \union {NoFile}
    /\ meta \in Proc \union {NoProc}
    /\ lock \in [File -> Proc \union {NoProc}]
    /\ fd \in [Proc -> File \union {NoFile}]
    /\ pc \in [Proc -> States]
    /\ raced \in BOOLEAN
    /\ \A p \in Proc : fd[p] = NoFile <=> pc[p] \in {"out", "unlocked"}
    /\ \A f \in File : lock[f] # NoProc => fd[lock[f]] = f

\* From acquire's success until its Drop unlocks.
Holding(p) == pc[p] \in {"held", "unlocking"}
Locked(p) == pc[p] \in {"locked", "writing"} \/ Holding(p)

\* Two processes run in the directory only if a lock was taken between the
\* unlock of a third and its removal of the guard file.
UnracedExclusion ==
    ~raced => \A p, q \in Proc : Holding(p) /\ Holding(q) => p = q

\* At any time at most one running process has its lock on the file that is
\* at the guard path, so that a newcomer is refused while that one runs.
GuardedExclusion ==
    \A p, q \in Proc :
        Holding(p) /\ Holding(q) /\ fd[p] = guard /\ fd[q] = guard => p = q

\* Without that race .rsduck.lock names the process that runs.
HolderNamed == ~raced => \A p \in Proc : pc[p] = "held" => meta = p

=============================================================================
