-------------------------- MODULE LifeCycleProofs --------------------------
(***************************************************************************)
(* Theorems about the life of the processes of a working directory: the    *)
(* lock that lets one of them run (ProcessLock, for any number of          *)
(* processes), and the snapshots they leave to each other across crashes   *)
(* and restarts (SnapshotStore, for any length of history).                *)
(***************************************************************************)
EXTENDS ProcessLock, SnapshotStore, WellFoundedInduction, TLAPS

-----------------------------------------------------------------------------
(***************************************************************************)
(* The process lock                                                        *)
(***************************************************************************)

\* A process past try_lock_exclusive owns the lock of the file it has open.
OwnsLock == \A p \in Proc : Locked(p) => lock[fd[p]] = p

\* While no lock was taken in the window of a Drop, every lock is on the file
\* at the guard path, and nobody has a lock while a removal is pending.
GuardIntact ==
    ~raced => /\ \A p \in Proc : Locked(p) => fd[p] = guard
              /\ \A p, q \in Proc : Locked(p) => pc[q] # "unlocked"

LockInv == LockTypeOK /\ OwnsLock /\ GuardIntact /\ HolderNamed

-----------------------------------------------------------------------------
\* Without the race only one process has a lock at all.
LEMMA OneLocked ==
    ASSUME OwnsLock, GuardIntact, ~raced,
           NEW p \in Proc, NEW q \in Proc, Locked(p), Locked(q)
    PROVE  p = q
BY DEF OwnsLock, GuardIntact

LEMMA InitLockInv ==
    ASSUME LockInit
    PROVE  LockInv
BY ProcessLockAssumption DEF LockInit, LockInv, LockTypeOK, States, OwnsLock,
       GuardIntact, HolderNamed, Locked, Holding

LEMMA OpenGuardStep ==
    ASSUME LockInv, NEW p \in Proc, OpenGuard(p)
    PROVE  LockInv'
<1>1. /\ pc[p] = "out" /\ guard' \in File /\ fd' = [fd EXCEPT ![p] = guard']
      /\ pc' = [pc EXCEPT ![p] = "opened"] /\ UNCHANGED <<meta, lock, raced>>
      /\ guard = NoFile \/ guard' = guard
  BY DEF OpenGuard, LockInv, LockTypeOK
<1>2. LockTypeOK'
  BY <1>1, ProcessLockAssumption DEF LockInv, LockTypeOK, States
<1>3. OwnsLock' /\ HolderNamed'
  BY <1>1 DEF LockInv, LockTypeOK, OwnsLock, HolderNamed, Locked, Holding
<1>4. GuardIntact'
  <2>1. \A q \in Proc : Locked(q) => fd[q] # NoFile
    BY DEF LockInv, LockTypeOK, Locked, Holding
  <2> QED
    BY <1>1, <2>1 DEF LockInv, LockTypeOK, GuardIntact, Locked, Holding
<1> QED
  BY <1>2, <1>3, <1>4 DEF LockInv

LEMMA TryLockStep ==
    ASSUME LockInv, NEW p \in Proc, TryLock(p)
    PROVE  LockInv'
<1>1. /\ pc[p] = "opened" /\ lock[fd[p]] = NoProc /\ lock' = [lock EXCEPT ![fd[p]] = p]
      /\ pc' = [pc EXCEPT ![p] = "locked"] /\ UNCHANGED <<guard, meta, fd>>
      /\ raced' \in BOOLEAN
      /\ ~raced' => ~raced /\ fd[p] = guard /\ \A q \in Proc : pc[q] # "unlocked"
  BY DEF TryLock, LockFree, LockInv, LockTypeOK
<1>2. fd[p] \in File
  BY <1>1 DEF LockInv, LockTypeOK
<1>3. LockTypeOK'
  BY <1>1, <1>2, ProcessLockAssumption DEF LockInv, LockTypeOK, States
<1>4. OwnsLock'
  <2>1. \A q \in Proc : Locked(q) => fd[q] # fd[p]
    BY <1>1, ProcessLockAssumption DEF LockInv, OwnsLock
  <2> QED
    BY <1>1, <1>2, <2>1 DEF LockInv, LockTypeOK, OwnsLock, Locked, Holding
<1>5. GuardIntact' /\ HolderNamed'
  BY <1>1 DEF LockInv, LockTypeOK, GuardIntact, HolderNamed, Locked, Holding
<1> QED
  BY <1>3, <1>4, <1>5 DEF LockInv

\* Steps that end the descriptor of p and leave the guard path alone.
LEMMA CloseStep ==
    ASSUME LockInv, NEW p \in Proc, NEW s \in {"out", "unlocked"},
           Close(p), pc' = [pc EXCEPT ![p] = s], UNCHANGED <<guard, meta, raced>>,
           s = "unlocked" => Locked(p)
    PROVE  LockInv'
<1>1. LockTypeOK'
  BY ProcessLockAssumption DEF Close, LockInv, LockTypeOK, States
<1>2. ASSUME NEW q \in Proc, Locked(q)'
      PROVE  Locked(q) /\ q # p /\ fd'[q] = fd[q]
  BY <1>2 DEF Close, LockInv, LockTypeOK, Locked, Holding
<1>3. OwnsLock'
  <2> SUFFICES ASSUME NEW q \in Proc, Locked(q)'
               PROVE  lock'[fd'[q]] = q
    BY DEF OwnsLock
  <2>1. fd[q] \in File /\ lock[fd[q]] = q /\ q # p /\ fd'[q] = fd[q]
    BY <1>2 DEF LockInv, LockTypeOK, OwnsLock, Locked, Holding
  <2> QED
    BY <2>1 DEF Close
<1>4. GuardIntact'
  <2> SUFFICES ASSUME ~raced', NEW q \in Proc, Locked(q)', NEW r \in Proc
               PROVE  fd'[q] = guard' /\ pc'[r] # "unlocked"
    BY DEF GuardIntact
  <2>1. ~raced /\ Locked(q) /\ q # p /\ fd'[q] = fd[q]
    BY <1>2
  <2>2. ~Locked(p)
    BY <2>1, OneLocked DEF LockInv
  <2> QED
    BY <2>1, <2>2 DEF LockInv, LockTypeOK, GuardIntact
<1>5. HolderNamed'
  BY DEF LockInv, LockTypeOK, HolderNamed
<1> QED
  BY <1>1, <1>3, <1>4, <1>5 DEF LockInv

\* Steps of the process that has the lock, on the metadata.
LEMMA MetaStep ==
    ASSUME LockInv, NEW p \in Proc,
        OpenMeta(p) \/ WriteMeta(p) \/ RemoveMeta(p)
    PROVE  LockInv'
<1>1. LockTypeOK'
  BY ProcessLockAssumption DEF OpenMeta, WriteMeta, RemoveMeta, LockInv,
         LockTypeOK, States
<1>2. Locked(p)
  BY DEF OpenMeta, WriteMeta, RemoveMeta, Locked, Holding
<1>3. UNCHANGED <<guard, lock, fd, raced>>
  BY DEF OpenMeta, WriteMeta, RemoveMeta
<1>4. OwnsLock' /\ GuardIntact'
  BY <1>3 DEF OpenMeta, WriteMeta, RemoveMeta, LockInv, LockTypeOK, OwnsLock,
              GuardIntact, Locked, Holding
<1>5. HolderNamed'
  <2> SUFFICES ASSUME ~raced', NEW q \in Proc, pc'[q] = "held"
               PROVE  meta' = q
    BY DEF HolderNamed
  <2>1. Locked(q)
    BY DEF OpenMeta, WriteMeta, RemoveMeta, LockInv, LockTypeOK, Locked,
           Holding
  <2>2. q = p
    BY <1>2, <1>3, <2>1, OneLocked DEF LockInv
  <2> QED
    BY <2>2 DEF OpenMeta, WriteMeta, RemoveMeta, LockInv, LockTypeOK
<1> QED
  BY <1>1, <1>4, <1>5 DEF LockInv

LEMMA RemoveGuardStep ==
    ASSUME LockInv, NEW p \in Proc, RemoveGuard(p)
    PROVE  LockInv'
<1>1. /\ pc[p] = "unlocked" /\ guard' = NoFile /\ pc' = [pc EXCEPT ![p] = "out"]
      /\ UNCHANGED <<meta, lock, fd, raced>>
  BY DEF RemoveGuard
<1>2. LockTypeOK'
  BY <1>1, ProcessLockAssumption DEF LockInv, LockTypeOK, States
<1>3. OwnsLock' /\ HolderNamed'
  BY <1>1 DEF LockInv, LockTypeOK, OwnsLock, HolderNamed, Locked, Holding
<1>4. GuardIntact'
  BY <1>1 DEF LockInv, LockTypeOK, GuardIntact, Locked, Holding
<1> QED
  BY <1>2, <1>3, <1>4 DEF LockInv

LEMMA NextLockInv ==
    ASSUME LockInv, [LockNext]_lockVars
    PROVE  LockInv'
<1>1. ASSUME NEW p \in Proc, Step(p)
      PROVE  LockInv'
  <2>1. CASE OpenGuard(p)
    BY <2>1, OpenGuardStep
  <2>2. CASE TryLock(p)
    BY <2>2, TryLockStep
  <2>3. CASE Refused(p) \/ Fail(p) \/ Killed(p)
    BY <2>3, CloseStep DEF Refused, Fail, Killed
  <2>4. CASE OpenMeta(p) \/ WriteMeta(p) \/ RemoveMeta(p)
    BY <2>4, MetaStep
  <2>5. CASE Unlock(p)
    <3>1. Locked(p) /\ Close(p) /\ pc' = [pc EXCEPT ![p] = "unlocked"]
          /\ UNCHANGED <<guard, meta, raced>>
      BY <2>5 DEF Unlock, Locked, Holding
    <3> QED
      BY <3>1, CloseStep
  <2>6. CASE RemoveGuard(p)
    BY <2>6, RemoveGuardStep
  <2> QED
    BY <1>1, <2>1, <2>2, <2>3, <2>4, <2>5, <2>6 DEF Step
<1>2. CASE UNCHANGED lockVars
  BY <1>2 DEF lockVars, LockInv, LockTypeOK, OwnsLock, GuardIntact, HolderNamed,
              Locked, Holding
<1> QED
  BY <1>1, <1>2 DEF LockNext

-----------------------------------------------------------------------------
\* LockInv is an inductive invariant of the process lock.
THEOREM LockInvariant == LockSpec => []LockInv
<1>1. LockInit => LockInv
  BY InitLockInv
<1>2. LockInv /\ [LockNext]_lockVars => LockInv'
  BY NextLockInv
<1> QED
  BY <1>1, <1>2, PTL DEF LockSpec

\* The only way to two running processes is the race of ProcessLock's Drop:
\* however many processes start, end, fail or are killed, there is one holder
\* unless a lock was taken between an unlock and the removal of the guard.
THEOREM ExclusionUnlessRaced == LockSpec => []UnracedExclusion
<1>1. LockInv => UnracedExclusion
  BY OneLocked DEF LockInv, UnracedExclusion, Locked
<1> QED
  BY <1>1, LockInvariant, PTL

\* Even after that race at most one running process holds its lock on the file
\* at the guard path.
THEOREM OneGuardedHolder == LockSpec => []GuardedExclusion
<1>1. LockInv => GuardedExclusion
  BY DEF LockInv, OwnsLock, GuardedExclusion, Locked
<1> QED
  BY <1>1, LockInvariant, PTL

\* Without that race the metadata file names the running process.
THEOREM HolderIsNamed == LockSpec => []HolderNamed
<1>1. LockInv => HolderNamed
  BY DEF LockInv
<1> QED
  BY <1>1, LockInvariant, PTL

-----------------------------------------------------------------------------
(***************************************************************************)
(* The snapshot store                                                      *)
(***************************************************************************)

\* A process that has its database: the service, and an offline password reset
\* that has restored.
Starting == up \in {"starting", "resetting"}
Live == Serving \/ up \in {"reset", "leaving"}

\* Directories hold what was published; one that is not whole has expired.
SnapsPublished ==
    \A s \in snaps :
        /\ [ts |-> s.ts, log |-> s.log] \in published
        /\ s.whole \/ ~Fresh(s)

\* What has not expired is still there as it was published.
FreshThere ==
    \A p \in published :
        Fresh(p) => \E s \in snaps : s.ts = p.ts /\ s.log = p.log /\ s.manifest /\ s.whole

\* The last one published is the latest, and a save in progress will be later.
LastIsLatest ==
    /\ last = {} => published = {}
    /\ \A s \in last : s \in published /\ \A p \in published : p.ts <= s.ts
    /\ \A p \in published : p.ts <= now
    /\ saver.at # "idle" => saver.ts <= now /\ \A p \in published : p.ts < saver.ts

\* A later snapshot has what an earlier one has that has not expired, unless a
\* start has overlooked the earlier one.
Cumulative ==
    \A p \in published \ missed, q \in published :
        Fresh(p) /\ p.ts <= q.ts => p.log \subseteq q.log

\* And so have the snapshot a process starts from, which then has not expired
\* either, and the database it then has.
PickCovers ==
    Starting => \A p \in published \ missed :
        Fresh(p) => \E s \in picked : p.ts <= s.ts /\ p.log \subseteq s.log
MemCovers ==
    Live => \A p \in published \ missed : Fresh(p) => p.log \subseteq mem

\* A process loads what one second saved; what is overlooked was published.
OnePicked == \A s, t \in picked : s.ts = t.ts
MissedEarlier == missed \subseteq published

\* The shutdown snapshot has the writes before the signal.
BeforeKept ==
    /\ Live => before \subseteq mem
    /\ shut = "saved" => last # {} /\ \A s \in last : before \subseteq s.log

\* Saves and clean-ups are the work of a process that has its database.
TasksLive ==
    /\ ~Live => asked = <<>> /\ saver.at = "idle" /\ per = "tick"
    /\ cut <= now

TypeOK ==
    /\ now \in Nat /\ cut \in Nat /\ count \in Nat
    /\ snaps \subseteq [ts : Nat, log : SUBSET Nat, manifest : BOOLEAN, whole : BOOLEAN]
    /\ picked \subseteq [ts : Nat, log : SUBSET Nat, manifest : BOOLEAN, whole : BOOLEAN]
    /\ published \subseteq [ts : Nat, log : SUBSET Nat]
    /\ mem \subseteq Nat /\ before \subseteq Nat
    /\ saver \in [at : {"idle", "export", "manifest"}, ts : Nat, by : Callers]
    /\ asked \in Seq(Callers)
    /\ up \in {"down", "starting", "resetting", "serving", "closing", "stopping", "joining",
               "stuck", "reset", "leaving"}
    /\ per \in {"tick", "saving", "cleaning"}
    /\ shut \in {"none", "asked", "saved", "failed"}

Inv ==
    /\ TypeOK
    /\ SnapsPublished /\ FreshThere /\ LastIsLatest /\ Cumulative
    /\ PickCovers /\ MemCovers /\ OnePicked /\ MissedEarlier /\ BeforeKept /\ TasksLive
    /\ StartsFromPublished

-----------------------------------------------------------------------------
LEMMA InitInv == Init => Inv
BY SnapshotStoreAssumption
   DEF Init, Idle, Callers, Inv, TypeOK, SnapsPublished, FreshThere, LastIsLatest, Cumulative,
       PickCovers, MemCovers, OnePicked, MissedEarlier, BeforeKept, TasksLive,
       StartsFromPublished, Starting, Live, Serving, Aborted

\* A step that changes nothing on disk, nor the database, of a process that has it.
LEMMA WorkStep ==
    ASSUME Inv, TypeOK', Live, Live', UNCHANGED <<now, snaps, published, last, missed, picked, mem>>,
           before' \in {before, mem}, cut' \in {cut, now},
           shut' = "saved" => shut = "saved" /\ before' = before,
           saver'.at # "idle" =>
               \/ saver'.ts = saver.ts /\ saver.at # "idle"
               \/ saver'.ts = now /\ ~NameTaken(now)
    PROVE  Inv'
<1>1. SnapsPublished' /\ FreshThere' /\ Cumulative' /\ StartsFromPublished'
  BY DEF Inv, SnapsPublished, FreshThere, Cumulative, StartsFromPublished, Fresh
<1>2. LastIsLatest'
  <2>1. CASE saver'.ts = now /\ ~NameTaken(now)
    <3>1. \A p \in published : p.ts # now
      <4> SUFFICES ASSUME NEW p \in published, p.ts = now PROVE FALSE
        OBVIOUS
      <4>1. Fresh(p)
        BY SnapshotStoreAssumption DEF Fresh, Inv, TypeOK
      <4> QED
        BY <2>1, <4>1 DEF Inv, FreshThere, NameTaken
    <3>2. \A p \in published : p.ts < now
      BY <3>1 DEF Inv, LastIsLatest, TypeOK
    <3> QED
      BY <2>1, <3>2 DEF Inv, LastIsLatest, TypeOK
  <2>2. CASE saver'.at # "idle" => saver'.ts = saver.ts /\ saver.at # "idle"
    BY <2>2 DEF Inv, LastIsLatest
  <2> QED
    BY <2>1, <2>2
<1>3. PickCovers' /\ OnePicked' /\ MissedEarlier'
  BY DEF Inv, PickCovers, OnePicked, MissedEarlier, Live, Serving, Aborted, Starting
<1>4. MemCovers' /\ BeforeKept'
  BY DEF Inv, MemCovers, BeforeKept, Fresh
<1>5. TasksLive'
  BY DEF Inv, TasksLive, TypeOK
<1> QED
  BY <1>1, <1>2, <1>3, <1>4, <1>5 DEF Inv

LEMMA TickStep ==
    ASSUME Inv, Tick
    PROVE  Inv'
<1>1. /\ now' = now + 1 /\ now \in Nat
      /\ UNCHANGED <<snaps, tmp, published, last, missed, up, picked, shut, before, mem, count,
                     asked, saver, per, cut>>
  BY DEF Tick, storeVars, procVars, dataVars, taskVars, Inv, TypeOK
<1>2. /\ \A p \in published : Fresh(p)' => Fresh(p)
      /\ \A s \in snaps \union picked : Fresh(s)' => Fresh(s)
  BY <1>1, SnapshotStoreAssumption DEF Fresh, Inv, TypeOK
<1>3. TypeOK' /\ TasksLive'
  BY <1>1 DEF Inv, TypeOK, TasksLive, Live, Serving, Aborted
<1>4. /\ SnapsPublished' /\ FreshThere' /\ Cumulative' /\ StartsFromPublished'
      /\ OnePicked' /\ MissedEarlier'
  BY <1>1, <1>2 DEF Inv, SnapsPublished, FreshThere, Cumulative, StartsFromPublished, OnePicked,
                    MissedEarlier
<1>5. LastIsLatest'
  BY <1>1 DEF Inv, LastIsLatest, TypeOK
<1>6. PickCovers' /\ MemCovers' /\ BeforeKept'
  BY <1>1, <1>2 DEF Inv, PickCovers, MemCovers, BeforeKept, Starting, Live, Serving, Aborted
<1> QED
  BY <1>3, <1>4, <1>5, <1>6 DEF Inv

\* The end of a process leaves the directory and the history of its shutdown.
LEMMA EndedStep ==
    ASSUME Inv, Ended
    PROVE  Inv'
<1>1. /\ up' = "down" /\ picked' = {} /\ mem' = {} /\ asked' = <<>> /\ saver' = Idle
      /\ per' = "tick"
      /\ UNCHANGED <<now, snaps, tmp, published, last, missed, shut, before, count, cut>>
  BY DEF Ended, storeVars
<1>2. TypeOK' /\ TasksLive'
  <2>1. shut' \in {"none", "asked", "saved", "failed"} /\ before' \subseteq Nat
    BY <1>1 DEF Inv, TypeOK
  <2>2. saver' \in [at : {"idle", "export", "manifest"}, ts : Nat, by : Callers]
        /\ asked' \in Seq(Callers)
    BY <1>1 DEF Idle, Callers
  <2>3. saver'.at = "idle"
    BY <1>1 DEF Idle
  <2> QED
    BY <1>1, <2>1, <2>2, <2>3 DEF Inv, TypeOK, TasksLive
<1>3. SnapsPublished' /\ FreshThere' /\ Cumulative' /\ StartsFromPublished'
  BY <1>1 DEF Inv, SnapsPublished, FreshThere, Cumulative, StartsFromPublished, Fresh
<1>4. /\ LastIsLatest' /\ PickCovers' /\ MemCovers' /\ BeforeKept'
      /\ OnePicked' /\ MissedEarlier'
  BY <1>1 DEF Inv, LastIsLatest, PickCovers, MemCovers, OnePicked, MissedEarlier, BeforeKept,
              Starting, Live, Serving, Aborted, Idle
<1> QED
  BY <1>2, <1>3, <1>4 DEF Inv

\* A bounded set of seconds has a latest one.
LEMMA GreatestExists ==
    ASSUME NEW S \in SUBSET Nat, S # {}, NEW b \in Nat, \A n \in S : n <= b
    PROVE  \E m \in S : \A n \in S : n <= m
<1> DEFINE T == {k \in Nat : \E n \in S : k = b - n}
           R == OpToRel(<, Nat)
<1>1. IsWellFoundedOn(R, Nat)
  BY NatLessThanWellFounded
<1>2. \A x, y \in Nat : <<y, x>> \in R <=> y < x
  BY DEF OpToRel
<1>3. T \subseteq Nat /\ \A n \in S : b - n \in T
  BY SMT
<1>4. T # {}
  BY <1>3
<1> HIDE DEF R
<1>5. PICK x \in T : \A y \in T : <<y, x>> \notin R
  <2> HIDE DEF T
  <2> QED
    BY <1>1, <1>3, <1>4, WFMin
<1>6. PICK m \in S : x = b - m
  OBVIOUS
<1>7. ASSUME NEW n \in S
      PROVE  n <= m
  <2>1. ~(b - n < x)
    BY <1>2, <1>3, <1>5
  <2> QED
    BY <1>6, <2>1
<1> QED
  BY <1>7

\* Whatever cannot be read, what a start takes has everything fresh that was
\* not overlooked: a snapshot that cannot be read counts as overlooked only when
\* it is later than the one taken, and an earlier one is covered by that one.
LEMMA ChosenCovers ==
    ASSUME Inv, NEW unread \in SUBSET snaps,
           NEW p \in published, p \notin missed, Fresh(p),
           p \notin Overlooked(unread, LatestSnapshot(snaps \ unread))
    PROVE  \E s \in LatestSnapshot(snaps \ unread) : p.ts <= s.ts /\ p.log \subseteq s.log
<1> DEFINE chosen == LatestSnapshot(snaps \ unread)
<1>1. chosen \subseteq snaps
  BY DEF LatestSnapshot
<1>2. PICK d \in snaps : d.ts = p.ts /\ d.log = p.log /\ d.manifest
  BY DEF Inv, FreshThere
<1>3. \A s \in snaps : s.ts \in Nat /\ s.ts <= now
  <2> TAKE s \in snaps
  <2>1. [ts |-> s.ts, log |-> s.log] \in published
    BY DEF Inv, SnapsPublished
  <2> QED
    BY <2>1 DEF Inv, TypeOK, LastIsLatest
<1>4. CASE \E t \in chosen : d.ts <= t.ts
  <2>1. PICK t \in chosen : d.ts <= t.ts
    BY <1>4
  <2>2. [ts |-> t.ts, log |-> t.log] \in published
    BY <1>1, <2>1 DEF Inv, SnapsPublished
  <2>3. p.log \subseteq t.log
    BY <1>2, <2>1, <2>2 DEF Inv, Cumulative
  <2> QED
    BY <1>2, <2>1, <2>3
<1>5. CASE d \in unread /\ \A t \in chosen : t.ts < d.ts
  <2>1. p = [ts |-> d.ts, log |-> d.log]
    BY <1>2 DEF Inv, TypeOK
  <2> QED
    BY <1>5, <2>1 DEF Overlooked
<1>6. CASE d \notin unread /\ \A t \in chosen : t.ts < d.ts
  <2> DEFINE times == {s.ts : s \in {r \in snaps \ unread : r.manifest}}
  <2>1. times \in SUBSET Nat /\ times # {} /\ now \in Nat /\ \A n \in times : n <= now
    BY <1>2, <1>3, <1>6 DEF Inv, TypeOK
  <2>2. PICK m \in times : \A n \in times : n <= m
    <3> HIDE DEF times
    <3> QED
      BY <2>1, GreatestExists
  <2>3. PICK s \in snaps \ unread : s.manifest /\ s.ts = m
    OBVIOUS
  <2>4. s \in chosen
    BY <2>2, <2>3 DEF LatestSnapshot
  <2>5. d.ts <= s.ts
    BY <1>2, <1>6, <2>2, <2>3
  <2>6. s.ts < d.ts
    BY <1>6, <2>4
  <2> QED
    BY <1>3, <2>3, <2>5, <2>6
<1>7. \A t \in chosen : d.ts <= t.ts \/ t.ts < d.ts
  <2> HIDE DEF chosen
  <2> QED
    BY <1>1, <1>3
<1> QED
  BY <1>4, <1>5, <1>6, <1>7

LEMMA StartStep ==
    ASSUME Inv, Start
    PROVE  Inv'
<1>1. PICK unread \in SUBSET snaps :
          /\ picked' = LatestSnapshot(snaps \ unread)
          /\ missed' = missed \union Overlooked(unread, picked')
  BY DEF Start
<1>2. /\ up = "down" /\ up' \in {"starting", "resetting"}
      /\ UNCHANGED <<now, snaps, tmp, published, last, shut, before, mem, count, asked, saver, per,
                     cut>>
  BY DEF Start, storeVars, dataVars, taskVars
<1>3. picked' \subseteq snaps
  BY <1>1 DEF LatestSnapshot
<1>4. TypeOK' /\ TasksLive'
  BY <1>2, <1>3 DEF Inv, TypeOK, TasksLive, Live, Serving, Aborted
<1>5. SnapsPublished' /\ FreshThere' /\ LastIsLatest'
  BY <1>2 DEF Inv, SnapsPublished, FreshThere, LastIsLatest, Fresh
<1>6. missed \subseteq missed'
  BY <1>1
<1>7. Cumulative'
  BY <1>2, <1>6 DEF Inv, Cumulative, Fresh
<1>8. StartsFromPublished'
  BY <1>2, <1>3 DEF Inv, SnapsPublished, StartsFromPublished, Fresh
<1>9. PickCovers'
  <2> SUFFICES ASSUME NEW p \in published, p \notin missed', Fresh(p)
               PROVE  \E s \in picked' : p.ts <= s.ts /\ p.log \subseteq s.log
    BY <1>2 DEF PickCovers, Fresh
  <2> QED
    BY <1>1, ChosenCovers
<1>10. OnePicked'
  <2> SUFFICES ASSUME NEW s \in picked', NEW t \in picked' PROVE s.ts = t.ts
    BY DEF OnePicked
  <2>1. s.ts <= t.ts /\ t.ts <= s.ts
    BY <1>1 DEF LatestSnapshot
  <2> QED
    BY <1>3, <2>1 DEF Inv, TypeOK
<1>11. MissedEarlier'
  BY <1>1, <1>2 DEF Inv, MissedEarlier, SnapsPublished, Overlooked
<1>12. MemCovers' /\ BeforeKept'
  BY <1>2 DEF Inv, MemCovers, BeforeKept, Live, Serving, Aborted
<1> QED
  BY <1>4, <1>5, <1>7, <1>8, <1>9, <1>10, <1>11, <1>12 DEF Inv

\* The database of a process has what its snapshot has, when that is whole; and
\* it is, when anything that has not expired is to be kept.
LEMMA LoadStep ==
    ASSUME Inv, Restore \/ Reset
    PROVE  Inv'
<1>1. PICK restored \in SUBSET Writes :
          Restored(restored) /\ mem' \in {restored, restored \union {count + 1}}
  BY DEF Restore, Reset
<1>2. /\ Starting /\ ~Live /\ up' \in {"serving", "reset"}
      /\ count' \in {count, count + 1} /\ asked' \in {asked, <<"reset">>}
      /\ shut' = "none" /\ before' = {}
      /\ UNCHANGED <<now, snaps, tmp, published, last, missed, picked, saver, per, cut>>
  BY DEF Restore, Reset, storeVars, taskVars, Starting, Live, Serving, Aborted
<1>3. Live' /\ ~Starting'
  BY <1>2 DEF Live, Serving, Starting
<1>4. TypeOK' /\ TasksLive'
  <2>1. asked' \in Seq(Callers)
    <3>1. <<"reset">> \in Seq(Callers)
      BY DEF Callers
    <3> QED
      BY <1>2, <3>1 DEF Inv, TypeOK
  <2>2. count' \in Nat /\ mem' \subseteq Nat
    BY <1>1, <1>2, SnapshotStoreAssumption DEF Inv, TypeOK, Writes
  <2> QED
    BY <1>2, <1>3, <2>1, <2>2 DEF Inv, TypeOK, TasksLive
<1>5. /\ SnapsPublished' /\ FreshThere' /\ Cumulative' /\ LastIsLatest' /\ StartsFromPublished'
      /\ OnePicked' /\ MissedEarlier'
  BY <1>2 DEF Inv, SnapsPublished, FreshThere, Cumulative, LastIsLatest, StartsFromPublished,
              OnePicked, MissedEarlier, Fresh
<1>6. PickCovers'
  BY <1>3 DEF PickCovers
<1>7. MemCovers'
  <2> SUFFICES ASSUME NEW p \in published, p \notin missed, Fresh(p) PROVE p.log \subseteq mem'
    BY <1>2 DEF MemCovers, Fresh
  <2>1. PICK s \in picked : p.ts <= s.ts /\ p.log \subseteq s.log
    BY <1>2 DEF Inv, PickCovers
  <2>2. \A t \in picked : t.ts = s.ts /\ Fresh(t)
    BY <2>1, SnapshotStoreAssumption DEF Inv, OnePicked, TypeOK, Fresh
  <2>3. \A t \in picked : t.whole
    BY <2>2 DEF Inv, StartsFromPublished
  <2>4. restored = UNION {t.log : t \in picked}
    BY <1>1, <2>3 DEF Restored
  <2>5. p.log \subseteq restored
    BY <2>1, <2>4
  <2> QED
    BY <1>1, <2>5
<1>8. BeforeKept'
  BY <1>2 DEF BeforeKept
<1> QED
  BY <1>4, <1>5, <1>6, <1>7, <1>8 DEF Inv

LEMMA WriteStep ==
    ASSUME Inv, Write
    PROVE  Inv'
<1>1. /\ Serving /\ count \in Nat /\ count' = count + 1 /\ mem' = mem \union {count + 1}
      /\ UNCHANGED <<now, snaps, tmp, published, last, missed, up, picked, shut, before, asked,
                     saver, per, cut>>
  BY DEF Write, storeVars, procVars, taskVars, Inv, TypeOK
<1>2. TypeOK' /\ TasksLive'
  BY <1>1 DEF Inv, TypeOK, TasksLive, Live, Serving, Aborted
<1>3. /\ SnapsPublished' /\ FreshThere' /\ Cumulative' /\ LastIsLatest' /\ StartsFromPublished'
      /\ PickCovers' /\ OnePicked' /\ MissedEarlier'
  BY <1>1 DEF Inv, SnapsPublished, FreshThere, Cumulative, LastIsLatest, StartsFromPublished,
              PickCovers, OnePicked, MissedEarlier, Starting, Fresh
<1>4. MemCovers' /\ BeforeKept'
  BY <1>1 DEF Inv, MemCovers, BeforeKept, Live, Serving, Aborted, Fresh
<1> QED
  BY <1>2, <1>3, <1>4 DEF Inv

\* What a caller does with its result: the process goes on.
LEMMA ResumeFacts ==
    ASSUME Inv, NEW by, NEW ok \in BOOLEAN, Resume(by, ok), Live
    PROVE  /\ Live'
           /\ up' \in {"serving", "closing", "stopping", "joining", "stuck", "reset",
                  "leaving"}
           /\ cut' \in {cut, now} /\ per' \in {"tick", "saving", "cleaning"}
           /\ shut' \in {"none", "asked", "saved", "failed"}
           /\ shut' = "saved" => shut = "saved" \/ ok
<1>1. up' \in {up, "stopping", "leaving"}
  BY DEF Resume
<1> QED
  BY <1>1 DEF Resume, Live, Serving, Aborted, Inv, TypeOK

LEMMA AskStep ==
    ASSUME Inv, AskManual \/ AskPeriodic \/ AskShutdown \/ ListenFails \/ Abort \/ CleanEnd
    PROVE  Inv'
<1>1. /\ UNCHANGED <<now, snaps, tmp, published, last, missed, picked, mem, count, saver>>
      /\ before' \in {before, mem} /\ cut' \in {cut, now}
      /\ shut' = "saved" => shut = "saved" /\ before' = before
      /\ up' \in {up, "closing", "stopping", "joining", "stuck"}
      /\ per' \in {"tick", "saving", "cleaning"} /\ shut' \in {"none", "asked", "saved", "failed"}
  BY DEF AskManual, AskPeriodic, AskShutdown, ListenFails, Abort, CleanEnd, storeVars, procVars,
         dataVars, taskVars, Inv, TypeOK
<1>2. Live /\ Live'
  BY DEF AskManual, AskPeriodic, AskShutdown, ListenFails, Abort, CleanEnd, storeVars, procVars,
         taskVars, Inv, TasksLive, Live, Serving, Aborted
<1>3. asked' \in Seq(Callers)
  <2>1. asked' = asked \/ \E by \in Callers : asked' = Append(asked, by)
    BY DEF AskManual, AskPeriodic, AskShutdown, ListenFails, Abort, CleanEnd, Accepted, QueueFull,
           taskVars, Callers
  <2> QED
    BY <2>1 DEF Inv, TypeOK
<1>4. TypeOK'
  BY <1>1, <1>3 DEF Inv, TypeOK
<1> QED
  BY <1>1, <1>2, <1>4, WorkStep

\* A save that begins, goes on or fails.
LEMMA SaveStep ==
    ASSUME Inv, SaveBegin \/ SaveRefused \/ SaveExported \/ SaveFails
    PROVE  Inv'
<1>1. Live
  BY DEF SaveBegin, SaveRefused, SaveExported, SaveFails, Exporting, Inv, TasksLive
<1>2. UNCHANGED <<now, snaps, published, last, missed, picked, mem, count, before>>
  BY DEF SaveBegin, SaveRefused, SaveExported, SaveFails, storeVars, procVars, dataVars
<1>3. /\ Live'
      /\ up' \in {"serving", "closing", "stopping", "joining", "stuck", "reset",
                  "leaving"}
      /\ cut' \in {cut, now} /\ per' \in {"tick", "saving", "cleaning"}
      /\ shut' \in {"none", "asked", "saved", "failed"}
      /\ shut' = "saved" => shut = "saved"
  <2>1. CASE SaveBegin \/ SaveExported
    <3>1. UNCHANGED <<up, cut, per, shut>>
      BY <2>1 DEF SaveBegin, SaveExported, procVars
    <3> QED
      BY <1>1, <3>1 DEF Live, Serving, Aborted, Inv, TypeOK
  <2>2. CASE SaveRefused \/ SaveFails
    <3>1. \E by : Resume(by, FALSE)
      BY <2>2 DEF SaveRefused, SaveFails
    <3> QED
      BY <1>1, <3>1, ResumeFacts
  <2> QED
    BY <2>1, <2>2
<1>4. asked' \in Seq(Callers)
  <2>1. asked' = asked \/ (asked # <<>> /\ asked' = Tail(asked))
    BY DEF SaveBegin, SaveRefused, SaveExported, SaveFails
  <2> QED
    BY <2>1 DEF Inv, TypeOK
<1>5. saver' \in [at : {"idle", "export", "manifest"}, ts : Nat, by : Callers]
  <2>1. CASE SaveBegin
    <3>1. Head(asked) \in Callers
      BY <2>1 DEF SaveBegin, Inv, TypeOK
    <3> QED
      BY <2>1, <3>1 DEF SaveBegin, Inv, TypeOK
  <2>2. CASE SaveRefused
    BY <2>2 DEF SaveRefused, Inv, TypeOK
  <2>3. CASE SaveExported
    BY <2>3 DEF SaveExported, Inv, TypeOK
  <2>4. CASE SaveFails
    BY <2>4 DEF SaveFails, Idle, Callers
  <2> QED
    BY <2>1, <2>2, <2>3, <2>4
<1>6. TypeOK'
  BY <1>2, <1>3, <1>4, <1>5 DEF Inv, TypeOK
<1>7. saver'.at # "idle" => \/ saver'.ts = saver.ts /\ saver.at # "idle"
                            \/ saver'.ts = now /\ ~NameTaken(now)
  <2>1. CASE SaveBegin
    BY <2>1 DEF SaveBegin
  <2>2. CASE SaveRefused
    BY <2>2 DEF SaveRefused
  <2>3. CASE SaveExported
    BY <2>3 DEF SaveExported, Inv, TypeOK
  <2>4. CASE SaveFails
    BY <2>4 DEF SaveFails, Idle
  <2> QED
    BY <2>1, <2>2, <2>3, <2>4
<1> QED
  BY <1>1, <1>2, <1>3, <1>6, <1>7, WorkStep

\* The new snapshot is later than every other and has what is fresh of them.
LEMMA PublishStep ==
    ASSUME Inv, SavePublish
    PROVE  Inv'
<1> DEFINE new == [ts |-> saver.ts, log |-> mem]
           dir == [ts |-> saver.ts, log |-> mem, manifest |-> TRUE, whole |-> TRUE]
<1>1. /\ saver.at = "manifest" /\ Live
      /\ snaps' = snaps \union {dir} /\ published' = published \union {new} /\ last' = {new}
      /\ saver' = Idle
      /\ UNCHANGED <<now, picked, before, missed, mem, count, asked>>
  BY DEF SavePublish, Renamable, dataVars, Inv, TasksLive
<1>2. /\ Live'
      /\ up' \in {"serving", "closing", "stopping", "joining", "stuck", "reset",
                  "leaving"}
      /\ cut' \in {cut, now} /\ per' \in {"tick", "saving", "cleaning"}
      /\ shut' \in {"none", "asked", "saved", "failed"}
  <2>1. Resume(saver.by, TRUE)
    BY DEF SavePublish
  <2> QED
    BY <1>1, <2>1, ResumeFacts
<1>3. new \in [ts : Nat, log : SUBSET Nat]
      /\ dir \in [ts : Nat, log : SUBSET Nat, manifest : BOOLEAN, whole : BOOLEAN]
      /\ new.ts = saver.ts /\ new.log = mem
      /\ dir.ts = saver.ts /\ dir.log = mem /\ dir.manifest /\ dir.whole
      /\ [ts |-> dir.ts, log |-> dir.log] = new
  BY DEF Inv, TypeOK
<1> HIDE DEF new, dir
<1>4. TypeOK'
  <2>1. saver' \in [at : {"idle", "export", "manifest"}, ts : Nat, by : Callers]
    BY <1>1 DEF Idle, Callers
  <2> QED
    BY <1>1, <1>2, <1>3, <2>1 DEF Inv, TypeOK
<1>5. saver.ts <= now /\ \A p \in published : p.ts < saver.ts
  BY <1>1 DEF Inv, LastIsLatest
<1>6. \A s : Fresh(s)' <=> Fresh(s)
  BY <1>1 DEF Fresh
<1>7. SnapsPublished'
  BY <1>1, <1>3, <1>6 DEF Inv, SnapsPublished
<1>8. FreshThere'
  BY <1>1, <1>3, <1>6 DEF Inv, FreshThere
<1>9. LastIsLatest'
  <2>1. saver'.at = "idle"
    BY <1>1 DEF Idle
  <2>2. \A p \in published' : p.ts <= new.ts /\ p.ts <= now
    BY <1>1, <1>3, <1>5 DEF Inv, TypeOK
  <2> QED
    BY <1>1, <2>1, <2>2 DEF LastIsLatest
<1>10. Cumulative'
  <2>1. \A p \in published \ missed : Fresh(p) => p.log \subseteq mem
    BY <1>1 DEF Inv, MemCovers
  <2>2. \A p \in published : ~(new.ts <= p.ts)
    BY <1>3, <1>5 DEF Inv, TypeOK
  <2> QED
    BY <1>1, <1>3, <1>6, <2>1, <2>2 DEF Inv, Cumulative
<1>11. ~Starting'
  BY <1>2 DEF Starting
<1>12. /\ MemCovers' /\ PickCovers' /\ BeforeKept'
       /\ OnePicked' /\ MissedEarlier'
  BY <1>1, <1>3, <1>6, <1>11 DEF Inv, MemCovers, PickCovers, OnePicked, MissedEarlier, BeforeKept
<1>13. TasksLive' /\ StartsFromPublished'
  BY <1>1, <1>2, <1>6 DEF Inv, TasksLive, StartsFromPublished, TypeOK
<1> QED
  BY <1>4, <1>7, <1>8, <1>9, <1>10, <1>12, <1>13 DEF Inv

\* A clean-up touches only what has expired.
LEMMA CleanStep ==
    ASSUME Inv, CleanSome \/ CleanOne
    PROVE  Inv'
<1>1. UNCHANGED <<now, tmp, published, last, missed, up, picked, shut, before, mem, count, asked,
                  saver, per, cut>>
  BY DEF CleanSome, CleanOne, procVars, dataVars, taskVars
<1>2. PICK s \in snaps :
          /\ Expired(s.ts, cut)
          /\ \/ snaps' = snaps \ {s}
             \/ \E m \in BOOLEAN :
                  snaps' = (snaps \ {s}) \union {[s EXCEPT !.whole = FALSE, !.manifest = m]}
  BY DEF CleanSome, CleanOne
<1>3. ~Fresh(s)
  <2>1. s.ts \in Nat /\ cut \in Nat /\ now \in Nat /\ Retain \in Nat /\ cut <= now
    BY SnapshotStoreAssumption DEF Inv, TypeOK, TasksLive
  <2>2. s.ts + Retain < cut
    BY <1>2 DEF Expired
  <2> QED
    BY <2>1, <2>2 DEF Fresh
<1>4. ASSUME NEW t \in snaps'
      PROVE  t \in snaps \/ (t.ts = s.ts /\ t.log = s.log
                /\ t \in [ts : Nat, log : SUBSET Nat, manifest : BOOLEAN, whole : BOOLEAN])
  <2>1. s \in [ts : Nat, log : SUBSET Nat, manifest : BOOLEAN, whole : BOOLEAN]
    BY DEF Inv, TypeOK
  <2>2. CASE t \notin snaps
    <3>1. PICK m \in BOOLEAN : t = [s EXCEPT !.whole = FALSE, !.manifest = m]
      BY <1>2, <2>2
    <3> QED
      BY <2>1, <3>1
  <2> QED
    BY <2>2
<1>5. TypeOK'
  BY <1>1, <1>4 DEF Inv, TypeOK
<1>6. SnapsPublished'
  <2> SUFFICES ASSUME NEW t \in snaps'
               PROVE  [ts |-> t.ts, log |-> t.log] \in published /\ (t.whole \/ ~Fresh(t))
    BY <1>1 DEF SnapsPublished, Fresh
  <2>1. CASE t.ts = s.ts /\ t.log = s.log
    BY <1>3, <2>1 DEF Inv, SnapsPublished, Fresh
  <2> QED
    BY <1>4, <2>1 DEF Inv, SnapsPublished
<1>7. FreshThere'
  <2> SUFFICES ASSUME NEW p \in published, Fresh(p)
               PROVE  \E t \in snaps' : t.ts = p.ts /\ t.log = p.log /\ t.manifest /\ t.whole
    BY <1>1 DEF FreshThere, Fresh
  <2>1. PICK t \in snaps : t.ts = p.ts /\ t.log = p.log /\ t.manifest /\ t.whole
    BY DEF Inv, FreshThere
  <2>2. t # s
    BY <1>3, <2>1 DEF Fresh
  <2> QED
    BY <1>2, <2>1, <2>2
<1>8. /\ Cumulative' /\ LastIsLatest' /\ StartsFromPublished' /\ PickCovers' /\ MemCovers'
      /\ OnePicked' /\ MissedEarlier' /\ BeforeKept' /\ TasksLive'
  BY <1>1 DEF Inv, Cumulative, LastIsLatest, StartsFromPublished, PickCovers, MemCovers,
              OnePicked, MissedEarlier, BeforeKept, TasksLive, Starting, Live, Serving, Aborted,
              Fresh
<1> QED
  BY <1>5, <1>6, <1>7, <1>8 DEF Inv

LEMMA NextInv ==
    ASSUME Inv, [Next]_vars
    PROVE  Inv'
<1>1. CASE Crash \/ StartFails \/ Stop
  BY <1>1, EndedStep DEF Crash, StartFails, Stop
<1>2. CASE UNCHANGED vars
  BY <1>2 DEF vars, storeVars, procVars, dataVars, taskVars, Inv, TypeOK, SnapsPublished,
              FreshThere, LastIsLatest, Cumulative, PickCovers, MemCovers, OnePicked,
              MissedEarlier, BeforeKept, TasksLive, StartsFromPublished, Starting, Live, Serving,
              Aborted, Fresh
<1> QED
  BY <1>1, <1>2, TickStep, StartStep, LoadStep, WriteStep, AskStep, SaveStep, PublishStep,
     CleanStep DEF Next

\* Inv is an inductive invariant of the directory and its processes, for any
\* number of writes, saves, clean-ups, crashes and restarts.
THEOREM StoreInvariant == Spec => []Inv
<1>1. Init => Inv
  BY InitInv
<1>2. Inv /\ [Next]_vars => Inv'
  BY NextInv
<1> QED
  BY <1>1, <1>2, PTL DEF Spec

\* A process starts from a snapshot that was published as a whole, and only a
\* snapshot that had expired can be damaged: the rename is last in a save, and
\* the clean-up removes nothing that is still to be kept.
THEOREM StartsPublished == Spec => []StartsFromPublished
<1>1. Inv => StartsFromPublished
  BY DEF Inv
<1> QED
  BY <1>1, StoreInvariant, PTL

\* A database in service has the writes of every snapshot that has not expired
\* and that no start overlooked, whatever process made it: a crash or a restart
\* loses nothing that was saved, and an unreadable snapshot nothing but its own.
THEOREM SavedIsKept == Spec => []SavedSurvives
<1>1. Inv => SavedSurvives
  BY DEF Inv, MemCovers, Live, SavedSurvives
<1> QED
  BY <1>1, StoreInvariant, PTL

\* After a shutdown whose snapshot was saved and is not overlooked, the snapshot
\* the next process takes has every write in the database when the signal came.
THEOREM ShutdownIsCovered == Spec => []ShutdownCovers
<1>1. Inv => ShutdownCovers
  <2> SUFFICES ASSUME Inv, Starting, shut = "saved", \A s \in last : Fresh(s) /\ s \notin missed
               PROVE  \E s \in picked : before \subseteq s.log
    BY DEF ShutdownCovers, Starting
  <2>1. PICK p \in last : p \in published /\ before \subseteq p.log
    BY DEF Inv, BeforeKept, LastIsLatest
  <2>2. PICK s \in picked : p.log \subseteq s.log
    BY <2>1 DEF Inv, PickCovers
  <2> QED
    BY <2>1, <2>2
<1> QED
  BY <1>1, StoreInvariant, PTL
=============================================================================
