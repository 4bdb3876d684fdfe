-------------------------- MODULE VectorIndexProofs --------------------------
(***************************************************************************)
(* Theorems about VectorIndex, for every set of keys, sequence of events,  *)
(* batch bound and set of extension versions.                              *)
(***************************************************************************)
EXTENDS VectorIndex, TLAPS

(***************************************************************************)
(* The inductive invariant.  What a step does to the index depends on what *)
(* a snapshot holds and on how a command left the status, so both are part *)
(* of it.                                                                  *)
(***************************************************************************)
\* A process that is down is in no command and no search.
Quiet == ~up => cmd = "none" /\ search = "idle"

\* The status during a command.
InCommand ==
    /\ cmd = "rebuild" => status = "rebuilding"
    /\ cmd = "compact" => status = "compacting"

\* Also during a compaction, which ends in "active" whatever happened before.
Usable ==
    up /\ (status = "active" \/ cmd = "compact")
        => phys /\ table /\ rel = "active" /\ ext = vss

\* The two status columns agree, live and in the snapshot.
Agree ==
    /\ rel = "none" <=> status = "none"
    /\ rel = "unavailable" => ~table
    /\ snap.rel = "none" <=> snap.status = "none"
    /\ snap.rel = "unavailable" => ~snap.table /\ snap.status # "active"

Settled ==
    up /\ table /\ cmd = "none" /\ ~panicked
        => status \in {"none", "active", "stale", "failed", "unavailable"}

Searching == search = "ann" => phys \/ dropped

IndexInv ==
    /\ TypeOK
    /\ Quiet /\ InCommand /\ Usable /\ Agree /\ Settled /\ Searching
    /\ AnnUsesIndex

-----------------------------------------------------------------------------
LEMMA InitIndexInv == Init => IndexInv
<1> SUFFICES ASSUME Init PROVE IndexInv
  OBVIOUS
<1>1. 0 \in 0..Len(Source)
  BY VectorIndexAssumption
<1>2. rows \in Rows
  BY DEF Init, Rows
<1>3. snap \in [status : Statuses, rel : RelStatuses, ext : Versions,
                table : BOOLEAN, rows : Rows, pos : 0..Len(Source)]
  BY <1>1, <1>2 DEF Init, Image, Statuses, RelStatuses
<1>4. TypeOK
  BY <1>1, <1>2, <1>3 DEF Init, TypeOK, Statuses, RelStatuses
<1>5. Agree
  BY DEF Init, Agree, Image
<1> QED
  BY <1>4, <1>5 DEF Init, IndexInv, Quiet, InCommand, Usable, Settled, Searching,
                    AnnUsesIndex

\* A batch of known events turns rows into rows.
LEMMA ApplyTypes ==
    ASSUME TypeOK, NEW batch \in SUBSET Event, Apply(batch)
    PROVE  rows' \in Rows
<1>1. ASSUME NEW k \in Key, \E e \in batch : e.key = k
      PROVE  (CHOOSE e \in batch : e.key = k) \in Event
  BY <1>1
<1>2. \A e \in Event : RowAfter(e) \in [ver : Nat, hash : Nat] \union {NoRow}
  BY DEF Event, RowAfter
<1>3. rows \in Rows
  BY DEF TypeOK
<1> QED
  BY <1>1, <1>2, <1>3 DEF Apply, Rows

\* The steps of the consumers leave the index alone.
LEMMA DataStep ==
    ASSUME IndexInv, Deliver \/ Discard \/ Redeliver \/ DeliverRogue
    PROVE  IndexInv'
<1>1. UNCHANGED <<up, index, vss, table, unique, write, read, snap>>
  BY DEF Deliver, Discard, Redeliver, DeliverRogue, Apply, data
<1>2. pos \in 0..Len(Source) /\ Len(Source) \in Nat
  BY VectorIndexAssumption DEF IndexInv, TypeOK
<1>3. pos' \in 0..Len(Source)
  <2>1. CASE Deliver
    <3>1. PICK n \in 1..MaxBatch : IsBatch(n) /\ pos' = pos + n
      BY <2>1 DEF Deliver
    <3> QED
      BY <1>2, <3>1, VectorIndexAssumption DEF IsBatch
  <2>2. CASE Discard
    BY <1>2, <2>2, VectorIndexAssumption DEF Discard, IsBatch
  <2>3. CASE Redeliver
    BY <1>2, <2>3 DEF Redeliver
  <2>4. CASE DeliverRogue
    BY <1>2, <2>4 DEF DeliverRogue
  <2> QED
    BY <2>1, <2>2, <2>3, <2>4
<1>4. rows' \in Rows
  <2>1. CASE Deliver
    <3>1. PICK n \in 1..MaxBatch : IsBatch(n) /\ Apply(Window(n))
      BY <2>1 DEF Deliver
    <3>2. Window(n) \in SUBSET Event
      BY <1>2, <3>1, VectorIndexAssumption DEF Window, IsBatch
    <3> QED
      BY <3>1, <3>2, ApplyTypes DEF IndexInv
  <2>2. CASE DeliverRogue
    <3>1. PICK e \in Rogue : Apply({e})
      BY <2>2 DEF DeliverRogue
    <3>2. {e} \in SUBSET Event
      BY <3>1, VectorIndexAssumption
    <3> QED
      BY <3>1, <3>2, ApplyTypes DEF IndexInv
  <2>3. CASE Discard \/ Redeliver
    BY <2>3 DEF Discard, Redeliver, data, IndexInv, TypeOK
  <2> QED
    BY <2>1, <2>2, <2>3
<1>5. TypeOK'
  BY <1>1, <1>3, <1>4 DEF IndexInv, TypeOK, index, write, read
<1> QED
  BY <1>1, <1>5
     DEF IndexInv, Quiet, InCommand, Usable, Agree, Settled, Searching, AnnUsesIndex,
         index, write, read

\* Creating and dropping the index.
LEMMA CreateDropStep ==
    ASSUME IndexInv, Create \/ Drop
    PROVE  IndexInv'
<1>1. /\ status' \in Statuses /\ rel' \in RelStatuses /\ phys' \in BOOLEAN
      /\ ext' \in Versions /\ dropped' \in BOOLEAN
      /\ UNCHANGED <<up, vss, table, unique, rows, cmd, txn, panicked,
                    search, scanned, snap, pos>>
  BY DEF Create, Drop, IndexInv, TypeOK, Statuses, RelStatuses, data, write, read
<1>2. TypeOK'
  BY <1>1 DEF IndexInv, TypeOK
<1> QED
  BY <1>2
     DEF Create, Drop, Free, IndexInv, TypeOK, Quiet, InCommand, Usable, Agree, Settled,
         Searching, AnnUsesIndex, data, write, read

\* The steps of a command that runs: its status before and after.
LEMMA CommandStep ==
    ASSUME IndexInv,
           \/ RebuildBegin \/ RebuildCommit \/ CompactBegin \/ CompactEnd
           \/ MaintFails \/ MaintPanics \/ PanicInTransaction
    PROVE  IndexInv'
<1>1. \A s \in Statuses : <<status, s>> \in Allowed => status # "none" /\ s # "none"
  BY DEF Allowed
<1>2. TypeOK'
  <2>1. /\ status' \in Statuses /\ rel' \in RelStatuses /\ phys' \in BOOLEAN
        /\ ext' \in Versions /\ cmd' \in {"none", "rebuild", "compact"}
        /\ txn' \in BOOLEAN /\ panicked' \in BOOLEAN
        /\ UNCHANGED <<up, vss, table, unique, rows, search, dropped,
                      scanned, snap, pos>>
    BY DEF RebuildBegin, RebuildCommit, CompactBegin, CompactEnd, MaintFails,
           MaintPanics, PanicInTransaction, Transition, IndexInv, TypeOK, Statuses,
           RelStatuses, index, data, read
  <2> QED
    BY <2>1 DEF IndexInv, TypeOK
<1>3. CASE RebuildBegin \/ RebuildCommit
  BY <1>1, <1>2, <1>3
     DEF RebuildBegin, RebuildCommit, Transition, Free, IndexInv, TypeOK, Quiet,
         InCommand, Usable, Agree, Settled, Searching, AnnUsesIndex, Statuses, data, read
<1>4. CASE CompactBegin \/ CompactEnd
  BY <1>1, <1>2, <1>4
     DEF CompactBegin, CompactEnd, Transition, Free, IndexInv, TypeOK, Quiet,
         InCommand, Usable, Agree, Settled, Searching, AnnUsesIndex, Statuses, data, read
<1>5. CASE MaintFails \/ MaintPanics \/ PanicInTransaction
  BY <1>1, <1>2, <1>5
     DEF MaintFails, MaintPanics, PanicInTransaction, Transition, Free, IndexInv, TypeOK,
         Quiet, InCommand, Usable, Agree, Settled, Searching, AnnUsesIndex, Statuses,
         index, data, read
<1> QED
  BY <1>3, <1>4, <1>5

\* A search between any two of the above, and the process around them.
LEMMA SearchStep ==
    ASSUME IndexInv, SearchBegin \/ SearchEnd
    PROVE  IndexInv'
<1>1. /\ search' \in {"idle", "ann", "exact"}
      /\ dropped' \in BOOLEAN /\ scanned' \in BOOLEAN
      /\ UNCHANGED <<up, index, vss, data, write, snap, pos>>
  BY DEF SearchBegin, SearchEnd, IndexInv, TypeOK
<1>2. TypeOK'
  BY <1>1 DEF IndexInv, TypeOK, index, data, write
<1>3. Quiet' /\ Searching' /\ AnnUsesIndex'
  BY DEF SearchBegin, SearchEnd, Searchable, IndexInv, TypeOK, Quiet, Usable, Searching,
         AnnUsesIndex, index
<1> QED
  BY <1>1, <1>2, <1>3
     DEF IndexInv, InCommand, Usable, Agree, Settled, index, data, write

LEMMA SaveStep ==
    ASSUME IndexInv, Save
    PROVE  IndexInv'
<1>1. UNCHANGED <<up, index, vss, data, write, read, pos>> /\ snap' = Image
  BY DEF Save
<1>2. snap' \in [status : Statuses, rel : RelStatuses, ext : Versions,
                 table : BOOLEAN, rows : Rows, pos : 0..Len(Source)]
  BY <1>1 DEF Image, IndexInv, TypeOK
<1>3. TypeOK'
  BY <1>1, <1>2 DEF IndexInv, TypeOK, index, data, write, read
<1>4. Agree'
  BY <1>1 DEF Save, Image, IndexInv, TypeOK, Agree, Usable, index, data
<1> QED
  BY <1>1, <1>3, <1>4
     DEF IndexInv, Quiet, InCommand, Usable, Settled, Searching, AnnUsesIndex,
         index, data, write, read

LEMMA CrashStep ==
    ASSUME IndexInv, Crash
    PROVE  IndexInv'
<1>1. TypeOK'
  BY DEF Crash, IndexInv, TypeOK, index, data
<1> QED
  BY <1>1 DEF Crash, IndexInv, Quiet, InCommand, Usable, Agree, Settled, Searching,
              AnnUsesIndex, index, data

\* What the restart makes of the saved status.
LEMMA StartStep ==
    ASSUME IndexInv, Start
    PROVE  IndexInv'
<1>1. PICK tb \in BOOLEAN :
         /\ tb => snap.table
         /\ Restored(snap.rel = "active", tb)
         /\ table' = tb
         /\ rows' = IF tb THEN snap.rows ELSE [k \in Key |-> NoRow]
  BY DEF Start
<1>2. /\ snap.status \in Statuses /\ snap.rel \in RelStatuses /\ snap.ext \in Versions
      /\ snap.rows \in Rows /\ snap.pos \in 0..Len(Source)
  BY DEF IndexInv, TypeOK
<1>3. /\ up' = TRUE /\ vss' \in Versions /\ unique' \in BOOLEAN
      /\ UNCHANGED <<cmd, txn, panicked, search, dropped, scanned, snap>>
      /\ cmd = "none" /\ search = "idle"
  BY DEF Start, IndexInv, Quiet, write, read
<1>4. status' \in Statuses /\ rel' \in RelStatuses /\ phys' \in BOOLEAN /\ ext' \in Versions
  BY <1>1, <1>2 DEF Restored, Statuses, RelStatuses
<1>5. rows' \in Rows
  BY <1>1, <1>2 DEF Start, Rows
<1>6. pos' \in 0..Len(Source)
  BY <1>2, VectorIndexAssumption DEF Start
<1>7. TypeOK'
  BY <1>1, <1>3, <1>4, <1>5, <1>6 DEF IndexInv, TypeOK
<1>8. Usable' /\ Agree' /\ Settled'
  BY <1>1, <1>2, <1>3 DEF Restored, IndexInv, Usable, Agree, Settled, Statuses, RelStatuses
<1> QED
  BY <1>3, <1>7, <1>8 DEF IndexInv, Quiet, InCommand, Searching, AnnUsesIndex

LEMMA NextIndexInv == IndexInv /\ [Next]_vars => IndexInv'
<1> SUFFICES ASSUME IndexInv, [Next]_vars PROVE IndexInv'
  OBVIOUS
<1>1. CASE UNCHANGED vars
  BY <1>1 DEF IndexInv, TypeOK, Quiet, InCommand, Usable, Agree, Settled, Searching,
              AnnUsesIndex, vars, index, data, write, read
<1>2. CASE Next
  BY <1>2, DataStep, CreateDropStep, CommandStep, SearchStep, SaveStep, CrashStep,
     StartStep DEF Next
<1> QED
  BY <1>1, <1>2

-----------------------------------------------------------------------------
\* What the invariant says at the moments the properties are about.
LEMMA IndexInvImplies ==
    IndexInv => TypeOK /\ ActiveIsUsable /\ Rebuildable /\ AnnUsesIndex
BY DEF IndexInv, Usable, ActiveIsUsable, Settled, Rebuildable, Free, Allowed

\* Every reachable state satisfies the invariant.
THEOREM InvariantHolds == Spec => []IndexInv
<1> QED
  BY InitIndexInv, NextIndexInv, PTL DEF Spec

\* Every variable keeps its type.
THEOREM TypeCorrect == Spec => []TypeOK
BY InvariantHolds, IndexInvImplies, PTL

\* build_status "active" is true of DuckDB in every state a reader can see
\* (transition_vector_index_status, restore_snapshot_vector_indexes).
THEOREM ActiveCorrect == Spec => []ActiveIsUsable
BY InvariantHolds, IndexInvImplies, PTL

\* An index that no command is working on can be rebuilt, except after a panic
\* (rebuild_vector_index, compact_vector_index, validate_physical_relations).
THEOREM RebuildCorrect == Spec => []Rebuildable
BY InvariantHolds, IndexInvImplies, PTL

\* search_vectors_blocking runs an ANN query without the index only in a race
\* with DROP INDEX.
THEOREM AnnCorrect == Spec => []AnnUsesIndex
BY InvariantHolds, IndexInvImplies, PTL

-----------------------------------------------------------------------------
\* One batch of upserts and deletes, for the row of one key.
LEMMA ApplyGrows ==
    ASSUME TypeOK, NEW batch \in SUBSET Event, Apply(batch), NEW k \in Key,
           rows[k] # NoRow, rows'[k] # NoRow, rows'[k] # rows[k]
    PROVE  rows'[k].ver > rows[k].ver
<1>1. rows \in [Key -> [ver : Nat, hash : Nat] \union {NoRow}]
  BY DEF TypeOK, Rows
<1>2. \E e \in batch : e.key = k
  BY <1>1 DEF Apply
<1> DEFINE ev == CHOOSE e \in batch : e.key = k
<1>3. ev \in batch /\ ev.key = k
  BY <1>2
<1>4. ev \in Event
  BY <1>3
<1>5. rows'[k] = RowAfter(ev)
  BY <1>2 DEF Apply
<1>6. ev.op = "upsert"
  BY <1>5 DEF RowAfter
<1>7. rows'[k] = [ver |-> ev.ver, hash |-> ev.hash]
  BY <1>5, <1>6 DEF RowAfter
<1>8. ~(rows[k].ver > ev.ver) /\ ~(rows[k].ver = ev.ver /\ rows[k].hash # ev.hash)
  BY <1>3, <1>6 DEF Apply, Valid, Stale, Conflicts
<1>9. ev.ver \in Nat /\ rows[k] \in [ver : Nat, hash : Nat]
  BY <1>1, <1>4 DEF Event
<1>10. rows[k].ver # ev.ver
  BY <1>7, <1>8, <1>9
<1> HIDE DEF ev
<1> QED
  BY <1>7, <1>8, <1>9, <1>10

\* No other step of a running process changes a row.
LEMMA GrowStep ==
    ASSUME IndexInv, [Next]_vars, up, up', NEW k \in Key,
           rows[k] # NoRow, rows'[k] # NoRow, rows'[k] # rows[k]
    PROVE  rows'[k].ver > rows[k].ver
<1>1. TypeOK
  BY DEF IndexInv
<1>2. CASE Deliver
  <2>1. PICK n \in 1..MaxBatch : IsBatch(n) /\ Apply(Window(n))
    BY <1>2 DEF Deliver
  <2>2. Window(n) \in SUBSET Event
    BY <1>1, <2>1, VectorIndexAssumption DEF TypeOK, Window, IsBatch
  <2> QED
    BY <1>1, <2>1, <2>2, ApplyGrows
<1>3. CASE DeliverRogue
  BY <1>1, <1>3, ApplyGrows, VectorIndexAssumption DEF DeliverRogue
<1> QED
  BY <1>2, <1>3
     DEF Next, vars, Create, Drop, Discard, Redeliver, PanicInTransaction, RebuildBegin,
         RebuildCommit, CompactBegin, CompactEnd, MaintFails, MaintPanics, SearchBegin,
         SearchEnd, Save, Crash, Start, data

\* upsert_vectors_blocking never replaces a row by an older version, nor by
\* another content of the same version.
THEOREM VersionsCorrect == Spec => VersionsGrow
<1>1. IndexInv /\ [Next]_vars =>
        [up /\ up' => \A k \in Key :
           rows[k] # NoRow /\ rows'[k] # NoRow /\ rows'[k] # rows[k]
              => rows'[k].ver > rows[k].ver]_vars
  BY GrowStep
<1> QED
  BY <1>1, InvariantHolds, PTL DEF Spec, VersionsGrow
-----------------------------------------------------------------------------
(***************************************************************************)
(* Convergence.  What the table holds of a key is what the source had made *)
(* of it at the position of the consumer or later, for redelivery sets the *)
(* position back and leaves the rows; or it is older than the last event   *)
(* of the key, which is still to come.                                     *)
(***************************************************************************)
Sourced(r, k, p) == \E m \in p..Len(Source) : r = SourceRow(k, m)

Awaited(r, k, p) ==
    \E l \in LastOf(k, Len(Source)) :
        l > p /\ Source[l].op = "upsert" /\ (r # NoRow => r.ver < Source[l].ver)

Tracks(r, k, p) == Sourced(r, k, p) \/ Awaited(r, k, p)

\* The rows of the table and those of the snapshot, each for its position.
OutboxInv ==
    /\ table => \A k \in Key : Tracks(rows[k], k, pos)
    /\ snap.table => \A k \in Key : Tracks(snap.rows[k], k, snap.pos)

LEMMA SourceEvent ==
    ASSUME NEW i \in 1..Len(Source)
    PROVE  Source[i] \in Event /\ i \in Nat /\ Len(Source) \in Nat
BY VectorIndexAssumption

LEMMA SourceOrder ==
    ASSUME NEW i \in 1..Len(Source), NEW j \in 1..Len(Source), i < j,
           Source[i].key = Source[j].key
    PROVE  Source[i].ver < Source[j].ver
BY VectorIndexAssumption

\* The row of a key is what its last event left.
LEMMA RowOfLast ==
    ASSUME NEW k, NEW n \in 0..Len(Source), NEW i \in LastOf(k, n)
    PROVE  SourceRow(k, n) = RowAfter(Source[i])
<1>1. n \in Nat
  BY VectorIndexAssumption
<1>2. ASSUME NEW j \in LastOf(k, n) PROVE j = i
  BY <1>1, <1>2 DEF LastOf
<1>3. (CHOOSE j \in LastOf(k, n) : TRUE) = i
  BY <1>2
<1> QED
  BY <1>3 DEF SourceRow

LEMMA RowIsOfLast ==
    ASSUME NEW k, NEW n \in 0..Len(Source), SourceRow(k, n) # NoRow
    PROVE  \E i \in LastOf(k, n) : i \in 1..n /\ SourceRow(k, n) = [ver |-> Source[i].ver, hash |-> Source[i].hash]
<1>1. PICK i \in LastOf(k, n) : TRUE
  BY DEF SourceRow
<1>2. SourceRow(k, n) = RowAfter(Source[i])
  BY RowOfLast
<1> QED
  BY <1>1, <1>2 DEF RowAfter, LastOf

\* Events of other keys change nothing.
LEMMA RowUntouched ==
    ASSUME NEW k, NEW m \in Nat, NEW n \in Nat, m <= n,
           \A i \in m + 1..n : Source[i].key # k
    PROVE  SourceRow(k, n) = SourceRow(k, m)
<1>1. LastOf(k, n) = LastOf(k, m)
  <2>1. ASSUME NEW i \in LastOf(k, n) PROVE i \in LastOf(k, m)
    BY <2>1 DEF LastOf
  <2>2. ASSUME NEW i \in LastOf(k, m) PROVE i \in LastOf(k, n)
    <3>1. i \in 1..m /\ Source[i].key = k /\ \A j \in i + 1..m : Source[j].key # k
      BY DEF LastOf
    <3>2. \A j \in i + 1..n : j \in i + 1..m \/ j \in m + 1..n
      BY <3>1
    <3> QED
      BY <3>1, <3>2 DEF LastOf
  <2> QED
    BY <2>1, <2>2
<1> QED
  BY <1>1 DEF SourceRow

\* An earlier position.
LEMMA TracksBack ==
    ASSUME NEW r, NEW k, NEW p \in Nat, NEW q \in 0..p, Tracks(r, k, p)
    PROVE  Tracks(r, k, q)
<1>1. p..Len(Source) \subseteq q..Len(Source)
  BY VectorIndexAssumption
<1>2. \A l \in LastOf(k, Len(Source)) : l > p => l > q
  BY VectorIndexAssumption DEF LastOf
<1> QED
  BY <1>1, <1>2 DEF Tracks, Sourced, Awaited

\* A later one, with no event of the key in between.
LEMMA TracksOn ==
    ASSUME NEW r, NEW k, NEW p \in Nat, NEW q \in p..Len(Source), Tracks(r, k, p),
           \A i \in p + 1..q : Source[i].key # k
    PROVE  Tracks(r, k, q)
<1>0. Len(Source) \in Nat
  BY VectorIndexAssumption
<1>1. CASE Sourced(r, k, p)
  <2>1. PICK m \in p..Len(Source) : r = SourceRow(k, m)
    BY <1>1 DEF Sourced
  <2>2. CASE m >= q
    BY <1>0, <2>1, <2>2 DEF Sourced, Tracks
  <2>3. CASE m < q
    <3>1. \A i \in m + 1..q : Source[i].key # k
      <4>1. \A i \in m + 1..q : i \in p + 1..q
        BY <1>0
      <4> QED
        BY <4>1
    <3>2. SourceRow(k, q) = SourceRow(k, m)
      BY <1>0, <2>3, <3>1, RowUntouched
    <3>3. q \in q..Len(Source)
      BY <1>0
    <3> QED
      BY <2>1, <3>2, <3>3 DEF Sourced, Tracks
  <2> QED
    BY <1>0, <2>2, <2>3
<1>2. CASE Awaited(r, k, p)
  <2>1. PICK l \in LastOf(k, Len(Source)) :
          l > p /\ Source[l].op = "upsert" /\ (r # NoRow => r.ver < Source[l].ver)
    BY <1>2 DEF Awaited
  <2>2. l \in Nat /\ Source[l].key = k
    BY <1>0 DEF LastOf
  <2>3. l > q
    BY <1>0, <2>1, <2>2
  <2> QED
    BY <2>1, <2>3 DEF Awaited, Tracks
<1> QED
  BY <1>1, <1>2 DEF Tracks

-----------------------------------------------------------------------------
LEMMA InitOutbox == Init => OutboxInv
<1>1. ASSUME NEW k \in Key PROVE Tracks(NoRow, k, 0)
  <2>1. LastOf(k, 0) = {}
    BY DEF LastOf
  <2>2. SourceRow(k, 0) = NoRow
    BY <2>1 DEF SourceRow
  <2>3. 0 \in 0..Len(Source)
    BY VectorIndexAssumption
  <2> QED
    BY <2>2, <2>3 DEF Tracks, Sourced
<1>2. ASSUME Init, NEW k \in Key
      PROVE  Tracks(rows[k], k, pos) /\ Tracks(snap.rows[k], k, snap.pos)
  BY <1>1, <1>2 DEF Init, Image
<1> QED
  BY <1>2 DEF OutboxInv

\* upsert_vectors_blocking, delete_vectors_blocking: a batch of the outbox.
LEMMA DeliverTracks ==
    ASSUME TypeOK, Deliver, NEW k \in Key, Tracks(rows[k], k, pos)
    PROVE  Tracks(rows'[k], k, pos')
<1>0. Len(Source) \in Nat /\ pos \in 0..Len(Source) /\ pos \in Nat /\ MaxBatch \in Nat
  BY VectorIndexAssumption DEF TypeOK
<1>1. PICK n \in 1..MaxBatch : IsBatch(n) /\ Apply(Window(n)) /\ pos' = pos + n
  BY DEF Deliver
<1>2. n \in Nat /\ pos + n <= Len(Source) /\ pos' \in pos..Len(Source)
  BY <1>0, <1>1 DEF IsBatch
<1>3. CASE \E e \in Window(n) : e.key = k
  <2> DEFINE ev == CHOOSE e \in Window(n) : e.key = k
  <2>1. ev \in Window(n) /\ ev.key = k
    BY <1>3
  <2>2. rows'[k] = RowAfter(ev)
    BY <1>1, <1>3 DEF Apply
  <2> HIDE DEF ev
  <2>3. PICK i \in pos + 1..pos + n : ev = Source[i]
    BY <2>1 DEF Window
  <2>4. i \in 1..pos' /\ i \in 1..Len(Source)
    BY <1>0, <1>1, <1>2
  <2>5. ASSUME NEW j \in i + 1..pos' PROVE Source[j].key # k
    <3>1. j \in pos + 1..pos + n /\ j \in 1..Len(Source) /\ i < j
      BY <1>0, <1>1, <1>2, <2>4
    <3>2. SUFFICES ASSUME Source[j].key = k PROVE FALSE
      OBVIOUS
    <3>3. Source[i] = Source[j]
      <4>1. Source[i] \in Window(n) /\ Source[j] \in Window(n)
        BY <3>1 DEF Window
      <4> QED
        BY <1>1, <2>1, <2>3, <3>2, <4>1 DEF IsBatch
    <3>4. Source[i].ver < Source[j].ver
      BY <2>1, <2>3, <2>4, <3>1, <3>2, SourceOrder
    <3>5. Source[i].ver \in Nat
      BY <2>4, SourceEvent DEF Event
    <3> QED
      BY <3>3, <3>4, <3>5
  <2>6. i \in LastOf(k, pos')
    BY <2>1, <2>3, <2>4, <2>5 DEF LastOf
  <2>7. pos' \in 0..Len(Source) /\ pos' \in pos'..Len(Source)
    BY <1>0, <1>2
  <2>8. SourceRow(k, pos') = RowAfter(Source[i])
    <3> PICK q : q = pos'
      OBVIOUS
    <3>1. i \in LastOf(k, q) /\ q \in 0..Len(Source)
      BY <2>6, <2>7
    <3>2. SourceRow(k, q) = RowAfter(Source[i])
      BY <3>1, RowOfLast
    <3> QED
      BY <3>2
  <2> QED
    BY <2>2, <2>3, <2>7, <2>8 DEF Tracks, Sourced
<1>4. CASE ~\E e \in Window(n) : e.key = k
  <2>1. rows'[k] = rows[k]
    BY <1>1, <1>4 DEF Apply
  <2> PICK q : q = pos'
    OBVIOUS
  <2>2. q \in pos..Len(Source)
    BY <1>2
  <2>3. \A i \in pos + 1..q : Source[i].key # k
    BY <1>1, <1>4 DEF Window
  <2>4. Tracks(rows[k], k, q)
    BY <1>0, <2>2, <2>3, TracksOn
  <2> QED
    BY <2>1, <2>4
<1> QED
  BY <1>3, <1>4

\* An event is discarded as stale or in conflict: for a newer row, or one that
\* a newer event will replace.
LEMMA DiscardTracks ==
    ASSUME TypeOK, Discard, NEW k \in Key, Tracks(rows[k], k, pos)
    PROVE  Tracks(rows'[k], k, pos')
<1> DEFINE e == Source[pos + 1]
<1>0. Len(Source) \in Nat /\ pos \in Nat /\ pos + 1 \in 1..Len(Source) /\ pos + 1 \in pos..Len(Source)
  BY VectorIndexAssumption DEF TypeOK, Discard, IsBatch
<1>1. pos' = pos + 1 /\ rows' = rows
  BY DEF Discard, data
<1>2. Window(1) = {e}
  <2>1. pos + 1..pos + 1 = {pos + 1}
    BY <1>0
  <2> QED
    BY <2>1 DEF Window
<1>3. Stale(e) \/ Conflicts(e)
  BY <1>2 DEF Discard, Valid
<1>4. e \in Event
  BY <1>0, SourceEvent
<1> HIDE DEF e
<1>5. CASE e.key # k
  <2>1. \A i \in pos + 1..pos + 1 : Source[i].key # k
    BY <1>0, <1>5 DEF e
  <2>2. Tracks(rows[k], k, pos + 1)
    BY <1>0, <2>1, TracksOn
  <2> QED
    BY <1>1, <2>2
<1>6. CASE e.key = k
  <2>1. rows[k] # NoRow /\ (rows[k].ver > e.ver \/ rows[k].ver = e.ver)
    BY <1>3, <1>6 DEF Stale, Conflicts
  <2>2. CASE Sourced(rows[k], k, pos)
    <3>1. PICK m \in pos..Len(Source) : rows[k] = SourceRow(k, m)
      BY <2>2 DEF Sourced
    <3>2. m # pos
      <4>1. SUFFICES ASSUME m = pos PROVE FALSE
        OBVIOUS
      <4>2. PICK i \in LastOf(k, pos) :
              i \in 1..pos /\ SourceRow(k, pos) = [ver |-> Source[i].ver, hash |-> Source[i].hash]
        <5>1. pos \in 0..Len(Source) /\ SourceRow(k, pos) # NoRow
          BY <1>0, <2>1, <3>1, <4>1
        <5> QED
          BY <5>1, RowIsOfLast
      <4>3. rows[k].ver = Source[i].ver
        BY <3>1, <4>1, <4>2
      <4>4. i \in 1..Len(Source) /\ i < pos + 1 /\ Source[i].key = k
        BY <1>0, <4>2 DEF LastOf
      <4>5. Source[i].ver < e.ver /\ Source[i].ver \in Nat /\ e.ver \in Nat
        BY <1>0, <1>4, <1>6, <4>4, SourceOrder, SourceEvent DEF e, Event
      <4> QED
        BY <2>1, <4>3, <4>5
    <3>3. m \in pos + 1..Len(Source)
      BY <1>0, <3>2
    <3> QED
      BY <1>1, <3>1, <3>3 DEF Sourced, Tracks
  <2>3. CASE Awaited(rows[k], k, pos)
    <3>1. PICK l \in LastOf(k, Len(Source)) :
            /\ l > pos /\ Source[l].op = "upsert"
            /\ rows[k] # NoRow => rows[k].ver < Source[l].ver
      BY <2>3 DEF Awaited
    <3>2. l \in 1..Len(Source)
      BY DEF LastOf
    <3>3. l # pos + 1
      <4>1. Source[l].ver \in Nat /\ e.ver \in Nat
        BY <1>4, <3>2, SourceEvent DEF Event
      <4> QED
        BY <2>1, <3>1, <4>1 DEF e, TypeOK, Rows
    <3>4. l > pos + 1
      BY <1>0, <3>1, <3>2, <3>3
    <3> QED
      BY <1>1, <3>1, <3>4 DEF Awaited, Tracks
  <2> QED
    BY <2>2, <2>3 DEF Tracks
<1> QED
  BY <1>5, <1>6

LEMMA RogueTracks ==
    ASSUME RogueOvertaken, TypeOK, DeliverRogue, NEW k \in Key, Tracks(rows[k], k, pos)
    PROVE  Tracks(rows'[k], k, pos')
<1>0. Len(Source) \in Nat /\ pos \in Nat /\ pos \in 0..Len(Source)
  BY VectorIndexAssumption DEF TypeOK
<1>1. PICK e \in Rogue : Apply({e}) /\ pos' = pos
  BY DEF DeliverRogue
<1>2. e \in Event
  BY VectorIndexAssumption
<1>3. CASE e.key # k
  BY <1>1, <1>3 DEF Apply
<1>4. CASE e.key = k
  <2>1. PICK l \in LastOf(k, Len(Source)) : Source[l].op = "upsert" /\ e.ver < Source[l].ver
    BY <1>4 DEF RogueOvertaken
  <2>2. rows'[k] = RowAfter(e)
    <3>1. (CHOOSE f \in {e} : f.key = k) = e /\ \E f \in {e} : f.key = k
      BY <1>4
    <3> QED
      BY <1>1, <3>1 DEF Apply
  <2>3. l \in 1..Len(Source) /\ l \in Nat
    BY DEF LastOf
  \* After the last event its row would refuse the older one.
  <2>4. l > pos
    <3>1. SUFFICES ASSUME l <= pos PROVE FALSE
      BY <1>0, <2>3
    <3>2. ~Awaited(rows[k], k, pos)
      <4>1. ASSUME NEW j \in LastOf(k, Len(Source)) PROVE j = l
        BY <1>0, <4>1 DEF LastOf
      <4> QED
        BY <1>0, <2>3, <3>1, <4>1 DEF Awaited
    <3>3. PICK m \in pos..Len(Source) : rows[k] = SourceRow(k, m)
      BY <3>2 DEF Tracks, Sourced
    <3>4. m \in 0..Len(Source) /\ l \in LastOf(k, m)
      BY <1>0, <2>3, <3>1 DEF LastOf
    <3>5. rows[k] = RowAfter(Source[l])
      BY <3>3, <3>4, RowOfLast
    <3>6. rows[k] = [ver |-> Source[l].ver, hash |-> Source[l].hash]
      BY <2>1, <3>5 DEF RowAfter
    <3>7. rows[k].ver > e.ver
      BY <1>2, <2>1, <2>3, <3>6, SourceEvent DEF Event
    <3>8. ~Stale(e)
      BY <1>1 DEF Apply, Valid
    <3>9. rows[k] # NoRow
      BY <2>3, <3>6, SourceEvent, VectorIndexAssumption DEF Event
    <3> QED
      BY <1>4, <3>7, <3>8, <3>9 DEF Stale
  <2>5. rows'[k] # NoRow => rows'[k].ver < Source[l].ver
    BY <2>1, <2>2 DEF RowAfter
  <2> QED
    BY <1>1, <2>1, <2>4, <2>5 DEF Awaited, Tracks
<1> QED
  BY <1>3, <1>4

LEMMA NextOutbox ==
    ASSUME RogueOvertaken, IndexInv, OutboxInv, [Next]_vars
    PROVE  OutboxInv'
<1>0. TypeOK /\ pos \in Nat /\ snap.pos \in Nat
  BY VectorIndexAssumption DEF IndexInv, TypeOK
\* Everything but Save and Start leaves the snapshot alone.
<1>1. ASSUME UNCHANGED <<snap, table>>, \A k \in Key : Tracks(rows[k], k, pos) => Tracks(rows'[k], k, pos')
      PROVE  OutboxInv'
  <2>1. (\A k \in Key : Tracks(snap.rows[k], k, snap.pos))
          => \A k \in Key : Tracks(snap'.rows[k], k, snap'.pos)
    BY <1>1
  <2>2. table' => \A k \in Key : Tracks(rows'[k], k, pos')
    BY <1>1 DEF OutboxInv
  <2>3. snap'.table => \A k \in Key : Tracks(snap'.rows[k], k, snap'.pos)
    BY <1>1, <2>1 DEF OutboxInv
  <2> QED
    BY <2>2, <2>3 DEF OutboxInv
<1>2. CASE Deliver
  <2>1. UNCHANGED <<snap, table>>
    BY <1>2 DEF Deliver, Apply
  <2> QED
    BY <1>0, <1>1, <1>2, <2>1, DeliverTracks
<1>3. CASE Discard
  <2>1. UNCHANGED <<snap, table>>
    BY <1>3 DEF Discard, data
  <2> QED
    BY <1>0, <1>1, <1>3, <2>1, DiscardTracks
<1>4. CASE DeliverRogue
  <2>1. UNCHANGED <<snap, table>>
    BY <1>4 DEF DeliverRogue, Apply
  <2> QED
    BY <1>0, <1>1, <1>4, <2>1, RogueTracks
<1>5. CASE Redeliver
  <2>1. UNCHANGED <<snap, table, rows>> /\ pos' \in 0..pos
    BY <1>5 DEF Redeliver, data
  <2> PICK q : q = pos'
    OBVIOUS
  <2>2. ASSUME NEW k \in Key, Tracks(rows[k], k, pos) PROVE Tracks(rows[k], k, q)
    BY <1>0, <2>1, <2>2, TracksBack
  <2> QED
    BY <1>1, <2>1, <2>2
<1>6. CASE Save
  BY <1>6 DEF Save, Image, OutboxInv, data
<1>7. CASE Start
  <2>1. PICK tb \in BOOLEAN :
          /\ tb => snap.table
          /\ table' = tb
          /\ rows' = IF tb THEN snap.rows ELSE [k \in Key |-> NoRow]
    BY <1>7 DEF Start
  <2>2. pos' \in 0..snap.pos /\ UNCHANGED snap
    BY <1>7 DEF Start
  <2> PICK q : q = pos'
    OBVIOUS
  <2>3. ASSUME NEW k \in Key, Tracks(snap.rows[k], k, snap.pos) PROVE Tracks(snap.rows[k], k, q)
    BY <1>0, <2>2, <2>3, TracksBack
  <2>4. table' => \A k \in Key : Tracks(rows'[k], k, pos')
    BY <2>1, <2>3 DEF OutboxInv
  <2>5. snap'.table => \A k \in Key : Tracks(snap'.rows[k], k, snap'.pos)
    BY <2>2 DEF OutboxInv
  <2> QED
    BY <2>4, <2>5 DEF OutboxInv
<1>8. ASSUME UNCHANGED <<snap, table, rows, pos>> PROVE OutboxInv'
  BY <1>8 DEF OutboxInv
<1> QED
  BY <1>2, <1>3, <1>4, <1>5, <1>6, <1>7, <1>8
     DEF Next, vars, Create, Drop, PanicInTransaction, RebuildBegin, RebuildCommit,
         CompactBegin, CompactEnd, MaintFails, MaintPanics, SearchBegin, SearchEnd,
         Crash, data

\* Once the outbox is delivered the rows are those of the source, whatever was
\* delivered again, cut differently, discarded as stale or restored, provided
\* what other producers send is overtaken (upsert_vectors_blocking).
THEOREM OutboxConverges == ASSUME RogueOvertaken PROVE Spec => []Converges
<1>1. OutboxInv => Converges
  <2> SUFFICES ASSUME OutboxInv, table, pos = Len(Source), NEW k \in Key
               PROVE  rows[k] = SourceRow(k, pos)
    BY DEF Converges
  <2>1. Tracks(rows[k], k, Len(Source)) /\ Len(Source) \in Nat
    BY VectorIndexAssumption DEF OutboxInv
  <2>2. ~Awaited(rows[k], k, Len(Source))
    BY <2>1 DEF Awaited, LastOf
  <2>3. PICK m \in Len(Source)..Len(Source) : rows[k] = SourceRow(k, m)
    BY <2>1, <2>2 DEF Tracks, Sourced
  <2> QED
    BY <2>1, <2>3
<1>2. IndexInv /\ OutboxInv /\ [Next]_vars => OutboxInv'
  BY RogueOvertaken, NextOutbox
<1> QED
  BY <1>1, <1>2, InitOutbox, InvariantHolds, PTL DEF Spec
=============================================================================
