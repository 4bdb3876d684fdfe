-------------------------- MODULE PartitionProofs --------------------------
(***************************************************************************)
(* Theorems about Partition, for any number of partition values, retention *)
(* and set of columns.                                                     *)
(***************************************************************************)
EXTENDS Partition, FiniteSetTheorems, WellFoundedInduction, TLAPS

(***************************************************************************)
(* The inductive invariant: what the commands keep among catalog, tables   *)
(* and view, and the same of the snapshot, from which a start takes them.  *)
(***************************************************************************)
\* The status of a partition and that of its child.
PairOK(p) ==
    \/ p.st = "none" /\ p.rel = "none" /\ p.count = 0
    \/ p.st = "dropped" /\ p.rel = "none"
    \/ p.st = "failed" /\ p.rel = "unavailable"
    \/ p.st = "active" /\ p.rel \in {"active", "unavailable"}

Statuses ==
    \A v \in Value :
        /\ PairOK(part[v])
        /\ parent = "active" /\ part[v].st = "active" => part[v].rel = "active"

\* Every row is in the table, has expired, or went with a quarantined table
\* that no snapshot holds.
Rows ==
    \A v \in Value :
        /\ part[v].rel = "active" => tbl[v].on
        /\ part[v].rel # "none" /\ tbl[v].on => tbl[v].rows + gone[v] = part[v].count
        /\ part[v].rel = "none" => tbl[v] = NoTable /\ gone[v] = part[v].count

ViewOf == parent = "active" => view.on /\ view.of = Active(part)
ViewCols ==
    parent = "active" =>
        \/ view.cols = pcols
        \/ \E v \in Active(part) : v \in mended /\ \A w \in Active(part) : v <= w

Same ==
    parent = "active" => \A v \in Active(part) :
        /\ tbl[v].cols = part[v].cols
        /\ v \notin mended => tbl[v].cols = pcols /\ tbl[v].idx = pidx

Keys == \A v \in Value : tbl[v].idx => ~tbl[v].dups

\* No table, no partition.
Bare ==
    parent = "none" => /\ ~pidx /\ mended = {}
                       /\ \A v \in Value : part[v].st = "none"

LiveInv == Statuses /\ Rows /\ ViewOf /\ ViewCols /\ Same /\ Keys /\ Bare

\* A data file that is there holds the rows of a partition that was active.
SnapRows ==
    \A v \in Value :
        /\ PairOK(snap.part[v])
        /\ snap.data[v].on =>
              /\ snap.part[v].rel = "active"
              /\ snap.data[v].rows + snap.gone[v] = snap.part[v].count
        /\ snap.part[v].rel = "active" /\ ~snap.lost => snap.data[v].on
        /\ snap.part[v].rel = "none" => snap.gone[v] = snap.part[v].count

SnapView ==
    /\ snap.view.on <=> snap.parent = "active"
    /\ snap.parent = "active" =>
          /\ snap.view.of = Active(snap.part)
          /\ \A v \in Active(snap.part) : snap.part[v].rel = "active"

SnapSame ==
    snap.parent = "active" => \A v \in Active(snap.part) : v \notin snap.mended =>
        /\ snap.part[v].cols = snap.pcols
        /\ snap.data[v].on /\ snap.pidx => ~snap.data[v].dups

SnapBare ==
    snap.parent = "none" => /\ ~snap.pidx /\ snap.mended = {}
                            /\ \A v \in Value : snap.part[v].st = "none"

SnapInv == SnapRows /\ SnapView /\ SnapSame /\ SnapBare

PartitionInv == TypeOK /\ LiveInv /\ SnapInv

-----------------------------------------------------------------------------
LEMMA Smallest ==
    ASSUME NEW S \in SUBSET Nat, S # {}
    PROVE  \E v \in S : \A w \in S : v <= w
<1>1. PICK v \in S : \A w \in S : ~(<<w, v>> \in OpToRel(<, Nat))
  BY NatLessThanWellFounded, WFMin
<1>2. ASSUME NEW w \in S PROVE ~(w < v)
  <2> DEFINE pair == <<w, v>>
  <2>1. pair \in Nat \X Nat /\ pair[1] = w /\ pair[2] = v
    OBVIOUS
  <2>2. pair \notin OpToRel(<, Nat)
    BY <1>1
  <2> QED
    BY <2>1, <2>2 DEF OpToRel
<1> QED
  BY <1>2

\* Nothing there is typed too.
LEMMA EmptyTyped ==
    /\ <<>> \in Seq(Column)
    /\ NoPart \in PartType /\ NoTable \in TableType /\ NoView \in ViewType
<1>1. <<>> \in Seq(Column)
  OBVIOUS
<1>2. NoPart \in PartType
  BY <1>1 DEF NoPart, PartType
<1>3. NoTable \in TableType
  BY <1>1 DEF NoTable, TableType
<1>4. NoView \in ViewType
  BY <1>1 DEF NoView, ViewType
<1> QED
  BY <1>1, <1>2, <1>3, <1>4

\* What the updates of the commands make of a record.
LEMMA PartTyped ==
    ASSUME NEW p \in PartType
    PROVE  /\ [p EXCEPT !.st = "failed", !.rel = "unavailable"] \in PartType
           /\ [p EXCEPT !.st = "active", !.rel = "active"] \in PartType
           /\ [p EXCEPT !.st = "dropped", !.rel = "none", !.cols = <<>>] \in PartType
           /\ [p EXCEPT !.count = @ + 1] \in PartType
           /\ [p EXCEPT !.rel = "unavailable"] \in PartType
<1>1. [p EXCEPT !.st = "failed", !.rel = "unavailable"] \in PartType
  BY DEF PartType
<1>2. [p EXCEPT !.st = "active", !.rel = "active"] \in PartType
  BY DEF PartType
<1>3. [p EXCEPT !.st = "dropped", !.rel = "none", !.cols = <<>>] \in PartType
  <2> DEFINE none == <<>>
  <2>1. none \in Seq(Column)
    BY EmptyTyped
  <2> HIDE DEF none
  <2>2. [p EXCEPT !.st = "dropped", !.rel = "none", !.cols = none] \in PartType
    BY <2>1 DEF PartType
  <2> QED
    BY <2>2 DEF none
<1>4. [p EXCEPT !.count = @ + 1] \in PartType
  BY DEF PartType
<1>5. [p EXCEPT !.rel = "unavailable"] \in PartType
  BY DEF PartType
<1> QED
  BY <1>1, <1>2, <1>3, <1>4, <1>5

\* The columns of a union are those of the first of its tables.
LEMMA UnionOfOne ==
    ASSUME NEW t, NEW of \in SUBSET Value, NEW cols
    PROVE  /\ of = {} => UnionColumns(t, of, cols) = cols
           /\ of # {} => \E v \in of :
                 (\A w \in of : v <= w) /\ UnionColumns(t, of, cols) = t[v].cols
<1>1. CASE of = {}
  BY <1>1 DEF UnionColumns
<1>2. CASE of # {}
  <2> DEFINE least == CHOOSE v \in of : \A w \in of : v <= w
  <2>1. of \in SUBSET Nat
    BY PartitionAssumption DEF Value
  <2>2. least \in of /\ \A w \in of : least <= w
    BY <1>2, <2>1, Smallest
  <2> QED
    BY <1>2, <2>2 DEF UnionColumns
<1> QED
  BY <1>1, <1>2

\* The view made by a command reads the active partitions under the columns of
\* the table.
LEMMA RefreshStep ==
    ASSUME Refresh, Same', part' \in [Value -> PartType], tbl' \in [Value -> TableType],
           pcols' \in Seq(Column)
    PROVE  view' \in ViewType /\ ViewOf' /\ ViewCols'
<1>1. Active(part') \in SUBSET Value
  BY DEF Active
<1>2. view'.of = Active(part') /\ view'.on /\ view'.cols = UnionColumns(tbl', Active(part'), pcols')
  BY DEF Refresh
<1>3. view'.cols \in Seq(Column)
  <2>1. CASE Active(part') = {}
    BY <1>1, <1>2, <2>1, UnionOfOne
  <2>2. CASE Active(part') # {}
    <3>1. PICK v \in Active(part') : view'.cols = tbl'[v].cols
      BY <1>1, <1>2, <2>2, UnionOfOne
    <3>2. tbl'[v] \in TableType
      BY <1>1
    <3> QED
      BY <3>1, <3>2 DEF TableType
  <2> QED
    BY <2>1, <2>2
<1>4. view' \in ViewType
  BY <1>1, <1>2, <1>3 DEF Refresh, ViewType
<1>5. ViewOf'
  BY <1>2 DEF ViewOf
<1>6. ViewCols'
  <2> SUFFICES ASSUME parent' = "active", Active(part') # {}, view'.cols # pcols'
               PROVE  \E v \in Active(part') : v \in mended' /\ \A w \in Active(part') : v <= w
    BY <1>1, <1>2, UnionOfOne DEF ViewCols
  <2>1. PICK v \in Active(part') : (\A w \in Active(part') : v <= w) /\ view'.cols = tbl'[v].cols
    BY <1>1, <1>2, UnionOfOne
  <2>2. v \in mended'
    BY <2>1 DEF Same
  <2> QED
    BY <2>1, <2>2
<1> QED
  BY <1>4, <1>5, <1>6

\* A command leaves the snapshot alone.
LEMMA SnapKept ==
    ASSUME SnapInv, UNCHANGED snap
    PROVE  SnapInv'
BY DEF SnapInv, SnapRows, SnapView, SnapSame, SnapBare

LEMMA InitInv == Init => PartitionInv
<1> SUFFICES ASSUME Init PROVE PartitionInv
  OBVIOUS
<1> USE DEF Init
<1>1. TypeOK
  <2>1. /\ pcols \in Seq(Column) /\ view \in ViewType
        /\ part \in [Value -> PartType] /\ tbl \in [Value -> TableType]
        /\ gone \in [Value -> Nat] /\ mended \subseteq Value
    BY EmptyTyped
  <2>2. Image.data \in [Value -> TableType] /\ Image.view \in ViewType
    BY <2>1, EmptyTyped DEF Image
  <2> HIDE DEF Init
  <2>3. /\ up = TRUE /\ unsaved = 0 /\ parent = "none" /\ pidx = FALSE /\ snap = Image
    BY DEF Init
  <2> QED
    BY <2>1, <2>2, <2>3 DEF TypeOK, Image
<1>2. LiveInv
  BY DEF LiveInv, Statuses, PairOK, Rows, ViewOf, ViewCols, Same, Keys, Bare, NoPart, NoTable
<1>3. SnapInv
  BY DEF SnapInv, SnapRows, SnapView, SnapSame, SnapBare, PairOK, Image, NoPart, NoTable, NoView
<1> QED
  BY <1>1, <1>2, <1>3 DEF PartitionInv

-----------------------------------------------------------------------------
(***************************************************************************)
(* Every command keeps the live part of the invariant.                     *)
(***************************************************************************)
LEMMA CreateTableStep ==
    ASSUME PartitionInv, unsaved' \in Nat, CreateTable
    PROVE  TypeOK' /\ LiveInv'
<1> USE DEF CreateTable, PartitionInv, LiveInv, history
<1>1. TypeOK'
  <2>1. view' \in ViewType /\ pcols' \in Seq(Column)
    BY PartitionAssumption DEF ViewType
  <2> QED
    BY <2>1 DEF TypeOK
<1>2. \A v \in Value : part'[v].st = "none" /\ part[v].rel = "none"
  BY DEF Bare, Statuses, PairOK
<1>3. Statuses' /\ Keys' /\ Bare'
  BY <1>2 DEF Statuses, Keys, Bare
<1>4. Rows'
  BY DEF Rows
<1>5. Active(part') = {}
  BY <1>2 DEF Active
<1> QED
  BY <1>1, <1>3, <1>4, <1>5 DEF Same, ViewOf, ViewCols

LEMMA DropTableStep ==
    ASSUME PartitionInv, unsaved' \in Nat, Empty, UNCHANGED snap, up' \in BOOLEAN
    PROVE  TypeOK' /\ LiveInv'
<1> USE DEF Empty, PartitionInv, LiveInv, history
<1>1. TypeOK'
  <2>1. part' \in [Value -> PartType] /\ tbl' \in [Value -> TableType]
    BY EmptyTyped
  <2>2. view' \in ViewType /\ pcols' \in Seq(Column)
    BY EmptyTyped
  <2> QED
    BY <2>1, <2>2 DEF TypeOK
<1>2. Statuses' /\ Keys' /\ Bare'
  BY DEF Statuses, PairOK, Keys, Bare, NoPart, NoTable
<1>3. Rows'
  BY DEF Rows, NoPart, NoTable
<1> QED
  BY <1>1, <1>2, <1>3 DEF Same, ViewOf, ViewCols

LEMMA MarkStep ==
    ASSUME PartitionInv, unsaved' \in Nat, NEW v \in Value, Mark(v)
    PROVE  TypeOK' /\ LiveInv'
<1> USE DEF Mark, PartitionInv, LiveInv, history, Ready
<1>1. part' \in [Value -> PartType]
  <2>1. [part[v] EXCEPT !.st = "failed", !.rel = "unavailable"] \in PartType
    BY PartTyped DEF TypeOK
  <2>2. part' = [part EXCEPT ![v] = [part[v] EXCEPT !.st = "failed", !.rel = "unavailable"]]
    BY DEF TypeOK, PartType
  <2> QED
    BY <2>1, <2>2 DEF TypeOK
<1>2. Statuses'
  BY DEF Statuses, PairOK, TypeOK, PartType
<1>3. Rows'
  BY DEF Rows, TypeOK, PartType
<1>4. Same'
  BY DEF Same, TypeOK, PartType, Active
<1>5. view' \in ViewType /\ ViewOf' /\ ViewCols'
  BY <1>1, <1>4, RefreshStep DEF TypeOK
<1>6. TypeOK'
  BY <1>1, <1>5 DEF TypeOK
<1> QED
  BY <1>2, <1>3, <1>4, <1>5, <1>6 DEF Keys, Bare

LEMMA RepairDroppedStep ==
    ASSUME PartitionInv, unsaved' \in Nat, NEW v \in Value, RepairDropped(v)
    PROVE  TypeOK' /\ LiveInv'
<1> USE DEF PartitionInv, LiveInv, history, Ready
<1>1. /\ tbl' = [tbl EXCEPT ![v] = NewTable] /\ Refresh
      /\ part[v].rel = "none" /\ part[v].st \notin {"none", "active"}
      /\ part' = [part EXCEPT ![v].st = "active", ![v].rel = "active", ![v].cols = pcols]
      /\ UNCHANGED <<up, parent, pcols, pidx, snap, gone, mended>>
      /\ up /\ parent = "active"
  BY DEF RepairDropped
<1>2. NewTable \in TableType /\ NewTable.on /\ NewTable.rows = 0 /\ NewTable.cols = pcols
      /\ NewTable.idx = pidx /\ ~NewTable.dups
  BY DEF TypeOK, TableType, NewTable
<1>3. /\ part'[v] \in PartType /\ part'[v].st = "active" /\ part'[v].rel = "active"
      /\ part'[v].cols = pcols /\ part'[v].count = part[v].count
  <2>1. part[v] \in PartType /\ pcols \in Seq(Column)
    BY DEF TypeOK
  <2>2. part'[v] = [part[v] EXCEPT !.st = "active", !.rel = "active", !.cols = pcols]
    BY <1>1, <2>1 DEF TypeOK, PartType
  <2> QED
    BY <2>1, <2>2 DEF PartType
<1>4. tbl'[v] = NewTable
  BY <1>1 DEF TypeOK
<1>5. \A w \in Value \ {v} : part'[w] = part[w] /\ tbl'[w] = tbl[w]
  BY <1>1 DEF TypeOK
<1>6. part' \in [Value -> PartType]
  <2>1. \A w \in Value : part'[w] \in PartType
    BY <1>3, <1>5 DEF TypeOK
  <2>2. part' = [w \in Value |-> part'[w]]
    BY <1>1 DEF TypeOK
  <2> QED
    BY <2>1, <2>2
<1>7. tbl' \in [Value -> TableType]
  BY <1>1, <1>2 DEF TypeOK
<1>8. Statuses'
  BY <1>1, <1>3, <1>5 DEF Statuses, PairOK
<1>9. Rows'
  <2>1. gone[v] = part[v].count /\ gone[v] \in Nat
    BY <1>1 DEF Rows, TypeOK
  <2>2. tbl'[v].on /\ tbl'[v].rows + gone'[v] = part'[v].count
    BY <1>1, <1>2, <1>3, <1>4, <2>1
  <2>3. ASSUME NEW w \in Value \ {v}
        PROVE  /\ part'[w].rel = "active" => tbl'[w].on
               /\ part'[w].rel # "none" /\ tbl'[w].on =>
                      tbl'[w].rows + gone'[w] = part'[w].count
               /\ part'[w].rel = "none" => tbl'[w] = NoTable /\ gone'[w] = part'[w].count
    <3>1. part'[w] = part[w] /\ tbl'[w] = tbl[w] /\ gone' = gone
      BY <1>1, <1>5
    <3> QED
      BY <3>1 DEF Rows
  <2>4. part'[v].rel = "active"
    BY <1>3
  <2> HIDE DEF PartitionInv, LiveInv
  <2> QED
    BY <2>2, <2>3, <2>4 DEF Rows
<1>10. Same'
  <2>1. ASSUME NEW w \in Active(part')
        PROVE  /\ tbl'[w].cols = part'[w].cols
               /\ w \notin mended' => tbl'[w].cols = pcols' /\ tbl'[w].idx = pidx'
    <3>1. CASE w = v
      BY <1>1, <1>2, <1>3, <1>4, <3>1
    <3>2. CASE w # v
      <4>1. w \in Active(part) /\ part'[w] = part[w] /\ tbl'[w] = tbl[w]
        BY <1>5, <3>2 DEF Active
      <4> QED
        BY <1>1, <4>1 DEF Same
    <3> QED
      BY <3>1, <3>2
  <2> QED
    BY <2>1 DEF Same
<1>11. Keys' /\ Bare'
  BY <1>1, <1>2, <1>4, <1>5 DEF Keys, Bare
<1>12. view' \in ViewType /\ ViewOf' /\ ViewCols'
  BY <1>1, <1>6, <1>7, <1>10, RefreshStep DEF TypeOK
<1>13. TypeOK'
  BY <1>1, <1>6, <1>7, <1>12 DEF TypeOK
<1> QED
  BY <1>8, <1>9, <1>10, <1>11, <1>12, <1>13

LEMMA RepairFailedStep ==
    ASSUME PartitionInv, unsaved' \in Nat, NEW v \in Value, RepairFailed(v)
    PROVE  TypeOK' /\ LiveInv'
<1> USE DEF RepairFailed, PartitionInv, LiveInv, history, Ready
<1>1. part' \in [Value -> PartType]
  <2>1. [part[v] EXCEPT !.st = "active", !.rel = "active"] \in PartType
    BY PartTyped DEF TypeOK
  <2>2. part' = [part EXCEPT ![v] = [part[v] EXCEPT !.st = "active", !.rel = "active"]]
    BY DEF TypeOK, PartType
  <2> QED
    BY <2>1, <2>2 DEF TypeOK
<1>2. Statuses'
  BY DEF Statuses, PairOK, TypeOK, PartType
<1>3. Rows'
  BY DEF Rows, TypeOK, PartType
<1>4. Same'
  BY DEF Same, TypeOK, PartType, Active
<1>5. view' \in ViewType /\ ViewOf' /\ ViewCols'
  BY <1>1, <1>4, RefreshStep DEF TypeOK
<1>6. TypeOK'
  BY <1>1, <1>5 DEF TypeOK
<1> QED
  BY <1>2, <1>3, <1>4, <1>5, <1>6 DEF Keys, Bare

\* What expires of a consistent set of partitions and tables.
LEMMA ExpireStep ==
    ASSUME NEW p \in [Value -> PartType], NEW t \in [Value -> TableType],
           NEW gon \in SUBSET Value, \A v \in gon : p[v].st = "active"
    PROVE  /\ Dropped(p, gon) \in [Value -> PartType]
           /\ Without(t, gon) \in [Value -> TableType]
           /\ \A v \in Value \ gon : Dropped(p, gon)[v] = p[v] /\ Without(t, gon)[v] = t[v]
           /\ \A v \in gon : /\ Dropped(p, gon)[v].st = "dropped"
                             /\ Dropped(p, gon)[v].rel = "none"
                             /\ Dropped(p, gon)[v].count = p[v].count
                             /\ Without(t, gon)[v] = NoTable
<1>1. ASSUME NEW v \in Value PROVE Dropped(p, gon)[v] \in PartType /\ Without(t, gon)[v] \in TableType
  <2>1. [p[v] EXCEPT !.st = "dropped", !.rel = "none", !.cols = <<>>] \in PartType
    BY PartTyped
  <2>2. NoTable \in TableType
    BY EmptyTyped
  <2> QED
    BY <2>1, <2>2 DEF Dropped, Without
<1>2. Dropped(p, gon) \in [Value -> PartType] /\ Without(t, gon) \in [Value -> TableType]
  BY <1>1 DEF Dropped, Without
<1>3. \A v \in Value \ gon : Dropped(p, gon)[v] = p[v] /\ Without(t, gon)[v] = t[v]
  BY DEF Dropped, Without
<1>4. ASSUME NEW v \in gon
      PROVE  /\ Dropped(p, gon)[v].st = "dropped" /\ Dropped(p, gon)[v].rel = "none"
             /\ Dropped(p, gon)[v].count = p[v].count /\ Without(t, gon)[v] = NoTable
  <2>1. p[v] \in PartType
    OBVIOUS
  <2> QED
    BY <2>1 DEF Dropped, Without, PartType
<1> QED
  BY <1>2, <1>3, <1>4

LEMMA MaintainStep ==
    ASSUME PartitionInv, unsaved' \in Nat, Maintain
    PROVE  TypeOK' /\ LiveInv'
<1> USE DEF Maintain, PartitionInv, LiveInv, history, Ready
<1> DEFINE gon == Oldest(part)
<1> HIDE DEF gon
<1>0. /\ part' = Dropped(part, gon) /\ tbl' = Without(tbl, gon)
      /\ gone' = [v \in Value |-> IF v \in gon THEN part[v].count ELSE gone[v]]
      /\ mended' = mended \ gon
  BY DEF gon
<1>1. gon \in SUBSET Value /\ \A v \in gon : part[v].st = "active"
  BY DEF gon, Oldest, Active
<1>2. /\ part' \in [Value -> PartType] /\ tbl' \in [Value -> TableType]
      /\ \A v \in Value \ gon : part'[v] = part[v] /\ tbl'[v] = tbl[v]
      /\ \A v \in gon : /\ part'[v].st = "dropped" /\ part'[v].rel = "none"
                        /\ part'[v].count = part[v].count /\ tbl'[v] = NoTable
  <2>1. part \in [Value -> PartType] /\ tbl \in [Value -> TableType]
    BY DEF TypeOK
  <2> HIDE DEF Maintain, PartitionInv, LiveInv
  <2> QED
    BY <1>0, <1>1, <2>1, ExpireStep
<1>3. gone' \in [Value -> Nat] /\ mended' \subseteq Value
  BY <1>0 DEF TypeOK, PartType
<1>4. Statuses'
  BY <1>2 DEF Statuses, PairOK
<1>5. Rows'
  BY <1>0, <1>1, <1>2 DEF Rows
<1>6. Same'
  BY <1>0, <1>2 DEF Same, Active
<1>7. Keys' /\ Bare'
  BY <1>2 DEF Keys, Bare, NoTable
<1>8. view' \in ViewType /\ ViewOf' /\ ViewCols'
  BY <1>2, <1>6, RefreshStep DEF TypeOK
<1>9. TypeOK'
  BY <1>2, <1>3, <1>8 DEF TypeOK
<1> QED
  BY <1>4, <1>5, <1>6, <1>7, <1>8, <1>9

LEMMA IndexStep ==
    ASSUME PartitionInv, unsaved' \in Nat, NEW b \in BOOLEAN, Ready, pidx' = b,
           b => \A v \in Active(part) : ~tbl[v].dups,
           tbl' = [v \in Value |-> IF v \in Active(part) THEN [tbl[v] EXCEPT !.idx = b] ELSE tbl[v]],
           UNCHANGED <<up, parent, pcols, part, view, snap, history>>
    PROVE  TypeOK' /\ LiveInv'
<1> USE DEF PartitionInv, LiveInv, history, Ready
<1>1. ASSUME NEW v \in Value
      PROVE  /\ tbl'[v] \in TableType
             /\ tbl'[v].on = tbl[v].on /\ tbl'[v].rows = tbl[v].rows
             /\ tbl'[v].cols = tbl[v].cols /\ tbl'[v].dups = tbl[v].dups
             /\ tbl'[v].idx = IF v \in Active(part) THEN b ELSE tbl[v].idx
             /\ v \notin Active(part) => tbl'[v] = tbl[v]
  <2>1. tbl[v] \in TableType
    BY DEF TypeOK
  <2> QED
    BY <2>1 DEF TableType
<1>2. tbl' \in [Value -> TableType]
  BY <1>1
<1>3. TypeOK'
  BY <1>2 DEF TypeOK
<1>4. Statuses'
  BY DEF Statuses
<1>5. Rows'
  BY <1>1 DEF Rows, Active, Statuses, PairOK
<1>6. Same'
  BY <1>1 DEF Same, Active
<1>7. Keys'
  BY <1>1 DEF Keys
<1> QED
  BY <1>3, <1>4, <1>5, <1>6, <1>7 DEF ViewOf, ViewCols, Bare

\* An edit of a list of columns is one.
LEMMA EditedTyped ==
    ASSUME NEW op \in {"add", "drop", "rename"}, NEW c \in Column, NEW d \in Column,
           NEW cols \in Seq(Column), Editable(op, c, d, cols)
    PROVE  Edited(op, c, d, cols) \in Seq(Column)
<1>1. CASE op = "add"
  BY <1>1 DEF Edited
<1>2. CASE op \in {"drop", "rename"}
  <2> DEFINE k == At(cols, c)
  <2>1. k \in 1..Len(cols) /\ Len(cols) \in Nat
    BY <1>2 DEF At, Editable, Names
  <2> HIDE DEF k
  <2>2. CASE op = "drop"
    <3> DEFINE n == Len(cols) - 1
               rest == [i \in 1..n |-> cols[IF i < k THEN i ELSE i + 1]]
    <3>1. n \in Nat /\ \A i \in 1..n : cols[IF i < k THEN i ELSE i + 1] \in Column
      BY <2>1
    <3>2. rest \in Seq(Column)
      <4> HIDE DEF n
      <4> QED
        BY <3>1
    <3>3. Edited(op, c, d, cols) = rest
      BY <2>2 DEF Edited, k
    <3> QED
      BY <3>2, <3>3
  <2>3. CASE op = "rename"
    <3>1. [cols EXCEPT ![k] = d] \in Seq(Column)
      BY <2>1
    <3>2. Edited(op, c, d, cols) = [cols EXCEPT ![k] = d]
      BY <2>3 DEF Edited, k
    <3> QED
      BY <3>1, <3>2
  <2> QED
    BY <1>2, <2>2, <2>3
<1> QED
  BY <1>1, <1>2

LEMMA AlterStep ==
    ASSUME PartitionInv, unsaved' \in Nat,
           NEW op \in {"add", "drop", "rename"}, NEW c \in Column, NEW d \in Column, Alter(op, c, d)
    PROVE  TypeOK' /\ LiveInv'
<1> USE DEF Alter, PartitionInv, LiveInv, history, Ready
<1> DEFINE changed(cols) == Edited(op, c, d, cols)
<1>1. pcols' = changed(pcols) /\ pcols' \in Seq(Column)
  BY EditedTyped DEF TypeOK
<1>2. ASSUME NEW v \in Active(part)
      PROVE  /\ part'[v] \in PartType /\ part'[v].st = part[v].st /\ part'[v].rel = part[v].rel
             /\ part'[v].count = part[v].count /\ part'[v].cols = changed(part[v].cols)
             /\ tbl'[v] \in TableType /\ tbl'[v].on = tbl[v].on /\ tbl'[v].rows = tbl[v].rows
             /\ tbl'[v].idx = tbl[v].idx /\ tbl'[v].dups = tbl[v].dups
             /\ tbl'[v].cols = changed(tbl[v].cols)
  <2>1. part[v] \in PartType /\ tbl[v] \in TableType /\ v \in Value
    BY DEF TypeOK, Active
  <2>2. /\ part'[v] = [part[v] EXCEPT !.cols = changed(part[v].cols)]
        /\ tbl'[v] = [tbl[v] EXCEPT !.cols = changed(tbl[v].cols)]
    BY <2>1
  <2>3. part[v].cols = tbl[v].cols
    BY DEF Same
  <2>4. changed(tbl[v].cols) \in Seq(Column)
    BY <2>1, EditedTyped DEF TableType
  <2> HIDE DEF changed, Alter
  <2> QED
    BY <2>1, <2>2, <2>3, <2>4 DEF PartType, TableType
<1>3. ASSUME NEW v \in Value, v \notin Active(part)
      PROVE  part'[v] = part[v] /\ tbl'[v] = tbl[v]
  BY <1>3
<1>4. part' \in [Value -> PartType] /\ tbl' \in [Value -> TableType]
  <2>1. ASSUME NEW v \in Value PROVE part'[v] \in PartType /\ tbl'[v] \in TableType
    BY <1>2, <1>3 DEF TypeOK
  <2> QED
    BY <2>1
<1>5. Active(part') = Active(part)
  BY <1>2, <1>3 DEF Active
<1>6. Statuses'
  BY <1>2, <1>3 DEF Statuses, PairOK
<1>7. Rows'
  BY <1>2, <1>3 DEF Rows, Active, Statuses, PairOK
<1>8. Same'
  <2> HIDE DEF changed, Alter
  <2>1. ASSUME NEW v \in Active(part), parent = "active"
        PROVE  /\ tbl'[v].cols = part'[v].cols
               /\ v \notin mended => tbl'[v].cols = pcols' /\ tbl'[v].idx = pidx
    <3>1. /\ tbl[v].cols = part[v].cols
          /\ v \notin mended => tbl[v].cols = pcols /\ tbl[v].idx = pidx
      BY <2>1 DEF Same
    <3>2. pidx' = pidx
      BY DEF Alter
    <3>3. tbl'[v].cols = changed(tbl[v].cols) /\ part'[v].cols = changed(part[v].cols)
      BY <1>2
    <3>4. tbl'[v].idx = tbl[v].idx
      BY <1>2
    <3> QED
      BY <1>1, <3>1, <3>2, <3>3, <3>4
  <2>2. parent' = parent /\ mended' = mended /\ pidx' = pidx
    BY DEF Alter
  <2> QED
    BY <1>5, <2>1, <2>2 DEF Same
<1>9. Keys' /\ Bare'
  BY <1>2, <1>3 DEF Keys, Bare
<1>10. view' \in ViewType /\ ViewOf' /\ ViewCols'
  BY <1>1, <1>4, <1>8, RefreshStep
<1>11. TypeOK'
  BY <1>1, <1>4, <1>10 DEF TypeOK
<1> QED
  BY <1>6, <1>7, <1>8, <1>9, <1>10, <1>11

LEMMA InsertStep ==
    ASSUME PartitionInv, unsaved' \in Nat,
           NEW vs \in SUBSET Value, NEW again \in SUBSET vs, Insert(vs, again)
    PROVE  TypeOK' /\ LiveInv'
<1> USE DEF PartitionInv, LiveInv, history, Ready
<1> DEFINE made == [v \in Value |->
               IF v \notin vs THEN part[v]
               ELSE IF part[v].st = "active" THEN [part[v] EXCEPT !.count = @ + 1]
               ELSE [st |-> "active", rel |-> "active", cols |-> pcols, count |-> 1]]
           base == [v \in Value |-> IF v \in vs /\ part[v].st = "none" THEN NewTable ELSE tbl[v]]
           filled == [v \in Value |->
               IF v \in vs THEN [base[v] EXCEPT !.rows = @ + 1, !.dups = @ \/ v \in again]
               ELSE base[v]]
           gon == Oldest(made)
<1>0. /\ Ready
      /\ \A v \in vs : Insertable(v)
      /\ \A v \in again : tbl[v].rows > 0 /\ ~tbl[v].idx
      /\ part' = Dropped(made, gon) /\ tbl' = Without(filled, gon)
      /\ gone' = [v \in Value |-> IF v \in gon THEN made[v].count ELSE gone[v]]
      /\ mended' = mended \ gon
      /\ UNCHANGED <<up, parent, pcols, pidx, snap>>
      /\ Refresh
  BY DEF Insert
\* A value that gets its partition.
<1>1. ASSUME NEW v \in vs, part[v].st = "none"
      PROVE  /\ made[v] = [st |-> "active", rel |-> "active", cols |-> pcols, count |-> 1]
             /\ made[v] \in PartType /\ filled[v] \in TableType /\ gone[v] = 0
             /\ filled[v].on /\ filled[v].rows = 1 /\ filled[v].cols = pcols
             /\ filled[v].idx = pidx /\ ~filled[v].dups
  <2>1. made[v] = [st |-> "active", rel |-> "active", cols |-> pcols, count |-> 1]
    BY <1>1
  <2>2. part[v].rel = "none" /\ part[v].count = 0 /\ tbl[v] = NoTable /\ gone[v] = 0
    BY <1>1 DEF Statuses, PairOK, Rows
  <2>3. filled[v] = [NewTable EXCEPT !.rows = @ + 1, !.dups = @ \/ v \in again]
    BY <1>1
  <2> HIDE DEF made, base, filled, gon
  <2>4. v \notin again
    <3>1. tbl[v].rows = 0
      BY <2>2 DEF NoTable
    <3> QED
      BY <1>0, <3>1
  <2>5. filled[v] = [NewTable EXCEPT !.rows = 1, !.dups = FALSE]
    <3>1. NewTable.rows + 1 = 1 /\ (NewTable.dups \/ v \in again) = FALSE
      BY <2>4 DEF NewTable
    <3> QED
      BY <2>3, <3>1
  <2>6. NewTable \in TableType
    BY DEF TypeOK, TableType, NewTable
  <2>7. filled[v] \in TableType /\ filled[v].on /\ filled[v].rows = 1 /\ filled[v].cols = pcols
        /\ filled[v].idx = pidx /\ ~filled[v].dups
    <3>1. filled[v] = [on |-> TRUE, rows |-> 1, cols |-> pcols, idx |-> pidx, dups |-> FALSE]
      BY <2>5 DEF NewTable
    <3>2. pcols \in Seq(Column) /\ pidx \in BOOLEAN
      BY DEF TypeOK
    <3> QED
      BY <3>1, <3>2 DEF TableType
  <2>8. made[v] \in PartType
    BY <2>1 DEF PartType, TypeOK
  <2> QED
    BY <2>1, <2>2, <2>7, <2>8
\* A value that has one.
<1>2. ASSUME NEW v \in vs, part[v].st # "none"
      PROVE  /\ part[v].st = "active" /\ part[v].rel = "active"
             /\ made[v] \in PartType /\ filled[v] \in TableType
             /\ made[v].st = "active" /\ made[v].rel = "active"
             /\ made[v].cols = part[v].cols /\ made[v].count = part[v].count + 1
             /\ filled[v].on = tbl[v].on /\ filled[v].rows = tbl[v].rows + 1
             /\ filled[v].cols = tbl[v].cols /\ filled[v].idx = tbl[v].idx
             /\ filled[v].dups = (tbl[v].dups \/ v \in again)
  <2>1. part[v] \in PartType /\ tbl[v] \in TableType
    BY DEF TypeOK
  <2>2. part[v].st = "active" /\ part[v].rel = "active"
    BY <1>0, <1>2 DEF Insertable, Statuses
  <2>3. made[v] = [part[v] EXCEPT !.count = @ + 1]
    BY <2>2
  <2>4. filled[v] = [tbl[v] EXCEPT !.rows = tbl[v].rows + 1, !.dups = tbl[v].dups \/ v \in again]
    BY <1>2
  <2> HIDE DEF made, base, filled, gon
  <2>5. (tbl[v].dups \/ v \in again) \in BOOLEAN /\ tbl[v].rows + 1 \in Nat
    BY <2>1 DEF TableType
  <2>6. filled[v] \in TableType
    <3> DEFINE n == tbl[v].rows + 1
               b == tbl[v].dups \/ v \in again
    <3>1. n \in Nat /\ b \in BOOLEAN /\ filled[v] = [tbl[v] EXCEPT !.rows = n, !.dups = b]
      BY <2>4, <2>5
    <3> HIDE DEF n, b
    <3> QED
      BY <2>1, <3>1 DEF TableType
  <2>7. made[v] \in PartType
    BY <2>1, <2>3, PartTyped
  <2> QED
    BY <2>1, <2>2, <2>3, <2>4, <2>6, <2>7 DEF PartType, TableType
<1>3. ASSUME NEW v \in Value \ vs
      PROVE  made[v] = part[v] /\ filled[v] = tbl[v]
  OBVIOUS
<1>4. made \in [Value -> PartType] /\ filled \in [Value -> TableType]
  <2>1. ASSUME NEW v \in Value PROVE made[v] \in PartType /\ filled[v] \in TableType
    BY <1>1, <1>2, <1>3 DEF TypeOK
  <2> QED
    BY <2>1
<1> HIDE DEF made, base, filled, gon
<1>5. gon \in SUBSET Value /\ \A v \in gon : made[v].st = "active"
  BY DEF gon, Oldest, Active
<1>6. /\ part' \in [Value -> PartType] /\ tbl' \in [Value -> TableType]
      /\ \A v \in Value \ gon : part'[v] = made[v] /\ tbl'[v] = filled[v]
      /\ \A v \in gon : /\ part'[v].st = "dropped" /\ part'[v].rel = "none"
                        /\ part'[v].count = made[v].count /\ tbl'[v] = NoTable
  BY <1>0, <1>4, <1>5, ExpireStep
<1>7. gone' \in [Value -> Nat] /\ mended' \subseteq Value
  BY <1>0, <1>4 DEF TypeOK, PartType
<1>8. ASSUME NEW v \in Value \ gon
      PROVE  /\ PairOK(part'[v])
             /\ part'[v].st = "active" => part'[v].rel = "active"
             /\ part'[v].rel = "active" => tbl'[v].on
             /\ part'[v].rel # "none" /\ tbl'[v].on => tbl'[v].rows + gone[v] = part'[v].count
             /\ part'[v].rel = "none" => tbl'[v] = NoTable /\ gone[v] = part'[v].count
             /\ tbl'[v].idx => ~tbl'[v].dups
  <2>1. CASE v \in vs /\ part[v].st = "none"
    BY <1>1, <1>6, <2>1 DEF PairOK
  <2>2. CASE v \in vs /\ part[v].st # "none"
    <3>1. part[v] \in PartType /\ tbl[v] \in TableType /\ gone[v] \in Nat
      BY DEF TypeOK
    <3>2. tbl[v].on /\ tbl[v].rows + gone[v] = part[v].count
      BY <1>2, <2>2 DEF Rows
    <3>3. tbl[v].idx => ~tbl[v].dups /\ v \notin again
      BY <1>0 DEF Keys
    <3>4. part'[v] = made[v] /\ tbl'[v] = filled[v]
      BY <1>6
    <3>5. tbl'[v].on /\ tbl'[v].rows = tbl[v].rows + 1 /\ part'[v].count = part[v].count + 1
      BY <1>2, <2>2, <3>2, <3>4
    <3>6. tbl'[v].rows + gone[v] = part'[v].count
      <4>1. tbl[v].rows \in Nat /\ part[v].count \in Nat
        BY <3>1 DEF PartType, TableType
      <4> QED
        BY <3>1, <3>2, <3>5, <4>1
    <3>7. tbl'[v].idx => ~tbl'[v].dups
      BY <1>2, <2>2, <3>3, <3>4
    <3> QED
      BY <1>2, <2>2, <3>4, <3>5, <3>6, <3>7 DEF PairOK
  <2>3. CASE v \notin vs
    BY <1>0, <1>3, <1>6, <2>3 DEF Statuses, Rows, Keys
  <2> QED
    BY <2>1, <2>2, <2>3
<1>9. Statuses'
  BY <1>6, <1>8 DEF Statuses, PairOK
<1>10. Rows'
  BY <1>0, <1>5, <1>6, <1>8 DEF Rows
<1>11. Same'
  <2>1. ASSUME NEW v \in Active(part')
        PROVE  /\ tbl'[v].cols = part'[v].cols
               /\ v \notin mended' => tbl'[v].cols = pcols /\ tbl'[v].idx = pidx
    <3>1. v \in Value \ gon
      BY <1>6 DEF Active
    <3>2. CASE v \in vs /\ part[v].st = "none"
      BY <1>1, <1>6, <3>1, <3>2
    <3>3. CASE v \in vs /\ part[v].st # "none"
      BY <1>0, <1>2, <1>6, <3>1, <3>3 DEF Same, Active
    <3>4. CASE v \notin vs
      BY <1>0, <1>3, <1>6, <3>1, <3>4 DEF Same, Active
    <3> QED
      BY <3>2, <3>3, <3>4
  <2> QED
    BY <1>0, <2>1 DEF Same
<1>12. Keys' /\ Bare'
  BY <1>0, <1>6, <1>8 DEF Keys, Bare, NoTable
<1>13. view' \in ViewType /\ ViewOf' /\ ViewCols'
  BY <1>0, <1>6, <1>11, RefreshStep DEF TypeOK
<1>14. TypeOK'
  BY <1>0, <1>6, <1>7, <1>13 DEF TypeOK
<1> QED
  BY <1>9, <1>10, <1>11, <1>12, <1>13, <1>14

-----------------------------------------------------------------------------
(***************************************************************************)
(* Snapshots and starts.                                                   *)
(***************************************************************************)
LEMMA SaveStep ==
    ASSUME PartitionInv, Save
    PROVE  PartitionInv'
<1> USE DEF Save, PartitionInv, catalog, physical, history
<1>1. LiveInv'
  BY DEF LiveInv, Statuses, Rows, ViewOf, ViewCols, Same, Keys, Bare
<1>2. snap' = Image
  OBVIOUS
<1>3. Image.view \in ViewType /\ Image.data \in [Value -> TableType]
  <2>1. Image.view \in ViewType
    BY DEF TypeOK, Image, ViewType, NoView
  <2>2. NoTable \in TableType
    BY EmptyTyped
  <2>3. \A v \in Value : (IF part[v].rel = "active" THEN tbl[v] ELSE NoTable) \in TableType
    BY <2>2 DEF TypeOK
  <2> QED
    BY <2>1, <2>3 DEF Image
<1>4. TypeOK'
  BY <1>3 DEF TypeOK, Image
<1>5. SnapRows'
  BY DEF SnapRows, LiveInv, Statuses, Rows, Image, NoTable
<1>6. SnapView'
  BY DEF SnapView, LiveInv, Statuses, ViewOf, Image, NoView, Active
<1>7. SnapSame' /\ SnapBare'
  BY DEF SnapSame, SnapBare, LiveInv, Statuses, Same, Keys, Bare, Image, Active, NoTable
<1> QED
  BY <1>1, <1>4, <1>5, <1>6, <1>7 DEF SnapInv

LEMMA LoseFileStep ==
    ASSUME PartitionInv, NEW v \in Value, LoseFile(v)
    PROVE  PartitionInv'
<1> USE DEF LoseFile, PartitionInv, catalog, physical, history
<1>1. LiveInv'
  BY DEF LiveInv, Statuses, Rows, ViewOf, ViewCols, Same, Keys, Bare
<1>2. /\ snap'.parent = snap.parent /\ snap'.pcols = snap.pcols /\ snap'.pidx = snap.pidx
      /\ snap'.part = snap.part /\ snap'.view = snap.view /\ snap'.lost
      /\ snap'.gone = snap.gone /\ snap'.mended = snap.mended
      /\ snap'.data = [snap.data EXCEPT ![v] = NoTable]
  BY DEF TypeOK
<1>3. TypeOK'
  <2>1. [snap.data EXCEPT ![v] = NoTable] \in [Value -> TableType]
    BY EmptyTyped DEF TypeOK
  <2> QED
    BY <2>1 DEF TypeOK
<1>4. \A w \in Value : snap'.data[w] = IF w = v THEN NoTable ELSE snap.data[w]
  BY <1>2 DEF TypeOK
<1>5. SnapRows'
  BY <1>2, <1>4 DEF SnapRows, SnapInv, NoTable
<1>6. SnapView' /\ SnapBare'
  BY <1>2 DEF SnapView, SnapBare, SnapInv
<1>7. SnapSame'
  BY <1>2, <1>4 DEF SnapSame, SnapInv, NoTable, Active
<1> QED
  BY <1>1, <1>3, <1>5, <1>6, <1>7 DEF SnapInv

\* What a start makes of a table of the snapshot.
RestoredAs(t, c, b) == IF t.on THEN [t EXCEPT !.cols = c, !.idx = b] ELSE NoTable

TableAs(u, t, c, b) ==
    /\ u \in TableType /\ u.on = t.on
    /\ ~u.on => u = NoTable
    /\ u.on => u.rows = t.rows /\ u.cols = c /\ u.idx = b /\ u.dups = t.dups

LEMMA RestoredTyped ==
    ASSUME NEW t \in TableType, NEW c \in Seq(Column), NEW b \in BOOLEAN
    PROVE  TableAs(RestoredAs(t, c, b), t, c, b)
<1> DEFINE u == RestoredAs(t, c, b)
<1>1. CASE t.on
  <2>1. u = [t EXCEPT !.cols = c, !.idx = b]
    BY <1>1 DEF RestoredAs
  <2> HIDE DEF u
  <2>2. /\ u \in TableType /\ u.on = TRUE
        /\ u.rows = t.rows /\ u.cols = c /\ u.idx = b /\ u.dups = t.dups
    BY <1>1, <2>1 DEF TableType
  <2>3. TableAs(u, t, c, b)
    BY <1>1, <2>2 DEF TableType, TableAs
  <2> QED
    BY <2>3 DEF u
<1>2. CASE ~t.on
  <2>1. u = NoTable /\ NoTable \in TableType
    BY <1>2, EmptyTyped DEF RestoredAs
  <2>2. NoTable.on = FALSE
    BY DEF NoTable
  <2> HIDE DEF u
  <2>3. u \in TableType /\ u.on = FALSE /\ t.on = FALSE
    BY <1>2, <2>1, <2>2 DEF TableType
  <2>4. TableAs(u, t, c, b)
    BY <2>1, <2>3 DEF TableAs
  <2> QED
    BY <2>4 DEF u
<1> QED
  BY <1>1, <1>2

LEMMA StartStep ==
    ASSUME PartitionInv, Start
    PROVE  PartitionInv'
<1> USE DEF Start, PartitionInv, SnapInv
<1>1. ASSUME NEW v \in Value
      PROVE  /\ part'[v] \in PartType /\ part'[v].st = snap.part[v].st
             /\ part'[v].cols = snap.part[v].cols /\ part'[v].count = snap.part[v].count
             /\ part'[v].rel = IF snap.part[v].rel = "active" /\ ~snap.data[v].on
                               THEN "unavailable" ELSE snap.part[v].rel
  <2>1. snap.part[v] \in PartType
    BY DEF TypeOK
  <2>2. [snap.part[v] EXCEPT !.rel = "unavailable"] \in PartType
    BY <2>1, PartTyped
  <2>3. part'[v] = RestoredPart(v)
    OBVIOUS
  <2> QED
    BY <2>1, <2>2, <2>3 DEF RestoredPart, PartType
<1>2. ASSUME NEW v \in Value
      PROVE  /\ tbl'[v] \in TableType /\ tbl'[v].on = snap.data[v].on
             /\ ~tbl'[v].on => tbl'[v] = NoTable
             /\ tbl'[v].on => /\ tbl'[v].rows = snap.data[v].rows
                              /\ tbl'[v].cols = snap.part[v].cols
                              /\ tbl'[v].idx = Indexed(v)
                              /\ tbl'[v].dups = snap.data[v].dups
  <2>1. snap.data[v] \in TableType /\ snap.part[v].cols \in Seq(Column) /\ Indexed(v) \in BOOLEAN
    BY DEF TypeOK, PartType, Indexed
  <2>2. tbl'[v] = IF snap.data[v].on
                  THEN [snap.data[v] EXCEPT !.cols = snap.part[v].cols, !.idx = Indexed(v)]
                  ELSE NoTable
    BY DEF RestoredTables, RestoredTable
  <2>3. tbl'[v] = RestoredAs(snap.data[v], snap.part[v].cols, Indexed(v))
    BY <2>2 DEF RestoredAs
  <2>4. TableAs(tbl'[v], snap.data[v], snap.part[v].cols, Indexed(v))
    BY <2>1, <2>3, RestoredTyped
  <2> HIDE DEF Start, PartitionInv, SnapInv
  <2> QED
    BY <2>4 DEF TableAs
<1>3. part' \in [Value -> PartType] /\ tbl' \in [Value -> TableType]
  BY <1>1, <1>2 DEF RestoredTables
<1>4. Active(part') = Active(snap.part)
  BY <1>1 DEF Active
\* A table whose view could be created has all its partitions.
<1>5. ASSUME snap.parent = "active", NEW v \in Active(snap.part)
      PROVE  snap.data[v].on /\ part'[v].rel = "active"
  <2>1. RestoredTables[v].on
    BY <1>5 DEF Restores, UnionBinds, SnapView
  <2>2. v \in Value /\ RestoredTables = tbl'
    BY DEF Active
  <2> QED
    BY <1>1, <1>2, <1>5, <2>1, <2>2 DEF SnapView
<1>6. parent' = "active" => snap.parent = "active" /\ RestoredView.cols = snap.pcols
  OBVIOUS
<1>7. Statuses'
  BY <1>1, <1>4, <1>5, <1>6 DEF Statuses, PairOK, SnapRows, Active
<1>8. Rows'
  BY <1>1, <1>2 DEF Rows, SnapRows, PairOK
<1>9. Same'
  <2>1. ASSUME parent' = "active", NEW v \in Active(snap.part)
        PROVE  /\ tbl'[v].cols = part'[v].cols
               /\ v \notin mended' => tbl'[v].cols = pcols' /\ tbl'[v].idx = pidx'
    <3>1. v \in Value /\ tbl'[v].on /\ snap.parent = "active"
      BY <1>2, <1>5, <1>6, <2>1 DEF Active
    <3>2. tbl'[v].cols = snap.part[v].cols /\ part'[v].cols = snap.part[v].cols
      BY <1>1, <1>2, <3>1
    <3>3. Indexed(v) = snap.pidx
      BY <3>1 DEF Indexed, Active, TypeOK
    <3>4. tbl'[v].idx = pidx'
      BY <1>2, <3>1, <3>3
    <3>5. v \notin mended' => snap.part[v].cols = pcols'
      BY <3>1 DEF SnapSame
    <3> QED
      BY <3>2, <3>4, <3>5
  <2> QED
    BY <1>4, <2>1 DEF Same
<1>10. ViewOf' /\ ViewCols'
  BY <1>4, <1>6 DEF ViewOf, ViewCols, RestoredView
<1>11. Keys'
  BY <1>2 DEF Keys, Restores, NoTable
<1>12. Bare'
  BY <1>1 DEF Bare, SnapBare
<1>13. view' \in ViewType
  <2>1. Active(snap.part) \in SUBSET Value /\ snap.pcols \in Seq(Column)
    BY DEF Active, TypeOK
  <2>2. UnionColumns(tbl', Active(snap.part), snap.pcols) \in Seq(Column)
    <3>1. CASE Active(snap.part) = {}
      BY <2>1, <3>1, UnionOfOne
    <3>2. CASE Active(snap.part) # {}
      <4>1. PICK v \in Active(snap.part) :
              UnionColumns(tbl', Active(snap.part), snap.pcols) = tbl'[v].cols
        BY <2>1, <3>2, UnionOfOne
      <4>2. tbl'[v] \in TableType
        BY <1>2, <2>1
      <4> QED
        BY <4>1, <4>2 DEF TableType
    <3> QED
      BY <3>1, <3>2
  <2> QED
    BY <2>1, <2>2 DEF RestoredView, ViewType, NoView
<1>14. TypeOK'
  BY <1>3, <1>13 DEF TypeOK
<1> QED
  BY <1>7, <1>8, <1>9, <1>10, <1>11, <1>12, <1>14, SnapKept DEF LiveInv

-----------------------------------------------------------------------------
LEMMA CommandStep ==
    ASSUME PartitionInv, unsaved' \in Nat, Command
    PROVE  TypeOK' /\ LiveInv' /\ UNCHANGED snap
<1>1. CASE CreateTable
  BY <1>1, CreateTableStep DEF CreateTable
<1>2. CASE DropTable
  <2>1. up' \in BOOLEAN
    BY <1>2 DEF DropTable, PartitionInv, TypeOK
  <2> QED
    BY <1>2, <2>1, DropTableStep DEF DropTable
<1>3. CASE \E vs \in SUBSET Value \ {{}} : \E again \in SUBSET vs : Insert(vs, again)
  <2>1. PICK vs \in SUBSET Value : \E again \in SUBSET vs : Insert(vs, again)
    BY <1>3
  <2>2. PICK again \in SUBSET vs : Insert(vs, again)
    BY <2>1
  <2>3. UNCHANGED snap
    BY <2>2 DEF Insert
  <2> QED
    BY <2>2, <2>3, InsertStep
<1>4. CASE Maintain
  BY <1>4, MaintainStep DEF Maintain
<1>5. CASE \E v \in Value : Mark(v) \/ RepairDropped(v) \/ RepairFailed(v)
  <2>1. PICK v \in Value : Mark(v) \/ RepairDropped(v) \/ RepairFailed(v)
    BY <1>5
  <2> QED
    BY <2>1, MarkStep, RepairDroppedStep, RepairFailedStep DEF Mark, RepairDropped, RepairFailed
<1>6. CASE CreateIndex
  BY <1>6, IndexStep DEF CreateIndex
<1>7. CASE DropIndex
  BY <1>7, IndexStep DEF DropIndex
<1>8. CASE AlterColumns
  <2>1. PICK op \in {"add", "drop", "rename"}, c \in Column, d \in Column : Alter(op, c, d)
    BY <1>8 DEF AlterColumns
  <2>2. UNCHANGED snap
    BY <2>1 DEF Alter
  <2> QED
    BY <2>1, <2>2, AlterStep
<1> QED
  BY <1>1, <1>2, <1>3, <1>4, <1>5, <1>6, <1>7, <1>8 DEF Command

LEMMA NextInv == PartitionInv /\ [Next]_vars => PartitionInv'
<1> SUFFICES ASSUME PartitionInv, [Next]_vars PROVE PartitionInv'
  OBVIOUS
<1>1. CASE unsaved' = unsaved + 1 /\ Command
  <2>1. unsaved' \in Nat
    BY <1>1 DEF PartitionInv, TypeOK
  <2> QED
    BY <1>1, <2>1, CommandStep, SnapKept DEF PartitionInv
<1>2. CASE Save
  BY <1>2, SaveStep
<1>3. CASE Crash
  <2>1. unsaved' \in Nat /\ up' \in BOOLEAN
    BY <1>3 DEF Crash
  <2> QED
    BY <1>3, <2>1, DropTableStep, SnapKept DEF Crash, PartitionInv
<1>4. CASE Start
  BY <1>4, StartStep
<1>5. CASE \E v \in Value : LoseFile(v)
  BY <1>5, LoseFileStep
<1>6. CASE UNCHANGED vars
  BY <1>6 DEF vars, catalog, physical, history, PartitionInv, TypeOK, LiveInv, Statuses, Rows,
     ViewOf, ViewCols, Same, Keys, Bare, SnapInv, SnapRows, SnapView, SnapSame, SnapBare
<1>7. CASE StartFails
  BY <1>6, <1>7 DEF StartFails
<1> QED
  BY <1>1, <1>2, <1>3, <1>4, <1>5, <1>6, <1>7 DEF Next

\* The invariant holds in every reachable state.
THEOREM PartitionInvHolds == Spec => []PartitionInv
BY InitInv, NextInv, PTL DEF Spec

-----------------------------------------------------------------------------
(***************************************************************************)
(* The properties.                                                         *)
(***************************************************************************)
\* Types, and the statuses rs_partition can have.
THEOREM TypeCorrect == Spec => []TypeOK
<1>1. PartitionInv => TypeOK
  BY DEF PartitionInv
<1> QED
  BY <1>1, PartitionInvHolds, PTL

\* Rows stay in an active partition until it expires (insert_partitioned_relation,
\* repair_partition, expire_partition, restore_snapshot_table).
THEOREM RowsCorrect == Spec => []RowsKept
<1>1. PartitionInv => RowsKept
  BY DEF PartitionInv, LiveInv, Rows, RowsKept
<1> QED
  BY <1>1, PartitionInvHolds, PTL

\* The entry view reads the active partitions, under the columns of the table in
\* their order (refresh_partition_entrypoint).
THEOREM ViewCorrect == Spec => []ViewExact
<1>1. PartitionInv => ViewExact
  BY DEF PartitionInv, LiveInv, ViewOf, ViewCols, ViewExact, Ready
<1> QED
  BY <1>1, PartitionInvHolds, PTL

\* DDL reaches every active partition but a repaired one (create_range_partition,
\* create_index_relation, alter_table_relation).
THEOREM UniformCorrect == Spec => []Uniform
<1>1. PartitionInv => Uniform
  BY DEF PartitionInv, LiveInv, Same, Uniform, Ready
<1> QED
  BY <1>1, PartitionInvHolds, PTL

\* What a start needs is in every snapshot that has all its files and was taken
\* without such a partition (save_snapshot_blocking, restore_snapshot_v2).
THEOREM RestoreCorrect == Spec => []Restorable
<1>1. PartitionInv => Restorable
  <2> SUFFICES ASSUME PartitionInv, ~snap.lost, snap.mended = {} PROVE Restores
    BY DEF Restorable
  <2> USE DEF PartitionInv, SnapInv
  <2>1. ASSUME snap.parent = "active", NEW v \in Active(snap.part)
        PROVE  /\ v \in Value /\ snap.data[v].on /\ RestoredTables[v].on
               /\ RestoredTables[v].cols = snap.pcols
               /\ snap.pidx => ~snap.data[v].dups
    <3>1. v \in Value /\ snap.part[v].rel = "active" /\ snap.data[v].on
      BY <2>1 DEF SnapView, SnapRows, Active
    <3>2. snap.part[v].cols = snap.pcols /\ (snap.pidx => ~snap.data[v].dups)
      BY <2>1, <3>1 DEF SnapSame
    <3>3. snap.data[v] \in TableType
      BY <3>1 DEF TypeOK
    <3>4. RestoredTables[v].on /\ RestoredTables[v].cols = snap.part[v].cols
      BY <3>1, <3>3 DEF RestoredTables, RestoredTable, TableType
    <3> QED
      BY <3>1, <3>2, <3>4
  <2>2. \A v \in Value : Indexed(v) => snap.data[v].on /\ ~snap.data[v].dups
    BY <2>1 DEF Indexed, Active
  <2>3. snap.view.on => UnionBinds(RestoredTables, snap.view.of)
    BY <2>1 DEF SnapView, UnionBinds
  <2> QED
    BY <2>2, <2>3 DEF Restores
<1> QED
  BY <1>1, PartitionInvHolds, PTL

-----------------------------------------------------------------------------
(***************************************************************************)
(* Retention, a property of the steps.                                     *)
(***************************************************************************)
\* The elements of A from v on, and those with more than r of them.
From(A, v) == {w \in A : w >= v}
Beyond(A, r) == {v \in A : Cardinality(From(A, v)) > r}

LEMMA FromFinite ==
    ASSUME NEW A \in SUBSET Value, NEW v \in Value
    PROVE  /\ IsFiniteSet(A) /\ IsFiniteSet(From(A, v)) /\ Cardinality(From(A, v)) \in Nat
<1>1. IsFiniteSet(Value)
  BY PartitionAssumption, FS_Interval DEF Value
<1>2. IsFiniteSet(A)
  BY <1>1, FS_Subset
<1>3. From(A, v) \in SUBSET A
  BY DEF From
<1>4. IsFiniteSet(From(A, v))
  BY <1>2, <1>3, FS_Subset
<1> QED
  BY <1>2, <1>4, FS_CardinalityType

LEMMA Largest ==
    ASSUME NEW S \in SUBSET Value, S # {}
    PROVE  \E v \in S : \A w \in S : w <= v
<1> DEFINE down == {N - v : v \in S}
<1>1. down \in SUBSET Nat /\ down # {}
  BY PartitionAssumption DEF Value
<1> HIDE DEF down
<1>2. PICK d \in down : \A e \in down : d <= e
  BY <1>1, Smallest
<1>3. PICK v \in S : d = N - v
  BY DEF down
<1>4. ASSUME NEW w \in S PROVE w <= v
  <2>1. N - w \in down
    BY DEF down
  <2>2. w \in Nat /\ v \in Nat /\ N \in Nat
    BY PartitionAssumption DEF Value
  <2> QED
    BY <1>2, <1>3, <2>1, <2>2
<1> QED
  BY <1>4

\* What is left is newer than all that is beyond r, and r of them or, when
\* nothing is beyond, no more.
LEMMA BeyondRest ==
    ASSUME NEW A \in SUBSET Value, NEW r \in Nat
    PROVE  /\ \A v \in Beyond(A, r) : \A w \in A \ Beyond(A, r) : w > v
           /\ Cardinality(A \ Beyond(A, r)) \in Nat
           /\ Cardinality(A \ Beyond(A, r)) <= r
           /\ Beyond(A, r) # {} => Cardinality(A \ Beyond(A, r)) = r
<1> DEFINE gon == Beyond(A, r)
           rest == A \ gon
<1>0. gon \in SUBSET A /\ rest \in SUBSET A /\ A \in SUBSET Nat
  BY PartitionAssumption DEF Beyond, Value
<1>1. \A v \in A : v \in gon <=> Cardinality(From(A, v)) > r
  BY DEF Beyond
<1> HIDE DEF gon
<1>2. ASSUME NEW v \in gon, NEW w \in rest PROVE w > v
  <2> SUFFICES ASSUME w <= v PROVE FALSE
    BY <1>0
  <2>1. From(A, v) \in SUBSET From(A, w)
    <3>1. v \in Nat /\ w \in Nat /\ \A x \in A : x \in Nat
      BY <1>0
    <3>2. \A x \in A : x >= v => x >= w
      BY <3>1
    <3> QED
      BY <3>2 DEF From
  <2>2. IsFiniteSet(From(A, w)) /\ Cardinality(From(A, w)) \in Nat /\ Cardinality(From(A, v)) \in Nat
    BY <1>0, FromFinite
  <2>3. Cardinality(From(A, v)) <= Cardinality(From(A, w))
    BY <2>1, <2>2, FS_Subset
  <2> QED
    BY <1>0, <1>1, <2>2, <2>3
<1>3. IsFiniteSet(rest) /\ Cardinality(rest) \in Nat
  <2>1. CASE A = {}
    BY <1>0, <2>1, FS_EmptySet
  <2>2. CASE A # {}
    <3>1. IsFiniteSet(A)
      BY <2>2, FromFinite
    <3> QED
      BY <1>0, <3>1, FS_Subset, FS_CardinalityType
  <2> QED
    BY <2>1, <2>2
<1>4. Cardinality(rest) <= r
  <2>1. CASE rest = {}
    BY <2>1, FS_EmptySet
  <2>2. CASE rest # {}
    <3>1. PICK v \in rest : \A w \in rest : v <= w
      BY <1>0, <2>2, Smallest
    <3>2. rest \in SUBSET From(A, v)
      BY <1>0, <3>1 DEF From
    <3>3. IsFiniteSet(From(A, v)) /\ Cardinality(From(A, v)) \in Nat
      BY <1>0, FromFinite
    <3>4. Cardinality(rest) <= Cardinality(From(A, v))
      BY <3>2, <3>3, FS_Subset
    <3>5. Cardinality(From(A, v)) <= r
      BY <1>0, <1>1, <3>3
    <3> QED
      BY <1>3, <3>3, <3>4, <3>5
  <2> QED
    BY <2>1, <2>2
<1>5. ASSUME gon # {} PROVE Cardinality(rest) = r
  <2>1. PICK v \in gon : \A w \in gon : w <= v
    <3>1. gon \in SUBSET Value
      BY <1>0
    <3> QED
      BY <1>5, <3>1, Largest
  <2>2. \A w \in rest : w >= v
    BY <1>0, <1>2
  <2>3. \A w \in gon : w >= v => w = v
    BY <1>0, <2>1
  <2>4. From(A, v) = rest \union {v}
    BY <1>0, <2>1, <2>2, <2>3 DEF From
  <2>5. Cardinality(rest \union {v}) = Cardinality(rest) + 1
    BY <1>3, FS_AddElement
  <2>6. Cardinality(rest) + 1 > r
    BY <1>0, <1>1, <2>4, <2>5
  <2> QED
    BY <1>3, <1>4, <2>6
<1> QED
  BY <1>2, <1>3, <1>4, <1>5 DEF gon

\* What an expiry does to a set of partitions.
LEMMA ExpiryKeeps ==
    ASSUME NEW p \in [Value -> PartType], part' = Dropped(p, Oldest(p))
    PROVE  /\ Cardinality(Active(part')) <= Retention
           /\ \A v \in Value : p[v].st # "dropped" /\ part'[v].st = "dropped" =>
                 /\ \A w \in Active(part') : w > v
                 /\ Cardinality(Active(part')) = Retention
<1> DEFINE gon == Oldest(p)
<1>1. gon = Beyond(Active(p), Retention)
  BY DEF Oldest, Beyond, From
<1>2. gon \in SUBSET Value /\ \A v \in gon : p[v].st = "active"
  BY DEF Oldest, Active
<1>3. Active(p) \in SUBSET Value /\ Retention \in Nat
  BY PartitionAssumption DEF Active
<1> HIDE DEF gon
<1>4. part' = Dropped(p, gon)
  BY DEF gon
<1>5. /\ \A v \in Value \ gon : part'[v] = p[v]
      /\ \A v \in gon : part'[v].st = "dropped"
  <2>1. \A v \in Value \ gon : Dropped(p, gon)[v] = p[v]
    BY DEF Dropped
  <2>2. ASSUME NEW v \in gon PROVE Dropped(p, gon)[v].st = "dropped"
    <3>1. p[v] \in PartType /\ v \in Value
      BY <1>2
    <3> QED
      BY <3>1 DEF Dropped, PartType
  <2> QED
    BY <1>4, <2>1, <2>2
<1>6. Active(part') = Active(p) \ gon
  BY <1>2, <1>5 DEF Active
<1>7. Cardinality(Active(part')) <= Retention
  BY <1>1, <1>3, <1>6, BeyondRest
<1>8. ASSUME NEW v \in Value, p[v].st # "dropped", part'[v].st = "dropped"
      PROVE  /\ \A w \in Active(part') : w > v
             /\ Cardinality(Active(part')) = Retention
  <2>1. v \in gon
    BY <1>5, <1>8
  <2> QED
    BY <1>1, <1>3, <1>6, <2>1, BeyondRest
<1> QED
  BY <1>7, <1>8

\* What RetentionKept says of a step.
RetentionStep ==
    up /\ up' /\ parent' = "active" =>
        /\ \A v \in Value : part[v].st # "dropped" /\ part'[v].st = "dropped" =>
              /\ \A w \in Active(part') : w > v
              /\ Cardinality(Active(part')) = Retention
        /\ (\E v \in Value : part'[v].count > part[v].count) =>
              Cardinality(Active(part')) <= Retention

\* A step in which no partition expires and none gets a row.
LEMMA NothingExpires ==
    ASSUME \A v \in Value : /\ part[v].count \in Nat
                            /\ part'[v].count = part[v].count
                            /\ part'[v].st = "dropped" => part[v].st = "dropped"
    PROVE  RetentionStep
BY DEF RetentionStep

LEMMA InsertKeeps ==
    ASSUME TypeOK, NEW vs \in SUBSET Value, NEW again \in SUBSET vs, Insert(vs, again)
    PROVE  RetentionStep
<1> DEFINE made == [v \in Value |->
               IF v \notin vs THEN part[v]
               ELSE IF part[v].st = "active" THEN [part[v] EXCEPT !.count = @ + 1]
               ELSE [st |-> "active", rel |-> "active", cols |-> pcols, count |-> 1]]
<1>1. part' = Dropped(made, Oldest(made))
  BY DEF Insert
<1>2. ASSUME NEW v \in Value
      PROVE  made[v] \in PartType /\ (made[v].st = "dropped" => part[v].st = "dropped")
  <2>1. part[v] \in PartType /\ pcols \in Seq(Column)
    BY DEF TypeOK
  <2>2. [part[v] EXCEPT !.count = @ + 1] \in PartType
    BY <2>1, PartTyped
  <2>3. [st |-> "active", rel |-> "active", cols |-> pcols, count |-> 1] \in PartType
    BY <2>1 DEF PartType
  <2>4. [part[v] EXCEPT !.count = @ + 1].st = part[v].st
    BY <2>1 DEF PartType
  <2>5. CASE v \notin vs
    BY <2>1, <2>5
  <2>6. CASE v \in vs /\ part[v].st = "active"
    BY <2>2, <2>4, <2>6
  <2>7. CASE v \in vs /\ part[v].st # "active"
    BY <2>3, <2>7
  <2> QED
    BY <2>5, <2>6, <2>7
<1>3. made \in [Value -> PartType]
  BY <1>2
<1> HIDE DEF made
<1> QED
  BY <1>1, <1>2, <1>3, ExpiryKeeps DEF RetentionStep

LEMMA CommandKeeps ==
    ASSUME PartitionInv, Command
    PROVE  RetentionStep
<1>0. part \in [Value -> PartType] /\ TypeOK
  BY DEF PartitionInv, TypeOK
<1>1. CASE CreateTable
  <2>1. UNCHANGED part
    BY <1>1 DEF CreateTable
  <2> QED
    BY <1>0, <2>1, NothingExpires DEF PartType
<1>2. CASE DropTable
  BY <1>2 DEF DropTable, Empty, RetentionStep
<1>3. CASE \E vs \in SUBSET Value \ {{}} : \E again \in SUBSET vs : Insert(vs, again)
  BY <1>0, <1>3, InsertKeeps
<1>4. CASE Maintain
  <2>1. part' = Dropped(part, Oldest(part))
    BY <1>4 DEF Maintain
  <2> QED
    BY <1>0, <2>1, ExpiryKeeps DEF RetentionStep
<1>5. ASSUME NEW v \in Value, Mark(v) \/ RepairDropped(v) \/ RepairFailed(v)
      PROVE  RetentionStep
  <2>1. ASSUME NEW w \in Value
        PROVE  /\ part'[w].count = part[w].count
               /\ part'[w].st = "dropped" => part[w].st = "dropped"
    <3>1. part[w] \in PartType
      BY <1>0
    <3>2. CASE Mark(v)
      BY <1>0, <3>1, <3>2 DEF Mark, PartType
    <3>3. CASE RepairDropped(v)
      BY <1>0, <3>1, <3>3 DEF RepairDropped, PartType
    <3>4. CASE RepairFailed(v)
      BY <1>0, <3>1, <3>4 DEF RepairFailed, PartType
    <3> QED
      BY <1>5, <3>2, <3>3, <3>4
  <2> QED
    BY <1>0, <2>1, NothingExpires DEF PartType
<1>6. CASE CreateIndex \/ DropIndex
  <2>1. UNCHANGED part
    BY <1>6 DEF CreateIndex, DropIndex
  <2> QED
    BY <1>0, <2>1, NothingExpires DEF PartType
<1>7. CASE AlterColumns
  <2>1. PICK op, c, d : Alter(op, c, d)
    BY <1>7 DEF AlterColumns
  <2>2. ASSUME NEW w \in Value
        PROVE  part'[w].count = part[w].count /\ part'[w].st = part[w].st
    <3>1. part[w] \in PartType
      BY <1>0
    <3> QED
      BY <2>1, <3>1 DEF Alter, PartType
  <2> QED
    BY <1>0, <2>2, NothingExpires DEF PartType
<1> QED
  BY <1>1, <1>2, <1>3, <1>4, <1>5, <1>6, <1>7 DEF Command

\* What expires is the oldest, and only what retention asks for; after an insert
\* no more stay than it allows (expire_old_partitions, insert_partitioned_relation).
THEOREM RetentionCorrect == Spec => RetentionKept
<1>1. PartitionInv /\ [Next]_vars => [RetentionStep]_vars
  <2> SUFFICES ASSUME PartitionInv, Next, vars' # vars PROVE RetentionStep
    OBVIOUS
  <2>1. CASE unsaved' = unsaved + 1 /\ Command
    BY <2>1, CommandKeeps
  <2>2. CASE Save
    <3>1. UNCHANGED part /\ \A v \in Value : part[v].count \in Nat
      BY <2>2 DEF Save, catalog, PartitionInv, TypeOK, PartType
    <3> QED
      BY <3>1, NothingExpires
  <2>3. CASE Crash \/ Start \/ StartFails \/ \E v \in Value : LoseFile(v)
    BY <2>3 DEF Crash, Start, StartFails, LoseFile, RetentionStep
  <2> QED
    BY <2>1, <2>2, <2>3 DEF Next
<1> QED
  BY <1>1, PartitionInvHolds, PTL DEF Spec, RetentionKept, RetentionStep
=============================================================================
