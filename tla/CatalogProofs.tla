---------------------------- MODULE CatalogProofs ----------------------------
(***************************************************************************)
(* Proofs about Catalog: for any names, columns and number of commands, no *)
(* catalog row names a relation without a row, every comment stays with    *)
(* the column it was said of, the column of an index is there; the rows    *)
(* and DuckDB agree; a view reads what cannot go before it; and a snapshot *)
(* of such views restores.                                                 *)
(*                                                                         *)
(* The inductive invariant has three layers, of the database and of the    *)
(* snapshot.  Sound: the catalog alone; besides the first three properties *)
(* an index has one dependency row (so that a DROP of its table finds it)  *)
(* and oids in use are below next_oid (so that a new row takes over no     *)
(* comment or dependency).  Phys: the catalog and DuckDB; the names and    *)
(* the shape of rows make the object of a row unique and its columns those *)
(* LiveColumns computes.  Protected: what views read.                      *)
(***************************************************************************)
EXTENDS Catalog, SequenceTheorems, FiniteSetTheorems, TLAPS

(* The fields a database has.                                              *)
Fields(d) == d = [rel |-> d.rel, dep |-> d.dep, comment |-> d.comment, next |-> d.next,
                  phys |-> d.phys, pindex |-> d.pindex, left |-> d.left, suspect |-> d.suspect]

Good(d) == IsCatalog(d) /\ Sound(d)

IInv == Good(db) /\ (saved # NoSnapshot => Good(saved.db))

-----------------------------------------------------------------------------
(* A new row with a fresh oid, and dependency rows of it.                  *)
LEMMA RowAdded ==
  ASSUME NEW d, Good(d), NEW e, NEW r \in Relation, NEW D, d.next \in Oid,
         Fields(e), e.comment = d.comment,
         e.rel = With(d.rel, d.next, r),
         e.dep = d.dep \union D,
         D \subseteq {d.next} \X Rows(d),
         D # {} => r.kind # "r",
         e.next \in 1..MaxOid + 1, e.next > d.next,
         r.kind = "i" => /\ r.on \in Rows(d)
                         /\ D = {<<d.next, r.on>>}
                         /\ d.rel[r.on].kind = "r"
                         /\ r.key \in DOMAIN d.rel[r.on].cols
                         /\ ~d.rel[r.on].cols[r.key].dropped
  PROVE  Good(e)
<1> USE MaxOidAssumption
<1>1. /\ IsCatalog(d) /\ NoDangling(d) /\ OwnComments(d) /\ KeysLive(d) /\ Indexed(d)
      /\ d.next \in Nat
  BY DEF Good, Sound, IsCatalog
<1>2. /\ Rows(e) = Rows(d) \union {d.next}
      /\ d.next \notin Rows(d)
      /\ e.rel[d.next] = r
      /\ \A o \in Rows(d) : e.rel[o] = d.rel[o]
  BY <1>1 DEF With, Rows, Indexed, Oid, IsCatalog
<1>4. IsCatalog(e)
  <2>2. DOMAIN e.rel \subseteq Oid
    BY <1>1, <1>2 DEF IsCatalog, Rows
  <2>3. e.rel = [o \in DOMAIN e.rel |-> e.rel[o]]
    BY DEF With
  <2>4. \A o \in DOMAIN e.rel : e.rel[o] \in Relation
    BY <1>1, <1>2 DEF IsCatalog, Rows
  <2>5. e.dep \subseteq Oid \X Oid
    BY <1>1 DEF IsCatalog, Rows
  <2> QED BY <1>1, <2>2, <2>3, <2>4, <2>5 DEF IsCatalog, Fields
<1>5. NoDangling(e)
  <2>1. \A x \in e.dep : x[1] \in Rows(e) /\ x[2] \in Rows(e)
    BY <1>1, <1>2 DEF NoDangling
  <2>2. \A m \in e.comment : m.oid \in Rows(e)
    BY <1>1, <1>2 DEF NoDangling
  <2>3. \A i \in Rows(e) : e.rel[i].kind = "i" => e.rel[i].on \in Rows(e)
    BY <1>1, <1>2 DEF NoDangling
  <2> QED BY <2>1, <2>2, <2>3 DEF NoDangling
<1>6. OwnComments(e)
  BY <1>1, <1>2 DEF OwnComments, NoDangling
<1>7. KeysLive(e)
  <2> SUFFICES ASSUME NEW i \in Rows(e), e.rel[i].kind = "i"
               PROVE  LET t == e.rel[e.rel[i].on]
                      IN  e.rel[i].key \in DOMAIN t.cols /\ ~t.cols[e.rel[i].key].dropped
    BY DEF KeysLive
  <2>1. CASE i = d.next
    BY <1>2, <2>1
  <2>2. CASE i \in Rows(d)
    <3>1. d.rel[i].kind = "i" /\ e.rel[i] = d.rel[i]
      BY <1>2, <2>2
    <3>2. d.rel[i].on \in Rows(d)
      BY <1>1, <2>2, <3>1 DEF NoDangling
    <3>3. e.rel[d.rel[i].on] = d.rel[d.rel[i].on]
      BY <1>2, <3>2
    <3>4. LET t == d.rel[d.rel[i].on]
          IN  d.rel[i].key \in DOMAIN t.cols /\ ~t.cols[d.rel[i].key].dropped
      BY <1>1, <2>2, <3>1 DEF KeysLive
    <3> QED BY <3>1, <3>3, <3>4
  <2> QED BY <1>2, <2>1, <2>2
<1>8. Indexed(e)
  <2>1. \A o \in Rows(e) : o \in Nat /\ o < e.next
    BY <1>1, <1>2 DEF Indexed, IsCatalog, Rows, Oid
  <2>2. \A x \in e.dep : /\ e.rel[x[1]].kind # "r"
                         /\ e.rel[x[1]].kind = "i" => x[2] = e.rel[x[1]].on
    BY <1>1, <1>2 DEF Indexed, NoDangling
  <2> QED BY <1>1, <1>2, <2>1, <2>2 DEF Indexed, NoDangling
<1> QED BY <1>4, <1>5, <1>6, <1>7, <1>8 DEF Good, Sound

(* The rows stay, and keep their kind and index; columns that keep their   *)
(* attnum and their birth; a column that goes is no key.                   *)
Kept(r, s) ==
  /\ s \in Relation
  /\ s.kind = r.kind /\ s.on = r.on /\ s.key = r.key
  /\ DOMAIN r.cols \subseteq DOMAIN s.cols
  /\ \A k \in DOMAIN r.cols : s.cols[k].born = r.cols[k].born

LEMMA RowsChanged ==
  ASSUME NEW d, Good(d), NEW e,
         Fields(e), e.dep = d.dep, e.comment = d.comment,
         e.rel = [o \in Rows(d) |-> e.rel[o]],
         \A o \in Rows(d) : Kept(d.rel[o], e.rel[o]),
         \A i \in Rows(d) : d.rel[i].kind = "i" =>
           e.rel[d.rel[i].on].cols[d.rel[i].key].dropped =
             d.rel[d.rel[i].on].cols[d.rel[i].key].dropped,
         e.next \in 1..MaxOid + 1, e.next >= d.next
  PROVE  Good(e)
<1> USE MaxOidAssumption
<1>1. /\ IsCatalog(d) /\ NoDangling(d) /\ OwnComments(d) /\ KeysLive(d) /\ Indexed(d)
      /\ d.next \in Nat
  BY DEF Good, Sound, IsCatalog
<1>2. Rows(e) = Rows(d)
  BY DEF Rows
<1>3. IsCatalog(e)
  BY <1>1, <1>2 DEF IsCatalog, Fields, Rows, Kept
<1>4. NoDangling(e)
  BY <1>1, <1>2 DEF NoDangling, Kept
<1>5. OwnComments(e)
  <2> SUFFICES ASSUME NEW m \in e.comment, m.sub > 0
               PROVE  /\ m.sub \in DOMAIN e.rel[m.oid].cols
                      /\ e.rel[m.oid].cols[m.sub].born = m.of
    BY DEF OwnComments
  <2>1. m \in d.comment /\ m.oid \in Rows(d)
    BY <1>1, <1>2 DEF NoDangling
  <2>2. /\ m.sub \in DOMAIN d.rel[m.oid].cols
        /\ d.rel[m.oid].cols[m.sub].born = m.of
    BY <1>1, <2>1 DEF OwnComments
  <2>3. Kept(d.rel[m.oid], e.rel[m.oid])
    BY <2>1
  <2> QED BY <2>2, <2>3 DEF Kept
<1>k. ASSUME NEW i \in Rows(e), e.rel[i].kind = "i"
      PROVE  /\ d.rel[i].kind = "i" /\ e.rel[i].on = d.rel[i].on /\ e.rel[i].key = d.rel[i].key
             /\ d.rel[i].on \in Rows(d)
             /\ Kept(d.rel[d.rel[i].on], e.rel[d.rel[i].on])
  <2>1. i \in Rows(d) /\ Kept(d.rel[i], e.rel[i])
    BY <1>2, <1>k
  <2>2. d.rel[i].kind = "i" /\ e.rel[i].on = d.rel[i].on /\ e.rel[i].key = d.rel[i].key
    BY <2>1, <1>k DEF Kept
  <2>3. d.rel[i].on \in Rows(d)
    BY <1>1, <2>1, <2>2 DEF NoDangling
  <2> QED BY <2>2, <2>3
<1>6. KeysLive(e)
  <2> SUFFICES ASSUME NEW i \in Rows(e), e.rel[i].kind = "i"
               PROVE  LET t == e.rel[e.rel[i].on]
                      IN  e.rel[i].key \in DOMAIN t.cols /\ ~t.cols[e.rel[i].key].dropped
    BY DEF KeysLive
  <2> DEFINE t == d.rel[d.rel[i].on]
  <2>1. d.rel[i].key \in DOMAIN t.cols /\ ~t.cols[d.rel[i].key].dropped
    BY <1>1, <1>2, <1>k DEF KeysLive
  <2>2. ~e.rel[d.rel[i].on].cols[d.rel[i].key].dropped
    BY <1>2, <1>k, <2>1
  <2> QED BY <1>k, <2>1, <2>2 DEF Kept
<1>7. Indexed(e)
  <2>1. \A o \in Rows(e) : o \in Nat /\ o < e.next
    BY <1>1, <1>2 DEF Indexed, IsCatalog, Rows, Oid
  <2>2. ASSUME NEW i \in Rows(e), e.rel[i].kind = "i"
        PROVE  <<i, e.rel[i].on>> \in e.dep /\ e.rel[e.rel[i].on].kind = "r"
    <3>1. <<i, d.rel[i].on>> \in d.dep /\ d.rel[d.rel[i].on].kind = "r"
      BY <1>1, <1>2, <1>k, <2>2 DEF Indexed
    <3>2. e.rel[d.rel[i].on].kind = "r"
      BY <1>k, <2>2, <3>1 DEF Kept
    <3> QED BY <1>2, <1>k, <2>2, <3>1, <3>2
  <2>3. ASSUME NEW x \in e.dep
        PROVE  e.rel[x[1]].kind # "r" /\ (e.rel[x[1]].kind = "i" => x[2] = e.rel[x[1]].on)
    <3>1. /\ x[1] \in Rows(d) /\ d.rel[x[1]].kind # "r"
          /\ d.rel[x[1]].kind = "i" => x[2] = d.rel[x[1]].on
      BY <1>1, <1>2 DEF Indexed, NoDangling
    <3> QED BY <3>1 DEF Kept
  <2> QED BY <2>1, <2>2, <2>3 DEF Indexed
<1> QED BY <1>3, <1>4, <1>5, <1>6, <1>7 DEF Good, Sound

(* The rows of a relation and of its dependents go.                        *)
LEMMA RowsGone ==
  ASSUME NEW d, Good(d), NEW e, NEW o \in Rows(d), NEW S,
         S = Dependents(d, o) \union {o},
         Fields(e),
         e.rel = Without(d.rel, S),
         e.dep = {x \in d.dep : x[1] \notin S /\ x[2] \notin S},
         e.comment = {m \in d.comment : m.oid \notin S},
         e.next \in 1..MaxOid + 1, e.next >= d.next
  PROVE  Good(e)
<1> USE MaxOidAssumption
<1>1. /\ IsCatalog(d) /\ NoDangling(d) /\ OwnComments(d) /\ KeysLive(d) /\ Indexed(d)
      /\ d.next \in Nat
  BY DEF Good, Sound, IsCatalog
<1>2. /\ Rows(e) = Rows(d) \ S
      /\ \A x \in Rows(e) : e.rel[x] = d.rel[x]
  BY DEF Without, Rows
<1>3. \A i \in Rows(e) : e.rel[i].kind = "i" => d.rel[i].on \in Rows(e)
  <2> SUFFICES ASSUME NEW i \in Rows(e), e.rel[i].kind = "i", d.rel[i].on \in S PROVE FALSE
    BY <1>1, <1>2 DEF NoDangling
  <2>1. /\ i \in Rows(d) /\ i \in Oid /\ d.rel[i].kind = "i"
        /\ <<i, d.rel[i].on>> \in d.dep /\ d.rel[d.rel[i].on].kind = "r"
    BY <1>1, <1>2 DEF Indexed, IsCatalog, Rows
  <2>2. CASE d.rel[i].on = o
    BY <1>2, <2>1, <2>2 DEF Dependents
  <2>3. CASE <<d.rel[i].on, o>> \in d.dep
    BY <1>1, <2>1, <2>3 DEF Indexed
  <2> QED BY <2>2, <2>3 DEF Dependents
<1>4. IsCatalog(e)
  <2>2. e.rel = [x \in DOMAIN e.rel |-> e.rel[x]]
    BY DEF Without
  <2> QED BY <1>1, <1>2, <2>2 DEF IsCatalog, Fields, Rows
<1>5. NoDangling(e)
  BY <1>1, <1>2, <1>3 DEF NoDangling
<1>6. OwnComments(e)
  BY <1>1, <1>2 DEF OwnComments, NoDangling
<1>7. KeysLive(e)
  <2> SUFFICES ASSUME NEW i \in Rows(e), e.rel[i].kind = "i"
               PROVE  LET t == e.rel[e.rel[i].on]
                      IN  e.rel[i].key \in DOMAIN t.cols /\ ~t.cols[e.rel[i].key].dropped
    BY DEF KeysLive
  <2>1. i \in Rows(d) /\ e.rel[i] = d.rel[i] /\ e.rel[d.rel[i].on] = d.rel[d.rel[i].on]
    BY <1>2, <1>3
  <2>2. LET t == d.rel[d.rel[i].on]
        IN  d.rel[i].key \in DOMAIN t.cols /\ ~t.cols[d.rel[i].key].dropped
    BY <1>1, <2>1 DEF KeysLive
  <2> QED BY <2>1, <2>2
<1>8. Indexed(e)
  <2>1. \A x \in Rows(e) : x \in Nat /\ x < e.next
    BY <1>1, <1>2 DEF Indexed, IsCatalog, Rows, Oid
  <2>2. \A i \in Rows(e) : e.rel[i].kind = "i" => /\ <<i, e.rel[i].on>> \in e.dep
                                                 /\ e.rel[e.rel[i].on].kind = "r"
    BY <1>1, <1>2, <1>3 DEF Indexed
  <2>3. \A x \in e.dep : x \in d.dep /\ x[1] \in Rows(e)
    BY <1>1, <1>2 DEF NoDangling
  <2>4. \A x \in e.dep : /\ e.rel[x[1]].kind # "r"
                         /\ e.rel[x[1]].kind = "i" => x[2] = e.rel[x[1]].on
    BY <1>1, <1>2, <2>3 DEF Indexed
  <2> QED BY <2>1, <2>2, <2>4 DEF Indexed
<1> QED BY <1>4, <1>5, <1>6, <1>7, <1>8 DEF Good, Sound

-----------------------------------------------------------------------------
(* Each command keeps a good catalog good.                                 *)
LEMMA TableMadeGood ==
  ASSUME NEW d, Good(d), NEW n \in Name, NEW c \in Column, CanMakeTable(d, n),
         NEW e, e = TableMade(d, n, c)
  PROVE  Good(e)
<1> USE MaxOidAssumption
<1> DEFINE r == Row(n, "r", <<NewColumn(c, d.next + 1)>>, 0, 0)
<1>1. d.next \in Oid /\ d.next + 1 \in Oid /\ IsCatalog(d)
  BY DEF Good, IsCatalog, CanMakeTable, Oid
<1>2. r \in Relation
  BY <1>1 DEF Row, Relation, NewColumn, Attribute
<1>3. /\ Fields(e) /\ e.comment = d.comment
      /\ e.rel = With(d.rel, d.next, r) /\ e.dep = d.dep /\ e.next = d.next + 2
  BY <1>1 DEF TableMade, IsCatalog, Fields
<1>4. e.next \in 1..MaxOid + 1 /\ e.next > d.next
  BY <1>1, <1>3 DEF Oid
<1>5. r.kind = "r"
  BY DEF Row
<1> DEFINE D == {}
<1>6. D \subseteq {d.next} \X Rows(d) /\ e.dep = d.dep \union D /\ (D # {} => r.kind # "r")
  BY <1>3
<1> HIDE DEF r, D
<1> QED
  BY <1>1, <1>2, <1>3, <1>4, <1>5, <1>6, RowAdded

LEMMA ViewMadeGood ==
  ASSUME NEW d, Good(d), NEW n \in Name, NEW obj, NEW c \in Column, NEW fo \in Rows(d),
         d.next + 1 <= MaxOid,
         NEW e, e = ViewMade(d, n, obj, c, fo)
  PROVE  Good(e)
<1> USE MaxOidAssumption
<1> DEFINE r == Row(n, "v", <<NewColumn(c, d.next + 1)>>, 0, 0)
           D == {<<d.next, fo>>}
<1>1. d.next \in Oid /\ d.next + 1 \in Oid /\ IsCatalog(d)
  BY DEF Good, IsCatalog, Oid
<1>2. r \in Relation
  BY <1>1 DEF Row, Relation, NewColumn, Attribute
<1>3. /\ Fields(e) /\ e.comment = d.comment
      /\ e.rel = With(d.rel, d.next, r) /\ e.dep = d.dep \union D /\ e.next = d.next + 2
  BY <1>1 DEF ViewMade, IsCatalog, Fields
<1>4. e.next \in 1..MaxOid + 1 /\ e.next > d.next
  BY <1>1, <1>3 DEF Oid
<1>5. r.kind = "v" /\ D \subseteq {d.next} \X Rows(d)
  BY DEF Row
<1> HIDE DEF r, D
<1> QED
  BY <1>1, <1>2, <1>3, <1>4, <1>5, RowAdded

LEMMA IndexMadeGood ==
  ASSUME NEW d, Good(d), NEW n \in Name, NEW t \in Name, NEW o \in Rows(d), NEW c \in Column,
         NEW k \in DOMAIN d.rel[o].cols, d.rel[o].kind = "r", Attnum(d, o, c, k),
         d.next + 1 <= MaxOid,
         NEW e, e = IndexMade(d, n, t, o, c, k)
  PROVE  Good(e)
<1> USE MaxOidAssumption
<1> DEFINE r == Row(n, "i", <<>>, o, k)
           D == {<<d.next, o>>}
<1>1. d.next \in Oid /\ IsCatalog(d) /\ o \in Oid /\ d.rel[o].cols \in Seq(Attribute)
  BY DEF Good, IsCatalog, Oid, Rows, Relation
<1>2. r \in Relation
  BY <1>1 DEF Row, Relation
<1>3. /\ Fields(e) /\ e.comment = d.comment
      /\ e.rel = With(d.rel, d.next, r) /\ e.dep = d.dep \union D /\ e.next = d.next + 2
  BY <1>1 DEF IndexMade, IsCatalog, Fields
<1>4. e.next \in 1..MaxOid + 1 /\ e.next > d.next
  BY <1>1, <1>3 DEF Oid
<1>5. /\ r.kind = "i" /\ r.on = o /\ r.key = k
      /\ D \subseteq {d.next} \X Rows(d) /\ D = {<<d.next, o>>}
  BY DEF Row
<1>6. ~d.rel[o].cols[k].dropped
  BY DEF Attnum
<1> HIDE DEF r, D
<1> QED
  BY <1>1, <1>2, <1>3, <1>4, <1>5, <1>6, RowAdded

LEMMA DroppedGood ==
  ASSUME NEW d, Good(d), NEW n \in Name, NEW o \in Rows(d), d.next <= MaxOid,
         NEW e, e = Dropped(d, n, o)
  PROVE  Good(e)
<1> USE MaxOidAssumption
<1> DEFINE S == Dependents(d, o) \union {o}
<1>1. d.next \in Oid /\ IsCatalog(d)
  BY DEF Good, IsCatalog, Oid
<1>2. /\ Fields(e)
      /\ e.rel = Without(d.rel, S)
      /\ e.dep = {x \in d.dep : x[1] \notin S /\ x[2] \notin S}
      /\ e.comment = {m \in d.comment : m.oid \notin S}
      /\ e.next = d.next + 1
  <2>1. e.rel = Without(d.rel, S) /\ e.next = d.next + 1
    BY <1>1 DEF Dropped, IsCatalog, PhysicalDrop, RowsDeleted
  <2>2. /\ e.dep = {x \in d.dep : x[1] \notin S /\ x[2] \notin S}
        /\ e.comment = {m \in d.comment : m.oid \notin S}
    BY <1>1 DEF Dropped, IsCatalog, PhysicalDrop, RowsDeleted
  <2>3. Fields(e)
    BY <1>1 DEF Dropped, IsCatalog, PhysicalDrop, RowsDeleted, Fields
  <2> QED BY <2>1, <2>2, <2>3
<1>3. e.next \in 1..MaxOid + 1 /\ e.next >= d.next
  BY <1>1, <1>2 DEF Oid
<1> QED
  BY <1>2, <1>3, RowsGone

(* The commands on columns change one row, which stays.                    *)
LEMMA OneRowChanged ==
  ASSUME NEW d, Good(d), NEW o \in Rows(d), NEW s, Kept(d.rel[o], s),
         \A i \in Rows(d) : d.rel[i].kind = "i" /\ d.rel[i].on = o =>
           s.cols[d.rel[i].key].dropped = d.rel[o].cols[d.rel[i].key].dropped,
         d.next <= MaxOid,
         NEW e, Fields(e), e.dep = d.dep, e.comment = d.comment,
         e.rel = [d.rel EXCEPT ![o] = s], e.next = d.next + 1
  PROVE  Good(e)
<1> USE MaxOidAssumption
<1>1. /\ d.next \in Oid
      /\ \A i \in Rows(d) : d.rel[i] \in Relation
  BY DEF Good, IsCatalog, Oid, Rows
<1>2. /\ e.rel = [i \in Rows(d) |-> e.rel[i]] /\ e.rel[o] = s
      /\ \A i \in Rows(d) \ {o} : e.rel[i] = d.rel[i]
  BY DEF Rows
<1>3. \A i \in Rows(d) : Kept(d.rel[i], e.rel[i])
  BY <1>1, <1>2 DEF Kept
<1>4. ASSUME NEW i \in Rows(d), d.rel[i].kind = "i"
      PROVE  e.rel[d.rel[i].on].cols[d.rel[i].key].dropped =
               d.rel[d.rel[i].on].cols[d.rel[i].key].dropped
  <2>1. d.rel[i].on \in Rows(d)
    BY <1>4 DEF Good, Sound, NoDangling
  <2> QED BY <1>2, <1>4, <2>1
<1>5. e.next \in 1..MaxOid + 1 /\ e.next >= d.next
  BY <1>1 DEF Oid
<1>6. \A i \in Rows(d) : d.rel[i].kind = "i" =>
        e.rel[d.rel[i].on].cols[d.rel[i].key].dropped =
          d.rel[d.rel[i].on].cols[d.rel[i].key].dropped
  BY <1>4
<1> QED BY <1>2, <1>3, <1>5, <1>6, RowsChanged

(* A column changed in place.                                              *)
LEMMA ColumnChanged ==
  ASSUME NEW cols \in Seq(Attribute), NEW k \in DOMAIN cols, NEW a \in Attribute,
         NEW new, new = [cols EXCEPT ![k] = a]
  PROVE  /\ new \in Seq(Attribute)
         /\ DOMAIN new = DOMAIN cols
         /\ new[k] = a
         /\ \A j \in DOMAIN cols : j # k => new[j] = cols[j]
BY ExceptSeq

LEMMA ColumnAddedGood ==
  ASSUME NEW d, Good(d), NEW n \in Name, NEW o \in Rows(d), NEW c \in Column, d.next <= MaxOid,
         NEW e, e = ColumnAdded(d, n, o, c)
  PROVE  Good(e)
<1> USE MaxOidAssumption
<1>1. IsCatalog(d) /\ d.next \in Oid /\ d.rel[o] \in Relation
  BY DEF Good, IsCatalog, Oid, Rows
<1>2. PICK a : a = NewColumn(c, d.next)
  OBVIOUS
<1>3. a \in Attribute
  BY <1>1, <1>2 DEF NewColumn, Attribute
<1>4. PICK s : s = [d.rel[o] EXCEPT !.cols = Append(d.rel[o].cols, a)]
  OBVIOUS
<1>5. Fields(e) /\ e.dep = d.dep /\ e.comment = d.comment /\ e.next = d.next + 1
  BY <1>1 DEF ColumnAdded, IsCatalog, Fields
<1>6. e.rel = [d.rel EXCEPT ![o] = s]
  BY <1>1, <1>2, <1>4 DEF ColumnAdded, IsCatalog
<1>7. d.rel[o].cols \in Seq(Attribute)
  BY <1>1 DEF Relation
<1>8. /\ Append(d.rel[o].cols, a) \in Seq(Attribute)
      /\ DOMAIN d.rel[o].cols \subseteq DOMAIN Append(d.rel[o].cols, a)
      /\ \A k \in DOMAIN d.rel[o].cols : Append(d.rel[o].cols, a)[k] = d.rel[o].cols[k]
  BY <1>3, <1>7
<1>9. /\ s \in Relation /\ s.kind = d.rel[o].kind /\ s.on = d.rel[o].on /\ s.key = d.rel[o].key
      /\ s.cols = Append(d.rel[o].cols, a)
  BY <1>1, <1>4, <1>8 DEF Relation
<1>10. Kept(d.rel[o], s)
  BY <1>8, <1>9 DEF Kept
<1>11. ASSUME NEW i \in Rows(d), d.rel[i].kind = "i" /\ d.rel[i].on = o
       PROVE  s.cols[d.rel[i].key].dropped = d.rel[o].cols[d.rel[i].key].dropped
  <2>1. d.rel[i].key \in DOMAIN d.rel[o].cols
    BY <1>11 DEF Good, Sound, KeysLive
  <2> QED BY <1>8, <1>9, <2>1
<1> QED BY <1>5, <1>6, <1>10, <1>11, OneRowChanged

LEMMA ColumnDroppedGood ==
  ASSUME NEW d, Good(d), NEW n \in Name, NEW o \in Rows(d), NEW c \in Column, d.next <= MaxOid,
         NEW k \in DOMAIN d.rel[o].cols,
         \A i \in Rows(d) : d.rel[i].on = o => d.rel[i].key # k,
         NEW e, e = ColumnDropped(d, n, o, c, k)
  PROVE  Good(e)
<1> USE MaxOidAssumption
<1>1. IsCatalog(d) /\ d.next \in Oid /\ d.rel[o] \in Relation
  BY DEF Good, IsCatalog, Oid, Rows
<1>2. d.rel[o].cols \in Seq(Attribute) /\ d.rel[o].cols[k] \in Attribute
  BY <1>1 DEF Relation
<1>3. PICK a : a = [d.rel[o].cols[k] EXCEPT !.dropped = TRUE]
  OBVIOUS
<1>4. a \in Attribute /\ a.born = d.rel[o].cols[k].born
  BY <1>2, <1>3 DEF Attribute
<1>5. PICK cols : cols = [d.rel[o].cols EXCEPT ![k] = a]
  OBVIOUS
<1>6. PICK s : s = [d.rel[o] EXCEPT !.cols = cols]
  OBVIOUS
<1>7. Fields(e) /\ e.dep = d.dep /\ e.comment = d.comment /\ e.next = d.next + 1
  BY <1>1 DEF ColumnDropped, IsCatalog, Fields
<1>8. e.rel = [d.rel EXCEPT ![o] = s]
  BY <1>1, <1>3, <1>5, <1>6 DEF ColumnDropped, IsCatalog
<1>9. /\ cols \in Seq(Attribute) /\ DOMAIN cols = DOMAIN d.rel[o].cols /\ cols[k] = a
      /\ \A j \in DOMAIN d.rel[o].cols : j # k => cols[j] = d.rel[o].cols[j]
  BY <1>2, <1>4, <1>5, ColumnChanged
<1>10. /\ s \in Relation /\ s.kind = d.rel[o].kind /\ s.on = d.rel[o].on
       /\ s.key = d.rel[o].key /\ s.cols = cols
  BY <1>1, <1>6, <1>9 DEF Relation
<1>11. Kept(d.rel[o], s)
  BY <1>4, <1>9, <1>10 DEF Kept
<1>12. ASSUME NEW i \in Rows(d), d.rel[i].kind = "i" /\ d.rel[i].on = o
       PROVE  s.cols[d.rel[i].key].dropped = d.rel[o].cols[d.rel[i].key].dropped
  <2>1. d.rel[i].key \in DOMAIN d.rel[o].cols /\ d.rel[i].key # k
    BY <1>12 DEF Good, Sound, KeysLive
  <2> QED BY <1>9, <1>10, <2>1
<1> QED BY <1>7, <1>8, <1>11, <1>12, OneRowChanged

LEMMA ColumnRenamedGood ==
  ASSUME NEW d, Good(d), NEW n \in Name, NEW o \in Rows(d), NEW c \in Column, NEW new \in Column,
         d.next <= MaxOid, NEW k \in DOMAIN d.rel[o].cols,
         NEW e, e = ColumnRenamed(d, n, o, k, c, new)
  PROVE  Good(e)
<1> USE MaxOidAssumption
<1>1. IsCatalog(d) /\ d.next \in Oid /\ d.rel[o] \in Relation
  BY DEF Good, IsCatalog, Oid, Rows
<1>2. d.rel[o].cols \in Seq(Attribute) /\ d.rel[o].cols[k] \in Attribute
  BY <1>1 DEF Relation
<1>3. PICK a : a = [d.rel[o].cols[k] EXCEPT !.name = new]
  OBVIOUS
<1>4. a \in Attribute /\ a.born = d.rel[o].cols[k].born /\ a.dropped = d.rel[o].cols[k].dropped
  BY <1>2, <1>3 DEF Attribute
<1>5. PICK cols : cols = [d.rel[o].cols EXCEPT ![k] = a]
  OBVIOUS
<1>6. PICK s : s = [d.rel[o] EXCEPT !.cols = cols]
  OBVIOUS
<1>7. Fields(e) /\ e.dep = d.dep /\ e.comment = d.comment /\ e.next = d.next + 1
  BY <1>1 DEF ColumnRenamed, IsCatalog, Fields
<1>8. e.rel = [d.rel EXCEPT ![o] = s]
  BY <1>1, <1>3, <1>5, <1>6 DEF ColumnRenamed, IsCatalog
<1>9. /\ cols \in Seq(Attribute) /\ DOMAIN cols = DOMAIN d.rel[o].cols /\ cols[k] = a
      /\ \A j \in DOMAIN d.rel[o].cols : j # k => cols[j] = d.rel[o].cols[j]
  BY <1>2, <1>4, <1>5, ColumnChanged
<1>10. /\ s \in Relation /\ s.kind = d.rel[o].kind /\ s.on = d.rel[o].on
       /\ s.key = d.rel[o].key /\ s.cols = cols
  BY <1>1, <1>6, <1>9 DEF Relation
<1>11. Kept(d.rel[o], s)
  BY <1>4, <1>9, <1>10 DEF Kept
<1>12. ASSUME NEW i \in Rows(d), d.rel[i].kind = "i" /\ d.rel[i].on = o
       PROVE  s.cols[d.rel[i].key].dropped = d.rel[o].cols[d.rel[i].key].dropped
  <2>1. d.rel[i].key \in DOMAIN d.rel[o].cols
    BY <1>12 DEF Good, Sound, KeysLive
  <2> QED BY <1>4, <1>9, <1>10, <2>1
<1> QED BY <1>7, <1>8, <1>11, <1>12, OneRowChanged

(* A restart makes some rows inactive.                                     *)
LEMMA RestoredGood ==
  ASSUME NEW s, Good(s.db), NEW missing, NEW e, e = Restored(s, missing)
  PROVE  Good(e)
<1> USE MaxOidAssumption
<1>1. PICK d : d = s.db
  OBVIOUS
<1>2. /\ IsCatalog(d) /\ d.next \in 1..MaxOid + 1 /\ Good(d)
      /\ \A i \in Rows(d) : d.rel[i] \in Relation
  BY <1>1 DEF Good, IsCatalog, Rows
<1>3. /\ Fields(e) /\ e.dep = d.dep /\ e.comment = d.comment /\ e.next = d.next
  BY <1>1, <1>2 DEF Restored, IsCatalog, Fields
<1>4. e.rel = [o \in Rows(d) |-> IF o \in Unavailable(s, missing)
                                 THEN [d.rel[o] EXCEPT !.active = FALSE] ELSE d.rel[o]]
  BY <1>1, <1>2 DEF Restored, IsCatalog
<1>5. ASSUME NEW i \in Rows(d)
      PROVE  /\ e.rel[i] \in Relation /\ e.rel[i].cols = d.rel[i].cols
             /\ e.rel[i].kind = d.rel[i].kind /\ e.rel[i].on = d.rel[i].on
             /\ e.rel[i].key = d.rel[i].key
  <2>1. CASE e.rel[i] = d.rel[i]
    BY <1>2, <2>1
  <2>2. CASE e.rel[i] = [d.rel[i] EXCEPT !.active = FALSE]
    BY <1>2, <2>2 DEF Relation
  <2> QED BY <1>4, <2>1, <2>2
<1>6. \A i \in Rows(d) : Kept(d.rel[i], e.rel[i])
  BY <1>5 DEF Kept
<1>7. \A i \in Rows(d) : d.rel[i].kind = "i" =>
        e.rel[d.rel[i].on].cols[d.rel[i].key].dropped =
          d.rel[d.rel[i].on].cols[d.rel[i].key].dropped
  BY <1>2, <1>5 DEF Good, Sound, NoDangling
<1>8. e.rel = [i \in Rows(d) |-> e.rel[i]]
  BY <1>4
<1>9. e.next >= d.next /\ e.next \in 1..MaxOid + 1
  BY <1>2, <1>3
<1> QED BY <1>2, <1>3, <1>6, <1>7, <1>8, <1>9, RowsChanged

(* A view defined anew: its columns, their comments and its dependencies.  *)
LEMMA ViewReplacedGood ==
  ASSUME NEW d, Good(d), NEW n \in Name, NEW o \in Rows(d), NEW c \in Column,
         NEW f \in Name, NEW fo \in Rows(d), d.rel[o].kind = "v", d.next <= MaxOid,
         NEW e, e = ViewReplaced(d, n, o, c, f, fo)
  PROVE  Good(e)
<1> USE MaxOidAssumption
<1>1. /\ IsCatalog(d) /\ NoDangling(d) /\ OwnComments(d) /\ KeysLive(d) /\ Indexed(d)
      /\ d.next \in Oid /\ d.rel[o] \in Relation
      /\ \A i \in Rows(d) : d.rel[i] \in Relation
  BY DEF Good, Sound, IsCatalog, Oid, Rows
<1>2. PICK cols : cols = <<NewColumn(c, d.next)>>
  OBVIOUS
<1>3. cols \in Seq(Attribute)
  BY <1>1, <1>2 DEF NewColumn, Attribute
<1>4. PICK s : s = [[d.rel[o] EXCEPT !.cols = cols] EXCEPT !.active = TRUE]
  OBVIOUS
<1>5. /\ s \in Relation /\ s.kind = "v"
  BY <1>1, <1>3, <1>4 DEF Relation
<1>6. Fields(e) /\ e.next = d.next + 1
  BY <1>1 DEF ViewReplaced, IsCatalog, Fields
<1>7. e.rel = [d.rel EXCEPT ![o] = s]
  BY <1>1, <1>2, <1>4 DEF ViewReplaced, IsCatalog
<1>8. /\ e.dep = {x \in d.dep : x[1] # o} \union {<<o, fo>>}
      /\ e.comment = {m \in d.comment : m.oid # o \/ m.sub = 0}
  BY <1>1 DEF ViewReplaced, IsCatalog
<1>9. /\ Rows(e) = Rows(d) /\ e.rel[o] = s
      /\ e.rel = [i \in Rows(d) |-> e.rel[i]]
      /\ \A i \in Rows(d) \ {o} : e.rel[i] = d.rel[i]
  BY <1>1, <1>7 DEF Rows
<1>10. ASSUME NEW i \in Rows(d), e.rel[i].kind = "i"
       PROVE  /\ i # o /\ e.rel[i] = d.rel[i] /\ d.rel[i].on # o /\ d.rel[i].on \in Rows(d)
              /\ e.rel[d.rel[i].on] = d.rel[d.rel[i].on]
  BY <1>1, <1>5, <1>9, <1>10 DEF Indexed, NoDangling
<1>11. IsCatalog(e)
  <2>1. e.dep \subseteq Oid \X Oid
    BY <1>1, <1>8 DEF IsCatalog, Rows
  <2>2. \A i \in Rows(d) : e.rel[i] \in Relation
    BY <1>1, <1>5, <1>9
  <2>3. e.next \in 1..MaxOid + 1
    BY <1>1, <1>6 DEF Oid
  <2> QED BY <1>1, <1>6, <1>8, <1>9, <2>1, <2>2, <2>3 DEF IsCatalog, Fields, Rows
<1>12. NoDangling(e)
  BY <1>1, <1>8, <1>9, <1>10 DEF NoDangling
<1>13. OwnComments(e)
  <2> SUFFICES ASSUME NEW m \in e.comment, m.sub > 0
               PROVE  /\ m.sub \in DOMAIN e.rel[m.oid].cols
                      /\ e.rel[m.oid].cols[m.sub].born = m.of
    BY DEF OwnComments
  <2>1. m \in d.comment /\ m.oid # o /\ m.oid \in Rows(d)
    BY <1>1, <1>8 DEF NoDangling
  <2> QED BY <1>1, <1>9, <2>1 DEF OwnComments
<1>14. KeysLive(e)
  <2> SUFFICES ASSUME NEW i \in Rows(e), e.rel[i].kind = "i"
               PROVE  LET t == e.rel[e.rel[i].on]
                      IN  e.rel[i].key \in DOMAIN t.cols /\ ~t.cols[e.rel[i].key].dropped
    BY DEF KeysLive
  <2>1. LET t == d.rel[d.rel[i].on]
        IN  d.rel[i].key \in DOMAIN t.cols /\ ~t.cols[d.rel[i].key].dropped
    BY <1>1, <1>9, <1>10 DEF KeysLive
  <2>2. e.rel[i] = d.rel[i] /\ e.rel[d.rel[i].on] = d.rel[d.rel[i].on]
    BY <1>9, <1>10
  <2> QED BY <2>1, <2>2
<1>15. Indexed(e)
  <2>1. \A i \in Rows(e) : i \in Nat /\ i < e.next
    BY <1>1, <1>6, <1>9 DEF Indexed, IsCatalog, Rows, Oid
  <2>2. ASSUME NEW i \in Rows(e), e.rel[i].kind = "i"
        PROVE  <<i, e.rel[i].on>> \in e.dep /\ e.rel[e.rel[i].on].kind = "r"
    <3>1. <<i, d.rel[i].on>> \in d.dep /\ d.rel[d.rel[i].on].kind = "r"
      BY <1>1, <1>9, <1>10, <2>2 DEF Indexed
    <3> QED BY <1>8, <1>9, <1>10, <2>2, <3>1
  <2>3. ASSUME NEW x \in e.dep
        PROVE  e.rel[x[1]].kind # "r" /\ (e.rel[x[1]].kind = "i" => x[2] = e.rel[x[1]].on)
    BY <1>1, <1>5, <1>8, <1>9 DEF Indexed, NoDangling
  <2> QED BY <2>1, <2>2, <2>3 DEF Indexed
<1> QED BY <1>11, <1>12, <1>13, <1>14, <1>15 DEF Good, Sound

LEMMA CommentedGood ==
  ASSUME NEW d, Good(d), NEW o \in Rows(d), NEW k \in {0} \union DOMAIN d.rel[o].cols,
         NEW text, d.next <= MaxOid, NEW e, e = Commented(d, o, k, text)
  PROVE  Good(e)
<1> USE MaxOidAssumption
<1>1. /\ IsCatalog(d) /\ NoDangling(d) /\ OwnComments(d) /\ KeysLive(d) /\ Indexed(d)
      /\ d.next \in Oid /\ d.rel[o] \in Relation /\ o \in Oid
  BY DEF Good, Sound, IsCatalog, Oid, Rows
<1>2. PICK m : m = [oid |-> o, sub |-> k, of |-> IF k = 0 THEN o ELSE d.rel[o].cols[k].born]
  OBVIOUS
<1>3. m \in Comment /\ m.oid = o /\ m.sub = k /\ (k # 0 => m.of = d.rel[o].cols[k].born)
  <2>1. d.rel[o].cols \in Seq(Attribute)
    BY <1>1 DEF Relation
  <2>2. k \in Nat /\ (k # 0 => k \in DOMAIN d.rel[o].cols /\ d.rel[o].cols[k] \in Attribute)
    BY <2>1
  <2> QED BY <1>1, <1>2, <2>2 DEF Comment, Attribute
<1>4. /\ Fields(e) /\ e.next = d.next + 1 /\ e.rel = d.rel /\ e.dep = d.dep
      /\ e.comment \subseteq d.comment \union {m}
  BY <1>1, <1>2 DEF Commented, IsCatalog, Fields
<1>5. Rows(e) = Rows(d)
  BY <1>4 DEF Rows
<1>6. IsCatalog(e)
  <2>1. e.next \in 1..MaxOid + 1 /\ e.comment \subseteq Comment
    BY <1>1, <1>3, <1>4 DEF Oid, IsCatalog
  <2> QED BY <1>1, <1>4, <2>1 DEF IsCatalog, Fields
<1>7. NoDangling(e)
  BY <1>1, <1>3, <1>4, <1>5 DEF NoDangling
<1>8. OwnComments(e)
  <2>1. ASSUME NEW x \in e.comment, x.sub > 0
        PROVE  x.sub \in DOMAIN e.rel[x.oid].cols /\ e.rel[x.oid].cols[x.sub].born = x.of
    <3>1. CASE x = m
      BY <1>3, <1>4, <2>1, <3>1
    <3>2. CASE x \in d.comment
      BY <1>1, <1>4, <2>1, <3>2 DEF OwnComments
    <3> QED BY <1>4, <3>1, <3>2
  <2> QED BY <2>1 DEF OwnComments
<1>9. KeysLive(e)
  BY <1>1, <1>4, <1>5 DEF KeysLive
<1>10. Indexed(e)
  <2>1. \A i \in Rows(e) : i \in Nat /\ i < e.next
    BY <1>1, <1>4, <1>5 DEF Indexed, IsCatalog, Rows, Oid
  <2> QED BY <1>1, <1>4, <1>5, <2>1 DEF Indexed
<1> QED BY <1>6, <1>7, <1>8, <1>9, <1>10 DEF Good, Sound

-----------------------------------------------------------------------------
LEMMA InitInv == Init => IInv
  BY FirstAssumption DEF Init, IInv, Good, IsDatabase

(* A command that commits a good catalog keeps the invariant.              *)
LEMMA CommitInv == ASSUME IInv, NEW d, Good(d), Commit(d) PROVE IInv'
  BY DEF IInv, Commit

LEMMA NextInv == IInv /\ [Next]_vars => IInv'
<1> SUFFICES ASSUME IInv, [Next]_vars PROVE IInv'
  OBVIOUS
<1> USE MaxOidAssumption
<1>1. Good(db) /\ db.next \in Nat
  BY DEF IInv, Good, IsCatalog
<1>2. CASE UNCHANGED vars
  BY <1>2 DEF IInv, vars
<1>3. ASSUME NEW n \in Name, NEW c \in Column, CreateTable(n, c) PROVE IInv'
  BY <1>1, <1>3, TableMadeGood, CommitInv DEF CreateTable
<1>4. ASSUME NEW n \in Name, NEW m \in Name, NEW c \in Column, ImportParquet(n, m, c)
      PROVE  IInv'
  <2>1. Good(TableMade(db, n, c))
    BY <1>1, <1>4, TableMadeGood DEF ImportParquet
  <2> QED BY <1>4, <2>1, TableMadeGood, CommitInv DEF ImportParquet
<1>5. ASSUME NEW n \in Name, NEW c \in Column, NEW f \in Name, NEW keep \in BOOLEAN,
             CreateView(n, c, f, keep)
      PROVE  IInv'
  <2> DEFINE obj == IF keep THEN db.phys[n] ELSE ViewOf(f, c)
  <2>1. PICK fo \in Rows(db), k \in Column : Commit(ViewMade(db, n, obj, k, fo))
    BY <1>5 DEF CreateView
  <2>2. db.next + 1 <= MaxOid
    BY <1>5 DEF CreateView
  <2> QED BY <1>1, <2>1, <2>2, ViewMadeGood, CommitInv
<1>6. ASSUME NEW n \in Name, NEW c \in Column, NEW f \in Name, ReplaceView(n, c, f)
      PROVE  IInv'
  BY <1>1, <1>6, ViewReplacedGood, CommitInv DEF ReplaceView
<1>7. ASSUME NEW n \in Name, NEW t \in Name, NEW c \in Column, CreateIndex(n, t, c)
      PROVE  IInv'
  BY <1>1, <1>7, IndexMadeGood, CommitInv DEF CreateIndex
<1>8. ASSUME NEW n \in Name, NEW c \in Column, AddColumn(n, c) PROVE IInv'
  BY <1>1, <1>8, ColumnAddedGood, CommitInv DEF AddColumn
<1>9. ASSUME NEW n \in Name, NEW c \in Column, DropColumn(n, c) PROVE IInv'
  BY <1>1, <1>9, ColumnDroppedGood, CommitInv DEF DropColumn, Attnum
<1>10. ASSUME NEW n \in Name, NEW c \in Column, NEW new \in Column, RenameColumn(n, c, new)
       PROVE  IInv'
  BY <1>1, <1>10, ColumnRenamedGood, CommitInv DEF RenameColumn, Attnum
<1>11. ASSUME NEW n \in Name, NEW kind, NEW cascade, Drop(n, kind, cascade) PROVE IInv'
  BY <1>1, <1>11, DroppedGood, CommitInv DEF Drop, CanDrop
<1>12. ASSUME NEW n \in Name, NEW m \in Name, NEW kind, NEW cascade, DropTwo(n, m, kind, cascade)
       PROVE  IInv'
  <2>1. PICK o \in Rows(db), p \in Rows(db) :
          /\ CanDrop(db, n, o, kind, cascade)
          /\ CanDrop(Dropped(db, n, o), m, p, kind, cascade)
          /\ Commit(Dropped(Dropped(db, n, o), m, p))
    BY <1>12 DEF DropTwo
  <2>2. Good(Dropped(db, n, o))
    BY <1>1, <2>1, DroppedGood DEF CanDrop
  <2>3. Good(Dropped(Dropped(db, n, o), m, p))
    BY <2>1, <2>2, DroppedGood DEF CanDrop, IsActive
  <2> QED BY <2>1, <2>3, CommitInv
<1>13. ASSUME NEW n \in Name, NEW text \in BOOLEAN, CommentOn(n, text) PROVE IInv'
  BY <1>1, <1>13, CommentedGood, CommitInv DEF CommentOn
<1>14. CASE SaveSnapshot
  <2>1. db' = db /\ saved'.db = db
    BY <1>14 DEF SaveSnapshot
  <2> QED BY <1>1, <2>1 DEF IInv
<1>15. ASSUME NEW missing, Restart(missing) PROVE IInv'
  <2>1. CASE db' = First
    BY <1>15, <2>1, FirstAssumption DEF Restart, IInv, Good, IsDatabase
  <2>2. CASE saved # NoSnapshot /\ db' = Restored(saved, missing)
    BY <1>15, <2>2, RestoredGood DEF Restart, IInv
  <2>3. CASE db' = db
    BY <1>15, <2>3 DEF Restart, IInv
  <2> QED BY <1>15, <2>1, <2>2, <2>3 DEF Restart
<1> QED
  BY <1>2, <1>3, <1>4, <1>5, <1>6, <1>7, <1>8, <1>9, <1>10, <1>11, <1>12, <1>13, <1>14, <1>15
     DEF Next

(* lookup.rs:588-676: no DROP, in any order with the other commands and    *)
(* with restarts, leaves a catalog or a snapshot that the next start       *)
(* refuses for a row that names a relation without a row.                  *)
THEOREM CatalogNeverDangles == Spec => []NothingDangles
<1>1. IInv => NothingDangles
  BY DEF IInv, Good, Sound, NothingDangles
<1> QED BY <1>1, InitInv, NextInv, PTL DEF Spec

(* comment.rs, view.rs, alter_table.rs: a comment on a column is never     *)
(* shown for another column.                                               *)
THEOREM CommentsStay == Spec => []CommentsOwn
<1>1. IInv => CommentsOwn
  BY DEF IInv, Good, Sound, CommentsOwn
<1> QED BY <1>1, InitInv, NextInv, PTL DEF Spec

(* alter_table.rs:604-649: the column of an index is always there for      *)
(* restore to name.                                                        *)
THEOREM KeysStayLive == Spec => []IndexKeysLive
<1>1. IInv => IndexKeysLive
  BY DEF IInv, Good, Sound, IndexKeysLive
<1> QED BY <1>1, InitInv, NextInv, PTL DEF Spec
-----------------------------------------------------------------------------
(* The columns of a relation in DuckDB and in the catalog.                 *)

LEMMA LiveFinite ==
  ASSUME NEW cols \in Seq(Attribute)
  PROVE  /\ Live(cols) \subseteq 1..Len(cols) /\ Len(cols) \in Nat
         /\ IsFiniteSet(Live(cols)) /\ Cardinality(Live(cols)) \in Nat
<1>1. Live(cols) \subseteq 1..Len(cols) /\ Len(cols) \in Nat
  BY DEF Live
<1>2. IsFiniteSet(1..Len(cols))
  BY <1>1, FS_Interval
<1> QED
  BY <1>1, <1>2, FS_Subset, FS_CardinalityType

(* A live column has a place, no two the same, and every place is taken.   *)
LEMMA PlaceBound ==
  ASSUME NEW cols \in Seq(Attribute), NEW k \in Live(cols)
  PROVE  Place(cols, k) \in 1..Cardinality(Live(cols))
<1> DEFINE low == {j \in Live(cols) : j <= k}
<1>1. low \in SUBSET Live(cols) /\ k \in low
  BY LiveFinite
<1>2. IsFiniteSet(low) /\ Cardinality(low) <= Cardinality(Live(cols)) /\ Cardinality(low) \in Nat
  BY <1>1, LiveFinite, FS_Subset, FS_CardinalityType
<1>3. Cardinality(low) # 0
  BY <1>1, <1>2, FS_EmptySet
<1>4. Place(cols, k) = Cardinality(low)
  BY DEF Place
<1> HIDE DEF low
<1> QED
  BY <1>2, <1>3, <1>4, LiveFinite

LEMMA PlaceGrows ==
  ASSUME NEW cols \in Seq(Attribute), NEW j \in Live(cols), NEW k \in Live(cols), j < k
  PROVE  Place(cols, j) < Place(cols, k)
<1> DEFINE low(x) == {i \in Live(cols) : i <= x}
<1>1. low(j) \in SUBSET low(k) /\ k \in low(k) /\ k \notin low(j)
  BY LiveFinite
<1>2. IsFiniteSet(low(k)) /\ IsFiniteSet(low(j))
  BY LiveFinite, FS_Subset
<1>3. Cardinality(low(k)) \in Nat /\ Cardinality(low(j)) \in Nat
  BY <1>2, FS_CardinalityType
<1>4. Cardinality(low(j)) <= Cardinality(low(k)) /\ Cardinality(low(j)) # Cardinality(low(k))
  BY <1>1, <1>2, FS_Subset
<1>5. Place(cols, j) = Cardinality(low(j)) /\ Place(cols, k) = Cardinality(low(k))
  BY DEF Place
<1> HIDE DEF low
<1> QED
  BY <1>3, <1>4, <1>5

LEMMA PlaceApart ==
  ASSUME NEW cols \in Seq(Attribute), NEW j \in Live(cols), NEW k \in Live(cols),
         Place(cols, j) = Place(cols, k)
  PROVE  j = k
<1>1. j \in Nat /\ k \in Nat /\ Place(cols, j) \in Nat
  BY LiveFinite, PlaceBound
<1>2. ~(Place(cols, j) < Place(cols, k)) /\ ~(Place(cols, k) < Place(cols, j))
  BY <1>1
<1>3. ~(j < k) /\ ~(k < j)
  BY <1>2, PlaceGrows
<1> QED
  BY <1>1, <1>3

LEMMA PlaceTaken ==
  ASSUME NEW cols \in Seq(Attribute), NEW i \in 1..Cardinality(Live(cols))
  PROVE  \E k \in Live(cols) : Place(cols, k) = i
<1> DEFINE S == Live(cols)
           T == 1..Cardinality(S)
           f == [k \in S |-> Place(cols, k)]
<1>1. IsFiniteSet(S) /\ Cardinality(S) \in Nat
  BY LiveFinite
<1>2. IsFiniteSet(T) /\ Cardinality(T) = Cardinality(S)
  BY <1>1, FS_Interval
<1>3. f \in [S -> T]
  BY PlaceBound
<1>4. f \in Injection(S, T)
  BY <1>3, PlaceApart DEF Injection, IsInjective
<1>5. f \in Surjection(S, T)
  BY <1>2, <1>4, FS_Injection
<1> QED
  BY <1>5 DEF Surjection

(* LiveColumns puts every live column in its place.                        *)
LEMMA LiveColumnsAt ==
  ASSUME NEW cols \in Seq(Attribute)
  PROVE  /\ LiveColumns(cols) \in [1..Cardinality(Live(cols)) -> Column]
         /\ \A k \in Live(cols) : LiveColumns(cols)[Place(cols, k)] = cols[k].name
<1> DEFINE at(i) == CHOOSE k \in Live(cols) : Place(cols, k) = i
<1>1. \A i \in 1..Cardinality(Live(cols)) : at(i) \in Live(cols) /\ Place(cols, at(i)) = i
  BY PlaceTaken
<1>2. \A k \in Live(cols) : cols[k].name \in Column
  <2>1. \A k \in Live(cols) : cols[k] \in Attribute
    BY LiveFinite
  <2> QED
    BY <2>1 DEF Attribute
<1>3. LiveColumns(cols) = [i \in 1..Cardinality(Live(cols)) |-> cols[at(i)].name]
  BY DEF LiveColumns
<1> HIDE DEF at
<1>4. LiveColumns(cols) \in [1..Cardinality(Live(cols)) -> Column]
  BY <1>1, <1>2, <1>3
<1>5. ASSUME NEW k \in Live(cols) PROVE LiveColumns(cols)[Place(cols, k)] = cols[k].name
  <2>1. Place(cols, k) \in 1..Cardinality(Live(cols))
    BY PlaceBound
  <2>2. at(Place(cols, k)) = k
    BY <1>1, <2>1, PlaceApart
  <2> QED
    BY <1>3, <2>1, <2>2
<1> QED
  BY <1>4, <1>5

LEMMA LiveColumnsSeq ==
  ASSUME NEW cols \in Seq(Attribute)
  PROVE  /\ LiveColumns(cols) \in Seq(Column)
         /\ Len(LiveColumns(cols)) = Cardinality(Live(cols))
         /\ DOMAIN LiveColumns(cols) = 1..Cardinality(Live(cols))
BY LiveColumnsAt, LiveFinite

(* ... and is the only such sequence.                                      *)
LEMMA LiveColumnsOnly ==
  ASSUME NEW cols \in Seq(Attribute), NEW s,
         s = [i \in 1..Cardinality(Live(cols)) |-> s[i]],
         \A k \in Live(cols) : s[Place(cols, k)] = cols[k].name
  PROVE  s = LiveColumns(cols)
<1>1. ASSUME NEW i \in 1..Cardinality(Live(cols)) PROVE s[i] = LiveColumns(cols)[i]
  BY PlaceTaken, LiveColumnsAt
<1>2. LiveColumns(cols) = [i \in 1..Cardinality(Live(cols)) |-> LiveColumns(cols)[i]]
  BY LiveColumnsAt
<1> QED
  BY <1>1, <1>2

LEMMA LiveColumnsHave ==
  ASSUME NEW cols \in Seq(Attribute), NEW c
  PROVE  Has(LiveColumns(cols), c) <=> \E k \in Live(cols) : cols[k].name = c
<1>1. DOMAIN LiveColumns(cols) = 1..Cardinality(Live(cols))
  BY LiveColumnsSeq
<1>2. \A k \in Live(cols) : /\ Place(cols, k) \in 1..Cardinality(Live(cols))
                            /\ LiveColumns(cols)[Place(cols, k)] = cols[k].name
  BY PlaceBound, LiveColumnsAt
<1>3. \A i \in 1..Cardinality(Live(cols)) :
        \E k \in Live(cols) : Place(cols, k) = i /\ LiveColumns(cols)[i] = cols[k].name
  BY PlaceTaken, LiveColumnsAt
<1> QED
  BY <1>1, <1>2, <1>3 DEF Has

LEMMA LiveOfOne ==
  ASSUME NEW a \in Attribute, ~a.dropped
  PROVE  LiveColumns(<<a>>) = <<a.name>>
<1>1. <<a>> \in Seq(Attribute)
  OBVIOUS
<1>2. Live(<<a>>) = {1}
  BY DEF Live
<1>3. Cardinality({1}) = 1
  BY FS_Singleton
<1>4. Place(<<a>>, 1) = 1
  <2>1. {j \in {1} : j <= 1} = {1}
    OBVIOUS
  <2> QED
    BY <1>2, <1>3, <2>1 DEF Place
<1> DEFINE s == <<a.name>>
<1>5. s = [i \in 1..1 |-> s[i]] /\ s[1] = a.name
  OBVIOUS
<1>6. s[Place(<<a>>, 1)] = <<a>>[1].name
  BY <1>4, <1>5
<1> HIDE DEF s
<1>7. s = LiveColumns(<<a>>)
  BY <1>1, <1>2, <1>3, <1>5, <1>6, LiveColumnsOnly
<1> QED
  BY <1>7 DEF s

(* ALTER TABLE ... ADD COLUMN.                                             *)
LEMMA LiveOfMore ==
  ASSUME NEW cols \in Seq(Attribute), NEW a \in Attribute, ~a.dropped
  PROVE  LiveColumns(Append(cols, a)) = Append(LiveColumns(cols), a.name)
<1> DEFINE m == Len(cols) + 1
           L == Live(cols)
           n == Cardinality(L)
<1>1. PICK more : more = Append(cols, a)
  OBVIOUS
<1>2. /\ more \in Seq(Attribute) /\ Len(cols) \in Nat /\ DOMAIN more = 1..m /\ more[m] = a
      /\ DOMAIN cols = 1..Len(cols) /\ \A k \in DOMAIN cols : more[k] = cols[k]
  BY <1>1
<1>3. L \subseteq 1..Len(cols) /\ IsFiniteSet(L) /\ n \in Nat
  BY LiveFinite
<1>4. Live(more) = L \union {m} /\ m \notin L
  BY <1>2 DEF Live
<1>5. Cardinality(Live(more)) = n + 1
  BY <1>3, <1>4, FS_AddElement
<1>6. ASSUME NEW k \in L PROVE Place(more, k) = Place(cols, k)
  <2>1. {j \in Live(more) : j <= k} = {j \in L : j <= k}
    BY <1>2, <1>3, <1>4
  <2> QED
    BY <2>1 DEF Place
<1>7. Place(more, m) = n + 1
  <2>1. {j \in Live(more) : j <= m} = Live(more)
    BY <1>2, <1>3, <1>4
  <2> QED
    BY <1>5, <2>1 DEF Place
<1>8. PICK old : old = LiveColumns(cols)
  OBVIOUS
<1>9. old \in Seq(Column) /\ Len(old) = n /\ a.name \in Column
      /\ \A k \in L : Place(cols, k) \in 1..n /\ old[Place(cols, k)] = cols[k].name
  BY <1>8, LiveColumnsSeq, LiveColumnsAt, PlaceBound DEF Attribute
<1>10. PICK s : s = Append(old, a.name)
  OBVIOUS
<1>11. s = [i \in 1..n + 1 |-> s[i]] /\ s[n + 1] = a.name /\ \A i \in 1..n : s[i] = old[i]
  BY <1>3, <1>9, <1>10
<1> HIDE DEF m, n, L
<1>12. ASSUME NEW k \in Live(more) PROVE s[Place(more, k)] = more[k].name
  <2>1. CASE k = m
    BY <1>2, <1>7, <1>11, <2>1
  <2>2. CASE k \in L
    BY <1>2, <1>3, <1>6, <1>9, <1>11, <2>2
  <2> QED
    BY <1>4, <2>1, <2>2
<1>13. s = LiveColumns(more)
  BY <1>2, <1>5, <1>11, <1>12, LiveColumnsOnly
<1> QED
  BY <1>1, <1>8, <1>10, <1>13

(* ALTER TABLE ... DROP COLUMN.                                            *)
LEMMA LiveOfFewer ==
  ASSUME NEW cols \in Seq(Attribute), NEW k \in Live(cols), NEW a \in Attribute, a.dropped,
         \A j \in Live(cols) : cols[j].name = cols[k].name => j = k
  PROVE  LiveColumns([cols EXCEPT ![k] = a]) = Cut(LiveColumns(cols), cols[k].name)
<1> DEFINE L == Live(cols)
           n == Cardinality(L)
           p == Place(cols, k)
<1>1. PICK less : less = [cols EXCEPT ![k] = a]
  OBVIOUS
<1>2. /\ less \in Seq(Attribute) /\ DOMAIN less = DOMAIN cols /\ less[k] = a
      /\ \A j \in DOMAIN cols : j # k => less[j] = cols[j]
  <2>1. k \in DOMAIN cols
    BY DEF Live
  <2> QED
    BY <1>1, <2>1, ColumnChanged
<1>3. L \subseteq Nat /\ IsFiniteSet(L) /\ n \in Nat /\ p \in 1..n
  BY LiveFinite, PlaceBound
<1>4. Live(less) = L \ {k}
  BY <1>2 DEF Live
<1>5. Cardinality(Live(less)) = n - 1
  BY <1>3, <1>4, FS_RemoveElement
<1>6. ASSUME NEW j \in L, j < k
      PROVE  Place(less, j) = Place(cols, j) /\ Place(cols, j) \in 1..n /\ Place(cols, j) < p
  <2>1. {i \in Live(less) : i <= j} = {i \in L : i <= j}
    BY <1>3, <1>4, <1>6
  <2> QED
    BY <1>6, <2>1, PlaceGrows, PlaceBound DEF Place
<1>7. ASSUME NEW j \in L, k < j
      PROVE  Place(less, j) = Place(cols, j) - 1 /\ Place(cols, j) \in 1..n /\ p < Place(cols, j)
  <2> DEFINE low == {i \in L : i <= j}
  <2>1. {i \in Live(less) : i <= j} = low \ {k} /\ k \in low
    BY <1>3, <1>4, <1>7
  <2>2. IsFiniteSet(low)
    BY <1>3, FS_Subset
  <2>3. Cardinality(low \ {k}) = Cardinality(low) - 1
    BY <2>1, <2>2, FS_RemoveElement
  <2>4. Place(less, j) = Cardinality(low \ {k}) /\ Place(cols, j) = Cardinality(low)
    BY <2>1 DEF Place
  <2> QED
    BY <1>7, <2>3, <2>4, PlaceGrows, PlaceBound
<1>8. PICK old : old = LiveColumns(cols)
  OBVIOUS
<1>9. old \in Seq(Column) /\ Len(old) = n /\ DOMAIN old = 1..n
      /\ \A j \in L : old[Place(cols, j)] = cols[j].name
  BY <1>8, LiveColumnsSeq, LiveColumnsAt
<1>10. (CHOOSE i \in DOMAIN old : old[i] = cols[k].name) = p
  <2>1. ASSUME NEW i \in 1..n, old[i] = cols[k].name PROVE i = p
    <3>1. PICK j \in L : Place(cols, j) = i
      BY PlaceTaken
    <3>2. cols[j].name = cols[k].name
      BY <1>9, <2>1, <3>1
    <3> QED
      BY <3>1, <3>2
  <2>2. old[p] = cols[k].name
    BY <1>9
  <2> QED
    BY <1>3, <1>9, <2>1, <2>2
<1>11. PICK s : s = Cut(old, cols[k].name)
  OBVIOUS
<1> HIDE DEF p, n, L
<1>12. s = [i \in 1..n - 1 |-> IF i < p THEN old[i] ELSE old[i + 1]]
  BY <1>9, <1>10, <1>11 DEF Cut
<1>13. ASSUME NEW j \in Live(less) PROVE s[Place(less, j)] = less[j].name
  <2>1. j \in L /\ j # k /\ j \in Nat /\ k \in Nat /\ less[j] = cols[j] /\ old[Place(cols, j)] = cols[j].name
    BY <1>2, <1>3, <1>4, <1>9 DEF Live, L
  <2>2. CASE j < k
    <3>1. Place(less, j) = Place(cols, j) /\ Place(cols, j) \in 1..n - 1 /\ Place(cols, j) < p
      BY <1>3, <1>6, <2>1, <2>2
    <3> QED
      BY <1>12, <2>1, <3>1
  <2>3. CASE k < j
    <3>1. /\ Place(less, j) = Place(cols, j) - 1 /\ Place(less, j) \in 1..n - 1
          /\ ~(Place(less, j) < p) /\ Place(less, j) + 1 = Place(cols, j)
      BY <1>3, <1>7, <2>1, <2>3
    <3> QED
      BY <1>12, <2>1, <3>1
  <2> QED
    BY <2>1, <2>2, <2>3
<1>14. s = [i \in 1..Cardinality(Live(less)) |-> s[i]]
  <2>1. s = [i \in 1..n - 1 |-> s[i]]
    BY <1>12
  <2> QED
    BY <1>5, <2>1
<1>15. s = LiveColumns(less)
  <2>1. less \in Seq(Attribute)
    BY <1>2
  <2>2. \A j \in Live(less) : s[Place(less, j)] = less[j].name
    BY <1>13
  <2> QED
    BY <1>14, <2>1, <2>2, LiveColumnsOnly
<1> QED
  BY <1>1, <1>8, <1>11, <1>15

(* ALTER TABLE ... RENAME COLUMN.                                          *)
LEMMA LiveOfRenamed ==
  ASSUME NEW cols \in Seq(Attribute), NEW k \in Live(cols),
         NEW a \in Attribute, ~a.dropped,
         \A j \in Live(cols) : cols[j].name = cols[k].name => j = k,
         NEW old, old = LiveColumns(cols)
  PROVE  LiveColumns([cols EXCEPT ![k] = a]) =
           [i \in DOMAIN old |-> IF old[i] = cols[k].name THEN a.name ELSE old[i]]
<1> DEFINE n == Cardinality(Live(cols))
<1>1. PICK new : new = [cols EXCEPT ![k] = a]
  OBVIOUS
<1>2. /\ new \in Seq(Attribute) /\ DOMAIN new = DOMAIN cols /\ new[k] = a
      /\ \A j \in DOMAIN cols : j # k => new[j] = cols[j]
  <2>1. k \in DOMAIN cols
    BY DEF Live
  <2> QED
    BY <1>1, <2>1, ColumnChanged
<1>3. Live(new) = Live(cols)
  BY <1>2 DEF Live
<1>4. \A j \in Live(cols) : Place(new, j) = Place(cols, j) /\ Place(cols, j) \in 1..n
  BY <1>3, PlaceBound DEF Place
<1>5. DOMAIN old = 1..n /\ \A j \in Live(cols) : old[Place(cols, j)] = cols[j].name
  BY LiveColumnsSeq, LiveColumnsAt
<1>6. PICK s : s = [i \in DOMAIN old |-> IF old[i] = cols[k].name THEN a.name ELSE old[i]]
  OBVIOUS
<1>7. ASSUME NEW j \in Live(new) PROVE s[Place(new, j)] = new[j].name
  <2>1. j \in Live(cols) /\ Place(new, j) = Place(cols, j) /\ Place(cols, j) \in DOMAIN old
        /\ old[Place(cols, j)] = cols[j].name /\ j \in DOMAIN cols
    BY <1>3, <1>4, <1>5 DEF Live
  <2>2. CASE j = k
    BY <1>2, <1>6, <2>1, <2>2
  <2>3. CASE j # k
    BY <1>2, <1>6, <2>1, <2>3
  <2> QED
    BY <2>2, <2>3
<1>8. s = [i \in 1..Cardinality(Live(new)) |-> s[i]]
  BY <1>3, <1>5, <1>6
<1>9. s = LiveColumns(new)
  BY <1>2, <1>7, <1>8, LiveColumnsOnly
<1> QED
  BY <1>1, <1>6, <1>9
-----------------------------------------------------------------------------
(* The catalog and DuckDB.  Besides what PhysicalAgrees says: the shape of  *)
(* the rows, which makes the columns of a view or a table computable.       *)
Phys(d) == d.phys \in [Name -> Object] /\ Agrees(d) /\ Shaped(d)

LEMMA GoodRows ==
  ASSUME NEW d, Good(d)
  PROVE  /\ \A o \in Rows(d) : d.rel[o] \in Relation /\ o \in Oid /\ d.rel[o].name \in Name
         /\ \A i \in Rows(d) : d.rel[i].kind = "i" =>
              /\ d.rel[i].on \in Rows(d) /\ d.rel[d.rel[i].on].kind = "r"
              /\ d.rel[i].key \in DOMAIN d.rel[d.rel[i].on].cols
              /\ <<i, d.rel[i].on>> \in d.dep
         /\ d.next \notin Rows(d)
<1>1. IsCatalog(d) /\ NoDangling(d) /\ KeysLive(d) /\ Indexed(d)
  BY DEF Good, Sound
<1>2. \A o \in Rows(d) : d.rel[o] \in Relation /\ o \in Oid
  BY <1>1 DEF IsCatalog, Rows
<1>3. \A o \in Rows(d) : d.rel[o].name \in Name
  BY <1>2 DEF Relation
<1>4. ASSUME NEW i \in Rows(d), d.rel[i].kind = "i"
      PROVE  /\ d.rel[i].on \in Rows(d) /\ d.rel[d.rel[i].on].kind = "r"
             /\ d.rel[i].key \in DOMAIN d.rel[d.rel[i].on].cols
             /\ <<i, d.rel[i].on>> \in d.dep
  BY <1>1, <1>4 DEF NoDangling, KeysLive, Indexed
<1>5. d.next \notin Rows(d)
  BY <1>1, MaxOidAssumption DEF Indexed, IsCatalog
<1> QED
  BY <1>2, <1>3, <1>4, <1>5

(* A new row under a new name, and its object.                             *)
LEMMA RowMatched ==
  ASSUME NEW d, Good(d), Phys(d), NEW n \in Name, ~Taken(d, n),
         NEW r \in Relation, r.name = n, r.active, RowShaped(r),
         NEW e, e.rel = With(d.rel, d.next, r),
         e.phys \in [Name -> Object], \A m \in Name \ {n} : e.phys[m] = d.phys[m],
         r.kind # "i" => /\ e.phys[n].kind = r.kind /\ e.phys[n].cols = LiveColumns(r.cols)
                         /\ e.pindex = d.pindex /\ d.left \ {n} \subseteq e.left,
         r.kind = "i" => /\ r.on \in Rows(d) /\ e.phys = d.phys /\ e.left = d.left
                         /\ e.pindex = d.pindex \union {IndexEntry(e, d.next)}
  PROVE  Phys(e)
<1>1. /\ Rows(e) = Rows(d) \union {d.next} /\ d.next \notin Rows(d)
      /\ e.rel[d.next] = r /\ \A o \in Rows(d) : e.rel[o] = d.rel[o]
  BY GoodRows DEF With, Rows
<1>2. \A o \in Rows(d) : d.rel[o].name # n /\ d.rel[o].name \in Name
  BY GoodRows DEF Taken, Rows
<1>3. ASSUME NEW i \in Rows(d), d.rel[i].kind = "i"
      PROVE  IndexEntry(e, i) = IndexEntry(d, i) /\ e.rel[e.rel[i].on].name = d.rel[d.rel[i].on].name
  <2>1. d.rel[i].on \in Rows(d)
    BY <1>3, GoodRows
  <2>2. e.rel[i] = d.rel[i] /\ e.rel[d.rel[i].on] = d.rel[d.rel[i].on]
    BY <1>1, <2>1
  <2> QED
    BY <2>2 DEF IndexEntry
<1>4. NamesUnique(e)
  BY <1>1, <1>2 DEF NamesUnique, Phys, Agrees
<1>5. RowsHaveObjects(e)
  <2> SUFFICES ASSUME NEW o \in Rows(e), e.rel[o].active PROVE HasObject(e, o)
    BY DEF RowsHaveObjects
  <2>1. CASE o = d.next
    BY <1>1, <2>1 DEF HasObject
  <2>2. CASE o \in Rows(d) /\ d.rel[o].kind = "i"
    <3>1. IndexEntry(d, o) \in d.pindex
      BY <1>1, <2>2 DEF Phys, Agrees, RowsHaveObjects, HasObject
    <3> QED
      BY <1>1, <1>3, <2>2, <3>1 DEF HasObject
  <2>3. CASE o \in Rows(d) /\ d.rel[o].kind # "i"
    <3>1. d.phys[d.rel[o].name].kind = d.rel[o].kind /\ d.phys[d.rel[o].name].cols = LiveColumns(d.rel[o].cols)
      BY <1>1, <2>3 DEF Phys, Agrees, RowsHaveObjects, HasObject
    <3>2. e.phys[d.rel[o].name] = d.phys[d.rel[o].name] /\ e.rel[o] = d.rel[o]
      BY <1>1, <1>2, <2>3
    <3> QED
      BY <2>3, <3>1, <3>2 DEF HasObject
  <2> QED
    BY <1>1, <2>1, <2>2, <2>3
<1>6. ASSUME NEW m \in Name, e.phys[m].kind # "none"
      PROVE  \/ \E o \in Rows(e) : IsActive(e, m, o) /\ e.rel[o].kind = e.phys[m].kind
             \/ e.phys[m].kind = "v" /\ m \in e.left
  <2>1. CASE m = n /\ r.kind # "i"
    BY <1>1, <2>1 DEF IsActive
  <2>2. CASE m # n \/ r.kind = "i"
    <3>1. e.phys[m] = d.phys[m] /\ (m \in d.left => m \in e.left)
      BY <2>2
    <3>2. \/ \E o \in Rows(d) : IsActive(d, m, o) /\ d.rel[o].kind = d.phys[m].kind
          \/ d.phys[m].kind = "v" /\ m \in d.left
      BY <1>6, <3>1 DEF Phys, Agrees, ObjectsHaveRows
    <3> QED
      BY <1>1, <3>1, <3>2 DEF IsActive
  <2> QED
    BY <2>1, <2>2
<1>7. ASSUME NEW i \in e.pindex
      PROVE  \E o \in Rows(e) : /\ IsActive(e, i.name, o) /\ e.rel[o].kind = "i"
                                /\ i.on = e.rel[e.rel[o].on].name
  <2>1. CASE i \in d.pindex
    <3>1. PICK o \in Rows(d) : IsActive(d, i.name, o) /\ d.rel[o].kind = "i" /\ i.on = d.rel[d.rel[o].on].name
      BY <2>1 DEF Phys, Agrees, ObjectsHaveRows
    <3> QED
      BY <1>1, <1>3, <3>1 DEF IsActive
  <2>2. CASE i = IndexEntry(e, d.next) /\ r.kind = "i"
    <3>1. i.name = n /\ i.on = e.rel[r.on].name
      BY <1>1, <2>2 DEF IndexEntry
    <3> QED
      BY <1>1, <2>2, <3>1 DEF IsActive
  <2> QED
    BY <1>7, <2>1, <2>2
<1>8. Shaped(e)
  BY <1>1 DEF Shaped, Phys
<1> QED
  BY <1>4, <1>5, <1>6, <1>7, <1>8 DEF Phys, Agrees, ObjectsHaveRows

(* A row whose object changes with it.                                     *)
Rematched(d, o, n, s, e) ==
  /\ o \in Rows(d) /\ d.rel[o].kind # "i" /\ n \in Name /\ d.rel[o].name = n
  /\ s \in Relation /\ s.name = n /\ s.kind = d.rel[o].kind /\ s.active /\ RowShaped(s)
  /\ \A i \in Rows(d) : d.rel[i].kind = "i" /\ d.rel[i].on = o =>
       s.cols[d.rel[i].key].name = d.rel[o].cols[d.rel[i].key].name
  /\ Rows(e) = Rows(d) /\ e.rel[o] = s /\ \A p \in Rows(d) \ {o} : e.rel[p] = d.rel[p]
  /\ e.phys \in [Name -> Object] /\ \A m \in Name \ {n} : e.phys[m] = d.phys[m]
  /\ e.phys[n].kind = s.kind /\ e.phys[n].cols = LiveColumns(s.cols)
  /\ e.pindex = d.pindex /\ e.left = d.left

LEMMA RowRematched ==
  ASSUME NEW d, Good(d), Phys(d), NEW o, NEW n, NEW s, NEW e, Rematched(d, o, n, s, e)
  PROVE  Phys(e)
<1> USE DEF Rematched
<1>1. /\ Rows(e) = Rows(d) /\ e.rel[o] = s
      /\ \A p \in Rows(d) \ {o} : e.rel[p] = d.rel[p]
  OBVIOUS
<1>2. \A p \in Rows(d) : e.rel[p].name = d.rel[p].name /\ e.rel[p].kind = d.rel[p].kind
  BY <1>1
<1>3. \A p \in Rows(d) \ {o} : d.rel[p].name # n /\ d.rel[p].name \in Name
  BY GoodRows DEF Phys, Agrees, NamesUnique
<1>4. ASSUME NEW i \in Rows(d), d.rel[i].kind = "i"
      PROVE  /\ i # o /\ e.rel[i] = d.rel[i]
             /\ IndexEntry(e, i) = IndexEntry(d, i) /\ e.rel[e.rel[i].on].name = d.rel[d.rel[i].on].name
  <2>1. d.rel[i].on \in Rows(d)
    BY <1>4, GoodRows
  <2>2. i # o /\ e.rel[i] = d.rel[i]
    BY <1>1, <1>4
  <2>3. e.rel[d.rel[i].on].name = d.rel[d.rel[i].on].name
    BY <1>2, <2>1
  <2>4. e.rel[d.rel[i].on].cols[d.rel[i].key].name = d.rel[d.rel[i].on].cols[d.rel[i].key].name
    <3>1. CASE d.rel[i].on = o
      BY <1>1, <1>4, <3>1
    <3>2. CASE d.rel[i].on # o
      BY <1>1, <2>1, <3>2
    <3> QED
      BY <3>1, <3>2
  <2> QED
    BY <2>2, <2>3, <2>4 DEF IndexEntry
<1>5. NamesUnique(e)
  BY <1>1, <1>2 DEF NamesUnique, Phys, Agrees
<1>6. RowsHaveObjects(e)
  <2> SUFFICES ASSUME NEW p \in Rows(d), e.rel[p].active PROVE HasObject(e, p)
    BY <1>1 DEF RowsHaveObjects
  <2>1. CASE p = o
    BY <1>1, <2>1 DEF HasObject
  <2>2. CASE d.rel[p].kind = "i"
    <3>1. IndexEntry(d, p) \in d.pindex
      BY <1>4, <2>2 DEF Phys, Agrees, RowsHaveObjects, HasObject
    <3> QED
      BY <1>4, <2>2, <3>1 DEF HasObject
  <2>3. CASE p # o /\ d.rel[p].kind # "i"
    <3>1. d.phys[d.rel[p].name].kind = d.rel[p].kind /\ d.phys[d.rel[p].name].cols = LiveColumns(d.rel[p].cols)
      BY <1>1, <2>3 DEF Phys, Agrees, RowsHaveObjects, HasObject
    <3>2. e.phys[d.rel[p].name] = d.phys[d.rel[p].name] /\ e.rel[p] = d.rel[p]
      BY <1>1, <1>3, <2>3
    <3> QED
      BY <2>3, <3>1, <3>2 DEF HasObject
  <2> QED
    BY <2>1, <2>2, <2>3
<1>7. ASSUME NEW m \in Name, e.phys[m].kind # "none"
      PROVE  \/ \E p \in Rows(e) : IsActive(e, m, p) /\ e.rel[p].kind = e.phys[m].kind
             \/ e.phys[m].kind = "v" /\ m \in e.left
  <2>1. CASE m = n
    BY <1>1, <2>1 DEF IsActive
  <2>2. CASE m # n
    <3>1. \/ \E p \in Rows(d) : IsActive(d, m, p) /\ d.rel[p].kind = d.phys[m].kind
          \/ d.phys[m].kind = "v" /\ m \in d.left
      BY <1>7, <2>2 DEF Phys, Agrees, ObjectsHaveRows
    <3>2. \A p \in Rows(d) : IsActive(d, m, p) => p # o /\ IsActive(e, m, p)
      BY <1>1, <2>2 DEF IsActive
    <3> QED
      BY <1>1, <2>2, <3>1, <3>2
  <2> QED
    BY <2>1, <2>2
<1>8. ASSUME NEW i \in e.pindex
      PROVE  \E p \in Rows(e) : /\ IsActive(e, i.name, p) /\ e.rel[p].kind = "i"
                                /\ i.on = e.rel[e.rel[p].on].name
  <2>1. PICK p \in Rows(d) : IsActive(d, i.name, p) /\ d.rel[p].kind = "i" /\ i.on = d.rel[d.rel[p].on].name
    BY <1>8 DEF Phys, Agrees, ObjectsHaveRows
  <2> QED
    BY <1>1, <1>4, <2>1 DEF IsActive
<1>9. Shaped(e)
  BY <1>1 DEF Shaped, Phys
<1> QED
  BY <1>5, <1>6, <1>7, <1>8, <1>9 DEF Phys, Agrees, ObjectsHaveRows

(* A new relation and its object.                                          *)
LEMMA TableMadePhys ==
  ASSUME NEW d, Good(d), Phys(d), NEW n \in Name, NEW c \in Column, CanMakeTable(d, n),
         NEW e, e = TableMade(d, n, c)
  PROVE  Phys(e)
<1>1. IsCatalog(d) /\ d.next + 1 \in Oid /\ d.phys \in [Name -> Object]
  BY MaxOidAssumption DEF Good, IsCatalog, CanMakeTable, Oid, Phys
<1>2. PICK a : a = NewColumn(c, d.next + 1)
  OBVIOUS
<1>3. a \in Attribute /\ ~a.dropped /\ a.name = c
  BY <1>1, <1>2 DEF NewColumn, Attribute
<1>4. PICK r : r = Row(n, "r", <<a>>, 0, 0)
  OBVIOUS
<1>5. /\ r.name = n /\ r.kind = "r" /\ r.cols = <<a>> /\ r.active
      /\ r \in Relation
  BY <1>3, <1>4 DEF Row, Relation
<1>6. LiveColumns(r.cols) = <<c>>
  BY <1>3, <1>5, LiveOfOne
<1>7. RowShaped(r)
  BY <1>5 DEF RowShaped, Live
<1>8. PICK obj : obj = [Nothing EXCEPT !.kind = "r", !.cols = <<c>>]
  OBVIOUS
<1>9. obj.kind = "r" /\ obj.cols = <<c>> /\ obj \in Object
  <2>1. obj = [kind |-> "r", cols |-> <<c>>, from |-> NoName]
    BY <1>8 DEF Nothing
  <2>2. <<c>> \in Seq(Column)
    OBVIOUS
  <2> QED
    BY <2>1, <2>2 DEF Object
<1>10. /\ e.rel = With(d.rel, d.next, r) /\ e.phys = [d.phys EXCEPT ![n] = obj]
       /\ e.pindex = d.pindex /\ e.left = d.left
  BY <1>1, <1>2, <1>4, <1>8 DEF TableMade, IsCatalog
<1>11. /\ e.phys \in [Name -> Object] /\ e.phys[n] = obj
       /\ \A m \in Name \ {n} : e.phys[m] = d.phys[m]
  BY <1>1, <1>9, <1>10
<1>12. ~Taken(d, n)
  BY DEF CanMakeTable
<1> QED
  BY <1>5, <1>6, <1>7, <1>9, <1>10, <1>11, <1>12, RowMatched

LEMMA ViewMadePhys ==
  ASSUME NEW d, Good(d), Phys(d), NEW n \in Name, NEW obj \in Object, NEW c \in Column,
         NEW fo, ~Taken(d, n), d.next + 1 <= MaxOid,
         obj.kind = "v", obj.cols = <<c>>,
         NEW e, e = ViewMade(d, n, obj, c, fo)
  PROVE  Phys(e)
<1>1. IsCatalog(d) /\ d.next + 1 \in Oid /\ d.phys \in [Name -> Object]
  BY MaxOidAssumption DEF Good, IsCatalog, Oid, Phys
<1>2. PICK a : a = NewColumn(c, d.next + 1)
  OBVIOUS
<1>3. a \in Attribute /\ ~a.dropped /\ a.name = c
  BY <1>1, <1>2 DEF NewColumn, Attribute
<1>4. PICK r : r = Row(n, "v", <<a>>, 0, 0)
  OBVIOUS
<1>5. /\ r.name = n /\ r.kind = "v" /\ r.cols = <<a>> /\ r.active
      /\ r \in Relation
  BY <1>3, <1>4 DEF Row, Relation
<1>6. LiveColumns(r.cols) = <<c>>
  BY <1>3, <1>5, LiveOfOne
<1>7. RowShaped(r)
  BY <1>3, <1>5 DEF RowShaped, Live
<1>8. /\ e.rel = With(d.rel, d.next, r) /\ e.phys = [d.phys EXCEPT ![n] = obj]
      /\ e.pindex = d.pindex /\ e.left = d.left \ {n}
  BY <1>1, <1>2, <1>4 DEF ViewMade, IsCatalog
<1>9. /\ e.phys \in [Name -> Object] /\ e.phys[n] = obj
      /\ \A m \in Name \ {n} : e.phys[m] = d.phys[m]
  BY <1>1, <1>8
<1> QED
  BY <1>5, <1>6, <1>7, <1>8, <1>9, RowMatched

LEMMA IndexMadePhys ==
  ASSUME NEW d, Good(d), Phys(d), NEW n \in Name, ~Taken(d, n), NEW t \in Name,
         NEW o \in Rows(d), d.rel[o].name = t, NEW c \in Column,
         NEW k \in DOMAIN d.rel[o].cols, Attnum(d, o, c, k), d.next + 1 <= MaxOid,
         NEW e, e = IndexMade(d, n, t, o, c, k)
  PROVE  Phys(e)
<1>1. /\ IsCatalog(d) /\ o \in Oid /\ d.rel[o] \in Relation /\ d.phys \in [Name -> Object]
      /\ d.next \notin Rows(d)
  BY GoodRows DEF Good, Phys
<1>2. PICK r : r = Row(n, "i", <<>>, o, k)
  OBVIOUS
<1>3. d.rel[o].cols \in Seq(Attribute) /\ k \in Nat
  BY <1>1 DEF Relation
<1>4. /\ r.name = n /\ r.kind = "i" /\ r.cols = <<>> /\ r.active /\ r.on = o /\ r.key = k
      /\ r \in Relation
  BY <1>1, <1>2, <1>3 DEF Row, Relation
<1>5. RowShaped(r)
  BY <1>4 DEF RowShaped, Live
<1>6. /\ e.rel = With(d.rel, d.next, r) /\ e.phys = d.phys /\ e.left = d.left
      /\ e.pindex = d.pindex \union {[name |-> n, on |-> t, col |-> c]}
  BY <1>1, <1>2 DEF IndexMade, IsCatalog
<1>7. e.rel[d.next] = r /\ e.rel[o] = d.rel[o]
  BY <1>1, <1>6 DEF With, Rows
<1>8. IndexEntry(e, d.next) = [name |-> n, on |-> t, col |-> c]
  BY <1>4, <1>7 DEF IndexEntry, Attnum
<1>9. e.phys \in [Name -> Object] /\ \A m \in Name \ {n} : e.phys[m] = d.phys[m]
  BY <1>1, <1>6
<1> QED
  BY <1>4, <1>5, <1>6, <1>8, <1>9, RowMatched

(* The object of an active row.                                            *)
LEMMA ObjectOf ==
  ASSUME NEW d, Good(d), Phys(d), NEW n, NEW o, IsActive(d, n, o), d.rel[o].kind # "i"
  PROVE  /\ o \in Rows(d) /\ d.rel[o] \in Relation /\ d.rel[o].name = n /\ n \in Name
         /\ d.rel[o].cols \in Seq(Attribute) /\ RowShaped(d.rel[o])
         /\ d.phys[n] \in Object /\ d.phys[n].kind = d.rel[o].kind
         /\ d.phys[n].cols = LiveColumns(d.rel[o].cols)
<1>1. o \in Rows(d) /\ d.rel[o] \in Relation /\ d.rel[o].name = n /\ n \in Name /\ d.rel[o].active
  BY GoodRows DEF IsActive
<1>2. HasObject(d, o) /\ RowShaped(d.rel[o]) /\ d.phys[n] \in Object
  BY <1>1 DEF Phys, Agrees, RowsHaveObjects, Shaped
<1> QED
  BY <1>1, <1>2 DEF HasObject, Relation

(* A row with other columns, and its object.                               *)
LEMMA WithColumns ==
  ASSUME NEW r \in Relation, NEW cols \in Seq(Attribute), NEW s, s = [r EXCEPT !.cols = cols]
  PROVE  /\ s \in Relation /\ s.name = r.name /\ s.kind = r.kind /\ s.active = r.active
         /\ s.on = r.on /\ s.key = r.key /\ s.cols = cols
BY DEF Relation

LEMMA WithObjectColumns ==
  ASSUME NEW phys \in [Name -> Object], NEW n \in Name, NEW cols \in Seq(Column),
         NEW new, new = [phys EXCEPT ![n].cols = cols]
  PROVE  /\ new \in [Name -> Object] /\ new[n].kind = phys[n].kind /\ new[n].cols = cols
         /\ new[n].from = phys[n].from
         /\ \A m \in Name \ {n} : new[m] = phys[m]
BY DEF Object

LEMMA ColumnAddedPhys ==
  ASSUME NEW d, Good(d), Phys(d), NEW n \in Name, NEW o, NEW c \in Column, d.next <= MaxOid,
         IsActive(d, n, o), d.rel[o].kind = "r", ~HasColumn(d, o, c),
         NEW e, e = ColumnAdded(d, n, o, c)
  PROVE  Phys(e)
<1>1. IsCatalog(d) /\ d.next \in Oid /\ d.phys \in [Name -> Object]
  BY MaxOidAssumption DEF Good, IsCatalog, Oid, Phys
<1>2. PICK a : a = NewColumn(c, d.next)
  OBVIOUS
<1>3. a \in Attribute /\ ~a.dropped /\ a.name = c
  BY <1>1, <1>2 DEF NewColumn, Attribute
<1>4. PICK cols : cols = d.rel[o].cols
  OBVIOUS
<1>5. /\ o \in Rows(d) /\ d.rel[o] \in Relation /\ d.rel[o].name = n /\ cols \in Seq(Attribute)
      /\ RowShaped(d.rel[o]) /\ d.phys[n].kind = "r" /\ d.phys[n].cols = LiveColumns(cols)
      /\ d.rel[o].active
  BY <1>4, ObjectOf DEF IsActive
<1>6. PICK more : more = Append(cols, a)
  OBVIOUS
<1>7. /\ more \in Seq(Attribute) /\ DOMAIN more = DOMAIN cols \union {Len(cols) + 1}
      /\ more[Len(cols) + 1] = a /\ \A k \in DOMAIN cols : more[k] = cols[k]
  BY <1>3, <1>5, <1>6
<1>8. PICK s : s = [d.rel[o] EXCEPT !.cols = more]
  OBVIOUS
<1>9. /\ s \in Relation /\ s.name = n /\ s.kind = "r" /\ s.active /\ s.cols = more
  BY <1>5, <1>7, <1>8, WithColumns
<1>10. /\ e.rel = [d.rel EXCEPT ![o] = s] /\ e.pindex = d.pindex /\ e.left = d.left
       /\ e.phys = [d.phys EXCEPT ![n].cols = Append(d.phys[n].cols, c)]
  BY <1>1, <1>2, <1>4, <1>6, <1>8 DEF ColumnAdded, IsCatalog
<1>11. LiveColumns(more) = Append(LiveColumns(cols), c) /\ LiveColumns(more) \in Seq(Column)
  BY <1>3, <1>5, <1>6, <1>7, LiveOfMore, LiveColumnsSeq
<1>12. RowShaped(s)
  <2>1. \A k \in Live(cols) : cols[k].name # c
    BY <1>4 DEF Live, HasColumn, Attnum
  <2>2. Live(more) = Live(cols) \union {Len(cols) + 1} /\ Len(cols) + 1 \notin Live(cols)
    BY <1>3, <1>5, <1>7 DEF Live
  <2>3. \A j, k \in Live(cols) : cols[j].name = cols[k].name => j = k
    BY <1>4, <1>5 DEF RowShaped
  <2>4. \A k \in Live(cols) : more[k] = cols[k]
    BY <1>7 DEF Live
  <2>5. \A j, k \in Live(more) : more[j].name = more[k].name => j = k
    BY <1>3, <1>7, <2>1, <2>2, <2>3, <2>4
  <2> QED
    BY <1>9, <2>5 DEF RowShaped
<1>13. ASSUME NEW i \in Rows(d), d.rel[i].kind = "i" /\ d.rel[i].on = o
       PROVE  s.cols[d.rel[i].key].name = d.rel[o].cols[d.rel[i].key].name
  BY <1>4, <1>7, <1>9, <1>13, GoodRows
<1>14. PICK live : live = LiveColumns(more)
  OBVIOUS
<1>15. live \in Seq(Column) /\ e.phys = [d.phys EXCEPT ![n].cols = live]
  BY <1>5, <1>10, <1>11, <1>14
<1>16. /\ e.phys \in [Name -> Object] /\ e.phys[n].kind = d.phys[n].kind /\ e.phys[n].cols = live
       /\ \A m \in Name \ {n} : e.phys[m] = d.phys[m]
  BY <1>1, <1>15, WithObjectColumns
<1>17. /\ d.rel[o].kind # "i" /\ s.kind = d.rel[o].kind /\ e.phys[n].kind = s.kind
       /\ e.phys[n].cols = LiveColumns(s.cols)
  BY <1>5, <1>9, <1>14, <1>16
<1>18. \A i \in Rows(d) : d.rel[i].kind = "i" /\ d.rel[i].on = o =>
         s.cols[d.rel[i].key].name = d.rel[o].cols[d.rel[i].key].name
  BY <1>13
<1>19. /\ Rows(e) = Rows(d) /\ e.rel[o] = s
      /\ \A p \in Rows(d) \ {o} : e.rel[p] = d.rel[p]
  BY <1>5, <1>10 DEF Rows
<1>r. Rematched(d, o, n, s, e)
  BY <1>5, <1>9, <1>10, <1>12, <1>16, <1>17, <1>18, <1>19 DEF Rematched
<1> QED
  BY <1>r, RowRematched

LEMMA ColumnDroppedPhys ==
  ASSUME NEW d, Good(d), Phys(d), NEW n \in Name, NEW o, NEW c \in Column,
         IsActive(d, n, o), d.rel[o].kind = "r",
         NEW k \in DOMAIN d.rel[o].cols, Attnum(d, o, c, k),
         \A i \in Rows(d) : d.rel[i].on = o => d.rel[i].key # k,
         NEW e, e = ColumnDropped(d, n, o, c, k)
  PROVE  Phys(e)
<1>1. IsCatalog(d) /\ d.phys \in [Name -> Object]
  BY DEF Good, Phys
<1>2. PICK cols : cols = d.rel[o].cols
  OBVIOUS
<1>3. /\ o \in Rows(d) /\ d.rel[o] \in Relation /\ d.rel[o].name = n /\ cols \in Seq(Attribute)
      /\ RowShaped(d.rel[o]) /\ d.phys[n].kind = "r" /\ d.phys[n].cols = LiveColumns(cols)
      /\ d.rel[o].active
  BY <1>2, ObjectOf DEF IsActive
<1>4. k \in Live(cols) /\ k \in DOMAIN cols /\ cols[k].name = c
  BY <1>2 DEF Attnum, Live
<1>5. PICK a : a = [cols[k] EXCEPT !.dropped = TRUE]
  OBVIOUS
<1>6. a \in Attribute /\ a.dropped
  <2>1. cols[k] \in Attribute
    BY <1>3, <1>4
  <2> QED
    BY <1>5, <2>1 DEF Attribute
<1>7. PICK less : less = [cols EXCEPT ![k] = a]
  OBVIOUS
<1>8. /\ less \in Seq(Attribute) /\ DOMAIN less = DOMAIN cols /\ less[k] = a
      /\ \A j \in DOMAIN cols : j # k => less[j] = cols[j]
  BY <1>3, <1>4, <1>6, <1>7, ColumnChanged
<1>9. PICK s : s = [d.rel[o] EXCEPT !.cols = less]
  OBVIOUS
<1>10. /\ s \in Relation /\ s.name = n /\ s.kind = "r" /\ s.active /\ s.cols = less
  BY <1>3, <1>8, <1>9, WithColumns
<1>11. /\ e.rel = [d.rel EXCEPT ![o] = s] /\ e.pindex = d.pindex /\ e.left = d.left
       /\ e.phys = [d.phys EXCEPT ![n].cols = Cut(d.phys[n].cols, c)]
  BY <1>1, <1>2, <1>5, <1>7, <1>9 DEF ColumnDropped, IsCatalog
<1>12. \A i, j \in Live(cols) : cols[i].name = cols[j].name => i = j
  BY <1>2, <1>3 DEF RowShaped
<1>13. LiveColumns(less) = Cut(LiveColumns(cols), c) /\ LiveColumns(less) \in Seq(Column)
  <2>1. \A j \in Live(cols) : cols[j].name = cols[k].name => j = k
    BY <1>4, <1>12
  <2>2. LiveColumns([cols EXCEPT ![k] = a]) = Cut(LiveColumns(cols), cols[k].name)
    BY <1>3, <1>4, <1>6, <2>1, LiveOfFewer
  <2> QED
    BY <1>4, <1>7, <1>8, <2>2, LiveColumnsSeq
<1>14. RowShaped(s)
  <2>1. Live(less) \subseteq Live(cols) /\ \A j \in Live(less) : less[j] = cols[j]
    BY <1>6, <1>8 DEF Live
  <2> QED
    BY <1>10, <1>12, <2>1 DEF RowShaped
<1>15. ASSUME NEW i \in Rows(d), d.rel[i].kind = "i" /\ d.rel[i].on = o
       PROVE  s.cols[d.rel[i].key].name = d.rel[o].cols[d.rel[i].key].name
  BY <1>2, <1>8, <1>10, <1>15, GoodRows
<1>16. PICK live : live = LiveColumns(less)
  OBVIOUS
<1>17. live \in Seq(Column) /\ e.phys = [d.phys EXCEPT ![n].cols = live]
  BY <1>3, <1>11, <1>13, <1>16
<1>18. /\ e.phys \in [Name -> Object] /\ e.phys[n].kind = d.phys[n].kind /\ e.phys[n].cols = live
       /\ \A m \in Name \ {n} : e.phys[m] = d.phys[m]
  BY <1>1, <1>17, WithObjectColumns
<1>19. /\ d.rel[o].kind # "i" /\ s.kind = d.rel[o].kind /\ e.phys[n].kind = s.kind
       /\ e.phys[n].cols = LiveColumns(s.cols)
  BY <1>3, <1>10, <1>16, <1>18
<1>20. \A i \in Rows(d) : d.rel[i].kind = "i" /\ d.rel[i].on = o =>
         s.cols[d.rel[i].key].name = d.rel[o].cols[d.rel[i].key].name
  BY <1>15
<1>21. /\ Rows(e) = Rows(d) /\ e.rel[o] = s
      /\ \A p \in Rows(d) \ {o} : e.rel[p] = d.rel[p]
  BY <1>3, <1>11 DEF Rows
<1>r. Rematched(d, o, n, s, e)
  BY <1>3, <1>10, <1>11, <1>14, <1>18, <1>19, <1>20, <1>21 DEF Rematched
<1> QED
  BY <1>r, RowRematched

LEMMA ColumnRenamedPhys ==
  ASSUME NEW d, Good(d), Phys(d), NEW n \in Name, NEW o, NEW c \in Column, NEW new \in Column,
         IsActive(d, n, o), d.rel[o].kind = "r", ~HasColumn(d, o, new), Dependents(d, o) = {},
         NEW k \in DOMAIN d.rel[o].cols, Attnum(d, o, c, k),
         NEW e, e = ColumnRenamed(d, n, o, k, c, new)
  PROVE  Phys(e)
<1>1. IsCatalog(d) /\ d.phys \in [Name -> Object]
  BY DEF Good, Phys
<1>2. PICK cols : cols = d.rel[o].cols
  OBVIOUS
<1>3. /\ o \in Rows(d) /\ d.rel[o] \in Relation /\ d.rel[o].name = n /\ cols \in Seq(Attribute)
      /\ RowShaped(d.rel[o]) /\ d.phys[n].kind = "r" /\ d.phys[n].cols = LiveColumns(cols)
      /\ d.rel[o].active
  BY <1>2, ObjectOf DEF IsActive
<1>4. k \in Live(cols) /\ k \in DOMAIN cols /\ cols[k].name = c /\ ~cols[k].dropped
  BY <1>2 DEF Attnum, Live
<1>5. PICK a : a = [cols[k] EXCEPT !.name = new]
  OBVIOUS
<1>6. a \in Attribute /\ ~a.dropped /\ a.name = new
  <2>1. cols[k] \in Attribute
    BY <1>3, <1>4
  <2> QED
    BY <1>4, <1>5, <2>1 DEF Attribute
<1>7. PICK other : other = [cols EXCEPT ![k] = a]
  OBVIOUS
<1>8. /\ other \in Seq(Attribute) /\ DOMAIN other = DOMAIN cols /\ other[k] = a
      /\ \A j \in DOMAIN cols : j # k => other[j] = cols[j]
  BY <1>3, <1>4, <1>6, <1>7, ColumnChanged
<1>9. PICK s : s = [d.rel[o] EXCEPT !.cols = other]
  OBVIOUS
<1>10. /\ s \in Relation /\ s.name = n /\ s.kind = "r" /\ s.active /\ s.cols = other
  BY <1>3, <1>8, <1>9, WithColumns
<1>11. PICK old : old = d.phys[n].cols
  OBVIOUS
<1>12. PICK made : made = [i \in DOMAIN old |-> IF old[i] = c THEN new ELSE old[i]]
  OBVIOUS
<1>13. /\ e.rel = [d.rel EXCEPT ![o] = s] /\ e.pindex = d.pindex /\ e.left = d.left
       /\ e.phys = [d.phys EXCEPT ![n].cols = made]
  BY <1>1, <1>2, <1>5, <1>7, <1>9, <1>11, <1>12 DEF ColumnRenamed, IsCatalog
<1>14. \A i, j \in Live(cols) : cols[i].name = cols[j].name => i = j
  BY <1>2, <1>3 DEF RowShaped
<1>15. LiveColumns(other) = made /\ LiveColumns(other) \in Seq(Column)
  <2>1. old = LiveColumns(cols)
    BY <1>3, <1>11
  <2>2. \A j \in Live(cols) : cols[j].name = cols[k].name => j = k
    BY <1>4, <1>14
  <2>3. LiveColumns([cols EXCEPT ![k] = a]) =
          [i \in DOMAIN old |-> IF old[i] = cols[k].name THEN a.name ELSE old[i]]
    BY <1>3, <1>4, <1>6, <2>1, <2>2, LiveOfRenamed
  <2> QED
    BY <1>4, <1>6, <1>7, <1>8, <1>12, <2>3, LiveColumnsSeq
<1>16. RowShaped(s)
  <2>1. \A j \in Live(cols) : cols[j].name # new
    BY <1>2 DEF Live, HasColumn, Attnum
  <2>2. Live(other) = Live(cols) /\ \A j \in Live(cols) : j # k => other[j] = cols[j]
    BY <1>4, <1>6, <1>8 DEF Live
  <2>3. \A i, j \in Live(other) : other[i].name = other[j].name => i = j
    BY <1>6, <1>8, <1>14, <2>1, <2>2
  <2> QED
    BY <1>10, <2>3 DEF RowShaped
<1>17. ASSUME NEW i \in Rows(d), d.rel[i].kind = "i" /\ d.rel[i].on = o
       PROVE  s.cols[d.rel[i].key].name = d.rel[o].cols[d.rel[i].key].name
  <2>1. <<i, o>> \in d.dep /\ i \in Oid
    BY <1>17, GoodRows
  <2> QED
    BY <2>1 DEF Dependents
<1>18. made \in Seq(Column)
  BY <1>15
<1>19. /\ e.phys \in [Name -> Object] /\ e.phys[n].kind = d.phys[n].kind /\ e.phys[n].cols = made
       /\ \A m \in Name \ {n} : e.phys[m] = d.phys[m]
  BY <1>1, <1>13, <1>18, WithObjectColumns
<1>20. /\ d.rel[o].kind # "i" /\ s.kind = d.rel[o].kind /\ e.phys[n].kind = s.kind
       /\ e.phys[n].cols = LiveColumns(s.cols)
  BY <1>3, <1>10, <1>15, <1>19
<1>21. \A i \in Rows(d) : d.rel[i].kind = "i" /\ d.rel[i].on = o =>
         s.cols[d.rel[i].key].name = d.rel[o].cols[d.rel[i].key].name
  BY <1>17
<1>22. /\ Rows(e) = Rows(d) /\ e.rel[o] = s
      /\ \A p \in Rows(d) \ {o} : e.rel[p] = d.rel[p]
  BY <1>3, <1>13 DEF Rows
<1>r. Rematched(d, o, n, s, e)
  BY <1>3, <1>10, <1>13, <1>16, <1>19, <1>20, <1>21, <1>22 DEF Rematched
<1> QED
  BY <1>r, RowRematched

LEMMA ViewReplacedPhys ==
  ASSUME NEW d, Good(d), Phys(d), NEW n \in Name, NEW o, NEW c \in Column, NEW f \in Name, NEW fo,
         IsActive(d, n, o), d.rel[o].kind = "v", d.next <= MaxOid,
         NEW e, e = ViewReplaced(d, n, o, c, f, fo)
  PROVE  Phys(e)
<1>1. IsCatalog(d) /\ d.next \in Oid /\ d.phys \in [Name -> Object]
  BY MaxOidAssumption DEF Good, IsCatalog, Oid, Phys
<1>2. PICK a : a = NewColumn(c, d.next)
  OBVIOUS
<1>3. a \in Attribute /\ ~a.dropped /\ a.name = c
  BY <1>1, <1>2 DEF NewColumn, Attribute
<1>4. /\ o \in Rows(d) /\ d.rel[o] \in Relation /\ d.rel[o].name = n
  BY ObjectOf
<1>5. PICK s : s = [[d.rel[o] EXCEPT !.cols = <<a>>] EXCEPT !.active = TRUE]
  OBVIOUS
<1>6. /\ s \in Relation /\ s.name = n /\ s.kind = "v" /\ s.active /\ s.cols = <<a>>
  <2>1. <<a>> \in Seq(Attribute)
    BY <1>3
  <2> QED
    BY <1>4, <1>5, <2>1 DEF Relation
<1>7. LiveColumns(s.cols) = <<c>>
  BY <1>3, <1>6, LiveOfOne
<1>8. RowShaped(s)
  BY <1>3, <1>6 DEF RowShaped, Live
<1>9. /\ e.rel = [d.rel EXCEPT ![o] = s] /\ e.pindex = d.pindex /\ e.left = d.left
      /\ e.phys = [d.phys EXCEPT ![n] = ViewOf(f, c)]
  BY <1>1, <1>2, <1>5 DEF ViewReplaced, IsCatalog
<1>10. ViewOf(f, c) \in Object /\ ViewOf(f, c).kind = "v" /\ ViewOf(f, c).cols = <<c>>
  <2>1. <<c>> \in Seq(Column)
    OBVIOUS
  <2> QED
    BY <2>1 DEF ViewOf, Object
<1>11. /\ e.phys \in [Name -> Object] /\ e.phys[n].kind = "v" /\ e.phys[n].cols = <<c>>
       /\ \A m \in Name \ {n} : e.phys[m] = d.phys[m]
  BY <1>1, <1>9, <1>10
<1>12. ASSUME NEW i \in Rows(d), d.rel[i].kind = "i" /\ d.rel[i].on = o PROVE FALSE
  BY <1>12, GoodRows
<1>13. d.rel[o].kind # "i" /\ s.kind = d.rel[o].kind
  BY <1>6
<1>14. \A i \in Rows(d) : d.rel[i].kind = "i" /\ d.rel[i].on = o =>
         s.cols[d.rel[i].key].name = d.rel[o].cols[d.rel[i].key].name
  BY <1>12
<1>15. /\ Rows(e) = Rows(d) /\ e.rel[o] = s
      /\ \A p \in Rows(d) \ {o} : e.rel[p] = d.rel[p]
  BY <1>4, <1>9 DEF Rows
<1>r. Rematched(d, o, n, s, e)
  BY <1>4, <1>6, <1>7, <1>8, <1>9, <1>11, <1>13, <1>14, <1>15 DEF Rematched
<1> QED
  BY <1>r, RowRematched

(* Rows and objects as they were.                                          *)
LEMMA SamePhys ==
  ASSUME NEW d, Phys(d), NEW e, e.rel = d.rel, e.phys = d.phys, e.pindex = d.pindex,
         e.left = d.left
  PROVE  Phys(e)
<1>1. Rows(e) = Rows(d)
  BY DEF Rows
<1>2. NamesUnique(e) /\ RowsHaveObjects(e) /\ Shaped(e)
  BY <1>1 DEF Phys, Agrees, NamesUnique, RowsHaveObjects, HasObject, IndexEntry, Shaped
<1>3. ObjectsHaveRows(e)
  BY <1>1 DEF Phys, Agrees, ObjectsHaveRows, IsActive
<1> QED
  BY <1>2, <1>3 DEF Phys, Agrees

LEMMA CommentedPhys ==
  ASSUME NEW d, Good(d), Phys(d), NEW o, NEW k, NEW text, NEW e, e = Commented(d, o, k, text)
  PROVE  Phys(e)
<1>1. e.rel = d.rel /\ e.phys = d.phys /\ e.pindex = d.pindex /\ e.left = d.left
  BY DEF Commented, Good, IsCatalog
<1> QED
  BY <1>1, SamePhys

(* The rows and objects a DROP leaves.                                     *)
Leaves(d, n, o, S, e) ==
  /\ Rows(e) = Rows(d) \ S /\ \A p \in Rows(e) : e.rel[p] = d.rel[p]
  /\ \A x : x \in e.dep <=> x \in d.dep /\ x[1] \notin S /\ x[2] \notin S
  /\ e.phys \in [Name -> Object] /\ \A m \in Name \ {n} : e.phys[m] = d.phys[m]
  /\ d.rel[o].kind = "i" => /\ e.phys = d.phys
                            /\ \A i : i \in e.pindex <=> i \in d.pindex /\ i.name # n
  /\ d.rel[o].kind # "i" => /\ e.phys[n] = Nothing
                            /\ \A i : i \in e.pindex <=> i \in d.pindex /\ i.on # n
  /\ d.left \subseteq e.left
  /\ \A x \in Dependents(d, o) \intersect Rows(d) : d.rel[x].kind = "v" => d.rel[x].name \in e.left

LEMMA DroppedFields ==
  ASSUME NEW d, Good(d), d.phys \in [Name -> Object], NEW n \in Name, NEW o \in Rows(d),
         NEW e, e = Dropped(d, n, o), NEW S, S = Dependents(d, o) \union {o}
  PROVE  Leaves(d, n, o, S, e)
<1>1. IsCatalog(d)
  BY DEF Good
<1>2. PICK rows : rows = RowsDeleted(d, S)
  OBVIOUS
<1>3. /\ Fields(rows) /\ rows.rel = Without(d.rel, S) /\ rows.phys = d.phys
      /\ rows.pindex = d.pindex /\ rows.left = d.left
      /\ rows.dep = {x \in d.dep : x[1] \notin S /\ x[2] \notin S}
  BY <1>1, <1>2 DEF RowsDeleted, IsCatalog, Fields
<1>4. PICK after : after = PhysicalDrop(rows, n, d.rel[o].kind)
  OBVIOUS
<1>5. /\ Fields(after) /\ after.rel = rows.rel /\ after.left = rows.left /\ after.dep = rows.dep
  BY <1>3, <1>4 DEF PhysicalDrop, Fields
<1>6. d.rel[o].kind = "i" => /\ after.phys = d.phys
                             /\ after.pindex = {i \in d.pindex : i.name # n}
  BY <1>3, <1>4 DEF PhysicalDrop, Fields
<1>7. d.rel[o].kind # "i" => /\ after.phys = [d.phys EXCEPT ![n] = Nothing]
                             /\ after.pindex = {i \in d.pindex : i.on # n}
  BY <1>3, <1>4 DEF PhysicalDrop, Fields
<1>8. /\ e.rel = after.rel /\ e.phys = after.phys /\ e.pindex = after.pindex /\ e.dep = after.dep
      /\ e.left = after.left \union {d.rel[x].name : x \in {y \in Dependents(d, o) \intersect Rows(d) :
                                                            d.rel[y].kind = "v"}}
  BY <1>2, <1>4, <1>5 DEF Dropped, Fields
<1>9. Rows(e) = Rows(d) \ S /\ \A p \in Rows(e) : e.rel[p] = d.rel[p]
  BY <1>3, <1>5, <1>8 DEF Without, Rows
<1>10. Nothing \in Object
  BY DEF Nothing, Object
<1>11. e.phys \in [Name -> Object] /\ \A m \in Name \ {n} : e.phys[m] = d.phys[m]
  BY <1>6, <1>7, <1>8, <1>10
<1>12. \A x : x \in e.dep <=> x \in d.dep /\ x[1] \notin S /\ x[2] \notin S
  BY <1>3, <1>5, <1>8
<1>13. d.left \subseteq e.left
  BY <1>3, <1>5, <1>8
<1>14. \A x \in Dependents(d, o) \intersect Rows(d) : d.rel[x].kind = "v" => d.rel[x].name \in e.left
  BY <1>8
<1>15. d.rel[o].kind = "i" => /\ e.phys = d.phys
                              /\ \A i : i \in e.pindex <=> i \in d.pindex /\ i.name # n
  BY <1>6, <1>8
<1>16. d.rel[o].kind # "i" => /\ e.phys[n] = Nothing
                              /\ \A i : i \in e.pindex <=> i \in d.pindex /\ i.on # n
  BY <1>7, <1>8
<1> QED
  BY <1>9, <1>11, <1>12, <1>13, <1>14, <1>15, <1>16 DEF Leaves

LEMMA DroppedPhys ==
  ASSUME NEW d, Good(d), Phys(d), NEW n \in Name, NEW o, IsActive(d, n, o),
         NEW e, e = Dropped(d, n, o)
  PROVE  Phys(e)
<1>1. PICK S : S = Dependents(d, o) \union {o}
  OBVIOUS
<1>2. o \in Rows(d) /\ d.rel[o].name = n /\ d.phys \in [Name -> Object]
  BY DEF IsActive, Phys
<1>l. Leaves(d, n, o, S, e)
  BY <1>1, <1>2, DroppedFields
<1>3. /\ Rows(e) = Rows(d) \ S /\ \A p \in Rows(e) : e.rel[p] = d.rel[p]
      /\ e.phys \in [Name -> Object] /\ \A m \in Name \ {n} : e.phys[m] = d.phys[m]
      /\ d.rel[o].kind = "i" => /\ e.phys = d.phys
                                /\ \A i : i \in e.pindex <=> i \in d.pindex /\ i.name # n
      /\ d.rel[o].kind # "i" => /\ e.phys[n] = Nothing
                                /\ \A i : i \in e.pindex <=> i \in d.pindex /\ i.on # n
      /\ d.left \subseteq e.left
      /\ \A x \in Dependents(d, o) \intersect Rows(d) : d.rel[x].kind = "v" => d.rel[x].name \in e.left
  BY <1>l DEF Leaves
<1>4. \A q \in Dependents(d, o) : /\ q \in Rows(d) /\ d.rel[q].kind \in {"v", "i"}
                                  /\ d.rel[q].kind = "i" => d.rel[q].on = o
  <2>1. NoDangling(d) /\ Indexed(d) /\ \A q \in Rows(d) : d.rel[q].kind \in {"r", "v", "i"}
    BY GoodRows DEF Good, Sound, Relation
  <2>2. ASSUME NEW q \in Dependents(d, o)
        PROVE  /\ q \in Rows(d) /\ d.rel[q].kind \in {"v", "i"}
               /\ d.rel[q].kind = "i" => d.rel[q].on = o
    <3>1. <<q, o>> \in d.dep
      BY DEF Dependents
    <3> QED
      BY <2>1, <3>1 DEF NoDangling, Indexed
  <2> QED
    BY <2>2
<1>5. ASSUME NEW i \in Rows(e), d.rel[i].kind = "i"
      PROVE  /\ d.rel[i].on \in Rows(e) /\ d.rel[d.rel[i].on].name # n /\ IndexEntry(e, i) = IndexEntry(d, i)
  <2>1. /\ i \in Rows(d) /\ d.rel[i].on \in Rows(d) /\ d.rel[d.rel[i].on].kind = "r"
        /\ <<i, d.rel[i].on>> \in d.dep /\ i \in Oid
    BY <1>3, <1>5, GoodRows
  <2>2. d.rel[i].on # o
    BY <1>1, <1>3, <2>1 DEF Dependents
  <2>3. d.rel[i].on \in Rows(e)
    BY <1>1, <1>3, <1>4, <2>1, <2>2
  <2>4. d.rel[d.rel[i].on].name # n
    BY <1>2, <2>1, <2>2 DEF Phys, Agrees, NamesUnique
  <2> QED
    BY <1>3, <2>3, <2>4 DEF IndexEntry
<1>6. NamesUnique(e)
  BY <1>3 DEF Phys, Agrees, NamesUnique
<1>7. ASSUME NEW p \in Rows(e), e.rel[p].active PROVE HasObject(e, p)
  <2>1. p \in Rows(d) /\ e.rel[p] = d.rel[p] /\ HasObject(d, p) /\ p # o
    BY <1>1, <1>3, <1>7 DEF Phys, Agrees, RowsHaveObjects
  <2>2. d.rel[p].name # n /\ d.rel[p].name \in Name
    BY <1>2, <2>1, GoodRows DEF Phys, Agrees, NamesUnique
  <2>3. CASE d.rel[p].kind = "i"
    <3>1. IndexEntry(d, p) \in d.pindex
      BY <2>1, <2>3 DEF HasObject
    <3>2. IndexEntry(d, p).name # n /\ IndexEntry(d, p).on # n
      BY <1>5, <2>2, <2>3 DEF IndexEntry
    <3>3. IndexEntry(d, p) \in e.pindex
      BY <1>3, <3>1, <3>2
    <3> QED
      BY <1>5, <2>1, <2>3, <3>3 DEF HasObject
  <2>4. CASE d.rel[p].kind # "i"
    <3>1. e.phys[d.rel[p].name] = d.phys[d.rel[p].name]
      BY <1>3, <2>2
    <3> QED
      BY <2>1, <2>4, <3>1 DEF HasObject
  <2> QED
    BY <2>3, <2>4
<1>8. ASSUME NEW m \in Name, e.phys[m].kind # "none"
      PROVE  \/ \E p \in Rows(e) : IsActive(e, m, p) /\ e.rel[p].kind = e.phys[m].kind
             \/ e.phys[m].kind = "v" /\ m \in e.left
  <2>1. e.phys[m] = d.phys[m] /\ (m = n => d.rel[o].kind = "i")
    BY <1>3, <1>8 DEF Nothing
  <2>2. CASE d.phys[m].kind = "v" /\ m \in d.left
    BY <1>3, <2>1, <2>2
  <2>3. CASE \E p \in Rows(d) : IsActive(d, m, p) /\ d.rel[p].kind = d.phys[m].kind
    <3>1. PICK p \in Rows(d) : IsActive(d, m, p) /\ d.rel[p].kind = d.phys[m].kind
      BY <2>3
    <3>2. d.rel[p].kind # "i"
      BY <3>1 DEF Phys, Object
    <3>3. CASE p \in Rows(e)
      BY <1>3, <2>1, <3>1, <3>3 DEF IsActive
    <3>4. CASE p = o
      BY <1>2, <2>1, <3>1, <3>2, <3>4 DEF IsActive
    <3>5. CASE p \in Dependents(d, o)
      <4>1. d.rel[p].kind = "v" /\ d.rel[p].name = m
        BY <1>4, <3>1, <3>2, <3>5 DEF IsActive
      <4> QED
        BY <1>3, <2>1, <3>1, <3>5, <4>1
    <3> QED
      BY <1>1, <1>3, <3>3, <3>4, <3>5
  <2> QED
    BY <1>8, <2>1, <2>2, <2>3 DEF Phys, Agrees, ObjectsHaveRows
<1>9. ASSUME NEW i \in e.pindex
      PROVE  \E p \in Rows(e) : /\ IsActive(e, i.name, p) /\ e.rel[p].kind = "i"
                                /\ i.on = e.rel[e.rel[p].on].name
  <2>1. i \in d.pindex
    BY <1>3
  <2>2. PICK p \in Rows(d) : IsActive(d, i.name, p) /\ d.rel[p].kind = "i" /\ i.on = d.rel[d.rel[p].on].name
    BY <2>1 DEF Phys, Agrees, ObjectsHaveRows
  <2>3. p # o
    BY <1>2, <1>3, <2>2 DEF IsActive
  <2>4. p \notin Dependents(d, o)
    <3> SUFFICES ASSUME p \in Dependents(d, o) PROVE FALSE
      OBVIOUS
    <3>1. d.rel[p].on = o /\ i.on = n
      BY <1>2, <1>4, <2>2
    <3>2. d.rel[o].kind = "r"
      BY <2>2, <3>1, GoodRows
    <3> QED
      BY <1>3, <3>1, <3>2
  <2>5. p \in Rows(e)
    BY <1>1, <1>3, <2>3, <2>4
  <2> QED
    BY <1>3, <1>5, <2>2, <2>5 DEF IsActive
<1>10. Shaped(e)
  BY <1>3 DEF Phys, Shaped
<1> QED
  BY <1>3, <1>6, <1>7, <1>8, <1>9, <1>10 DEF Phys, Agrees, RowsHaveObjects, ObjectsHaveRows

(* The SQL a snapshot takes of the views.                                  *)
LEMMA ViewTaken ==
  ASSUME NEW d, Good(d), Phys(d), NEW v
  PROVE  v \in ViewsOf(d) <=>
           \E o \in Rows(d) : /\ ActiveView(d, o)
                              /\ v = [oid |-> o, name |-> d.rel[o].name,
                                      from |-> d.phys[d.rel[o].name].from,
                                      col |-> d.phys[d.rel[o].name].cols[1]]
BY DEF ViewsOf

LEMMA ViewColumn ==
  ASSUME NEW d, Good(d), Phys(d), NEW o, ActiveView(d, o)
  PROVE  /\ o \in Rows(d) /\ d.rel[o].name \in Name /\ d.phys[d.rel[o].name].kind = "v"
         /\ d.phys[d.rel[o].name].cols[1] \in Column
         /\ d.phys[d.rel[o].name].cols = <<d.phys[d.rel[o].name].cols[1]>>
         /\ d.phys[d.rel[o].name].from \in Name \union {NoName}
         /\ LiveColumns(d.rel[o].cols) = <<d.phys[d.rel[o].name].cols[1]>>
<1>1. PICK n : n = d.rel[o].name
  OBVIOUS
<1>2. IsActive(d, n, o) /\ d.rel[o].kind = "v"
  BY <1>1 DEF ActiveView, IsActive
<1>3. /\ o \in Rows(d) /\ n \in Name /\ d.rel[o].cols \in Seq(Attribute) /\ RowShaped(d.rel[o])
      /\ d.phys[n] \in Object /\ d.phys[n].kind = "v" /\ d.phys[n].cols = LiveColumns(d.rel[o].cols)
  BY <1>2, ObjectOf
<1>4. PICK a : a = d.rel[o].cols[1]
  OBVIOUS
<1>5. d.rel[o].cols = <<a>> /\ a \in Attribute /\ ~a.dropped
  BY <1>2, <1>3, <1>4 DEF RowShaped
<1>6. LiveColumns(d.rel[o].cols) = <<a.name>> /\ a.name \in Column
  BY <1>5, LiveOfOne DEF Attribute
<1> QED
  BY <1>1, <1>3, <1>6 DEF Object

(* What a restart has of a snapshot.                                       *)
Reopened(s, missing, e) ==
  /\ Rows(e) = Rows(s.db)
  /\ \A o \in Rows(s.db) : /\ e.rel[o].name = s.db.rel[o].name /\ e.rel[o].kind = s.db.rel[o].kind
                           /\ e.rel[o].cols = s.db.rel[o].cols /\ e.rel[o].on = s.db.rel[o].on
                           /\ e.rel[o].key = s.db.rel[o].key
                           /\ e.rel[o].active <=> s.db.rel[o].active /\ o \notin Unavailable(s, missing)
  /\ \A n \in Name, o \in TableRows(s.db) \ missing : s.db.rel[o].name = n =>
       e.phys[n] = [kind |-> "r", cols |-> LiveColumns(s.db.rel[o].cols), from |-> NoName]
  /\ \A n \in Name, v \in s.views :
       v.name = n /\ (\A o \in TableRows(s.db) \ missing : s.db.rel[o].name # n) =>
         e.phys[n] = ViewOf(v.from, v.col)
  /\ \A n \in Name :
       \/ \E o \in TableRows(s.db) \ missing : s.db.rel[o].name = n
       \/ \E v \in s.views : v.name = n
       \/ e.phys[n] = Nothing
  /\ \A i : i \in e.pindex <=> \E x \in Rows(s.db) : /\ s.db.rel[x].kind = "i" /\ e.rel[x].active
                                                     /\ i = IndexEntry(s.db, x)
  /\ e.dep = s.db.dep /\ e.suspect = s.db.suspect

LEMMA RestoredFields ==
  ASSUME NEW s, Good(s.db), Phys(s.db), s.views = ViewsOf(s.db), NEW missing,
         NEW e, e = Restored(s, missing)
  PROVE  Reopened(s, missing, e)
<1>1. PICK d : d = s.db
  OBVIOUS
<1>2. IsCatalog(d) /\ Good(d) /\ Phys(d) /\ s.views = ViewsOf(d)
  BY <1>1 DEF Good
<1>3. PICK off : off = Unavailable(s, missing)
  OBVIOUS
<1>4. PICK rel : rel = [o \in Rows(d) |-> IF o \in off THEN [d.rel[o] EXCEPT !.active = FALSE]
                                          ELSE d.rel[o]]
  OBVIOUS
<1> DEFINE tables == {o \in TableRows(d) : o \notin missing}
           Table(n) == {o \in tables : d.rel[o].name = n}
           View(n) == {v \in s.views : v.name = n}
           At(n) == IF Table(n) # {}
                    THEN [Nothing EXCEPT !.kind = "r",
                            !.cols = LiveColumns(d.rel[CHOOSE o \in Table(n) : TRUE].cols)]
                    ELSE IF View(n) # {}
                    THEN LET v == CHOOSE v \in View(n) : TRUE IN ViewOf(v.from, v.col)
                    ELSE Nothing
<1>5. /\ e.rel = rel /\ e.phys = [n \in Name |-> At(n)] /\ e.dep = d.dep /\ e.suspect = d.suspect
      /\ e.pindex = {IndexEntry(d, i) : i \in {x \in Rows(d) : d.rel[x].kind = "i" /\ rel[x].active}}
  BY <1>1, <1>2, <1>3, <1>4 DEF Restored, IsCatalog
<1>6. \A o, p \in Rows(d) : d.rel[o].name = d.rel[p].name => o = p
  BY <1>2 DEF Phys, Agrees, NamesUnique
<1>7. \A n : \A o \in Table(n) : Table(n) = {o} /\ (CHOOSE x \in Table(n) : TRUE) = o
  BY <1>6 DEF TableRows
<1>8. ASSUME NEW n, NEW v \in View(n), NEW w \in View(n) PROVE v = w
  <2>1. PICK o \in Rows(d) : v = [oid |-> o, name |-> d.rel[o].name,
                                   from |-> d.phys[d.rel[o].name].from,
                                   col |-> d.phys[d.rel[o].name].cols[1]]
    BY <1>2, ViewTaken
  <2>2. PICK p \in Rows(d) : w = [oid |-> p, name |-> d.rel[p].name,
                                   from |-> d.phys[d.rel[p].name].from,
                                   col |-> d.phys[d.rel[p].name].cols[1]]
    BY <1>2, ViewTaken
  <2>3. d.rel[o].name = n /\ d.rel[p].name = n
    BY <2>1, <2>2
  <2> QED
    BY <1>6, <2>1, <2>2, <2>3
<1>9. \A n \in Name : e.phys[n] = At(n)
  BY <1>5
<1>10. ASSUME NEW n \in Name, NEW o \in TableRows(d) \ missing, d.rel[o].name = n
       PROVE  e.phys[n] = [kind |-> "r", cols |-> LiveColumns(d.rel[o].cols), from |-> NoName]
  <2>1. o \in Table(n)
    BY <1>10
  <2>2. Table(n) # {} /\ (CHOOSE x \in Table(n) : TRUE) = o
    BY <1>7, <2>1
  <2>3. At(n) = [Nothing EXCEPT !.kind = "r", !.cols = LiveColumns(d.rel[o].cols)]
    BY <2>2
  <2> QED
    BY <1>9, <2>3 DEF Nothing
<1>11. ASSUME NEW n \in Name, NEW v \in s.views, v.name = n,
              \A o \in TableRows(d) \ missing : d.rel[o].name # n
       PROVE  e.phys[n] = ViewOf(v.from, v.col)
  <2>1. v \in View(n) /\ Table(n) = {}
    BY <1>11
  <2>2. (CHOOSE w \in View(n) : TRUE) = v
    BY <1>8, <2>1
  <2>3. At(n) = ViewOf(v.from, v.col)
    BY <2>1, <2>2
  <2> QED
    BY <1>9, <2>3
<1>12. ASSUME NEW n \in Name
       PROVE  \/ \E o \in TableRows(d) \ missing : d.rel[o].name = n
              \/ \E v \in s.views : v.name = n
              \/ e.phys[n] = Nothing
  BY <1>9
<1>13. Rows(e) = Rows(d) /\ e.rel = rel
  BY <1>4, <1>5 DEF Rows
<1> HIDE DEF tables, Table, View, At
<1>14. ASSUME NEW o \in Rows(d)
       PROVE  /\ e.rel[o].name = d.rel[o].name /\ e.rel[o].kind = d.rel[o].kind
              /\ e.rel[o].cols = d.rel[o].cols /\ e.rel[o].on = d.rel[o].on
              /\ e.rel[o].key = d.rel[o].key
              /\ e.rel[o].active <=> d.rel[o].active /\ o \notin off
  <2>1. d.rel[o] \in Relation
    BY <1>2, GoodRows
  <2>2. CASE o \in off
    <3>1. e.rel[o] = [d.rel[o] EXCEPT !.active = FALSE]
      BY <1>4, <1>13, <2>2
    <3> QED
      BY <2>1, <2>2, <3>1 DEF Relation
  <2>3. CASE o \notin off
    <3>1. e.rel[o] = d.rel[o]
      BY <1>4, <1>13, <2>3
    <3> QED
      BY <2>1, <2>3, <3>1
  <2> QED
    BY <2>2, <2>3
<1>15. \A i : i \in e.pindex <=> \E x \in Rows(d) : /\ d.rel[x].kind = "i" /\ e.rel[x].active
                                                    /\ i = IndexEntry(d, x)
  BY <1>5, <1>13
<1> QED
  BY <1>1, <1>3, <1>5, <1>10, <1>11, <1>12, <1>13, <1>14, <1>15 DEF Reopened

LEMMA RestoredPhys ==
  ASSUME NEW s, Good(s.db), Phys(s.db), s.views = ViewsOf(s.db),
         NEW missing, missing \subseteq TableRows(s.db),
         NEW e, e = Restored(s, missing)
  PROVE  Phys(e)
<1>1. PICK d : d = s.db
  OBVIOUS
<1>2. Good(d) /\ Phys(d) /\ s.views = ViewsOf(d) /\ missing \subseteq TableRows(d)
  BY <1>1
<1>3. PICK off : off = Unavailable(s, missing)
  OBVIOUS
<1>4. Reopened(s, missing, e)
  BY RestoredFields
<1>5. /\ Rows(e) = Rows(d)
      /\ \A o \in Rows(d) : /\ e.rel[o].name = d.rel[o].name /\ e.rel[o].kind = d.rel[o].kind
                            /\ e.rel[o].cols = d.rel[o].cols /\ e.rel[o].on = d.rel[o].on
                            /\ e.rel[o].key = d.rel[o].key
                            /\ e.rel[o].active <=> d.rel[o].active /\ o \notin off
  BY <1>1, <1>3, <1>4 DEF Reopened
<1>6. \A o \in Rows(d) :
        o \in off <=> (o \in missing \/ (d.rel[o].kind = "i" /\ d.rel[o].on \in missing))
  BY <1>1, <1>3 DEF Unavailable
<1>7. \A o \in missing : o \in Rows(d) /\ d.rel[o].kind = "r"
  BY <1>2 DEF TableRows
<1>8. \A n \in Name, o \in TableRows(d) \ missing : d.rel[o].name = n =>
        e.phys[n] = [kind |-> "r", cols |-> LiveColumns(d.rel[o].cols), from |-> NoName]
  BY <1>1, <1>4 DEF Reopened
<1>9. \A n \in Name, v \in s.views :
       v.name = n /\ (\A o \in TableRows(d) \ missing : d.rel[o].name # n) =>
         e.phys[n] = ViewOf(v.from, v.col)
  BY <1>1, <1>4 DEF Reopened
<1>10. \A n \in Name :
       \/ \E o \in TableRows(d) \ missing : d.rel[o].name = n
       \/ \E v \in s.views : v.name = n
       \/ e.phys[n] = Nothing
  BY <1>1, <1>4 DEF Reopened
<1>11. \A i : i \in e.pindex <=> \E x \in Rows(d) : /\ d.rel[x].kind = "i" /\ e.rel[x].active
                                                    /\ i = IndexEntry(d, x)
  BY <1>1, <1>4 DEF Reopened
<1>12. \A o, p \in Rows(d) : d.rel[o].name = d.rel[p].name => o = p
  BY <1>2 DEF Phys, Agrees, NamesUnique
<1>13. ASSUME NEW o \in TableRows(d) \ missing
       PROVE  LET obj == e.phys[d.rel[o].name]
              IN  /\ o \in Rows(d) /\ e.rel[o].active /\ e.rel[o].kind = "r" /\ d.rel[o].name \in Name
                  /\ obj.kind = "r" /\ obj.cols = LiveColumns(d.rel[o].cols) /\ obj \in Object
  <2>1. o \in Rows(d) /\ d.rel[o].active /\ d.rel[o].kind = "r"
    BY DEF TableRows
  <2>2. d.rel[o].name \in Name /\ d.rel[o].cols \in Seq(Attribute)
    BY <1>2, <2>1, GoodRows DEF Relation
  <2>3. LiveColumns(d.rel[o].cols) \in Seq(Column)
    BY <2>2, LiveColumnsSeq
  <2>4. e.phys[d.rel[o].name] = [kind |-> "r", cols |-> LiveColumns(d.rel[o].cols), from |-> NoName]
    BY <1>8, <2>2
  <2>5. e.rel[o].active /\ e.rel[o].kind = "r"
    BY <1>5, <1>6, <2>1
  <2> QED
    BY <2>1, <2>2, <2>3, <2>4, <2>5 DEF Object
<1>14. ASSUME NEW o \in Rows(d), ActiveView(d, o)
       PROVE  LET obj == e.phys[d.rel[o].name]
              IN  /\ e.rel[o].active /\ e.rel[o].kind = "v" /\ d.rel[o].name \in Name
                  /\ obj.kind = "v" /\ obj.cols = LiveColumns(d.rel[o].cols) /\ obj \in Object
  <2>1. PICK n, from, col : n = d.rel[o].name /\ from = d.phys[n].from /\ col = d.phys[n].cols[1]
    OBVIOUS
  <2>2. /\ n \in Name /\ col \in Column /\ from \in Name \union {NoName}
        /\ LiveColumns(d.rel[o].cols) = <<col>>
    BY <1>2, <1>14, <2>1, ViewColumn
  <2>3. PICK v : v = [oid |-> o, name |-> n, from |-> from, col |-> col]
    OBVIOUS
  <2>4. v \in s.views
    BY <1>2, <1>14, <2>1, <2>3, ViewTaken
  <2>5. d.rel[o].kind = "v" /\ d.rel[o].active
    BY <1>14 DEF ActiveView
  <2>6. \A p \in TableRows(d) \ missing : d.rel[p].name # n
    BY <1>12, <2>1, <2>5 DEF TableRows
  <2>7. e.phys[n] = ViewOf(from, col)
    BY <1>9, <2>2, <2>3, <2>4, <2>6
  <2>8. e.rel[o].active /\ e.rel[o].kind = "v"
    BY <1>5, <1>6, <1>7, <2>5
  <2>9. <<col>> \in Seq(Column)
    BY <2>2
  <2> QED
    BY <2>1, <2>2, <2>7, <2>8, <2>9 DEF ViewOf, Object
<1>15. ASSUME NEW v \in s.views
       PROVE  \E o \in Rows(d) : ActiveView(d, o) /\ v.name = d.rel[o].name
  BY <1>2, ViewTaken
<1>16. ASSUME NEW n \in Name
       PROVE  \/ \E o \in TableRows(d) \ missing : d.rel[o].name = n
              \/ \E o \in Rows(d) : ActiveView(d, o) /\ d.rel[o].name = n
              \/ e.phys[n] = Nothing
  BY <1>10, <1>15
<1>17. e.phys \in [Name -> Object]
  <2>1. e.phys = [n \in Name |-> e.phys[n]]
    BY <1>1, <1>2 DEF Restored, Good, IsCatalog
  <2>2. Nothing \in Object
    BY DEF Nothing, Object
  <2>3. \A n \in Name : e.phys[n] \in Object
    BY <1>13, <1>14, <1>16, <2>2
  <2> QED
    BY <2>1, <2>3
<1>18. ASSUME NEW i \in Rows(d), d.rel[i].kind = "i"
       PROVE  /\ IndexEntry(e, i) = IndexEntry(d, i)
              /\ e.rel[e.rel[i].on].name = IndexEntry(d, i).on /\ IndexEntry(d, i).name = d.rel[i].name
  <2>1. d.rel[i].on \in Rows(d)
    BY <1>2, <1>18, GoodRows
  <2> QED
    BY <1>5, <2>1 DEF IndexEntry
<1>19. NamesUnique(e)
  BY <1>5, <1>12 DEF NamesUnique
<1>20. ASSUME NEW o \in Rows(e), e.rel[o].active PROVE HasObject(e, o)
  <2>1. o \in Rows(d) /\ d.rel[o].active /\ o \notin off /\ d.rel[o].kind \in {"r", "v", "i"}
    BY <1>2, <1>5, <1>20, GoodRows DEF Relation
  <2>2. CASE d.rel[o].kind = "r"
    <3>1. o \in TableRows(d) \ missing
      BY <1>6, <2>1, <2>2 DEF TableRows
    <3> QED
      BY <1>5, <1>13, <3>1 DEF HasObject
  <2>3. CASE d.rel[o].kind = "v"
    <3>1. ActiveView(d, o)
      BY <2>1, <2>3 DEF ActiveView
    <3> QED
      BY <1>5, <1>14, <2>1, <3>1 DEF HasObject
  <2>4. CASE d.rel[o].kind = "i"
    <3>1. IndexEntry(d, o) \in e.pindex
      BY <1>11, <1>20, <2>1, <2>4
    <3> QED
      BY <1>5, <1>18, <2>1, <2>4, <3>1 DEF HasObject
  <2> QED
    BY <2>1, <2>2, <2>3, <2>4
<1>21. ASSUME NEW n \in Name, e.phys[n].kind # "none"
       PROVE  \E o \in Rows(e) : IsActive(e, n, o) /\ e.rel[o].kind = e.phys[n].kind
  <2>1. CASE \E o \in TableRows(d) \ missing : d.rel[o].name = n
    BY <1>5, <1>13, <2>1 DEF IsActive
  <2>2. CASE \E o \in Rows(d) : ActiveView(d, o) /\ d.rel[o].name = n
    BY <1>5, <1>14, <2>2 DEF IsActive
  <2> QED
    BY <1>16, <1>21, <2>1, <2>2 DEF Nothing
<1>22. ASSUME NEW i \in e.pindex
       PROVE  \E o \in Rows(e) : /\ IsActive(e, i.name, o) /\ e.rel[o].kind = "i"
                                 /\ i.on = e.rel[e.rel[o].on].name
  <2>1. PICK x \in Rows(d) : d.rel[x].kind = "i" /\ e.rel[x].active /\ i = IndexEntry(d, x)
    BY <1>11
  <2> QED
    BY <1>5, <1>18, <2>1 DEF IsActive
<1>23. Shaped(e)
  BY <1>2, <1>5 DEF Phys, Shaped, RowShaped
<1> QED
  BY <1>17, <1>19, <1>20, <1>21, <1>22, <1>23 DEF Phys, Agrees, RowsHaveObjects, ObjectsHaveRows

-----------------------------------------------------------------------------
(* What a view reads, relation f, is protected from going before view o.   *)
Reads(d, o, f) ==
  LET v == d.phys[d.rel[o].name]
  IN  /\ IsActive(d, v.from, f)
      /\ <<o, f>> \in d.dep
      /\ HasColumn(d, f, v.cols[1])
      /\ d.rel[f].kind = "r" \/ f < o

LEMMA ProtectedReads ==
  ASSUME NEW d
  PROVE  Protected(d) <=> \A o \in Rows(d) : ActiveView(d, o) /\ o \notin d.suspect =>
                            \E f : Reads(d, o, f)
BY DEF Protected, Reads, IsActive

(* No view reads an index.                                                 *)
LEMMA ReadKind ==
  ASSUME NEW d, Good(d), Phys(d), NEW o, NEW f, Reads(d, o, f)
  PROVE  f \in Rows(d) /\ d.rel[f].active /\ d.rel[f].kind \in {"r", "v"} /\ <<o, f>> \in d.dep
<1>1. f \in Rows(d) /\ d.rel[f].active /\ DOMAIN d.rel[f].cols # {}
  BY DEF Reads, IsActive, HasColumn
<1>2. d.rel[f].kind # "i"
  BY <1>1 DEF Phys, Shaped, RowShaped
<1>3. d.rel[f].kind \in {"r", "v", "i"}
  BY <1>1, GoodRows DEF Relation
<1> QED
  BY <1>1, <1>2, <1>3 DEF Reads

(* View o goes on to read f while both keep their names, the dependency    *)
(* row stays, and f its column.                                            *)
Still(d, e, o, f) ==
  /\ e.rel[o].name = d.rel[o].name
  /\ e.phys[d.rel[o].name] = d.phys[d.rel[o].name]
  /\ <<o, f>> \in e.dep
  /\ f \in Rows(e) /\ e.rel[f].name = d.rel[f].name /\ e.rel[f].kind = d.rel[f].kind
  /\ e.rel[f].active

LEMMA ReadsStay ==
  ASSUME NEW d, NEW e, NEW o, NEW f, Reads(d, o, f), Still(d, e, o, f),
         HasColumn(e, f, d.phys[d.rel[o].name].cols[1])
  PROVE  Reads(e, o, f)
BY DEF Reads, Still, IsActive

(* A new row, and what was there before it.                                *)
Grown(d, e) ==
  /\ Rows(e) = Rows(d) \union {d.next} /\ d.next \notin Rows(d)
  /\ \A o \in Rows(d) : /\ e.rel[o] = d.rel[o]
                        /\ e.phys[d.rel[o].name] = d.phys[d.rel[o].name]
  /\ d.dep \subseteq e.dep
  /\ d.suspect \subseteq e.suspect

LEMMA GrownProtected ==
  ASSUME NEW d, Good(d), Phys(d), Protected(d), NEW e, Grown(d, e),
         ActiveView(e, d.next) /\ d.next \notin e.suspect => \E f : Reads(e, d.next, f)
  PROVE  Protected(e)
<1> SUFFICES ASSUME NEW o \in Rows(e), ActiveView(e, o), o \notin e.suspect
             PROVE  \E f : Reads(e, o, f)
  BY ProtectedReads
<1>1. CASE o = d.next
  BY <1>1
<1>2. CASE o \in Rows(d)
  <2>1. e.rel[o] = d.rel[o] /\ e.phys[d.rel[o].name] = d.phys[d.rel[o].name] /\ o \notin d.suspect
    BY <1>2 DEF Grown
  <2>2. ActiveView(d, o)
    BY <1>2, <2>1 DEF ActiveView
  <2>3. PICK f : Reads(d, o, f)
    BY <1>2, <2>1, <2>2, ProtectedReads
  <2>4. f \in Rows(d) /\ d.rel[f].active /\ <<o, f>> \in d.dep
    BY <2>3, ReadKind
  <2>5. f \in Rows(e) /\ e.rel[f] = d.rel[f] /\ <<o, f>> \in e.dep
    BY <2>4 DEF Grown
  <2>6. Still(d, e, o, f) /\ HasColumn(e, f, d.phys[d.rel[o].name].cols[1])
    BY <2>1, <2>3, <2>4, <2>5 DEF Still, Reads, HasColumn, Attnum
  <2> QED
    BY <2>3, <2>6, ReadsStay
<1> QED
  BY <1>1, <1>2 DEF Grown

LEMMA TableMadeProtected ==
  ASSUME NEW d, Good(d), Phys(d), Protected(d), NEW n \in Name, NEW c \in Column, CanMakeTable(d, n),
         NEW e, e = TableMade(d, n, c)
  PROVE  Protected(e)
<1>1. PICK r : r = Row(n, "r", <<NewColumn(c, d.next + 1)>>, 0, 0)
  OBVIOUS
<1>2. PICK obj : obj = [Nothing EXCEPT !.kind = "r", !.cols = <<c>>]
  OBVIOUS
<1>3. IsCatalog(d) /\ d.phys \in [Name -> Object]
  BY DEF Good, Phys
<1>4. /\ e.rel = With(d.rel, d.next, r) /\ e.phys = [d.phys EXCEPT ![n] = obj]
      /\ e.dep = d.dep /\ e.suspect = d.suspect
  BY <1>1, <1>2, <1>3 DEF TableMade, IsCatalog
<1>5. \A o \in Rows(d) : d.rel[o].name # n /\ d.rel[o].name \in Name
  BY GoodRows DEF CanMakeTable, Taken
<1>6. d.next \notin Rows(d)
  BY GoodRows
<1>7. /\ Rows(e) = Rows(d) \union {d.next} /\ e.rel[d.next] = r
      /\ \A o \in Rows(d) : e.rel[o] = d.rel[o]
  BY <1>4, <1>6 DEF With, Rows
<1>8. Grown(d, e)
  BY <1>3, <1>4, <1>5, <1>6, <1>7 DEF Grown
<1>9. ~ActiveView(e, d.next)
  BY <1>1, <1>7 DEF ActiveView, Row
<1> QED
  BY <1>8, <1>9, GrownProtected

LEMMA IndexMadeProtected ==
  ASSUME NEW d, Good(d), Phys(d), Protected(d), NEW n \in Name, NEW t \in Name, NEW o, NEW c, NEW k,
         NEW e, e = IndexMade(d, n, t, o, c, k)
  PROVE  Protected(e)
<1>1. PICK r : r = Row(n, "i", <<>>, o, k)
  OBVIOUS
<1>2. IsCatalog(d)
  BY DEF Good
<1>3. /\ e.rel = With(d.rel, d.next, r) /\ e.phys = d.phys
      /\ e.dep = d.dep \union {<<d.next, o>>} /\ e.suspect = d.suspect
  BY <1>1, <1>2 DEF IndexMade, IsCatalog
<1>4. d.next \notin Rows(d)
  BY GoodRows
<1>5. /\ Rows(e) = Rows(d) \union {d.next} /\ e.rel[d.next] = r
      /\ \A p \in Rows(d) : e.rel[p] = d.rel[p]
  BY <1>3, <1>4 DEF With, Rows
<1>6. Grown(d, e)
  BY <1>3, <1>4, <1>5 DEF Grown
<1>7. ~ActiveView(e, d.next)
  BY <1>1, <1>5 DEF ActiveView, Row
<1> QED
  BY <1>6, <1>7, GrownProtected

(* What CREATE VIEW may read has the column it reads.                      *)
LEMMA ReadableColumn ==
  ASSUME NEW d, Good(d), Phys(d), NEW f \in Name, NEW fo, IsActive(d, f, fo), d.rel[fo].kind # "i",
         NEW c \in Column, CanReadView(d, f, c)
  PROVE  HasColumn(d, fo, c)
<1>1. d.rel[fo].cols \in Seq(Attribute) /\ d.phys[f].cols = LiveColumns(d.rel[fo].cols)
  BY ObjectOf
<1>2. Has(LiveColumns(d.rel[fo].cols), c)
  BY <1>1 DEF CanReadView
<1>3. \E k \in Live(d.rel[fo].cols) : d.rel[fo].cols[k].name = c
  BY <1>1, <1>2, LiveColumnsHave
<1> QED
  BY <1>3 DEF HasColumn, Attnum, Live

LEMMA ViewMadeProtected ==
  ASSUME NEW d, Good(d), Phys(d), Protected(d), NEW n \in Name, NEW c \in Column, NEW f \in Name,
         NEW k \in Column, NEW fo \in Rows(d), ~Taken(d, n), d.next + 1 <= MaxOid,
         IsActive(d, f, fo), d.rel[fo].kind # "i", CanReadView(d, f, c),
         NEW obj, d.phys[n].kind = "v" \/ obj = ViewOf(f, c), obj.cols = <<k>>,
         NEW e, e = ViewMade(d, n, obj, k, fo)
  PROVE  Protected(e)
<1>1. PICK r : r = Row(n, "v", <<NewColumn(k, d.next + 1)>>, 0, 0)
  OBVIOUS
<1>2. IsCatalog(d) /\ d.phys \in [Name -> Object]
  BY DEF Good, Phys
<1>3. /\ e.rel = With(d.rel, d.next, r) /\ e.phys = [d.phys EXCEPT ![n] = obj]
      /\ e.dep = d.dep \union {<<d.next, fo>>}
      /\ d.suspect \subseteq e.suspect
      /\ d.phys[n].kind = "v" => d.next \in e.suspect
  BY <1>1, <1>2 DEF ViewMade, IsCatalog
<1>4. \A o \in Rows(d) : d.rel[o].name # n /\ d.rel[o].name \in Name
  BY GoodRows DEF Taken
<1>5. d.next \notin Rows(d) /\ fo < d.next
  BY GoodRows DEF Good, Sound, Indexed
<1>6. /\ Rows(e) = Rows(d) \union {d.next} /\ e.rel[d.next] = r
      /\ \A o \in Rows(d) : e.rel[o] = d.rel[o]
  BY <1>3, <1>5 DEF With, Rows
<1>7. Grown(d, e)
  BY <1>2, <1>3, <1>4, <1>5, <1>6 DEF Grown
<1>8. ASSUME d.next \notin e.suspect PROVE Reads(e, d.next, fo)
  <2>1. obj = ViewOf(f, c)
    BY <1>3, <1>8
  <2>2. e.rel[d.next].name = n /\ e.phys[n].from = f /\ e.phys[n].cols[1] = c
    <3>1. e.rel[d.next].name = n
      BY <1>1, <1>6 DEF Row
    <3>2. e.phys[n] = [kind |-> "v", cols |-> <<c>>, from |-> f]
      BY <1>2, <1>3, <2>1 DEF ViewOf
    <3> QED
      BY <3>1, <3>2
  <2>3. HasColumn(d, fo, c)
    BY ReadableColumn
  <2>4. HasColumn(e, fo, c) /\ IsActive(e, f, fo)
    BY <1>6, <2>3 DEF HasColumn, Attnum, IsActive
  <2> QED
    BY <1>3, <1>5, <2>2, <2>4 DEF Reads
<1> QED
  BY <1>7, <1>8, GrownProtected

(* A table whose columns change; a view that is not suspect afterwards     *)
(* still has the column it reads.                                          *)
Altered(d, n, o, e) ==
  /\ IsActive(d, n, o) /\ d.rel[o].kind = "r"
  /\ Rows(e) = Rows(d)
  /\ \A p \in Rows(d) : /\ e.rel[p].name = d.rel[p].name /\ e.rel[p].kind = d.rel[p].kind
                        /\ e.rel[p].active = d.rel[p].active
                        /\ p # o => e.rel[p].cols = d.rel[p].cols
  /\ \A m \in Name \ {n} : e.phys[m] = d.phys[m]
  /\ e.dep = d.dep /\ d.suspect \subseteq e.suspect

ColumnKept(d, o, e, p) ==
  LET c == d.phys[d.rel[p].name].cols[1]
  IN  ActiveView(d, p) /\ p \notin e.suspect /\ Reads(d, p, o) => HasColumn(e, o, c)

LEMMA AlteredProtected ==
  ASSUME NEW d, Good(d), Phys(d), Protected(d), NEW n, NEW o, NEW e, Altered(d, n, o, e),
         \A p \in Rows(d) : ColumnKept(d, o, e, p)
  PROVE  Protected(e)
<1> SUFFICES ASSUME NEW p \in Rows(d), ActiveView(e, p), p \notin e.suspect
             PROVE  \E f : Reads(e, p, f)
  BY ProtectedReads DEF Altered
<1>1. ActiveView(d, p) /\ p \notin d.suspect
  BY DEF Altered, ActiveView
<1>2. PICK f : Reads(d, p, f)
  BY <1>1, ProtectedReads
<1>3. f \in Rows(d) /\ d.rel[f].active /\ <<p, f>> \in d.dep
  BY <1>2, ReadKind
<1>4. d.rel[p].name \in Name \ {n}
  <2>1. o \in Rows(d) /\ d.rel[o].name = n /\ p # o
    BY <1>1 DEF Altered, IsActive, ActiveView
  <2> QED
    BY <2>1, GoodRows DEF Phys, Agrees, NamesUnique
<1>5. Still(d, e, p, f)
  BY <1>3, <1>4 DEF Still, Altered
<1>6. HasColumn(e, f, d.phys[d.rel[p].name].cols[1])
  <2>1. CASE f = o
    BY <1>1, <1>2, <2>1 DEF ColumnKept
  <2>2. CASE f # o
    BY <1>2, <1>3, <2>2 DEF Reads, HasColumn, Attnum, Altered
  <2> QED
    BY <2>1, <2>2
<1> QED
  BY <1>2, <1>5, <1>6, ReadsStay

LEMMA ColumnAddedProtected ==
  ASSUME NEW d, Good(d), Phys(d), Protected(d), NEW n \in Name, NEW o, NEW c \in Column,
         d.next <= MaxOid, IsActive(d, n, o), d.rel[o].kind = "r",
         NEW e, e = ColumnAdded(d, n, o, c)
  PROVE  Protected(e)
<1>1. IsCatalog(d) /\ d.next \in Oid /\ d.phys \in [Name -> Object]
  BY MaxOidAssumption DEF Good, IsCatalog, Oid, Phys
<1>2. /\ o \in Rows(d) /\ d.rel[o] \in Relation /\ d.rel[o].cols \in Seq(Attribute)
  BY ObjectOf
<1>3. PICK more : more = Append(d.rel[o].cols, NewColumn(c, d.next))
  OBVIOUS
<1>4. \A k \in DOMAIN d.rel[o].cols : k \in DOMAIN more /\ more[k] = d.rel[o].cols[k]
  <2>1. NewColumn(c, d.next) \in Attribute
    BY <1>1 DEF NewColumn, Attribute
  <2> QED
    BY <1>2, <1>3, <2>1
<1>5. PICK s : s = [d.rel[o] EXCEPT !.cols = more]
  OBVIOUS
<1>6. s.name = d.rel[o].name /\ s.kind = d.rel[o].kind /\ s.active = d.rel[o].active /\ s.cols = more
  BY <1>2, <1>5 DEF Relation
<1>7. /\ e.rel = [d.rel EXCEPT ![o] = s] /\ e.dep = d.dep /\ e.suspect = d.suspect
      /\ \A m \in Name \ {n} : e.phys[m] = d.phys[m]
  BY <1>1, <1>3, <1>5 DEF ColumnAdded, IsCatalog
<1>8. Rows(e) = Rows(d) /\ e.rel[o] = s /\ \A p \in Rows(d) \ {o} : e.rel[p] = d.rel[p]
  BY <1>2, <1>7 DEF Rows
<1>9. Altered(d, n, o, e)
  BY <1>6, <1>7, <1>8 DEF Altered
<1>10. \A p \in Rows(d) : ColumnKept(d, o, e, p)
  BY <1>4, <1>6, <1>8 DEF ColumnKept, Reads, HasColumn, Attnum
<1> QED
  BY <1>9, <1>10, AlteredProtected

LEMMA ColumnDroppedProtected ==
  ASSUME NEW d, Good(d), Phys(d), Protected(d), NEW n \in Name, NEW o, NEW c \in Column,
         IsActive(d, n, o), d.rel[o].kind = "r",
         NEW k \in DOMAIN d.rel[o].cols, Attnum(d, o, c, k),
         NEW e, e = ColumnDropped(d, n, o, c, k)
  PROVE  Protected(e)
<1>1. IsCatalog(d) /\ d.phys \in [Name -> Object]
  BY DEF Good, Phys
<1>2. /\ o \in Rows(d) /\ d.rel[o] \in Relation /\ d.rel[o].cols \in Seq(Attribute)
  BY ObjectOf
<1>3. PICK a : a = [d.rel[o].cols[k] EXCEPT !.dropped = TRUE]
  OBVIOUS
<1>4. PICK less : less = [d.rel[o].cols EXCEPT ![k] = a]
  OBVIOUS
<1>5. DOMAIN less = DOMAIN d.rel[o].cols /\ \A j \in DOMAIN less \ {k} : less[j] = d.rel[o].cols[j]
  BY <1>2, <1>4
<1>6. PICK s : s = [d.rel[o] EXCEPT !.cols = less]
  OBVIOUS
<1>7. s.name = d.rel[o].name /\ s.kind = d.rel[o].kind /\ s.active = d.rel[o].active /\ s.cols = less
  BY <1>2, <1>6 DEF Relation
<1>8. /\ e.rel = [d.rel EXCEPT ![o] = s] /\ e.dep = d.dep
      /\ e.suspect = d.suspect \union ReadersOf(d, n, c)
      /\ \A m \in Name \ {n} : e.phys[m] = d.phys[m]
  BY <1>1, <1>3, <1>4, <1>6 DEF ColumnDropped, IsCatalog
<1>9. Rows(e) = Rows(d) /\ e.rel[o] = s /\ \A p \in Rows(d) \ {o} : e.rel[p] = d.rel[p]
  BY <1>2, <1>8 DEF Rows
<1>10. Altered(d, n, o, e)
  BY <1>7, <1>8, <1>9 DEF Altered
<1>11. ASSUME NEW p \in Rows(d), ActiveView(d, p), p \notin e.suspect, Reads(d, p, o)
       PROVE  HasColumn(e, o, d.phys[d.rel[p].name].cols[1])
  <2>1. PICK x : x = d.phys[d.rel[p].name].cols[1]
    OBVIOUS
  <2>2. d.phys[d.rel[p].name].from = n
    BY <1>11 DEF Reads, IsActive
  <2>3. p \in Oid
    BY GoodRows
  <2>4. x # c
    BY <1>8, <1>11, <2>1, <2>2, <2>3 DEF ReadersOf
  <2>5. PICK j \in DOMAIN d.rel[o].cols : Attnum(d, o, x, j)
    BY <1>11, <2>1 DEF Reads, HasColumn
  <2>6. j # k
    BY <2>4, <2>5 DEF Attnum
  <2>7. Attnum(e, o, x, j)
    BY <1>5, <1>7, <1>9, <2>5, <2>6 DEF Attnum
  <2> QED
    BY <2>1, <2>7 DEF HasColumn, Attnum
<1>12. \A p \in Rows(d) : ColumnKept(d, o, e, p)
  BY <1>11 DEF ColumnKept
<1> QED
  BY <1>10, <1>12, AlteredProtected

LEMMA ColumnRenamedProtected ==
  ASSUME NEW d, Good(d), Phys(d), Protected(d), NEW n \in Name, NEW o, NEW c \in Column,
         NEW new \in Column, IsActive(d, n, o), d.rel[o].kind = "r", Dependents(d, o) = {},
         NEW k \in DOMAIN d.rel[o].cols,
         NEW e, e = ColumnRenamed(d, n, o, k, c, new)
  PROVE  Protected(e)
<1>1. IsCatalog(d) /\ d.phys \in [Name -> Object]
  BY DEF Good, Phys
<1>2. o \in Rows(d) /\ d.rel[o] \in Relation
  BY ObjectOf
<1>3. PICK other : other = [d.rel[o].cols EXCEPT ![k] = [@ EXCEPT !.name = new]]
  OBVIOUS
<1>4. PICK s : s = [d.rel[o] EXCEPT !.cols = other]
  OBVIOUS
<1>5. s.name = d.rel[o].name /\ s.kind = d.rel[o].kind /\ s.active = d.rel[o].active
  BY <1>2, <1>4 DEF Relation
<1>6. /\ e.rel = [d.rel EXCEPT ![o] = s] /\ e.dep = d.dep /\ e.suspect = d.suspect
      /\ \A m \in Name \ {n} : e.phys[m] = d.phys[m]
  BY <1>1, <1>3, <1>4 DEF ColumnRenamed, IsCatalog
<1>7. Rows(e) = Rows(d) /\ e.rel[o] = s /\ \A p \in Rows(d) \ {o} : e.rel[p] = d.rel[p]
  BY <1>2, <1>6 DEF Rows
<1>8. Altered(d, n, o, e)
  BY <1>5, <1>6, <1>7 DEF Altered
<1>9. \A p \in Rows(d) : ~Reads(d, p, o)
  BY GoodRows DEF Reads, Dependents
<1>10. \A p \in Rows(d) : ColumnKept(d, o, e, p)
  BY <1>9 DEF ColumnKept
<1> QED
  BY <1>8, <1>10, AlteredProtected

LEMMA CommentedProtected ==
  ASSUME NEW d, Good(d), Phys(d), Protected(d), NEW o, NEW k, NEW text,
         NEW e, e = Commented(d, o, k, text)
  PROVE  Protected(e)
<1>1. e.rel = d.rel /\ e.phys = d.phys /\ e.dep = d.dep /\ e.suspect = d.suspect
  BY DEF Commented, Good, IsCatalog
<1>2. Rows(e) = Rows(d)
  BY <1>1 DEF Rows
<1> QED
  BY <1>1, <1>2 DEF Protected, ActiveView, IsActive, HasColumn, Attnum

LEMMA ViewReplacedProtected ==
  ASSUME NEW d, Good(d), Phys(d), Protected(d), NEW n \in Name, NEW o, NEW c \in Column,
         NEW f \in Name, NEW fo, n # f, d.next <= MaxOid,
         IsActive(d, n, o), d.rel[o].kind = "v",
         IsActive(d, f, fo), d.rel[fo].kind # "i", CanReadView(d, f, c),
         NEW e, e = ViewReplaced(d, n, o, c, f, fo)
  PROVE  Protected(e)
<1>1. IsCatalog(d) /\ d.next \in Oid /\ d.phys \in [Name -> Object]
  BY MaxOidAssumption DEF Good, IsCatalog, Oid, Phys
<1>2. /\ o \in Rows(d) /\ d.rel[o] \in Relation /\ d.rel[o].name = n /\ o \in Oid
      /\ fo \in Rows(d) /\ d.rel[fo] \in Relation /\ d.rel[fo].name = f /\ fo \in Oid
      /\ fo # o
  BY GoodRows DEF IsActive
<1>3. PICK a : a = NewColumn(c, d.next)
  OBVIOUS
<1>4. PICK s : s = [[d.rel[o] EXCEPT !.cols = <<a>>] EXCEPT !.active = TRUE]
  OBVIOUS
<1>5. s.name = n /\ s.kind = "v" /\ s.active /\ s.cols = <<a>> /\ a.name = c /\ ~a.dropped
  BY <1>2, <1>3, <1>4 DEF Relation, NewColumn
<1>6. /\ e.rel = [d.rel EXCEPT ![o] = s]
      /\ e.phys = [d.phys EXCEPT ![n] = ViewOf(f, c)]
      /\ e.dep = {x \in d.dep : x[1] # o} \union {<<o, fo>>}
      /\ e.suspect = (d.suspect \ {o}) \union (Readers(d, n) \ ReadersOf(d, n, c))
                     \union (IF d.rel[fo].kind = "v" /\ fo > o THEN {o} ELSE {})
  BY <1>1, <1>3, <1>4 DEF ViewReplaced, IsCatalog
<1>7. Rows(e) = Rows(d) /\ e.rel[o] = s /\ \A p \in Rows(d) \ {o} : e.rel[p] = d.rel[p]
  BY <1>2, <1>6 DEF Rows
<1>8. /\ \A m \in Name \ {n} : e.phys[m] = d.phys[m]
      /\ e.phys[n].from = f /\ e.phys[n].cols[1] = c
  BY <1>1, <1>6 DEF ViewOf
<1> SUFFICES ASSUME NEW p \in Rows(e), ActiveView(e, p), p \notin e.suspect
             PROVE  \E g : Reads(e, p, g)
  BY ProtectedReads
<1>9. CASE p = o
  <2>1. HasColumn(d, fo, c)
    BY ReadableColumn
  <2>2. HasColumn(e, fo, c) /\ IsActive(e, f, fo)
    BY <1>2, <1>7, <2>1 DEF HasColumn, Attnum, IsActive
  <2>3. e.rel[fo].kind = "r" \/ fo < o
    <3>1. d.rel[fo].kind \in {"r", "v"} /\ fo \in Nat /\ o \in Nat
      BY <1>2 DEF Relation, Oid
    <3>2. ~(d.rel[fo].kind = "v" /\ fo > o)
      BY <1>6, <1>9
    <3> QED
      BY <1>2, <1>7, <3>1, <3>2
  <2>4. Reads(e, o, fo)
    BY <1>5, <1>6, <1>7, <1>8, <2>2, <2>3 DEF Reads
  <2> QED
    BY <1>9, <2>4
<1>10. CASE p # o
  <2>1. p \in Rows(d) /\ e.rel[p] = d.rel[p] /\ ActiveView(d, p) /\ p \notin d.suspect /\ p \in Oid
    BY <1>6, <1>7, <1>10, GoodRows DEF ActiveView
  <2>2. PICK g : Reads(d, p, g)
    BY <2>1, ProtectedReads
  <2>3. g \in Rows(d) /\ d.rel[g].active /\ <<p, g>> \in d.dep
    BY <2>2, ReadKind
  <2>4. d.rel[p].name \in Name \ {n}
    BY <1>2, <1>10, <2>1, GoodRows DEF Phys, Agrees, NamesUnique
  <2>5. Still(d, e, p, g)
    <3>1. e.rel[g].name = d.rel[g].name /\ e.rel[g].kind = d.rel[g].kind /\ e.rel[g].active
      BY <1>2, <1>5, <1>7, <2>3
    <3> QED
      BY <1>6, <1>7, <1>8, <1>10, <2>1, <2>3, <2>4, <3>1 DEF Still
  <2>6. HasColumn(e, g, d.phys[d.rel[p].name].cols[1])
    <3>1. CASE g # o
      BY <1>7, <2>2, <2>3, <3>1 DEF Reads, HasColumn, Attnum
    <3>2. CASE g = o
      <4>1. PICK x : x = d.phys[d.rel[p].name].cols[1]
        OBVIOUS
      <4>2. x \in Column
        BY <2>1, <4>1, ViewColumn
      <4>3. d.phys[d.rel[p].name].from = n
        BY <1>2, <2>2, <3>2 DEF Reads, IsActive
      <4>4. p \in ReadersOf(d, n, x)
        BY <2>1, <4>1, <4>3 DEF ReadersOf
      <4>5. p \in Readers(d, n)
        BY <4>2, <4>4 DEF Readers
      <4>6. p \in ReadersOf(d, n, c)
        BY <1>6, <4>5
      <4>7. x = c
        BY <4>1, <4>6 DEF ReadersOf
      <4>8. Attnum(e, o, c, 1)
        BY <1>5, <1>7 DEF Attnum
      <4> QED
        BY <3>2, <4>1, <4>7, <4>8 DEF HasColumn, Attnum
    <3> QED
      BY <3>1, <3>2
  <2> QED
    BY <2>2, <2>5, <2>6, ReadsStay
<1> QED
  BY <1>9, <1>10

LEMMA DroppedSuspect ==
  ASSUME NEW d, Good(d), d.phys \in [Name -> Object], NEW n \in Name, NEW o \in Rows(d),
         NEW e, e = Dropped(d, n, o), NEW p, p \notin e.suspect,
         p \notin Dependents(d, o), p # o
  PROVE  /\ p \notin d.suspect
         /\ \A f \in Dependents(d, o) \intersect Rows(d) :
              d.rel[f].kind = "v" => p \notin Dependents(d, f)
<1>1. IsCatalog(d)
  BY DEF Good
<1> DEFINE views == {x \in Dependents(d, o) \intersect Rows(d) : d.rel[x].kind = "v"}
           cut == UNION {Dependents(d, x) : x \in views}
<1>2. PICK rows : rows = RowsDeleted(d, Dependents(d, o) \union {o})
  OBVIOUS
<1>3. PICK after : after = PhysicalDrop(rows, n, d.rel[o].kind)
  OBVIOUS
<1>4. Fields(rows) /\ rows.suspect = d.suspect
  BY <1>1, <1>2 DEF RowsDeleted, IsCatalog, Fields
<1>5. Fields(after) /\ after.suspect = d.suspect
  BY <1>3, <1>4 DEF PhysicalDrop, Fields
<1>6. e.suspect = (after.suspect \union cut) \ (Dependents(d, o) \union {o})
  BY <1>2, <1>3, <1>5 DEF Dropped, Fields
<1>7. p \notin d.suspect /\ p \notin cut
  BY <1>5, <1>6
<1> QED
  BY <1>7

LEMMA DroppedProtected ==
  ASSUME NEW d, Good(d), Phys(d), Protected(d), NEW n \in Name, NEW o, IsActive(d, n, o),
         NEW e, e = Dropped(d, n, o)
  PROVE  Protected(e)
<1>1. PICK S : S = Dependents(d, o) \union {o}
  OBVIOUS
<1>2. o \in Rows(d) /\ d.rel[o].name = n /\ d.phys \in [Name -> Object]
  BY DEF IsActive, Phys
<1>3. Leaves(d, n, o, S, e)
  BY <1>1, <1>2, DroppedFields
<1>4. /\ Rows(e) = Rows(d) \ S /\ \A p \in Rows(e) : e.rel[p] = d.rel[p]
      /\ \A m \in Name \ {n} : e.phys[m] = d.phys[m]
      /\ \A x : x \in e.dep <=> x \in d.dep /\ x[1] \notin S /\ x[2] \notin S
  BY <1>3 DEF Leaves
<1> SUFFICES ASSUME NEW p \in Rows(e), ActiveView(e, p), p \notin e.suspect
             PROVE  \E f : Reads(e, p, f)
  BY ProtectedReads
<1>5. /\ p \in Rows(d) /\ p \notin Dependents(d, o) /\ p # o /\ p \in Oid
      /\ e.rel[p] = d.rel[p] /\ ActiveView(d, p)
  BY <1>1, <1>4, GoodRows DEF ActiveView
<1>6. /\ p \notin d.suspect
      /\ \A f \in Dependents(d, o) \intersect Rows(d) :
           d.rel[f].kind = "v" => p \notin Dependents(d, f)
  BY <1>2, <1>5, DroppedSuspect
<1>7. PICK f : Reads(d, p, f)
  BY <1>5, <1>6, ProtectedReads
<1>8. f \in Rows(d) /\ d.rel[f].active /\ d.rel[f].kind \in {"r", "v"} /\ <<p, f>> \in d.dep
  BY <1>7, ReadKind
<1>9. p \in Dependents(d, f)
  BY <1>5, <1>8 DEF Dependents
<1>10. f \notin Dependents(d, o)
  <2> SUFFICES ASSUME f \in Dependents(d, o) PROVE FALSE
    OBVIOUS
  <2>1. <<f, o>> \in d.dep
    BY DEF Dependents
  <2>2. d.rel[f].kind # "r"
    BY <2>1 DEF Good, Sound, Indexed
  <2> QED
    BY <1>6, <1>8, <1>9, <2>2
<1>11. f # o
  BY <1>5, <1>9
<1>12. f \in Rows(e) /\ e.rel[f] = d.rel[f]
  BY <1>1, <1>4, <1>8, <1>10, <1>11
<1>13. <<p, f>> \in e.dep
  BY <1>1, <1>4, <1>5, <1>8, <1>10, <1>11
<1>14. d.rel[p].name \in Name \ {n}
  BY <1>2, <1>5, GoodRows DEF Phys, Agrees, NamesUnique
<1>15. Still(d, e, p, f) /\ HasColumn(e, f, d.phys[d.rel[p].name].cols[1])
  BY <1>4, <1>5, <1>7, <1>8, <1>12, <1>13, <1>14 DEF Still, Reads, HasColumn, Attnum
<1> QED
  BY <1>7, <1>15, ReadsStay

(* A start that restores every view.                                       *)
LEMMA RestoredProtected ==
  ASSUME NEW s, Good(s.db), Phys(s.db), Protected(s.db), s.views = ViewsOf(s.db),
         NEW missing, missing \subseteq TableRows(s.db), Restores(s, missing),
         NEW e, e = Restored(s, missing)
  PROVE  Protected(e)
<1>1. PICK d : d = s.db
  OBVIOUS
<1>2. /\ Good(d) /\ Phys(d) /\ Protected(d) /\ s.views = ViewsOf(d) /\ missing \subseteq TableRows(d)
  BY <1>1
<1>3. PICK off : off = Unavailable(s, missing)
  OBVIOUS
<1>4. Reopened(s, missing, e)
  BY RestoredFields
<1>5. /\ Rows(e) = Rows(d)
      /\ \A o \in Rows(d) : /\ e.rel[o].name = d.rel[o].name /\ e.rel[o].kind = d.rel[o].kind
                            /\ e.rel[o].cols = d.rel[o].cols
                            /\ e.rel[o].active <=> d.rel[o].active /\ o \notin off
      /\ e.dep = d.dep /\ e.suspect = d.suspect
      /\ \A n \in Name, v \in s.views :
           v.name = n /\ (\A o \in TableRows(d) \ missing : d.rel[o].name # n) =>
             e.phys[n] = ViewOf(v.from, v.col)
  BY <1>1, <1>3, <1>4 DEF Reopened
<1>6. \A o \in Rows(d) :
        o \in off <=> (o \in missing \/ (d.rel[o].kind = "i" /\ d.rel[o].on \in missing))
  BY <1>1, <1>3 DEF Unavailable
<1>7. \A o, p \in Rows(d) : d.rel[o].name = d.rel[p].name => o = p
  BY <1>2 DEF Phys, Agrees, NamesUnique
<1> SUFFICES ASSUME NEW p \in Rows(e), ActiveView(e, p), p \notin e.suspect
             PROVE  \E f : Reads(e, p, f)
  BY ProtectedReads
<1>8. p \in Rows(d) /\ ActiveView(d, p) /\ p \notin d.suspect
  BY <1>5 DEF ActiveView
<1>9. PICK f : Reads(d, p, f)
  BY <1>2, <1>8, ProtectedReads
<1>10. f \in Rows(d) /\ d.rel[f].active /\ d.rel[f].kind \in {"r", "v"} /\ <<p, f>> \in d.dep
  BY <1>2, <1>9, ReadKind
<1>11. PICK n, from, col : n = d.rel[p].name /\ from = d.phys[n].from /\ col = d.phys[n].cols[1]
  OBVIOUS
<1>12. /\ n \in Name /\ d.phys[n].cols = <<col>>
       /\ d.rel[f].name = from /\ HasColumn(d, f, col) /\ (d.rel[f].kind = "r" \/ f < p)
  BY <1>2, <1>8, <1>9, <1>11, ViewColumn DEF Reads, IsActive
<1>13. PICK v : v = [oid |-> p, name |-> n, from |-> from, col |-> col]
  OBVIOUS
<1>14. v \in s.views
  BY <1>2, <1>8, <1>11, <1>13, ViewTaken
<1>15. f \notin missing
  <2> SUFFICES ASSUME f \in missing PROVE FALSE
    OBVIOUS
  <2>1. d.rel[f].kind = "r"
    BY <1>2 DEF TableRows
  <2>2. ViewRestores(s, missing, v)
    BY <1>14 DEF Restores
  <2>3. CASE \E o \in TableRows(d) \ missing : d.rel[o].name = from
    BY <1>7, <1>10, <1>12, <2>3 DEF TableRows
  <2>4. CASE \E w \in s.views : w.name = from
    <3>1. PICK w \in s.views : w.name = from
      BY <2>4
    <3>2. PICK o \in Rows(d) : ActiveView(d, o) /\ w.name = d.rel[o].name
      BY <1>2, ViewTaken
    <3>3. o = f
      BY <1>7, <1>10, <1>12, <3>1, <3>2
    <3> QED
      BY <2>1, <3>2, <3>3 DEF ActiveView
  <2> QED
    BY <1>1, <1>13, <2>2, <2>3, <2>4 DEF ViewRestores
<1>16. /\ f \in Rows(e) /\ e.rel[f].active /\ e.rel[f].name = from /\ e.rel[f].kind = d.rel[f].kind
       /\ e.rel[f].cols = d.rel[f].cols
  BY <1>5, <1>6, <1>10, <1>12, <1>15
<1>17. e.phys[n] = ViewOf(from, col)
  <2>1. \A o \in TableRows(d) \ missing : d.rel[o].name # n
    BY <1>7, <1>8, <1>11 DEF TableRows, ActiveView
  <2> QED
    BY <1>5, <1>12, <1>13, <1>14, <2>1
<1>18. /\ e.rel[p].name = n /\ e.phys[n].from = from /\ e.phys[n].cols[1] = col
  BY <1>5, <1>8, <1>11, <1>17 DEF ViewOf
<1>19. HasColumn(e, f, col) /\ IsActive(e, from, f)
  BY <1>12, <1>16 DEF HasColumn, Attnum, IsActive
<1>20. Reads(e, p, f)
  BY <1>5, <1>10, <1>12, <1>16, <1>18, <1>19 DEF Reads
<1> QED
  BY <1>20

(* A snapshot without a suspect view restores.                             *)
LEMMA ProtectedRestores ==
  ASSUME NEW s, Good(s.db), Phys(s.db), Protected(s.db), s.views = ViewsOf(s.db),
         s.db.suspect = {}
  PROVE  Restores(s, {})
<1>1. PICK d : d = s.db
  OBVIOUS
<1>2. Good(d) /\ Phys(d) /\ Protected(d) /\ s.views = ViewsOf(d) /\ d.suspect = {}
  BY <1>1
<1> SUFFICES ASSUME NEW v \in s.views PROVE ViewRestores(s, {}, v)
  BY DEF Restores
<1>3. PICK p \in Rows(d) : /\ ActiveView(d, p)
                           /\ v = [oid |-> p, name |-> d.rel[p].name,
                                   from |-> d.phys[d.rel[p].name].from,
                                   col |-> d.phys[d.rel[p].name].cols[1]]
  BY <1>2, ViewTaken
<1>4. PICK f : Reads(d, p, f)
  BY <1>2, <1>3, ProtectedReads
<1>5. f \in Rows(d) /\ d.rel[f].active /\ d.rel[f].kind \in {"r", "v"}
  BY <1>2, <1>4, ReadKind
<1>6. /\ d.rel[f].name = v.from /\ HasColumn(d, f, v.col) /\ (d.rel[f].kind = "r" \/ f < v.oid)
  BY <1>3, <1>4 DEF Reads, IsActive
<1>7. d.rel[f].cols \in Seq(Attribute)
  BY <1>2, <1>5, GoodRows DEF Relation
<1>8. Has(LiveColumns(d.rel[f].cols), v.col)
  BY <1>6, <1>7, LiveColumnsHave DEF HasColumn, Attnum, Live
<1>9. CASE d.rel[f].kind = "r"
  BY <1>1, <1>5, <1>6, <1>8, <1>9 DEF ViewRestores, TableRows
<1>10. CASE d.rel[f].kind = "v"
  <2>1. ActiveView(d, f)
    BY <1>5, <1>10 DEF ActiveView
  <2>2. PICK col : col = d.phys[d.rel[f].name].cols[1]
    OBVIOUS
  <2>3. LiveColumns(d.rel[f].cols) = <<col>>
    BY <1>2, <2>1, <2>2, ViewColumn
  <2>4. v.col = col
    BY <1>8, <2>3 DEF Has
  <2>5. PICK w : w = [oid |-> f, name |-> d.rel[f].name, from |-> d.phys[d.rel[f].name].from,
                      col |-> d.phys[d.rel[f].name].cols[1]]
    OBVIOUS
  <2>6. w \in s.views
    BY <1>2, <1>5, <2>1, <2>5, ViewTaken
  <2>7. w.oid < v.oid /\ w.name = v.from /\ w.col = v.col
    BY <1>6, <1>10, <2>2, <2>4, <2>5
  <2> QED
    BY <2>6, <2>7 DEF ViewRestores
<1> QED
  BY <1>5, <1>9, <1>10

-----------------------------------------------------------------------------
(* The invariant of the catalog and of DuckDB together: each of the three  *)
(* parts keeps the others, a snapshot has them too, and its views are      *)
(* those of its database.                                                  *)
Whole(d) == Good(d) /\ Phys(d) /\ Protected(d)

WholeInv ==
  /\ Whole(db)
  /\ saved # NoSnapshot => Whole(saved.db) /\ saved.views = ViewsOf(saved.db)

LEMMA WholeInit == Init => WholeInv
  BY FirstAssumption DEF Init, WholeInv, Whole, Good, Phys, IsDatabase

LEMMA WholeCommit == ASSUME WholeInv, NEW d, Whole(d), Commit(d) PROVE WholeInv'
  BY DEF WholeInv, Commit

LEMMA WholeDropped ==
  ASSUME NEW d, Whole(d), NEW n \in Name, NEW o, NEW kind, NEW cascade,
         CanDrop(d, n, o, kind, cascade)
  PROVE  Whole(Dropped(d, n, o))
<1>1. Good(d) /\ Phys(d) /\ Protected(d) /\ IsActive(d, n, o) /\ o \in Rows(d) /\ d.next <= MaxOid
  BY DEF Whole, CanDrop, IsActive
<1> QED
  BY <1>1, DroppedGood, DroppedPhys, DroppedProtected DEF Whole

LEMMA WholeTable ==
  ASSUME NEW d, Whole(d), NEW n \in Name, NEW c \in Column, CanMakeTable(d, n)
  PROVE  Whole(TableMade(d, n, c))
BY TableMadeGood, TableMadePhys, TableMadeProtected DEF Whole

LEMMA WholeNext == WholeInv /\ [Next]_vars => WholeInv'
<1> SUFFICES ASSUME WholeInv, [Next]_vars PROVE WholeInv'
  OBVIOUS
<1>1. Whole(db) /\ Good(db) /\ Phys(db) /\ Protected(db)
  BY DEF WholeInv, Whole
<1>2. CASE UNCHANGED vars
  BY <1>2 DEF WholeInv, vars
<1>3. ASSUME NEW n \in Name, NEW c \in Column, CreateTable(n, c) PROVE WholeInv'
  BY <1>1, <1>3, WholeTable, WholeCommit DEF CreateTable
<1>4. ASSUME NEW n \in Name, NEW m \in Name, NEW c \in Column, ImportParquet(n, m, c)
      PROVE  WholeInv'
  <2>1. PICK d : d = TableMade(db, n, c)
    OBVIOUS
  <2>2. CanMakeTable(db, n) /\ CanMakeTable(d, m) /\ Commit(TableMade(d, m, c))
    BY <1>4, <2>1 DEF ImportParquet
  <2>3. Whole(TableMade(d, m, c))
    BY <1>1, <2>1, <2>2, WholeTable
  <2> QED
    BY <2>2, <2>3, WholeCommit
<1>5. ASSUME NEW n \in Name, NEW c \in Column, NEW f \in Name, NEW keep \in BOOLEAN,
             CreateView(n, c, f, keep)
      PROVE  WholeInv'
  <2>1. PICK obj : obj = IF keep THEN db.phys[n] ELSE ViewOf(f, c)
    OBVIOUS
  <2>2. PICK fo \in Rows(db), k \in Column :
          /\ IsActive(db, f, fo) /\ db.rel[fo].kind # "i"
          /\ CanReadView(db, f, c)
          /\ obj.cols = <<k>>
          /\ Commit(ViewMade(db, n, obj, k, fo))
    BY <1>5, <2>1 DEF CreateView
  <2>3. db.next + 1 <= MaxOid /\ ~Taken(db, n) /\ (keep => db.phys[n].kind = "v")
    BY <1>5 DEF CreateView
  <2>4. obj \in Object /\ obj.kind = "v"
    <3>1. <<c>> \in Seq(Column) /\ db.phys[n] \in Object
      BY <1>1 DEF Phys
    <3> QED
      BY <2>1, <2>3, <3>1 DEF ViewOf, Object
  <2>5. db.phys[n].kind = "v" \/ obj = ViewOf(f, c)
    BY <2>1, <2>3
  <2>6. PICK e : e = ViewMade(db, n, obj, k, fo)
    OBVIOUS
  <2>7. Good(e) /\ Phys(e)
    BY <1>1, <2>2, <2>3, <2>4, <2>6, ViewMadeGood, ViewMadePhys
  <2>8. Protected(e)
    BY <1>1, <2>2, <2>3, <2>5, <2>6, ViewMadeProtected
  <2> QED
    BY <2>2, <2>6, <2>7, <2>8, WholeCommit DEF Whole
<1>6. ASSUME NEW n \in Name, NEW c \in Column, NEW f \in Name, ReplaceView(n, c, f)
      PROVE  WholeInv'
  <2>1. PICK o \in Rows(db), fo \in Rows(db) :
          /\ IsActive(db, n, o) /\ db.rel[o].kind = "v"
          /\ IsActive(db, f, fo) /\ db.rel[fo].kind # "i"
          /\ CanReadView(db, f, c)
          /\ Commit(ViewReplaced(db, n, o, c, f, fo))
    BY <1>6 DEF ReplaceView
  <2>2. db.next <= MaxOid /\ n # f
    BY <1>6 DEF ReplaceView
  <2>3. PICK e : e = ViewReplaced(db, n, o, c, f, fo)
    OBVIOUS
  <2>4. Good(e) /\ Phys(e)
    BY <1>1, <2>1, <2>2, <2>3, ViewReplacedGood, ViewReplacedPhys
  <2>5. Protected(e)
    BY <1>1, <2>1, <2>2, <2>3, ViewReplacedProtected
  <2> QED
    BY <2>1, <2>3, <2>4, <2>5, WholeCommit DEF Whole
<1>7. ASSUME NEW n \in Name, NEW t \in Name, NEW c \in Column, CreateIndex(n, t, c)
      PROVE  WholeInv'
  <2>1. PICK o, k :
          /\ o \in Rows(db) /\ k \in DOMAIN db.rel[o].cols
          /\ IsActive(db, t, o) /\ db.rel[o].kind = "r"
          /\ Attnum(db, o, c, k) /\ Commit(IndexMade(db, n, t, o, c, k))
    BY <1>7 DEF CreateIndex
  <2>2. ~Taken(db, n) /\ db.next + 1 <= MaxOid /\ db.rel[o].name = t
    BY <1>7, <2>1 DEF CreateIndex, IsActive
  <2>3. PICK e : e = IndexMade(db, n, t, o, c, k)
    OBVIOUS
  <2>4. Good(e) /\ Phys(e) /\ Protected(e)
    BY <1>1, <2>1, <2>2, <2>3, IndexMadeGood, IndexMadePhys, IndexMadeProtected
  <2> QED
    BY <2>1, <2>3, <2>4, WholeCommit DEF Whole
<1>8. ASSUME NEW n \in Name, NEW c \in Column, AddColumn(n, c) PROVE WholeInv'
  <2>1. PICK o \in Rows(db) : /\ IsActive(db, n, o) /\ db.rel[o].kind = "r" /\ ~HasColumn(db, o, c)
                              /\ Commit(ColumnAdded(db, n, o, c))
    BY <1>8 DEF AddColumn
  <2>2. db.next <= MaxOid
    BY <1>8 DEF AddColumn
  <2>3. PICK e : e = ColumnAdded(db, n, o, c)
    OBVIOUS
  <2>4. Good(e) /\ Phys(e) /\ Protected(e)
    BY <1>1, <2>1, <2>2, <2>3, ColumnAddedGood, ColumnAddedPhys, ColumnAddedProtected
  <2> QED
    BY <2>1, <2>3, <2>4, WholeCommit DEF Whole
<1>9. ASSUME NEW n \in Name, NEW c \in Column, DropColumn(n, c) PROVE WholeInv'
  <2>1. PICK o, k :
          /\ o \in Rows(db) /\ k \in DOMAIN db.rel[o].cols
          /\ IsActive(db, n, o) /\ db.rel[o].kind = "r" /\ Attnum(db, o, c, k)
          /\ \A i \in Rows(db) : db.rel[i].on = o => db.rel[i].key # k
          /\ Commit(ColumnDropped(db, n, o, c, k))
    BY <1>9 DEF DropColumn
  <2>2. db.next <= MaxOid
    BY <1>9 DEF DropColumn
  <2>3. PICK e : e = ColumnDropped(db, n, o, c, k)
    OBVIOUS
  <2>4. Good(e) /\ Phys(e) /\ Protected(e)
    BY <1>1, <2>1, <2>2, <2>3, ColumnDroppedGood, ColumnDroppedPhys, ColumnDroppedProtected
  <2> QED
    BY <2>1, <2>3, <2>4, WholeCommit DEF Whole
<1>10. ASSUME NEW n \in Name, NEW c \in Column, NEW new \in Column, RenameColumn(n, c, new)
       PROVE  WholeInv'
  <2>1. PICK o, k :
          /\ o \in Rows(db) /\ k \in DOMAIN db.rel[o].cols
          /\ IsActive(db, n, o) /\ db.rel[o].kind = "r" /\ ~HasColumn(db, o, new)
          /\ Dependents(db, o) = {} /\ Attnum(db, o, c, k)
          /\ Commit(ColumnRenamed(db, n, o, k, c, new))
    BY <1>10 DEF RenameColumn
  <2>2. db.next <= MaxOid
    BY <1>10 DEF RenameColumn
  <2>3. PICK e : e = ColumnRenamed(db, n, o, k, c, new)
    OBVIOUS
  <2>4. Good(e) /\ Phys(e) /\ Protected(e)
    BY <1>1, <2>1, <2>2, <2>3, ColumnRenamedGood, ColumnRenamedPhys, ColumnRenamedProtected
  <2> QED
    BY <2>1, <2>3, <2>4, WholeCommit DEF Whole
<1>11. ASSUME NEW n \in Name, NEW kind, NEW cascade, Drop(n, kind, cascade) PROVE WholeInv'
  BY <1>1, <1>11, WholeDropped, WholeCommit DEF Drop
<1>12. ASSUME NEW n \in Name, NEW m \in Name, NEW kind, NEW cascade, DropTwo(n, m, kind, cascade)
       PROVE  WholeInv'
  <2>1. PICK o, p :
          /\ CanDrop(db, n, o, kind, cascade)
          /\ CanDrop(Dropped(db, n, o), m, p, kind, cascade)
          /\ Commit(Dropped(Dropped(db, n, o), m, p))
    BY <1>12 DEF DropTwo
  <2>2. Whole(Dropped(db, n, o))
    BY <1>1, <2>1, WholeDropped
  <2>3. Whole(Dropped(Dropped(db, n, o), m, p))
    BY <2>1, <2>2, WholeDropped
  <2> QED
    BY <2>1, <2>3, WholeCommit
<1>13. ASSUME NEW n \in Name, NEW text \in BOOLEAN, CommentOn(n, text) PROVE WholeInv'
  <2>1. PICK o, k :
          /\ o \in Rows(db) /\ k \in {0} \union DOMAIN db.rel[o].cols
          /\ Commit(Commented(db, o, k, text))
    BY <1>13 DEF CommentOn
  <2>2. db.next <= MaxOid
    BY <1>13 DEF CommentOn
  <2>3. PICK e : e = Commented(db, o, k, text)
    OBVIOUS
  <2>4. Good(e) /\ Phys(e) /\ Protected(e)
    BY <1>1, <2>1, <2>2, <2>3, CommentedGood, CommentedPhys, CommentedProtected
  <2> QED
    BY <2>1, <2>3, <2>4, WholeCommit DEF Whole
<1>14. CASE SaveSnapshot
  <2>1. db' = db /\ saved'.db = db /\ saved'.views = ViewsOf(db)
    BY <1>14 DEF SaveSnapshot
  <2> QED BY <1>1, <2>1 DEF WholeInv
<1>15. ASSUME NEW missing \in SUBSET (IF saved = NoSnapshot THEN {} ELSE TableRows(saved.db)),
              Restart(missing)
       PROVE  WholeInv'
  <2>1. saved' = saved
    BY <1>15 DEF Restart
  <2>2. CASE db' = First
    <3>1. Whole(First)
      BY FirstAssumption DEF Whole, Good, Phys, IsDatabase
    <3> QED
      BY <2>1, <2>2, <3>1 DEF WholeInv
  <2>3. CASE saved # NoSnapshot /\ Restores(saved, missing) /\ db' = Restored(saved, missing)
    <3>1. /\ Good(saved.db) /\ Phys(saved.db) /\ Protected(saved.db)
          /\ saved.views = ViewsOf(saved.db) /\ missing \subseteq TableRows(saved.db)
      BY <1>15, <2>3 DEF WholeInv, Whole
    <3>2. PICK e : e = Restored(saved, missing)
      OBVIOUS
    <3>3. Good(e) /\ Phys(e) /\ Protected(e)
      BY <2>3, <3>1, <3>2, RestoredGood, RestoredPhys, RestoredProtected
    <3> QED
      BY <2>1, <2>3, <3>2, <3>3 DEF WholeInv, Whole
  <2>4. CASE db' = db
    BY <2>1, <2>4 DEF WholeInv
  <2> QED BY <1>15, <2>2, <2>3, <2>4 DEF Restart
<1> QED
  BY <1>2, <1>3, <1>4, <1>5, <1>6, <1>7, <1>8, <1>9, <1>10, <1>11, <1>12, <1>13, <1>14, <1>15
     DEF Next

(* recovery.rs:263-316: at all times, whatever was created, altered,       *)
(* dropped, commented, saved and restored, an active row and the object of *)
(* DuckDB agree on name, kind and columns in their order, and DuckDB has   *)
(* nothing else but the views a CASCADE left.                              *)
THEOREM CatalogAgrees == Spec => []PhysicalAgrees
<1>1. WholeInv => PhysicalAgrees
  BY DEF WholeInv, Whole, Phys, PhysicalAgrees
<1> QED BY <1>1, WholeInit, WholeNext, PTL DEF Spec

(* lookup.rs:433-452, view.rs:140-162: a view that none of the exceptions  *)
(* touched reads an older relation that is there, has its column, and      *)
(* cannot go before it.                                                    *)
THEOREM ViewsStayProtected == Spec => []ViewsProtected
<1>1. WholeInv => ViewsProtected
  BY DEF WholeInv, Whole, ViewsProtected
<1> QED BY <1>1, WholeInit, WholeNext, PTL DEF Spec

(* snapshot.rs:374-399: a snapshot without a view that an exception        *)
(* touched, however it came about, restores.                               *)
THEOREM SnapshotsRestore == Spec => []RestoresUnlessSuspect
<1>1. ASSUME WholeInv, saved # NoSnapshot, saved.db.suspect = {} PROVE Restores(saved, {})
  <2>1. /\ Good(saved.db) /\ Phys(saved.db) /\ Protected(saved.db)
        /\ saved.views = ViewsOf(saved.db)
    BY <1>1 DEF WholeInv, Whole
  <2> QED BY <1>1, <2>1, ProtectedRestores
<1>2. WholeInv => RestoresUnlessSuspect
  BY <1>1 DEF RestoresUnlessSuspect
<1> QED BY <1>2, WholeInit, WholeNext, PTL DEF Spec
=============================================================================
