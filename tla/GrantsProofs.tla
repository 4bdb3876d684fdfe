----------------------------- MODULE GrantsProofs -----------------------------
(***************************************************************************)
(* Proofs about Grants, for any names, queries and bounds: rows of users,  *)
(* roles and tables that are gone give nobody a right, and a query runs    *)
(* only if its user had, since it asked, what lets it read the table, and  *)
(* is refused only if it had no way to read it all that time.              *)
(*                                                                         *)
(* The inductive invariant ties what a query holds in its locals to the    *)
(* history: the id it read is that of no other user, ever, since ids are   *)
(* not reused; the roles it read were among those its user had; and the    *)
(* history holds everything its user has now.                              *)
(***************************************************************************)
EXTENDS Grants, TLAPS

AccountsInv ==
  /\ TypeOK
  /\ NoOrphans
  /\ role[Reader] # 0
  /\ \A m, n \in UserName : user[m] # 0 /\ user[m] = user[n] => m = n
  /\ \A p \in priv : \A o \in Id : p.obj = RelationOf(o) => o < next

KnowsUser(r) ==
  LET q == req[r]
  IN  /\ q.uid \in 1..next - 1
      /\ \A m \in UserName : user[m] = q.uid => m = q.name

QueryInv(r) ==
  LET q == req[r]
  IN  /\ Asked(r) => Rights(q.name) \subseteq had[r]
      /\ q.phase \in {"roles", "resolve", "relation", "schema", "run"} => KnowsUser(r)
      /\ q.phase \in {"resolve", "relation", "schema", "run"} =>
           \A n \in q.roles : <<"member", n>> \in had[r]
      /\ q.phase = "run" => Suffice(had[r], q.oid)

IInv == /\ AccountsInv
        /\ had = [r \in Request |-> had[r]]
        /\ \A r \in Request : QueryInv(r)

-----------------------------------------------------------------------------
LEMMA NoQueryTyped == NoQuery \in Query
BY NamesAssumption, BoundAssumption DEF NoQuery, Query, Phase

LEMMA InitHolds == Init => IInv
<1> SUFFICES ASSUME Init PROVE IInv
  OBVIOUS
<1> USE NamesAssumption, BoundAssumption
<1>2. TypeOK
  BY NoQueryTyped DEF Init, TypeOK, Privilege, ObjectKey, Id, Action, System
<1>3. NoOrphans
  BY DEF Init, NoOrphans
<1>4. /\ role[Reader] # 0
      /\ \A m, n \in UserName : user[m] # 0 /\ user[m] = user[n] => m = n
      /\ \A p \in priv : \A o \in Id : p.obj = RelationOf(o) => o < next
  BY DEF Init, System, RelationOf
<1>5. \A r \in Request : QueryInv(r)
  BY DEF Init, QueryInv, NoQuery, Asked
<1>6. had = [r \in Request |-> had[r]]
  BY DEF Init
<1> QED BY <1>2, <1>3, <1>4, <1>5, <1>6 DEF IInv, AccountsInv

-----------------------------------------------------------------------------
(* What a command leaves of what the queries know.                         *)
LEMMA ObservedKeeps ==
  ASSUME IInv, Observed, TypeOK', next <= next',
         \A m \in UserName : user'[m] \in {user[m], 0, next}
  PROVE  /\ had' = [r \in Request |-> had'[r]]
         /\ \A r \in Request : QueryInv(r)'
<1>1. had' = [r \in Request |-> had'[r]]
  BY DEF Observed
<1>2. ASSUME NEW r \in Request PROVE QueryInv(r)'
  <2> DEFINE q == req[r]
  <2>0. req' = req /\ Asked(r)' = Asked(r) /\ QueryInv(r)
    BY <1>2 DEF Observed, IInv, Asked
  <2>1. had[r] \subseteq had'[r]
    BY DEF Observed
  <2>2. ASSUME Asked(r)' PROVE Rights(q.name)' \subseteq had'[r]
    BY <2>0, <2>2 DEF Observed
  <2>3. ASSUME q.phase \in {"roles", "resolve", "relation", "schema", "run"}
        PROVE  KnowsUser(r)'
    <3>1. KnowsUser(r) /\ next \in Nat /\ next' \in Nat
      BY <2>0, <2>3 DEF QueryInv, IInv, AccountsInv, TypeOK
    <3>2. q.uid \in 1..next' - 1
      BY <3>1 DEF KnowsUser
    <3>3. ASSUME NEW m \in UserName, user'[m] = q.uid PROVE m = q.name
      BY <3>1, <3>3 DEF KnowsUser
    <3> QED BY <2>0, <3>2, <3>3 DEF KnowsUser
  <2>4. ASSUME Suffice(had[r], q.oid) PROVE Suffice(had'[r], q.oid)
    BY <2>1, <2>4 DEF Suffice
  <2> QED BY <2>0, <2>1, <2>2, <2>3, <2>4 DEF QueryInv, Suffice
<1> QED BY <1>1, <1>2

LEMMA CommandKeeps ==
  ASSUME IInv, AccountsInv', Observed, next <= next',
         \A m \in UserName : user'[m] \in {user[m], 0, next}
  PROVE  IInv'
<1>1. TypeOK'
  BY DEF AccountsInv
<1> QED BY <1>1, ObservedKeeps DEF IInv

(* Ids in use are below next.                                              *)
LEMMA Below ==
  ASSUME AccountsInv
  PROVE  /\ next \in Nat
         /\ \A m \in member : m[1] < next /\ m[2] < next /\ m[1] \in Nat \ {0} /\ m[2] \in Nat \ {0}
         /\ \A p \in priv : p.id < next /\ p.id \in Nat \ {0}
<1> USE BoundAssumption
<1>1. next \in Nat
  BY DEF AccountsInv, TypeOK
<1>2. ASSUME NEW m \in member PROVE m[1] < next /\ m[2] < next /\ m[1] \in Nat \ {0} /\ m[2] \in Nat \ {0}
  BY <1>1 DEF AccountsInv, TypeOK, NoOrphans, Id
<1>3. ASSUME NEW p \in priv PROVE p.id < next /\ p.id \in Nat \ {0}
  <2>1. p.id \in Id /\ p.type \in {"user", "role"}
    BY DEF AccountsInv, TypeOK, Privilege
  <2>2. \/ \E n \in UserName : user[n] = p.id
        \/ \E n \in RoleName : role[n] = p.id
    BY DEF AccountsInv, NoOrphans
  <2> QED BY <1>1, <2>1, <2>2 DEF AccountsInv, TypeOK, Id
<1> QED BY <1>1, <1>2, <1>3

LEMMA CreateUserKeeps ==
  ASSUME IInv, NEW w \in UserName, NEW n \in UserName, CreateUser(w, n)
  PROVE  IInv'
<1> USE BoundAssumption, NamesAssumption
<1>1. AccountsInv /\ next \in Nat
  BY Below DEF IInv
<1>2. TypeOK'
  BY <1>1 DEF AccountsInv, TypeOK, CreateUser, Observed, Id
<1>3. NoOrphans'
  <2>1. \A m \in UserName \ {n} : user'[m] = user[m]
    BY <1>1 DEF CreateUser, AccountsInv, TypeOK
  <2>2. user'[n] = next
    BY <1>1 DEF CreateUser, AccountsInv, TypeOK
  <2>3. \A i \in Nat \ {0} : (\E m \in UserName : user[m] = i) => (\E m \in UserName : user'[m] = i)
    BY <2>1 DEF CreateUser
  <2>4. \A m \in member' : /\ \E x \in UserName : user'[x] = m[1]
                           /\ \E x \in RoleName : role'[x] = m[2]
    BY <1>1, <2>2, <2>3, Below DEF CreateUser, AccountsInv, NoOrphans
  <2> QED BY <1>1, <2>3, <2>4, Below DEF CreateUser, AccountsInv, NoOrphans
<1>4. \A a, b \in UserName : user'[a] # 0 /\ user'[a] = user'[b] => a = b
  BY <1>1 DEF CreateUser, AccountsInv, TypeOK
<1>5. role'[Reader] # 0 /\ \A p \in priv' : \A o \in Id : p.obj = RelationOf(o) => o < next'
  BY <1>1 DEF CreateUser, AccountsInv, Id
<1>6. AccountsInv'
  BY <1>2, <1>3, <1>4, <1>5 DEF AccountsInv
<1>7. \A m \in UserName : user'[m] \in {user[m], 0, next}
  BY <1>1 DEF CreateUser, AccountsInv, TypeOK
<1>8. Observed /\ next <= next'
  BY <1>1 DEF CreateUser
<1> QED BY <1>6, <1>7, <1>8, CommandKeeps

LEMMA DropUserKeeps ==
  ASSUME IInv, NEW w \in UserName, NEW n \in UserName, DropUser(w, n)
  PROVE  IInv'
<1> USE BoundAssumption, NamesAssumption
<1>1. AccountsInv /\ next \in Nat
  BY Below DEF IInv
<1>2. TypeOK'
  BY <1>1 DEF AccountsInv, TypeOK, DropUser, Observed, Id
<1>3. NoOrphans'
  <2>1. \A m \in UserName \ {n} : user'[m] = user[m]
    BY <1>1 DEF DropUser, AccountsInv, TypeOK
  <2>2. \A i : i # user[n] /\ (\E m \in UserName : user[m] = i) => (\E m \in UserName : user'[m] = i)
    BY <2>1
  <2>3. \A m \in member' : /\ \E x \in UserName : user'[x] = m[1]
                           /\ \E x \in RoleName : role'[x] = m[2]
    BY <1>1, <2>2 DEF DropUser, AccountsInv, NoOrphans
  <2>4. \A p \in priv' : IF p.type = "user" THEN \E x \in UserName : user'[x] = p.id
                         ELSE \E x \in RoleName : role'[x] = p.id
    BY <1>1, <2>2 DEF DropUser, AccountsInv, NoOrphans
  <2> QED BY <2>3, <2>4 DEF NoOrphans
<1>4. \A a, b \in UserName : user'[a] # 0 /\ user'[a] = user'[b] => a = b
  BY <1>1 DEF DropUser, AccountsInv, TypeOK
<1>5. role'[Reader] # 0 /\ \A p \in priv' : \A o \in Id : p.obj = RelationOf(o) => o < next'
  BY <1>1 DEF DropUser, AccountsInv, Id
<1>6. AccountsInv'
  BY <1>2, <1>3, <1>4, <1>5 DEF AccountsInv
<1>7. \A m \in UserName : user'[m] \in {user[m], 0, next}
  BY <1>1 DEF DropUser, AccountsInv, TypeOK
<1>8. Observed /\ next <= next'
  BY <1>1 DEF DropUser
<1> QED BY <1>6, <1>7, <1>8, CommandKeeps

LEMMA CreateRoleKeeps ==
  ASSUME IInv, NEW w \in UserName, NEW n \in RoleName, CreateRole(w, n)
  PROVE  IInv'
<1> USE BoundAssumption, NamesAssumption
<1>1. AccountsInv /\ next \in Nat
  BY Below DEF IInv
<1>2. TypeOK'
  BY <1>1 DEF AccountsInv, TypeOK, CreateRole, Observed, Id
<1>3. NoOrphans'
  <2>1. \A m \in RoleName \ {n} : role'[m] = role[m]
    BY <1>1 DEF CreateRole, AccountsInv, TypeOK
  <2>2. \A i \in Nat \ {0} : (\E m \in RoleName : role[m] = i) => (\E m \in RoleName : role'[m] = i)
    BY <2>1 DEF CreateRole
  <2> QED BY <1>1, <2>2, Below DEF CreateRole, AccountsInv, NoOrphans
<1>4. role'[Reader] # 0
  BY <1>1 DEF CreateRole, AccountsInv, TypeOK
<1>5. \A p \in priv' : \A o \in Id : p.obj = RelationOf(o) => o < next'
  BY <1>1 DEF CreateRole, AccountsInv, Id
<1>6. AccountsInv'
  BY <1>1, <1>2, <1>3, <1>4, <1>5 DEF AccountsInv, CreateRole
<1>8. Observed /\ next <= next' /\ user' = user
  BY <1>1 DEF CreateRole
<1> QED BY <1>6, <1>8, CommandKeeps

LEMMA DropRoleKeeps ==
  ASSUME IInv, NEW w \in UserName, NEW n \in RoleName, NEW cascade \in BOOLEAN, DropRole(w, n, cascade)
  PROVE  IInv'
<1> USE BoundAssumption, NamesAssumption
<1>1. AccountsInv /\ next \in Nat
  BY Below DEF IInv
<1>2. TypeOK'
  BY <1>1 DEF AccountsInv, TypeOK, DropRole, Observed, Id
<1>3. NoOrphans'
  <2>1. \A m \in RoleName \ {n} : role'[m] = role[m]
    BY <1>1 DEF DropRole, AccountsInv, TypeOK
  <2>2. \A i : i # role[n] /\ (\E m \in RoleName : role[m] = i) => (\E m \in RoleName : role'[m] = i)
    BY <2>1
  <2>3. \A m \in member' : /\ \E x \in UserName : user'[x] = m[1]
                           /\ \E x \in RoleName : role'[x] = m[2]
    BY <1>1, <2>2 DEF DropRole, AccountsInv, NoOrphans
  <2>4. \A p \in priv' : IF p.type = "user" THEN \E x \in UserName : user'[x] = p.id
                         ELSE \E x \in RoleName : role'[x] = p.id
    <3> SUFFICES ASSUME NEW p \in priv'
                 PROVE  IF p.type = "user" THEN \E x \in UserName : user'[x] = p.id
                        ELSE \E x \in RoleName : role'[x] = p.id
      OBVIOUS
    <3>1. p \in priv /\ user' = user /\ (p.type = "role" => p.id # role[n]) /\ p.type \in {"user", "role"}
      BY <1>1 DEF DropRole, AccountsInv, TypeOK, Privilege
    <3> QED BY <1>1, <2>2, <3>1 DEF AccountsInv, NoOrphans
  <2> QED BY <2>3, <2>4 DEF NoOrphans
<1>4. role'[Reader] # 0
  BY <1>1 DEF DropRole, AccountsInv, TypeOK, Builtin
<1>5. \A p \in priv' : \A o \in Id : p.obj = RelationOf(o) => o < next'
  BY <1>1 DEF DropRole, AccountsInv, Id
<1>6. AccountsInv'
  BY <1>1, <1>2, <1>3, <1>4, <1>5 DEF AccountsInv, DropRole
<1>8. Observed /\ next <= next' /\ user' = user
  BY <1>1 DEF DropRole
<1> QED BY <1>6, <1>8, CommandKeeps

LEMMA MembersKeep ==
  ASSUME IInv, NEW w \in UserName, NEW n \in UserName, NEW r \in RoleName,
         GrantRole(w, n, r) \/ RevokeRole(w, n, r)
  PROVE  IInv'
<1> USE BoundAssumption, NamesAssumption
<1>1. AccountsInv /\ next \in Nat
  BY Below DEF IInv
<1>2. /\ UNCHANGED <<user, role, rel, priv, next>> /\ Observed
      /\ \A m \in member' : m \in member \/ m = <<user[n], role[r]>>
      /\ user[n] \in Id /\ role[r] \in Id
  BY <1>1 DEF GrantRole, RevokeRole, AccountsInv, TypeOK, Id
<1>3. req' = req
  BY <1>2 DEF Observed
<1>4. TypeOK'
  BY <1>1, <1>2, <1>3 DEF AccountsInv, TypeOK
<1>5. NoOrphans'
  BY <1>1, <1>2 DEF AccountsInv, NoOrphans
<1>6. AccountsInv'
  BY <1>1, <1>2, <1>4, <1>5 DEF AccountsInv
<1> QED BY <1>1, <1>2, <1>6, CommandKeeps

LEMMA PrivilegesKeep ==
  ASSUME IInv, NEW w \in UserName, NEW t \in TableName, NEW g \in Grantee, NEW h \in Grantable,
         Grant(w, g[1], g[2], h[1], t, h[2]) \/ Revoke(w, g[1], g[2], h[1], t, h[2])
  PROVE  IInv'
<1> USE BoundAssumption, NamesAssumption
<1>1. AccountsInv /\ next \in Nat
  BY Below DEF IInv
<1> DEFINE p == Granted(g[1], g[2], h[1], t, h[2])
<1>2. /\ UNCHANGED <<user, role, rel, member, next>> /\ Observed
      /\ \A x \in priv' : x \in priv \/ x = p
      /\ Resolved(g[1], g[2], h[1], t)
  BY DEF Grant, Revoke
<1>3. /\ g[1] \in {"user", "role"}
      /\ g[1] = "user" => g[2] \in UserName
      /\ g[1] = "role" => g[2] \in RoleName
      /\ h[1] \in {"system", "schema", "relation"}
      /\ h[2] \in Action
  BY GrantAssumption DEF Action
<1>4. /\ p.type = g[1] /\ p.id = Named(g[1], g[2])
      /\ p.obj = Target(h[1], t) /\ p.action = h[2]
  BY DEF Granted
<1>5. p.id \in Id /\ p.obj \in ObjectKey
  <2>1. p.id \in Id
    BY <1>1, <1>2, <1>3, <1>4 DEF Resolved, Named, AccountsInv, TypeOK, Id
  <2>2. h[1] = "relation" => rel[t] \in Id
    BY <1>1, <1>2 DEF Resolved, AccountsInv, TypeOK, Id
  <2> QED BY <1>3, <1>4, <2>1, <2>2 DEF Target, ObjectKey
<1>6. p \in Privilege
  BY <1>3, <1>4, <1>5 DEF Granted, Privilege
<1>7. req' = req
  BY <1>2 DEF Observed
<1>8. TypeOK'
  BY <1>1, <1>2, <1>6, <1>7 DEF AccountsInv, TypeOK
<1>9. NoOrphans'
  <2>1. IF p.type = "user" THEN \E n \in UserName : user[n] = p.id
        ELSE \E n \in RoleName : role[n] = p.id
    BY <1>3, <1>4 DEF Named
  <2> QED BY <1>1, <1>2, <2>1 DEF AccountsInv, NoOrphans
<1>10. \A o \in Id : p.obj = RelationOf(o) => o < next
  BY <1>1, <1>2, <1>3, <1>4 DEF Target, RelationOf, System, Main, Resolved, AccountsInv, TypeOK
<1>11. AccountsInv'
  BY <1>1, <1>2, <1>8, <1>9, <1>10 DEF AccountsInv
<1> QED BY <1>1, <1>2, <1>11, CommandKeeps

LEMMA TablesKeep ==
  ASSUME IInv, NEW w \in UserName, NEW t \in TableName, CreateTable(w, t) \/ DropTable(w, t)
  PROVE  IInv'
<1> USE BoundAssumption, NamesAssumption
<1>1. AccountsInv /\ next \in Nat
  BY Below DEF IInv
<1>2. /\ UNCHANGED <<user, role, member, priv>> /\ Observed
      /\ next' \in {next, next + 1} /\ next' \in 1..MaxId + 1
      /\ rel' \in [TableName -> 0..next' - 1]
  BY <1>1 DEF CreateTable, DropTable, AccountsInv, TypeOK, Id
<1>3. req' = req
  BY <1>2 DEF Observed
<1>4. TypeOK'
  BY <1>1, <1>2, <1>3 DEF AccountsInv, TypeOK
<1>5. AccountsInv'
  BY <1>1, <1>2, <1>4 DEF AccountsInv, NoOrphans, Id
<1> QED BY <1>1, <1>2, <1>5, CommandKeeps

-----------------------------------------------------------------------------
(* A query that finds, with what it holds, a right to read had it.         *)
LEMMA ExplicitSuffices ==
  ASSUME IInv, NEW r \in Request, req[r].phase \in {"relation", "schema"},
         NEW obj \in {RelationOf(req[r].oid), Main},
         Explicit(req[r].uid, req[r].roles, obj, "read")
  PROVE  Suffice(had[r], req[r].oid)
<1> DEFINE q == req[r]
<1>1. /\ q \in Query /\ QueryInv(r) /\ AccountsInv
      /\ Rights(q.name) \subseteq had[r]
      /\ KnowsUser(r)
      /\ \A n \in q.roles : <<"member", n>> \in had[r]
  BY DEF IInv, AccountsInv, TypeOK, QueryInv, Asked
<1>2. PICK p \in priv : /\ p.obj = obj /\ p.action = "read"
                        /\ \/ p.type = "user" /\ p.id = q.uid
                           \/ p.type = "role" /\ \E n \in q.roles : role[n] = p.id
  BY DEF Explicit
<1>3. CASE p.type = "user" /\ p.id = q.uid
  <2>1. PICK m \in UserName : user[m] = p.id
    BY <1>1, <1>3 DEF AccountsInv, NoOrphans
  <2>2. m = q.name
    BY <1>1, <1>3, <2>1 DEF KnowsUser
  <2>3. <<"user", obj>> \in Rights(q.name)
    BY <1>2, <1>3, <2>1, <2>2 DEF Rights
  <2> QED BY <1>1, <2>3 DEF Suffice
<1>4. CASE p.type = "role" /\ \E n \in q.roles : role[n] = p.id
  <2>1. PICK n \in q.roles : role[n] = p.id
    BY <1>4
  <2>2. n \in RoleName
    BY <1>1 DEF Query
  <2>3. <<"role", n, obj>> \in {<<"role", n, x.obj>> :
                                 x \in {y \in priv : y.type = "role" /\ y.id = role[n] /\ y.action = "read"}}
    BY <1>2, <1>4, <2>1
  <2>4. <<"role", n, obj>> \in Rights(q.name)
    BY <2>2, <2>3 DEF Rights
  <2> QED BY <1>1, <2>2, <2>4 DEF Suffice
<1> QED BY <1>2, <1>3, <1>4

(* Steps of a query leave the other queries what they had.                 *)
LEMMA OthersKeep ==
  ASSUME IInv, NEW r \in Request, UNCHANGED accounts,
         NEW q \in Query, req' = [req EXCEPT ![r] = q],
         had' = [x \in Request |-> had'[x]],
         \A x \in Request \ {r} : had'[x] = had[x],
         QueryInv(r)'
  PROVE  IInv'
<1>1. req' \in [Request -> Query]
  BY DEF IInv, AccountsInv, TypeOK
<1>2. AccountsInv'
  BY <1>1 DEF IInv, AccountsInv, accounts, TypeOK, NoOrphans
<1>3. ASSUME NEW x \in Request \ {r} PROVE QueryInv(x)'
  <2>1. req'[x] = req[x] /\ had'[x] = had[x] /\ QueryInv(x)
    BY <1>3 DEF IInv, AccountsInv, TypeOK
  <2> QED BY <2>1 DEF QueryInv, accounts, Asked, Rights, RolesOf, KnowsUser
<1> QED BY <1>2, <1>3 DEF IInv

LEMMA AskKeeps ==
  ASSUME IInv, NEW r \in Request, NEW n \in UserName, NEW t \in TableName, Ask(r, n, t)
  PROVE  IInv'
<1> USE NamesAssumption, BoundAssumption
<1> DEFINE q == [NoQuery EXCEPT !.phase = "user", !.name = n, !.table = t]
<1>1. q \in Query /\ q.phase = "user" /\ q.name = n
  BY NoQueryTyped DEF Query, Phase
<1>2. /\ UNCHANGED accounts /\ req' = [req EXCEPT ![r] = q]
      /\ had' = [had EXCEPT ![r] = Rights(n)]
  BY DEF Ask
<1>3. req'[r] = q /\ had'[r] = Rights(n)
  BY <1>2 DEF IInv, AccountsInv, TypeOK
<1>4. Rights(n)' = Rights(n)
  BY <1>2 DEF Rights, RolesOf, accounts
<1>5. QueryInv(r)'
  BY <1>1, <1>3, <1>4 DEF QueryInv
<1> QED BY <1>1, <1>2, <1>5, OthersKeep DEF IInv

LEMMA AnswersKeep ==
  ASSUME IInv, NEW r \in Request, NEW phase \in {"idle", "refused"}, Answers(r, phase)
  PROVE  IInv'
<1> USE NamesAssumption, BoundAssumption
<1> DEFINE q == [NoQuery EXCEPT !.phase = phase]
<1>1. q \in Query /\ q.phase = phase
  BY NoQueryTyped DEF Query, Phase
<1>2. /\ UNCHANGED accounts /\ req' = [req EXCEPT ![r] = q]
      /\ had' = [had EXCEPT ![r] = {}]
  BY DEF Answers
<1>3. req'[r] = q
  BY <1>2 DEF IInv, AccountsInv, TypeOK
<1>4. QueryInv(r)'
  BY <1>1, <1>3 DEF QueryInv, Asked
<1> QED BY <1>1, <1>2, <1>4, OthersKeep DEF IInv

(* A query that goes on, with what it must know then.                      *)
LEMMA ContinuesKeeps ==
  ASSUME IInv, NEW r \in Request, NEW q \in Query, Continues(r, q), Asked(r),
         q.name = req[r].name,
         q.phase \in {"roles", "resolve", "relation", "schema", "run"},
         q.uid \in 1..next - 1,
         \A m \in UserName : user[m] = q.uid => m = q.name,
         q.phase # "roles" => \A n \in q.roles : <<"member", n>> \in had[r],
         q.phase = "run" => Suffice(had[r], q.oid)
  PROVE  IInv'
<1>1. UNCHANGED accounts /\ req' = [req EXCEPT ![r] = q] /\ had' = had
  BY DEF Continues, accounts
<1>2. req'[r] = q
  BY <1>1 DEF IInv, AccountsInv, TypeOK
<1>3. Rights(q.name)' = Rights(q.name) /\ Rights(q.name) \subseteq had[r]
  BY <1>1 DEF Rights, RolesOf, accounts, IInv, QueryInv
<1>4. KnowsUser(r)'
  BY <1>1, <1>2 DEF KnowsUser, accounts
<1>5. QueryInv(r)'
  BY <1>1, <1>2, <1>3, <1>4 DEF QueryInv
<1> QED BY <1>1, <1>5, OthersKeep DEF IInv

LEMMA QueryKeeps ==
  ASSUME IInv, NEW r \in Request,
         \/ ReadUser(r) \/ ReadRoles(r) \/ Resolve(r)
         \/ DecideRelation(r) \/ DecideSchema(r) \/ Run(r)
  PROVE  IInv'
<1> USE NamesAssumption, BoundAssumption
<1> DEFINE q == req[r]
<1>1. /\ q \in Query /\ QueryInv(r) /\ AccountsInv /\ next \in Nat
      /\ q.name \in UserName /\ q.table \in TableName
  BY Below DEF IInv, AccountsInv, TypeOK, Query
<1>2. CASE ReadUser(r)
  <2>1. CASE user[q.name] = 0
    BY <1>2, <2>1, AnswersKeep DEF ReadUser
  <2>2. CASE user[q.name] # 0
    <3> DEFINE e == [To(r, "roles") EXCEPT !.uid = user[q.name]]
    <3>1. user[q.name] \in 1..next - 1 /\ user[q.name] \in 0..MaxId
      BY <1>1, <2>2 DEF AccountsInv, TypeOK
    <3>2. e \in Query /\ e.name = q.name /\ e.phase = "roles" /\ e.uid = user[q.name]
      BY <1>1, <3>1 DEF To, Query, Phase
    <3>3. \A m \in UserName : user[m] = e.uid => m = e.name
      BY <1>1, <2>2, <3>2 DEF AccountsInv
    <3>4. Continues(r, e) /\ Asked(r)
      BY <1>2, <2>2 DEF ReadUser, Asked
    <3> HIDE DEF e
    <3> QED BY <3>1, <3>2, <3>3, <3>4, ContinuesKeeps
  <2> QED BY <2>1, <2>2
<1>3. CASE ReadRoles(r)
  <2> DEFINE e == [To(r, "resolve") EXCEPT !.roles = RolesOf(q.uid)]
  <2>1. e \in Query /\ e.name = q.name /\ e.phase = "resolve" /\ e.uid = q.uid /\ e.roles = RolesOf(q.uid)
    BY <1>1 DEF To, Query, Phase, RolesOf
  <2>2. q.phase = "roles" /\ Continues(r, e) /\ Asked(r)
    BY <1>3 DEF ReadRoles, Asked
  <2>3. KnowsUser(r) /\ Rights(q.name) \subseteq had[r]
    BY <1>1, <2>2 DEF QueryInv
  <2>4. ASSUME NEW n \in RolesOf(q.uid) PROVE <<"member", n>> \in had[r]
    <3>1. n \in RoleName /\ role[n] # 0 /\ <<q.uid, role[n]>> \in member
      BY DEF RolesOf
    <3>2. PICK m \in UserName : user[m] = q.uid
      BY <1>1, <3>1 DEF AccountsInv, NoOrphans
    <3>3. m = q.name
      BY <2>3, <3>2 DEF KnowsUser
    <3>4. n \in RolesOf(user[q.name])
      BY <3>1, <3>2, <3>3 DEF RolesOf
    <3>5. <<"member", n>> \in Rights(q.name)
      BY <3>4 DEF Rights
    <3> QED BY <2>3, <3>5
  <2> HIDE DEF e
  <2> QED BY <2>1, <2>2, <2>3, <2>4, ContinuesKeeps DEF KnowsUser
<1>4. CASE Resolve(r)
  <2>1. CASE rel[q.table] = 0
    BY <1>4, <2>1, AnswersKeep DEF Resolve
  <2>2. CASE rel[q.table] # 0
    <3> DEFINE e == [To(r, "relation") EXCEPT !.oid = rel[q.table]]
    <3>1. rel[q.table] \in 0..MaxId
      BY <1>1 DEF AccountsInv, TypeOK
    <3>2. e \in Query /\ e.name = q.name /\ e.phase = "relation" /\ e.uid = q.uid /\ e.roles = q.roles
      BY <1>1, <3>1 DEF To, Query, Phase
    <3>3. q.phase = "resolve" /\ Continues(r, e) /\ Asked(r)
      BY <1>4, <2>2 DEF Resolve, Asked
    <3>4. KnowsUser(r) /\ \A n \in q.roles : <<"member", n>> \in had[r]
      BY <1>1, <3>3 DEF QueryInv
    <3> HIDE DEF e
    <3> QED BY <3>2, <3>3, <3>4, ContinuesKeeps DEF KnowsUser
  <2> QED BY <2>1, <2>2
<1>5. CASE q.phase \in {"relation", "schema"} /\ \E p \in {"run", "schema"} :
             /\ Continues(r, To(r, p))
             /\ p = "run" => Suffice(had[r], q.oid)
  <2>1. PICK p \in {"run", "schema"} : Continues(r, To(r, p)) /\ (p = "run" => Suffice(had[r], q.oid))
    BY <1>5
  <2>2. PICK e \in Query : e = To(r, p)
    BY <1>1 DEF To, Query, Phase
  <2>3. e.name = q.name /\ e.phase = p /\ e.uid = q.uid /\ e.roles = q.roles /\ e.oid = q.oid
    BY <1>1, <2>2 DEF To, Query
  <2>4. KnowsUser(r) /\ (\A n \in q.roles : <<"member", n>> \in had[r]) /\ Asked(r)
    BY <1>1, <1>5 DEF QueryInv, Asked
  <2> QED BY <2>1, <2>2, <2>3, <2>4, ContinuesKeeps DEF KnowsUser
<1>6. CASE DecideRelation(r)
  <2>1. ASSUME AdminRole \in q.roles PROVE Suffice(had[r], q.oid)
    BY <1>1, <1>6, <2>1 DEF DecideRelation, QueryInv, Suffice
  <2>2. ASSUME Explicit(q.uid, q.roles, RelationOf(q.oid), "read") PROVE Suffice(had[r], q.oid)
    BY <1>6, <2>2, ExplicitSuffices DEF DecideRelation
  <2> QED BY <1>5, <1>6, <2>1, <2>2 DEF DecideRelation
<1>7. CASE DecideSchema(r)
  <2>1. ASSUME Explicit(q.uid, q.roles, Main, "read") PROVE Suffice(had[r], q.oid)
    BY <1>7, <2>1, ExplicitSuffices DEF DecideSchema
  <2> QED BY <1>5, <1>7, <2>1, AnswersKeep DEF DecideSchema
<1>8. CASE Run(r)
  BY <1>8, AnswersKeep DEF Run
<1> QED BY <1>2, <1>3, <1>4, <1>6, <1>7, <1>8

LEMMA NextKeeps == IInv /\ [Next]_vars => IInv'
<1> SUFFICES ASSUME IInv, [Next]_vars PROVE IInv'
  OBVIOUS
<1>1. ASSUME NEW w \in UserName, Command(w) PROVE IInv'
  BY <1>1, CreateUserKeeps, DropUserKeeps, CreateRoleKeeps, DropRoleKeeps, MembersKeep,
     TablesKeep, PrivilegesKeep DEF Command
<1>2. ASSUME NEW r \in Request, NEW n \in UserName, NEW t \in TableName, Ask(r, n, t) PROVE IInv'
  BY <1>2, AskKeeps
<1>3. CASE UNCHANGED vars
  <2>1. AccountsInv'
    BY <1>3 DEF vars, IInv, AccountsInv, TypeOK, NoOrphans
  <2>2. \A r \in Request : QueryInv(r)'
    BY <1>3 DEF vars, IInv, QueryInv, Asked, Rights, RolesOf, KnowsUser
  <2> QED BY <1>3, <2>1, <2>2 DEF vars, IInv
<1> QED BY <1>1, <1>2, <1>3, QueryKeeps DEF Next

-----------------------------------------------------------------------------
THEOREM Invariance == Spec => []IInv
<1> QED BY InitHolds, NextKeeps, PTL DEF Spec

(* Grants.TypeOK: ids stay below next_oid, rows name ids that were given.  *)
THEOREM TypesKept == Spec => []TypeOK
<1>1. IInv => TypeOK
  BY DEF IInv, AccountsInv
<1> QED BY <1>1, Invariance, PTL

(* drop.rs:61-141: DROP USER and DROP ROLE leave no membership and no      *)
(* privilege of what they drop.                                            *)
THEOREM NoRightsOfTheGone == Spec => []NoOrphans
<1>1. IInv => NoOrphans
  BY DEF IInv, AccountsInv
<1> QED BY <1>1, Invariance, PTL

(* principal.rs:249-295, authorize.rs:46-73: however commands of others    *)
(* come between its statements, a query runs only if its user had a right  *)
(* to read the relation since it asked.                                    *)
THEOREM QueriesReadWhatIsGranted == Spec => []ReadsGranted
<1>1. IInv => ReadsGranted
  BY DEF IInv, QueryInv, ReadsGranted
<1> QED BY <1>1, Invariance, PTL

(* user_role.rs:24-49, lookup.rs:588-676: a user, a role or a table that   *)
(* is created inherits nothing, not from one that had its name before.     *)
THEOREM NewInheritsNothing == Spec => NewHasDefaults
<1> DEFINE Fresh ==
      /\ \A n \in UserName : user'[n] \notin {0, user[n]} =>
           /\ {m \in member' : m[1] = user'[n]} = {<<user'[n], role[Reader]>>}
           /\ \A p \in priv' : p.type = "user" => p.id # user'[n]
      /\ \A n \in RoleName : role'[n] \notin {0, role[n]} =>
           /\ \A m \in member' : m[2] # role'[n]
           /\ \A p \in priv' : p.type = "role" => p.id # role'[n]
      /\ \A t \in TableName : rel'[t] \notin {0, rel[t]} =>
           \A p \in priv' : p.obj # RelationOf(rel'[t])
<1>1. ASSUME IInv, [Next]_vars PROVE Fresh \/ UNCHANGED vars
  <2>0. /\ AccountsInv /\ user \in [UserName -> 0..next - 1]
        /\ role \in [RoleName -> 0..next - 1] /\ rel \in [TableName -> 0..next - 1]
    BY <1>1 DEF IInv, AccountsInv, TypeOK
  <2>1. ASSUME NEW w \in UserName, NEW n \in UserName, CreateUser(w, n) PROVE Fresh
    <3>1. /\ user' = [user EXCEPT ![n] = next] /\ UNCHANGED <<role, rel, priv>>
          /\ member' = member \union {<<next, role[Reader]>>}
      BY <2>1 DEF CreateUser
    <3>2. ASSUME NEW x \in UserName, user'[x] \notin {0, user[x]} PROVE user'[x] = next
      BY <2>0, <3>1, <3>2
    <3>3. {m \in member' : m[1] = next} = {<<next, role[Reader]>>}
      BY <2>0, <3>1, Below
    <3>4. \A p \in priv' : p.id # next
      BY <2>0, <3>1, Below
    <3> QED BY <3>1, <3>2, <3>3, <3>4
  <2>2. ASSUME NEW w \in UserName, NEW n \in RoleName, CreateRole(w, n) PROVE Fresh
    <3>1. role' = [role EXCEPT ![n] = next] /\ UNCHANGED <<user, rel, member, priv>>
      BY <2>2 DEF CreateRole
    <3>2. ASSUME NEW x \in RoleName, role'[x] \notin {0, role[x]} PROVE role'[x] = next
      BY <2>0, <3>1, <3>2
    <3>3. (\A m \in member' : m[2] # next) /\ \A p \in priv' : p.id # next
      BY <2>0, <3>1, Below
    <3> QED BY <3>1, <3>2, <3>3
  <2>3. ASSUME NEW w \in UserName, NEW t \in TableName, CreateTable(w, t) PROVE Fresh
    <3>1. /\ rel' = [rel EXCEPT ![t] = next] /\ UNCHANGED <<user, role, member, priv>>
          /\ next \in Id
      BY <2>0, <2>3, Below DEF CreateTable, AccountsInv, TypeOK, Id
    <3>2. ASSUME NEW x \in TableName, rel'[x] \notin {0, rel[x]} PROVE rel'[x] = next
      BY <2>0, <3>1, <3>2
    <3>3. \A p \in priv' : p.obj # RelationOf(next)
      BY <2>0, <3>1, Below DEF AccountsInv
    <3> QED BY <3>1, <3>2, <3>3
  <2>4. ASSUME NEW n \in UserName, NEW w \in UserName, DropUser(w, n) PROVE Fresh
    BY <2>0, <2>4 DEF DropUser
  <2>5. ASSUME NEW n \in RoleName, NEW w \in UserName, NEW cascade \in BOOLEAN, DropRole(w, n, cascade)
        PROVE  Fresh
    BY <2>0, <2>5 DEF DropRole
  <2>6. ASSUME NEW t \in TableName, NEW w \in UserName, DropTable(w, t) PROVE Fresh
    BY <2>0, <2>6 DEF DropTable
  <2>7. ASSUME UNCHANGED <<user, role, rel>> PROVE Fresh
    BY <2>7
  <2>8. ASSUME NEW w \in UserName, Command(w) PROVE Fresh
    <3>1. ASSUME NEW u \in UserName, NEW r \in RoleName, GrantRole(w, u, r) \/ RevokeRole(w, u, r)
          PROVE  UNCHANGED <<user, role, rel>>
      BY <3>1 DEF GrantRole, RevokeRole
    <3>2. ASSUME NEW t \in TableName, NEW g \in Grantee, NEW h \in Grantable,
                 Grant(w, g[1], g[2], h[1], t, h[2]) \/ Revoke(w, g[1], g[2], h[1], t, h[2])
          PROVE  UNCHANGED <<user, role, rel>>
      BY <3>2 DEF Grant, Revoke
    <3> HIDE DEF Fresh
    <3> QED BY <2>1, <2>2, <2>3, <2>4, <2>5, <2>6, <2>7, <2>8, <3>1, <3>2 DEF Command
  <2>9. ASSUME NEW r \in Request, NEW n \in UserName, NEW t \in TableName, Ask(r, n, t)
        PROVE  UNCHANGED <<user, role, rel>>
    BY <2>9 DEF Ask, accounts
  <2>10. ASSUME NEW r \in Request,
                \/ ReadUser(r) \/ ReadRoles(r) \/ Resolve(r)
                \/ DecideRelation(r) \/ DecideSchema(r) \/ Run(r)
         PROVE  UNCHANGED <<user, role, rel>>
    BY <2>10 DEF ReadUser, ReadRoles, Resolve, DecideRelation, DecideSchema, Run,
                 Answers, Continues, accounts
  <2> HIDE DEF Fresh
  <2> QED BY <1>1, <2>7, <2>8, <2>9, <2>10 DEF Next
<1>2. IInv /\ [Next]_vars => [Fresh]_vars
  BY <1>1
<1> QED BY <1>2, Invariance, PTL DEF Spec, NewHasDefaults

-----------------------------------------------------------------------------
(* What a query that is refused could have read.  The ways to read that    *)
(* have lasted since it was asked are there now, and what the query holds  *)
(* in its locals is what they go by.                                       *)

HoldsWays(ws, q) ==
  \A w \in ws :
    /\ q.phase \in {"roles", "resolve", "relation", "schema", "run"} => w[1] = q.uid
    /\ q.phase \in {"resolve", "relation", "schema", "run"} => w[3] \subseteq q.roles
    /\ q.phase \in {"relation", "schema", "run"} => w[2] = q.oid
    /\ q.phase = "schema" => w[4] = Main /\ w[3] # {AdminRole}

WayInv(r) == Asked(r) => /\ kept[r] \subseteq Ways(req[r].name, req[r].table)
                         /\ HoldsWays(kept[r], req[r])

WaysInv == /\ kept = [r \in Request |-> kept[r]]
           /\ \A r \in Request : WayInv(r)

LEMMA RightsAre ==
  ASSUME NEW n
  PROVE  /\ \A x : <<"member", x>> \in Rights(n) => x \in RolesOf(user[n])
         /\ \A o : <<"user", o>> \in Rights(n) =>
              \E p \in priv : p.type = "user" /\ p.id = user[n] /\ p.action = "read" /\ p.obj = o
         /\ \A x, o : <<"role", x, o>> \in Rights(n) =>
              /\ x \in RoleName
              /\ \E p \in priv : p.type = "role" /\ p.id = role[x] /\ p.action = "read" /\ p.obj = o
BY DEF Rights

LEMMA WayIs ==
  ASSUME NEW n, NEW t, NEW w \in Ways(n, t)
  PROVE  /\ user[n] # 0 /\ rel[t] # 0 /\ w[1] = user[n] /\ w[2] = rel[t]
         /\ w[4] \in {RelationOf(rel[t]), Main}
BY DEF Ways

LEMMA WayBy ==
  ASSUME NEW n, NEW t, NEW w \in Ways(n, t)
  PROVE  \/ w[3] = {} /\ <<"user", w[4]>> \in Rights(n)
         \/ \E x \in RoleName : /\ w[3] = {x} /\ <<"member", x>> \in Rights(n)
                                /\ x = AdminRole \/ <<"role", x, w[4]>> \in Rights(n)
BY DEF Ways

(* A way whose role, if any, is known is one the query finds.              *)
LEMMA WayFound ==
  ASSUME NEW n, NEW t, NEW w \in Ways(n, t), NEW roles, w[3] \subseteq roles, w[3] # {AdminRole}
  PROVE  Explicit(w[1], roles, w[4], "read")
<1>1. CASE w[3] = {} /\ <<"user", w[4]>> \in Rights(n)
  BY <1>1, WayIs, RightsAre DEF Explicit
<1>2. CASE \E x \in RoleName : /\ w[3] = {x} /\ <<"member", x>> \in Rights(n)
                               /\ x = AdminRole \/ <<"role", x, w[4]>> \in Rights(n)
  <2>1. PICK x \in RoleName : /\ w[3] = {x}
                              /\ x = AdminRole \/ <<"role", x, w[4]>> \in Rights(n)
    BY <1>2
  <2>2. x \in roles /\ <<"role", x, w[4]>> \in Rights(n)
    BY <2>1
  <2> QED BY <2>2, RightsAre DEF Explicit
<1> QED BY <1>1, <1>2, WayBy

LEMMA SameWays ==
  ASSUME UNCHANGED accounts, NEW n, NEW t
  PROVE  Ways(n, t)' = Ways(n, t)
BY DEF Ways, Rights, RolesOf, accounts

LEMMA ObservedKeepsWays ==
  ASSUME WaysInv, Observed
  PROVE  WaysInv'
<1>1. req' = req /\ kept' = [r \in Request |-> kept'[r]]
  BY DEF Observed
<1>2. ASSUME NEW r \in Request PROVE WayInv(r)'
  <2> SUFFICES ASSUME Asked(r)
               PROVE  kept'[r] \subseteq Ways(req[r].name, req[r].table)' /\ HoldsWays(kept'[r], req[r])
    BY <1>1 DEF WayInv, HoldsWays, Asked
  <2>1. kept'[r] = kept[r] \intersect Ways(req[r].name, req[r].table)'
    BY DEF Observed
  <2>2. HoldsWays(kept[r], req[r])
    BY DEF WaysInv, WayInv
  <2> QED BY <2>1, <2>2 DEF HoldsWays
<1> QED BY <1>1, <1>2 DEF WaysInv

(* Steps of a query leave the ways of the others.                          *)
LEMMA OthersKeepWays ==
  ASSUME IInv, WaysInv, NEW r \in Request, UNCHANGED accounts,
         NEW q, req' = [req EXCEPT ![r] = q],
         kept' = [x \in Request |-> kept'[x]],
         \A x \in Request \ {r} : kept'[x] = kept[x],
         q.phase \notin {"idle", "refused"} =>
           kept'[r] \subseteq Ways(q.name, q.table) /\ HoldsWays(kept'[r], q)
  PROVE  WaysInv'
<1>1. ASSUME NEW x \in Request PROVE WayInv(x)'
  <2>1. req'[r] = q /\ (x # r => req'[x] = req[x])
    BY DEF IInv, AccountsInv, TypeOK
  <2>2. PICK p : p = req'[x]
    OBVIOUS
  <2>3. PICK k : k = kept'[x]
    OBVIOUS
  <2>4. ASSUME Asked(x)'
        PROVE  k \subseteq Ways(p.name, p.table)' /\ HoldsWays(k, p)
    <3>1. k \subseteq Ways(p.name, p.table) /\ HoldsWays(k, p)
      BY <2>1, <2>2, <2>3, <2>4 DEF WaysInv, WayInv, Asked
    <3>2. Ways(p.name, p.table)' = Ways(p.name, p.table)
      BY SameWays
    <3> QED BY <3>1, <3>2
  <2> QED BY <2>2, <2>3, <2>4 DEF WayInv, HoldsWays
<1> QED BY <1>1 DEF WaysInv

LEMMA ContinuesKeepsWays ==
  ASSUME IInv, WaysInv, NEW r \in Request, NEW q, Continues(r, q), Asked(r),
         q.name = req[r].name, q.table = req[r].table, HoldsWays(kept[r], q)
  PROVE  WaysInv'
<1>1. UNCHANGED accounts /\ req' = [req EXCEPT ![r] = q] /\ kept' = kept
  BY DEF Continues, accounts
<1>2. kept[r] \subseteq Ways(q.name, q.table)
  BY DEF WaysInv, WayInv
<1> QED BY <1>1, <1>2, OthersKeepWays DEF WaysInv

(* A query is refused only when no way to read has lasted.                 *)
LEMMA QueryKeepsWays ==
  ASSUME IInv, WaysInv, NEW r \in Request,
         \/ ReadUser(r) \/ ReadRoles(r) \/ Resolve(r)
         \/ DecideRelation(r) \/ DecideSchema(r) \/ Run(r)
  PROVE  /\ WaysInv'
         /\ \A x \in Request : Asked(x) /\ req'[x].phase = "refused" => kept[x] = {}
<1> DEFINE q == req[r]
<1>1. /\ q \in Query /\ Asked(r) /\ q.phase \in Phase
      /\ kept[r] \subseteq Ways(q.name, q.table) /\ HoldsWays(kept[r], q)
  <2>1. Asked(r)
    BY DEF Asked, ReadUser, ReadRoles, Resolve, DecideRelation, DecideSchema, Run
  <2> QED BY <2>1 DEF IInv, AccountsInv, TypeOK, Query, WaysInv, WayInv
<1>0. ASSUME NEW w \in kept[r]
      PROVE  /\ user[q.name] # 0 /\ rel[q.table] # 0 /\ w[1] = user[q.name] /\ w[2] = rel[q.table]
             /\ w[4] = RelationOf(w[2]) \/ w[4] = Main
             /\ w[3] \subseteq RolesOf(user[q.name])
             /\ \A roles : w[3] \subseteq roles /\ w[3] # {AdminRole} => Explicit(w[1], roles, w[4], "read")
  <2>1. PICK n, t : n = q.name /\ t = q.table
    OBVIOUS
  <2>2. w \in Ways(n, t)
    BY <1>1, <2>1
  <2>3. w[3] \subseteq RolesOf(user[n])
    <3>1. w[3] = {} \/ \E x \in RoleName : w[3] = {x} /\ <<"member", x>> \in Rights(n)
      BY <2>2, WayBy
    <3>2. \A x : <<"member", x>> \in Rights(n) => x \in RolesOf(user[n])
      BY RightsAre
    <3> QED BY <3>1, <3>2
  <2>4. \A roles : w[3] \subseteq roles /\ w[3] # {AdminRole} => Explicit(w[1], roles, w[4], "read")
    BY <2>2, WayFound
  <2>5. /\ user[n] # 0 /\ rel[t] # 0 /\ w[1] = user[n] /\ w[2] = rel[t]
        /\ w[4] \in {RelationOf(rel[t]), Main}
    BY <2>2, WayIs
  <2> QED BY <2>1, <2>3, <2>4, <2>5
<1>2. ASSUME NEW e, Continues(r, e), e.name = q.name, e.table = q.table, HoldsWays(kept[r], e),
             e.phase # "refused"
      PROVE  /\ WaysInv'
             /\ \A x \in Request : Asked(x) /\ req'[x].phase = "refused" => kept[x] = {}
  <2>1. req' = [req EXCEPT ![r] = e]
    BY <1>2 DEF Continues
  <2>2. \A x \in Request : req'[x].phase = "refused" => ~Asked(x)
    BY <1>2, <2>1 DEF IInv, AccountsInv, TypeOK, Asked
  <2> QED BY <1>1, <1>2, <2>2, ContinuesKeepsWays
<1>3. ASSUME NEW phase \in {"idle", "refused"}, Answers(r, phase), phase = "refused" => kept[r] = {}
      PROVE  /\ WaysInv'
             /\ \A x \in Request : Asked(x) /\ req'[x].phase = "refused" => kept[x] = {}
  <2> DEFINE e == [NoQuery EXCEPT !.phase = phase]
  <2>1. e.phase = phase
    BY DEF NoQuery
  <2>2. req' = [req EXCEPT ![r] = e] /\ kept' = [kept EXCEPT ![r] = {}] /\ UNCHANGED accounts
    BY <1>3 DEF Answers
  <2> HIDE DEF e
  <2>3. WaysInv'
    BY <2>1, <2>2, OthersKeepWays DEF WaysInv
  <2>4. \A x \in Request \ {r} : req'[x] = req[x]
    BY <2>2 DEF IInv, AccountsInv, TypeOK
  <2>5. req'[r].phase = phase
    BY <2>1, <2>2 DEF IInv, AccountsInv, TypeOK
  <2> QED BY <1>3, <2>3, <2>4, <2>5 DEF Asked
<1>4. CASE ReadUser(r)
  <2>1. CASE user[q.name] = 0
    <3>1. kept[r] = {}
      BY <1>0, <2>1
    <3> QED BY <1>3, <1>4, <2>1, <3>1 DEF ReadUser
  <2>2. CASE user[q.name] # 0
    <3> DEFINE e == [To(r, "roles") EXCEPT !.uid = user[q.name]]
    <3>1. e.name = q.name /\ e.table = q.table /\ e.phase = "roles" /\ e.uid = user[q.name]
      BY <1>1 DEF To, Query
    <3>2. Continues(r, e)
      BY <1>4, <2>2 DEF ReadUser
    <3> HIDE DEF e
    <3>3. HoldsWays(kept[r], e)
      BY <1>0, <1>1, <3>1 DEF HoldsWays
    <3> QED BY <1>2, <3>1, <3>2, <3>3
  <2> QED BY <2>1, <2>2
<1>5. CASE ReadRoles(r)
  <2> DEFINE e == [To(r, "resolve") EXCEPT !.roles = RolesOf(q.uid)]
  <2>1. /\ e.name = q.name /\ e.table = q.table /\ e.phase = "resolve" /\ e.uid = q.uid
        /\ e.roles = RolesOf(q.uid)
    BY <1>1 DEF To, Query
  <2>2. Continues(r, e) /\ q.phase = "roles"
    BY <1>5 DEF ReadRoles
  <2> HIDE DEF e
  <2>3. ASSUME NEW w \in kept[r] PROVE w[1] = q.uid /\ w[3] \subseteq RolesOf(q.uid)
    <3>1. w[1] = q.uid /\ w[1] = user[q.name]
      BY <1>0, <1>1, <2>2 DEF HoldsWays
    <3>2. w[3] \subseteq RolesOf(user[q.name])
      BY <1>0
    <3> QED BY <3>1, <3>2
  <2>4. HoldsWays(kept[r], e)
    BY <2>1, <2>3 DEF HoldsWays
  <2> QED BY <1>2, <2>1, <2>2, <2>4
<1>6. CASE Resolve(r)
  <2>1. CASE rel[q.table] = 0
    <3>1. kept[r] = {}
      BY <1>0, <2>1
    <3> QED BY <1>3, <1>6, <2>1, <3>1 DEF Resolve
  <2>2. CASE rel[q.table] # 0
    <3> DEFINE e == [To(r, "relation") EXCEPT !.oid = rel[q.table]]
    <3>1. /\ e.name = q.name /\ e.table = q.table /\ e.phase = "relation" /\ e.uid = q.uid
          /\ e.roles = q.roles /\ e.oid = rel[q.table]
      BY <1>1 DEF To, Query
    <3>2. Continues(r, e) /\ q.phase = "resolve"
      BY <1>6, <2>2 DEF Resolve
    <3> HIDE DEF e
    <3>3. HoldsWays(kept[r], e)
      BY <1>0, <1>1, <3>1, <3>2 DEF HoldsWays
    <3> QED BY <1>2, <3>1, <3>2, <3>3
  <2> QED BY <2>1, <2>2
<1>7. ASSUME q.phase \in {"relation", "schema"}, NEW p \in {"run", "schema"}, Continues(r, To(r, p)),
             p = "schema" => \A w \in kept[r] : w[4] = Main /\ w[3] # {AdminRole}
      PROVE  /\ WaysInv'
             /\ \A x \in Request : Asked(x) /\ req'[x].phase = "refused" => kept[x] = {}
  <2>1. PICK e : e = To(r, p)
    OBVIOUS
  <2>2. /\ e.name = q.name /\ e.table = q.table /\ e.phase = p /\ e.uid = q.uid /\ e.roles = q.roles
        /\ e.oid = q.oid
    BY <1>1, <2>1 DEF To, Query
  <2>3. HoldsWays(kept[r], e)
    BY <1>1, <1>7, <2>2 DEF HoldsWays
  <2> QED BY <1>2, <1>7, <2>1, <2>2, <2>3
<1>8. CASE DecideRelation(r)
  <2>0. q.phase = "relation"
    BY <1>8 DEF DecideRelation
  <2>1. CASE AdminRole \in q.roles \/ Explicit(q.uid, q.roles, RelationOf(q.oid), "read")
    BY <1>7, <1>8, <2>0, <2>1 DEF DecideRelation
  <2>2. CASE ~(AdminRole \in q.roles \/ Explicit(q.uid, q.roles, RelationOf(q.oid), "read"))
    <3>1. ASSUME NEW w \in kept[r] PROVE w[4] = Main /\ w[3] # {AdminRole}
      <4>1. w[1] = q.uid /\ w[2] = q.oid /\ w[3] \subseteq q.roles
        BY <1>1, <2>0 DEF HoldsWays
      <4>2. w[3] # {AdminRole}
        BY <2>2, <4>1
      <4> QED BY <1>0, <2>2, <4>1, <4>2
    <3> QED BY <1>7, <1>8, <2>0, <2>2, <3>1 DEF DecideRelation
  <2> QED BY <2>1, <2>2
<1>9. CASE DecideSchema(r)
  <2>0. q.phase = "schema"
    BY <1>9 DEF DecideSchema
  <2>1. CASE Explicit(q.uid, q.roles, Main, "read")
    BY <1>7, <1>9, <2>0, <2>1 DEF DecideSchema
  <2>2. CASE ~Explicit(q.uid, q.roles, Main, "read")
    <3>1. ASSUME NEW w \in kept[r] PROVE FALSE
      <4>1. w[1] = q.uid /\ w[3] \subseteq q.roles /\ w[4] = Main /\ w[3] # {AdminRole}
        BY <1>1, <2>0 DEF HoldsWays
      <4> QED BY <1>0, <2>2, <4>1
    <3> QED BY <1>3, <1>9, <2>2, <3>1 DEF DecideSchema
  <2> QED BY <2>1, <2>2
<1>10. CASE Run(r)
  <2>1. rel[q.table] = 0 => kept[r] = {}
    BY <1>0
  <2> QED BY <1>3, <1>10, <2>1 DEF Run
<1> QED BY <1>4, <1>5, <1>6, <1>8, <1>9, <1>10

LEMMA WaysStep ==
  ASSUME IInv, WaysInv, [Next]_vars
  PROVE  /\ WaysInv'
         /\ \A r \in Request : Asked(r) /\ req'[r].phase = "refused" => kept[r] = {}
<1>1. ASSUME Observed
      PROVE  /\ WaysInv'
             /\ \A r \in Request : Asked(r) /\ req'[r].phase = "refused" => kept[r] = {}
  <2>1. req' = req
    BY <1>1 DEF Observed
  <2> QED BY <1>1, <2>1, ObservedKeepsWays DEF Asked
<1>2. ASSUME NEW w \in UserName, Command(w) PROVE Observed
  BY <1>2 DEF Command, CreateUser, DropUser, CreateRole, DropRole, GrantRole, RevokeRole, CreateTable,
              DropTable, Grant, Revoke
<1>3. ASSUME NEW r \in Request, NEW n \in UserName, NEW t \in TableName, Ask(r, n, t)
      PROVE  /\ WaysInv'
             /\ \A x \in Request : Asked(x) /\ req'[x].phase = "refused" => kept[x] = {}
  <2> DEFINE e == [NoQuery EXCEPT !.phase = "user", !.name = n, !.table = t]
  <2>1. e.phase = "user" /\ e.name = n /\ e.table = t
    BY DEF NoQuery
  <2>2. req' = [req EXCEPT ![r] = e] /\ kept' = [kept EXCEPT ![r] = Ways(n, t)] /\ UNCHANGED accounts
    BY <1>3 DEF Ask
  <2> HIDE DEF e
  <2>3. /\ kept' = [x \in Request |-> kept'[x]] /\ kept'[r] = Ways(n, t)
        /\ \A x \in Request \ {r} : kept'[x] = kept[x]
    BY <2>2 DEF WaysInv
  <2>4. HoldsWays(kept'[r], e)
    BY <2>1 DEF HoldsWays
  <2>5. WaysInv'
    BY <2>1, <2>2, <2>3, <2>4, OthersKeepWays
  <2>6. \A x \in Request : req'[x].phase = "refused" => ~Asked(x)
    BY <2>1, <2>2 DEF IInv, AccountsInv, TypeOK, Asked
  <2> QED BY <2>5, <2>6
<1>4. CASE UNCHANGED vars
  <2>1. WaysInv'
    BY <1>4 DEF vars, WaysInv, WayInv, HoldsWays, Asked, Ways, Rights, RolesOf
  <2> QED BY <1>4, <2>1 DEF vars, Asked
<1> QED BY <1>1, <1>2, <1>3, <1>4, QueryKeepsWays DEF Next

(* authorize.rs:46-73: whatever is granted, revoked, created and dropped   *)
(* while a query is being authorized, it is refused only if no way for its *)
(* user to read the table was there from when it was asked until then.     *)
THEOREM RefusalsAreRight == Spec => RefusedRightly
<1>1. Init => WaysInv
  BY DEF Init, WaysInv, WayInv, Asked, NoQuery
<1>2. IInv /\ WaysInv /\ [Next]_vars => WaysInv'
  BY WaysStep
<1>3. IInv /\ WaysInv /\ [Next]_vars =>
        [\A r \in Request : Asked(r) /\ req'[r].phase = "refused" => kept[r] = {}]_vars
  BY WaysStep
<1> QED BY <1>1, <1>2, <1>3, Invariance, PTL DEF Spec, RefusedRightly
=============================================================================
