-------------------------------- MODULE Grants --------------------------------
(***************************************************************************)
(* Users, roles and privileges, the commands that change them on the write *)
(* connection, and how a query is authorized on a read connection while    *)
(* they change: by one statement after another, each of which sees what is *)
(* committed by then.                                                      *)
(*                                                                         *)
(* A command is authorized and carried out on the one connection that      *)
(* writes, and is one step; one that is refused or fails is none.  One     *)
(* schema; of the builtin roles only admin and reader; one grantee, object *)
(* and action a statement; the ids of journal entries, types and privilege *)
(* rows are left out, and so are passwords.                                *)
(***************************************************************************)
EXTENDS Naturals, FiniteSets

CONSTANTS UserName, Admin,             \* names of users; "admin"
          RoleName, AdminRole, Reader, \* names of roles; "admin", "reader"
          TableName,                   \* names of tables
          Request,                     \* queries
          Grantable,                   \* what is granted: object type and action
          Grantee,                     \* and to whom: "user" or "role", and a name
          MaxId,                       \* bound: the last oid allocated
          MaxRows,                     \* bound: rows granted at a time
          MaxChanges                   \* bound: commands while a query is under way

ASSUME NamesAssumption == /\ Admin \in UserName
                          /\ {AdminRole, Reader} \subseteq RoleName /\ AdminRole # Reader
                          /\ TableName # {}
ASSUME GrantAssumption ==
  /\ Grantee \subseteq ({"user"} \X UserName) \union ({"role"} \X RoleName)
  /\ Grantable \subseteq {"system", "schema", "relation"}
                           \X {"read", "write", "ddl", "manage_user", "manage_catalog", "manage_snapshot"}
ASSUME BoundAssumption == MaxId \in Nat /\ MaxId >= 3

VARIABLES user,    \* rs_user: the id under a name, 0 for none
          role,    \* rs_role
          rel,     \* rs_relation, the active tables
          member,  \* rs_user_role
          priv,    \* rs_privilege
          next,    \* rs_oid_alloc.next_oid
          req,     \* queries
          had,     \* history: what a query's user had since it was asked
          kept,    \* history: the ways to read it that it had all the time
          changes  \* history: commands carried out meanwhile

accounts == <<user, role, rel, member, priv, next>>
vars == <<user, role, rel, member, priv, next, req, had, kept, changes>>

Id == 1..MaxId
Builtin == {AdminRole, Reader}
System == <<"system", 0>>
Main == <<"schema", 0>>
RelationOf(o) == <<"relation", o>>
ObjectKey == {System, Main} \union {RelationOf(o) : o \in Id}
Action == {"read", "write", "ddl", "manage_user", "manage_catalog", "manage_snapshot"}
Privilege == [type: {"user", "role"}, id: Id, obj: ObjectKey, action: Action]

Phase == {"idle", "user", "roles", "resolve", "relation", "schema", "run", "refused"}
Query == [phase: Phase, name: UserName, table: TableName,
          uid: 0..MaxId, roles: SUBSET RoleName, oid: 0..MaxId]
NoQuery == [phase |-> "idle", name |-> Admin, table |-> CHOOSE t \in TableName : TRUE,
            uid |-> 0, roles |-> {}, oid |-> 0]

TypeOK == /\ user \in [UserName -> 0..next - 1]
          /\ role \in [RoleName -> 0..next - 1]
          /\ rel \in [TableName -> 0..next - 1]
          /\ member \subseteq Id \X Id
          /\ priv \subseteq Privilege
          /\ next \in 1..MaxId + 1
          /\ req \in [Request -> Query]

-----------------------------------------------------------------------------
(* Who may do what                                                         *)

RolesOf(uid) == {n \in RoleName : role[n] # 0 /\ <<uid, role[n]>> \in member}

(* has_explicit_privilege: the principal's roles are looked up by name.    *)
Explicit(uid, roles, obj, action) ==
  \E p \in priv : /\ p.obj = obj /\ p.action = action
                  /\ \/ p.type = "user" /\ p.id = uid
                     \/ p.type = "role" /\ \E n \in roles : role[n] = p.id

May(w, obj, action) ==
  /\ user[w] # 0
  /\ \/ AdminRole \in RolesOf(user[w])
     \/ Explicit(user[w], RolesOf(user[w]), obj, action)

(* What user n has that can bear on reading, with roles by their names.    *)
Rights(n) ==
  {<<"member", r>> : r \in RolesOf(user[n])} \union
  {<<"user", p.obj>> : p \in {q \in priv : q.type = "user" /\ q.id = user[n] /\ q.action = "read"}}
    \union
  UNION {{<<"role", r, p.obj>> : p \in {q \in priv : /\ q.type = "role" /\ q.id = role[r]
                                                     /\ q.action = "read"}} : r \in RoleName}

(* Rights that let their user read relation o.                             *)
Suffice(rights, o) ==
  \/ <<"member", AdminRole>> \in rights
  \/ \E obj \in {RelationOf(o), Main} :
       \/ <<"user", obj>> \in rights
       \/ \E r \in RoleName : <<"member", r>> \in rights /\ <<"role", r, obj>> \in rights

(* The ways user n can read table t: who it is, what t is, the role that   *)
(* makes it possible, if one does, and the object read is granted on.      *)
Ways(n, t) ==
  {w \in {user[n]} \X {rel[t]} \X ({{}} \union {{x} : x \in RoleName}) \X {RelationOf(rel[t]), Main} :
     /\ user[n] # 0 /\ rel[t] # 0
     /\ \/ w[3] = {} /\ <<"user", w[4]>> \in Rights(n)
        \/ \E x \in RoleName : /\ w[3] = {x} /\ <<"member", x>> \in Rights(n)
                               /\ x = AdminRole \/ <<"role", x, w[4]>> \in Rights(n)}

-----------------------------------------------------------------------------
(* Commands                                                                *)

Asked(r) == req[r].phase \notin {"idle", "refused"}

(* After the commit: histories of the queries under way.                   *)
Observed ==
  /\ \A r \in Request : changes[r] < MaxChanges
  /\ UNCHANGED req
  /\ changes' = [r \in Request |-> IF Asked(r) THEN changes[r] + 1 ELSE 0]
  /\ had' = [r \in Request |-> IF Asked(r) THEN had[r] \union Rights(req[r].name)' ELSE had[r]]
  /\ kept' = [r \in Request |-> IF Asked(r) THEN kept[r] \intersect Ways(req[r].name, req[r].table)'
                                ELSE kept[r]]

Rows == Cardinality(member) + Cardinality(priv)

CreateUser(w, n) ==
  /\ May(w, System, "manage_user")
  /\ user[n] = 0
  /\ next <= MaxId /\ Rows < MaxRows
  /\ user' = [user EXCEPT ![n] = next]
  /\ member' = member \union {<<next, role[Reader]>>}
  /\ next' = next + 1
  /\ UNCHANGED <<role, rel, priv>>
  /\ Observed

CreateRole(w, n) ==
  /\ May(w, System, "manage_user")
  /\ role[n] = 0
  /\ next <= MaxId
  /\ role' = [role EXCEPT ![n] = next]
  /\ next' = next + 1
  /\ UNCHANGED <<user, rel, member, priv>>
  /\ Observed

DropUser(w, n) ==
  /\ May(w, System, "manage_user")
  /\ n # Admin /\ user[n] # 0
  /\ user' = [user EXCEPT ![n] = 0]
  /\ member' = {m \in member : m[1] # user[n]}
  /\ priv' = {p \in priv : p.type # "user" \/ p.id # user[n]}
  /\ UNCHANGED <<role, rel, next>>
  /\ Observed

HasDependents(n) == \/ \E m \in member : m[2] = role[n]
                    \/ \E p \in priv : p.type = "role" /\ p.id = role[n]

DropRole(w, n, cascade) ==
  /\ May(w, System, "manage_user")
  /\ n \notin Builtin /\ role[n] # 0
  /\ cascade \/ ~HasDependents(n)
  /\ role' = [role EXCEPT ![n] = 0]
  /\ member' = {m \in member : m[2] # role[n]}
  /\ priv' = {p \in priv : p.type # "role" \/ p.id # role[n]}
  /\ UNCHANGED <<user, rel, next>>
  /\ Observed

GrantRole(w, n, r) ==
  /\ May(w, System, "manage_user")
  /\ user[n] # 0 /\ role[r] # 0
  /\ Rows < MaxRows
  /\ member' = member \union {<<user[n], role[r]>>}
  /\ UNCHANGED <<user, role, rel, priv, next>>
  /\ Observed

RevokeRole(w, n, r) ==
  /\ May(w, System, "manage_user")
  /\ user[n] # 0 /\ role[r] # 0
  /\ member' = member \ {<<user[n], role[r]>>}
  /\ UNCHANGED <<user, role, rel, priv, next>>
  /\ Observed

Named(type, n) == IF type = "user" THEN user[n] ELSE role[n]
Target(kind, t) == CASE kind = "system" -> System [] kind = "schema" -> Main
                     [] kind = "relation" -> RelationOf(rel[t])

(* What a statement names must be there; the row it grants or revokes.     *)
Resolved(type, n, kind, t) ==
  /\ Named(type, n) # 0
  /\ kind = "relation" => rel[t] # 0
Granted(type, n, kind, t, action) ==
  [type |-> type, id |-> Named(type, n), obj |-> Target(kind, t), action |-> action]

Grant(w, type, n, kind, t, action) ==
  /\ May(w, System, "manage_user")
  /\ Resolved(type, n, kind, t)
  /\ Rows < MaxRows
  /\ priv' = priv \union {Granted(type, n, kind, t, action)}
  /\ UNCHANGED <<user, role, rel, member, next>>
  /\ Observed

Revoke(w, type, n, kind, t, action) ==
  /\ May(w, System, "manage_user")
  /\ Resolved(type, n, kind, t)
  /\ priv' = priv \ {Granted(type, n, kind, t, action)}
  /\ UNCHANGED <<user, role, rel, member, next>>
  /\ Observed

(* Mutant: an id that is not in use is good enough for a new table.        *)
CreateTableReusing(w, t) ==
  LET live == {user[n] : n \in UserName} \union {role[n] : n \in RoleName} \union {rel[x] : x \in TableName}
      o == CHOOSE i \in Id \ live : \A j \in Id \ live : i <= j
  IN  /\ May(w, Main, "ddl")
      /\ rel[t] = 0
      /\ next <= MaxId
      /\ rel' = [rel EXCEPT ![t] = o]
      /\ next' = IF o = next THEN next + 1 ELSE next
      /\ UNCHANGED <<user, role, member, priv>>
      /\ Observed

CreateTable(w, t) ==
  /\ May(w, Main, "ddl")
  /\ rel[t] = 0
  /\ next <= MaxId
  /\ rel' = [rel EXCEPT ![t] = next]
  /\ next' = next + 1
  /\ UNCHANGED <<user, role, member, priv>>
  /\ Observed

(* The privileges on the table stay.                                       *)
DropTable(w, t) ==
  /\ rel[t] # 0
  /\ May(w, RelationOf(rel[t]), "ddl")
  /\ rel' = [rel EXCEPT ![t] = 0]
  /\ UNCHANGED <<user, role, member, priv, next>>
  /\ Observed

-----------------------------------------------------------------------------
(* A query on a read connection: authorize_sql, then the query itself      *)

Ask(r, n, t) ==
  /\ ~Asked(r)
  /\ req' = [req EXCEPT ![r] = [NoQuery EXCEPT !.phase = "user", !.name = n, !.table = t]]
  /\ had' = [had EXCEPT ![r] = Rights(n)]
  /\ kept' = [kept EXCEPT ![r] = Ways(n, t)]
  /\ changes' = [changes EXCEPT ![r] = 0]
  /\ UNCHANGED accounts

Continues(r, q) ==
  /\ req' = [req EXCEPT ![r] = q]
  /\ UNCHANGED <<user, role, rel, member, priv, next, had, kept, changes>>

To(r, phase) == [req[r] EXCEPT !.phase = phase]

Answers(r, phase) ==
  /\ req' = [req EXCEPT ![r] = [NoQuery EXCEPT !.phase = phase]]
  /\ had' = [had EXCEPT ![r] = {}]
  /\ kept' = [kept EXCEPT ![r] = {}]
  /\ changes' = [changes EXCEPT ![r] = 0]
  /\ UNCHANGED accounts

(* principal_for_username                                                  *)
ReadUser(r) ==
  LET uid == user[req[r].name]
  IN  /\ req[r].phase = "user"
      /\ IF uid = 0 THEN Answers(r, "refused") ELSE Continues(r, [To(r, "roles") EXCEPT !.uid = uid])

(* Mutant: the roles read are not those of the user.                       *)
ReadRolesOfAll(r) ==
  /\ req[r].phase = "roles"
  /\ Continues(r, [To(r, "resolve") EXCEPT !.roles = {n \in RoleName : \E m \in member : m[2] = role[n]}])

ReadRoles(r) ==
  /\ req[r].phase = "roles"
  /\ Continues(r, [To(r, "resolve") EXCEPT !.roles = RolesOf(req[r].uid)])

(* available_relation_oid                                                  *)
Resolve(r) ==
  LET o == rel[req[r].table]
  IN  /\ req[r].phase = "resolve"
      /\ IF o = 0 THEN Answers(r, "refused") ELSE Continues(r, [To(r, "relation") EXCEPT !.oid = o])

(* Mutant: the privileges on the schema are not tried.                     *)
DecideRelationOnly(r) ==
  LET q == req[r]
  IN  /\ q.phase = "relation"
      /\ IF AdminRole \in q.roles \/ Explicit(q.uid, q.roles, RelationOf(q.oid), "read")
         THEN Continues(r, To(r, "run"))
         ELSE Answers(r, "refused")

DecideRelation(r) ==
  LET q == req[r]
  IN  /\ q.phase = "relation"
      /\ IF AdminRole \in q.roles \/ Explicit(q.uid, q.roles, RelationOf(q.oid), "read")
         THEN Continues(r, To(r, "run"))
         ELSE Continues(r, To(r, "schema"))

DecideSchema(r) ==
  LET q == req[r]
  IN  /\ q.phase = "schema"
      /\ IF Explicit(q.uid, q.roles, Main, "read")
         THEN Continues(r, To(r, "run"))
         ELSE Answers(r, "refused")

(* DuckDB finds the table by its name again.                               *)
Run(r) ==
  /\ req[r].phase = "run"
  /\ Answers(r, IF rel[req[r].table] = 0 THEN "refused" ELSE "idle")

-----------------------------------------------------------------------------
Init ==
  /\ user = [n \in UserName |-> IF n = Admin THEN 1 ELSE 0]
  /\ role = [n \in RoleName |-> CASE n = AdminRole -> 2 [] n = Reader -> 3 [] OTHER -> 0]
  /\ rel = [t \in TableName |-> 0]
  /\ member = {<<1, 2>>}
  /\ priv = {[type |-> "role", id |-> 2, obj |-> System, action |-> a] :
             a \in {"manage_user", "manage_catalog", "manage_snapshot"}}
  /\ next = 4
  /\ req = [r \in Request |-> NoQuery]
  /\ had = [r \in Request |-> {}]
  /\ kept = [r \in Request |-> {}]
  /\ changes = [r \in Request |-> 0]

Command(w) ==
  \/ \E n \in UserName : CreateUser(w, n) \/ DropUser(w, n)
  \/ \E n \in RoleName : \/ CreateRole(w, n)
                         \/ \E cascade \in BOOLEAN : DropRole(w, n, cascade)
                         \/ \E u \in UserName : GrantRole(w, u, n) \/ RevokeRole(w, u, n)
  \/ \E t \in TableName :
       \/ CreateTable(w, t)
       \/ DropTable(w, t)
       \/ \E p \in Grantee, g \in Grantable :
            Grant(w, p[1], p[2], g[1], t, g[2]) \/ Revoke(w, p[1], p[2], g[1], t, g[2])

Next ==
  \/ \E w \in UserName : Command(w)
  \/ \E r \in Request :
       \/ \E n \in UserName, t \in TableName : Ask(r, n, t)
       \/ ReadUser(r)
       \/ ReadRoles(r)
       \/ Resolve(r)
       \/ DecideRelation(r)
       \/ DecideSchema(r)
       \/ Run(r)

Spec == Init /\ [][Next]_vars

-----------------------------------------------------------------------------
(* Properties                                                              *)

(* drop.rs:61-141: rows of users and roles that are gone are gone.         *)
NoOrphans ==
  /\ \A m \in member : /\ \E n \in UserName : user[n] = m[1]
                       /\ \E n \in RoleName : role[n] = m[2]
  /\ \A p \in priv : IF p.type = "user" THEN \E n \in UserName : user[n] = p.id
                     ELSE \E n \in RoleName : role[n] = p.id

(* user_role.rs:24-49, lookup.rs:588-676: what is created under a name, be *)
(* it used before or not, has no rights of its predecessor, and nobody has *)
(* rights on it; DROP TABLE leaves such rows behind.                       *)
NewHasDefaults ==
  [][/\ \A n \in UserName : user'[n] \notin {0, user[n]} =>
          /\ {m \in member' : m[1] = user'[n]} = {<<user'[n], role[Reader]>>}
          /\ \A p \in priv' : p.type = "user" => p.id # user'[n]
     /\ \A n \in RoleName : role'[n] \notin {0, role[n]} =>
          /\ \A m \in member' : m[2] # role'[n]
          /\ \A p \in priv' : p.type = "role" => p.id # role'[n]
     /\ \A t \in TableName : rel'[t] \notin {0, rel[t]} =>
          \A p \in priv' : p.obj # RelationOf(rel'[t])]_vars

(* principal.rs:249-295, authorize.rs:46-73: a query that ran had, since   *)
(* it was asked, what lets its user read the relation it was authorized    *)
(* for: a REVOKE or DROP answered before is heeded, on every connection.   *)
(* The membership and the privilege need not have been there at once.      *)
ReadsGranted ==
  \A r \in Request : req[r].phase = "run" => Suffice(had[r], req[r].oid)

(* authorize.rs:46-73: a query that was refused, or did not find its table,*)
(* had no way to read it that lasted from when it was asked: other changes *)
(* of grants, roles and tables in between do not make it fail.             *)
RefusedRightly ==
  [][\A r \in Request : Asked(r) /\ req'[r].phase = "refused" => kept[r] = {}]_vars
=============================================================================
