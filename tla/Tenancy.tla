------------------------------ MODULE Tenancy -------------------------------
(***************************************************************************)
(* Who may do what: the tables tenants, tenant_users and api_keys, the     *)
(* relation tuples derived from them, and the administrative requests and  *)
(* the start-up of replicas that keep the two in step.                     *)
(*                                                                         *)
(* A request that opens a transaction of its own keeps what it wrote to    *)
(* itself until it commits, and its row locks are those of its record.     *)
(* The tuples it writes on the way are NOT part of that transaction: the   *)
(* tuple store commits each on its own (authz.Store over the pool), on a   *)
(* second connection.  Bootstrap, Reset, Provision and CreateTenant run    *)
(* with a store bound to the transaction, so theirs commit with it.        *)
(***************************************************************************)
EXTENDS Naturals, Sequences, FiniteSets

CONSTANTS
    Reqs,        \* request slots; each serves one request
    Replicas,    \* server processes
    Tenants, Default,            \* tenant ids; the bootstrap tenant's
    Docs, Home,  \* documents, and the tenant each belongs to
    Emails, MaxUser, MaxKey,     \* bounds: tenant_users and api_keys ids
    Roles,       \* roles asked for
    Pins,        \* subjects an admin pins a key to, or None
    Relations,   \* relations asked for in an access grant
    Policy,      \* effective self-service policy of each tenant
    Allowlist,   \* ADMIN_ALLOWED_EMAILS
    OAuth,       \* is the OAuth login configured?
    MaxBoots,    \* bound: how often a replica is stopped
    MaxConns,    \* connections in the pool
    Few,         \* those that the other clients of a crowded server leave
    Starts,      \* initial contents of the tables, and what happens then
    None, Sys

VARIABLES
    tenants,     \* tenants: their type, by id
    docs,        \* documents that exist
    users,       \* tenant_users by id
    keys,        \* api_keys by id
    tuples,      \* relation_tuples
    req,         \* requests
    boot,        \* start-up of each replica
    armed,       \* replicas that hold a bootstrap token
    work,        \* what happens in this behaviour: kinds of request, and "fail",
                 \* "grace", "reset" (failures, grace periods, MEMORY_RESET), "crowd"
    boots,       \* stops so far
    retyped      \* tenants whose type an admin changed (history)

rows == <<tenants, docs, users, keys>>
vars == <<tenants, docs, users, keys, tuples, req, boot, armed, boots, work, retyped>>

UserIds == 1..MaxUser
KeyIds == 1..MaxKey
Types == {"personal", "shared"}
AllRoles == {"member", "admin", "owner"}
Svc(t) == <<"svc", t>>
User(u) == <<"user", u>>
Subjects == {Svc(t) : t \in Tenants} \cup {User(u) : u \in UserIds}
Tup(o, r, s) == [obj |-> o, rel |-> r, subj |-> s]

ASSUME Bounds == /\ MaxUser \in Nat /\ MaxKey \in Nat /\ MaxBoots \in Nat
                 /\ MaxConns \in Nat /\ Few \in Nat
ASSUME Inputs == /\ Home \in [Docs -> Tenants] /\ Roles \subseteq AllRoles /\ Pins \subseteq Subjects \cup {None}
                 /\ None \notin Tenants \cup Emails \cup Reqs
\* An object carries its type: system, tenant or document.
ASSUME Namespaces == Sys \notin Tenants \cup Docs /\ Docs \cap Tenants = {}

TenantRow == {"unused", "gone"} \cup Types
\* A pending row is one that an open transaction has inserted.
UserRow == [st : {"unused", "pending", "row", "gone"}, email : Emails \cup {None},
            tenant : Tenants \cup {None}, role : AllRoles]
\* A live key never expires; one in its grace period will.
KeyRow == [st : {"unused", "pending", "live", "grace", "expired", "revoked", "gone"},
           tenant : Tenants \cup {None}, subj : Subjects \cup {None},
           from : KeyIds \cup {0}, founding : BOOLEAN]
NoUser == [st |-> "unused", email |-> None, tenant |-> None, role |-> "member"]
NoKey == [st |-> "unused", tenant |-> None, subj |-> None, from |-> 0, founding |-> FALSE]
\* mutant: users are soft-deleted
GoneUserMut == [NoUser EXCEPT !.st = "deleted"]
GoneUser == [NoUser EXCEPT !.st = "gone"]
GoneKey == [NoKey EXCEPT !.st = "gone"]

\* authzseed's constructors.
Tuple == [obj : Tenants \cup {Sys}, rel : {"system"}, subj : {<<"system", Sys>>}]
         \cup [obj : Tenants, rel : AllRoles \cup {"viewer", "manager"}, subj : Subjects]
         \cup [obj : Docs, rel : {"viewer", "editor"}, subj : Subjects]
         \cup [obj : {Sys}, rel : {"admin"}, subj : Subjects]
SystemAdmin(s) == Tup(Sys, "admin", s)
TenantSystemEdge(t) == Tup(t, "system", <<"system", Sys>>)
TenantMember(t, s) == Tup(t, "member", s)
RoleTuples(t, role, s) == IF role = "member" THEN {} ELSE {Tup(t, role, s)}
KeySubject(k) == IF keys[k].subj = None THEN Svc(keys[k].tenant) ELSE keys[k].subj

IsTenant(t) == tenants[t] \in Types
IsUser(u) == users[u].st = "row"
IsKey(k) == keys[k].st \in {"live", "grace", "expired", "revoked"}
UsersOf(t) == {u \in UserIds : IsUser(u) /\ users[u].tenant = t}
Holding(e) == {u \in UserIds : IsUser(u) /\ users[u].email = e}
FreshUser(u) == u \in UserIds /\ users[u].st = "unused" /\ \A v \in 1..(u - 1) : users[v].st # "unused"
FreshKey(k) == k \in KeyIds /\ keys[k].st = "unused" /\ \A l \in 1..(k - 1) : keys[l].st # "unused"

HasAnyAdmin == \E s \in Subjects : SystemAdmin(s) \in tuples
IsAdmin(s) == SystemAdmin(s) \in tuples
\* tenant#manager and tenant#admin of a tenant that is wired to the system.
Admins(t, s) == Tup(t, "admin", s) \in tuples \/ (IsAdmin(s) /\ TenantSystemEdge(t) \in tuples)
Manages(t, s) == Admins(t, s) \/ \E r \in {"owner", "manager"} : Tup(t, r, s) \in tuples

Idle == [kind |-> "none", pc |-> "idle", tid |-> None, row |-> 0, email |-> None,
         role |-> "member", type |-> "shared", todo |-> <<>>, kid |-> 0, subj |-> None,
         grace |-> FALSE, gone |-> {}, ks |-> {}]
Done == [Idle EXCEPT !.pc = "done"]

-----------------------------------------------------------------------------
(* Transactions, the locks they hold, and the connections they use.        *)

Holders == {"write", "tuples", "sync", "pruned", "found"}         \* pcs between BEGIN and COMMIT
Open == {r \in Reqs : req[r].pc \in Holders}
Conns == IF "crowd" \in work THEN Few ELSE MaxConns
FreeConn == Cardinality(Open) < Conns

\* Row locks of the others: a changed user, a key being rotated or deleted,
\* and the tenant that an uncommitted row refers to (KEY SHARE).
UserLocked(u, r) == \/ \E s \in Reqs \ {r} : /\ req[s].kind \in {"update", "revoke"}
                                             /\ req[s].pc \in {"tuples", "sync"} /\ req[s].row = u
                    \/ \E p \in Replicas : u \in boot[p].flips
KeyLocked(k, r) == \E s \in Reqs \ {r} :
    \/ req[s].kind = "rotate" /\ req[s].pc = "tuples" /\ req[s].kid = k
    \/ k \in req[s].ks
TenantShared(t) == \/ \E u \in UserIds : users[u].st = "pending" /\ users[u].tenant = t
                   \/ \E k \in KeyIds : keys[k].st = "pending" /\ keys[k].tenant = t
\* FOR UPDATE, by a grant of a personal tenant: nobody else saves or refers to it.
TenantHeld(t) == \E s \in Reqs : /\ req[s].kind = "grant" /\ req[s].type = "personal"
                                 /\ req[s].pc \in {"tuples", "sync"} /\ req[s].tid = t
TupleLocked(x, r) == \E s \in Reqs \ {r} : x \in req[s].gone
\* An index entry of an uncommitted row makes an insert of the same email wait.
EmailPending(e) == \E u \in UserIds : users[u].st = "pending" /\ users[u].email = e

At(r, kinds, pc) == req[r].kind \in kinds /\ req[r].pc = pc
Serving == \E p \in Replicas : boot[p].pc = "up"
Runs(r, kinds, pc) == Serving /\ At(r, kinds, pc)
Quiet == UNCHANGED <<boot, armed, boots, work, retyped>>

Asked(r, kind) == Serving /\ req[r].pc = "idle" /\ kind \in work
\* requireAdmin: the caller is some system admin when the request arrives.
AdminAsked(r, kind) == Asked(r, kind) /\ HasAnyAdmin
Start(r, q) == /\ req' = [req EXCEPT ![r] = q]
               /\ UNCHANGED <<rows, tuples>> /\ Quiet
GoTo(r, pc) == req' = [req EXCEPT ![r].pc = pc]
Finish(r) == req' = [req EXCEPT ![r] = Done]

\* An error return: the transaction's own writes are undone, its tuples stay.
Abandon(r) ==
    /\ Finish(r)
    /\ users' = IF req[r].kind = "grant" /\ req[r].row # 0
                THEN [users EXCEPT ![req[r].row] = GoneUser] ELSE users
    /\ keys' = IF req[r].kind = "rotate" /\ req[r].row # 0
               THEN [keys EXCEPT ![req[r].row] = GoneKey] ELSE keys
    /\ UNCHANGED <<tenants, docs, tuples>> /\ Quiet

\* A failing statement, a deadline, or the crash of the replica.
Fail(r) == /\ "fail" \in work
           /\ req[r].pc \notin {"idle", "done"}
           /\ Abandon(r)

BeginTxn(r) ==
    /\ Serving /\ req[r].pc = "begin"
    /\ FreeConn
    /\ GoTo(r, "write")
    /\ UNCHANGED <<rows, tuples>> /\ Quiet

\* One authz.Write or Delete of the transaction, on a connection of its own.
\* mutant: a tuple refers to its tenant, whose row the transaction itself may hold
TxnTupleMut(r) ==
    LET op == Head(req[r].todo) IN
    /\ Serving /\ req[r].pc \in {"tuples", "sync"}
    /\ req[r].todo # <<>>
    /\ FreeConn
    /\ ~TupleLocked(op.tup, r) /\ ~TenantHeld(op.tup.obj)
    /\ tuples' = IF op.add THEN tuples \cup {op.tup} ELSE tuples \ {op.tup}
    /\ req' = [req EXCEPT ![r].todo = Tail(@)]
    /\ UNCHANGED rows /\ Quiet
TxnTuple(r) ==
    LET op == Head(req[r].todo) IN
    /\ Serving /\ req[r].pc \in {"tuples", "sync"}
    /\ req[r].todo # <<>>
    /\ FreeConn
    /\ ~TupleLocked(op.tup, r)
    /\ tuples' = IF op.add THEN tuples \cup {op.tup} ELSE tuples \ {op.tup}
    /\ req' = [req EXCEPT ![r].todo = Tail(@)]
    /\ UNCHANGED rows /\ Quiet

Write(x) == [add |-> TRUE, tup |-> x]
Delete(x) == [add |-> FALSE, tup |-> x]

\* The admins of the tenant as the transaction sees them.
CountAdmins(q) ==
    {u \in UserIds : \/ u # q.row /\ IsUser(u) /\ users[u].tenant = q.tid /\ users[u].role = "admin"
                     \/ /\ u = q.row /\ q.kind # "revoke" /\ q.role = "admin"
                        /\ users[u].st \in {"pending", "row"}}

SyncServicePrincipalAdmin(r) ==
    LET q == req[r] IN
    /\ Runs(r, {"grant", "update", "revoke"}, "tuples")
    /\ q.todo = <<>>
    /\ req' = [req EXCEPT ![r].pc = "sync",
                  ![r].todo = << [add |-> CountAdmins(q) # {}, tup |-> SystemAdmin(Svc(q.tid))] >>]
    /\ UNCHANGED <<rows, tuples>> /\ Quiet

\* The user row as the transaction leaves it; an UPDATE or DELETE of a row
\* that is gone changes nothing and is no error.
Committed(q) ==
    CASE q.kind = "grant" -> [users EXCEPT ![q.row].st = "row"]
      [] q.kind = "update" /\ IsUser(q.row) -> [users EXCEPT ![q.row].role = q.role]
      [] q.kind = "revoke" /\ IsUser(q.row) -> [users EXCEPT ![q.row] = GoneUser]
      [] OTHER -> users

CommitUser(r) ==
    /\ Runs(r, {"grant", "update", "revoke"}, "sync")
    /\ req[r].todo = <<>>
    /\ users' = Committed(req[r])
    /\ Finish(r)
    /\ UNCHANGED <<tenants, docs, keys, tuples>> /\ Quiet

-----------------------------------------------------------------------------
(* Users of a tenant.                                                      *)

GrantRead(r) ==
    AdminAsked(r, "grant") /\
    \E t \in Tenants, e \in Emails, role \in Roles :
        /\ IsTenant(t)
        /\ tenants[t] = "personal" => UsersOf(t) = {}
        /\ Start(r, [Idle EXCEPT !.kind = "grant", !.pc = "begin", !.tid = t,
                          !.email = e, !.role = role, !.type = tenants[t]])

Todo(q, u) == << Write(TenantMember(q.tid, User(u))) >>
              \o (IF q.role = "member" THEN <<>> ELSE << Write(Tup(q.tid, q.role, User(u))) >>)

\* Lock of a personal tenant, second count, insert.
\* mutant: the users are not counted again under the lock
GrantRefusedMut(q) == ~IsTenant(q.tid) \/ Holding(q.email) # {}
GrantRefused(q) == \/ ~IsTenant(q.tid)                                   \* foreign key
                   \/ q.type = "personal" /\ UsersOf(q.tid) # {}
                   \/ Holding(q.email) # {}                              \* unique index
GrantWaits(q) == \/ EmailPending(q.email) \/ TenantHeld(q.tid)
                 \/ q.type = "personal" /\ TenantShared(q.tid)
GrantInsert(r) ==
    LET q == req[r] IN
    /\ Runs(r, {"grant"}, "write")
    /\ ~GrantWaits(q) /\ ~GrantRefused(q)
    /\ \E u \in UserIds :
        /\ FreshUser(u)
        /\ users' = [users EXCEPT ![u] = [st |-> "pending", email |-> q.email,
                                          tenant |-> q.tid, role |-> q.role]]
        /\ req' = [req EXCEPT ![r].pc = "tuples", ![r].row = u, ![r].todo = Todo(q, u)]
    /\ UNCHANGED <<tenants, docs, keys, tuples>> /\ Quiet
GrantError(r) ==
    /\ Runs(r, {"grant"}, "write")
    /\ ~GrantWaits(req[r]) /\ GrantRefused(req[r])
    /\ Abandon(r)

UserRead(r, kind) ==
    AdminAsked(r, kind) /\
    \E u \in UserIds, role \in Roles :
        /\ IsUser(u)
        /\ IF kind = "update" THEN users[u].role # role ELSE users[u].role = role
        /\ Start(r, [Idle EXCEPT !.kind = kind, !.pc = "begin", !.row = u,
                          !.tid = users[u].tenant, !.role = role])

UpdateTodo(q) ==
    LET s == User(q.row)
        W(role) == IF q.role = role THEN << Write(Tup(q.tid, role, s)) >> ELSE <<>>
        D(role) == IF q.role # role THEN << Delete(Tup(q.tid, role, s)) >> ELSE <<>>
    IN W("admin") \o W("owner") \o D("admin") \o D("owner")
\* The role is the one RevokeTenantUser read before its transaction.
RevokeTodo(q) ==
    << Delete(TenantMember(q.tid, User(q.row))) >>
    \o (IF q.role = "member" THEN <<>> ELSE << Delete(Tup(q.tid, q.role, User(q.row))) >>)

\* UPDATE or DELETE of the row: its lock, and what is to be done to the tuples.
\* mutant: the row is written at the end of the transaction only
ChangeUserMut(r) ==
    LET q == req[r] IN
    /\ Runs(r, {"update", "revoke"}, "write")
    /\ req' = [req EXCEPT ![r].pc = "tuples",
                  ![r].todo = IF q.kind = "update" THEN UpdateTodo(q) ELSE RevokeTodo(q)]
    /\ UNCHANGED <<rows, tuples>> /\ Quiet
ChangeUser(r) ==
    LET q == req[r] IN
    /\ Runs(r, {"update", "revoke"}, "write")
    /\ ~UserLocked(q.row, r)
    /\ req' = [req EXCEPT ![r].pc = "tuples",
                  ![r].todo = IF q.kind = "update" THEN UpdateTodo(q) ELSE RevokeTodo(q)]
    /\ UNCHANGED <<rows, tuples>> /\ Quiet

-----------------------------------------------------------------------------
(* Tenants, and access granted by those who manage them.                   *)

OwnerRow(t, u, e) ==
    [users EXCEPT ![u] = [st |-> "row", email |-> e, tenant |-> t, role |-> "owner"]]
OwnerTuples(t, u) == {TenantMember(t, User(u)), Tup(t, "owner", User(u))}
NewTenantTuples(t) == {TenantSystemEdge(t), TenantMember(t, Svc(t))}

CreateRead(r) ==
    AdminAsked(r, "create") /\
    \E type \in Types, e \in Emails \cup {None} :
        /\ type = "shared" => e = None
        /\ Start(r, [Idle EXCEPT !.kind = "create", !.pc = "insert", !.email = e, !.type = type])

\* Admin gate and fast path of a first login.
ProvisionRead(r) ==
    AdminAsked(r, "provision") /\
    \E e \in Emails :
        /\ Holding(e) = {}
        /\ Start(r, [Idle EXCEPT !.kind = "provision", !.pc = "insert", !.email = e, !.type = "personal"])

\* CreateTenant in one transaction. Of two logins of one email the second
\* violates the unique index and returns the tenant of the first.
CreateTenant(r) ==
    LET q == req[r] IN
    /\ Runs(r, {"create", "provision"}, "insert")
    /\ FreeConn
    /\ ~EmailPending(q.email)
    /\ \E t \in Tenants :
        /\ tenants[t] = "unused"
        /\ IF q.email = None
           THEN /\ tenants' = [tenants EXCEPT ![t] = q.type]
                /\ tuples' = tuples \cup NewTenantTuples(t)
                /\ UNCHANGED users
           ELSE \E u \in UserIds :
                /\ FreshUser(u)
                /\ Holding(q.email) = {}
                /\ tenants' = [tenants EXCEPT ![t] = q.type]
                /\ users' = OwnerRow(t, u, q.email)
                /\ tuples' = tuples \cup NewTenantTuples(t) \cup OwnerTuples(t, u)
    /\ Finish(r)
    /\ UNCHANGED <<docs, keys>> /\ Quiet
CreateRefused(r) ==
    /\ Runs(r, {"create", "provision"}, "insert")
    /\ Holding(req[r].email) # {}
    /\ Abandon(r)

\* A subject somebody authenticates as.
Live(s) == \/ \E u \in UserIds : s = User(u) /\ IsUser(u)
           \/ \E k \in KeyIds : keys[k].st \in {"live", "grace"} /\ s = KeySubject(k)
CanManageTenant(t, s) == IsAdmin(s) \/ Manages(t, s)
CanGrant(t, rel, s) ==
    IF rel = "manager" THEN IsAdmin(s) \/ Admins(t, s) ELSE CanManageTenant(t, s)

AclStart(r, kind, o, rel) ==
    Asked(r, kind) /\
    \E u \in UserIds, s \in Subjects :
        /\ Live(s) /\ IsUser(u)
        /\ CanGrant(IF o \in Docs THEN Home[o] ELSE o, rel, s)
        /\ Start(r, [Idle EXCEPT !.kind = kind, !.pc = "acl",
              !.todo = << [add |-> kind = "share", tup |-> Tup(o, rel, User(u))] >>])
GrantTenantAccess(r) ==
    \E t \in Tenants, rel \in Relations \cap {"viewer", "member", "manager"} :
        tenants[t] = "shared" /\ AclStart(r, "share", t, rel)
RevokeTenantAccess(r) ==
    \E t \in Tenants, rel \in Relations \cap {"viewer", "member", "manager"} : AclStart(r, "unshare", t, rel)
DocumentAccess(r) ==
    \E d \in docs, rel \in Relations \cap {"viewer", "editor"}, kind \in {"share", "unshare"} :
        AclStart(r, kind, d, rel)
AclWrite(r) ==
    LET op == Head(req[r].todo) IN
    /\ Runs(r, {"share", "unshare"}, "acl")
    /\ FreeConn
    /\ ~TupleLocked(op.tup, r)
    /\ tuples' = IF op.add THEN tuples \cup {op.tup} ELSE tuples \ {op.tup}
    /\ Finish(r)
    /\ UNCHANGED rows /\ Quiet

\* applyTenantPatch reads the row and saves all of it.
UpdateTenantRead(r) ==
    AdminAsked(r, "retype") /\
    \E t \in Tenants, type \in Types :
        /\ IsTenant(t)
        /\ Start(r, [Idle EXCEPT !.kind = "retype", !.pc = "save", !.tid = t, !.type = type])
\* Save updates the row; when there is none it inserts it.
SaveTenant(r) ==
    LET q == req[r] IN
    /\ Runs(r, {"retype"}, "save")
    /\ FreeConn
    /\ ~TenantHeld(q.tid)
    /\ tenants' = [tenants EXCEPT ![q.tid] = q.type]
    /\ retyped' = IF tenants[q.tid] = q.type THEN retyped ELSE retyped \cup {q.tid}
    /\ Finish(r)
    /\ UNCHANGED <<docs, users, keys, tuples, boot, armed, boots, work>>

DeleteTenantRead(r) ==
    AdminAsked(r, "drop") /\
    \E t \in Tenants \ {Default} :
        IsTenant(t) /\ Start(r, [Idle EXCEPT !.kind = "drop", !.pc = "begin", !.tid = t])
\* The tuples and rows that the statements before the last one delete.
TenantTuples(t) == {x \in tuples : \/ x.obj = t \/ x.obj \in {d \in docs : Home[d] = t}
                                   \/ x.subj = Svc(t)}
KeysOf(t) == {k \in KeyIds : IsKey(k) /\ keys[k].tenant = t}
Prune(r) ==
    LET q == req[r] IN
    /\ Runs(r, {"drop"}, "write")
    /\ \A k \in KeysOf(q.tid) : ~KeyLocked(k, r)
    /\ \A x \in TenantTuples(q.tid) : ~TupleLocked(x, r)
    /\ req' = [req EXCEPT ![r].pc = "pruned", ![r].gone = TenantTuples(q.tid), ![r].ks = KeysOf(q.tid)]
    /\ UNCHANGED <<rows, tuples>> /\ Quiet
\* The tenant row goes last, with its users; a key inserted meanwhile refers to it.
DropWaits(r) == LET t == req[r].tid IN TenantShared(t) \/ \E u \in UsersOf(t) : UserLocked(u, r)
DropRefused(r) == LET q == req[r] IN ~IsTenant(q.tid) \/ KeysOf(q.tid) \ q.ks # {}
DropTenant(r) ==
    LET q == req[r] IN
    /\ Runs(r, {"drop"}, "pruned")
    /\ ~DropWaits(r) /\ ~DropRefused(r)
    /\ tenants' = [tenants EXCEPT ![q.tid] = "gone"]
    /\ docs' = {d \in docs : Home[d] # q.tid}
    /\ users' = [u \in UserIds |-> IF u \in UsersOf(q.tid) THEN GoneUser ELSE users[u]]
    /\ keys' = [k \in KeyIds |-> IF k \in q.ks THEN GoneKey ELSE keys[k]]
    /\ tuples' = tuples \ q.gone
    /\ Finish(r) /\ Quiet
DropError(r) ==
    /\ Runs(r, {"drop"}, "pruned")
    /\ ~DropWaits(r) /\ DropRefused(r)
    /\ Abandon(r)

-----------------------------------------------------------------------------
(* API keys.                                                               *)

SelfService(t, s) == \/ IsAdmin(s)
                     \/ IF Policy[t] = "admin_only" THEN Admins(t, s) ELSE Manages(t, s)
NewKey(t, s, from, st) == [st |-> st, tenant |-> t, subj |-> s, from |-> from, founding |-> FALSE]

\* Who is no system admin gets a key for the own subject only.
CreateKeyRead(r) ==
    Asked(r, "key") /\
    \E t \in Tenants, s \in Subjects, pin \in Pins :
        /\ tenants[t] = "personal" /\ Live(s) /\ SelfService(t, s)
        /\ Start(r, [Idle EXCEPT !.kind = "key", !.pc = "insert", !.tid = t,
                     !.subj = IF IsAdmin(s) THEN pin ELSE s])
InsertKey(r) ==
    LET q == req[r] IN
    /\ Runs(r, {"key"}, "insert")
    /\ FreeConn
    /\ IsTenant(q.tid) /\ ~TenantHeld(q.tid)                             \* foreign key
    /\ \E k \in KeyIds :
        /\ FreshKey(k)
        /\ keys' = [keys EXCEPT ![k] = NewKey(q.tid, q.subj, 0, "live")]
        /\ req' = [req EXCEPT ![r].pc = "seed", ![r].kid = k]
    /\ UNCHANGED <<tenants, docs, users, tuples>> /\ Quiet
InsertKeyRefused(r) == Runs(r, {"key"}, "insert") /\ ~IsTenant(req[r].tid) /\ Abandon(r)
\* seedTuple: an error is logged only.
SeedKeyTuple(r) ==
    LET q == req[r]
        member == TenantMember(q.tid, IF q.subj = None THEN Svc(q.tid) ELSE q.subj)
    IN
    /\ Runs(r, {"key"}, "seed")
    /\ FreeConn /\ ~TupleLocked(member, r)
    /\ tuples' = tuples \cup {member}
    /\ Finish(r)
    /\ UNCHANGED rows /\ Quiet

RotateRead(r) ==
    AdminAsked(r, "rotate") /\
    \E k \in KeyIds, g \in (IF "grace" \in work THEN BOOLEAN ELSE {FALSE}) :
        /\ IsKey(k)
        /\ Start(r, [Idle EXCEPT !.kind = "rotate", !.pc = "begin", !.kid = k, !.grace = g,
                          !.tid = keys[k].tenant, !.subj = keys[k].subj])
\* The old key's row is locked, the new one inserted.
RotateMint(r) ==
    LET q == req[r] IN
    /\ Runs(r, {"rotate"}, "write")
    /\ ~KeyLocked(q.kid, r) /\ ~TenantHeld(q.tid)
    /\ IsKey(q.kid)
    /\ \E k \in KeyIds :
        /\ FreshKey(k)
        /\ keys' = [keys EXCEPT ![k] = NewKey(q.tid, q.subj, q.kid, "pending")]
        /\ req' = [req EXCEPT ![r].pc = "tuples", ![r].row = k,
              ![r].todo = << Write(TenantMember(q.tid, IF q.subj = None THEN Svc(q.tid) ELSE q.subj)) >>]
    /\ UNCHANGED <<tenants, docs, users, tuples>> /\ Quiet
RotateGone(r) ==
    /\ Runs(r, {"rotate"}, "write")
    /\ ~KeyLocked(req[r].kid, r) /\ ~IsKey(req[r].kid)
    /\ Abandon(r)
\* SetExpiry and Revoke refuse a revoked key; an expired one they do not.
Retired(q) == IF q.grace THEN "grace" ELSE "revoked"
\* mutant: Revoke without "revoked_at IS NULL"
RotateRetireMut(r) ==
    LET q == req[r] IN
    /\ Runs(r, {"rotate"}, "tuples")
    /\ q.todo = <<>>
    /\ keys' = [keys EXCEPT ![q.row].st = "live", ![q.kid].st = Retired(q)]
    /\ Finish(r)
    /\ UNCHANGED <<tenants, docs, users, tuples>> /\ Quiet
RotateRetire(r) ==
    LET q == req[r] IN
    /\ Runs(r, {"rotate"}, "tuples")
    /\ q.todo = <<>>
    /\ keys[q.kid].st # "revoked"
    /\ keys' = [keys EXCEPT ![q.row].st = "live", ![q.kid].st = Retired(q)]
    /\ Finish(r)
    /\ UNCHANGED <<tenants, docs, users, tuples>> /\ Quiet
RotateRevoked(r) ==
    /\ Runs(r, {"rotate"}, "tuples")
    /\ req[r].todo = <<>>
    /\ keys[req[r].kid].st = "revoked"
    /\ Abandon(r)

RevokeAPIKey(r) ==
    AdminAsked(r, "revokekey") /\
    \E k \in KeyIds :
        /\ keys[k].st \in {"live", "grace", "expired"} /\ ~KeyLocked(k, r)
        /\ keys' = [keys EXCEPT ![k].st = "revoked"]
        /\ Finish(r)
        /\ UNCHANGED <<tenants, docs, users, tuples>> /\ Quiet

Dead(k) == keys[k].st \in {"revoked", "expired"}
DeleteKeyRead(r) ==
    AdminAsked(r, "delkey") /\
    \E k \in KeyIds : Dead(k) /\ Start(r, [Idle EXCEPT !.kind = "delkey", !.pc = "delete", !.kid = k])
DeleteKey(r) ==
    LET k == req[r].kid IN
    /\ Runs(r, {"delkey"}, "delete")
    /\ FreeConn
    /\ ~KeyLocked(k, r)
    /\ keys' = [keys EXCEPT ![k] = GoneKey]
    /\ Finish(r)
    /\ UNCHANGED <<tenants, docs, users, tuples>> /\ Quiet
\* The scheduled sweep, and time.
PurgeDeadKeys ==
    \E k \in KeyIds : /\ Dead(k) /\ ~KeyLocked(k, None) /\ Serving
                      /\ keys' = [keys EXCEPT ![k] = GoneKey]
                      /\ UNCHANGED <<tenants, docs, users, tuples, req>> /\ Quiet
Expire ==
    \E k \in KeyIds : /\ keys[k].st = "grace"
                      /\ keys' = [keys EXCEPT ![k].st = "expired"]
                      /\ UNCHANGED <<tenants, docs, users, tuples, req>> /\ Quiet

-----------------------------------------------------------------------------
(* The first admin.                                                        *)

\* POST /bootstrap with the token of the replica that is asked.
BootstrapStart(r) ==
    Asked(r, "bootstrap") /\ ~HasAnyAdmin /\                              \* bootstrapGate
    \E p \in armed, e \in Emails \cup {None} :
        /\ boot[p].pc = "up"
        /\ Start(r, [Idle EXCEPT !.kind = "bootstrap", !.pc = "lock",
                     !.email = IF OAuth THEN e ELSE None])
\* mutant: no advisory lock
BootstrapCheckMut(r) ==
    /\ Runs(r, {"bootstrap"}, "lock")
    /\ FreeConn
    /\ IF HasAnyAdmin THEN Finish(r) ELSE GoTo(r, "found")
    /\ UNCHANGED <<rows, tuples>> /\ Quiet
BootstrapCheck(r) ==
    /\ Runs(r, {"bootstrap"}, "lock")
    /\ FreeConn
    /\ ~\E s \in Reqs : At(s, {"bootstrap"}, "found")                     \* advisory lock
    /\ IF HasAnyAdmin THEN Finish(r) ELSE GoTo(r, "found")
    /\ UNCHANGED <<rows, tuples>> /\ Quiet
Bootstrap(r) ==
    LET q == req[r] IN
    /\ Runs(r, {"bootstrap"}, "found")
    /\ ~EmailPending(q.email)
    /\ \E t \in Tenants, k \in KeyIds :
        /\ tenants[t] = "unused" /\ FreshKey(k)
        /\ tenants' = [tenants EXCEPT ![t] = "personal"]
        /\ keys' = [keys EXCEPT ![k] = [NewKey(t, None, 0, "live") EXCEPT !.founding = TRUE]]
        /\ LET seeds == NewTenantTuples(t) \cup {Tup(t, "owner", Svc(t)), SystemAdmin(Svc(t))} IN
           IF q.email = None
           THEN tuples' = tuples \cup seeds /\ UNCHANGED users
           ELSE \E u \in UserIds :
                /\ FreshUser(u) /\ Holding(q.email) = {}
                /\ users' = OwnerRow(t, u, q.email)
                /\ tuples' = tuples \cup seeds \cup OwnerTuples(t, u) \cup {SystemAdmin(User(u))}
    /\ Finish(r)
    /\ UNCHANGED docs /\ Quiet
BootstrapRefused(r) ==
    /\ Runs(r, {"bootstrap"}, "found")
    /\ Holding(req[r].email) # {}
    /\ Abandon(r)

-----------------------------------------------------------------------------
(* Start-up of a replica: Migrate, BootstrapAdmins, the self-check, the    *)
(* break-glass reset, and whether to arm /bootstrap.                       *)

Down == [pc |-> "down", new |-> {}, flips |-> {}, ks |-> {}]
Booted(p, b) == boot' = [boot EXCEPT ![p] = b]
OnlyBoot == UNCHANGED <<rows, tuples, req, armed, boots, work, retyped>>

\* A replica stops; one that is told to lets its requests finish.
Stop(p) ==
    /\ boot[p].pc = "up" /\ boots < MaxBoots
    /\ \/ "fail" \in work
       \/ \A r \in Reqs : req[r].pc \in {"idle", "done"}
       \/ \E o \in Replicas \ {p} : boot[o].pc = "up"
    /\ Booted(p, Down)
    /\ armed' = armed \ {p}
    /\ boots' = boots + 1
    /\ UNCHANGED <<rows, tuples, req, work, retyped>>

Flips == {u \in UserIds : IsUser(u) /\ users[u].role = "admin" /\ tenants[users[u].tenant] = "personal"}
RoleAfter(u, flips) == IF u \in flips THEN "owner" ELSE users[u].role
AdminTenants(flips) == {users[u].tenant : u \in {v \in UserIds : IsUser(v) /\ RoleAfter(v, flips) = "admin"}}
ServiceAdmins(flips) == {SystemAdmin(Svc(t)) : t \in AdminTenants(flips)}
UserTuples(u, role) == {TenantMember(users[u].tenant, User(u))} \cup RoleTuples(users[u].tenant, role, User(u))
Derived(flips) ==
    (UNION {NewTenantTuples(t) : t \in {t \in Tenants : IsTenant(t)}})
    \cup (UNION {UserTuples(u, RoleAfter(u, flips)) : u \in {u \in UserIds : IsUser(u)}})
    \cup {TenantMember(keys[k].tenant, KeySubject(k)) : k \in {k \in KeyIds : IsKey(k)}}
    \cup ServiceAdmins(flips)

\* The migration's transaction, under its advisory lock: reads ...
BackfillRead(p) ==
    /\ boot[p].pc = "down"
    /\ ~\E o \in Replicas : boot[o].pc = "migrating"
    /\ \A u \in Flips : ~UserLocked(u, None)
    /\ Booted(p, [Down EXCEPT !.pc = "migrating", !.flips = Flips, !.new = Derived(Flips)])
    /\ OnlyBoot
\* ... and writes. The last two statements see what has been committed since.
Personal(t) == tenants[t] = "personal"
Residual(t) == Personal(t) /\ ~\E k \in KeyIds : IsKey(k) /\ keys[k].tenant = t /\ KeySubject(k) = Svc(t)
Stale == {Tup(t, "admin", s) : t \in {t \in Tenants : Personal(t)}, s \in Subjects}
         \cup {SystemAdmin(Svc(t)) : t \in {t \in Tenants : Residual(t)}}
BackfillCommit(p) ==
    /\ boot[p].pc = "migrating"
    /\ users' = [u \in UserIds |-> IF u \in boot[p].flips /\ IsUser(u)
                                   THEN [users[u] EXCEPT !.role = "owner"] ELSE users[u]]
    /\ tuples' = (tuples \cup boot[p].new) \ Stale
    /\ Booted(p, [Down EXCEPT !.pc = "seed"])
    /\ UNCHANGED <<tenants, docs, keys, req, armed, boots, work, retyped>>

\* BootstrapAdmins.
Allowed == {u \in UserIds : IsUser(u) /\ users[u].email \in Allowlist}
SeedRead(p) ==
    /\ boot[p].pc = "seed"
    /\ Booted(p, [Down EXCEPT !.pc = "seeding",
                  !.new = {SystemAdmin(User(u)) : u \in Allowed} \cup ServiceAdmins({})])
    /\ OnlyBoot
SeedWrite(p) ==
    /\ boot[p].pc = "seeding"
    /\ tuples' = tuples \cup boot[p].new
    /\ Booted(p, [Down EXCEPT !.pc = "check"])
    /\ UNCHANGED <<rows, req, armed, boots, work, retyped>>
SelfCheck(p) ==
    /\ boot[p].pc = "check"
    /\ Booted(p, [Down EXCEPT !.pc = IF \A u \in Allowed : IsAdmin(User(u)) THEN "arm" ELSE "down"])
    /\ OnlyBoot

\* ResetBootstrap: the admin tuples and the keys behind them.
ResetRead(p) ==
    /\ boot[p].pc = "arm" /\ "reset" \in work
    /\ LET admins == {x \in tuples : x.obj = Sys /\ x.rel = "admin"} IN
       Booted(p, [Down EXCEPT !.pc = "resetting", !.new = admins,
                  !.ks = {k \in KeyIds : IsKey(k) /\ SystemAdmin(KeySubject(k)) \in admins}])
    /\ OnlyBoot
ResetCommit(p) ==
    /\ boot[p].pc = "resetting"
    /\ \A k \in boot[p].ks : ~KeyLocked(k, None)
    /\ IF \A k \in boot[p].ks : IsKey(k)
       THEN /\ keys' = [k \in KeyIds |-> IF k \in boot[p].ks THEN GoneKey ELSE keys[k]]
            /\ tuples' = tuples \ boot[p].new
            /\ Booted(p, [Down EXCEPT !.pc = "reset"])
       ELSE Booted(p, Down) /\ UNCHANGED <<keys, tuples>>
    /\ UNCHANGED <<tenants, docs, users, req, armed, boots, work, retyped>>
Arm(p) ==
    /\ boot[p].pc \in {"arm", "reset"}
    /\ armed' = IF HasAnyAdmin THEN armed ELSE armed \cup {p}
    /\ Booted(p, [Down EXCEPT !.pc = "up"])
    /\ UNCHANGED <<rows, tuples, req, boots, work, retyped>>

-----------------------------------------------------------------------------
\* Tables a server may be started on: no transaction is open, foreign keys hold,
\* a personal tenant has one user; keys are counted as replaced from now on.
ASSUME Sound == \A s \in Starts :
    /\ s.tenants \in [Tenants -> TenantRow] /\ s.docs \subseteq Docs /\ s.tuples \subseteq Tuple
    /\ s.users \in [UserIds -> UserRow] /\ s.keys \in [KeyIds -> KeyRow]
    /\ \A u \in UserIds : /\ s.users[u].st # "pending"
                          /\ s.users[u].st = "row" => s.users[u].tenant \in Tenants
                                                    /\ s.tenants[s.users[u].tenant] \in Types
    /\ \A u, v \in UserIds : s.users[u].st = "row" /\ s.users[v].st = "row" /\ u # v =>
         s.users[u].tenant # s.users[v].tenant \/ s.tenants[s.users[u].tenant] # "personal"
    /\ \A k \in KeyIds : /\ s.keys[k].st # "pending" /\ s.keys[k].from = 0
                         /\ s.keys[k].st \notin {"unused", "gone"} => s.keys[k].tenant \in Tenants
\* If nothing is to fail nothing has failed: the tuples name each user's role.
ASSUME InStep == \A s \in Starts : "fail" \notin s.work =>
    \A u \in UserIds, role \in {"admin", "owner"} :
        /\ s.users[u].st = "row" => (Tup(s.users[u].tenant, role, User(u)) \in s.tuples <=> s.users[u].role = role)
        /\ s.users[u].st = "unused" => \A t \in Tenants : Tup(t, role, User(u)) \notin s.tuples

Init ==
    /\ \E s \in Starts : /\ tenants = s.tenants /\ docs = s.docs /\ users = s.users
                         /\ keys = s.keys /\ tuples = s.tuples /\ work = s.work
    /\ req = [r \in Reqs |-> Idle]
    /\ boot = [p \in Replicas |-> Down]
    /\ armed = {} /\ boots = 0 /\ retyped = {}

Arrive(r) ==
    \/ GrantRead(r) \/ UserRead(r, "update") \/ UserRead(r, "revoke")
    \/ CreateRead(r) \/ ProvisionRead(r) \/ UpdateTenantRead(r) \/ DeleteTenantRead(r)
    \/ GrantTenantAccess(r) \/ RevokeTenantAccess(r) \/ DocumentAccess(r)
    \/ CreateKeyRead(r) \/ RotateRead(r) \/ RevokeAPIKey(r) \/ DeleteKeyRead(r)
    \/ BootstrapStart(r)
Serve(r) ==
    \/ BeginTxn(r) \/ TxnTuple(r) \/ SyncServicePrincipalAdmin(r) \/ CommitUser(r)
    \/ GrantInsert(r) \/ GrantError(r) \/ ChangeUser(r)
    \/ CreateTenant(r) \/ CreateRefused(r) \/ AclWrite(r) \/ SaveTenant(r)
    \/ Prune(r) \/ DropTenant(r) \/ DropError(r)
    \/ InsertKey(r) \/ InsertKeyRefused(r) \/ SeedKeyTuple(r) \/ DeleteKey(r)
    \/ RotateMint(r) \/ RotateGone(r) \/ RotateRetire(r) \/ RotateRevoked(r)
    \/ BootstrapCheck(r) \/ Bootstrap(r) \/ BootstrapRefused(r)
Boot(p) ==
    \/ BackfillRead(p) \/ BackfillCommit(p) \/ SeedRead(p) \/ SeedWrite(p)
    \/ SelfCheck(p) \/ ResetRead(p) \/ ResetCommit(p) \/ Arm(p)

Next == \/ \E r \in Reqs : Arrive(r) \/ Serve(r) \/ Fail(r)
        \/ \E p \in Replicas : Stop(p) \/ Boot(p)
        \/ PurgeDeadKeys \/ Expire
Spec == Init /\ [][Next]_vars

\* A request in progress and a replica that starts go on, and the database
\* rolls back what a replica that crashed had open.
Fairness == /\ \A r \in Reqs : WF_vars(Serve(r))
            /\ \A p \in Replicas : WF_vars(Boot(p))
            /\ \A r \in Reqs : WF_vars(~Serving /\ Fail(r))
FairSpec == Spec /\ Fairness

-----------------------------------------------------------------------------
TypeOK ==
    /\ tenants \in [Tenants -> TenantRow] /\ docs \subseteq Docs
    /\ users \in [UserIds -> UserRow] /\ keys \in [KeyIds -> KeyRow]
    /\ tuples \subseteq Tuple
    /\ boot \in [Replicas -> [pc : {"down", "migrating", "seed", "seeding", "check", "arm",
                                    "resetting", "reset", "up"},
                              new : SUBSET Tuple, flips : SUBSET UserIds, ks : SUBSET KeyIds]]
    /\ armed \subseteq Replicas /\ boots \in 0..MaxBoots /\ retyped \subseteq Tenants

\* A personal tenant has one user (memory.go, GrantTenantUser), whatever grants,
\* first logins and bootstraps overlap; unless an admin changed a tenant's type.
SingleOwner ==
    \A t \in Tenants \ retyped : tenants[t] = "personal" => Cardinality(UsersOf(t)) <= 1

\* Bootstrap is one-shot: a founding key appears only when nobody is an admin
\* (memory.go, Bootstrap: the advisory lock).
FoundedOnce ==
    [][(\E k \in KeyIds : keys'[k].founding /\ ~keys[k].founding) => ~HasAnyAdmin]_vars

\* Without failures a committed role and the stored tuples name the same role
\* (memory.go, UpdateTenantUserRole), whatever changes of it overlap.
RoleAgrees ==
    "fail" \notin work => \A u \in UserIds : IsUser(u) /\ ~UserLocked(u, None) =>
        \A role \in {"admin", "owner"} :
            Tup(users[u].tenant, role, User(u)) \in tuples <=> users[u].role = role

\* A key rotated without a grace period has one replacement (memory.go,
\* RotateAPIKey), whatever rotations, revocations and deletions overlap.
OneSuccessor ==
    "grace" \notin work =>
        \A k \in KeyIds : Cardinality({l \in KeyIds : keys[l].from = k /\ keys[l].st # "pending"}) <= 1

\* The two waits of this code that no deadlock detector ends: the pool is held by
\* transactions of which one waits for a second connection (GrantTenantUser,
\* RotateAPIKey: the tuple store is over the pool) ...
NeedsSecond(r) == req[r].pc \in {"tuples", "sync"} /\ req[r].todo # <<>>
Starved == ~FreeConn /\ \E r \in Open : NeedsSecond(r)
\* ... and the second connection waits for a tuple that the deletion of the tenant
\* has deleted, while the deletion waits for a row of the first.
Crossed == \E r, s \in Reqs : /\ At(s, {"drop"}, "pruned") /\ DropWaits(s)
                              /\ NeedsSecond(r) /\ Head(req[r].todo).tup \in req[s].gone

\* Every request is answered, also when it waits for the rows, tuples and
\* connections of others, unless the server ends in one of those two.
Served == <>[]Starved \/ <>[]Crossed \/ \A r \in Reqs : req[r].pc # "idle" ~> req[r].pc = "done"

\* The founding key keeps its reach (database.go, the residual-admin cleanup).
KeepsReach == \A k \in KeyIds : keys[k].founding /\ IsKey(k) => IsAdmin(KeySubject(k))
=============================================================================
