--------------------------- MODULE TenancyProofs ----------------------------
(***************************************************************************)
(* Theorems about Tenancy, for any tables, requests, replicas and pools:   *)
(* the tables stay well typed, a personal tenant has one user, and a key   *)
(* that is rotated without a grace period has one replacement.             *)
(***************************************************************************)
EXTENDS Tenancy, FiniteSetTheorems, SequenceTheorems, TLAPS

Op == [add : BOOLEAN, tup : Tuple]
Request ==
    [kind : {"none", "grant", "update", "revoke", "create", "provision", "share", "unshare", "retype",
             "drop", "key", "rotate", "delkey", "bootstrap"},
     pc : {"idle", "begin", "write", "tuples", "sync", "insert", "acl", "save", "pruned", "seed",
           "delete", "lock", "found", "done"},
     tid : Tenants \cup {None}, row : Nat, email : Emails \cup {None}, role : AllRoles, type : Types,
     todo : Seq(Op), kid : Nat, subj : Subjects \cup {None}, grace : BOOLEAN,
     gone : SUBSET Tuple, ks : SUBSET KeyIds]

\* What each kind of request names.
Named(q) ==
    /\ q.kind \in {"grant", "update", "revoke", "retype", "drop", "key", "rotate"} => q.tid \in Tenants
    /\ q.kind \in {"create", "provision"} /\ q.pc = "insert" => q.email = None \/ q.email \in Emails
    /\ q.kind \in {"update", "revoke"} => q.row \in UserIds
    /\ q.kind \in {"rotate", "delkey"} => q.kid \in KeyIds
    /\ q.kind \in {"share", "unshare"} /\ q.pc = "acl" => q.todo # <<>>
ReqsOK == /\ req \in [Reqs -> Request]
          /\ \A r \in Reqs : Named(req[r])

\* A row that is there, or about to be, has its tenant.
Lives(row) == row.st \notin {"unused", "gone"}
Housed == /\ \A u \in UserIds : Lives(users[u]) => /\ users[u].tenant \in Tenants
                                                   /\ tenants[users[u].tenant] # "unused"
          /\ \A k \in KeyIds : Lives(keys[k]) => keys[k].tenant \in Tenants

RowsOK == /\ tenants \in [Tenants -> TenantRow] /\ docs \subseteq Docs
          /\ users \in [UserIds -> UserRow] /\ keys \in [KeyIds -> KeyRow]
BootsOK == /\ boot \in [Replicas -> [pc : {"down", "migrating", "seed", "seeding", "check", "arm",
                                           "resetting", "reset", "up"},
                                     new : SUBSET Tuple, flips : SUBSET UserIds, ks : SUBSET KeyIds]]
           /\ armed \subseteq Replicas /\ boots \in 0..MaxBoots /\ retyped \subseteq Tenants
Typed == RowsOK /\ tuples \subseteq Tuple /\ BootsOK /\ ReqsOK /\ Housed

\* A grant under way: its row, and the type of its tenant unless that was changed.
Grants ==
    \A r \in Reqs : req[r].kind = "grant" =>
        /\ req[r].pc \in {"begin", "write", "tuples", "sync"}
        /\ req[r].pc \in {"begin", "write"} => req[r].row = 0
        /\ req[r].pc \in {"tuples", "sync"} => /\ req[r].row \in UserIds
                                              /\ users[req[r].row].st = "pending"
                                              /\ users[req[r].row].tenant = req[r].tid
        /\ tenants[req[r].tid] # "unused"
        /\ tenants[req[r].tid] \in {req[r].type, "gone"} \/ req[r].tid \in retyped

\* A rotation under way: its new key, and the old one, which is still there.
RotationOK(r) ==
    req[r].kind = "rotate" =>
        /\ req[r].pc \in {"begin", "write", "tuples"}
        /\ req[r].pc \in {"begin", "write"} => req[r].row = 0
        /\ req[r].pc = "tuples" => /\ req[r].row \in KeyIds /\ req[r].row # req[r].kid
                                  /\ keys[req[r].row].st = "pending" /\ keys[req[r].row].from = req[r].kid
                                  /\ IsKey(req[r].kid)
        /\ "grace" \notin work => ~req[r].grace
Rotations == \A r \in Reqs : RotationOK(r)

-----------------------------------------------------------------------------
(* Tuples and what is to be done to them.                                  *)

\* The constructors build tuples of the schema.
LEMMA TuplesAre ==
  /\ \A t \in Tenants, s \in Subjects, rel \in AllRoles \cup {"viewer", "manager"} : Tup(t, rel, s) \in Tuple
  /\ \A t \in Tenants, s \in Subjects : TenantMember(t, s) \in Tuple
  /\ \A t \in Tenants : TenantSystemEdge(t) \in Tuple
  /\ \A s \in Subjects : SystemAdmin(s) \in Tuple
  /\ \A d \in Docs, s \in Subjects, rel \in {"viewer", "editor"} : Tup(d, rel, s) \in Tuple
  /\ \A t \in Tenants, role \in AllRoles, s \in Subjects : RoleTuples(t, role, s) \subseteq Tuple
  /\ \A t \in Tenants : Svc(t) \in Subjects
  /\ \A u \in UserIds : User(u) \in Subjects
  BY DEF Tuple, Tup, TenantMember, TenantSystemEdge, SystemAdmin, RoleTuples, AllRoles, Subjects, Svc, User

\* Writes and deletes of such tuples are operations.
LEMMA OpsAre ==
  ASSUME NEW x \in Tuple
  PROVE  Write(x) \in Op /\ Delete(x) \in Op /\ \A b \in BOOLEAN : [add |-> b, tup |-> x] \in Op
  BY DEF Write, Delete, Op

\* A grant's operations.
LEMMA GrantTodo ==
  ASSUME NEW q \in Request, q.tid \in Tenants, NEW u \in UserIds
  PROVE  Todo(q, u) \in Seq(Op)
  <1>1. Write(TenantMember(q.tid, User(u))) \in Op /\ Write(Tup(q.tid, q.role, User(u))) \in Op
    BY TuplesAre, OpsAre DEF Request
  <1>2. << Write(TenantMember(q.tid, User(u))) >> \in Seq(Op) /\ << Write(Tup(q.tid, q.role, User(u))) >> \in Seq(Op)
    BY <1>1
  <1> QED BY <1>2, EmptySeq, ConcatProperties DEF Todo

\* A role change's operations.
LEMMA ChangeTodo ==
  ASSUME NEW q \in Request, q.tid \in Tenants, q.row \in UserIds
  PROVE  UpdateTodo(q) \in Seq(Op) /\ RevokeTodo(q) \in Seq(Op)
  <1> DEFINE s == User(q.row)
             W(role) == IF q.role = role THEN << Write(Tup(q.tid, role, s)) >> ELSE <<>>
             D(role) == IF q.role # role THEN << Delete(Tup(q.tid, role, s)) >> ELSE <<>>
  <1>1. \A role \in AllRoles : Write(Tup(q.tid, role, s)) \in Op /\ Delete(Tup(q.tid, role, s)) \in Op
    BY TuplesAre, OpsAre
  <1>2. \A role \in AllRoles : << Write(Tup(q.tid, role, s)) >> \in Seq(Op) /\ << Delete(Tup(q.tid, role, s)) >> \in Seq(Op)
    BY <1>1
  <1>3. W("admin") \in Seq(Op) /\ W("owner") \in Seq(Op) /\ D("admin") \in Seq(Op) /\ D("owner") \in Seq(Op)
    BY <1>2, EmptySeq DEF AllRoles
  <1>4. UpdateTodo(q) \in Seq(Op)
    <2> HIDE DEF W, D
    <2>1. UpdateTodo(q) = W("admin") \o W("owner") \o D("admin") \o D("owner")
      BY DEF UpdateTodo, W, D
    <2> QED BY <1>3, <2>1, ConcatProperties
  <1>5. << Delete(TenantMember(q.tid, s)) >> \in Seq(Op)
    BY TuplesAre, OpsAre
  <1>6. q.role \in AllRoles
    BY DEF Request
  <1>7. RevokeTodo(q) \in Seq(Op)
    BY <1>2, <1>5, <1>6, EmptySeq, ConcatProperties DEF RevokeTodo
  <1> QED BY <1>4, <1>7

-----------------------------------------------------------------------------
(* Requests that arrive.                                                   *)

\* A request at its start holds nothing, and names what it read.
Fresh(q) ==
    /\ q \in Request /\ Named(q)
    /\ q.pc \in {"begin", "insert", "acl", "save", "delete", "lock", "done"}
    /\ q.ks = {}
    /\ q.kind \in {"grant", "rotate"} => q.pc = "begin" /\ q.row = 0
    /\ q.kind = "grant" => IsTenant(q.tid) /\ q.type = tenants[q.tid]
    /\ q.kind = "rotate" /\ "grace" \notin work => ~q.grace
    /\ q.kind = "delkey" => Dead(q.kid)

\* The blank records.
LEMMA Blank == /\ Idle \in Request /\ Named(Idle) /\ Done \in Request /\ Named(Done)
               /\ Done.pc = "done" /\ Done.kind = "none" /\ Done.ks = {} /\ Done.todo = <<>> /\ Fresh(Done)
  <1>1. << >> \in Seq(Op)
    BY EmptySeq
  <1> QED BY <1>1 DEF Idle, Done, Request, Named, Types, AllRoles, Fresh

\* One request changes.
LEMMA ReqKept ==
  ASSUME ReqsOK, NEW r \in Reqs, NEW q \in Request, Named(q), req' = [req EXCEPT ![r] = q]
  PROVE  ReqsOK'
  BY DEF ReqsOK

\* What a request leaves alone when it comes: it starts, and at most revokes a key.
Comes(r) == /\ \E q \in Request : Fresh(q) /\ req' = [req EXCEPT ![r] = q]
            /\ req[r].pc = "idle"
            /\ UNCHANGED <<tenants, docs, users, tuples>> /\ Quiet
            /\ UNCHANGED keys \/ RevokeAPIKey(r)

\* A request that starts comes.
LEMMA Starts1 ==
  ASSUME NEW r \in Reqs, NEW q, Fresh(q), Start(r, q), req[r].pc = "idle"
  PROVE  Comes(r)
  BY DEF Fresh, Start, Comes, rows

\* Whatever arrives.
LEMMA Arrives == ASSUME Typed, NEW r \in Reqs, Arrive(r) PROVE Comes(r)
  <1>0. << >> \in Seq(Op)
    BY EmptySeq
  <1>t. /\ \A u \in UserIds : IsUser(u) => users[u].tenant \in Tenants
        /\ \A k \in KeyIds : IsKey(k) => keys[k].tenant \in Tenants /\ keys[k].subj \in Subjects \cup {None}
        /\ Roles \subseteq AllRoles /\ None \notin Tenants
        /\ UserIds \subseteq Nat /\ KeyIds \subseteq Nat
    BY Inputs DEF Typed, Housed, Lives, IsUser, IsKey, RowsOK, KeyRow, UserIds, KeyIds
  <1>1. CASE GrantRead(r)
    <2>1. PICK t \in Tenants, e \in Emails, role \in Roles :
            /\ IsTenant(t) /\ req[r].pc = "idle"
            /\ Start(r, [Idle EXCEPT !.kind = "grant", !.pc = "begin", !.tid = t,
                              !.email = e, !.role = role, !.type = tenants[t]])
      BY <1>1 DEF GrantRead, AdminAsked, Asked
    <2>2. Fresh([Idle EXCEPT !.kind = "grant", !.pc = "begin", !.tid = t,
                              !.email = e, !.role = role, !.type = tenants[t]])
      BY <1>0, <1>t, <2>1 DEF Idle, Request, Fresh, Named, IsTenant
    <2> QED BY <2>1, <2>2, Starts1
  <1>2. ASSUME NEW kind \in {"update", "revoke"}, UserRead(r, kind) PROVE Comes(r)
    <2>1. PICK u \in UserIds, role \in Roles :
            /\ IsUser(u) /\ req[r].pc = "idle"
            /\ Start(r, [Idle EXCEPT !.kind = kind, !.pc = "begin", !.row = u,
                          !.tid = users[u].tenant, !.role = role])
      BY <1>2 DEF UserRead, AdminAsked, Asked
    <2>2. Fresh([Idle EXCEPT !.kind = kind, !.pc = "begin", !.row = u,
                          !.tid = users[u].tenant, !.role = role])
      BY <1>0, <1>t, <2>1 DEF Idle, Request, Fresh, Named, Types
    <2> QED BY <2>1, <2>2, Starts1
  <1>3. CASE CreateRead(r)
    <2>1. PICK type \in Types, e \in Emails \cup {None} :
            /\ req[r].pc = "idle"
            /\ Start(r, [Idle EXCEPT !.kind = "create", !.pc = "insert", !.email = e, !.type = type])
      BY <1>3 DEF CreateRead, AdminAsked, Asked
    <2>2. Fresh([Idle EXCEPT !.kind = "create", !.pc = "insert", !.email = e, !.type = type])
      BY <1>0, <2>1 DEF Idle, Request, Fresh, Named, AllRoles
    <2> QED BY <2>1, <2>2, Starts1
  <1>4. CASE ProvisionRead(r)
    <2>1. PICK e \in Emails :
            /\ req[r].pc = "idle"
            /\ Start(r, [Idle EXCEPT !.kind = "provision", !.pc = "insert", !.email = e, !.type = "personal"])
      BY <1>4 DEF ProvisionRead, AdminAsked, Asked
    <2>2. Fresh([Idle EXCEPT !.kind = "provision", !.pc = "insert", !.email = e, !.type = "personal"])
      BY <1>0, <2>1 DEF Idle, Request, Fresh, Named, AllRoles, Types
    <2> QED BY <2>1, <2>2, Starts1
  <1>5. CASE UpdateTenantRead(r)
    <2>1. PICK t \in Tenants, type \in Types :
            /\ req[r].pc = "idle"
            /\ Start(r, [Idle EXCEPT !.kind = "retype", !.pc = "save", !.tid = t, !.type = type])
      BY <1>5 DEF UpdateTenantRead, AdminAsked, Asked
    <2>2. Fresh([Idle EXCEPT !.kind = "retype", !.pc = "save", !.tid = t, !.type = type])
      BY <1>0, <2>1 DEF Idle, Request, Fresh, Named, AllRoles
    <2> QED BY <2>1, <2>2, Starts1
  <1>6. CASE DeleteTenantRead(r)
    <2>1. PICK t \in Tenants :
            /\ req[r].pc = "idle"
            /\ Start(r, [Idle EXCEPT !.kind = "drop", !.pc = "begin", !.tid = t])
      BY <1>6 DEF DeleteTenantRead, AdminAsked, Asked
    <2>2. Fresh([Idle EXCEPT !.kind = "drop", !.pc = "begin", !.tid = t])
      BY <1>0, <2>1 DEF Idle, Request, Fresh, Named, AllRoles, Types
    <2> QED BY <2>1, <2>2, Starts1
  <1>7. ASSUME NEW kind \in {"share", "unshare"}, NEW o, NEW rel,
               \/ o \in Tenants /\ rel \in {"viewer", "member", "manager"}
               \/ o \in Docs /\ rel \in {"viewer", "editor"},
               AclStart(r, kind, o, rel)
        PROVE  Comes(r)
    <2>1. PICK u \in UserIds : req[r].pc = "idle" /\
            Start(r, [Idle EXCEPT !.kind = kind, !.pc = "acl",
                 !.todo = << [add |-> kind = "share", tup |-> Tup(o, rel, User(u))] >>])
      BY <1>7 DEF AclStart, Asked
    <2> DEFINE todo == << [add |-> kind = "share", tup |-> Tup(o, rel, User(u))] >>
    <2>2. Tup(o, rel, User(u)) \in Tuple
      BY <1>7, TuplesAre DEF AllRoles
    <2>3. [add |-> kind = "share", tup |-> Tup(o, rel, User(u))] \in Op
      BY <2>2, OpsAre
    <2>4. todo \in Seq(Op) /\ todo # <<>>
      BY <2>3
    <2> HIDE DEF todo
    <2>5. Fresh([Idle EXCEPT !.kind = kind, !.pc = "acl", !.todo = todo])
      BY <2>4 DEF Idle, Request, Fresh, Named, AllRoles, Types
    <2>6. Start(r, [Idle EXCEPT !.kind = kind, !.pc = "acl", !.todo = todo])
      BY <2>1 DEF todo
    <2> QED BY <2>1, <2>5, <2>6, Starts1
  <1>8. CASE GrantTenantAccess(r) \/ RevokeTenantAccess(r) \/ DocumentAccess(r)
    <2>1. docs \subseteq Docs
      BY DEF Typed, RowsOK
    <2> QED BY <1>7, <1>8, <2>1 DEF GrantTenantAccess, RevokeTenantAccess, DocumentAccess
  <1>9. CASE CreateKeyRead(r)
    <2>1. PICK t \in Tenants, s \in Subjects, pin \in Pins :
            /\ req[r].pc = "idle"
            /\ Start(r, [Idle EXCEPT !.kind = "key", !.pc = "insert", !.tid = t,
                     !.subj = IF IsAdmin(s) THEN pin ELSE s])
      BY <1>9 DEF CreateKeyRead, Asked
    <2>2. Fresh([Idle EXCEPT !.kind = "key", !.pc = "insert", !.tid = t,
                     !.subj = IF IsAdmin(s) THEN pin ELSE s])
      BY <1>0, <2>1, Inputs DEF Idle, Request, Fresh, Named, AllRoles, Types
    <2> QED BY <2>1, <2>2, Starts1
  <1>10. CASE RotateRead(r)
    <2>1. PICK k \in KeyIds, g \in (IF "grace" \in work THEN BOOLEAN ELSE {FALSE}) :
            /\ IsKey(k) /\ req[r].pc = "idle"
            /\ Start(r, [Idle EXCEPT !.kind = "rotate", !.pc = "begin", !.kid = k, !.grace = g,
                          !.tid = keys[k].tenant, !.subj = keys[k].subj])
      BY <1>10 DEF RotateRead, AdminAsked, Asked
    <2>2. Fresh([Idle EXCEPT !.kind = "rotate", !.pc = "begin", !.kid = k, !.grace = g,
                          !.tid = keys[k].tenant, !.subj = keys[k].subj])
      BY <1>0, <1>t, <2>1 DEF Idle, Request, Fresh, Named, AllRoles, Types
    <2> QED BY <2>1, <2>2, Starts1
  <1>11. CASE RevokeAPIKey(r)
    <2>1. /\ req' = [req EXCEPT ![r] = Done] /\ req[r].pc = "idle"
          /\ UNCHANGED <<tenants, docs, users, tuples>> /\ Quiet
      BY <1>11 DEF RevokeAPIKey, AdminAsked, Asked, Finish
    <2> QED BY <1>11, <2>1, Blank DEF Comes
  <1>12. CASE DeleteKeyRead(r)
    <2>1. PICK k \in KeyIds : Dead(k) /\ req[r].pc = "idle" /\
            Start(r, [Idle EXCEPT !.kind = "delkey", !.pc = "delete", !.kid = k])
      BY <1>12 DEF DeleteKeyRead, AdminAsked, Asked
    <2>2. Fresh([Idle EXCEPT !.kind = "delkey", !.pc = "delete", !.kid = k])
      BY <1>0, <1>t, <2>1 DEF Idle, Request, Fresh, Named, AllRoles, Types
    <2> QED BY <2>1, <2>2, Starts1
  <1>13. CASE BootstrapStart(r)
    <2>1. PICK e \in Emails \cup {None} : req[r].pc = "idle" /\
            Start(r, [Idle EXCEPT !.kind = "bootstrap", !.pc = "lock", !.email = IF OAuth THEN e ELSE None])
      BY <1>13 DEF BootstrapStart, Asked
    <2>2. Fresh([Idle EXCEPT !.kind = "bootstrap", !.pc = "lock", !.email = IF OAuth THEN e ELSE None])
      BY <1>0, <2>1 DEF Idle, Request, Fresh, Named, AllRoles, Types
    <2> QED BY <2>1, <2>2, Starts1
  <1> QED
    BY <1>1, <1>2, <1>3, <1>4, <1>5, <1>6, <1>8, <1>9, <1>10, <1>11, <1>12, <1>13 DEF Arrive

-----------------------------------------------------------------------------
(* The requests as they are served.                                        *)

\* A request moves on, or is answered.
LEMMA Moves ==
  ASSUME ReqsOK, NEW r \in Reqs
  PROVE  /\ Finish(r) => ReqsOK'
         /\ \A pc \in {"begin", "write", "tuples", "sync", "pruned", "seed", "found"} : GoTo(r, pc) => ReqsOK'
  <1>1. ASSUME Finish(r) PROVE ReqsOK'
    BY <1>1, Blank, ReqKept DEF Finish
  <1>2. ASSUME NEW pc \in {"begin", "write", "tuples", "sync", "pruned", "seed", "found"}, GoTo(r, pc) PROVE ReqsOK'
    <2> DEFINE q == [req[r] EXCEPT !.pc = pc]
    <2>0. req[r] \in Request /\ Named(req[r])
      BY DEF ReqsOK
    <2>1. q \in Request
      BY <2>0 DEF Request
    <2>a. /\ q.kind = req[r].kind /\ q.tid = req[r].tid /\ q.row = req[r].row
          /\ q.kid = req[r].kid /\ q.pc \notin {"insert", "acl"}
      BY <2>0 DEF Request
    <2>b. Named(q)
      BY <2>0, <2>a DEF Named
    <2>2. req' = [req EXCEPT ![r] = q]
      BY <1>2 DEF GoTo
    <2> QED BY <2>1, <2>b, <2>2, ReqKept
  <1> QED BY <1>1, <1>2

\* It goes on with operations, a row, a key or locks.
LEMMA Carries ==
  ASSUME ReqsOK, NEW r \in Reqs, NEW q \in Request, q.kind = req[r].kind, q.tid = req[r].tid,
         q.pc \in {"tuples", "sync", "pruned", "seed"},
         req[r].kind \in {"update", "revoke"} => q.row \in UserIds,
         req[r].kind \in {"rotate", "delkey"} => q.kid \in KeyIds,
         req' = [req EXCEPT ![r] = q]
  PROVE  ReqsOK'
  <1>1. Named(q)
    BY DEF ReqsOK, Named
  <1> QED BY <1>1, ReqKept

\* One operation is done.
LEMMA OneOp ==
  ASSUME Typed, NEW r \in Reqs, req[r].todo # <<>>
  PROVE  Head(req[r].todo) \in Op /\ Head(req[r].todo).tup \in Tuple /\ Tail(req[r].todo) \in Seq(Op)
  <1>1. req[r].todo \in Seq(Op)
    BY DEF Typed, ReqsOK, Request
  <1>2. Head(req[r].todo) \in Op /\ Tail(req[r].todo) \in Seq(Op)
    BY <1>1, HeadTailProperties
  <1> QED BY <1>2 DEF Op

\* Whatever a request does, the requests stay typed.
LEMMA ServeReqs ==
  ASSUME Typed, NEW r \in Reqs, Serve(r) \/ Fail(r)
  PROVE  ReqsOK'
  <1>t. /\ ReqsOK /\ req[r] \in Request /\ Named(req[r])
        /\ UserIds \subseteq Nat /\ KeyIds \subseteq Nat
    BY DEF Typed, ReqsOK, UserIds, KeyIds
  <1>f. req[r].todo \in Seq(Op) /\ req[r].row \in Nat /\ req[r].kid \in Nat /\ req[r].gone \in SUBSET Tuple /\ req[r].ks \in SUBSET KeyIds
    BY <1>t DEF Request
  <1>n. /\ req[r].kind \in {"update", "revoke"} => req[r].row \in UserIds
        /\ req[r].kind \in {"rotate", "delkey"} => req[r].kid \in KeyIds
    BY <1>t DEF Named
  <1>0. << >> \in Seq(Op)
    BY EmptySeq
  <1>1. CASE Finish(r)
    BY <1>1, <1>t, Moves
  <1>2. CASE BeginTxn(r) \/ RotateRevoked(r) \/ Fail(r) \/ GrantError(r) \/ CreateRefused(r) \/ DropError(r)
             \/ InsertKeyRefused(r) \/ RotateGone(r) \/ BootstrapCheck(r) \/ BootstrapRefused(r)
    BY <1>2, <1>t, Moves DEF BeginTxn, RotateRevoked, Fail, GrantError, CreateRefused, DropError, InsertKeyRefused,
      RotateGone, BootstrapCheck, BootstrapRefused, Abandon
  <1>3. CASE CommitUser(r) \/ CreateTenant(r) \/ AclWrite(r) \/ SaveTenant(r) \/ DropTenant(r)
             \/ SeedKeyTuple(r) \/ DeleteKey(r) \/ RotateRetire(r) \/ Bootstrap(r)
    BY <1>3, <1>1 DEF CommitUser, CreateTenant, AclWrite, SaveTenant, DropTenant, SeedKeyTuple, DeleteKey, RotateRetire, Bootstrap
  <1>4. CASE TxnTuple(r)
    <2>1. Tail(req[r].todo) \in Seq(Op) /\ req[r].pc \in {"tuples", "sync"}
      BY <1>4, OneOp DEF TxnTuple
    <2> DEFINE q == [req[r] EXCEPT !.todo = Tail(req[r].todo)]
    <2>5. /\ q \in Request /\ q.kind = req[r].kind /\ q.tid = req[r].tid /\ q.pc = req[r].pc
          /\ q.row = req[r].row /\ q.kid = req[r].kid
      BY <1>t, <1>f, <2>1 DEF Request
    <2>6. req' = [req EXCEPT ![r] = q]
      BY <1>4 DEF TxnTuple
    <2> HIDE DEF q
    <2> QED BY <2>1, <2>5, <2>6, <1>t, <1>n, Carries
  <1>5. CASE SyncServicePrincipalAdmin(r)
    <2> DEFINE todo == << [add |-> CountAdmins(req[r]) # {}, tup |-> SystemAdmin(Svc(req[r].tid))] >>
    <2>1. SystemAdmin(Svc(req[r].tid)) \in Tuple
      BY <1>5, <1>t, TuplesAre DEF SyncServicePrincipalAdmin, Runs, At, Named
    <2>2. [add |-> CountAdmins(req[r]) # {}, tup |-> SystemAdmin(Svc(req[r].tid))] \in Op
      BY <2>1, OpsAre
    <2>3. todo \in Seq(Op)
      BY <2>2
    <2>4. req' = [req EXCEPT ![r].pc = "sync", ![r].todo = todo]
      BY <1>5 DEF SyncServicePrincipalAdmin
    <2> HIDE DEF todo
    <2> DEFINE q == [req[r] EXCEPT !.pc = "sync", !.todo = todo]
    <2>5. /\ q \in Request /\ q.kind = req[r].kind /\ q.tid = req[r].tid /\ q.pc = "sync"
          /\ q.row = req[r].row /\ q.kid = req[r].kid
      BY <1>t, <1>f, <2>3 DEF Request
    <2>6. req' = [req EXCEPT ![r] = q]
      BY <2>4
    <2> HIDE DEF q
    <2> QED BY <2>5, <2>6, <1>t, <1>n, Carries
  <1>6. CASE GrantInsert(r)
    <2>1. PICK u \in UserIds :
             req' = [req EXCEPT ![r].pc = "tuples", ![r].row = u, ![r].todo = Todo(req[r], u)]
      BY <1>6 DEF GrantInsert
    <2>2. req[r].kind = "grant" /\ req[r].tid \in Tenants
      BY <1>6, <1>t DEF GrantInsert, Runs, At, Named
    <2>3. Todo(req[r], u) \in Seq(Op)
      BY <1>t, <2>2, GrantTodo
    <2> DEFINE q == [req[r] EXCEPT !.pc = "tuples", !.row = u, !.todo = Todo(req[r], u)]
    <2>5. /\ q \in Request /\ q.kind = req[r].kind /\ q.tid = req[r].tid /\ q.pc = "tuples"
          /\ q.row = u /\ q.kid = req[r].kid
      BY <1>t, <1>f, <2>3 DEF Request
    <2>6. req' = [req EXCEPT ![r] = q]
      BY <2>1
    <2> HIDE DEF q
    <2> QED BY <2>2, <2>5, <2>6, <1>t, <1>n, Carries
  <1>7. CASE ChangeUser(r)
    <2> DEFINE todo == IF req[r].kind = "update" THEN UpdateTodo(req[r]) ELSE RevokeTodo(req[r])
    <2>1. todo \in Seq(Op)
      BY <1>7, <1>t, ChangeTodo DEF ChangeUser, Runs, At, Named
    <2>2. req' = [req EXCEPT ![r].pc = "tuples", ![r].todo = todo]
      BY <1>7 DEF ChangeUser
    <2> HIDE DEF todo
    <2> DEFINE q == [req[r] EXCEPT !.pc = "tuples", !.todo = todo]
    <2>5. /\ q \in Request /\ q.kind = req[r].kind /\ q.tid = req[r].tid /\ q.pc = "tuples"
          /\ q.row = req[r].row /\ q.kid = req[r].kid
      BY <1>t, <1>f, <2>1 DEF Request
    <2>6. req' = [req EXCEPT ![r] = q]
      BY <2>2
    <2> HIDE DEF q
    <2> QED BY <2>5, <2>6, <1>t, <1>n, Carries
  <1>8. CASE Prune(r)
    <2>1. TenantTuples(req[r].tid) \in SUBSET Tuple /\ KeysOf(req[r].tid) \in SUBSET KeyIds
      BY DEF TenantTuples, KeysOf, Typed
    <2>2. req' = [req EXCEPT ![r].pc = "pruned", ![r].gone = TenantTuples(req[r].tid), ![r].ks = KeysOf(req[r].tid)]
      BY <1>8 DEF Prune
    <2> DEFINE q == [req[r] EXCEPT !.pc = "pruned", !.gone = TenantTuples(req[r].tid), !.ks = KeysOf(req[r].tid)]
    <2>5. /\ q \in Request /\ q.kind = req[r].kind /\ q.tid = req[r].tid /\ q.pc = "pruned"
          /\ q.row = req[r].row /\ q.kid = req[r].kid
      BY <1>t, <1>f, <2>1 DEF Request
    <2>6. req' = [req EXCEPT ![r] = q]
      BY <2>2
    <2> HIDE DEF q
    <2> QED BY <2>5, <2>6, <1>t, <1>n, Carries
  <1>9. CASE InsertKey(r)
    <2>1. PICK k \in KeyIds : req' = [req EXCEPT ![r].pc = "seed", ![r].kid = k]
      BY <1>9 DEF InsertKey
    <2> DEFINE q == [req[r] EXCEPT !.pc = "seed", !.kid = k]
    <2>5. /\ q \in Request /\ q.kind = req[r].kind /\ q.tid = req[r].tid /\ q.pc = "seed"
          /\ q.row = req[r].row /\ q.kid = k
      BY <1>t, <1>f DEF Request
    <2>6. req' = [req EXCEPT ![r] = q]
      BY <2>1
    <2> HIDE DEF q
    <2> QED BY <2>5, <2>6, <1>t, <1>n, Carries
  <1>10. CASE RotateMint(r)
    <2> DEFINE x == TenantMember(req[r].tid, IF req[r].subj = None THEN Svc(req[r].tid) ELSE req[r].subj)
    <2>1. PICK k \in KeyIds : req' = [req EXCEPT ![r].pc = "tuples", ![r].row = k, ![r].todo = << Write(x) >>]
      BY <1>10 DEF RotateMint
    <2>2. req[r].tid \in Tenants /\ req[r].kind = "rotate"
      BY <1>10, <1>t DEF RotateMint, Runs, At, Named
    <2>3. x \in Tuple
      BY <2>2, <1>t, TuplesAre DEF Request
    <2>4. << Write(x) >> \in Seq(Op)
      BY <2>3, OpsAre
    <2> HIDE DEF x
    <2> DEFINE q == [req[r] EXCEPT !.pc = "tuples", !.row = k, !.todo = << Write(x) >>]
    <2>5. /\ q \in Request /\ q.kind = req[r].kind /\ q.tid = req[r].tid /\ q.pc = "tuples"
          /\ q.row = k /\ q.kid = req[r].kid
      BY <1>t, <1>f, <2>4 DEF Request
    <2>6. req' = [req EXCEPT ![r] = q]
      BY <2>1
    <2> HIDE DEF q
    <2> QED BY <2>2, <2>5, <2>6, <1>t, <1>n, Carries
  <1> QED
    BY <1>2, <1>3, <1>4, <1>5, <1>6, <1>7, <1>8, <1>9, <1>10 DEF Serve

-----------------------------------------------------------------------------
(* The rows.                                                               *)

\* Rows that are blank, deleted or new are rows.
LEMMA RowsAre ==
  /\ GoneUser \in UserRow /\ ~Lives(GoneUser) /\ GoneKey \in KeyRow /\ ~Lives(GoneKey)
  /\ \A e \in Emails \cup {None}, t \in Tenants, role \in AllRoles, st \in {"pending", "row"} :
       [st |-> st, email |-> e, tenant |-> t, role |-> role] \in UserRow
  /\ \A t \in Tenants, s \in Subjects \cup {None}, k \in KeyIds \cup {0}, st \in {"pending", "live"} :
       NewKey(t, s, k, st) \in KeyRow
  /\ None \notin Tenants
  BY Inputs DEF GoneUser, NoUser, UserRow, GoneKey, NoKey, KeyRow, NewKey, Lives, AllRoles

\* Users change to users of a tenant that has been created.
UsersKept == /\ users' \in [UserIds -> UserRow]
             /\ \A u \in UserIds : Lives(users'[u]) => /\ users'[u].tenant \in Tenants
                                                       /\ tenants'[users'[u].tenant] # "unused"
\* Keys too.
KeysKept == keys' \in [KeyIds -> KeyRow] /\ \A k \in KeyIds : Lives(keys'[k]) => keys'[k].tenant \in Tenants

\* One user changes.
LEMMA SetUser ==
  ASSUME Typed, UNCHANGED tenants, NEW u, NEW row \in UserRow, users' = [users EXCEPT ![u] = row],
         Lives(row) => row.tenant \in Tenants /\ tenants[row.tenant] # "unused"
  PROVE  UsersKept
  BY DEF UsersKept, Typed, Housed, RowsOK

\* One key changes.
LEMMA SetKey ==
  ASSUME Typed, NEW k, NEW row \in KeyRow, keys' = [keys EXCEPT ![k] = row], Lives(row) => row.tenant \in Tenants
  PROVE  KeysKept
  BY DEF KeysKept, Typed, Housed, RowsOK

\* Nothing changes.
LEMMA SameRows ==
  ASSUME Typed
  PROVE  /\ UNCHANGED <<tenants, users>> => UsersKept
         /\ UNCHANGED keys => KeysKept
         /\ UNCHANGED <<tenants, docs>> => tenants' \in [Tenants -> TenantRow] /\ docs' \subseteq Docs
         /\ UNCHANGED tuples => tuples' \subseteq Tuple
         /\ UNCHANGED <<boot, armed, boots, retyped>> => BootsOK'
  BY DEF UsersKept, KeysKept, Typed, Housed, RowsOK, BootsOK

\* All of it.
Kept == /\ tenants' \in [Tenants -> TenantRow] /\ docs' \subseteq Docs
        /\ UsersKept /\ KeysKept /\ tuples' \subseteq Tuple

\* Then the state stays typed.
LEMMA KeptAll == ASSUME Kept, BootsOK', ReqsOK' PROVE Typed'
  BY DEF Kept, UsersKept, KeysKept, Typed, Housed, RowsOK

\* An error return.
LEMMA Abandons == ASSUME Typed, NEW r \in Reqs, Abandon(r) PROVE Kept
  <1>1. UsersKept
    <2>1. CASE UNCHANGED users
      BY <2>1, SameRows DEF Abandon
    <2>2. CASE users' = [users EXCEPT ![req[r].row] = GoneUser]
      BY <2>2, RowsAre, SetUser DEF Abandon
    <2> QED BY <2>1, <2>2 DEF Abandon
  <1>2. KeysKept
    <2>1. CASE UNCHANGED keys
      BY <2>1, SameRows
    <2>2. CASE keys' = [keys EXCEPT ![req[r].row] = GoneKey]
      BY <2>2, RowsAre, SetKey
    <2> QED BY <2>1, <2>2 DEF Abandon
  <1> QED BY <1>1, <1>2, SameRows DEF Kept, Abandon

\* A new tenant, with a user or without.
LEMMA NewTenant ==
  ASSUME Typed, NEW t \in Tenants, tenants[t] = "unused", NEW type \in Types, tenants' = [tenants EXCEPT ![t] = type],
         \/ UNCHANGED users
         \/ \E u \in UserIds, e \in Emails \cup {None} : users' = OwnerRow(t, u, e)
  PROVE  tenants' \in [Tenants -> TenantRow] /\ UsersKept
  <1>1. tenants \in [Tenants -> TenantRow] /\ users \in [UserIds -> UserRow] /\ type \in TenantRow /\ type # "unused"
    BY DEF Typed, RowsOK, TenantRow, Types
  <1>2. tenants' \in [Tenants -> TenantRow] /\ \A s \in Tenants : tenants[s] # "unused" => tenants'[s] # "unused"
    BY <1>1
  <1>3. CASE UNCHANGED users
    BY <1>1, <1>2, <1>3 DEF UsersKept, Typed, Housed
  <1>4. ASSUME NEW u \in UserIds, NEW e \in Emails \cup {None}, users' = OwnerRow(t, u, e) PROVE UsersKept
    <2> DEFINE row == [st |-> "row", email |-> e, tenant |-> t, role |-> "owner"]
    <2>1. row \in UserRow /\ row.tenant = t
      BY RowsAre DEF AllRoles
    <2>2. users' = [users EXCEPT ![u] = row]
      BY <1>4 DEF OwnerRow
    <2> HIDE DEF row
    <2>3. tenants'[t] # "unused"
      BY <1>1
    <2>4. users' \in [UserIds -> UserRow] /\ \A v \in UserIds : users'[v] = users[v] \/ (users'[v] = row)
      BY <1>1, <2>1, <2>2
    <2> QED BY <1>2, <2>1, <2>3, <2>4 DEF UsersKept, Typed, Housed
  <1> QED BY <1>2, <1>3, <1>4

\* The tuples of a new tenant.
LEMMA SeedsAre ==
  ASSUME NEW t \in Tenants
  PROVE  /\ NewTenantTuples(t) \subseteq Tuple
         /\ \A u \in UserIds : OwnerTuples(t, u) \subseteq Tuple /\ SystemAdmin(User(u)) \in Tuple
         /\ Tup(t, "owner", Svc(t)) \in Tuple /\ SystemAdmin(Svc(t)) \in Tuple
  BY TuplesAre DEF NewTenantTuples, OwnerTuples, AllRoles

\* Whatever a request does, the rows and tuples stay typed.
LEMMA ServeRows == ASSUME Typed, Grants, Rotations, NEW r \in Reqs, Serve(r) \/ Fail(r) PROVE Kept
  <1>t. /\ req[r] \in Request /\ Named(req[r]) /\ tuples \subseteq Tuple /\ UserIds \subseteq Nat
        /\ users \in [UserIds -> UserRow] /\ keys \in [KeyIds -> KeyRow] /\ tenants \in [Tenants -> TenantRow]
    BY DEF Typed, ReqsOK, RowsOK, UserIds
  <1>1. ASSUME UNCHANGED rows, tuples' \subseteq Tuple PROVE Kept
    BY <1>1, SameRows DEF rows, Kept
  <1>2. CASE BeginTxn(r) \/ SyncServicePrincipalAdmin(r) \/ ChangeUser(r) \/ Prune(r) \/ BootstrapCheck(r)
    BY <1>1, <1>2, <1>t DEF BeginTxn, SyncServicePrincipalAdmin, ChangeUser, Prune, BootstrapCheck
  <1>3. CASE RotateRevoked(r) \/ Fail(r) \/ GrantError(r) \/ CreateRefused(r) \/ DropError(r)
             \/ InsertKeyRefused(r) \/ RotateGone(r) \/ BootstrapRefused(r)
    BY <1>3, Abandons DEF RotateRevoked, Fail, GrantError, CreateRefused, DropError, InsertKeyRefused,
      RotateGone, BootstrapRefused
  <1>4. CASE TxnTuple(r) \/ AclWrite(r)
    <2>1. req[r].todo # <<>>
      BY <1>4, <1>t DEF TxnTuple, AclWrite, Runs, At, Named
    <2>2. Head(req[r].todo).tup \in Tuple
      BY <2>1, OneOp
    <2> QED BY <1>1, <1>4, <1>t, <2>2 DEF TxnTuple, AclWrite
  <1>5. CASE SeedKeyTuple(r)
    <2>1. TenantMember(req[r].tid, IF req[r].subj = None THEN Svc(req[r].tid) ELSE req[r].subj) \in Tuple
      BY <1>5, <1>t, TuplesAre DEF SeedKeyTuple, Runs, At, Named, Request
    <2> QED BY <1>1, <1>5, <1>t, <2>1 DEF SeedKeyTuple
  <1>6. CASE CommitUser(r)
    <2>1. users' = Committed(req[r]) /\ req[r].kind \in {"grant", "update", "revoke"} /\ UNCHANGED <<tenants, docs, keys, tuples>>
      BY <1>6 DEF CommitUser, Runs, At
    <2>2. /\ req[r].role \in AllRoles
          /\ \A u \in UserIds : users[u].tenant \in Tenants => users[u].tenant # None
      BY <1>t, RowsAre DEF Request
    <2>a. UsersKept
      <3>1. CASE req[r].kind = "grant"
        <4> DEFINE row == [users[req[r].row] EXCEPT !.st = "row"]
        <4>1. users' = [users EXCEPT ![req[r].row] = row]
          BY <2>1, <3>1 DEF Committed
        <4>2. req[r].row \in UserIds /\ Lives(users[req[r].row])
          BY <1>6, <3>1 DEF CommitUser, Runs, At, Grants, Lives
        <4>3. row \in UserRow /\ row.tenant = users[req[r].row].tenant
          BY <1>t, <4>2 DEF UserRow
        <4>4. row.tenant \in Tenants /\ tenants[row.tenant] # "unused"
          BY <4>2, <4>3 DEF Typed, Housed
        <4> HIDE DEF row
        <4> QED BY <2>1, <4>1, <4>3, <4>4, SetUser
      <3>2. CASE req[r].kind # "grant"
        <4>1. CASE UNCHANGED users
          BY <2>1, <4>1, SameRows
        <4>2. CASE users' = [users EXCEPT ![req[r].row].role = req[r].role]
          <5> DEFINE row == [users[req[r].row] EXCEPT !.role = req[r].role]
          <5>1. req[r].row \in UserIds
            BY <1>t, <2>1, <3>2 DEF Named
          <5>2. row \in UserRow /\ row.tenant = users[req[r].row].tenant /\ row.st = users[req[r].row].st
            BY <1>t, <2>2, <5>1 DEF UserRow
          <5>3. users' = [users EXCEPT ![req[r].row] = row]
            BY <4>2
          <5>4. Lives(row) => row.tenant \in Tenants /\ tenants[row.tenant] # "unused"
            BY <5>1, <5>2 DEF Typed, Housed, Lives
          <5> HIDE DEF row
          <5> QED BY <2>1, <5>2, <5>3, <5>4, SetUser
        <4>3. CASE users' = [users EXCEPT ![req[r].row] = GoneUser]
          BY <2>1, <4>3, RowsAre, SetUser
        <4> QED BY <2>1, <3>2, <4>1, <4>2, <4>3 DEF Committed
      <3> QED BY <3>1, <3>2
    <2> QED BY <2>1, <2>a, SameRows DEF Kept
  <1>7. CASE GrantInsert(r)
    <2>1. PICK u \in UserIds :
             users' = [users EXCEPT ![u] = [st |-> "pending", email |-> req[r].email,
                                            tenant |-> req[r].tid, role |-> req[r].role]]
      BY <1>7 DEF GrantInsert
    <2>2. /\ req[r].tid \in Tenants /\ req[r].email \in Emails \cup {None} /\ req[r].role \in AllRoles
          /\ tenants[req[r].tid] # "unused" /\ UNCHANGED <<tenants, docs, keys, tuples>>
      BY <1>7, <1>t DEF GrantInsert, Runs, At, Named, Request, GrantRefused, IsTenant, Types
    <2>3. UsersKept
      BY <2>1, <2>2, RowsAre, SetUser
    <2> QED BY <2>2, <2>3, SameRows DEF Kept
  <1>8. CASE CreateTenant(r)
    <2>1. PICK t \in Tenants :
            /\ tenants[t] = "unused" /\ tenants' = [tenants EXCEPT ![t] = req[r].type]
            /\ \/ UNCHANGED users /\ tuples' = tuples \cup NewTenantTuples(t)
               \/ \E u \in UserIds : /\ users' = OwnerRow(t, u, req[r].email)
                                     /\ tuples' = tuples \cup NewTenantTuples(t) \cup OwnerTuples(t, u)
      BY <1>8 DEF CreateTenant
    <2>2. req[r].type \in Types /\ req[r].email \in Emails \cup {None}
      BY <1>t DEF Request
    <2>3. tenants' \in [Tenants -> TenantRow] /\ UsersKept
      BY <2>1, <2>2, NewTenant
    <2>4. tuples' \subseteq Tuple
      BY <1>t, <2>1, SeedsAre
    <2>5. KeysKept /\ docs' \subseteq Docs
      BY <1>8, SameRows DEF CreateTenant, Typed, RowsOK
    <2> QED BY <2>3, <2>4, <2>5 DEF Kept
  <1>9. CASE SaveTenant(r)
    <2>1. req[r].type \in Types /\ req[r].tid \in Tenants
      BY <1>9, <1>t DEF SaveTenant, Runs, At, Named, Request
    <2>2. tenants' = [tenants EXCEPT ![req[r].tid] = req[r].type] /\ UNCHANGED <<docs, users, keys, tuples>>
      BY <1>9 DEF SaveTenant
    <2>3. tenants' \in [Tenants -> TenantRow] /\ \A s \in Tenants : tenants[s] # "unused" => tenants'[s] # "unused"
      BY <1>t, <2>1, <2>2 DEF TenantRow, Types
    <2>4. UsersKept
      BY <2>2, <2>3 DEF UsersKept, Typed, RowsOK, Housed
    <2> QED BY <1>t, <2>2, <2>3, <2>4, SameRows DEF Kept, Typed, RowsOK
  <1>10. CASE DropTenant(r)
    <2>1. /\ tenants' = [tenants EXCEPT ![req[r].tid] = "gone"]
          /\ docs' = {d \in docs : Home[d] # req[r].tid}
          /\ users' = [u \in UserIds |-> IF u \in UsersOf(req[r].tid) THEN GoneUser ELSE users[u]]
          /\ keys' = [k \in KeyIds |-> IF k \in req[r].ks THEN GoneKey ELSE keys[k]]
          /\ tuples' = tuples \ req[r].gone
      BY <1>10 DEF DropTenant
    <2>2. tenants' \in [Tenants -> TenantRow] /\ \A s \in Tenants : tenants[s] # "unused" => tenants'[s] # "unused"
      BY <1>t, <2>1 DEF TenantRow, Types
    <2>3. UsersKept /\ KeysKept
      BY <1>t, <2>1, <2>2, RowsAre DEF UsersKept, KeysKept, Typed, RowsOK, Housed
    <2> QED BY <1>t, <2>1, <2>2, <2>3 DEF Kept, Typed, RowsOK
  <1>11. CASE InsertKey(r) \/ RotateMint(r)
    <2>1. req[r].tid \in Tenants /\ req[r].kid \in Nat /\ req[r].subj \in Subjects \cup {None}
      BY <1>11, <1>t DEF InsertKey, RotateMint, Runs, At, Named, Request
    <2>2. PICK k \in KeyIds, from \in {0, req[r].kid}, st \in {"live", "pending"} :
            /\ keys' = [keys EXCEPT ![k] = NewKey(req[r].tid, req[r].subj, from, st)]
            /\ from = 0 \/ req[r].kind = "rotate"
      BY <1>11 DEF InsertKey, RotateMint, Runs, At
    <2>3. from \in KeyIds \cup {0}
      BY <1>t, <2>2 DEF Named
    <2>4. NewKey(req[r].tid, req[r].subj, from, st) \in KeyRow /\ NewKey(req[r].tid, req[r].subj, from, st).tenant = req[r].tid
      BY <2>1, <2>3, RowsAre DEF NewKey
    <2>5. KeysKept
      BY <2>1, <2>2, <2>4, SetKey
    <2> QED BY <1>11, <2>5, SameRows DEF Kept, InsertKey, RotateMint
  <1>12. CASE RotateRetire(r)
    <2>1. /\ keys' = [keys EXCEPT ![req[r].row].st = "live", ![req[r].kid].st = Retired(req[r])]
          /\ req[r].kid \in KeyIds /\ UNCHANGED <<tenants, docs, users, tuples>>
      BY <1>12, <1>t DEF RotateRetire, Runs, At, Named
    <2>2. req[r].row \in KeyIds /\ Lives(keys[req[r].row]) /\ Lives(keys[req[r].kid])
      BY <1>12 DEF RotateRetire, Runs, At, Rotations, RotationOK, Lives, IsKey
    <2>3. Retired(req[r]) \in {"grace", "revoked"}
      BY DEF Retired
    <2>4. keys' \in [KeyIds -> KeyRow] /\ \A k \in KeyIds : keys'[k].tenant = keys[k].tenant
      BY <1>t, <2>1, <2>2, <2>3 DEF KeyRow
    <2>5. \A k \in KeyIds : Lives(keys'[k]) => Lives(keys[k])
      BY <1>t, <2>1, <2>2 DEF KeyRow
    <2>6. KeysKept
      BY <2>4, <2>5 DEF KeysKept, Typed, Housed
    <2> QED BY <2>1, <2>6, SameRows DEF Kept
  <1>13. CASE DeleteKey(r)
    <2>1. KeysKept
      BY <1>13, RowsAre, SetKey DEF DeleteKey
    <2> QED BY <1>13, <2>1, SameRows DEF Kept, DeleteKey
  <1>14. CASE Bootstrap(r)
    <2>1. PICK t \in Tenants, k \in KeyIds :
            /\ tenants[t] = "unused" /\ tenants' = [tenants EXCEPT ![t] = "personal"]
            /\ keys' = [keys EXCEPT ![k] = [NewKey(t, None, 0, "live") EXCEPT !.founding = TRUE]]
            /\ LET seeds == NewTenantTuples(t) \cup {Tup(t, "owner", Svc(t)), SystemAdmin(Svc(t))} IN
                 \/ tuples' = tuples \cup seeds /\ UNCHANGED users
                 \/ \E u \in UserIds : /\ users' = OwnerRow(t, u, req[r].email)
                                       /\ tuples' = tuples \cup seeds \cup OwnerTuples(t, u) \cup {SystemAdmin(User(u))}
      BY <1>14 DEF Bootstrap
    <2>2. "personal" \in Types /\ req[r].email \in Emails \cup {None}
      BY <1>t DEF Request, Types
    <2>3. tenants' \in [Tenants -> TenantRow] /\ UsersKept
      BY <2>1, <2>2, NewTenant
    <2>4. tuples' \subseteq Tuple
      BY <1>t, <2>1, SeedsAre
    <2> DEFINE row == [NewKey(t, None, 0, "live") EXCEPT !.founding = TRUE]
    <2>5. NewKey(t, None, 0, "live") \in KeyRow /\ NewKey(t, None, 0, "live").tenant = t
      BY RowsAre DEF NewKey
    <2>6. row \in KeyRow /\ row.tenant = t
      BY <2>5 DEF KeyRow
    <2>7. keys' = [keys EXCEPT ![k] = row]
      BY <2>1
    <2> HIDE DEF row
    <2>8. KeysKept
      BY <2>6, <2>7, SetKey
    <2> QED BY <1>14, <2>3, <2>4, <2>8 DEF Kept, Bootstrap, Typed, RowsOK
  <1> QED
    BY <1>2, <1>3, <1>4, <1>5, <1>6, <1>7, <1>8, <1>9, <1>10, <1>11, <1>12, <1>13, <1>14 DEF Serve

\* What replicas keep is changed by replicas, and by a change of a tenant's type.
LEMMA ServeBoots == ASSUME Typed, NEW r \in Reqs, Serve(r) \/ Fail(r) PROVE BootsOK' /\ UNCHANGED work
  <1>1. CASE Quiet
    BY <1>1, SameRows DEF Quiet
  <1>2. CASE SaveTenant(r)
    <2>1. req[r].tid \in Tenants
      BY <1>2 DEF SaveTenant, Runs, At, Typed, ReqsOK, Named
    <2> QED BY <1>2, <2>1 DEF SaveTenant, Typed, BootsOK
  <1>3. CASE Abandon(r)
    BY <1>1, <1>3 DEF Abandon
  <1> QED
    BY <1>1, <1>2, <1>3 DEF Serve, Fail, BeginTxn, TxnTuple, SyncServicePrincipalAdmin, CommitUser, GrantInsert, GrantError,
      ChangeUser, CreateTenant, CreateRefused, AclWrite, Prune, DropTenant, DropError, InsertKey, InsertKeyRefused,
      SeedKeyTuple, DeleteKey, RotateMint, RotateGone, RotateRetire, RotateRevoked, BootstrapCheck, Bootstrap, BootstrapRefused

\* A key's state changes.
LEMMA SetState ==
  ASSUME Typed, NEW k \in KeyIds, NEW st \in {"grace", "expired", "revoked"}, Lives(keys[k]),
         keys' = [keys EXCEPT ![k].st = st]
  PROVE  KeysKept
  <1> DEFINE row == [keys[k] EXCEPT !.st = st]
  <1>1. row \in KeyRow /\ row.tenant = keys[k].tenant
    BY DEF Typed, RowsOK, KeyRow
  <1>2. row.tenant \in Tenants
    BY <1>1 DEF Typed, Housed
  <1>3. keys' = [keys EXCEPT ![k] = row]
    OBVIOUS
  <1> HIDE DEF row
  <1> QED BY <1>1, <1>2, <1>3, SetKey

\* A request that comes keeps the types.
LEMMA ComesTyped == ASSUME Typed, NEW r \in Reqs, Comes(r) PROVE Typed'
  <1>1. KeysKept
    <2>1. CASE UNCHANGED keys
      BY <2>1, SameRows
    <2>2. CASE RevokeAPIKey(r)
      <3>1. PICK k \in KeyIds : keys[k].st \in {"live", "grace", "expired"} /\ keys' = [keys EXCEPT ![k].st = "revoked"]
        BY <2>2 DEF RevokeAPIKey
      <3>2. Lives(keys[k])
        BY <3>1 DEF Lives
      <3> QED BY <3>1, <3>2, SetState
    <2> QED BY <2>1, <2>2 DEF Comes
  <1>2. Kept
    BY <1>1, SameRows DEF Comes, Kept
  <1>3. BootsOK'
    BY SameRows DEF Comes, Quiet
  <1>4. ReqsOK'
    <2>1. PICK q \in Request : Fresh(q) /\ req' = [req EXCEPT ![r] = q]
      BY DEF Comes
    <2> QED BY <2>1, ReqKept DEF Fresh, Typed
  <1> QED BY <1>2, <1>3, <1>4, KeptAll

\* The records of a replica.
Starting == [pc : {"down", "migrating", "seed", "seeding", "check", "arm", "resetting", "reset", "up"},
             new : SUBSET Tuple, flips : SUBSET UserIds, ks : SUBSET KeyIds]

\* A replica's record is set.
LEMMA BootSet ==
  ASSUME Typed, NEW p \in Replicas, NEW b \in Starting, boot' = [boot EXCEPT ![p] = b],
         armed' \in {armed, armed \cup {p}, armed \ {p}}, boots' = boots \/ (boots < MaxBoots /\ boots' = boots + 1),
         UNCHANGED retyped
  PROVE  BootsOK'
  BY Bounds DEF Typed, BootsOK, Starting

\* What a start derives from the rows is tuples.
LEMMA DerivedAre ==
  ASSUME Typed
  PROVE  /\ Derived(Flips) \subseteq Tuple
         /\ {SystemAdmin(User(u)) : u \in Allowed} \cup ServiceAdmins({}) \subseteq Tuple
  <1>1. \A flips : ServiceAdmins(flips) \subseteq Tuple
    BY TuplesAre DEF Typed, Housed, Lives, IsUser, ServiceAdmins, AdminTenants
  <1>2. \A t \in Tenants : NewTenantTuples(t) \subseteq Tuple
    BY SeedsAre
  <1>3. \A u \in UserIds : IsUser(u) => UserTuples(u, RoleAfter(u, Flips)) \subseteq Tuple
    <2> SUFFICES ASSUME NEW u \in UserIds, IsUser(u) PROVE UserTuples(u, RoleAfter(u, Flips)) \subseteq Tuple
      OBVIOUS
    <2>1. users[u].tenant \in Tenants /\ users[u].role \in AllRoles
      BY DEF Typed, Housed, Lives, IsUser, RowsOK, UserRow
    <2>2. RoleAfter(u, Flips) \in AllRoles
      BY <2>1 DEF RoleAfter, AllRoles
    <2> QED BY <2>1, <2>2, TuplesAre DEF UserTuples
  <1>4. \A k \in KeyIds : IsKey(k) => TenantMember(keys[k].tenant, KeySubject(k)) \in Tuple
    <2> SUFFICES ASSUME NEW k \in KeyIds, IsKey(k) PROVE TenantMember(keys[k].tenant, KeySubject(k)) \in Tuple
      OBVIOUS
    <2>1. keys[k].tenant \in Tenants /\ keys[k].subj \in Subjects \cup {None}
      BY DEF Typed, Housed, Lives, IsKey, RowsOK, KeyRow
    <2>2. KeySubject(k) \in Subjects
      BY <2>1, TuplesAre DEF KeySubject
    <2> QED BY <2>1, <2>2, TuplesAre
  <1>5. Derived(Flips) \subseteq Tuple
    <2> SUFFICES ASSUME NEW x \in Derived(Flips) PROVE x \in Tuple
      OBVIOUS
    <2>1. \/ \E t \in Tenants : x \in NewTenantTuples(t)
          \/ \E u \in UserIds : IsUser(u) /\ x \in UserTuples(u, RoleAfter(u, Flips))
          \/ \E k \in KeyIds : IsKey(k) /\ x = TenantMember(keys[k].tenant, KeySubject(k))
          \/ x \in ServiceAdmins(Flips)
      BY DEF Derived
    <2> QED BY <1>1, <1>2, <1>3, <1>4, <2>1
  <1> QED BY <1>1, <1>5, TuplesAre DEF Allowed

\* A replica that stops or starts keeps the types.
LEMMA BootTyped == ASSUME Typed, NEW p \in Replicas, Stop(p) \/ Boot(p) PROVE Typed'
  <1>t. /\ tuples \subseteq Tuple /\ users \in [UserIds -> UserRow] /\ keys \in [KeyIds -> KeyRow]
        /\ boot[p].new \in SUBSET Tuple
    BY DEF Typed, RowsOK, BootsOK
  <1>b. ASSUME NEW pc \in {"down", "migrating", "seed", "seeding", "check", "arm", "resetting", "reset", "up"},
               Booted(p, [Down EXCEPT !.pc = pc]),
               armed' \in {armed, armed \cup {p}, armed \ {p}}, boots' = boots \/ (boots < MaxBoots /\ boots' = boots + 1),
               UNCHANGED retyped
        PROVE  BootsOK'
    <2>1. [Down EXCEPT !.pc = pc] \in Starting
      BY DEF Starting, Down
    <2> QED BY <1>b, <2>1, BootSet DEF Booted
  <1>r. ASSUME UNCHANGED rows, tuples' \subseteq Tuple PROVE Kept
    BY <1>r, SameRows DEF rows, Kept
  <1>q. ASSUME UNCHANGED req PROVE ReqsOK'
    BY <1>q DEF Typed, ReqsOK
  <1>1. CASE Stop(p)
    <2>1. Down \in Starting
      BY DEF Starting, Down
    <2>2. BootsOK'
      BY <1>1, <2>1, BootSet DEF Stop, Booted
    <2> QED BY <1>1, <1>r, <1>q, <1>t, <2>2, KeptAll DEF Stop
  <1>2. CASE BackfillRead(p)
    <2>1. Flips \in SUBSET UserIds /\ Derived(Flips) \in SUBSET Tuple
      BY DerivedAre DEF Flips
    <2>2. [Down EXCEPT !.pc = "migrating", !.flips = Flips, !.new = Derived(Flips)] \in Starting
      BY <2>1 DEF Starting, Down
    <2>3. BootsOK'
      BY <1>2, <2>2, BootSet DEF BackfillRead, Booted, OnlyBoot
    <2> QED BY <1>2, <1>r, <1>q, <1>t, <2>3, KeptAll DEF BackfillRead, OnlyBoot
  <1>3. CASE BackfillCommit(p)
    <2>1. BootsOK'
      BY <1>3, <1>b DEF BackfillCommit
    <2>2. users' = [u \in UserIds |-> IF u \in boot[p].flips /\ IsUser(u)
                                      THEN [users[u] EXCEPT !.role = "owner"] ELSE users[u]]
      BY <1>3 DEF BackfillCommit
    <2>3. users' \in [UserIds -> UserRow] /\ \A u \in UserIds : users'[u].st = users[u].st /\ users'[u].tenant = users[u].tenant
      BY <1>t, <2>2 DEF UserRow, AllRoles
    <2>4. UsersKept
      BY <1>3, <2>3 DEF BackfillCommit, UsersKept, Typed, Housed, Lives
    <2>5. Kept
      BY <1>3, <1>t, <2>4, SameRows DEF BackfillCommit, Kept
    <2> QED BY <1>3, <1>q, <2>1, <2>5, KeptAll DEF BackfillCommit
  <1>4. CASE SeedRead(p)
    <2> DEFINE new == {SystemAdmin(User(u)) : u \in Allowed} \cup ServiceAdmins({})
    <2>1. new \in SUBSET Tuple /\ Booted(p, [Down EXCEPT !.pc = "seeding", !.new = new])
      BY <1>4, DerivedAre DEF SeedRead
    <2> HIDE DEF new
    <2>2. [Down EXCEPT !.pc = "seeding", !.new = new] \in Starting
      BY <2>1 DEF Starting, Down
    <2>3. BootsOK'
      BY <1>4, <2>1, <2>2, BootSet DEF SeedRead, Booted, OnlyBoot
    <2> QED BY <1>4, <1>r, <1>q, <1>t, <2>3, KeptAll DEF SeedRead, OnlyBoot
  <1>5. CASE SeedWrite(p)
    <2>1. BootsOK'
      BY <1>5, <1>b DEF SeedWrite
    <2> QED BY <1>5, <1>r, <1>q, <1>t, <2>1, KeptAll DEF SeedWrite
  <1>6. CASE SelfCheck(p)
    <2>1. PICK pc \in {"arm", "down"} : Booted(p, [Down EXCEPT !.pc = pc])
      BY <1>6 DEF SelfCheck
    <2>2. BootsOK'
      BY <1>6, <1>b, <2>1 DEF SelfCheck, OnlyBoot
    <2> QED BY <1>6, <1>r, <1>q, <1>t, <2>2, KeptAll DEF SelfCheck, OnlyBoot
  <1>7. CASE ResetRead(p)
    <2> DEFINE admins == {x \in tuples : x.obj = Sys /\ x.rel = "admin"}
               ks == {k \in KeyIds : IsKey(k) /\ SystemAdmin(KeySubject(k)) \in admins}
    <2>1. /\ admins \in SUBSET Tuple /\ ks \in SUBSET KeyIds
          /\ Booted(p, [Down EXCEPT !.pc = "resetting", !.new = admins, !.ks = ks])
      BY <1>7, <1>t DEF ResetRead
    <2> HIDE DEF admins, ks
    <2>2. [Down EXCEPT !.pc = "resetting", !.new = admins, !.ks = ks] \in Starting
      BY <2>1 DEF Starting, Down
    <2>3. BootsOK'
      BY <1>7, <2>1, <2>2, BootSet DEF ResetRead, Booted, OnlyBoot
    <2> QED BY <1>7, <1>r, <1>q, <1>t, <2>3, KeptAll DEF ResetRead, OnlyBoot
  <1>8. CASE ResetCommit(p)
    <2>1. Down \in Starting /\ [Down EXCEPT !.pc = "reset"] \in Starting
      BY DEF Starting, Down
    <2>2. BootsOK'
      BY <1>8, <2>1, BootSet DEF ResetCommit, Booted
    <2>3. KeysKept
      <3>1. CASE UNCHANGED keys
        BY <3>1, SameRows
      <3>2. CASE keys' = [k \in KeyIds |-> IF k \in boot[p].ks THEN GoneKey ELSE keys[k]]
        BY <1>t, <3>2, RowsAre DEF KeysKept, Typed, Housed
      <3> QED BY <1>8, <3>1, <3>2 DEF ResetCommit
    <2>4. tuples' \subseteq Tuple /\ UNCHANGED <<tenants, docs, users, req>>
      BY <1>8, <1>t DEF ResetCommit
    <2>5. Kept
      BY <2>3, <2>4, SameRows DEF Kept
    <2> QED BY <1>q, <2>2, <2>4, <2>5, KeptAll
  <1>9. CASE Arm(p)
    <2>1. BootsOK'
      BY <1>9, <1>b DEF Arm
    <2> QED BY <1>9, <1>r, <1>q, <1>t, <2>1, KeptAll DEF Arm
  <1> QED
    BY <1>1, <1>2, <1>3, <1>4, <1>5, <1>6, <1>7, <1>8, <1>9 DEF Boot

\* The sweep of dead keys, and time.
LEMMA SweepTyped == ASSUME Typed, PurgeDeadKeys \/ Expire PROVE Typed'
  <1>1. PICK k \in KeyIds : \/ keys' = [keys EXCEPT ![k] = GoneKey]
                            \/ keys[k].st = "grace" /\ keys' = [keys EXCEPT ![k].st = "expired"]
    BY DEF PurgeDeadKeys, Expire
  <1>2. UNCHANGED <<tenants, docs, users, tuples, req>> /\ Quiet
    BY DEF PurgeDeadKeys, Expire
  <1>3. CASE keys' = [keys EXCEPT ![k] = GoneKey]
    <2>1. KeysKept
      BY <1>3, RowsAre, SetKey
    <2> QED BY <1>2, <2>1, SameRows, KeptAll DEF Kept, Quiet, Typed, ReqsOK
  <1>4. CASE keys[k].st = "grace" /\ keys' = [keys EXCEPT ![k].st = "expired"]
    <2>1. Lives(keys[k])
      BY <1>4 DEF Lives
    <2>2. KeysKept
      BY <1>4, <2>1, SetState
    <2> QED BY <1>2, <2>2, SameRows, KeptAll DEF Kept, Quiet, Typed, ReqsOK
  <1> QED BY <1>1, <1>3, <1>4

\* The types hold at the start.
LEMMA TypedInit == ASSUME Init PROVE Typed
  <1>1. PICK s \in Starts : /\ tenants = s.tenants /\ docs = s.docs /\ users = s.users
                            /\ keys = s.keys /\ tuples = s.tuples /\ work = s.work
    BY DEF Init
  <1>2. RowsOK /\ tuples \subseteq Tuple /\ Housed
    BY <1>1, Sound DEF RowsOK, Housed, Lives, Types, UserRow, KeyRow
  <1>3. BootsOK
    BY Bounds DEF Init, BootsOK, Down
  <1>4. ReqsOK
    BY Blank DEF Init, ReqsOK
  <1> QED BY <1>2, <1>3, <1>4 DEF Typed

\* Every step keeps the types.
LEMMA TypedNext == ASSUME Typed, Grants, Rotations, [Next]_vars PROVE Typed'
  <1>1. ASSUME NEW r \in Reqs, Arrive(r) PROVE Typed'
    BY <1>1, Arrives, ComesTyped
  <1>2. ASSUME NEW r \in Reqs, Serve(r) \/ Fail(r) PROVE Typed'
    BY <1>2, ServeRows, ServeReqs, ServeBoots, KeptAll
  <1>3. CASE UNCHANGED vars
    BY <1>3 DEF vars, rows, Typed, RowsOK, ReqsOK, BootsOK, Housed
  <1> QED BY <1>1, <1>2, <1>3, BootTyped, SweepTyped DEF Next

-----------------------------------------------------------------------------
(* A personal tenant has one user: the grants under way have rows of their *)
(* own, and a personal tenant has one row, committed or not.               *)

Granting(r) == req[r].kind = "grant" /\ req[r].pc \in {"tuples", "sync"}
GrantsApart == \A r, s \in Reqs : Granting(r) /\ Granting(s) /\ r # s => req[r].row # req[s].row
Lodges(u, t) == Lives(users[u]) /\ users[u].tenant = t
Alone == \A t \in Tenants \ retyped : tenants[t] = "personal" =>
           \A u, v \in UserIds : Lodges(u, t) /\ Lodges(v, t) => u = v
Owners == Grants /\ GrantsApart /\ Alone

\* A request moves on, and a grant keeps what it has.
LEMMA OtherReq ==
  ASSUME Owners, NEW r \in Reqs, \A s \in Reqs : s # r => req'[s] = req[s],
         UNCHANGED <<users, tenants, retyped>>,
         req'[r].kind = "grant" =>
           /\ req[r].kind = "grant" /\ req'[r].row = req[r].row
           /\ req'[r].tid = req[r].tid /\ req'[r].type = req[r].type
           /\ \/ req[r].pc \in {"begin", "write"} /\ req'[r].pc \in {"begin", "write"}
              \/ req[r].pc \in {"tuples", "sync"} /\ req'[r].pc \in {"tuples", "sync"}
  PROVE  Owners'
  <1>3. Grants'
    BY DEF Owners, Grants
  <1>4. \A s \in Reqs : (Granting(s))' => Granting(s) /\ req'[s].row = req[s].row
    BY DEF Granting
  <1>5. GrantsApart'
    BY <1>4 DEF Owners, GrantsApart
  <1> QED BY <1>3, <1>5 DEF Owners, Alone, Lodges, Lives

\* A request ends; the rows of the other grants and of other tenants are as before.
LEMMA EndReq ==
  ASSUME Typed, Owners, NEW r \in Reqs, Finish(r), UNCHANGED <<tenants, retyped>>,
         \A s \in Reqs : s # r /\ Granting(s) => users'[req[s].row] = users[req[s].row],
         \A u \in UserIds : Lives(users'[u]) => Lives(users[u]) /\ users'[u].tenant = users[u].tenant
  PROVE  Owners'
  <1>1. \A s \in Reqs : s # r => req'[s] = req[s]
    BY DEF Typed, ReqsOK, Finish
  <1>2. req'[r].kind = "none"
    BY Blank DEF Typed, ReqsOK, Finish
  <1>3. Grants'
    BY <1>1, <1>2 DEF Owners, Grants, Granting
  <1>4. \A s \in Reqs : (Granting(s))' => Granting(s) /\ req'[s].row = req[s].row
    BY <1>1, <1>2 DEF Granting
  <1>5. GrantsApart'
    BY <1>4 DEF Owners, GrantsApart
  <1>6. Alone'
    BY DEF Owners, Alone, Lodges
  <1> QED BY <1>3, <1>5, <1>6 DEF Owners

\* An error return of a grant deletes its own row.
LEMMA AbandonOwners == ASSUME Typed, Owners, NEW r \in Reqs, Abandon(r) PROVE Owners'
  <1>t. users \in [UserIds -> UserRow]
    BY DEF Typed, RowsOK
  <1>1. Finish(r) /\ UNCHANGED <<tenants, retyped>>
    BY DEF Abandon, Quiet
  <1>2. CASE UNCHANGED users
    BY <1>1, <1>2, <1>t, EndReq
  <1>3. CASE req[r].kind = "grant" /\ req[r].row # 0 /\ users' = [users EXCEPT ![req[r].row] = GoneUser]
    <2>1. Granting(r) /\ req[r].row \in UserIds
      BY <1>3 DEF Owners, Grants, Granting
    <2>2. \A u \in UserIds : Lives(users'[u]) => Lives(users[u]) /\ users'[u].tenant = users[u].tenant
      BY <1>3, <1>t, RowsAre DEF Lives
    <2>3. \A s \in Reqs : s # r /\ Granting(s) => users'[req[s].row] = users[req[s].row]
      BY <1>3, <1>t, <2>1 DEF Owners, GrantsApart
    <2> QED BY <1>1, <2>2, <2>3, EndReq
  <1> QED BY <1>2, <1>3 DEF Abandon

\* A tenant is created, for the user u if there is one.
LEMMA CreateOwners ==
  ASSUME Typed, Owners, NEW r \in Reqs, Finish(r), NEW t \in Tenants, tenants[t] = "unused",
         NEW type \in Types, tenants' = [tenants EXCEPT ![t] = type], UNCHANGED retyped,
         \/ UNCHANGED users
         \/ \E u \in UserIds, e \in Emails \cup {None} : FreshUser(u) /\ users' = OwnerRow(t, u, e)
  PROVE  Owners'
  <1>t. /\ tenants \in [Tenants -> TenantRow] /\ users \in [UserIds -> UserRow]
        /\ type \in {"personal", "shared"}
        /\ \A u \in UserIds : ~Lodges(u, t)
        /\ \A s \in Reqs : req[s].kind = "grant" => req[s].tid \in Tenants /\ req[s].tid # t
    BY DEF Typed, RowsOK, Types, Lodges, Housed, ReqsOK, Named, Owners, Grants
  <1>1. \A s \in Reqs : s # r => req'[s] = req[s]
    BY DEF Typed, ReqsOK, Finish
  <1>2. req'[r].kind = "none"
    BY Blank DEF Typed, ReqsOK, Finish
  <1>4. \A s \in Reqs : (Granting(s))' => Granting(s) /\ req'[s].row = req[s].row
    BY <1>1, <1>2 DEF Granting
  <1>5. GrantsApart'
    BY <1>4 DEF Owners, GrantsApart
  <1>6. CASE UNCHANGED users
    <2>1. Grants'
      BY <1>t, <1>1, <1>2, <1>6 DEF Owners, Grants
    <2>2. Alone'
      BY <1>t, <1>6 DEF Owners, Alone, Lodges, Lives
    <2> QED BY <1>5, <2>1, <2>2 DEF Owners
  <1>7. ASSUME NEW u \in UserIds, NEW e, FreshUser(u), users' = OwnerRow(t, u, e) PROVE Owners'
    <2>1. /\ users'[u].tenant = t /\ users[u].st = "unused" /\ users'[u].st = "row"
          /\ \A v \in UserIds : v # u => users'[v] = users[v]
      BY <1>t, <1>7 DEF OwnerRow, FreshUser
    <2>2. Grants'
      BY <1>t, <1>1, <1>2, <2>1 DEF Owners, Grants
    <2>3. Alone'
      <3> SUFFICES ASSUME NEW x \in Tenants \ retyped, tenants'[x] = "personal", NEW v \in UserIds, NEW w \in UserIds,
                          Lodges(v, x)', Lodges(w, x)'
                   PROVE  v = w
        BY DEF Alone
      <3>1. CASE x = t
        BY <1>t, <2>1, <3>1 DEF Lodges, Lives
      <3>2. CASE x # t
        BY <1>t, <2>1, <3>2 DEF Lodges, Lives, Owners, Alone
      <3> QED BY <3>1, <3>2
    <2> QED BY <1>5, <2>2, <2>3 DEF Owners
  <1> QED BY <1>6, <1>7

\* A grant inserts its row.
LEMMA InsertOwners == ASSUME Typed, Owners, NEW r \in Reqs, GrantInsert(r) PROVE Owners'
  <1>1. PICK u \in UserIds :
          /\ FreshUser(u)
          /\ users' = [users EXCEPT ![u] = [st |-> "pending", email |-> req[r].email,
                                            tenant |-> req[r].tid, role |-> req[r].role]]
          /\ req' = [req EXCEPT ![r].pc = "tuples", ![r].row = u, ![r].todo = Todo(req[r], u)]
    BY DEF GrantInsert
  <1>2. /\ req[r].kind = "grant" /\ req[r].tid \in Tenants /\ UNCHANGED <<tenants, retyped>>
        /\ ~GrantWaits(req[r]) /\ ~GrantRefused(req[r]) /\ req[r].type \in {"personal", "shared"}
    BY DEF GrantInsert, Quiet, Runs, At, Typed, ReqsOK, Named, Request, Types
  <1>3. /\ users'[u].st = "pending" /\ users'[u].tenant = req[r].tid /\ users[u].st = "unused"
        /\ \A v \in UserIds : v # u => users'[v] = users[v]
    BY <1>1 DEF FreshUser, Typed, RowsOK
  <1>4. /\ req'[r].kind = "grant" /\ req'[r].pc = "tuples" /\ req'[r].row = u
        /\ req'[r].tid = req[r].tid /\ req'[r].type = req[r].type
        /\ \A s \in Reqs : s # r => req'[s] = req[s]
    BY <1>1, <1>2 DEF Typed, ReqsOK, Request
  <1>5. Grants'
    BY <1>2, <1>3, <1>4 DEF Owners, Grants
  <1>6. GrantsApart'
    BY <1>3, <1>4 DEF Owners, Grants, GrantsApart, Granting
  <1>7. Alone'
    <2> SUFFICES ASSUME NEW x \in Tenants \ retyped, tenants[x] = "personal", NEW v \in UserIds, NEW w \in UserIds,
                        Lodges(v, x)', Lodges(w, x)'
                 PROVE  v = w
      BY <1>2 DEF Alone
    <2>1. CASE x = req[r].tid
      <3>1. req[r].type = "personal"
        BY <1>2, <2>1 DEF Owners, Grants
      <3>2. \A y \in UserIds : ~Lodges(y, x)
        BY <1>2, <2>1, <3>1 DEF GrantWaits, GrantRefused, TenantShared, UsersOf, IsUser, Lodges, Lives, Typed, RowsOK, UserRow
      <3> QED BY <1>3, <3>2 DEF Lodges
    <2>2. CASE x # req[r].tid
      BY <1>3, <2>2 DEF Lodges, Owners, Alone
    <2> QED BY <2>1, <2>2
  <1> QED BY <1>5, <1>6, <1>7 DEF Owners

\* Whatever a request does, a personal tenant keeps to one user.
LEMMA ServeOwners == ASSUME Typed, Owners, NEW r \in Reqs, Serve(r) \/ Fail(r) PROVE Owners'
  <1>t. /\ users \in [UserIds -> UserRow] /\ req[r] \in Request /\ ReqsOK /\ Named(req[r])
        /\ tenants \in [Tenants -> TenantRow]
    BY DEF Typed, RowsOK, ReqsOK
  <1>1. CASE Abandon(r)
    BY <1>1, AbandonOwners
  <1>2. CASE Finish(r) /\ UNCHANGED <<users, tenants, retyped>>
    BY <1>2, <1>t, EndReq
  <1>3. CASE RotateRevoked(r) \/ Fail(r) \/ GrantError(r) \/ CreateRefused(r) \/ DropError(r)
             \/ InsertKeyRefused(r) \/ RotateGone(r) \/ BootstrapRefused(r)
    BY <1>1, <1>3 DEF RotateRevoked, Fail, GrantError, CreateRefused, DropError, InsertKeyRefused,
      RotateGone, BootstrapRefused
  <1>4. CASE AclWrite(r) \/ SeedKeyTuple(r) \/ DeleteKey(r) \/ RotateRetire(r)
    BY <1>2, <1>4 DEF AclWrite, SeedKeyTuple, DeleteKey, RotateRetire, Quiet, rows
  <1>5. CASE GrantInsert(r)
    BY <1>5, InsertOwners
  <1>6. CASE CreateTenant(r)
    <2>1. PICK t \in Tenants :
            /\ tenants[t] = "unused" /\ tenants' = [tenants EXCEPT ![t] = req[r].type]
            /\ \/ UNCHANGED users
               \/ \E u \in UserIds : FreshUser(u) /\ users' = OwnerRow(t, u, req[r].email)
      BY <1>6 DEF CreateTenant
    <2>2. req[r].type \in Types /\ req[r].email \in Emails \cup {None} /\ Finish(r) /\ UNCHANGED retyped
      BY <1>6, <1>t DEF Request, CreateTenant, Quiet
    <2> QED BY <2>1, <2>2, CreateOwners
  <1>7. CASE Bootstrap(r)
    <2>1. PICK t \in Tenants :
            /\ tenants[t] = "unused" /\ tenants' = [tenants EXCEPT ![t] = "personal"]
            /\ \/ UNCHANGED users
               \/ \E u \in UserIds : FreshUser(u) /\ users' = OwnerRow(t, u, req[r].email)
      BY <1>7 DEF Bootstrap
    <2>2. "personal" \in Types /\ req[r].email \in Emails \cup {None} /\ Finish(r) /\ UNCHANGED retyped
      BY <1>7, <1>t DEF Request, Bootstrap, Quiet, Types
    <2> QED BY <2>1, <2>2, CreateOwners
  <1>8. CASE SaveTenant(r)
    <2>1. /\ Finish(r) /\ UNCHANGED users /\ req[r].tid \in Tenants
          /\ tenants' = [tenants EXCEPT ![req[r].tid] = req[r].type]
          /\ retyped' = IF tenants[req[r].tid] = req[r].type THEN retyped ELSE retyped \cup {req[r].tid}
          /\ req[r].type \in {"personal", "shared"}
      BY <1>8, <1>t DEF SaveTenant, Runs, At, Named, Request, Types
    <2>2. CASE tenants[req[r].tid] = req[r].type
      <3>1. UNCHANGED <<tenants, retyped>>
        BY <1>t, <2>1, <2>2
      <3> QED BY <1>2, <2>1, <3>1
    <2>3. CASE tenants[req[r].tid] # req[r].type
      <3>1. /\ \A s \in Reqs : s # r => req'[s] = req[s]
            /\ req'[r].kind = "none"
        BY <1>t, <2>1, Blank DEF ReqsOK, Finish
      <3>2. /\ retyped' = retyped \cup {req[r].tid} /\ tenants'[req[r].tid] # "unused"
            /\ \A t \in Tenants : t # req[r].tid => tenants'[t] = tenants[t]
        BY <1>t, <2>1, <2>3
      <3>3. \A s \in Reqs : req[s].kind = "grant" => req[s].tid \in Tenants
        BY <1>t DEF ReqsOK, Named
      <3>4. Grants'
        BY <2>1, <3>1, <3>2, <3>3 DEF Owners, Grants
      <3>5. \A s \in Reqs : (Granting(s))' => Granting(s) /\ req'[s].row = req[s].row
        BY <3>1 DEF Granting
      <3>6. GrantsApart'
        BY <3>5 DEF Owners, GrantsApart
      <3>7. Alone'
        BY <2>1, <3>2 DEF Owners, Alone, Lodges, Lives
      <3> QED BY <3>4, <3>6, <3>7 DEF Owners
    <2> QED BY <2>2, <2>3
  <1>9. CASE DropTenant(r)
    <2>1. /\ Finish(r) /\ UNCHANGED retyped /\ req[r].tid \in Tenants
          /\ tenants' = [tenants EXCEPT ![req[r].tid] = "gone"]
          /\ users' = [u \in UserIds |-> IF u \in UsersOf(req[r].tid) THEN GoneUser ELSE users[u]]
      BY <1>9, <1>t DEF DropTenant, Quiet, Runs, At, Named
    <2>2. /\ \A s \in Reqs : s # r => req'[s] = req[s]
          /\ req'[r].kind = "none"
      BY <1>t, <2>1, Blank DEF ReqsOK, Finish
    <2>3. \A u \in UserIds : /\ users[u].st = "pending" => users'[u] = users[u]
                             /\ Lives(users'[u]) => users'[u] = users[u]
      BY <1>t, <2>1, RowsAre DEF UsersOf, IsUser
    <2>4. /\ tenants'[req[r].tid] = "gone"
          /\ \A t \in Tenants : t # req[r].tid => tenants'[t] = tenants[t]
      BY <1>t, <2>1
    <2>5. \A s \in Reqs : req[s].kind = "grant" => req[s].tid \in Tenants
      BY <1>t DEF ReqsOK, Named
    <2>6. Grants'
      BY <2>1, <2>2, <2>3, <2>4, <2>5 DEF Owners, Grants
    <2>7. \A s \in Reqs : (Granting(s))' => Granting(s) /\ req'[s].row = req[s].row
      BY <2>2 DEF Granting
    <2>8. GrantsApart'
      BY <2>7 DEF Owners, GrantsApart
    <2>9. Alone'
      BY <2>1, <2>3, <2>4 DEF Owners, Alone, Lodges
    <2> QED BY <2>6, <2>8, <2>9 DEF Owners
  <1>10. CASE CommitUser(r)
    <2>1. /\ users' = Committed(req[r]) /\ req[r].kind \in {"grant", "update", "revoke"} /\ req[r].pc = "sync"
          /\ Finish(r) /\ UNCHANGED <<tenants, retyped>>
      BY <1>10 DEF CommitUser, Runs, At, Quiet
    <2>2. CASE UNCHANGED users
      BY <1>2, <2>1, <2>2
    <2>3. CASE req[r].kind = "grant" /\ users' = [users EXCEPT ![req[r].row].st = "row"]
      <3>1. Granting(r) /\ Lives(users[req[r].row])
        BY <2>1, <2>3 DEF Owners, Grants, Granting, Lives
      <3>2. \A u \in UserIds : Lives(users'[u]) => Lives(users[u]) /\ users'[u].tenant = users[u].tenant
        BY <1>t, <2>3, <3>1 DEF UserRow, Lives
      <3>3. \A s \in Reqs : s # r /\ Granting(s) => users'[req[s].row] = users[req[s].row]
        BY <2>3, <3>1, <1>t DEF Owners, Grants, Granting, GrantsApart
      <3> QED BY <2>1, <3>2, <3>3, EndReq
    <2>4. CASE /\ IsUser(req[r].row)
               /\ \/ users' = [users EXCEPT ![req[r].row].role = req[r].role]
                  \/ users' = [users EXCEPT ![req[r].row] = GoneUser]
      <3>1. \A u \in UserIds : Lives(users'[u]) => Lives(users[u]) /\ users'[u].tenant = users[u].tenant
        BY <1>t, <2>4, RowsAre DEF UserRow, Lives
      <3>2. \A s \in Reqs : s # r /\ Granting(s) => users'[req[s].row] = users[req[s].row]
        BY <2>4, <1>t DEF Owners, Grants, Granting, IsUser
      <3> QED BY <2>1, <3>1, <3>2, EndReq
    <2> QED BY <2>1, <2>2, <2>3, <2>4 DEF Committed
  <1>11. CASE BeginTxn(r) \/ TxnTuple(r) \/ SyncServicePrincipalAdmin(r) \/ ChangeUser(r) \/ Prune(r)
              \/ InsertKey(r) \/ RotateMint(r) \/ BootstrapCheck(r)
    <2>1. \A s \in Reqs : s # r => req'[s] = req[s]
      BY <1>11, <1>t DEF ReqsOK, BeginTxn, TxnTuple, SyncServicePrincipalAdmin, ChangeUser, Prune, InsertKey, RotateMint,
        BootstrapCheck, GoTo, Finish
    <2>2. UNCHANGED <<users, tenants, retyped>>
      BY <1>11 DEF BeginTxn, TxnTuple, SyncServicePrincipalAdmin, ChangeUser, Prune, InsertKey, RotateMint, BootstrapCheck, Quiet, rows
    <2>3. req'[r].kind = "grant" =>
           /\ req[r].kind = "grant" /\ req'[r].row = req[r].row
           /\ req'[r].tid = req[r].tid /\ req'[r].type = req[r].type
           /\ \/ req[r].pc \in {"begin", "write"} /\ req'[r].pc \in {"begin", "write"}
              \/ req[r].pc \in {"tuples", "sync"} /\ req'[r].pc \in {"tuples", "sync"}
      <3>1. CASE BeginTxn(r) \/ TxnTuple(r)
        BY <1>t, <3>1 DEF ReqsOK, Request, BeginTxn, TxnTuple, GoTo
      <3>2. CASE SyncServicePrincipalAdmin(r)
        BY <1>t, <3>2 DEF ReqsOK, Request, SyncServicePrincipalAdmin, Runs, At
      <3>3. CASE ChangeUser(r) \/ Prune(r) \/ InsertKey(r) \/ RotateMint(r)
        <4>1. req[r].kind # "grant" /\ req'[r].kind = req[r].kind
          <5>1. CASE ChangeUser(r)
            BY <1>t, <5>1 DEF ReqsOK, Request, ChangeUser, Runs, At
          <5>2. CASE Prune(r)
            BY <1>t, <5>2 DEF ReqsOK, Request, Prune, Runs, At
          <5>3. CASE InsertKey(r)
            BY <1>t, <5>3 DEF ReqsOK, Request, InsertKey, Runs, At
          <5>4. CASE RotateMint(r)
            BY <1>t, <5>4 DEF ReqsOK, Request, RotateMint, Runs, At
          <5> QED BY <3>3, <5>1, <5>2, <5>3, <5>4
        <4> QED BY <4>1
      <3>4. CASE BootstrapCheck(r)
        <4>1. req'[r].kind \in {"none", "bootstrap"}
          BY <1>t, <3>4, Blank DEF ReqsOK, Request, BootstrapCheck, Runs, At, GoTo, Finish
        <4> QED BY <4>1
      <3> QED BY <1>11, <3>1, <3>2, <3>3, <3>4
    <2> QED BY <2>1, <2>2, <2>3, OtherReq
  <1> QED
    BY <1>3, <1>4, <1>5, <1>6, <1>7, <1>8, <1>9, <1>10, <1>11 DEF Serve

\* So do the requests that come.
LEMMA ComesOwners == ASSUME Typed, Owners, NEW r \in Reqs, Comes(r) PROVE Owners'
  <1>1. PICK q \in Request : Fresh(q) /\ req' = [req EXCEPT ![r] = q]
    BY DEF Comes
  <1>2. UNCHANGED <<users, tenants, retyped>> /\ req[r].pc = "idle"
    BY DEF Comes, Quiet
  <1>3. /\ \A s \in Reqs : s # r => req'[s] = req[s]
        /\ req'[r] = q
    BY <1>1 DEF Typed, ReqsOK
  <1>4. q.kind = "grant" => /\ q.pc = "begin" /\ q.row = 0 /\ tenants[q.tid] = q.type /\ tenants[q.tid] # "unused"
    BY <1>1 DEF Fresh, IsTenant, Types
  <1>5. Grants'
    BY <1>2, <1>3, <1>4 DEF Owners, Grants
  <1>6. \A s \in Reqs : (Granting(s))' => Granting(s) /\ req'[s].row = req[s].row
    BY <1>3, <1>4 DEF Granting
  <1>7. GrantsApart'
    BY <1>6 DEF Owners, GrantsApart
  <1> QED BY <1>2, <1>5, <1>7 DEF Owners, Alone, Lodges, Lives

\* Replicas, the sweep and time insert no user.
LEMMA RestOwners ==
  ASSUME Typed, Owners, (\E p \in Replicas : Stop(p) \/ Boot(p)) \/ PurgeDeadKeys \/ Expire \/ UNCHANGED vars
  PROVE  Owners'
  <1>t. users \in [UserIds -> UserRow]
    BY DEF Typed, RowsOK
  <1>1. UNCHANGED <<tenants, req, retyped>>
    BY DEF Stop, Boot, BackfillRead, BackfillCommit, SeedRead, SeedWrite, SelfCheck, ResetRead, ResetCommit, Arm,
      PurgeDeadKeys, Expire, OnlyBoot, Quiet, vars, rows
  <1>2. \A u \in UserIds : users'[u].st = users[u].st /\ users'[u].tenant = users[u].tenant
    <2>1. CASE UNCHANGED users
      BY <2>1
    <2>2. ASSUME NEW p \in Replicas, BackfillCommit(p)
          PROVE  \A u \in UserIds : users'[u].st = users[u].st /\ users'[u].tenant = users[u].tenant
      <3>1. users' = [u \in UserIds |-> IF u \in boot[p].flips /\ IsUser(u)
                                        THEN [users[u] EXCEPT !.role = "owner"] ELSE users[u]]
        BY <2>2 DEF BackfillCommit
      <3> QED BY <1>t, <3>1 DEF UserRow
    <2> QED
      BY <2>1, <2>2 DEF Stop, Boot, BackfillRead, SeedRead, SeedWrite, SelfCheck, ResetRead, ResetCommit, Arm,
        PurgeDeadKeys, Expire, OnlyBoot, vars, rows
  <1>3. Grants'
    BY <1>1, <1>2 DEF Owners, Grants
  <1>4. GrantsApart'
    BY <1>1 DEF Owners, GrantsApart, Granting
  <1>5. Alone'
    BY <1>1, <1>2 DEF Owners, Alone, Lodges, Lives
  <1> QED BY <1>3, <1>4, <1>5 DEF Owners

\* At the start nothing is under way, and a personal tenant has one user.
LEMMA OwnersInit == ASSUME Init PROVE Owners
  <1>1. PICK s \in Starts : tenants = s.tenants /\ users = s.users
    BY DEF Init
  <1>2. \A r \in Reqs : req[r].kind = "none"
    BY DEF Init, Idle
  <1>3. \A u \in UserIds : Lives(users[u]) => users[u].st = "row"
    BY <1>1, Sound DEF Lives, UserRow
  <1>4. Alone
    BY <1>1, <1>3, Sound DEF Alone, Lodges
  <1> QED BY <1>2, <1>4 DEF Owners, Grants, GrantsApart, Granting

-----------------------------------------------------------------------------
(* A key rotated without grace has one replacement: the rotations under    *)
(* way are of different keys, a key that has been replaced is revoked, and *)
(* a revoked key is not replaced again.                                    *)

Rotating(r) == req[r].kind = "rotate" /\ req[r].pc = "tuples"
KeysApart == \A r, s \in Reqs : Rotating(r) /\ Rotating(s) /\ r # s =>
               req[r].row # req[s].row /\ req[r].kid # req[s].kid
\* A tenant's deletion locks keys that are there, and none that is being rotated.
Pruned == \A r \in Reqs : \A k \in req[r].ks :
            /\ keys[k].st \notin {"unused", "pending"}
            /\ \A s \in Reqs \ {r} : Rotating(s) => req[s].kid # k
Follows(l, k) == keys[l].from = k /\ keys[l].st # "pending"
Replaced == "grace" \notin work => \A k, l \in KeyIds : Follows(l, k) =>
              /\ keys[k].st \in {"revoked", "gone"}
              /\ \A m \in KeyIds : Follows(m, k) => l = m
\* A key that is to be deleted has been there.
Doomed == \A r \in Reqs : req[r].kind = "delkey" => keys[req[r].kid].st \notin {"unused", "pending"}
Keyring == Rotations /\ KeysApart /\ Pruned /\ Doomed /\ Replaced

\* A request moves on, and a rotation keeps what it has; no key changes.
LEMMA OtherKeyReq ==
  ASSUME Keyring, NEW r \in Reqs, \A s \in Reqs : s # r => req'[s] = req[s], UNCHANGED <<keys, work>>,
         req'[r].kind = "rotate" =>
           /\ req[r].kind = "rotate" /\ req'[r].row = req[r].row
           /\ req'[r].kid = req[r].kid /\ req'[r].grace = req[r].grace
           /\ \/ req[r].pc \in {"begin", "write"} /\ req'[r].pc \in {"begin", "write"}
              \/ req[r].pc = "tuples" /\ req'[r].pc = "tuples",
         req'[r].ks = req[r].ks, req'[r].kind = "delkey" => req[r].kind = "delkey" /\ req'[r].kid = req[r].kid
  PROVE  Keyring'
  <1>1. Rotations'
    BY DEF Keyring, Rotations, RotationOK, IsKey
  <1>2. \A s \in Reqs : (Rotating(s))' => Rotating(s) /\ req'[s].row = req[s].row /\ req'[s].kid = req[s].kid
    BY DEF Rotating
  <1>3. KeysApart'
    BY <1>2 DEF Keyring, KeysApart
  <1>4. Pruned'
    BY <1>2 DEF Keyring, Pruned
  <1>5. Replaced'
    BY DEF Keyring, Replaced, Follows
  <1>6. Doomed'
    BY DEF Keyring, Doomed
  <1> QED BY <1>1, <1>3, <1>4, <1>5, <1>6 DEF Keyring

\* Keys come to an end, none that is being rotated or inserted; no request
\* changes but r, which ends.
LEMMA EndKeys ==
  ASSUME Typed, Keyring, NEW r, UNCHANGED req \/ (r \in Reqs /\ Finish(r)), UNCHANGED work,
         \A k \in KeyIds :
           \/ keys'[k] = keys[k]
           \/ /\ keys[k].st \notin {"unused", "pending"}
              /\ \/ keys'[k] = GoneKey /\ \A s \in Reqs : Rotating(s) => req[s].kid # k
                 \/ /\ keys'[k].from = keys[k].from
                    /\ keys[k].st \in {"live", "grace", "expired"} /\ keys'[k].st \in {"expired", "revoked"}
           \/ /\ keys[k].st = "pending" /\ keys'[k] = GoneKey
              /\ \A s \in Reqs : Rotating(s) /\ s # r => req[s].row # k
              /\ ~UNCHANGED req
  PROVE  Keyring'
  <1>g. GoneKey.st = "gone" /\ GoneKey.from = 0 /\ 0 \notin KeyIds
    BY DEF GoneKey, NoKey, KeyIds
  <1>r. \A s \in Reqs : \/ req'[s] = req[s] /\ (s = r => UNCHANGED req)
                        \/ s = r /\ req'[s].kind = "none" /\ req'[s].ks = {}
    BY Blank DEF Typed, ReqsOK, Finish
  <1>n. \A s \in Reqs : req[s].kind = "rotate" => req[s].kid \in KeyIds
    BY DEF Typed, ReqsOK, Named
  <1>1. Rotations'
    BY <1>r, <1>n, <1>g DEF Keyring, Rotations, RotationOK, Rotating, IsKey
  <1>2. \A s \in Reqs : (Rotating(s))' => Rotating(s) /\ req'[s].row = req[s].row /\ req'[s].kid = req[s].kid
    BY <1>r DEF Rotating
  <1>3. KeysApart'
    BY <1>2 DEF Keyring, KeysApart
  <1>4. Pruned'
    <2> SUFFICES ASSUME NEW s \in Reqs, NEW k \in req'[s].ks
                 PROVE  keys'[k].st \notin {"unused", "pending"} /\ \A x \in Reqs \ {s} : Rotating(x)' => req'[x].kid # k
      BY DEF Pruned
    <2>1. k \in req[s].ks /\ k \in KeyIds
      BY <1>r DEF Typed, ReqsOK, Request
    <2>2. keys'[k].st \notin {"unused", "pending"}
      BY <1>g, <2>1 DEF Keyring, Pruned
    <2> QED BY <1>2, <2>1, <2>2 DEF Keyring, Pruned
  <1>5. Replaced'
    <2>1. \A k, l \in KeyIds : (Follows(l, k))' => Follows(l, k)
      BY <1>g DEF Follows
    <2>2. \A k \in KeyIds : keys[k].st \in {"revoked", "gone"} => keys'[k].st \in {"revoked", "gone"}
      BY <1>g
    <2> QED BY <2>1, <2>2 DEF Keyring, Replaced
  <1>6. Doomed'
    BY <1>g, <1>r DEF Keyring, Doomed, Typed, ReqsOK, Named
  <1> QED BY <1>1, <1>3, <1>4, <1>5, <1>6 DEF Keyring

\* A key is inserted that replaces none.
LEMMA AddKey ==
  ASSUME Typed, Keyring, NEW r \in Reqs, \A s \in Reqs : s # r => req'[s] = req[s], UNCHANGED work,
         req'[r].kind \notin {"rotate", "delkey"}, req'[r].ks \subseteq req[r].ks,
         NEW k \in KeyIds, keys[k].st = "unused", \A l \in KeyIds : l # k => keys'[l] = keys[l],
         keys'[k].from = 0, keys'[k].st = "live"
  PROVE  Keyring'
  <1>n. \A s \in Reqs : req[s].kind = "rotate" => req[s].kid \in KeyIds
    BY DEF Typed, ReqsOK, Named
  <1>0. 0 \notin KeyIds /\ \A s \in Reqs : req[s].ks \in SUBSET KeyIds
    BY DEF KeyIds, Typed, ReqsOK, Request
  <1>1. Rotations'
    BY <1>n DEF Keyring, Rotations, RotationOK, IsKey
  <1>2. \A s \in Reqs : (Rotating(s))' => Rotating(s) /\ req'[s].row = req[s].row /\ req'[s].kid = req[s].kid
    BY DEF Rotating
  <1>3. KeysApart'
    BY <1>2 DEF Keyring, KeysApart
  <1>4. Pruned'
    <2> SUFFICES ASSUME NEW s \in Reqs, NEW l \in req'[s].ks
                 PROVE  keys'[l].st \notin {"unused", "pending"} /\ \A x \in Reqs \ {s} : Rotating(x)' => req'[x].kid # l
      BY DEF Pruned
    <2>1. l \in req[s].ks /\ l \in KeyIds /\ keys'[l].st \notin {"unused", "pending"}
      BY <1>0 DEF Keyring, Pruned
    <2> QED BY <1>2, <2>1 DEF Keyring, Pruned
  <1>5. Replaced'
    BY <1>0 DEF Keyring, Replaced, Follows
  <1>6. Doomed'
    BY DEF Keyring, Doomed, Typed, ReqsOK, Named
  <1> QED BY <1>1, <1>3, <1>4, <1>5, <1>6 DEF Keyring

\* An error return of a rotation deletes its new key.
LEMMA AbandonKeys == ASSUME Typed, Keyring, NEW r \in Reqs, Abandon(r) PROVE Keyring'
  <1>t. keys \in [KeyIds -> KeyRow] /\ req \in [Reqs -> Request]
    BY DEF Typed, RowsOK, ReqsOK
  <1>1. Finish(r) /\ UNCHANGED work
    BY DEF Abandon, Quiet
  <1>2. CASE UNCHANGED keys
    BY <1>1, <1>2, EndKeys
  <1>3. CASE req[r].kind = "rotate" /\ req[r].row # 0 /\ keys' = [keys EXCEPT ![req[r].row] = GoneKey]
    <2>1. Rotating(r) /\ req[r].row \in KeyIds /\ keys[req[r].row].st = "pending"
      BY <1>3 DEF Keyring, Rotations, RotationOK, Rotating
    <2>2. \A s \in Reqs : Rotating(s) /\ s # r => req[s].row # req[r].row
      BY <2>1 DEF Keyring, KeysApart
    <2>3. ~UNCHANGED req
      <3>1. req'[r] = Done
        BY <1>1, <1>t DEF Finish
      <3> QED BY <3>1, <1>3, Blank
    <2>4. \A k \in KeyIds : IF k = req[r].row THEN keys'[k] = GoneKey ELSE keys'[k] = keys[k]
      BY <1>3, <1>t
    <2> QED BY <1>1, <2>1, <2>2, <2>3, <2>4, EndKeys
  <1> QED BY <1>2, <1>3 DEF Abandon

\* A rotation inserts its new key.
LEMMA MintKeys == ASSUME Typed, Keyring, NEW r \in Reqs, RotateMint(r) PROVE Keyring'
  <1>t. keys \in [KeyIds -> KeyRow] /\ req \in [Reqs -> Request]
    BY DEF Typed, RowsOK, ReqsOK
  <1>1. PICK k \in KeyIds :
          /\ FreshKey(k)
          /\ keys' = [keys EXCEPT ![k] = NewKey(req[r].tid, req[r].subj, req[r].kid, "pending")]
          /\ req' = [req EXCEPT ![r].pc = "tuples", ![r].row = k,
               ![r].todo = << Write(TenantMember(req[r].tid, IF req[r].subj = None THEN Svc(req[r].tid) ELSE req[r].subj)) >>]
    BY DEF RotateMint
  <1>2. /\ req[r].kind = "rotate" /\ req[r].pc = "write" /\ UNCHANGED work /\ ~KeyLocked(req[r].kid, r) /\ IsKey(req[r].kid)
    BY DEF RotateMint, Quiet, Runs, At
  <1>3. /\ keys'[k].st = "pending" /\ keys'[k].from = req[r].kid /\ keys[k].st = "unused"
        /\ \A l \in KeyIds : l # k => keys'[l] = keys[l]
    BY <1>1, <1>t DEF FreshKey, NewKey
  <1>4. /\ req'[r].kind = "rotate" /\ req'[r].pc = "tuples" /\ req'[r].row = k
        /\ req'[r].kid = req[r].kid /\ req'[r].grace = req[r].grace /\ req'[r].ks = req[r].ks
        /\ \A s \in Reqs : s # r => req'[s] = req[s]
    BY <1>1, <1>2, <1>t DEF Request
  <1>5. /\ \A s \in Reqs : req[s].kind = "rotate" => req[s].kid \in KeyIds
        /\ k # req[r].kid /\ \A s \in Reqs : req[s].ks \in SUBSET KeyIds
    BY <1>2, <1>3, <1>t DEF Typed, ReqsOK, Named, IsKey, Request
  <1>6. \A s \in Reqs \ {r} : (Rotating(s) => req[s].kid # req[r].kid) /\ req[r].kid \notin req[s].ks
    BY <1>2 DEF KeyLocked, Rotating
  <1>7. Rotations'
    <2> SUFFICES ASSUME NEW s \in Reqs PROVE RotationOK(s)'
      BY DEF Rotations
    <2>1. CASE s = r
      BY <1>2, <1>3, <1>4, <1>5, <2>1 DEF Keyring, Rotations, RotationOK, IsKey
    <2>2. CASE s # r
      BY <1>2, <1>3, <1>4, <1>5, <2>2 DEF Keyring, Rotations, RotationOK, IsKey
    <2> QED BY <2>1, <2>2
  <1>8. KeysApart'
    <2>1. \A s \in Reqs \ {r} : (Rotating(s))' => Rotating(s) /\ req'[s] = req[s] /\ req[s].row # k /\ req[s].kid # req[r].kid
      BY <1>3, <1>4, <1>6 DEF Rotating, Keyring, Rotations, RotationOK
    <2> QED BY <1>4, <2>1 DEF Keyring, KeysApart
  <1>9. Pruned'
    <2> SUFFICES ASSUME NEW s \in Reqs, NEW l \in req'[s].ks
                 PROVE  keys'[l].st \notin {"unused", "pending"} /\ \A x \in Reqs \ {s} : Rotating(x)' => req'[x].kid # l
      BY DEF Pruned
    <2>1. l \in req[s].ks /\ l \in KeyIds
      BY <1>4, <1>5
    <2>2. keys[l].st \notin {"unused", "pending"} /\ \A x \in Reqs \ {s} : Rotating(x) => req[x].kid # l
      BY <2>1 DEF Keyring, Pruned
    <2>3. ASSUME NEW x \in Reqs \ {s}, Rotating(x)' PROVE req'[x].kid # l
      <3>1. CASE x = r
        BY <1>4, <1>6, <2>1, <2>3, <3>1
      <3>2. CASE x # r
        BY <1>4, <2>2, <2>3, <3>2 DEF Rotating
      <3> QED BY <3>1, <3>2
    <2> QED BY <1>3, <2>1, <2>2, <2>3
  <1>10. Replaced'
    <2>1. \A l, m \in KeyIds : (Follows(l, m))' => Follows(l, m)
      BY <1>3 DEF Follows
    <2>2. \A m \in KeyIds : keys[m].st \in {"revoked", "gone"} => keys'[m] = keys[m]
      BY <1>3
    <2> QED BY <1>2, <2>1, <2>2 DEF Keyring, Replaced
  <1>11. Doomed'
    BY <1>3, <1>4 DEF Keyring, Doomed, Typed, ReqsOK, Named
  <1> QED BY <1>7, <1>8, <1>9, <1>10, <1>11 DEF Keyring

\* A rotation commits: the new key lives, the old one does no more.
LEMMA RetireKeys == ASSUME Typed, Keyring, NEW r \in Reqs, RotateRetire(r) PROVE Keyring'
  <1>t. keys \in [KeyIds -> KeyRow] /\ req \in [Reqs -> Request]
    BY DEF Typed, RowsOK, ReqsOK
  <1> DEFINE new == req[r].row
             old == req[r].kid
  <1>1. /\ Rotating(r) /\ keys[old].st # "revoked" /\ Finish(r) /\ UNCHANGED work
        /\ keys' = [keys EXCEPT ![new].st = "live", ![old].st = Retired(req[r])]
    BY DEF RotateRetire, Quiet, Runs, At, Rotating
  <1>2. /\ new \in KeyIds /\ old \in KeyIds /\ new # old /\ keys[new].st = "pending" /\ keys[new].from = old
        /\ IsKey(old) /\ ("grace" \notin work => ~req[r].grace)
    BY <1>1 DEF Keyring, Rotations, RotationOK, Rotating, Typed, ReqsOK, Named
  <1> HIDE DEF new, old
  <1>3. /\ keys'[new].st = "live" /\ keys'[old].st = Retired(req[r])
        /\ \A k \in KeyIds : keys'[k].from = keys[k].from /\ (k \notin {new, old} => keys'[k] = keys[k])
    BY <1>1, <1>2, <1>t DEF KeyRow
  <1>4. /\ \A s \in Reqs : s # r => req'[s] = req[s]
        /\ req'[r].kind = "none" /\ req'[r].ks = {}
    BY <1>1, <1>t, Blank DEF Finish
  <1>5. Retired(req[r]) \in {"grace", "revoked"} /\ ("grace" \notin work => Retired(req[r]) = "revoked")
    BY <1>2 DEF Retired
  <1>6. \A s \in Reqs \ {r} : (Rotating(s))' =>
           /\ Rotating(s) /\ req'[s] = req[s] /\ req[s].row \notin {new, old} /\ req[s].kid # old
           /\ req[s].kid # new
    BY <1>1, <1>2, <1>4 DEF Rotating, Keyring, KeysApart, Rotations, RotationOK, IsKey, new, old
  <1>n. \A s \in Reqs : req[s].kind = "rotate" => req[s].kid \in KeyIds
    BY DEF Typed, ReqsOK, Named
  <1>7. Rotations'
    <2> SUFFICES ASSUME NEW s \in Reqs PROVE RotationOK(s)'
      BY DEF Rotations
    <2> SUFFICES ASSUME req'[s].kind = "rotate" PROVE RotationOK(s)'
      BY DEF RotationOK
    <2>1. s # r /\ req'[s] = req[s]
      BY <1>4
    <2>2. req'[s].pc = "tuples" => Rotating(s)' /\ Rotating(s)
      BY <2>1 DEF Rotating
    <2>3. RotationOK(s) /\ req[s].kind = "rotate" /\ req[s].kid \in KeyIds
      BY <1>n, <2>1 DEF Keyring, Rotations
    <2>4. req[s].pc = "tuples" => keys'[req[s].row] = keys[req[s].row] /\ keys'[req[s].kid] = keys[req[s].kid]
      BY <1>3, <1>6, <2>1, <2>2, <2>3 DEF RotationOK
    <2> QED BY <1>1, <2>1, <2>3, <2>4 DEF RotationOK, IsKey
  <1>8. KeysApart'
    <2>1. ~(Rotating(r))'
      BY <1>4 DEF Rotating
    <2> QED BY <1>6, <2>1 DEF Keyring, KeysApart
  <1>9. Pruned'
    <2> SUFFICES ASSUME NEW s \in Reqs, NEW l \in req'[s].ks
                 PROVE  keys'[l].st \notin {"unused", "pending"} /\ \A x \in Reqs \ {s} : Rotating(x)' => req'[x].kid # l
      BY DEF Pruned
    <2>1. l \in req[s].ks /\ l \in KeyIds
      BY <1>4, <1>t DEF Request
    <2>2. keys[l].st \notin {"unused", "pending"} /\ \A x \in Reqs \ {s} : Rotating(x) => req[x].kid # l
      BY <2>1 DEF Keyring, Pruned
    <2>3. ASSUME NEW x \in Reqs \ {s}, Rotating(x)' PROVE req'[x].kid # l
      <3>1. CASE x = r
        BY <1>4, <2>3, <3>1 DEF Rotating
      <3>2. CASE x # r
        BY <1>4, <2>2, <2>3, <3>2 DEF Rotating
      <3> QED BY <3>1, <3>2
    <2> QED BY <1>3, <1>5, <2>1, <2>2, <2>3
  <1>10. Replaced'
    <2> SUFFICES ASSUME "grace" \notin work, NEW k \in KeyIds, NEW l \in KeyIds, Follows(l, k)'
                 PROVE  /\ keys'[k].st \in {"revoked", "gone"}
                        /\ \A m \in KeyIds : (Follows(m, k))' => l = m
      BY <1>1 DEF Replaced
    <2>1. \A m \in KeyIds : ~Follows(m, old)
      BY <1>1, <1>2 DEF Keyring, Replaced, IsKey
    <2>2. \A m \in KeyIds : (Follows(m, k))' => Follows(m, k) \/ (m = new /\ k = old)
      BY <1>2, <1>3 DEF Follows, IsKey
    <2>3. CASE k = old
      BY <1>3, <1>5, <2>1, <2>2, <2>3
    <2>4. CASE k # old
      <3>1. /\ Follows(l, k) /\ keys[k].st \in {"revoked", "gone"}
            /\ \A m \in KeyIds : Follows(m, k) => l = m
        BY <2>2, <2>4 DEF Keyring, Replaced
      <3> QED BY <1>2, <1>3, <2>2, <2>4, <3>1
    <2> QED BY <2>3, <2>4
  <1>11. Doomed'
    BY <1>3, <1>4, <1>5 DEF Keyring, Doomed, Typed, ReqsOK, Named
  <1> QED BY <1>7, <1>8, <1>9, <1>10, <1>11 DEF Keyring

\* A tenant's deletion locks the keys of the tenant.
LEMMA PruneKeys == ASSUME Typed, Keyring, NEW r \in Reqs, Prune(r) PROVE Keyring'
  <1>t. keys \in [KeyIds -> KeyRow] /\ req \in [Reqs -> Request]
    BY DEF Typed, RowsOK, ReqsOK
  <1>1. /\ req[r].kind = "drop" /\ UNCHANGED <<keys, work>>
        /\ \A k \in KeysOf(req[r].tid) : ~KeyLocked(k, r)
        /\ req' = [req EXCEPT ![r].pc = "pruned", ![r].gone = TenantTuples(req[r].tid), ![r].ks = KeysOf(req[r].tid)]
    BY DEF Prune, Quiet, Runs, At, rows
  <1>2. /\ req'[r].kind = "drop" /\ req'[r].ks = KeysOf(req[r].tid)
        /\ \A s \in Reqs : s # r => req'[s] = req[s]
    BY <1>1, <1>t DEF Request
  <1>3. Rotations'
    <2>1. ASSUME NEW s \in Reqs PROVE RotationOK(s)'
      <3>1. CASE s = r
        BY <1>2, <3>1 DEF RotationOK
      <3>2. CASE s # r
        <4>1. RotationOK(s) /\ req'[s] = req[s]
          BY <1>2, <3>2 DEF Keyring, Rotations
        <4> QED
          BY <1>1, <4>1 DEF RotationOK, IsKey
      <3> QED
        BY <3>1, <3>2
    <2> QED
      BY <2>1 DEF Rotations
  <1>4. \A s \in Reqs : (Rotating(s))' => s # r /\ Rotating(s) /\ req'[s] = req[s]
    BY <1>2 DEF Rotating
  <1>5. KeysApart'
    BY <1>4 DEF Keyring, KeysApart
  <1>6. Pruned'
    <2> SUFFICES ASSUME NEW s \in Reqs, NEW l \in req'[s].ks
                 PROVE  keys[l].st \notin {"unused", "pending"} /\ \A x \in Reqs \ {s} : Rotating(x)' => req'[x].kid # l
      BY <1>1 DEF Pruned
    <2>1. CASE s = r
      <3>1. IsKey(l) /\ ~KeyLocked(l, r)
        BY <1>1, <1>2, <2>1 DEF KeysOf
      <3> QED BY <1>4, <2>1, <3>1 DEF IsKey, KeyLocked, Rotating
    <2>2. CASE s # r
      BY <1>2, <1>4, <2>2 DEF Keyring, Pruned
    <2> QED BY <2>1, <2>2
  <1>7. Replaced'
    BY <1>1 DEF Keyring, Replaced, Follows
  <1>8. Doomed'
    BY <1>1, <1>2 DEF Keyring, Doomed
  <1> QED BY <1>3, <1>5, <1>6, <1>7, <1>8 DEF Keyring

\* Whatever a request does, a key keeps to one replacement.
LEMMA ServeKeys == ASSUME Typed, Keyring, NEW r \in Reqs, Serve(r) \/ Fail(r) PROVE Keyring'
  <1>t. /\ keys \in [KeyIds -> KeyRow] /\ req \in [Reqs -> Request] /\ Named(req[r])
        /\ req[r].ks \in SUBSET KeyIds
    BY DEF Typed, RowsOK, ReqsOK, Request
  <1>w. UNCHANGED work
    BY ServeBoots
  <1>1. CASE Abandon(r)
    BY <1>1, AbandonKeys
  <1>2. CASE Finish(r) /\ UNCHANGED keys
    BY <1>2, <1>w, EndKeys
  <1>3. CASE RotateRevoked(r) \/ Fail(r) \/ GrantError(r) \/ CreateRefused(r) \/ DropError(r)
             \/ InsertKeyRefused(r) \/ RotateGone(r) \/ BootstrapRefused(r)
    BY <1>1, <1>3 DEF RotateRevoked, Fail, GrantError, CreateRefused, DropError, InsertKeyRefused,
      RotateGone, BootstrapRefused
  <1>4. CASE AclWrite(r) \/ SeedKeyTuple(r) \/ SaveTenant(r) \/ CommitUser(r) \/ CreateTenant(r)
    BY <1>2, <1>4 DEF AclWrite, SeedKeyTuple, SaveTenant, CommitUser, CreateTenant, rows
  <1>5. CASE Prune(r)
    BY <1>5, PruneKeys
  <1>6. CASE RotateMint(r)
    BY <1>6, MintKeys
  <1>7. CASE RotateRetire(r)
    BY <1>7, RetireKeys
  <1>8. CASE DropTenant(r)
    <2>1. /\ Finish(r) /\ req[r].kind = "drop"
          /\ keys' = [k \in KeyIds |-> IF k \in req[r].ks THEN GoneKey ELSE keys[k]]
      BY <1>8 DEF DropTenant, Runs, At
    <2>2. \A k \in req[r].ks : /\ keys[k].st \notin {"unused", "pending"}
                               /\ \A s \in Reqs : Rotating(s) => req[s].kid # k
      BY <2>1 DEF Keyring, Pruned, Rotating
    <2>3. \A k \in KeyIds : IF k \in req[r].ks THEN keys'[k] = GoneKey ELSE keys'[k] = keys[k]
      BY <2>1
    <2> QED BY <1>w, <2>1, <2>2, <2>3, EndKeys
  <1>9. CASE DeleteKey(r)
    <2>1. /\ Finish(r) /\ req[r].kind = "delkey" /\ req[r].kid \in KeyIds /\ ~KeyLocked(req[r].kid, r)
          /\ keys' = [keys EXCEPT ![req[r].kid] = GoneKey]
      BY <1>9, <1>t DEF DeleteKey, Runs, At, Named
    <2>2. \A s \in Reqs : Rotating(s) => req[s].kid # req[r].kid
      BY <2>1 DEF KeyLocked, Rotating
    <2>3. \A k \in KeyIds : IF k = req[r].kid THEN keys'[k] = GoneKey ELSE keys'[k] = keys[k]
      BY <1>t, <2>1
    <2>4. keys[req[r].kid].st \notin {"unused", "pending"}
      BY <2>1 DEF Keyring, Doomed
    <2> QED BY <1>w, <2>1, <2>2, <2>3, <2>4, EndKeys
  <1>10. CASE InsertKey(r)
    <2>1. PICK k \in KeyIds :
            /\ FreshKey(k) /\ keys' = [keys EXCEPT ![k] = NewKey(req[r].tid, req[r].subj, 0, "live")]
            /\ req' = [req EXCEPT ![r].pc = "seed", ![r].kid = k]
      BY <1>10 DEF InsertKey
    <2>2. /\ req'[r].kind \notin {"rotate", "delkey"} /\ req'[r].ks = req[r].ks /\ \A s \in Reqs : s # r => req'[s] = req[s]
      BY <1>10, <1>t, <2>1 DEF InsertKey, Runs, At, Request
    <2>3. /\ keys[k].st = "unused" /\ keys'[k].st = "live" /\ keys'[k].from = 0
          /\ \A l \in KeyIds : l # k => keys'[l] = keys[l]
      BY <1>t, <2>1 DEF FreshKey, NewKey
    <2> QED BY <1>w, <2>2, <2>3, AddKey
  <1>11. CASE Bootstrap(r)
    <2>1. PICK k \in KeyIds :
            FreshKey(k) /\ \E t \in Tenants : keys' = [keys EXCEPT ![k] = [NewKey(t, None, 0, "live") EXCEPT !.founding = TRUE]]
      BY <1>11 DEF Bootstrap
    <2>2. /\ req'[r].kind \notin {"rotate", "delkey"} /\ req'[r].ks \subseteq req[r].ks /\ \A s \in Reqs : s # r => req'[s] = req[s]
      BY <1>11, <1>t, Blank DEF Bootstrap, Finish
    <2>3. /\ keys[k].st = "unused" /\ keys'[k].st = "live" /\ keys'[k].from = 0
          /\ \A l \in KeyIds : l # k => keys'[l] = keys[l]
      BY <1>t, <2>1 DEF FreshKey, NewKey
    <2> QED BY <1>w, <2>2, <2>3, AddKey
  <1>12. CASE BootstrapCheck(r)
    <2>1. UNCHANGED keys /\ (Finish(r) \/ GoTo(r, "found")) /\ req[r].kind = "bootstrap"
      BY <1>12 DEF BootstrapCheck, rows, Runs, At
    <2>2. CASE Finish(r)
      BY <1>2, <2>1, <2>2
    <2>3. CASE GoTo(r, "found")
      <3>1. /\ req'[r].kind = "bootstrap" /\ req'[r].ks = req[r].ks
            /\ \A s \in Reqs : s # r => req'[s] = req[s]
        BY <1>t, <2>1, <2>3 DEF GoTo, Request
      <3> QED BY <1>w, <2>1, <3>1, OtherKeyReq
    <2> QED BY <2>1, <2>2, <2>3
  <1>13. CASE BeginTxn(r) \/ TxnTuple(r) \/ SyncServicePrincipalAdmin(r) \/ GrantInsert(r) \/ ChangeUser(r)
    <2>1. \A s \in Reqs : s # r => req'[s] = req[s]
      BY <1>13, <1>t DEF BeginTxn, TxnTuple, SyncServicePrincipalAdmin, ChangeUser, GrantInsert, GoTo
    <2>2. UNCHANGED keys
      BY <1>13 DEF BeginTxn, TxnTuple, SyncServicePrincipalAdmin, ChangeUser, GrantInsert, rows
    <2>3. /\ req'[r].ks = req[r].ks /\ (req'[r].kind = "delkey" => req[r].kind = "delkey" /\ req'[r].kid = req[r].kid)
          /\ req'[r].kind = "rotate" =>
               /\ req[r].kind = "rotate" /\ req'[r].row = req[r].row
               /\ req'[r].kid = req[r].kid /\ req'[r].grace = req[r].grace
               /\ \/ req[r].pc \in {"begin", "write"} /\ req'[r].pc \in {"begin", "write"}
                  \/ req[r].pc = "tuples" /\ req'[r].pc = "tuples"
      <3>1. CASE BeginTxn(r)
        BY <1>t, <3>1 DEF Request, BeginTxn, GoTo
      <3>2. CASE TxnTuple(r)
        <4>1. req[r].kind = "rotate" => req[r].pc = "tuples"
          BY <3>2 DEF TxnTuple, Keyring, Rotations, RotationOK
        <4> QED BY <1>t, <3>2, <4>1 DEF Request, TxnTuple
      <3>3. CASE SyncServicePrincipalAdmin(r)
        BY <1>t, <3>3 DEF Request, SyncServicePrincipalAdmin, Runs, At
      <3>4. CASE ChangeUser(r)
        BY <1>t, <3>4 DEF Request, ChangeUser, Runs, At
      <3>5. CASE GrantInsert(r)
        BY <1>t, <3>5 DEF Request, GrantInsert, Runs, At
      <3> QED BY <1>13, <3>1, <3>2, <3>3, <3>4, <3>5
    <2> QED BY <1>w, <2>1, <2>2, <2>3, OtherKeyReq
  <1> QED
    BY <1>3, <1>4, <1>5, <1>6, <1>7, <1>8, <1>9, <1>10, <1>11, <1>12, <1>13 DEF Serve

\* So do the requests that come.
LEMMA ComesKeys == ASSUME Typed, Keyring, NEW r \in Reqs, Comes(r) PROVE Keyring'
  <1>t. keys \in [KeyIds -> KeyRow] /\ req \in [Reqs -> Request]
    BY DEF Typed, RowsOK, ReqsOK
  <1>w. UNCHANGED work
    BY DEF Comes, Quiet
  <1>1. CASE RevokeAPIKey(r)
    <2>1. PICK k \in KeyIds : keys[k].st \in {"live", "grace", "expired"} /\ keys' = [keys EXCEPT ![k].st = "revoked"]
      BY <1>1 DEF RevokeAPIKey
    <2>2. Finish(r)
      BY <1>1 DEF RevokeAPIKey
    <2>3. /\ keys'[k].from = keys[k].from /\ keys'[k].st = "revoked"
          /\ \A l \in KeyIds : l # k => keys'[l] = keys[l]
      BY <1>t, <2>1 DEF KeyRow
    <2> QED BY <1>w, <2>1, <2>2, <2>3, EndKeys
  <1>2. CASE UNCHANGED keys
    <2>1. PICK q \in Request : Fresh(q) /\ req' = [req EXCEPT ![r] = q]
      BY DEF Comes
    <2>2. /\ req'[r] = q /\ q.ks = {}
          /\ q.kind = "rotate" => q.pc = "begin" /\ q.row = 0 /\ ("grace" \notin work => ~q.grace)
          /\ q.kind = "delkey" => Dead(q.kid)
          /\ \A s \in Reqs : s # r => req'[s] = req[s]
      BY <1>t, <2>1 DEF Fresh
    <2>3. Rotations'
      BY <1>2, <1>w, <2>2 DEF Keyring, Rotations, RotationOK, IsKey
    <2>4. \A s \in Reqs : (Rotating(s))' => s # r /\ Rotating(s) /\ req'[s] = req[s]
      BY <2>2 DEF Rotating
    <2>5. KeysApart' /\ Pruned'
      BY <1>2, <2>2, <2>4 DEF Keyring, KeysApart, Pruned
    <2>6. Replaced'
      BY <1>2, <1>w DEF Keyring, Replaced, Follows
    <2>7. Doomed'
      BY <1>2, <2>2 DEF Keyring, Doomed, Dead
    <2> QED BY <2>3, <2>5, <2>6, <2>7 DEF Keyring
  <1> QED BY <1>1, <1>2 DEF Comes

\* The sweep and the resets leave keys that are being rotated alone.
LEMMA RestKeys ==
  ASSUME Typed, Keyring, (\E p \in Replicas : Stop(p) \/ Boot(p)) \/ PurgeDeadKeys \/ Expire \/ UNCHANGED vars
  PROVE  Keyring'
  <1>t. keys \in [KeyIds -> KeyRow] /\ None \notin Reqs
    BY Inputs DEF Typed, RowsOK
  <1>1. UNCHANGED <<req, work>>
    BY DEF Stop, Boot, BackfillRead, BackfillCommit, SeedRead, SeedWrite, SelfCheck, ResetRead, ResetCommit, Arm,
      PurgeDeadKeys, Expire, OnlyBoot, Quiet, vars, rows
  <1>k. \A k \in KeyIds : ~KeyLocked(k, None) => \A s \in Reqs : Rotating(s) => req[s].kid # k
    BY <1>t DEF KeyLocked, Rotating
  <1>2. CASE UNCHANGED keys
    BY <1>1, <1>2, EndKeys
  <1>3. CASE PurgeDeadKeys
    <2>1. PICK k \in KeyIds : Dead(k) /\ ~KeyLocked(k, None) /\ keys' = [keys EXCEPT ![k] = GoneKey]
      BY <1>3 DEF PurgeDeadKeys
    <2>2. \A l \in KeyIds : IF l = k THEN keys'[l] = GoneKey ELSE keys'[l] = keys[l]
      BY <1>t, <2>1
    <2> QED BY <1>1, <1>k, <2>1, <2>2, EndKeys DEF Dead
  <1>4. CASE Expire
    <2>1. PICK k \in KeyIds : keys[k].st = "grace" /\ keys' = [keys EXCEPT ![k].st = "expired"]
      BY <1>4 DEF Expire
    <2>2. /\ keys'[k].from = keys[k].from /\ keys'[k].st = "expired"
          /\ \A l \in KeyIds : l # k => keys'[l] = keys[l]
      BY <1>t, <2>1 DEF KeyRow
    <2> QED BY <1>1, <2>1, <2>2, EndKeys
  <1>5. ASSUME NEW p \in Replicas, ResetCommit(p), ~UNCHANGED keys PROVE Keyring'
    <2>1. /\ keys' = [k \in KeyIds |-> IF k \in boot[p].ks THEN GoneKey ELSE keys[k]]
          /\ \A k \in boot[p].ks : IsKey(k) /\ ~KeyLocked(k, None)
      BY <1>5 DEF ResetCommit
    <2>2. \A l \in KeyIds : IF l \in boot[p].ks THEN keys'[l] = GoneKey ELSE keys'[l] = keys[l]
      BY <2>1
    <2> QED BY <1>1, <1>k, <2>1, <2>2, EndKeys DEF IsKey
  <1> QED
    BY <1>2, <1>3, <1>4, <1>5 DEF Stop, Boot, BackfillRead, BackfillCommit, SeedRead, SeedWrite, SelfCheck, ResetRead, Arm,
      OnlyBoot, vars, rows

\* At the start no key replaces another.
LEMMA KeysInit == ASSUME Init PROVE Keyring
  <1>1. PICK s \in Starts : keys = s.keys
    BY DEF Init
  <1>2. \A r \in Reqs : req[r].kind = "none" /\ req[r].ks = {}
    BY DEF Init, Idle
  <1>3. \A k, l \in KeyIds : ~Follows(l, k)
    BY <1>1, Sound DEF Follows, KeyIds
  <1> QED BY <1>2, <1>3 DEF Keyring, Rotations, RotationOK, KeysApart, Pruned, Doomed, Replaced, Rotating

-----------------------------------------------------------------------------
(* The theorems.                                                           *)

Whole == Typed /\ Owners /\ Keyring

\* The invariant holds at the start, and every step keeps it.
LEMMA WholeInvariant == Spec => []Whole
  <1>1. Init => Whole
    BY TypedInit, OwnersInit, KeysInit DEF Whole
  <1>2. Whole /\ [Next]_vars => Whole'
    <2> SUFFICES ASSUME Whole, [Next]_vars PROVE Whole'
      OBVIOUS
    <2>1. Typed'
      BY TypedNext DEF Whole, Owners, Keyring
    <2>2. ASSUME NEW r \in Reqs, Arrive(r) PROVE Owners' /\ Keyring'
      BY <2>2, Arrives, ComesOwners, ComesKeys DEF Whole
    <2>3. ASSUME NEW r \in Reqs, Serve(r) \/ Fail(r) PROVE Owners' /\ Keyring'
      BY <2>3, ServeOwners, ServeKeys DEF Whole
    <2>4. ASSUME (\E p \in Replicas : Stop(p) \/ Boot(p)) \/ PurgeDeadKeys \/ Expire \/ UNCHANGED vars PROVE Owners' /\ Keyring'
      <3>1. Typed /\ Owners /\ Keyring
        BY DEF Whole
      <3>2. Owners'
        BY <2>4, <3>1, RestOwners
      <3>3. Keyring'
        BY <2>4, <3>1, RestKeys
      <3> QED BY <3>2, <3>3
    <2> QED BY <2>1, <2>2, <2>3, <2>4 DEF Next, Whole
  <1> QED BY <1>1, <1>2, PTL DEF Spec

\* The tables, the tuples and the replicas' records stay well typed, whatever
\* requests, failures, sweeps, resets and starts come together.
THEOREM TypesHold == Spec => []TypeOK
  <1>1. Whole => TypeOK
    BY DEF Whole, Typed, RowsOK, BootsOK, TypeOK
  <1> QED BY <1>1, WholeInvariant, PTL

\* A set with at most one element.
LEMMA AtMostOne ==
  ASSUME NEW S, \A u, v \in S : u = v
  PROVE  Cardinality(S) <= 1
  <1>1. CASE S = {}
    BY <1>1, FS_EmptySet
  <1>2. ASSUME NEW u \in S PROVE Cardinality(S) <= 1
    <2>1. S = {u}
      BY <1>2
    <2>2. Cardinality({u}) = 1
      BY FS_Singleton
    <2> QED BY <2>1, <2>2
  <1> QED BY <1>1, <1>2

\* A personal tenant has one user, whatever grants, first logins, role changes,
\* deletions and bootstraps overlap, on any number of replicas and connections
\* (GrantTenantUser: the count under the row lock).
THEOREM OnePersonalUser == Spec => []SingleOwner
  <1>1. Whole => SingleOwner
    <2> SUFFICES ASSUME Whole, NEW t \in Tenants \ retyped, tenants[t] = "personal" PROVE Cardinality(UsersOf(t)) <= 1
      BY DEF SingleOwner
    <2>1. \A u, v \in UsersOf(t) : u = v
      BY DEF Whole, Owners, Alone, Lodges, Lives, UsersOf, IsUser
    <2> QED BY <2>1, AtMostOne
  <1> QED BY <1>1, WholeInvariant, PTL

\* A key rotated without a grace period has one replacement, whatever rotations,
\* revocations, deletions and resets overlap (RotateAPIKey: the row lock).
THEOREM OneReplacement == Spec => []OneSuccessor
  <1>1. Whole => OneSuccessor
    <2> SUFFICES ASSUME Whole, "grace" \notin work, NEW k \in KeyIds
                 PROVE  Cardinality({l \in KeyIds : keys[l].from = k /\ keys[l].st # "pending"}) <= 1
      BY DEF OneSuccessor
    <2>1. \A l, m \in {l \in KeyIds : keys[l].from = k /\ keys[l].st # "pending"} : l = m
      BY DEF Whole, Keyring, Replaced, Follows
    <2> QED BY <2>1, AtMostOne
  <1> QED BY <1>1, WholeInvariant, PTL

-----------------------------------------------------------------------------
(* The first admin: what the advisory lock of POST /bootstrap gives.       *)

\* A founding key is inserted.
Founds == \E k \in KeyIds : keys'[k].founding /\ ~keys[k].founding

\* Between the count of a bootstrap and its commit an administrator comes only
\* from a bootstrap.  The lock keeps bootstraps apart and nothing else: a grant
\* that was under way, or a replica that starts, writes admin tuples without it.
NoRival == (\E r \in Reqs : req[r].pc = "found") /\ HasAnyAdmin' => HasAnyAdmin \/ Founds

\* One bootstrap at a time is past its count, and what it has counted is true.
Sole == /\ \A r \in Reqs : req[r].pc = "found" => req[r].kind = "bootstrap" /\ ~HasAnyAdmin
        /\ \A r, s \in Reqs : req[r].pc = "found" /\ req[s].pc = "found" => r = s

\* Only the transaction of a bootstrap inserts a founding key.
LEMMA WhoFounds ==
  ASSUME Typed, NEW r \in Reqs, Arrive(r) \/ Serve(r) \/ Fail(r), Founds
  PROVE  Bootstrap(r)
  <1>t. keys \in [KeyIds -> KeyRow] /\ GoneKey.founding = FALSE
    BY DEF Typed, RowsOK, GoneKey, NoKey
  <1>1. UNCHANGED keys => ~Founds
    BY DEF Founds
  <1>2. ASSUME NEW k, NEW row, row.founding = FALSE, keys' = [keys EXCEPT ![k] = row] PROVE ~Founds
    BY <1>t, <1>2 DEF Founds
  <1>3. ASSUME NEW k, NEW st, keys' = [keys EXCEPT ![k].st = st] PROVE ~Founds
    BY <1>t, <1>3 DEF Founds, KeyRow
  <1>4. Abandon(r) => ~Founds
    BY <1>1, <1>2, <1>t DEF Abandon
  <1>5. Arrive(r) => ~Founds
    <2>1. RevokeAPIKey(r) => ~Founds
      BY <1>3 DEF RevokeAPIKey
    <2> QED BY <1>1, <2>1, Arrives DEF Comes
  <1>6. DropTenant(r) => ~Founds
    BY <1>t DEF DropTenant, Founds
  <1>7. InsertKey(r) \/ RotateMint(r) \/ DeleteKey(r) => ~Founds
    <2>1. \A t, s, from, st : NewKey(t, s, from, st).founding = FALSE
      BY DEF NewKey
    <2>2. ASSUME NEW t, NEW s, NEW from, NEW st, NEW k \in KeyIds, keys' = [keys EXCEPT ![k] = NewKey(t, s, from, st)]
          PROVE  ~Founds
      <3>1. \A j \in KeyIds : keys'[j] = keys[j] \/ keys'[j] = NewKey(t, s, from, st)
        BY <1>t, <2>2
      <3> QED BY <2>1, <3>1 DEF Founds
    <2>4. CASE InsertKey(r)
      <3>1. PICK k \in KeyIds : keys' = [keys EXCEPT ![k] = NewKey(req[r].tid, req[r].subj, 0, "live")]
        BY <2>4 DEF InsertKey
      <3> QED BY <2>2, <3>1
    <2>5. CASE RotateMint(r)
      <3>1. PICK k \in KeyIds : keys' = [keys EXCEPT ![k] = NewKey(req[r].tid, req[r].subj, req[r].kid, "pending")]
        BY <2>5 DEF RotateMint
      <3> QED BY <2>2, <3>1
    <2>3. DeleteKey(r) => ~Founds
      BY <1>2, <1>t DEF DeleteKey
    <2> QED BY <2>3, <2>4, <2>5
  <1>8. RotateRetire(r) => ~Founds
    BY <1>t DEF RotateRetire, Founds, KeyRow
  <1>9. Serve(r) \/ Fail(r) => \/ UNCHANGED keys \/ Abandon(r) \/ DropTenant(r) \/ Bootstrap(r)
                               \/ InsertKey(r) \/ RotateMint(r) \/ DeleteKey(r) \/ RotateRetire(r)
    BY DEF Serve, Fail, rows, BeginTxn, TxnTuple, SyncServicePrincipalAdmin, CommitUser, GrantInsert, GrantError,
           ChangeUser, CreateTenant, CreateRefused, AclWrite, SaveTenant, Prune, DropError, InsertKeyRefused,
           SeedKeyTuple, RotateGone, RotateRevoked, BootstrapCheck, BootstrapRefused
  <1> QED BY <1>1, <1>4, <1>5, <1>6, <1>7, <1>8, <1>9

\* A request comes to its count past the lock, and leaves it with an answer.
LEMMA WhoCounts ==
  ASSUME Typed, NEW r \in Reqs, Arrive(r) \/ Serve(r) \/ Fail(r)
  PROVE  /\ \A s \in Reqs \ {r} : req'[s] = req[s]
         /\ req'[r].pc = "found" => BootstrapCheck(r)
  <1>t. req \in [Reqs -> Request]
    BY DEF Typed, ReqsOK
  <1>1. ASSUME NEW q, req' = [req EXCEPT ![r] = q], q.pc # "found" PROVE req'[r].pc # "found" /\ \A s \in Reqs \ {r} : req'[s] = req[s]
    BY <1>t, <1>1
  <1>2. Finish(r) => req'[r].pc # "found" /\ \A s \in Reqs \ {r} : req'[s] = req[s]
    <2>1. Done.pc = "done"
      BY DEF Done, Idle
    <2> QED BY <1>1, <2>1 DEF Finish
  <1>3. ASSUME NEW pc, GoTo(r, pc) PROVE req'[r].pc = pc /\ \A s \in Reqs \ {r} : req'[s] = req[s]
    BY <1>t, <1>3 DEF GoTo, Request
  <1>4. CASE Arrive(r)
    <2>1. PICK q \in Request : Fresh(q) /\ req' = [req EXCEPT ![r] = q]
      BY <1>4, Arrives DEF Comes
    <2>2. q.pc # "found"
      BY <2>1 DEF Fresh
    <2> QED BY <1>t, <2>1, <2>2
  <1>5. CASE \/ Finish(r) \/ BeginTxn(r) \/ BootstrapCheck(r)
    <2>1. CASE Finish(r)
      BY <1>2, <2>1
    <2>2. CASE BeginTxn(r)
      BY <1>3, <2>2 DEF BeginTxn
    <2>3. CASE BootstrapCheck(r)
      BY <1>2, <1>3, <2>3 DEF BootstrapCheck
    <2> QED BY <1>5, <2>1, <2>2, <2>3
  <1>6. CASE TxnTuple(r)
    BY <1>t, <1>6 DEF TxnTuple, Request
  <1>7. CASE \/ SyncServicePrincipalAdmin(r) \/ GrantInsert(r) \/ ChangeUser(r) \/ Prune(r) \/ InsertKey(r) \/ RotateMint(r)
    <2>1. req'[r].pc \in {"sync", "tuples", "pruned", "seed"} /\ \A s \in Reqs \ {r} : req'[s] = req[s]
      <3>1. CASE SyncServicePrincipalAdmin(r)
        BY <1>t, <3>1 DEF SyncServicePrincipalAdmin, Request
      <3>2. CASE GrantInsert(r)
        <4>1. PICK u \in UserIds : req' = [req EXCEPT ![r].pc = "tuples", ![r].row = u, ![r].todo = Todo(req[r], u)]
          BY <3>2 DEF GrantInsert
        <4> QED BY <1>t, <4>1 DEF Request
      <3>3. CASE ChangeUser(r)
        <4>1. PICK l : req' = [req EXCEPT ![r].pc = "tuples", ![r].todo = l]
          BY <3>3, Zenon DEF ChangeUser
        <4> QED BY <1>t, <4>1 DEF Request
      <3>4. CASE Prune(r)
        <4>1. PICK g, l : req' = [req EXCEPT ![r].pc = "pruned", ![r].gone = g, ![r].ks = l]
          BY <3>4, Zenon DEF Prune
        <4> QED BY <1>t, <4>1 DEF Request
      <3>5. CASE InsertKey(r)
        <4>1. PICK k : req' = [req EXCEPT ![r].pc = "seed", ![r].kid = k]
          BY <3>5, Zenon DEF InsertKey
        <4> QED BY <1>t, <4>1 DEF Request
      <3>6. CASE RotateMint(r)
        <4>1. PICK k, l : req' = [req EXCEPT ![r].pc = "tuples", ![r].row = k, ![r].todo = l]
          BY <3>6, Zenon DEF RotateMint
        <4> QED BY <1>t, <4>1 DEF Request
      <3> QED BY <1>7, <3>1, <3>2, <3>3, <3>4, <3>5, <3>6
    <2> QED BY <2>1
  <1>8. Serve(r) \/ Fail(r) => \/ Finish(r) \/ BeginTxn(r) \/ BootstrapCheck(r) \/ TxnTuple(r)
                               \/ SyncServicePrincipalAdmin(r) \/ GrantInsert(r) \/ ChangeUser(r) \/ Prune(r)
                               \/ InsertKey(r) \/ RotateMint(r)
    BY DEF Serve, Fail, Abandon, CommitUser, GrantError, CreateTenant, CreateRefused, AclWrite, SaveTenant, DropTenant,
           DropError, InsertKeyRefused, SeedKeyTuple, DeleteKey, RotateGone, RotateRetire, RotateRevoked, Bootstrap,
           BootstrapRefused
  <1> QED BY <1>4, <1>5, <1>6, <1>7, <1>8

\* The sweep and the time found nothing, and neither do replicas.
LEMMA OthersFoundNone ==
  ASSUME Typed, (\E p \in Replicas : Stop(p) \/ Boot(p)) \/ PurgeDeadKeys \/ Expire
  PROVE  UNCHANGED req /\ ~Founds
  <1>t. keys \in [KeyIds -> KeyRow] /\ GoneKey.founding = FALSE
    BY DEF Typed, RowsOK, GoneKey, NoKey
  <1>1. CASE PurgeDeadKeys \/ Expire
    <2>1. PICK k \in KeyIds : keys' = [keys EXCEPT ![k] = GoneKey] \/ keys' = [keys EXCEPT ![k].st = "expired"]
      BY <1>1, Zenon DEF PurgeDeadKeys, Expire
    <2>2. UNCHANGED req
      BY <1>1 DEF PurgeDeadKeys, Expire
    <2>3. CASE keys' = [keys EXCEPT ![k] = GoneKey]
      BY <1>t, <2>2, <2>3 DEF Founds
    <2>4. CASE keys' = [keys EXCEPT ![k].st = "expired"]
      BY <1>t, <2>2, <2>4 DEF Founds, KeyRow
    <2> QED BY <2>1, <2>3, <2>4
  <1>2. ASSUME NEW p \in Replicas, Stop(p) \/ Boot(p) PROVE UNCHANGED req /\ ~Founds
    <2>1. CASE ResetCommit(p)
      <3>1. \A k \in KeyIds : keys'[k] \in {keys[k], GoneKey}
        BY <1>t, <2>1 DEF ResetCommit
      <3>2. UNCHANGED req
        BY <2>1 DEF ResetCommit
      <3> QED BY <1>t, <3>1, <3>2 DEF Founds
    <2>2. CASE ~ResetCommit(p)
      <3>1. UNCHANGED <<req, keys>>
        BY <1>2, <2>2 DEF Stop, Boot, BackfillRead, BackfillCommit, SeedRead, SeedWrite, SelfCheck, ResetRead, Arm, OnlyBoot, rows
      <3> QED BY <3>1 DEF Founds
    <2> QED BY <2>1, <2>2
  <1> QED BY <1>1, <1>2

\* No step puts a second bootstrap past its count, or makes a count false.
LEMMA SoleNext == ASSUME Typed, Sole, [Next]_vars, [NoRival]_vars PROVE Sole' /\ (Founds => ~HasAnyAdmin)
  <1>1. CASE UNCHANGED vars
    BY <1>1 DEF vars, Sole, Founds, HasAnyAdmin
  <1>2. ASSUME ~UNCHANGED vars, NoRival, (\E p \in Replicas : Stop(p) \/ Boot(p)) \/ PurgeDeadKeys \/ Expire
        PROVE  Sole' /\ (Founds => ~HasAnyAdmin)
    <2>1. UNCHANGED req /\ ~Founds
      BY <1>2, OthersFoundNone
    <2> QED BY <1>2, <2>1 DEF NoRival, Sole
  <1>3. ASSUME NoRival, NEW r \in Reqs, Arrive(r) \/ Serve(r) \/ Fail(r) PROVE Sole' /\ (Founds => ~HasAnyAdmin)
    <2>1. \A s \in Reqs \ {r} : req'[s] = req[s]
      BY <1>3, WhoCounts
    <2>2. CASE BootstrapCheck(r)
      <3>1. UNCHANGED <<keys, tuples>> /\ ~Founds
        BY <2>2 DEF BootstrapCheck, rows, Founds
      <3>2. /\ req[r].kind = "bootstrap" /\ req[r].pc = "lock"
            /\ ~\E s \in Reqs : req[s].kind = "bootstrap" /\ req[s].pc = "found"
            /\ Finish(r) \/ (~HasAnyAdmin /\ GoTo(r, "found"))
        BY <2>2 DEF BootstrapCheck, Runs, At
      <3>3. \A s \in Reqs : req[s].pc # "found"
        BY <3>2 DEF Sole
      <3>4. ~HasAnyAdmin <=> ~HasAnyAdmin'
        BY <3>1 DEF HasAnyAdmin
      <3>5. CASE Finish(r)
        <4>1. req'[r].pc # "found"
          BY <3>5 DEF Finish, Done, Idle, Typed, ReqsOK
        <4> QED BY <2>1, <3>1, <3>3, <4>1 DEF Sole
      <3>6. CASE ~HasAnyAdmin /\ GoTo(r, "found")
        <4>1. req'[r].kind = "bootstrap"
          BY <3>2, <3>6 DEF GoTo, Typed, ReqsOK, Request
        <4> QED BY <2>1, <3>1, <3>3, <3>4, <3>6, <4>1 DEF Sole
      <3> QED BY <3>2, <3>5, <3>6
    <2>3. CASE ~BootstrapCheck(r)
      <3>1. req'[r].pc # "found"
        BY <1>3, <2>3, WhoCounts
      <3>2. Founds => req[r].pc = "found" /\ ~HasAnyAdmin
        BY <1>3, WhoFounds DEF Bootstrap, Runs, At, Sole
      <3>3. \A s \in Reqs : req'[s].pc = "found" => s # r /\ req[s] = req'[s] /\ req[s].pc = "found"
        BY <2>1, <3>1
      <3>4. (\E s \in Reqs : req'[s].pc = "found") => ~HasAnyAdmin /\ ~Founds
        BY <3>2, <3>3 DEF Sole
      <3>5. (\E s \in Reqs : req'[s].pc = "found") => ~HasAnyAdmin'
        BY <1>3, <3>3, <3>4 DEF NoRival
      <3>6. \A s \in Reqs : req'[s].pc = "found" => req'[s].kind = "bootstrap" /\ ~HasAnyAdmin'
        BY <3>3, <3>5 DEF Sole
      <3>7. \A s, t \in Reqs : req'[s].pc = "found" /\ req'[t].pc = "found" => s = t
        BY <3>3 DEF Sole
      <3> QED BY <3>2, <3>6, <3>7 DEF Sole
    <2> QED BY <2>2, <2>3
  <1> QED BY <1>1, <1>2, <1>3 DEF Next

\* Bootstrap is one-shot among any number of requests and replicas: as long as
\* no admin is written beside it by a grant or a start-up, a founding key
\* appears only when nobody is an admin, so two bootstraps that both passed the
\* gate never both found.
THEOREM FoundedUnderLock == Spec /\ [][NoRival]_vars => FoundedOnce
  <1> DEFINE once == (\E k \in KeyIds : keys'[k].founding /\ ~keys[k].founding) => ~HasAnyAdmin
  <1>1. Init => Sole
    BY DEF Init, Sole, Idle
  <1>2. Whole /\ Sole /\ [Next]_vars /\ [NoRival]_vars => Sole' /\ [once]_vars
    BY SoleNext DEF Whole, Founds
  <1> QED BY <1>1, <1>2, WholeInvariant, PTL DEF Spec, FoundedOnce
=============================================================================
