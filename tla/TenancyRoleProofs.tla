------------------------- MODULE TenancyRoleProofs -------------------------
(***************************************************************************)
(* A role and its tuples.  The tuple store commits each tuple on its own,  *)
(* so between the first tuple of a grant, an update or a removal and its   *)
(* commit the two differ; what the open requests have still to do makes    *)
(* up the difference, and no two of them work on one row.  A migration     *)
(* derives tuples from the rows it has read and writes them later: beside  *)
(* a change of roles it would write what has been changed since.           *)
(***************************************************************************)
EXTENDS TenancyProofs

\* The operations of a list.
Ops(s) == {s[i] : i \in 1..Len(s)}

\* None of an empty list, and those of both parts of a longer one.
LEMMA OpsOf ==
  /\ Ops(<<>>) = {} /\ \A x \in Op : << x >> \in Seq(Op) /\ Ops(<< x >>) = {x}
  /\ \A s, t \in Seq(Op) : s \o t \in Seq(Op) /\ Ops(s \o t) = Ops(s) \cup Ops(t)
  /\ \A s \in Seq(Op) : s # <<>> => Ops(s) = {Head(s)} \cup Ops(Tail(s)) /\ Head(s) \in Op /\ Tail(s) \in Seq(Op)
  <1>1. Ops(<<>>) = {} /\ \A x \in Op : << x >> \in Seq(Op) /\ Ops(<< x >>) = {x}
    BY DEF Ops
  <1>2. ASSUME NEW s \in Seq(Op), NEW t \in Seq(Op) PROVE s \o t \in Seq(Op) /\ Ops(s \o t) = Ops(s) \cup Ops(t)
    <2> DEFINE st == s \o t
    <2>1. /\ st \in Seq(Op) /\ Len(st) = Len(s) + Len(t) /\ Len(s) \in Nat /\ Len(t) \in Nat
          /\ \A i \in 1..Len(s) : st[i] = s[i]
          /\ \A i \in 1..Len(t) : st[Len(s) + i] = t[i]
      BY ConcatProperties
    <2> HIDE DEF st
    <2>2. \A i \in 1..Len(st) : i \in 1..Len(s) \/ \E j \in 1..Len(t) : i = Len(s) + j
      <3> SUFFICES ASSUME NEW i \in 1..Len(st), i \notin 1..Len(s) PROVE \E j \in 1..Len(t) : i = Len(s) + j
        OBVIOUS
      <3>1. i - Len(s) \in 1..Len(t) /\ i = Len(s) + (i - Len(s))
        BY <2>1
      <3> QED BY <3>1
    <2>3. 1..Len(s) \subseteq 1..Len(st) /\ \A i \in 1..Len(t) : Len(s) + i \in 1..Len(st)
      BY <2>1
    <2>4. \A i \in 1..Len(st) : st[i] \in Ops(s) \cup Ops(t)
      BY <2>1, <2>2 DEF Ops
    <2>5. Ops(s) \subseteq Ops(st)
      BY <2>1, <2>3 DEF Ops
    <2>6. Ops(t) \subseteq Ops(st)
      <3> SUFFICES ASSUME NEW j \in 1..Len(t) PROVE t[j] \in Ops(st)
        BY DEF Ops
      <3>1. Len(s) + j \in 1..Len(st) /\ st[Len(s) + j] = t[j]
        BY <2>1, <2>3
      <3> QED BY <3>1 DEF Ops
    <2>7. Ops(st) = Ops(s) \cup Ops(t)
      BY <2>4, <2>5, <2>6 DEF Ops
    <2> QED BY <2>1, <2>7 DEF st
  <1>3. ASSUME NEW s \in Seq(Op), s # <<>>
        PROVE  Ops(s) = {Head(s)} \cup Ops(Tail(s)) /\ Head(s) \in Op /\ Tail(s) \in Seq(Op)
    <2> DEFINE t == Tail(s)
    <2>a. Head(s) = s[1]
      OBVIOUS
    <2>1. /\ Head(s) \in Op /\ t \in Seq(Op) /\ Len(t) = Len(s) - 1
          /\ \A i \in 1..Len(t) : t[i] = s[i + 1]
          /\ Len(s) \in Nat \ {0}
      BY <1>3, HeadTailProperties, EmptySeq
    <2> HIDE DEF t
    <2>2. \A i \in 1..Len(s) : i = 1 \/ i - 1 \in 1..Len(t)
      BY <2>1
    <2>3. \A i \in 1..Len(s) : s[i] \in {Head(s)} \cup Ops(t)
      <3> SUFFICES ASSUME NEW i \in 1..Len(s), i # 1 PROVE s[i] \in Ops(t)
        BY <2>a
      <3>1. i - 1 \in 1..Len(t) /\ t[i - 1] = s[i]
        BY <2>1, <2>2
      <3> QED BY <3>1 DEF Ops
    <2>4. Ops(t) \subseteq Ops(s)
      <3> SUFFICES ASSUME NEW j \in 1..Len(t) PROVE t[j] \in Ops(s)
        BY DEF Ops
      <3>1. j + 1 \in 1..Len(s) /\ t[j] = s[j + 1]
        BY <2>1
      <3> QED BY <3>1 DEF Ops
    <2>5. Head(s) \in Ops(s)
      BY <2>a, <2>1 DEF Ops
    <2>6. Ops(s) = {Head(s)} \cup Ops(t)
      BY <2>3, <2>4, <2>5 DEF Ops
    <2> QED BY <2>1, <2>6 DEF t
  <1> QED BY <1>1, <1>2, <1>3

-----------------------------------------------------------------------------
(* What holds between a row, its tuples and what is still to be done.      *)

Ranks == {"admin", "owner"}
Rank(t, role, u) == Tup(t, role, User(u))
Changers == {"grant", "update", "revoke"}

\* A request between its row lock and its commit, and the users who are being changed.
Working(r) == req[r].kind \in Changers /\ req[r].pc \in {"tuples", "sync"}
Changing(u) == \E r \in Reqs : Working(r) /\ req[r].kind # "grant" /\ req[r].row = u
\* No two of them have one row.
Apart == \A r, s \in Reqs : Working(r) /\ Working(s) /\ r # s => req[r].row # req[s].row

\* An operation on a tuple of a role is that of its request.
OpFits(q, op) ==
    op.tup.rel \in Ranks /\ op.tup.obj # Sys =>
        /\ q.kind \in Changers /\ op.tup = Rank(q.tid, op.tup.rel, q.row)
        /\ q.kind # "revoke" => (op.add <=> op.tup.rel = q.role)
Fits(r) == \A op \in Ops(req[r].todo) : OpFits(req[r], op)

\* The user that is changed was there when he was read; a grant's row has its role.
ChangeOK(r) == req[r].kind \in {"update", "revoke"} =>
    /\ users[req[r].row].st \in {"row", "gone"}
    /\ IsUser(req[r].row) => users[req[r].row].tenant = req[r].tid
PromiseOK(r) == Working(r) /\ req[r].kind = "grant" => users[req[r].row].role = req[r].role

\* Each tuple is as the new role has it, or is still to be written or deleted.
Settled(r, role) == Rank(req[r].tid, role, req[r].row) \in tuples <=> role = req[r].role
Owed(r, role) == \E op \in Ops(req[r].todo) : op.tup = Rank(req[r].tid, role, req[r].row)
Bound(r) == Working(r) /\ (req[r].kind = "grant" \/ (req[r].kind = "update" /\ IsUser(req[r].row)))
EffectOK(r) == Bound(r) => \A role \in Ranks : Settled(r, role) \/ Owed(r, role)

\* What a deletion takes with it is its own tenant's.
DropOK(r) == req[r].kind = "drop" /\ req[r].pc = "pruned" =>
    \A x \in req[r].gone : x.obj = req[r].tid \/ x.obj \in Docs \/ x.subj = Svc(req[r].tid)
RequestOK(r) == Fits(r) /\ ChangeOK(r) /\ PromiseOK(r) /\ EffectOK(r) /\ DropOK(r)

\* A user nobody changes has the tuples of the role, and an unused row has none.
UserOK(u) ==
    /\ IsUser(u) /\ ~Changing(u) =>
         \A role \in Ranks : Rank(users[u].tenant, role, u) \in tuples <=> users[u].role = role
    /\ users[u].st = "unused" => \A t \in Tenants, role \in Ranks : Rank(t, role, u) \notin tuples
Tracked == Apart /\ (\A r \in Reqs : RequestOK(r)) /\ \A u \in UserIds : UserOK(u)

\* What a migration is about to write is what the rows say.
MigrationOK(p) == boot[p].pc = "migrating" =>
    /\ boot[p].flips = Flips
    /\ \A u \in UserIds, t \in Tenants, role \in Ranks : Rank(t, role, u) \in boot[p].new =>
          IsUser(u) /\ users[u].tenant = t /\ RoleAfter(u, boot[p].flips) = role
    /\ \A u \in boot[p].flips : Rank(users[u].tenant, "owner", u) \in boot[p].new
    /\ \A o \in Replicas : boot[o].pc = "migrating" => o = p
SeedOK(p) == boot[p].pc \in {"seeding", "resetting"} => \A x \in boot[p].new : x.obj = Sys
Starting1 == \A p \in Replicas : MigrationOK(p) /\ SeedOK(p)

-----------------------------------------------------------------------------
(* Tuples of roles.                                                        *)

\* Who is meant by a tuple of a role is one user in one tenant; no other
\* constructor makes one.
LEMMA RanksAre ==
  /\ \A t, o, u, v : \A a, b : Rank(t, a, u) = Rank(o, b, v) => t = o /\ a = b /\ u = v
  /\ \A t \in Tenants, role \in Ranks : \A u : LET x == Rank(t, role, u) IN
       /\ x.obj = t /\ x.rel = role /\ x.subj = User(u) /\ x.obj # Sys /\ x.obj \notin Docs
       /\ \A o, s : x # TenantMember(o, s) /\ x # TenantSystemEdge(o) /\ x # SystemAdmin(s)
       /\ \A o, rel, s : x # Tup(o, rel, Svc(s))
       /\ \A s : x.subj # Svc(s)
  BY Namespaces DEF Rank, Ranks, Tup, User, Svc, TenantMember, TenantSystemEdge, SystemAdmin

\* The tuples of a user's roles stay as they are.
SameRanks(u) == \A t \in Tenants, role \in Ranks : Rank(t, role, u) \in tuples' <=> Rank(t, role, u) \in tuples

\* Rows are deleted, or keep their tenant.
Aging == \A u \in UserIds : users[u].st \in {"row", "gone"} =>
    users'[u].st = "gone" \/ (users'[u].st = users[u].st /\ users'[u].tenant = users[u].tenant)

\* What a request names.
LEMMA NamedRows ==
  ASSUME Typed, Grants, NEW r \in Reqs
  PROVE  /\ req[r].kind \in {"update", "revoke"} => req[r].row \in UserIds /\ req[r].tid \in Tenants
         /\ Working(r) => req[r].row \in UserIds /\ req[r].tid \in Tenants
         /\ req[r] \in Request /\ req[r].todo \in Seq(Op)
  <1>1. req[r] \in Request /\ Named(req[r])
    BY DEF Typed, ReqsOK
  <1>2. req[r].todo \in Seq(Op)
    BY <1>1 DEF Request
  <1> QED BY <1>1, <1>2 DEF Named, Grants, Working, Changers

\* A request that does not move keeps its promises if nobody touches its row
\* and the tuples of its user's roles in its tenant, or the row is gone.
LEMMA Unmoved ==
  ASSUME Typed, Grants, NEW s \in Reqs, req'[s] = req[s], RequestOK(s), Aging,
         Working(s) => \/ /\ users'[req[s].row] = users[req[s].row]
                          /\ \A role \in Ranks : Rank(req[s].tid, role, req[s].row) \in tuples'
                                                 <=> Rank(req[s].tid, role, req[s].row) \in tuples
                       \/ req[s].kind # "grant" /\ users'[req[s].row].st = "gone"
  PROVE  RequestOK(s)'
  <1>1. Fits(s)' /\ DropOK(s)'
    BY DEF RequestOK, Fits, DropOK
  <1>n. /\ req[s].kind \in {"update", "revoke"} => req[s].row \in UserIds
        /\ Working(s) => req[s].row \in UserIds /\ req[s].tid \in Tenants
    BY NamedRows
  <1>2. ChangeOK(s)'
    BY <1>n DEF RequestOK, ChangeOK, IsUser, Aging
  <1>3. PromiseOK(s)'
    BY <1>n DEF RequestOK, PromiseOK, Working
  <1>4. EffectOK(s)'
    <2> SUFFICES ASSUME Bound(s)', NEW role \in Ranks PROVE Settled(s, role)' \/ Owed(s, role)'
      BY DEF EffectOK
    <2>1. /\ Working(s) /\ users'[req[s].row] = users[req[s].row] /\ Bound(s)
          /\ Rank(req[s].tid, role, req[s].row) \in tuples' <=> Rank(req[s].tid, role, req[s].row) \in tuples
      BY DEF Bound, Working, IsUser, Changers
    <2>2. Settled(s, role) \/ Owed(s, role)
      BY <2>1 DEF RequestOK, EffectOK
    <2>3. Owed(s, role)' <=> Owed(s, role)
      BY DEF Owed
    <2>4. Settled(s, role)' <=> Settled(s, role)
      BY <2>1 DEF Settled
    <2> QED BY <2>2, <2>3, <2>4
  <1> QED BY <1>1, <1>2, <1>3, <1>4, Zenon DEF RequestOK

\* The same, if nobody touches the user's tuples at all.
LEMMA Bystander ==
  ASSUME Typed, Grants, NEW s \in Reqs, req'[s] = req[s], RequestOK(s), Aging,
         Working(s) => \/ users'[req[s].row] = users[req[s].row] /\ SameRanks(req[s].row)
                       \/ req[s].kind # "grant" /\ users'[req[s].row].st = "gone"
  PROVE  RequestOK(s)'
  BY NamedRows, Unmoved DEF SameRanks

\* So does a user who is left alone.
LEMMA UserKept ==
  ASSUME Typed, NEW u \in UserIds, UserOK(u), users'[u] = users[u], SameRanks(u), Changing(u) => Changing(u)'
  PROVE  UserOK(u)'
  <1>1. IsUser(u) => users[u].tenant \in Tenants
    BY DEF Typed, Housed, Lives, IsUser
  <1> QED BY <1>1 DEF UserOK, SameRanks, IsUser

\* And rows stay apart if nobody begins to work.
LEMMA ApartKept ==
  ASSUME Apart, \A s \in Reqs : Working(s)' => Working(s) /\ req'[s].row = req[s].row
  PROVE  Apart'
  BY DEF Apart

-----------------------------------------------------------------------------
(* Steps of requests that work on no row.                                  *)

\* A tuple that names no role of a tenant is written or deleted.
LEMMA OtherTuple ==
  ASSUME NEW x, x.rel \notin Ranks \/ x.obj = Sys, tuples' \in {tuples, tuples \cup {x}, tuples \ {x}}
  PROVE  \A u \in UserIds : SameRanks(u)
  BY RanksAre DEF SameRanks

\* Nobody else moves, and the request neither begins nor ends work on a row.
LEMMA Aside ==
  ASSUME Typed, Grants, Tracked, NEW r \in Reqs, \A s \in Reqs : s # r => req'[s] = req[s],
         UNCHANGED users, \A u \in UserIds : SameRanks(u), ~Working(r), ~Working(r)', RequestOK(r)'
  PROVE  Tracked'
  <1>0. Aging
    BY DEF Aging
  <1>w. \A s \in Reqs : s # r => (Working(s)' <=> Working(s))
    BY DEF Working
  <1>1. ASSUME NEW s \in Reqs PROVE RequestOK(s)'
    <2>1. CASE s = r
      BY <2>1
    <2>2. CASE s # r
      <3>1. Working(s) => SameRanks(req[s].row)
        BY NamedRows
      <3>2. RequestOK(s) /\ req'[s] = req[s]
        BY <2>2 DEF Tracked
      <3> QED BY <1>0, <3>1, <3>2, Bystander
    <2> QED BY <2>1, <2>2
  <1>2. ASSUME NEW u \in UserIds PROVE UserOK(u)'
    <2>1. Changing(u) => Changing(u)'
      BY <1>w DEF Changing
    <2>2. UserOK(u)
      BY DEF Tracked
    <2> QED BY <2>1, <2>2, UserKept
  <1>3. Apart'
    BY <1>w, ApartKept DEF Tracked
  <1> QED BY <1>1, <1>2, <1>3 DEF Tracked

\* A request that is answered.
LEMMA Answered1 ==
  ASSUME Typed, NEW r \in Reqs, Finish(r)
  PROVE  /\ RequestOK(r)' /\ ~Working(r)' /\ req'[r] = Done
         /\ \A s \in Reqs : s # r => req'[s] = req[s]
  <1>1. req'[r] = Done /\ \A s \in Reqs : s # r => req'[s] = req[s]
    BY DEF Typed, ReqsOK, Finish
  <1>2. Done.kind = "none" /\ Done.todo = <<>>
    BY Blank
  <1>3. Ops(req'[r].todo) = {} /\ req'[r].kind = "none"
    BY <1>1, <1>2, OpsOf
  <1>4. ~Working(r)' /\ ~Bound(r)'
    BY <1>3 DEF Working, Bound, Changers
  <1>5. RequestOK(r)'
    BY <1>3, <1>4 DEF RequestOK, Fits, ChangeOK, PromiseOK, EffectOK, DropOK, Working, Changers
  <1> QED BY <1>1, <1>4, <1>5

\* The request becomes one of the same kind, tenant and role.
Goes(r, pc, row, todo, gone) ==
    /\ req'[r].kind = req[r].kind /\ req'[r].tid = req[r].tid /\ req'[r].role = req[r].role
    /\ req'[r].pc = pc /\ req'[r].row = row /\ req'[r].todo = todo /\ req'[r].gone = gone
    /\ \A s \in Reqs : s # r => req'[s] = req[s]

\* One that goes on with what it has.
LEMMA Onward ==
  ASSUME Typed, Grants, NEW r \in Reqs, RequestOK(r), UNCHANGED users, ~Working(r)', DropOK(r)',
         NEW pc, NEW gone, Goes(r, pc, req[r].row, req[r].todo, gone)
  PROVE  RequestOK(r)'
  <1>1. Fits(r)'
    BY DEF RequestOK, Fits, OpFits, Goes
  <1>2. ChangeOK(r)' /\ PromiseOK(r)' /\ EffectOK(r)'
    BY DEF RequestOK, ChangeOK, PromiseOK, EffectOK, Bound, IsUser, Goes
  <1> QED BY <1>1, <1>2 DEF RequestOK

\* So it goes when some of its fields change.
LEMMA FieldsKept ==
  ASSUME Typed, NEW r \in Reqs
  PROVE  /\ \A pc : GoTo(r, pc) => Goes(r, pc, req[r].row, req[r].todo, req[r].gone)
         /\ \A todo : req' = [req EXCEPT ![r].todo = todo] => Goes(r, req[r].pc, req[r].row, todo, req[r].gone)
         /\ \A pc, todo : req' = [req EXCEPT ![r].pc = pc, ![r].todo = todo] => Goes(r, pc, req[r].row, todo, req[r].gone)
         /\ \A pc, row, todo : req' = [req EXCEPT ![r].pc = pc, ![r].row = row, ![r].todo = todo] => Goes(r, pc, row, todo, req[r].gone)
         /\ \A pc, gone, ks : req' = [req EXCEPT ![r].pc = pc, ![r].gone = gone, ![r].ks = ks] => Goes(r, pc, req[r].row, req[r].todo, gone)
         /\ \A pc, kid : req' = [req EXCEPT ![r].pc = pc, ![r].kid = kid] => Goes(r, pc, req[r].row, req[r].todo, req[r].gone)
  <1>1. req \in [Reqs -> Request] /\ req[r] \in Request
    BY DEF Typed, ReqsOK
  <1>2. ASSUME NEW pc, GoTo(r, pc) PROVE Goes(r, pc, req[r].row, req[r].todo, req[r].gone)
    <2> DEFINE q == [req[r] EXCEPT !.pc = pc]
    <2>1. /\ q.kind = req[r].kind /\ q.tid = req[r].tid /\ q.role = req[r].role
          /\ q.pc = pc /\ q.row = req[r].row /\ q.todo = req[r].todo /\ q.gone = req[r].gone
      BY <1>1 DEF Request
    <2>2. req' = [req EXCEPT ![r] = q]
      BY <1>2 DEF GoTo
    <2> HIDE DEF q
    <2> QED BY <1>1, <2>1, <2>2 DEF Goes
  <1>3. ASSUME NEW todo, req' = [req EXCEPT ![r].todo = todo] PROVE Goes(r, req[r].pc, req[r].row, todo, req[r].gone)
    <2> DEFINE q == [req[r] EXCEPT !.todo = todo]
    <2>1. /\ q.kind = req[r].kind /\ q.tid = req[r].tid /\ q.role = req[r].role
          /\ q.pc = req[r].pc /\ q.row = req[r].row /\ q.todo = todo /\ q.gone = req[r].gone
      BY <1>1 DEF Request
    <2>2. req' = [req EXCEPT ![r] = q]
      BY <1>3 DEF GoTo
    <2> HIDE DEF q
    <2> QED BY <1>1, <2>1, <2>2 DEF Goes
  <1>4. ASSUME NEW pc, NEW todo, req' = [req EXCEPT ![r].pc = pc, ![r].todo = todo] PROVE Goes(r, pc, req[r].row, todo, req[r].gone)
    <2> DEFINE q == [req[r] EXCEPT !.pc = pc, !.todo = todo]
    <2>1. /\ q.kind = req[r].kind /\ q.tid = req[r].tid /\ q.role = req[r].role
          /\ q.pc = pc /\ q.row = req[r].row /\ q.todo = todo /\ q.gone = req[r].gone
      BY <1>1 DEF Request
    <2>2. req' = [req EXCEPT ![r] = q]
      BY <1>4 DEF GoTo
    <2> HIDE DEF q
    <2> QED BY <1>1, <2>1, <2>2 DEF Goes
  <1>5. ASSUME NEW pc, NEW row, NEW todo, req' = [req EXCEPT ![r].pc = pc, ![r].row = row, ![r].todo = todo] PROVE Goes(r, pc, row, todo, req[r].gone)
    <2> DEFINE q == [req[r] EXCEPT !.pc = pc, !.row = row, !.todo = todo]
    <2>1. /\ q.kind = req[r].kind /\ q.tid = req[r].tid /\ q.role = req[r].role
          /\ q.pc = pc /\ q.row = row /\ q.todo = todo /\ q.gone = req[r].gone
      BY <1>1 DEF Request
    <2>2. req' = [req EXCEPT ![r] = q]
      BY <1>5 DEF GoTo
    <2> HIDE DEF q
    <2> QED BY <1>1, <2>1, <2>2 DEF Goes
  <1>6. ASSUME NEW pc, NEW gone, NEW ks, req' = [req EXCEPT ![r].pc = pc, ![r].gone = gone, ![r].ks = ks] PROVE Goes(r, pc, req[r].row, req[r].todo, gone)
    <2> DEFINE q == [req[r] EXCEPT !.pc = pc, !.gone = gone, !.ks = ks]
    <2>1. /\ q.kind = req[r].kind /\ q.tid = req[r].tid /\ q.role = req[r].role
          /\ q.pc = pc /\ q.row = req[r].row /\ q.todo = req[r].todo /\ q.gone = gone
      BY <1>1 DEF Request
    <2>2. req' = [req EXCEPT ![r] = q]
      BY <1>6 DEF GoTo
    <2> HIDE DEF q
    <2> QED BY <1>1, <2>1, <2>2 DEF Goes
  <1>7. ASSUME NEW pc, NEW kid, req' = [req EXCEPT ![r].pc = pc, ![r].kid = kid] PROVE Goes(r, pc, req[r].row, req[r].todo, req[r].gone)
    <2> DEFINE q == [req[r] EXCEPT !.pc = pc, !.kid = kid]
    <2>1. /\ q.kind = req[r].kind /\ q.tid = req[r].tid /\ q.role = req[r].role
          /\ q.pc = pc /\ q.row = req[r].row /\ q.todo = req[r].todo /\ q.gone = req[r].gone
      BY <1>1 DEF Request
    <2>2. req' = [req EXCEPT ![r] = q]
      BY <1>7 DEF GoTo
    <2> HIDE DEF q
    <2> QED BY <1>1, <2>1, <2>2 DEF Goes
  <1> QED BY <1>2, <1>3, <1>4, <1>5, <1>6, <1>7, Zenon

\* A request that comes means a user there is, and names no role in a tuple.
LEMMA Opening ==
  ASSUME Typed, NEW r \in Reqs, Arrive(r)
  PROVE  /\ req'[r].kind \in {"update", "revoke"} => IsUser(req'[r].row) /\ users[req'[r].row].tenant = req'[r].tid
         /\ \A op \in Ops(req'[r].todo) : op.tup.rel \notin Ranks
  <1> DEFINE Plain(q) == q.todo = <<>> /\ q.kind \notin {"update", "revoke"}
  <1>1. \A q : Start(r, q) => req'[r] = q
    BY DEF Start, Typed, ReqsOK
  <1>2. \A q : Start(r, q) /\ Plain(q) => Plain(req'[r])
    BY <1>1
  <1>3. ASSUME Plain(req'[r])
        PROVE  /\ req'[r].kind \notin {"update", "revoke"}
               /\ \A op \in Ops(req'[r].todo) : op.tup.rel \notin Ranks
    <2>1. Ops(req'[r].todo) = {}
      BY <1>3, OpsOf
    <2> QED BY <1>3, <2>1
  <1>4. \A t, e, role, type : Plain([Idle EXCEPT !.kind = "grant", !.pc = "begin", !.tid = t,
                                       !.email = e, !.role = role, !.type = type])
    BY DEF Idle
  <1>5. \A e, type : /\ Plain([Idle EXCEPT !.kind = "create", !.pc = "insert", !.email = e, !.type = type])
                     /\ Plain([Idle EXCEPT !.kind = "provision", !.pc = "insert", !.email = e, !.type = type])
    BY DEF Idle
  <1>6. \A t, type : /\ Plain([Idle EXCEPT !.kind = "retype", !.pc = "save", !.tid = t, !.type = type])
                     /\ Plain([Idle EXCEPT !.kind = "drop", !.pc = "begin", !.tid = t])
    BY DEF Idle
  <1>7. \A t, s, k, g : /\ Plain([Idle EXCEPT !.kind = "key", !.pc = "insert", !.tid = t, !.subj = s])
                        /\ Plain([Idle EXCEPT !.kind = "delkey", !.pc = "delete", !.kid = k])
                        /\ Plain([Idle EXCEPT !.kind = "rotate", !.pc = "begin", !.kid = k, !.grace = g,
                                    !.tid = t, !.subj = s])
    BY DEF Idle
  <1>8. \A e : Plain([Idle EXCEPT !.kind = "bootstrap", !.pc = "lock", !.email = e])
    BY DEF Idle
  <1>9. Plain(Done)
    BY Blank DEF Done, Idle
  <1> HIDE DEF Plain
  <1>10. CASE GrantRead(r) \/ CreateRead(r) \/ ProvisionRead(r) \/ UpdateTenantRead(r) \/ DeleteTenantRead(r)
              \/ CreateKeyRead(r) \/ RotateRead(r) \/ DeleteKeyRead(r) \/ BootstrapStart(r)
    <2>1. CASE GrantRead(r)
      BY <2>1, <1>2, <1>3, <1>4, Zenon DEF GrantRead
    <2>2. CASE CreateRead(r) \/ ProvisionRead(r)
      BY <2>2, <1>2, <1>3, <1>5, Zenon DEF CreateRead, ProvisionRead
    <2>3. CASE UpdateTenantRead(r) \/ DeleteTenantRead(r)
      BY <2>3, <1>2, <1>3, <1>6, Zenon DEF UpdateTenantRead, DeleteTenantRead
    <2>4. CASE CreateKeyRead(r) \/ RotateRead(r) \/ DeleteKeyRead(r)
      BY <2>4, <1>2, <1>3, <1>7, Zenon DEF CreateKeyRead, RotateRead, DeleteKeyRead
    <2>5. CASE BootstrapStart(r)
      BY <2>5, <1>2, <1>3, <1>8, Zenon DEF BootstrapStart
    <2> QED BY <1>10, <2>1, <2>2, <2>3, <2>4, <2>5
  <1>11. CASE RevokeAPIKey(r)
    <2>1. req'[r] = Done
      BY <1>11, Answered1 DEF RevokeAPIKey
    <2> QED BY <2>1, <1>3, <1>9
  <1>12. ASSUME NEW kind \in {"update", "revoke"}, UserRead(r, kind)
         PROVE  /\ IsUser(req'[r].row) /\ users[req'[r].row].tenant = req'[r].tid
                /\ \A op \in Ops(req'[r].todo) : op.tup.rel \notin Ranks
    <2>1. PICK u \in UserIds, role \in Roles :
            /\ IsUser(u)
            /\ Start(r, [Idle EXCEPT !.kind = kind, !.pc = "begin", !.row = u,
                          !.tid = users[u].tenant, !.role = role])
      BY <1>12, Zenon DEF UserRead, AdminAsked
    <2> DEFINE q == [Idle EXCEPT !.kind = kind, !.pc = "begin", !.row = u, !.tid = users[u].tenant, !.role = role]
    <2>a. q.row = u /\ q.tid = users[u].tenant /\ q.todo = <<>>
      BY DEF Idle
    <2>b. Start(r, q)
      BY <2>1
    <2> HIDE DEF q
    <2>2. req'[r].row = u /\ req'[r].tid = users[u].tenant /\ req'[r].todo = <<>>
      BY <1>1, <2>a, <2>b
    <2> QED BY <2>1, <2>2, OpsOf
  <1>13. ASSUME NEW kind \in {"share", "unshare"}, NEW o, NEW rel,
                \/ o \in Tenants /\ rel \in {"viewer", "member", "manager"}
                \/ o \in Docs /\ rel \in {"viewer", "editor"},
                AclStart(r, kind, o, rel)
         PROVE  /\ req'[r].kind \notin {"update", "revoke"}
                /\ \A op \in Ops(req'[r].todo) : op.tup.rel \notin Ranks
    <2>1. PICK u \in UserIds :
            Start(r, [Idle EXCEPT !.kind = kind, !.pc = "acl",
                 !.todo = << [add |-> kind = "share", tup |-> Tup(o, rel, User(u))] >>])
      BY <1>13, Zenon DEF AclStart
    <2> DEFINE op == [add |-> kind = "share", tup |-> Tup(o, rel, User(u))]
    <2>2. op \in Op
      BY <1>13, TuplesAre, OpsAre DEF AllRoles
    <2>3. op.tup.rel = rel /\ rel \notin Ranks
      BY <1>13 DEF Tup, Ranks
    <2> HIDE DEF op
    <2>4. Start(r, [Idle EXCEPT !.kind = kind, !.pc = "acl", !.todo = << op >>])
      BY <2>1 DEF op
    <2>5. req'[r].kind = kind /\ req'[r].todo = << op >>
      BY <1>1, <2>4 DEF Idle
    <2>6. Ops(req'[r].todo) = {op}
      BY <2>2, <2>5, OpsOf
    <2> QED BY <2>3, <2>5, <2>6
  <1>14. CASE GrantTenantAccess(r) \/ RevokeTenantAccess(r) \/ DocumentAccess(r)
    <2>1. docs \subseteq Docs
      BY DEF Typed, RowsOK
    <2> QED BY <1>13, <1>14, <2>1 DEF GrantTenantAccess, RevokeTenantAccess, DocumentAccess
  <1> QED BY <1>10, <1>11, <1>12, <1>14 DEF Arrive

\* A request that comes leaves rows and tuples as they are.
LEMMA ArriveTracked == ASSUME Typed, Grants, Tracked, NEW r \in Reqs, Arrive(r) PROVE Tracked'
  <1>1. Comes(r)
    BY Arrives
  <1>2. PICK q \in Request : Fresh(q) /\ req' = [req EXCEPT ![r] = q]
    BY <1>1 DEF Comes
  <1>3. req'[r] = q /\ \A s \in Reqs : s # r => req'[s] = req[s]
    BY <1>2 DEF Typed, ReqsOK
  <1>4. UNCHANGED <<users, tuples>> /\ req[r].pc = "idle"
    BY <1>1 DEF Comes
  <1>5. ~Working(r) /\ ~Working(r)' /\ ~Bound(r)' /\ req'[r].pc \notin {"tuples", "sync", "pruned"}
    BY <1>2, <1>3, <1>4, Zenon DEF Working, Bound, Fresh
  <1>6. Fits(r)' /\ ChangeOK(r)'
    BY <1>4, Opening DEF Fits, OpFits, ChangeOK, IsUser
  <1>7. RequestOK(r)'
    BY <1>5, <1>6 DEF RequestOK, PromiseOK, EffectOK, DropOK
  <1>8. \A u \in UserIds : SameRanks(u)
    BY <1>4 DEF SameRanks
  <1> QED BY <1>3, <1>4, <1>5, <1>7, <1>8, Aside

\* Requests that are answered without having worked on a row.
LEMMA EndsAside ==
  ASSUME Typed, Grants, Tracked, NEW r \in Reqs, Finish(r), UNCHANGED users, ~Working(r), \A u \in UserIds : SameRanks(u)
  PROVE  Tracked'
  BY Answered1, Aside

\* Errors before any row is written, or of requests that write none.
LEMMA ErrorsAside ==
  ASSUME Typed, Grants, Tracked, NEW r \in Reqs,
         \/ GrantError(r) \/ CreateRefused(r) \/ DropError(r) \/ InsertKeyRefused(r) \/ RotateGone(r)
         \/ RotateRevoked(r) \/ BootstrapRefused(r)
  PROVE  Tracked'
  <1>1. Abandon(r) /\ ~Working(r) /\ (req[r].kind = "grant" => req[r].pc = "write")
    BY DEF GrantError, CreateRefused, DropError, InsertKeyRefused, RotateGone, RotateRevoked, BootstrapRefused,
      Runs, At, Working, Changers
  <1>2. req[r].kind = "grant" => req[r].row = 0
    BY <1>1 DEF Grants
  <1>3. Finish(r) /\ UNCHANGED <<users, tuples>>
    BY <1>1, <1>2 DEF Abandon
  <1>4. \A u \in UserIds : SameRanks(u)
    BY <1>3 DEF SameRanks
  <1> QED BY <1>1, <1>3, <1>4, EndsAside

\* Answers of requests about keys, tenants' types and access.
LEMMA AnswersAside ==
  ASSUME Typed, Grants, Tracked, NEW r \in Reqs,
         AclWrite(r) \/ SaveTenant(r) \/ SeedKeyTuple(r) \/ DeleteKey(r) \/ RotateRetire(r)
  PROVE  Tracked'
  <1>1. Finish(r) /\ UNCHANGED users /\ ~Working(r)
    BY DEF AclWrite, SaveTenant, SeedKeyTuple, DeleteKey, RotateRetire, rows, Runs, At, Working, Changers
  <1>2. CASE SaveTenant(r) \/ DeleteKey(r) \/ RotateRetire(r)
    <2>1. \A u \in UserIds : SameRanks(u)
      BY <1>2 DEF SaveTenant, DeleteKey, RotateRetire, SameRanks
    <2> QED BY <1>1, <2>1, EndsAside
  <1>3. CASE SeedKeyTuple(r)
    <2> DEFINE x == TenantMember(req[r].tid, IF req[r].subj = None THEN Svc(req[r].tid) ELSE req[r].subj)
    <2>1. x.rel \notin Ranks
      BY DEF TenantMember, Tup, Ranks
    <2>2. tuples' = tuples \cup {x}
      BY <1>3 DEF SeedKeyTuple
    <2> HIDE DEF x
    <2>3. \A u \in UserIds : SameRanks(u)
      BY <2>1, <2>2, OtherTuple
    <2> QED BY <1>1, <2>3, EndsAside
  <1>4. CASE AclWrite(r)
    <2>1. req[r].kind \in {"share", "unshare"} /\ req[r].todo # <<>> /\ req[r].todo \in Seq(Op)
      BY <1>4, NamedRows DEF AclWrite, Runs, At, Typed, ReqsOK, Named
    <2> DEFINE op == Head(req[r].todo)
    <2>2. op \in Ops(req[r].todo)
      BY <2>1, OpsOf
    <2>3. op.tup.rel \notin Ranks \/ op.tup.obj = Sys
      BY <2>1, <2>2 DEF Tracked, RequestOK, Fits, OpFits, Changers
    <2>4. tuples' \in {tuples \cup {op.tup}, tuples \ {op.tup}}
      BY <1>4 DEF AclWrite
    <2> HIDE DEF op
    <2>5. \A u \in UserIds : SameRanks(u)
      BY <2>3, <2>4, OtherTuple
    <2> QED BY <1>1, <2>5, EndsAside
  <1> QED BY <1>2, <1>3, <1>4

\* Requests that begin their transaction, prune or insert a key.
LEMMA GoesAside ==
  ASSUME Typed, Grants, Tracked, NEW r \in Reqs, BeginTxn(r) \/ Prune(r) \/ InsertKey(r) \/ BootstrapCheck(r)
  PROVE  Tracked'
  <1>1. UNCHANGED <<users, tuples>> /\ ~Working(r)
    BY DEF BeginTxn, Prune, InsertKey, BootstrapCheck, rows, Runs, At, Working, Changers
  <1>2. \A u \in UserIds : SameRanks(u)
    BY <1>1 DEF SameRanks
  <1>3. RequestOK(r)
    BY DEF Tracked
  <1>4. ASSUME NEW pc \in {"write", "pruned", "seed", "found"}, NEW gone, Goes(r, pc, req[r].row, req[r].todo, gone), DropOK(r)'
        PROVE  Tracked'
    <2>1. ~Working(r)' /\ \A s \in Reqs : s # r => req'[s] = req[s]
      BY <1>4 DEF Goes, Working
    <2>2. RequestOK(r)'
      BY <1>1, <1>3, <1>4, <2>1, Onward
    <2> QED BY <1>1, <1>2, <2>1, <2>2, Aside
  <1>5. CASE BeginTxn(r) \/ InsertKey(r) \/ BootstrapCheck(r)
    <2>1. CASE Finish(r)
      BY <2>1, <1>1, <1>2, EndsAside
    <2>2. CASE ~Finish(r)
      <3>1. \E pc \in {"write", "seed", "found"} : Goes(r, pc, req[r].row, req[r].todo, req[r].gone)
        <4>1. CASE BeginTxn(r)
          BY <4>1, FieldsKept, Zenon DEF BeginTxn
        <4>2. CASE InsertKey(r)
          <5>1. PICK k \in KeyIds : req' = [req EXCEPT ![r].pc = "seed", ![r].kid = k]
            BY <4>2, Zenon DEF InsertKey
          <5> QED BY <5>1, FieldsKept, Zenon
        <4>3. CASE BootstrapCheck(r)
          <5>1. GoTo(r, "found")
            BY <4>3, <2>2, Zenon DEF BootstrapCheck
          <5> QED BY <5>1, FieldsKept, Zenon
        <4> QED BY <1>5, <4>1, <4>2, <4>3
      <3>2. DropOK(r)'
        BY <3>1 DEF Goes, DropOK
      <3> QED BY <1>4, <3>1, <3>2
    <2> QED BY <2>1, <2>2
  <1>6. CASE Prune(r)
    <2>1. Goes(r, "pruned", req[r].row, req[r].todo, TenantTuples(req[r].tid))
      BY <1>6, FieldsKept, Zenon DEF Prune
    <2>2. docs \subseteq Docs
      BY DEF Typed, RowsOK
    <2>3. DropOK(r)'
      BY <2>1, <2>2 DEF Goes, DropOK, TenantTuples
    <2> QED BY <1>4, <2>1, <2>3
  <1> QED BY <1>5, <1>6

\* A rotation, and the tuple it writes.
LEMMA RotatesAside ==
  ASSUME Typed, Grants, Tracked, NEW r \in Reqs, RotateMint(r) \/ (TxnTuple(r) /\ ~Working(r))
  PROVE  Tracked'
  <1>u. UNCHANGED users /\ ~Working(r)
    <2>1. RotateMint(r) => UNCHANGED users /\ req[r].kind = "rotate"
      BY Zenon DEF RotateMint, Runs, At
    <2>2. TxnTuple(r) => UNCHANGED users
      BY DEF TxnTuple, rows
    <2> QED BY <2>1, <2>2 DEF Working, Changers
  <1>1. CASE RotateMint(r)
    <2> DEFINE x == TenantMember(req[r].tid, IF req[r].subj = None THEN Svc(req[r].tid) ELSE req[r].subj)
    <2>1. PICK k \in KeyIds : req' = [req EXCEPT ![r].pc = "tuples", ![r].row = k, ![r].todo = << Write(x) >>]
      BY <1>1, Zenon DEF RotateMint
    <2>a. req[r].kind = "rotate" /\ UNCHANGED tuples
      BY <1>1, Zenon DEF RotateMint, Runs, At
    <2>2. req[r].kind = "rotate" /\ req[r].tid \in Tenants /\ UNCHANGED tuples
      BY <2>a DEF Typed, ReqsOK, Named
    <2>3. x \in Tuple /\ x.rel \notin Ranks
      <3>1. req[r].subj \in Subjects \cup {None}
        BY NamedRows DEF Request
      <3>2. x \in Tuple
        BY <2>2, <3>1, TuplesAre
      <3>3. x.rel \notin Ranks
        BY DEF TenantMember, Tup, Ranks
      <3> QED BY <3>2, <3>3
    <2> HIDE DEF x
    <2>4. Write(x) \in Op /\ Write(x).tup = x
      BY <2>3, OpsAre DEF Write
    <2>5. Goes(r, "tuples", k, << Write(x) >>, req[r].gone)
      BY <2>1, FieldsKept, Zenon
    <2>6. Ops(req'[r].todo) = {Write(x)}
      BY <2>4, <2>5, OpsOf DEF Goes
    <2>7. req'[r].kind = "rotate" /\ \A s \in Reqs : s # r => req'[s] = req[s]
      BY <2>2, <2>5 DEF Goes
    <2>8. Fits(r)'
      BY <2>3, <2>4, <2>6 DEF Fits, OpFits
    <2>9. ~Working(r)' /\ RequestOK(r)'
      BY <2>7, <2>8 DEF RequestOK, ChangeOK, PromiseOK, EffectOK, DropOK, Bound, Working, Changers
    <2>10. \A u \in UserIds : SameRanks(u)
      BY <2>2 DEF SameRanks
    <2> QED BY <1>u, <2>7, <2>9, <2>10, Aside
  <1>2. CASE TxnTuple(r) /\ ~Working(r)
    <2>1. req[r].todo \in Seq(Op) /\ req[r].todo # <<>> /\ req[r].pc \in {"tuples", "sync"} /\ req[r].kind \notin Changers
      BY <1>2, NamedRows DEF TxnTuple, Working
    <2> DEFINE op == Head(req[r].todo)
    <2>2. op \in Ops(req[r].todo) /\ Ops(Tail(req[r].todo)) \subseteq Ops(req[r].todo)
      BY <2>1, OpsOf
    <2>3. op.tup.rel \notin Ranks \/ op.tup.obj = Sys
      BY <2>1, <2>2 DEF Tracked, RequestOK, Fits, OpFits
    <2>4. tuples' \in {tuples \cup {op.tup}, tuples \ {op.tup}}
      BY <1>2 DEF TxnTuple
    <2>5. Goes(r, req[r].pc, req[r].row, Tail(req[r].todo), req[r].gone)
      <3>1. req' = [req EXCEPT ![r].todo = Tail(req[r].todo)]
        BY <1>2, Zenon DEF TxnTuple
      <3> QED BY <3>1, FieldsKept, Zenon
    <2> HIDE DEF op
    <2>6. \A u \in UserIds : SameRanks(u)
      BY <2>3, <2>4, OtherTuple
    <2>7. Fits(r)'
      BY <2>2, <2>5 DEF Goes, Tracked, RequestOK, Fits, OpFits
    <2>8. req'[r].kind = req[r].kind /\ req'[r].pc = req[r].pc /\ \A s \in Reqs : s # r => req'[s] = req[s]
      BY <2>5 DEF Goes
    <2>9. ~Working(r)' /\ RequestOK(r)'
      BY <2>1, <2>7, <2>8 DEF RequestOK, ChangeOK, PromiseOK, EffectOK, DropOK, Bound, Working, Changers
    <2> QED BY <1>u, <2>6, <2>8, <2>9, Aside
  <1> QED BY <1>1, <1>2

-----------------------------------------------------------------------------
(* Steps of requests that work on a row.                                   *)

\* What is working has a row, which is no unused one.
LEMMA WorkedRow ==
  ASSUME Typed, Grants, Tracked, NEW r \in Reqs, Working(r)
  PROVE  /\ req[r].row \in UserIds /\ req[r].tid \in Tenants /\ users[req[r].row].st # "unused"
         /\ req[r].kind = "grant" <=> users[req[r].row].st = "pending"
  <1>1. req[r].row \in UserIds /\ req[r].tid \in Tenants
    BY NamedRows
  <1>2. req[r].kind = "grant" => users[req[r].row].st = "pending"
    BY DEF Working, Grants
  <1>3. req[r].kind # "grant" => users[req[r].row].st \in {"row", "gone"}
    BY DEF Working, Changers, Tracked, RequestOK, ChangeOK
  <1> QED BY <1>1, <1>2, <1>3

\* It works on: the tuples of nobody else's roles change.
LEMMA WorksOn ==
  ASSUME Typed, Grants, Tracked, NEW r \in Reqs, Working(r), Working(r)', UNCHANGED users,
         NEW todo, Goes(r, req'[r].pc, req[r].row, todo, req[r].gone),
         \A u \in UserIds : u # req[r].row => SameRanks(u), RequestOK(r)'
  PROVE  Tracked'
  <1>0. /\ \A s \in Reqs : s # r => req'[s] = req[s]
        /\ req'[r].row = req[r].row /\ req'[r].kind = req[r].kind
    BY DEF Goes
  <1>w. \A s \in Reqs : Working(s)' <=> Working(s)
    BY <1>0 DEF Working
  <1>a. Aging
    BY DEF Aging
  <1>r. req[r].row \in UserIds /\ users[req[r].row].st # "unused" /\ (req[r].kind = "grant" <=> users[req[r].row].st = "pending")
    BY WorkedRow
  <1>1. ASSUME NEW s \in Reqs, s # r PROVE RequestOK(s)'
    <2>1. Working(s) => SameRanks(req[s].row)
      BY <1>1, WorkedRow DEF Tracked, Apart
    <2>2. RequestOK(s) /\ req'[s] = req[s]
      BY <1>0, <1>1 DEF Tracked
    <2> QED BY <1>a, <2>1, <2>2, Bystander
  <1>2. ASSUME NEW u \in UserIds PROVE UserOK(u)'
    <2>0. Changing(u) => Changing(u)'
      BY <1>0, <1>w DEF Changing
    <2>1. CASE u = req[r].row
      <3>1. req[r].kind # "grant" => Changing(u)'
        BY <1>0, <1>w, <2>1 DEF Changing
      <3> QED BY <1>r, <2>1, <3>1 DEF UserOK, IsUser
    <2>2. CASE u # req[r].row
      BY <2>0, <2>2, UserKept DEF Tracked
    <2> QED BY <2>1, <2>2
  <1>3. Apart'
    BY <1>0, <1>w, ApartKept DEF Tracked
  <1> QED BY <1>1, <1>2, <1>3 DEF Tracked

\* It writes or deletes a tuple.
LEMMA TupleTracked ==
  ASSUME Typed, Grants, Tracked, NEW r \in Reqs, Working(r), TxnTuple(r)
  PROVE  Tracked'
  <1>1. req[r].todo \in Seq(Op) /\ req[r].todo # <<>> /\ UNCHANGED users
    BY NamedRows DEF TxnTuple, rows
  <1> DEFINE op == Head(req[r].todo)
  <1>2. Ops(req[r].todo) = {op} \cup Ops(Tail(req[r].todo))
    BY <1>1, OpsOf
  <1>3. tuples' = IF op.add THEN tuples \cup {op.tup} ELSE tuples \ {op.tup}
    BY DEF TxnTuple
  <1>4. Goes(r, req[r].pc, req[r].row, Tail(req[r].todo), req[r].gone)
    <2>1. req' = [req EXCEPT ![r].todo = Tail(req[r].todo)]
      BY Zenon DEF TxnTuple
    <2> QED BY <2>1, FieldsKept, Zenon
  <1> HIDE DEF op
  <1>5. OpFits(req[r], op)
    BY <1>2 DEF Tracked, RequestOK, Fits
  <1>r. req[r].row \in UserIds /\ req[r].tid \in Tenants /\ users[req[r].row].st # "unused"
    BY WorkedRow
  <1>6. ASSUME NEW t \in Tenants, NEW role \in Ranks, NEW u, op.tup = Rank(t, role, u)
        PROVE  t = req[r].tid /\ u = req[r].row /\ (req[r].kind # "revoke" => (op.add <=> role = req[r].role))
    <2>1. op.tup.rel = role /\ op.tup.obj # Sys
      BY <1>6, RanksAre
    <2>2. op.tup = Rank(req[r].tid, role, req[r].row) /\ (req[r].kind # "revoke" => (op.add <=> role = req[r].role))
      BY <1>5, <2>1 DEF OpFits
    <2>3. Rank(t, role, u) = Rank(req[r].tid, role, req[r].row)
      BY <1>6, <2>2
    <2>4. t = req[r].tid /\ u = req[r].row
      BY <2>3 DEF Rank, Tup, User
    <2> QED BY <2>2, <2>4
  <1>7. \A x : x # op.tup => (x \in tuples' <=> x \in tuples)
    BY <1>3
  <1>8. \A u \in UserIds : u # req[r].row => SameRanks(u)
    BY <1>6, <1>7 DEF SameRanks
  <1>9. /\ req'[r].kind = req[r].kind /\ req'[r].tid = req[r].tid /\ req'[r].role = req[r].role /\ req'[r].row = req[r].row
        /\ req'[r].pc = req[r].pc /\ req'[r].todo = Tail(req[r].todo) /\ req'[r].gone = req[r].gone
    BY <1>4 DEF Goes
  <1>10. Fits(r)'
    BY <1>2, <1>9 DEF Tracked, RequestOK, Fits, OpFits
  <1>11. ChangeOK(r)' /\ PromiseOK(r)' /\ DropOK(r)'
    BY <1>1, <1>9 DEF Tracked, RequestOK, ChangeOK, PromiseOK, DropOK, IsUser, Working
  <1>12. EffectOK(r)'
    <2> SUFFICES ASSUME Bound(r)', NEW role \in Ranks PROVE Settled(r, role)' \/ Owed(r, role)'
      BY DEF EffectOK
    <2>1. Bound(r) /\ req[r].kind # "revoke"
      BY <1>1, <1>9 DEF Bound, Working, IsUser
    <2>2. Settled(r, role) \/ Owed(r, role)
      BY <2>1 DEF Tracked, RequestOK, EffectOK
    <2> DEFINE x == Rank(req[r].tid, role, req[r].row)
    <2>x. x = Rank(req[r].tid, role, req[r].row)
      OBVIOUS
    <2> HIDE DEF x
    <2>s. /\ Settled(r, role) <=> (x \in tuples <=> role = req[r].role)
          /\ Settled(r, role)' <=> (x \in tuples' <=> role = req[r].role)
      BY <1>9 DEF Settled, x
    <2>o. Owed(r, role)' <=> \E o \in Ops(Tail(req[r].todo)) : o.tup = x
      BY <1>9 DEF Owed, x
    <2>3. CASE op.tup = x
      <3>1. op.add <=> role = req[r].role
        BY <1>6, <1>r, <2>1, <2>3, <2>x
      <3> QED BY <1>3, <2>3, <2>s, <3>1
    <2>4. CASE op.tup # x
      <3>1. Owed(r, role) => Owed(r, role)'
        BY <1>2, <2>4, <2>o DEF Owed, x
      <3>2. Settled(r, role) => Settled(r, role)'
        BY <1>7, <2>4, <2>s
      <3> QED BY <2>2, <3>1, <3>2
    <2> QED BY <2>3, <2>4
  <1>13. RequestOK(r)'
    BY <1>10, <1>11, <1>12 DEF RequestOK
  <1>14. Working(r)'
    BY <1>9 DEF Working
  <1> QED BY <1>1, <1>4, <1>8, <1>9, <1>13, <1>14, WorksOn

\* It goes over to the service principal's tuple: its own tuples are all there.
LEMMA SyncTracked ==
  ASSUME Typed, Grants, Tracked, NEW r \in Reqs, SyncServicePrincipalAdmin(r)
  PROVE  Tracked'
  <1> DEFINE op == [add |-> CountAdmins(req[r]) # {}, tup |-> SystemAdmin(Svc(req[r].tid))]
  <1>1. /\ UNCHANGED <<users, tuples>> /\ Working(r) /\ req[r].todo = <<>>
        /\ req' = [req EXCEPT ![r].pc = "sync", ![r].todo = << op >>]
    <2>1. Runs(r, Changers, "tuples") /\ req[r].todo = <<>> /\ UNCHANGED <<rows, tuples>>
      BY Zenon DEF SyncServicePrincipalAdmin, Changers
    <2>2. req' = [req EXCEPT ![r].pc = "sync", ![r].todo = << op >>]
      BY Zenon DEF SyncServicePrincipalAdmin
    <2>3. UNCHANGED <<users, tuples>> /\ Working(r)
      BY <2>1 DEF rows, Working, Runs, At
    <2> QED BY <2>1, <2>2, <2>3
  <1>2. op \in Op /\ op.tup.obj = Sys
    <2>1. req[r].tid \in Tenants
      BY <1>1, WorkedRow
    <2>2. SystemAdmin(Svc(req[r].tid)) \in Tuple
      BY <2>1, TuplesAre
    <2> QED BY <2>2, OpsAre DEF SystemAdmin, Tup
  <1> HIDE DEF op
  <1>3. Goes(r, "sync", req[r].row, << op >>, req[r].gone)
    BY <1>1, FieldsKept, Zenon
  <1>4. /\ req'[r].kind = req[r].kind /\ req'[r].tid = req[r].tid /\ req'[r].role = req[r].role /\ req'[r].row = req[r].row
        /\ req'[r].pc = "sync" /\ req'[r].todo = << op >> /\ req'[r].gone = req[r].gone
    BY <1>3 DEF Goes
  <1>5. Ops(req'[r].todo) = {op} /\ Ops(req[r].todo) = {}
    BY <1>1, <1>2, <1>4, OpsOf
  <1>6. Fits(r)'
    BY <1>2, <1>5 DEF Fits, OpFits
  <1>7. ChangeOK(r)' /\ PromiseOK(r)' /\ DropOK(r)'
    BY <1>1, <1>4 DEF Tracked, RequestOK, ChangeOK, PromiseOK, DropOK, IsUser, Working
  <1>8. EffectOK(r)'
    <2> SUFFICES ASSUME Bound(r)', NEW role \in Ranks PROVE Settled(r, role)'
      BY DEF EffectOK
    <2>1. Bound(r)
      BY <1>1, <1>4 DEF Bound, Working, IsUser
    <2>2. Settled(r, role)
      BY <1>5, <2>1 DEF Tracked, RequestOK, EffectOK, Owed
    <2> QED BY <1>1, <1>4, <2>2 DEF Settled
  <1>9. RequestOK(r)' /\ Working(r)'
    BY <1>1, <1>4, <1>6, <1>7, <1>8 DEF RequestOK, Working
  <1>10. \A u \in UserIds : SameRanks(u)
    BY <1>1 DEF SameRanks
  <1> QED BY <1>1, <1>3, <1>4, <1>9, <1>10, WorksOn

\* The operations of two lists of one.
LEMMA PairOps ==
  ASSUME NEW a \in Op, NEW b \in Op
  PROVE  Ops(<< a >> \o << b >>) = {a, b} /\ Ops(<< a >> \o <<>>) = {a}
  <1> DEFINE sa == << a >>
             sb == << b >>
             se == <<>>
  <1>1. sa \in Seq(Op) /\ Ops(sa) = {a} /\ sb \in Seq(Op) /\ Ops(sb) = {b} /\ se \in Seq(Op) /\ Ops(se) = {}
    BY OpsOf, EmptySeq
  <1> HIDE DEF sa, sb, se
  <1>2. Ops(sa \o sb) = Ops(sa) \cup Ops(sb) /\ Ops(sa \o se) = Ops(sa) \cup Ops(se)
    BY <1>1, OpsOf
  <1>3. Ops(sa \o sb) = {a, b} /\ Ops(sa \o se) = {a}
    BY <1>1, <1>2
  <1> QED BY <1>3 DEF sa, sb, se

\* The operations of a grant, an update and a removal.
LEMMA GrantOps ==
  ASSUME NEW q \in Request, q.tid \in Tenants, NEW u \in UserIds
  PROVE  /\ \A op \in Ops(Todo(q, u)) : op.add /\ (op.tup.rel \notin Ranks \/ op.tup = Rank(q.tid, q.role, u))
         /\ q.role \in Ranks => \E op \in Ops(Todo(q, u)) : op.tup = Rank(q.tid, q.role, u)
  <1> DEFINE a == Write(TenantMember(q.tid, User(u)))
             b == Write(Rank(q.tid, q.role, u))
  <1>1. a \in Op /\ b \in Op
    BY TuplesAre, OpsAre DEF Request, Rank
  <1>2. a.add /\ b.add /\ a.tup.rel \notin Ranks /\ b.tup = Rank(q.tid, q.role, u)
    BY DEF Write, TenantMember, Tup, Ranks
  <1>3. Todo(q, u) = << a >> \o (IF q.role = "member" THEN <<>> ELSE << b >>)
    BY DEF Todo, Rank
  <1> HIDE DEF a, b
  <1>4. CASE q.role = "member"
    <2>1. Ops(Todo(q, u)) = {a}
      BY <1>1, <1>3, <1>4, PairOps
    <2> QED BY <1>2, <1>4, <2>1 DEF Ranks
  <1>5. CASE q.role # "member"
    <2>1. Ops(Todo(q, u)) = {a, b}
      BY <1>1, <1>3, <1>5, PairOps
    <2> QED BY <1>2, <2>1
  <1> QED BY <1>4, <1>5

\* An update writes or deletes the tuple of each role.
LEMMA UpdateOps ==
  ASSUME NEW q \in Request, q.tid \in Tenants, q.row \in UserIds
  PROVE  /\ \A op \in Ops(UpdateTodo(q)) : \E role \in Ranks :
              op.tup = Rank(q.tid, role, q.row) /\ (op.add <=> role = q.role)
         /\ \A role \in Ranks : \E op \in Ops(UpdateTodo(q)) : op.tup = Rank(q.tid, role, q.row)
  <1> DEFINE W(role) == IF q.role = role THEN << Write(Rank(q.tid, role, q.row)) >> ELSE <<>>
             D(role) == IF q.role # role THEN << Delete(Rank(q.tid, role, q.row)) >> ELSE <<>>
  <1>1. ASSUME NEW role \in Ranks
        PROVE  /\ W(role) \in Seq(Op) /\ D(role) \in Seq(Op)
               /\ \A op \in Ops(W(role)) \cup Ops(D(role)) : op.tup = Rank(q.tid, role, q.row) /\ (op.add <=> role = q.role)
               /\ \E op \in Ops(W(role)) \cup Ops(D(role)) : op.tup = Rank(q.tid, role, q.row)
    <2> DEFINE a == Write(Rank(q.tid, role, q.row))
               b == Delete(Rank(q.tid, role, q.row))
    <2>1. a \in Op /\ b \in Op
      BY TuplesAre, OpsAre DEF Rank, Ranks, AllRoles
    <2>2. a.tup = Rank(q.tid, role, q.row) /\ a.add = TRUE /\ b.tup = Rank(q.tid, role, q.row) /\ b.add = FALSE
      BY DEF Write, Delete
    <2>3. W(role) = (IF q.role = role THEN << a >> ELSE <<>>) /\ D(role) = (IF q.role # role THEN << b >> ELSE <<>>)
      OBVIOUS
    <2> HIDE DEF a, b, W, D
    <2>4. << a >> \in Seq(Op) /\ Ops(<< a >>) = {a} /\ << b >> \in Seq(Op) /\ Ops(<< b >>) = {b} /\ Ops(<<>>) = {} /\ <<>> \in Seq(Op)
      BY <2>1, OpsOf, EmptySeq
    <2>5. CASE q.role = role
      <3>1. W(role) = << a >> /\ D(role) = <<>>
        BY <2>3, <2>5
      <3>2. Ops(W(role)) = {a} /\ Ops(D(role)) = {} /\ W(role) \in Seq(Op) /\ D(role) \in Seq(Op)
        BY <2>4, <3>1
      <3> QED BY <2>2, <2>5, <3>2
    <2>6. CASE q.role # role
      <3>1. W(role) = <<>> /\ D(role) = << b >>
        BY <2>3, <2>6
      <3>2. Ops(W(role)) = {} /\ Ops(D(role)) = {b} /\ W(role) \in Seq(Op) /\ D(role) \in Seq(Op)
        BY <2>4, <3>1
      <3> QED BY <2>2, <2>6, <3>2
    <2> QED BY <2>5, <2>6
  <1>2. UpdateTodo(q) = W("admin") \o W("owner") \o D("admin") \o D("owner")
    BY DEF UpdateTodo, Rank
  <1> HIDE DEF W, D
  <1>3. /\ W("admin") \in Seq(Op) /\ W("owner") \in Seq(Op) /\ D("admin") \in Seq(Op) /\ D("owner") \in Seq(Op)
    BY <1>1 DEF Ranks
  <1>4. Ops(UpdateTodo(q)) = Ops(W("admin")) \cup Ops(W("owner")) \cup Ops(D("admin")) \cup Ops(D("owner"))
    <2>1. W("admin") \o W("owner") \in Seq(Op) /\ Ops(W("admin") \o W("owner")) = Ops(W("admin")) \cup Ops(W("owner"))
      BY <1>3, OpsOf
    <2>2. /\ (W("admin") \o W("owner")) \o D("admin") \in Seq(Op)
          /\ Ops((W("admin") \o W("owner")) \o D("admin")) = Ops(W("admin") \o W("owner")) \cup Ops(D("admin"))
      BY <1>3, <2>1, OpsOf
    <2>3. Ops(((W("admin") \o W("owner")) \o D("admin")) \o D("owner")) = Ops((W("admin") \o W("owner")) \o D("admin")) \cup Ops(D("owner"))
      BY <1>3, <2>2, OpsOf
    <2> QED BY <1>2, <2>1, <2>2, <2>3
  <1>5. ASSUME NEW op \in Ops(UpdateTodo(q))
        PROVE  \E role \in Ranks : op.tup = Rank(q.tid, role, q.row) /\ (op.add <=> role = q.role)
    <2>1. \E role \in {"admin", "owner"} : op \in Ops(W(role)) \cup Ops(D(role))
      BY <1>4, <1>5
    <2> QED BY <1>1, <2>1 DEF Ranks
  <1>6. ASSUME NEW role \in Ranks PROVE \E op \in Ops(UpdateTodo(q)) : op.tup = Rank(q.tid, role, q.row)
    <2>1. Ops(W(role)) \cup Ops(D(role)) \subseteq Ops(UpdateTodo(q))
      BY <1>4 DEF Ranks
    <2> QED BY <1>1, <2>1
  <1> QED BY <1>5, <1>6

\* A removal deletes tuples of the role its user had.
LEMMA RevokeOps ==
  ASSUME NEW q \in Request, q.tid \in Tenants, q.row \in UserIds
  PROVE  \A op \in Ops(RevokeTodo(q)) : op.tup.rel \notin Ranks \/ op.tup = Rank(q.tid, q.role, q.row)
  <1> DEFINE a == Delete(TenantMember(q.tid, User(q.row)))
             b == Delete(Rank(q.tid, q.role, q.row))
  <1>1. a \in Op /\ b \in Op
    BY TuplesAre, OpsAre DEF Request, Rank
  <1>2. a.tup.rel \notin Ranks /\ b.tup = Rank(q.tid, q.role, q.row)
    BY DEF Delete, TenantMember, Tup, Ranks
  <1>3. RevokeTodo(q) = << a >> \o (IF q.role = "member" THEN <<>> ELSE << b >>)
    BY DEF RevokeTodo, Rank
  <1> HIDE DEF a, b
  <1>4. Ops(RevokeTodo(q)) \subseteq {a, b}
    BY <1>1, <1>3, PairOps
  <1> QED BY <1>2, <1>4

\* A request begins to work on a row that is its own.
LEMMA BeginsWork ==
  ASSUME Typed, Grants, Tracked, NEW r \in Reqs, ~Working(r), Working(r)', UNCHANGED tuples,
         NEW u \in UserIds, NEW todo, Goes(r, "tuples", u, todo, req[r].gone),
         \A v \in UserIds : v # u => users'[v] = users[v],
         \A s \in Reqs : Working(s) => req[s].row # u,
         Aging, RequestOK(r)', UserOK(u)'
  PROVE  Tracked'
  <1>0. req'[r].row = u /\ \A s \in Reqs : s # r => req'[s] = req[s]
    BY DEF Goes
  <1>w. \A s \in Reqs : s # r => (Working(s)' <=> Working(s))
    BY <1>0 DEF Working
  <1>s. \A v \in UserIds : SameRanks(v)
    BY DEF SameRanks
  <1>1. ASSUME NEW s \in Reqs, s # r PROVE RequestOK(s)'
    <2>1. Working(s) => users'[req[s].row] = users[req[s].row] /\ SameRanks(req[s].row)
      BY <1>s, WorkedRow
    <2>2. RequestOK(s) /\ req'[s] = req[s]
      BY <1>0, <1>1 DEF Tracked
    <2> QED BY <2>1, <2>2, Bystander
  <1>2. ASSUME NEW v \in UserIds, v # u PROVE UserOK(v)'
    <2>1. Changing(v) => Changing(v)'
      BY <1>0, <1>w DEF Changing
    <2>2. users'[v] = users[v] /\ UserOK(v)
      BY <1>2 DEF Tracked
    <2> QED BY <1>s, <2>1, <2>2, UserKept
  <1>3. Apart'
    BY <1>0, <1>w DEF Apart, Tracked
  <1> QED BY <1>1, <1>2, <1>3 DEF Tracked

\* A grant inserts its row, which has no tuples yet.
LEMMA InsertTracked ==
  ASSUME Typed, Grants, Tracked, NEW r \in Reqs, GrantInsert(r)
  PROVE  Tracked'
  <1>1. PICK u \in UserIds :
          /\ FreshUser(u)
          /\ users' = [users EXCEPT ![u] = [st |-> "pending", email |-> req[r].email,
                                            tenant |-> req[r].tid, role |-> req[r].role]]
          /\ req' = [req EXCEPT ![r].pc = "tuples", ![r].row = u, ![r].todo = Todo(req[r], u)]
    BY Zenon DEF GrantInsert
  <1>2. Runs(r, {"grant"}, "write") /\ UNCHANGED tuples
    BY Zenon DEF GrantInsert
  <1>3. /\ req[r].kind = "grant" /\ req[r].pc = "write" /\ req[r] \in Request /\ req[r].tid \in Tenants
    BY <1>2 DEF Runs, At, Typed, ReqsOK, Named
  <1>4. /\ users'[u].st = "pending" /\ users'[u].tenant = req[r].tid /\ users'[u].role = req[r].role
        /\ users[u].st = "unused" /\ \A v \in UserIds : v # u => users'[v] = users[v]
    BY <1>1 DEF FreshUser, Typed, RowsOK
  <1>5. Goes(r, "tuples", u, Todo(req[r], u), req[r].gone)
    BY <1>1, FieldsKept, Zenon
  <1>6. /\ req'[r].kind = "grant" /\ req'[r].tid = req[r].tid /\ req'[r].role = req[r].role /\ req'[r].row = u
        /\ req'[r].pc = "tuples" /\ req'[r].todo = Todo(req[r], u)
    BY <1>3, <1>5 DEF Goes
  <1>7. ~Working(r) /\ Working(r)'
    BY <1>3, <1>6 DEF Working, Changers
  <1>8. Fits(r)'
    <2> SUFFICES ASSUME NEW op \in Ops(Todo(req[r], u)), op.tup.rel \in Ranks, op.tup.obj # Sys
                 PROVE  /\ op.tup = Rank(req[r].tid, op.tup.rel, u) /\ (op.add <=> op.tup.rel = req[r].role)
      BY <1>6 DEF Fits, OpFits, Changers
    <2>1. op.add /\ op.tup = Rank(req[r].tid, req[r].role, u)
      BY <1>3, GrantOps
    <2>2. op.tup.rel = req[r].role
      BY <2>1 DEF Rank, Tup
    <2> QED BY <2>1, <2>2
  <1>9. EffectOK(r)'
    <2> SUFFICES ASSUME NEW role \in Ranks PROVE Settled(r, role)' \/ Owed(r, role)'
      BY DEF EffectOK
    <2>1. CASE role = req[r].role
      BY <1>3, <1>6, <2>1, GrantOps DEF Owed
    <2>2. CASE role # req[r].role
      <3>1. Rank(req[r].tid, role, u) \notin tuples
        BY <1>3, <1>4 DEF Tracked, UserOK
      <3> QED BY <1>2, <1>6, <2>2, <3>1 DEF Settled
    <2> QED BY <2>1, <2>2
  <1>10. RequestOK(r)'
    BY <1>4, <1>6, <1>8, <1>9 DEF RequestOK, ChangeOK, PromiseOK, DropOK
  <1>11. UserOK(u)'
    BY <1>4 DEF UserOK, IsUser
  <1>12. \A s \in Reqs : Working(s) => req[s].row # u
    BY <1>4, WorkedRow
  <1>13. Aging
    BY <1>4 DEF Aging
  <1> QED BY <1>2, <1>4, <1>5, <1>7, <1>10, <1>11, <1>12, <1>13, BeginsWork

\* An update or a removal locks its row, which nobody else works on.
LEMMA ChangeTracked ==
  ASSUME Typed, Grants, Tracked, NEW r \in Reqs, ChangeUser(r)
  PROVE  Tracked'
  <1> DEFINE todo == IF req[r].kind = "update" THEN UpdateTodo(req[r]) ELSE RevokeTodo(req[r])
  <1>1. /\ Runs(r, {"update", "revoke"}, "write") /\ ~UserLocked(req[r].row, r) /\ UNCHANGED <<rows, tuples>>
        /\ req' = [req EXCEPT ![r].pc = "tuples", ![r].todo = todo]
    BY Zenon DEF ChangeUser
  <1>2. /\ req[r].kind \in {"update", "revoke"} /\ req[r].pc = "write" /\ UNCHANGED <<users, tuples>>
    BY <1>1 DEF Runs, At, rows
  <1>3. req[r] \in Request /\ req[r].tid \in Tenants /\ req[r].row \in UserIds
    BY <1>2, NamedRows
  <1>u. PICK u \in UserIds : u = req[r].row
    BY <1>3
  <1>4. users[u].st \in {"row", "gone"} /\ ChangeOK(r)
    BY <1>2, <1>u DEF Tracked, RequestOK, ChangeOK
  <1> HIDE DEF todo
  <1>5. Goes(r, "tuples", u, todo, req[r].gone)
    <2>1. Goes(r, "tuples", req[r].row, todo, req[r].gone)
      BY <1>1, FieldsKept, Zenon
    <2> QED BY <1>u, <2>1
  <1>6. /\ req'[r].kind = req[r].kind /\ req'[r].tid = req[r].tid /\ req'[r].role = req[r].role /\ req'[r].row = u
        /\ req'[r].pc = "tuples" /\ req'[r].todo = todo
    BY <1>5 DEF Goes
  <1>7. ~Working(r) /\ Working(r)'
    BY <1>2, <1>6 DEF Working, Changers
  <1>8. Fits(r)' /\ EffectOK(r)'
    <2>1. CASE req[r].kind = "update"
      <3>0. todo = UpdateTodo(req[r])
        BY <2>1 DEF todo
      <3>1. Fits(r)'
        <4> SUFFICES ASSUME NEW op \in Ops(todo)
                     PROVE  op.tup = Rank(req[r].tid, op.tup.rel, u) /\ (op.add <=> op.tup.rel = req[r].role)
          BY <1>6, <2>1 DEF Fits, OpFits, Changers
        <4>1. PICK role \in Ranks : op.tup = Rank(req[r].tid, role, u) /\ (op.add <=> role = req[r].role)
          BY <1>3, <1>u, <3>0, UpdateOps
        <4>2. op.tup.rel = role
          BY <4>1 DEF Rank, Tup
        <4> QED BY <4>1, <4>2
      <3>2. EffectOK(r)'
        BY <1>3, <1>6, <1>u, <3>0, UpdateOps DEF EffectOK, Owed
      <3> QED BY <3>1, <3>2
    <2>2. CASE req[r].kind = "revoke"
      <3>0. todo = RevokeTodo(req[r])
        BY <2>2 DEF todo
      <3>1. Fits(r)'
        <4> SUFFICES ASSUME NEW op \in Ops(todo), op.tup.rel \in Ranks PROVE op.tup = Rank(req[r].tid, op.tup.rel, u)
          BY <1>6, <2>2 DEF Fits, OpFits, Changers
        <4>1. op.tup = Rank(req[r].tid, req[r].role, u)
          BY <1>3, <1>u, <3>0, RevokeOps
        <4>2. op.tup.rel = req[r].role
          BY <4>1 DEF Rank, Tup
        <4> QED BY <4>1, <4>2
      <3>2. EffectOK(r)'
        BY <1>6, <2>2 DEF EffectOK, Bound
      <3> QED BY <3>1, <3>2
    <2> QED BY <1>2, <2>1, <2>2
  <1>9. RequestOK(r)'
    BY <1>2, <1>4, <1>6, <1>8, <1>u DEF RequestOK, ChangeOK, PromiseOK, DropOK, IsUser
  <1>10. UserOK(u)'
    <2>1. Changing(u)'
      BY <1>2, <1>6, <1>7 DEF Changing
    <2> QED BY <1>2, <1>4, <2>1 DEF UserOK, IsUser
  <1>11. \A s \in Reqs : Working(s) => req[s].row # u
    <2> SUFFICES ASSUME NEW s \in Reqs, Working(s), req[s].row = u PROVE FALSE
      OBVIOUS
    <2>1. s # r /\ req[s].kind # "grant"
      BY <1>4, <1>7, WorkedRow
    <2>2. s \in Reqs \ {r} /\ req[s].kind \in {"update", "revoke"} /\ req[s].pc \in {"tuples", "sync"}
      BY <2>1 DEF Working, Changers
    <2> QED BY <1>1, <1>u, <2>2 DEF UserLocked
  <1>12. Aging
    BY <1>2 DEF Aging
  <1>13. \A v \in UserIds : v # u => users'[v] = users[v]
    BY <1>2
  <1> QED BY <1>2, <1>5, <1>7, <1>9, <1>10, <1>11, <1>12, <1>13, BeginsWork

\* A request ends its work: only its own row changes, and no tuple.
LEMMA EndsWork ==
  ASSUME Typed, Grants, Tracked, NEW r \in Reqs, Working(r), Finish(r), UNCHANGED tuples,
         NEW u \in UserIds, u = req[r].row, \A v \in UserIds : v # u => users'[v] = users[v],
         Aging, UserOK(u)'
  PROVE  Tracked'
  <1>0. RequestOK(r)' /\ ~Working(r)' /\ \A s \in Reqs : s # r => req'[s] = req[s]
    BY Answered1
  <1>w. \A s \in Reqs : s # r => (Working(s)' <=> Working(s))
    BY <1>0 DEF Working
  <1>s. \A v \in UserIds : SameRanks(v)
    BY DEF SameRanks
  <1>1. ASSUME NEW s \in Reqs, s # r PROVE RequestOK(s)'
    <2>1. Working(s) => users'[req[s].row] = users[req[s].row] /\ SameRanks(req[s].row)
      BY <1>1, <1>s, WorkedRow DEF Tracked, Apart
    <2>2. RequestOK(s) /\ req'[s] = req[s]
      BY <1>0, <1>1 DEF Tracked
    <2> QED BY <2>1, <2>2, Bystander
  <1>2. ASSUME NEW v \in UserIds, v # u PROVE UserOK(v)'
    <2>1. Changing(v) => Changing(v)'
      BY <1>0, <1>w, <1>2 DEF Changing
    <2>2. users'[v] = users[v] /\ UserOK(v)
      BY <1>2 DEF Tracked
    <2> QED BY <1>s, <2>1, <2>2, UserKept
  <1>3. Apart'
    BY <1>0, <1>w DEF Apart, Tracked
  <1> QED BY <1>0, <1>1, <1>2, <1>3 DEF Tracked

\* What is committed is the role whose tuples are there.
LEMMA CommitTracked ==
  ASSUME Typed, Grants, Tracked, NEW r \in Reqs, CommitUser(r)
  PROVE  Tracked'
  <1>1. /\ Runs(r, Changers, "sync") /\ req[r].todo = <<>> /\ users' = Committed(req[r]) /\ Finish(r)
        /\ UNCHANGED tuples
    BY Zenon DEF CommitUser, Changers
  <1>2. Working(r) /\ req[r].kind \in Changers
    BY <1>1 DEF Working, Runs, At
  <1>3. PICK u \in UserIds : u = req[r].row
    BY <1>2, WorkedRow
  <1>4. users \in [UserIds -> UserRow]
    BY DEF Typed, RowsOK
  <1>5. /\ req[r].tid \in Tenants /\ users[u].st # "unused"
        /\ req[r].kind = "grant" => users[u].st = "pending" /\ users[u].tenant = req[r].tid /\ users[u].role = req[r].role
        /\ req[r].kind # "grant" => users[u].st \in {"row", "gone"} /\ (IsUser(u) => users[u].tenant = req[r].tid)
    BY <1>2, <1>3, WorkedRow DEF Working, Changers, Grants, Tracked, RequestOK, ChangeOK, PromiseOK
  <1>6. Bound(r) => \A role \in Ranks : Rank(req[r].tid, role, u) \in tuples <=> role = req[r].role
    <2>1. \A role : ~Owed(r, role)
      BY <1>1, OpsOf DEF Owed
    <2> QED BY <1>3, <2>1 DEF Tracked, RequestOK, EffectOK, Settled
  <1>7. CASE Bound(r)
    <2>1. /\ \A v \in UserIds : v # u => users'[v] = users[v]
          /\ users'[u].st = "row" /\ users'[u].tenant = users[u].tenant /\ users'[u].role = req[r].role
      <3>1. CASE req[r].kind = "grant"
        <4>1. users' = [users EXCEPT ![u].st = "row"]
          BY <1>1, <1>3, <3>1 DEF Committed
        <4> QED BY <1>4, <1>5, <3>1, <4>1 DEF UserRow
      <3>2. CASE req[r].kind = "update" /\ IsUser(u)
        <4>1. users' = [users EXCEPT ![u].role = req[r].role]
          BY <1>1, <1>3, <3>2 DEF Committed
        <4> QED BY <1>4, <3>2, <4>1 DEF UserRow, IsUser
      <3> QED BY <1>3, <1>7, <3>1, <3>2 DEF Bound
    <2>2. Aging
      BY <1>3, <1>5, <1>7, <2>1 DEF Aging, IsUser, Bound
    <2>3. users[u].tenant = req[r].tid
      BY <1>3, <1>5, <1>7 DEF Bound
    <2>4. UserOK(u)'
      BY <1>1, <1>6, <1>7, <2>1, <2>3 DEF UserOK
    <2> QED BY <1>1, <1>2, <1>3, <2>1, <2>2, <2>4, EndsWork
  <1>8. CASE ~Bound(r)
    <2>1. req[r].kind # "grant" /\ (req[r].kind = "update" => ~IsUser(u))
      BY <1>2, <1>3, <1>8 DEF Bound
    <2>2. \/ users' = users /\ ~IsUser(u)
          \/ users' = [users EXCEPT ![u] = GoneUser]
      BY <1>1, <1>2, <1>3, <2>1 DEF Committed, Changers
    <2>3. (\A v \in UserIds : v # u => users'[v] = users[v]) /\ users'[u].st = "gone"
      <3>1. GoneUser.st = "gone"
        BY DEF GoneUser, NoUser
      <3> QED BY <1>4, <1>5, <2>1, <2>2, <3>1 DEF IsUser
    <2>4. Aging
      BY <2>3 DEF Aging
    <2>5. UserOK(u)'
      BY <2>3 DEF UserOK, IsUser
    <2> QED BY <1>1, <1>2, <1>3, <2>3, <2>4, <2>5, EndsWork
  <1> QED BY <1>7, <1>8

-----------------------------------------------------------------------------
(* Tenants that come and go.                                               *)

\* What a new tenant and the first admin get beside their role.
LEMMA SeedsNoRank ==
  ASSUME NEW t \in Tenants, NEW u \in UserIds, NEW o \in Tenants, NEW role \in Ranks, NEW v \in UserIds
  PROVE  /\ Rank(o, role, v) \notin NewTenantTuples(t)
         /\ Rank(o, role, v) \notin {Tup(t, "owner", Svc(t)), SystemAdmin(Svc(t)), SystemAdmin(User(u))}
         /\ Rank(o, role, v) \in OwnerTuples(t, u) <=> o = t /\ role = "owner" /\ v = u
  BY Namespaces DEF Rank, Ranks, Tup, User, Svc, TenantMember, TenantSystemEdge, SystemAdmin, NewTenantTuples, OwnerTuples

\* A tenant comes with its owner, who had no tuples.
LEMMA OwnerTracked ==
  ASSUME Typed, Grants, Tracked, NEW r \in Reqs, ~Working(r), Finish(r),
         NEW t \in Tenants, NEW u \in UserIds, NEW e, users[u].st = "unused", users' = OwnerRow(t, u, e),
         \A o \in Tenants, role \in Ranks, v \in UserIds : Rank(o, role, v) \in tuples' <=>
             Rank(o, role, v) \in tuples \/ (o = t /\ role = "owner" /\ v = u)
  PROVE  Tracked'
  <1>0. RequestOK(r)' /\ ~Working(r)' /\ \A s \in Reqs : s # r => req'[s] = req[s]
    BY Answered1
  <1>w. \A s \in Reqs : Working(s)' <=> Working(s)
    BY <1>0 DEF Working
  <1>u. /\ users'[u].st = "row" /\ users'[u].tenant = t /\ users'[u].role = "owner"
        /\ \A v \in UserIds : v # u => users'[v] = users[v]
    BY DEF OwnerRow, Typed, RowsOK
  <1>s. \A v \in UserIds : v # u => SameRanks(v)
    BY DEF SameRanks
  <1>a. Aging
    BY <1>u DEF Aging
  <1>1. ASSUME NEW s \in Reqs, s # r PROVE RequestOK(s)'
    <2>1. Working(s) => users'[req[s].row] = users[req[s].row] /\ SameRanks(req[s].row)
      BY <1>s, <1>u, WorkedRow
    <2>2. RequestOK(s) /\ req'[s] = req[s]
      BY <1>0, <1>1 DEF Tracked
    <2> QED BY <1>a, <2>1, <2>2, Bystander
  <1>2. ASSUME NEW v \in UserIds, v # u PROVE UserOK(v)'
    <2>1. Changing(v) => Changing(v)'
      BY <1>0, <1>w DEF Changing
    <2>2. users'[v] = users[v] /\ UserOK(v)
      BY <1>u, <1>2 DEF Tracked
    <2> QED BY <1>s, <1>2, <2>1, <2>2, UserKept
  <1>3. UserOK(u)'
    <2>1. \A role \in Ranks : Rank(t, role, u) \notin tuples
      BY DEF Tracked, UserOK
    <2>2. \A role \in Ranks : Rank(t, role, u) \in tuples' <=> role = "owner"
      BY <2>1
    <2> QED BY <1>u, <2>2 DEF UserOK
  <1>4. Apart'
    BY <1>0, <1>w, ApartKept DEF Tracked
  <1> QED BY <1>0, <1>1, <1>2, <1>3, <1>4 DEF Tracked

\* A tenant is created, with an owner or without, also by the bootstrap.
LEMMA CreateTracked ==
  ASSUME Typed, Grants, Tracked, NEW r \in Reqs, CreateTenant(r) \/ Bootstrap(r)
  PROVE  Tracked'
  <1>1. ~Working(r) /\ Finish(r)
    BY Zenon DEF CreateTenant, Bootstrap, Runs, At, Working, Changers
  <1>2. CASE UNCHANGED users
    <2>1. PICK t \in Tenants : tuples' = tuples \cup NewTenantTuples(t)
             \/ tuples' = tuples \cup (NewTenantTuples(t) \cup {Tup(t, "owner", Svc(t)), SystemAdmin(Svc(t))})
             \/ \E u \in UserIds : \E e : FreshUser(u) /\ users' = OwnerRow(t, u, e)
      BY Zenon DEF CreateTenant, Bootstrap
    <2>2. ASSUME NEW u \in UserIds, NEW e, FreshUser(u), users' = OwnerRow(t, u, e) PROVE FALSE
      <3>1. users[u].st = "unused"
        BY <2>2, Zenon DEF FreshUser
      <3>2. users'[u].st = "row"
        BY <2>2 DEF OwnerRow, Typed, RowsOK
      <3> QED BY <1>2, <3>1, <3>2
    <2>3. \A u \in UserIds : SameRanks(u)
      BY <2>1, <2>2, SeedsNoRank DEF SameRanks
    <2> QED BY <1>1, <1>2, <2>3, EndsAside
  <1>3. ASSUME NEW t \in Tenants, NEW u \in UserIds, NEW e, FreshUser(u), users' = OwnerRow(t, u, e),
               \/ tuples' = tuples \cup NewTenantTuples(t) \cup OwnerTuples(t, u)
               \/ tuples' = tuples \cup (NewTenantTuples(t) \cup {Tup(t, "owner", Svc(t)), SystemAdmin(Svc(t))})
                               \cup OwnerTuples(t, u) \cup {SystemAdmin(User(u))}
        PROVE  Tracked'
    <2>1. users[u].st = "unused"
      BY <1>3, Zenon DEF FreshUser
    <2>2. \A o \in Tenants, role \in Ranks, v \in UserIds : Rank(o, role, v) \in tuples' <=>
             Rank(o, role, v) \in tuples \/ (o = t /\ role = "owner" /\ v = u)
      BY <1>3, SeedsNoRank
    <2> QED BY <1>1, <1>3, <2>1, <2>2, OwnerTracked
  <1>4. CASE ~UNCHANGED users
    <2>1. PICK t \in Tenants, u \in UserIds, e \in Emails \cup {None} :
               /\ FreshUser(u) /\ users' = OwnerRow(t, u, e)
               /\ \/ tuples' = tuples \cup NewTenantTuples(t) \cup OwnerTuples(t, u)
                  \/ tuples' = tuples \cup (NewTenantTuples(t) \cup {Tup(t, "owner", Svc(t)), SystemAdmin(Svc(t))})
                               \cup OwnerTuples(t, u) \cup {SystemAdmin(User(u))}
      <3>0. req[r].email \in Emails \cup {None}
        BY NamedRows DEF Request
      <3>1. CASE CreateTenant(r)
        BY <1>4, <3>0, <3>1, Zenon DEF CreateTenant
      <3>2. CASE Bootstrap(r)
        BY <1>4, <3>0, <3>2, Zenon DEF Bootstrap
      <3> QED BY <3>1, <3>2
    <2> QED BY <1>3, <2>1
  <1> QED BY <1>2, <1>4

\* A deletion waits for the rows of its tenant that others lock, and takes the
\* others with it; of the rows it leaves it takes no tuple in their tenant.
LEMMA DropTracked ==
  ASSUME Typed, Grants, Tracked, NEW r \in Reqs, DropTenant(r)
  PROVE  Tracked'
  <1> DEFINE t == req[r].tid
  <1>1. /\ Runs(r, {"drop"}, "pruned") /\ ~DropWaits(r) /\ Finish(r)
        /\ users' = [u \in UserIds |-> IF u \in UsersOf(t) THEN GoneUser ELSE users[u]]
        /\ tuples' = tuples \ req[r].gone
    BY Zenon DEF DropTenant
  <1>2. req[r].kind = "drop" /\ req[r].pc = "pruned" /\ ~Working(r)
    BY <1>1 DEF Runs, At, Working, Changers
  <1>3. \A u \in UserIds : IF IsUser(u) /\ users[u].tenant = t THEN users'[u].st = "gone" ELSE users'[u] = users[u]
    BY <1>1 DEF UsersOf, GoneUser, NoUser
  <1>4. \A o \in Tenants, role \in Ranks, u \in UserIds : o # t => (Rank(o, role, u) \in tuples' <=> Rank(o, role, u) \in tuples)
    <2>1. \A x \in req[r].gone : x.obj = t \/ x.obj \in Docs \/ x.subj = Svc(t)
      BY <1>2 DEF Tracked, RequestOK, DropOK
    <2> HIDE DEF t
    <2> SUFFICES ASSUME NEW o \in Tenants, NEW role \in Ranks, NEW u \in UserIds, o # t PROVE Rank(o, role, u) \notin req[r].gone
      BY <1>1
    <2>2. Rank(o, role, u).obj = o /\ Rank(o, role, u).subj # Svc(t)
      BY DEF Rank, Tup, User, Svc
    <2> QED BY <2>1, <2>2, Namespaces
  <1>5. /\ \A u \in UserIds : users[u].st = "pending" => users[u].tenant # t
        /\ \A u \in UserIds : IsUser(u) /\ users[u].tenant = t => ~UserLocked(u, r)
    BY <1>1 DEF DropWaits, TenantShared, UsersOf
  <1> HIDE DEF t
  <1>0. RequestOK(r)' /\ ~Working(r)' /\ \A s \in Reqs : s # r => req'[s] = req[s]
    BY <1>1, Answered1
  <1>w. \A s \in Reqs : Working(s)' <=> Working(s)
    BY <1>0, <1>2 DEF Working
  <1>a. Aging
    BY <1>3 DEF Aging, IsUser
  <1>6. ASSUME NEW s \in Reqs, Working(s), s # r
        PROVE  \/ req[s].kind # "grant" /\ users'[req[s].row].st = "gone"
               \/ users'[req[s].row] = users[req[s].row] /\ req[s].tid # t /\ req[s].tid \in Tenants /\ req[s].row \in UserIds
    <2>1. PICK u \in UserIds : u = req[s].row
      BY <1>6, WorkedRow
    <2>2. req[s].tid \in Tenants
      BY <1>6, WorkedRow
    <2>3. CASE req[s].kind = "grant"
      <3>1. users[u].st = "pending" /\ users[u].tenant = req[s].tid
        BY <1>6, <2>1, <2>3 DEF Working, Grants
      <3>2. req[s].tid # t /\ users'[u] = users[u]
        BY <1>3, <1>5, <3>1 DEF IsUser
      <3> QED BY <2>1, <2>2, <3>2
    <2>4. CASE req[s].kind # "grant"
      <3>1. users[u].st \in {"row", "gone"} /\ (IsUser(u) => users[u].tenant = req[s].tid)
        BY <1>6, <2>1, <2>4 DEF Working, Changers, Tracked, RequestOK, ChangeOK
      <3>2. CASE users[u].st = "gone"
        BY <1>3, <2>1, <2>4, <3>2 DEF IsUser
      <3>3. CASE users[u].st = "row"
        <4>1. UserLocked(u, r)
          BY <1>6, <2>1, <2>4 DEF UserLocked, Working, Changers
        <4>2. users[u].tenant # t /\ req[s].tid # t
          BY <1>5, <3>1, <3>3, <4>1 DEF IsUser
        <4> QED BY <1>3, <2>1, <2>2, <4>2
      <3> QED BY <3>1, <3>2, <3>3
    <2> QED BY <2>3, <2>4
  <1>7. ASSUME NEW s \in Reqs, s # r PROVE RequestOK(s)'
    <2>1. RequestOK(s) /\ req'[s] = req[s]
      BY <1>0, <1>7 DEF Tracked
    <2>2. Working(s) => \/ /\ users'[req[s].row] = users[req[s].row]
                           /\ \A role \in Ranks : Rank(req[s].tid, role, req[s].row) \in tuples'
                                                  <=> Rank(req[s].tid, role, req[s].row) \in tuples
                        \/ req[s].kind # "grant" /\ users'[req[s].row].st = "gone"
      BY <1>4, <1>6, <1>7
    <2> QED BY <1>a, <2>1, <2>2, Unmoved
  <1>8. ASSUME NEW u \in UserIds PROVE UserOK(u)'
    <2>1. UserOK(u) /\ (Changing(u) => Changing(u)')
      BY <1>0, <1>w DEF Tracked, Changing
    <2>2. CASE IsUser(u) /\ users[u].tenant = t
      BY <1>3, <2>2 DEF UserOK, IsUser
    <2>3. CASE IsUser(u) /\ users[u].tenant # t
      <3>1. users[u].tenant \in Tenants /\ users'[u] = users[u]
        BY <1>3, <2>3 DEF Typed, Housed, Lives, IsUser
      <3> QED BY <1>4, <2>1, <2>3, <3>1 DEF UserOK, IsUser
    <2>4. CASE ~IsUser(u)
      <3>1. users'[u] = users[u] /\ tuples' \subseteq tuples
        BY <1>1, <1>3, <2>4
      <3> QED BY <2>1, <2>4, <3>1 DEF UserOK, IsUser
    <2> QED BY <2>2, <2>3, <2>4
  <1>9. Apart'
    BY <1>0, <1>w, ApartKept DEF Tracked
  <1> QED BY <1>0, <1>7, <1>8, <1>9 DEF Tracked

\* Whatever a request does when nothing fails.
LEMMA ServeTracked ==
  ASSUME Typed, Grants, Tracked, NEW r \in Reqs, Serve(r)
  PROVE  Tracked'
  <1>1. CASE BeginTxn(r) \/ Prune(r) \/ InsertKey(r) \/ BootstrapCheck(r)
    BY <1>1, GoesAside
  <1>2. CASE GrantError(r) \/ CreateRefused(r) \/ DropError(r) \/ InsertKeyRefused(r) \/ RotateGone(r)
             \/ RotateRevoked(r) \/ BootstrapRefused(r)
    BY <1>2, ErrorsAside
  <1>3. CASE AclWrite(r) \/ SaveTenant(r) \/ SeedKeyTuple(r) \/ DeleteKey(r) \/ RotateRetire(r)
    BY <1>3, AnswersAside
  <1>4. CASE RotateMint(r) \/ TxnTuple(r)
    BY <1>4, RotatesAside, TupleTracked
  <1>5. CASE SyncServicePrincipalAdmin(r) \/ CommitUser(r) \/ GrantInsert(r) \/ ChangeUser(r)
    BY <1>5, SyncTracked, CommitTracked, InsertTracked, ChangeTracked
  <1>6. CASE CreateTenant(r) \/ Bootstrap(r) \/ DropTenant(r)
    BY <1>6, CreateTracked, DropTracked
  <1> QED BY <1>1, <1>2, <1>3, <1>4, <1>5, <1>6, Zenon DEF Serve

-----------------------------------------------------------------------------
(* Replicas that start.                                                    *)

\* While a replica migrates, nobody changes roles, users or types of tenants.
Calm == (\E p \in Replicas : boot[p].pc = "migrating") =>
          \A r \in Reqs : req[r].kind \in {"grant", "update", "revoke", "drop", "retype"} => req[r].pc \in {"idle", "done"}

\* Nothing is tracked anew if requests, users and the tuples of roles stay.
LEMMA Still ==
  ASSUME Typed, Grants, Tracked, UNCHANGED <<users, req>>, \A u \in UserIds : SameRanks(u)
  PROVE  Tracked'
  <1>0. Aging
    BY DEF Aging
  <1>w. \A s \in Reqs : Working(s)' <=> Working(s)
    BY DEF Working
  <1>1. ASSUME NEW s \in Reqs PROVE RequestOK(s)'
    <2>1. Working(s) => users'[req[s].row] = users[req[s].row] /\ SameRanks(req[s].row)
      BY NamedRows
    <2>2. RequestOK(s) /\ req'[s] = req[s]
      BY DEF Tracked
    <2> QED BY <1>0, <2>1, <2>2, Bystander
  <1>2. ASSUME NEW u \in UserIds PROVE UserOK(u)'
    <2>1. Changing(u) => Changing(u)'
      BY <1>w DEF Changing
    <2>2. UserOK(u)
      BY DEF Tracked
    <2> QED BY <2>1, <2>2, UserKept
  <1>3. Apart'
    BY <1>w, ApartKept DEF Tracked
  <1> QED BY <1>1, <1>2, <1>3 DEF Tracked

\* The tuples of roles among those a migration derives.
LEMMA DerivedRanks ==
  ASSUME Typed, NEW flips \in SUBSET UserIds
  PROVE  /\ \A u \in UserIds, t \in Tenants, role \in Ranks : Rank(t, role, u) \in Derived(flips) =>
              IsUser(u) /\ users[u].tenant = t /\ RoleAfter(u, flips) = role
         /\ \A u \in flips : IsUser(u) => Rank(users[u].tenant, "owner", u) \in Derived(flips)
  <1>1. ASSUME NEW u \in UserIds, NEW t \in Tenants, NEW role \in Ranks, Rank(t, role, u) \in Derived(flips)
        PROVE  IsUser(u) /\ users[u].tenant = t /\ RoleAfter(u, flips) = role
    <2> DEFINE x == Rank(t, role, u)
    <2>0. /\ \A o, s : x # TenantMember(o, s) /\ x # TenantSystemEdge(o) /\ x # SystemAdmin(s)
      BY Namespaces DEF Rank, Ranks, Tup, User, Svc, TenantMember, TenantSystemEdge, SystemAdmin
    <2>x. x \in Derived(flips)
      BY <1>1
    <2> HIDE DEF x
    <2>1. x \notin UNION {NewTenantTuples(o) : o \in {o \in Tenants : IsTenant(o)}}
      BY <2>0 DEF NewTenantTuples
    <2>2. x \notin {TenantMember(keys[k].tenant, KeySubject(k)) : k \in {k \in KeyIds : IsKey(k)}} /\ x \notin ServiceAdmins(flips)
      BY <2>0 DEF ServiceAdmins
    <2>3. x \in UNION {UserTuples(v, RoleAfter(v, flips)) : v \in {v \in UserIds : IsUser(v)}}
      BY <2>x, <2>1, <2>2, Zenon DEF Derived
    <2>4. PICK v \in UserIds : IsUser(v) /\ x \in UserTuples(v, RoleAfter(v, flips))
      BY <2>3
    <2>5. x = Tup(users[v].tenant, RoleAfter(v, flips), User(v))
      BY <2>0, <2>4, Zenon DEF UserTuples, RoleTuples
    <2>6. t = users[v].tenant /\ role = RoleAfter(v, flips) /\ u = v
      BY <2>5 DEF x, Rank, Tup, User
    <2> QED BY <2>4, <2>6
  <1>2. ASSUME NEW u \in flips, IsUser(u) PROVE Rank(users[u].tenant, "owner", u) \in Derived(flips)
    <2>1. RoleAfter(u, flips) = "owner" /\ u \in UserIds
      BY <1>2 DEF RoleAfter
    <2>2. Rank(users[u].tenant, "owner", u) \in UserTuples(u, RoleAfter(u, flips))
      BY <2>1 DEF UserTuples, RoleTuples, Rank
    <2>3. Rank(users[u].tenant, "owner", u) \in UNION {UserTuples(v, RoleAfter(v, flips)) : v \in {v \in UserIds : IsUser(v)}}
      BY <1>2, <2>1, <2>2
    <2> QED BY <2>3, Zenon DEF Derived
  <1> QED BY <1>1, <1>2

\* A migration finds the rows as it read them, and the tuples of their roles.
LEMMA BackfillTracked ==
  ASSUME Typed, Grants, Tracked, Calm, NEW p \in Replicas, MigrationOK(p), BackfillCommit(p)
  PROVE  Tracked'
  <1> DEFINE new == boot[p].new
  <1>1. /\ boot[p].pc = "migrating" /\ UNCHANGED <<tenants, req>> /\ tuples' = (tuples \cup new) \ Stale
        /\ users' = [u \in UserIds |-> IF u \in boot[p].flips /\ IsUser(u)
                                       THEN [users[u] EXCEPT !.role = "owner"] ELSE users[u]]
    BY Zenon DEF BackfillCommit
  <1>2. /\ boot[p].flips = Flips
        /\ \A u \in UserIds, t \in Tenants, role \in Ranks : Rank(t, role, u) \in new =>
             IsUser(u) /\ users[u].tenant = t /\ RoleAfter(u, Flips) = role
        /\ \A u \in Flips : Rank(users[u].tenant, "owner", u) \in new
    BY <1>1 DEF MigrationOK
  <1> HIDE DEF new
  <1>3. \A r \in Reqs : ~Working(r) /\ ~Working(r)'
    BY <1>1 DEF Calm, Working, Changers
  <1>4. /\ users \in [UserIds -> UserRow] /\ tenants \in [Tenants -> TenantRow]
        /\ \A u \in UserIds : IsUser(u) => users[u].tenant \in Tenants
    BY DEF Typed, RowsOK, Housed, Lives, IsUser
  <1>5. \A u \in UserIds : /\ users'[u].st = users[u].st /\ users'[u].tenant = users[u].tenant
                           /\ users'[u].role = RoleAfter(u, Flips)
    <2>1. \A u \in Flips : IsUser(u)
      BY DEF Flips
    <2> QED BY <1>1, <1>2, <1>4, <2>1 DEF RoleAfter, UserRow
  <1>6. \A t \in Tenants, role \in Ranks, u \in UserIds : Rank(t, role, u) \in Stale <=> role = "admin" /\ Personal(t)
    <2> SUFFICES ASSUME NEW t \in Tenants, NEW role \in Ranks, NEW u \in UserIds
                 PROVE  Rank(t, role, u) \in Stale <=> role = "admin" /\ Personal(t)
      OBVIOUS
    <2>1. \A s : Rank(t, role, u) # SystemAdmin(s)
      BY Namespaces DEF Rank, Tup, SystemAdmin
    <2>2. \A o, s : Rank(t, role, u) = Tup(o, "admin", s) <=> t = o /\ role = "admin" /\ s = User(u)
      BY DEF Rank, Tup
    <2>3. User(u) \in Subjects
      BY TuplesAre
    <2> QED BY <2>1, <2>2, <2>3 DEF Stale
  <1>7. ASSUME NEW u \in UserIds PROVE UserOK(u)'
    <2>1. UserOK(u) /\ ~Changing(u)
      BY <1>3 DEF Tracked, Changing
    <2>2. CASE IsUser(u)
      <3> DEFINE t == users[u].tenant
      <3>1. t \in Tenants /\ \A role \in Ranks : Rank(t, role, u) \in tuples <=> users[u].role = role
        BY <1>4, <2>1, <2>2 DEF UserOK
      <3>2. u \in Flips <=> users[u].role = "admin" /\ Personal(t)
        BY <2>2 DEF Flips, Personal
      <3>3. u \in Flips => Rank(t, "owner", u) \in new
        BY <1>2
      <3> HIDE DEF t
      <3>4. ASSUME NEW role \in Ranks PROVE Rank(t, role, u) \in tuples' <=> RoleAfter(u, Flips) = role
        <4>1. Rank(t, role, u) \in tuples' <=> (Rank(t, role, u) \in tuples \/ Rank(t, role, u) \in new) /\ ~(role = "admin" /\ Personal(t))
          BY <1>1, <1>6, <3>1
        <4>2. Rank(t, role, u) \in new => RoleAfter(u, Flips) = role
          BY <1>2, <3>1
        <4>3. role = "admin" \/ role = "owner"
          BY DEF Ranks
        <4> QED BY <3>1, <3>2, <3>3, <4>1, <4>2, <4>3 DEF RoleAfter, Ranks
      <3>5. users'[u].tenant = t
        BY <1>5 DEF t
      <3> QED BY <1>5, <2>2, <3>4, <3>5 DEF UserOK, IsUser
    <2>3. CASE users[u].st = "unused"
      <3>1. \A t \in Tenants, role \in Ranks : Rank(t, role, u) \notin tuples /\ Rank(t, role, u) \notin new
        BY <1>2, <2>1, <2>3 DEF UserOK, IsUser
      <3> QED BY <1>1, <1>5, <2>3, <3>1 DEF UserOK, IsUser
    <2>4. CASE ~IsUser(u) /\ users[u].st # "unused"
      BY <1>5, <2>4 DEF UserOK, IsUser
    <2> QED BY <2>2, <2>3, <2>4
  <1>8. ASSUME NEW r \in Reqs PROVE RequestOK(r)'
    <2>1. Aging
      BY <1>5 DEF Aging
    <2>2. RequestOK(r) /\ req'[r] = req[r]
      BY <1>1 DEF Tracked
    <2> QED BY <1>3, <2>1, <2>2, Unmoved
  <1>9. Apart'
    BY <1>3 DEF Apart
  <1> QED BY <1>7, <1>8, <1>9 DEF Tracked

\* The system's admins are no roles of a tenant.
LEMMA SystemAside ==
  ASSUME NEW S, \A x \in S : x.obj = Sys, tuples' \in {tuples, tuples \cup S, tuples \ S}
  PROVE  \A u \in UserIds : SameRanks(u)
  <1>1. \A t \in Tenants, role \in Ranks, u \in UserIds : Rank(t, role, u) \notin S
    <2>1. \A t \in Tenants : \A role, u : Rank(t, role, u).obj = t /\ t # Sys
      BY Namespaces DEF Rank, Tup
    <2> QED BY <2>1
  <1> QED BY <1>1 DEF SameRanks

\* Whatever a replica does when it starts or stops.
LEMMA BootTracked ==
  ASSUME Typed, Grants, Tracked, Starting1, Calm, NEW p \in Replicas, Stop(p) \/ Boot(p)
  PROVE  Tracked'
  <1>1. CASE BackfillCommit(p)
    BY <1>1, BackfillTracked DEF Starting1
  <1>2. CASE Stop(p) \/ BackfillRead(p) \/ SeedRead(p) \/ SelfCheck(p) \/ ResetRead(p) \/ Arm(p)
    <2>1. UNCHANGED <<users, req, tuples>>
      BY <1>2, Zenon DEF Stop, BackfillRead, SeedRead, SelfCheck, ResetRead, Arm, OnlyBoot, rows
    <2> QED BY <2>1, Still DEF SameRanks
  <1>3. CASE SeedWrite(p) \/ ResetCommit(p)
    <2>1. boot[p].pc \in {"seeding", "resetting"} /\ UNCHANGED <<users, req>>
          /\ tuples' \in {tuples, tuples \cup boot[p].new, tuples \ boot[p].new}
      <3>1. CASE SeedWrite(p)
        BY <3>1 DEF SeedWrite, rows
      <3>2. CASE ResetCommit(p)
        BY <3>2 DEF ResetCommit
      <3> QED BY <1>3, <3>1, <3>2
    <2>2. \A x \in boot[p].new : x.obj = Sys
      BY <2>1 DEF Starting1, SeedOK
    <2>3. \A u \in UserIds : SameRanks(u)
      BY <2>1, <2>2, SystemAside
    <2> QED BY <2>1, <2>3, Still
  <1> QED BY <1>1, <1>2, <1>3 DEF Boot

\* A migration that stands by is right as long as users keep role and tenant,
\* no other becomes an admin, and the tenants keep their type.
LEMMA MigrationKept ==
  ASSUME Typed, NEW p \in Replicas, MigrationOK(p), boot'[p] = boot[p],
         \A o \in Replicas : boot'[o].pc = "migrating" => boot[o].pc = "migrating",
         \A u \in UserIds : IsUser(u) => users'[u] = users[u] /\ tenants'[users[u].tenant] = tenants[users[u].tenant],
         \A u \in UserIds : IsUser(u)' /\ ~IsUser(u) => users'[u].role # "admin"
  PROVE  MigrationOK(p)'
  <1> SUFFICES ASSUME boot'[p].pc = "migrating" PROVE MigrationOK(p)'
    BY DEF MigrationOK
  <1>1. /\ boot[p].pc = "migrating" /\ boot[p].flips = Flips
        /\ \A u \in UserIds, t \in Tenants, role \in Ranks : Rank(t, role, u) \in boot[p].new =>
             IsUser(u) /\ users[u].tenant = t /\ RoleAfter(u, boot[p].flips) = role
        /\ \A u \in boot[p].flips : Rank(users[u].tenant, "owner", u) \in boot[p].new
        /\ \A o \in Replicas : boot[o].pc = "migrating" => o = p
    BY DEF MigrationOK
  <1>2. \A u \in UserIds : u \in Flips <=> u \in Flips'
    BY DEF Flips, IsUser
  <1>3. Flips' = Flips
    BY <1>2 DEF Flips
  <1>4. \A u \in UserIds : IsUser(u) => IsUser(u)' /\ RoleAfter(u, boot[p].flips)' = RoleAfter(u, boot[p].flips)
    BY DEF RoleAfter, IsUser
  <1>5. \A u \in Flips : u \in UserIds /\ IsUser(u) /\ users'[u].tenant = users[u].tenant
    BY DEF Flips
  <1>6. boot'[p].flips = Flips'
    BY <1>1, <1>3
  <1>7. \A u \in UserIds, t \in Tenants, role \in Ranks : Rank(t, role, u) \in boot'[p].new =>
             IsUser(u)' /\ users'[u].tenant = t /\ RoleAfter(u, boot[p].flips)' = role
    BY <1>1, <1>4
  <1>8. \A u \in boot'[p].flips : Rank(users'[u].tenant, "owner", u) \in boot'[p].new
    BY <1>1, <1>5
  <1>9. \A o \in Replicas : boot'[o].pc = "migrating" => o = p
    BY <1>1
  <1> QED BY <1>6, <1>7, <1>8, <1>9 DEF MigrationOK

\* Requests leave the replicas' records alone.
LEMMA ServesBoot == ASSUME NEW r \in Reqs, Serve(r) PROVE boot' = boot
  <1>1. CASE AclWrite(r) \/ SaveTenant(r) \/ SeedKeyTuple(r) \/ DeleteKey(r) \/ RotateRetire(r) \/ BeginTxn(r)
             \/ Prune(r) \/ InsertKey(r) \/ BootstrapCheck(r) \/ RotateMint(r) \/ TxnTuple(r)
    BY <1>1, Zenon DEF AclWrite, SaveTenant, SeedKeyTuple, DeleteKey, RotateRetire, BeginTxn, Prune, InsertKey,
      BootstrapCheck, RotateMint, TxnTuple, Quiet
  <1>2. CASE GrantError(r) \/ CreateRefused(r) \/ DropError(r) \/ InsertKeyRefused(r) \/ RotateGone(r)
             \/ RotateRevoked(r) \/ BootstrapRefused(r)
    BY <1>2, Zenon DEF GrantError, CreateRefused, DropError, InsertKeyRefused, RotateGone, RotateRevoked,
      BootstrapRefused, Abandon, Quiet
  <1>3. CASE SyncServicePrincipalAdmin(r) \/ CommitUser(r) \/ GrantInsert(r) \/ ChangeUser(r)
             \/ CreateTenant(r) \/ Bootstrap(r) \/ DropTenant(r)
    BY <1>3, Zenon DEF SyncServicePrincipalAdmin, CommitUser, GrantInsert, ChangeUser, CreateTenant, Bootstrap,
      DropTenant, Quiet
  <1> QED BY <1>1, <1>2, <1>3, Zenon DEF Serve

\* Of the requests that change users and tenants only those that create both
\* are served beside a migration.
LEMMA ServeStarting ==
  ASSUME Typed, Grants, Starting1, Calm, NEW r \in Reqs, Serve(r)
  PROVE  Starting1'
  <1>1. UNCHANGED boot
    BY ServesBoot
  <1>2. ASSUME NEW p \in Replicas PROVE SeedOK(p)'
    BY <1>1 DEF Starting1, SeedOK
  <1>3. ASSUME NEW p \in Replicas, boot[p].pc = "migrating" PROVE MigrationOK(p)'
    <2>0. MigrationOK(p)
      BY DEF Starting1
    <2>1. req[r].kind \in {"grant", "update", "revoke", "drop", "retype"} => req[r].pc \in {"idle", "done"}
      BY <1>3 DEF Calm
    <2>2. CASE UNCHANGED <<users, tenants>>
      BY <1>1, <2>0, <2>2, MigrationKept DEF IsUser
    <2>3. CASE CreateTenant(r) \/ Bootstrap(r)
      <3>1. PICK t \in Tenants :
              /\ tenants[t] = "unused" /\ \E type : tenants' = [tenants EXCEPT ![t] = type]
              /\ \/ UNCHANGED users
                 \/ \E u \in UserIds : \E e : FreshUser(u) /\ users' = OwnerRow(t, u, e)
        BY <2>3, Zenon DEF CreateTenant, Bootstrap
      <3>2. \A o : o # t => tenants'[o] = tenants[o]
        BY <3>1 DEF Typed, RowsOK
      <3>3. \A u \in UserIds : IsUser(u) => users[u].tenant # t
        BY <3>1 DEF Typed, Housed, Lives, IsUser
      <3>4. CASE UNCHANGED users
        BY <1>1, <2>0, <3>2, <3>3, <3>4, MigrationKept DEF IsUser
      <3>5. ASSUME NEW u \in UserIds, NEW e, FreshUser(u), users' = OwnerRow(t, u, e) PROVE MigrationOK(p)'
        <4>1. users[u].st = "unused"
          BY <3>5, Zenon DEF FreshUser
        <4>2. users'[u].role = "owner" /\ \A v \in UserIds : v # u => users'[v] = users[v]
          BY <3>5 DEF OwnerRow, Typed, RowsOK
        <4>3. \A v \in UserIds : IsUser(v) => users'[v] = users[v]
          BY <4>1, <4>2 DEF IsUser
        <4>4. \A v \in UserIds : IsUser(v)' /\ ~IsUser(v) => users'[v].role # "admin"
          BY <4>2 DEF IsUser
        <4> QED BY <1>1, <2>0, <3>2, <3>3, <4>3, <4>4, MigrationKept
      <3> QED BY <3>1, <3>4, <3>5
    <2>4. CASE AclWrite(r) \/ SeedKeyTuple(r) \/ DeleteKey(r) \/ RotateRetire(r) \/ BeginTxn(r)
               \/ Prune(r) \/ InsertKey(r) \/ BootstrapCheck(r) \/ RotateMint(r) \/ TxnTuple(r)
               \/ SyncServicePrincipalAdmin(r) \/ ChangeUser(r)
      <3>1. UNCHANGED <<users, tenants>>
        BY <2>4, Zenon DEF AclWrite, SeedKeyTuple, DeleteKey, RotateRetire, BeginTxn, Prune, InsertKey,
          BootstrapCheck, RotateMint, TxnTuple, SyncServicePrincipalAdmin, ChangeUser, rows
      <3> QED BY <2>2, <3>1
    <2>5. CASE GrantError(r) \/ CreateRefused(r) \/ DropError(r) \/ InsertKeyRefused(r) \/ RotateGone(r)
               \/ RotateRevoked(r) \/ BootstrapRefused(r)
      <3>1. Abandon(r) /\ (req[r].kind = "grant" => req[r].pc = "write")
        BY <2>5 DEF GrantError, CreateRefused, DropError, InsertKeyRefused, RotateGone, RotateRevoked, BootstrapRefused,
          Runs, At
      <3>2. UNCHANGED <<users, tenants>>
        BY <2>1, <3>1 DEF Abandon
      <3> QED BY <2>2, <3>2
    <2>6. CASE SaveTenant(r) \/ CommitUser(r) \/ GrantInsert(r) \/ DropTenant(r)
      <3>1. /\ req[r].kind \in {"grant", "update", "revoke", "drop", "retype"}
            /\ req[r].pc \in {"save", "sync", "write", "pruned"}
        <4>1. Runs(r, {"retype"}, "save") \/ Runs(r, {"grant", "update", "revoke"}, "sync") \/ Runs(r, {"grant"}, "write")
              \/ Runs(r, {"drop"}, "pruned")
          BY <2>6, Zenon DEF SaveTenant, CommitUser, GrantInsert, DropTenant
        <4> QED BY <4>1 DEF Runs, At
      <3> QED BY <2>1, <3>1
    <2> QED BY <2>3, <2>4, <2>5, <2>6, Zenon DEF Serve
  <1>4. ASSUME NEW p \in Replicas PROVE MigrationOK(p)'
    <2>1. CASE boot[p].pc = "migrating"
      BY <1>3, <2>1
    <2>2. CASE boot[p].pc # "migrating"
      BY <1>1, <2>2 DEF MigrationOK
    <2> QED BY <2>1, <2>2
  <1> QED BY <1>2, <1>4 DEF Starting1

\* Nothing else that leaves the replicas alone touches a row.
LEMMA RowsStarting ==
  ASSUME Typed, Starting1, UNCHANGED <<users, tenants, boot>>
  PROVE  Starting1'
  <1>1. ASSUME NEW p \in Replicas PROVE MigrationOK(p)'
    <2>1. MigrationOK(p)
      BY DEF Starting1
    <2> QED BY <2>1, MigrationKept DEF IsUser
  <1>2. ASSUME NEW p \in Replicas PROVE SeedOK(p)'
    BY DEF Starting1, SeedOK
  <1> QED BY <1>1, <1>2 DEF Starting1

\* A replica starts or stops: it reads what it is to write, one at a time.
LEMMA BootStarting ==
  ASSUME Typed, Starting1, NEW p \in Replicas, Stop(p) \/ Boot(p)
  PROVE  Starting1'
  <1>t. boot \in [Replicas -> [pc : {"down", "migrating", "seed", "seeding", "check", "arm", "resetting", "reset", "up"},
                               new : SUBSET Tuple, flips : SUBSET UserIds, ks : SUBSET KeyIds]]
    BY DEF Typed, BootsOK
  <1>1. ASSUME NEW b, boot' = [boot EXCEPT ![p] = b], b.pc # "migrating",
               b.pc \in {"seeding", "resetting"} => \A x \in b.new : x.obj = Sys,
               UNCHANGED <<users, tenants>> \/ boot[p].pc = "migrating"
        PROVE  Starting1'
    <2>1. ASSUME NEW o \in Replicas PROVE SeedOK(o)'
      BY <1>t, <1>1 DEF Starting1, SeedOK
    <2>2. ASSUME NEW o \in Replicas PROVE MigrationOK(o)'
      <3>0. MigrationOK(o) /\ MigrationOK(p) /\ boot'[p] = b
        BY <1>t, <1>1 DEF Starting1
      <3>1. CASE o = p
        BY <1>1, <3>0, <3>1 DEF MigrationOK
      <3>2. CASE o # p /\ boot[o].pc = "migrating"
        <4>1. boot'[o] = boot[o] /\ UNCHANGED <<users, tenants>>
          BY <1>t, <1>1, <3>0, <3>2 DEF MigrationOK
        <4>2. \A q \in Replicas : boot'[q].pc = "migrating" => boot[q].pc = "migrating"
          BY <1>t, <1>1
        <4> QED BY <3>0, <4>1, <4>2, MigrationKept DEF IsUser
      <3>3. CASE o # p /\ boot[o].pc # "migrating"
        BY <1>t, <1>1, <3>3 DEF MigrationOK
      <3> QED BY <3>1, <3>2, <3>3
    <2> QED BY <2>1, <2>2 DEF Starting1
  <1>d. Down.pc = "down"
    BY DEF Down
  <1>2. CASE BackfillRead(p)
    <2>b. PICK b : b = [Down EXCEPT !.pc = "migrating", !.flips = Flips, !.new = Derived(Flips)]
      OBVIOUS
    <2>1. b.pc = "migrating" /\ b.flips = Flips /\ b.new = Derived(Flips)
      BY <2>b DEF Down
    <2>2. boot' = [boot EXCEPT ![p] = b] /\ UNCHANGED <<users, tenants>> /\ \A o \in Replicas : boot[o].pc # "migrating"
      BY <1>2, <2>b, Zenon DEF BackfillRead, Booted, OnlyBoot, rows
    <2>3. boot'[p] = b /\ \A o \in Replicas \ {p} : boot'[o] = boot[o]
      BY <1>t, <2>2
    <2>4. Flips' = Flips /\ \A u, f : RoleAfter(u, f)' = RoleAfter(u, f)
      BY <2>2 DEF Flips, RoleAfter, IsUser
    <2>5. Flips \in SUBSET UserIds /\ \A u \in Flips : IsUser(u)
      BY DEF Flips
    <2>6. ASSUME NEW o \in Replicas PROVE SeedOK(o)'
      BY <2>1, <2>3 DEF Starting1, SeedOK
    <2>7. MigrationOK(p)'
      <3>1. /\ \A u \in UserIds, t \in Tenants, role \in Ranks : Rank(t, role, u) \in b.new =>
                 IsUser(u) /\ users[u].tenant = t /\ RoleAfter(u, b.flips) = role
            /\ \A u \in b.flips : Rank(users[u].tenant, "owner", u) \in b.new
        BY <2>1, <2>5, DerivedRanks
      <3>2. \A o \in Replicas : boot'[o].pc = "migrating" => o = p
        BY <2>2, <2>3
      <3>3. \A u \in UserIds, t \in Tenants, role \in Ranks : Rank(t, role, u) \in b.new =>
                 IsUser(u)' /\ users'[u].tenant = t /\ RoleAfter(u, b.flips)' = role
        BY <2>2, <2>4, <3>1 DEF IsUser
      <3>4. \A u \in b.flips : Rank(users'[u].tenant, "owner", u) \in b.new
        BY <2>2, <3>1
      <3>5. /\ boot'[p].flips = Flips'
            /\ \A u \in UserIds, t \in Tenants, role \in Ranks : Rank(t, role, u) \in boot'[p].new =>
                 IsUser(u)' /\ users'[u].tenant = t /\ RoleAfter(u, boot[p].flips)' = role
            /\ \A u \in boot'[p].flips : Rank(users'[u].tenant, "owner", u) \in boot'[p].new
        BY <2>1, <2>3, <2>4, <3>3, <3>4
      <3> QED BY <3>2, <3>5 DEF MigrationOK
    <2>8. ASSUME NEW o \in Replicas, o # p PROVE MigrationOK(o)'
      BY <2>2, <2>3, <2>8 DEF MigrationOK
    <2> QED BY <2>6, <2>7, <2>8 DEF Starting1
  <1>3. CASE BackfillCommit(p)
    <2> DEFINE b == [Down EXCEPT !.pc = "seed"]
    <2>1. b.pc = "seed"
      BY DEF Down
    <2>2. boot' = [boot EXCEPT ![p] = b] /\ boot[p].pc = "migrating"
      BY <1>3, Zenon DEF BackfillCommit, Booted
    <2> HIDE DEF b
    <2> QED BY <1>1, <2>1, <2>2
  <1>4. CASE SeedRead(p)
    <2> DEFINE new == {SystemAdmin(User(u)) : u \in Allowed} \cup ServiceAdmins({})
               b == [Down EXCEPT !.pc = "seeding", !.new = new]
    <2>1. b.pc = "seeding" /\ b.new = new
      BY DEF Down
    <2>2. \A x \in new : x.obj = Sys
      BY DEF ServiceAdmins, SystemAdmin, Tup
    <2>3. boot' = [boot EXCEPT ![p] = b] /\ UNCHANGED <<users, tenants>>
      BY <1>4, Zenon DEF SeedRead, Booted, OnlyBoot, rows
    <2> HIDE DEF b, new
    <2> QED BY <1>1, <2>1, <2>2, <2>3
  <1>5. CASE ResetRead(p)
    <2>1. PICK new, ks : (\A x \in new : x.obj = Sys) /\ boot' = [boot EXCEPT ![p] = [Down EXCEPT !.pc = "resetting", !.new = new, !.ks = ks]]
      <3> DEFINE admins == {x \in tuples : x.obj = Sys /\ x.rel = "admin"}
                 ks == {k \in KeyIds : IsKey(k) /\ SystemAdmin(KeySubject(k)) \in admins}
      <3>1. boot' = [boot EXCEPT ![p] = [Down EXCEPT !.pc = "resetting", !.new = admins, !.ks = ks]]
        BY <1>5, Zenon DEF ResetRead, Booted
      <3>2. \A x \in admins : x.obj = Sys
        OBVIOUS
      <3> HIDE DEF admins, ks
      <3> QED BY <3>1, <3>2, Zenon
    <2> DEFINE b == [Down EXCEPT !.pc = "resetting", !.new = new, !.ks = ks]
    <2>2. b.pc = "resetting" /\ b.new = new
      BY DEF Down
    <2>3. boot' = [boot EXCEPT ![p] = b]
      BY <2>1
    <2>4. UNCHANGED <<users, tenants>>
      BY <1>5, Zenon DEF ResetRead, OnlyBoot, rows
    <2> HIDE DEF b
    <2> QED BY <1>1, <2>1, <2>2, <2>3, <2>4
  <1>6. CASE Stop(p) \/ SeedWrite(p) \/ SelfCheck(p) \/ ResetCommit(p) \/ Arm(p)
    <2>1. UNCHANGED <<users, tenants>>
      BY <1>6, Zenon DEF Stop, SeedWrite, SelfCheck, ResetCommit, Arm, OnlyBoot, rows
    <2>2. boot' = [boot EXCEPT ![p] = Down] \/ \E pc \in {"check", "arm", "down", "reset", "up"} : boot' = [boot EXCEPT ![p] = [Down EXCEPT !.pc = pc]]
      <3>1. CASE Stop(p) \/ SeedWrite(p) \/ ResetCommit(p) \/ Arm(p)
        BY <3>1, Zenon DEF Stop, SeedWrite, ResetCommit, Arm, Booted
      <3>2. CASE SelfCheck(p)
        <4>1. PICK pc \in {"arm", "down"} : boot' = [boot EXCEPT ![p] = [Down EXCEPT !.pc = pc]]
          BY <3>2 DEF SelfCheck, Booted
        <4> QED BY <4>1
      <3> QED BY <1>6, <3>1, <3>2
    <2>3. ASSUME NEW pc \in {"check", "arm", "down", "reset", "up"}, boot' = [boot EXCEPT ![p] = [Down EXCEPT !.pc = pc]] PROVE Starting1'
      <3> DEFINE b == [Down EXCEPT !.pc = pc]
      <3>1. b.pc = pc
        BY DEF Down
      <3>2. boot' = [boot EXCEPT ![p] = b]
        BY <2>3
      <3> HIDE DEF b
      <3> QED BY <1>1, <2>1, <3>1, <3>2
    <2> QED BY <1>1, <1>d, <2>1, <2>2, <2>3
  <1> QED BY <1>2, <1>3, <1>4, <1>5, <1>6 DEF Boot

-----------------------------------------------------------------------------
(* The theorems.                                                           *)

InStepNow == "fail" \notin work => Tracked /\ Starting1

\* It holds at the start.
LEMMA InStepInit == ASSUME Init PROVE InStepNow
  <1> SUFFICES ASSUME "fail" \notin work PROVE Tracked /\ Starting1
    BY DEF InStepNow
  <1>1. \A u \in UserIds, role \in Ranks :
          /\ users[u].st = "row" => (Rank(users[u].tenant, role, u) \in tuples <=> users[u].role = role)
          /\ users[u].st = "unused" => \A t \in Tenants : Rank(t, role, u) \notin tuples
    <2>1. PICK s \in Starts : users = s.users /\ tuples = s.tuples /\ work = s.work
      BY DEF Init
    <2> QED BY <2>1, InStep DEF Rank, Ranks
  <1>2. \A r \in Reqs : req[r] = Idle
    BY DEF Init
  <1>3. Idle.kind = "none" /\ Idle.todo = <<>>
    BY DEF Idle
  <1>4. \A r \in Reqs : ~Working(r) /\ Ops(req[r].todo) = {} /\ req[r].kind = "none"
    BY <1>2, <1>3, OpsOf DEF Working, Changers
  <1>5. Apart
    BY <1>4 DEF Apart
  <1>6. ASSUME NEW r \in Reqs PROVE RequestOK(r)
    BY <1>4 DEF RequestOK, Fits, ChangeOK, PromiseOK, EffectOK, Bound, DropOK
  <1>7. ASSUME NEW u \in UserIds PROVE UserOK(u)
    BY <1>1 DEF UserOK, IsUser
  <1>8. \A p \in Replicas : boot[p].pc = "down"
    BY DEF Init, Down
  <1>9. Starting1
    BY <1>8 DEF Starting1, MigrationOK, SeedOK
  <1> QED BY <1>5, <1>6, <1>7, <1>9 DEF Tracked

\* No step changes what may happen.
LEMMA SameWork == ASSUME Typed, Next PROVE UNCHANGED work
  <1>1. ASSUME NEW r \in Reqs, Arrive(r) PROVE UNCHANGED work
    BY <1>1, Arrives DEF Comes, Quiet
  <1>2. ASSUME NEW r \in Reqs, Serve(r) \/ Fail(r) PROVE UNCHANGED work
    BY <1>2, ServeBoots
  <1>3. ASSUME NEW p \in Replicas, Stop(p) \/ Boot(p) PROVE UNCHANGED work
    BY <1>3, Zenon DEF Stop, Boot, BackfillRead, BackfillCommit, SeedRead, SeedWrite, SelfCheck, ResetRead, ResetCommit,
      Arm, OnlyBoot
  <1>4. CASE PurgeDeadKeys \/ Expire
    BY <1>4, Zenon DEF PurgeDeadKeys, Expire, Quiet
  <1> QED BY <1>1, <1>2, <1>3, <1>4 DEF Next

\* Every step keeps it, beside a migration one that is none of those it minds.
LEMMA InStepNext == ASSUME Whole, Calm, InStepNow, [Next]_vars PROVE InStepNow'
  <1>t. Typed /\ Grants
    BY DEF Whole, Owners
  <1>1. CASE UNCHANGED vars
    <2>1. UNCHANGED <<users, tenants, tuples, req, boot, work>>
      BY <1>1 DEF vars
    <2>2. ASSUME "fail" \notin work PROVE Tracked' /\ Starting1'
      BY <1>t, <2>1, <2>2, Still, RowsStarting DEF InStepNow, SameRanks
    <2> QED BY <2>1, <2>2 DEF InStepNow
  <1>2. CASE Next
    <2>w. UNCHANGED work
      BY <1>2, <1>t, SameWork
    <2> SUFFICES ASSUME "fail" \notin work PROVE Tracked' /\ Starting1'
      BY <2>w DEF InStepNow
    <2>0. Tracked /\ Starting1
      BY DEF InStepNow
    <2>1. ASSUME NEW r \in Reqs, Arrive(r) PROVE Tracked' /\ Starting1'
      <3>1. UNCHANGED <<users, tenants, boot>>
        BY <1>t, <2>1, Arrives DEF Comes, Quiet
      <3> QED BY <1>t, <2>0, <2>1, <3>1, ArriveTracked, RowsStarting
    <2>2. ASSUME NEW r \in Reqs, Serve(r) PROVE Tracked' /\ Starting1'
      BY <1>t, <2>0, <2>2, ServeTracked, ServeStarting
    <2>3. ASSUME NEW r \in Reqs PROVE ~Fail(r)
      BY DEF Fail
    <2>4. ASSUME NEW p \in Replicas, Stop(p) \/ Boot(p) PROVE Tracked' /\ Starting1'
      BY <1>t, <2>0, <2>4, BootTracked, BootStarting
    <2>5. CASE PurgeDeadKeys \/ Expire
      <3>1. UNCHANGED <<users, tenants, tuples, req, boot>>
        BY <2>5, Zenon DEF PurgeDeadKeys, Expire, Quiet
      <3> QED BY <1>t, <2>0, <3>1, Still, RowsStarting DEF SameRanks
    <2> QED BY <1>2, <2>1, <2>2, <2>3, <2>4, <2>5 DEF Next
  <1> QED BY <1>1, <1>2

\* What is tracked agrees for a user whose row nobody has locked.
LEMMA InStepAgrees == InStepNow => RoleAgrees
  <1> SUFFICES ASSUME InStepNow, "fail" \notin work, NEW u \in UserIds, IsUser(u), ~UserLocked(u, None),
                      NEW role \in {"admin", "owner"}
               PROVE  Tup(users[u].tenant, role, User(u)) \in tuples <=> users[u].role = role
    BY DEF RoleAgrees
  <1>1. ~Changing(u)
    BY Inputs DEF Changing, Working, Changers, UserLocked
  <1>2. UserOK(u)
    BY DEF InStepNow, Tracked
  <1> QED BY <1>1, <1>2 DEF UserOK, Ranks, Rank

\* As long as no migration overlaps a grant, a change of roles, a removal, a
\* deletion or a retyping, the role of every user and his tuples name the same
\* role whenever nobody is at work on his row, whatever else overlaps.
THEOREM RolesAgree == Spec /\ []Calm => []RoleAgrees
  <1>1. Init => InStepNow
    BY InStepInit
  <1>2. Whole /\ Calm /\ InStepNow /\ [Next]_vars => InStepNow'
    BY InStepNext
  <1> QED BY <1>1, <1>2, WholeInvariant, InStepAgrees, PTL DEF Spec

-----------------------------------------------------------------------------
(* One replica: what it does not serve cannot be at work.                  *)

OneReplica == \A p, q \in Replicas : p = q
Lull == "fail" \notin work => \A p \in Replicas : boot[p].pc # "up" => \A r \in Reqs : req[r].pc \in {"idle", "done"}

\* A replica that is told to stop lets its requests finish, and none comes
\* before it is up again.
LEMMA LullKept ==
  ASSUME OneReplica, Typed, Lull, [Next]_vars
  PROVE  Lull'
  <1>1. CASE UNCHANGED vars
    BY <1>1 DEF vars, Lull
  <1>2. CASE Next
    <2>w. UNCHANGED work
      BY <1>2, SameWork
    <2> SUFFICES ASSUME "fail" \notin work, NEW p \in Replicas, boot'[p].pc # "up", NEW r \in Reqs
                 PROVE  req'[r].pc \in {"idle", "done"}
      BY <2>w DEF Lull
    <2>1. \A q \in Replicas : q = p
      BY DEF OneReplica
    <2>2. ASSUME NEW s \in Reqs, Arrive(s) \/ Serve(s) PROVE boot' = boot /\ boot[p].pc = "up"
      <3>1. Serving
        BY <2>2, Zenon DEF Arrive, Serve, GrantRead, UserRead, CreateRead, ProvisionRead, UpdateTenantRead,
          DeleteTenantRead, GrantTenantAccess, RevokeTenantAccess, DocumentAccess, AclStart, CreateKeyRead, RotateRead,
          RevokeAPIKey, DeleteKeyRead, BootstrapStart, AdminAsked, Asked, BeginTxn, TxnTuple,
          SyncServicePrincipalAdmin, CommitUser, GrantInsert, GrantError, ChangeUser, CreateTenant, CreateRefused,
          AclWrite, SaveTenant, Prune, DropTenant, DropError, InsertKey, InsertKeyRefused, SeedKeyTuple, DeleteKey,
          RotateMint, RotateGone, RotateRetire, RotateRevoked, BootstrapCheck, Bootstrap, BootstrapRefused, Runs
      <3>2. boot[p].pc = "up"
        BY <2>1, <3>1 DEF Serving
      <3>3. boot' = boot
        <4>1. CASE Arrive(s)
          BY <4>1, Arrives DEF Comes, Quiet
        <4>2. CASE Serve(s)
          BY <4>2, ServesBoot
        <4> QED BY <2>2, <4>1, <4>2
      <3> QED BY <3>2, <3>3
    <2>3. ASSUME NEW s \in Reqs PROVE ~Fail(s)
      BY DEF Fail
    <2>4. ASSUME NEW q \in Replicas, Stop(q) PROVE req'[r].pc \in {"idle", "done"}
      <3>1. boot[q].pc = "up" /\ UNCHANGED req
            /\ ((\A s \in Reqs : req[s].pc \in {"idle", "done"}) \/ \E o \in Replicas \ {q} : boot[o].pc = "up")
        BY <2>4, Zenon DEF Stop
      <3> QED BY <2>1, <3>1
    <2>5. ASSUME NEW q \in Replicas, Boot(q) PROVE req'[r].pc \in {"idle", "done"}
      <3>1. boot[q].pc # "up" /\ UNCHANGED req
        BY <2>5 DEF Boot, BackfillRead, BackfillCommit, SeedRead, SeedWrite, SelfCheck, ResetRead, ResetCommit, Arm, OnlyBoot
      <3> QED BY <3>1 DEF Lull
    <2>6. CASE PurgeDeadKeys \/ Expire
      <3>1. UNCHANGED <<req, boot>>
        BY <2>6, Zenon DEF PurgeDeadKeys, Expire, Quiet
      <3> QED BY <3>1 DEF Lull
    <2> QED BY <1>2, <2>2, <2>3, <2>4, <2>5, <2>6 DEF Next
  <1> QED BY <1>1, <1>2

\* With one replica the role of every user and his tuples name the same role
\* whenever nobody is at work on his row, whatever requests overlap and however
\* often the replica starts again.
THEOREM RolesAgreeAlone == OneReplica => (Spec => []RoleAgrees)
  <1> SUFFICES ASSUME OneReplica PROVE Spec => []RoleAgrees
    OBVIOUS
  <1>1. Init => InStepNow /\ Lull
    <2>1. Init => Lull
      BY DEF Init, Lull, Idle
    <2> QED BY <2>1, InStepInit
  <1>2. Whole /\ InStepNow /\ Lull /\ [Next]_vars => InStepNow' /\ Lull'
    <2> SUFFICES ASSUME Whole, InStepNow, Lull, [Next]_vars PROVE InStepNow' /\ Lull'
      OBVIOUS
    <2>1. Typed
      BY DEF Whole
    <2>2. Lull'
      BY <2>1, LullKept
    <2>3. InStepNow'
      <3>1. CASE "fail" \notin work
        <4>1. Calm
          BY <3>1 DEF Calm, Lull
        <4> QED BY <4>1, InStepNext
      <3>2. CASE "fail" \in work
        <4>1. UNCHANGED work
          <5>1. CASE UNCHANGED vars
            BY <5>1 DEF vars
          <5>2. CASE Next
            BY <2>1, <5>2, SameWork
          <5> QED BY <5>1, <5>2
        <4> QED BY <3>2, <4>1 DEF InStepNow
      <3> QED BY <3>1, <3>2
    <2> QED BY <2>2, <2>3
  <1> QED BY <1>1, <1>2, WholeInvariant, InStepAgrees, PTL DEF Spec
=============================================================================
