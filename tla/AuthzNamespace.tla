--------------------------- MODULE AuthzNamespace ---------------------------
(***************************************************************************)
(* The namespace of the memory service: the relations of each object type  *)
(* and their rewrites, a value for the constant Namespace of AuthzCheck.   *)
(***************************************************************************)
This == [kind |-> "this", tupleset |-> "", relation |-> ""]
Computed(r) == [kind |-> "computed", tupleset |-> "", relation |-> r]
From(ts, r) == [kind |-> "from", tupleset |-> ts, relation |-> r]

Relation(rewrites) == [rewrites |-> rewrites, wild |-> {}]
Public(rewrites) == [rewrites |-> rewrites, wild |-> {"user"}]

SystemType == [admin |-> Relation(<<This>>)]

TenantType ==
    [system  |-> Relation(<<This>>),
     admin   |-> Relation(<<This, From("system", "admin")>>),
     owner   |-> Relation(<<This>>),
     manager |-> Relation(<<This, Computed("admin"), Computed("owner")>>),
     member  |-> Relation(<<This, Computed("manager")>>),
     viewer  |-> Public(<<This, Computed("member")>>)]

DocumentType ==
    [tenant |-> Relation(<<This>>),
     viewer |-> Relation(<<This, Computed("editor"), From("tenant", "viewer")>>),
     editor |-> Relation(<<This, From("tenant", "member")>>)]

Types == [system |-> SystemType, tenant |-> TenantType, document |-> DocumentType]

RelationNames == {"admin", "owner", "manager", "member", "viewer", "editor", "system", "tenant"}

DefaultNamespace ==
    [k \in {<<t, r>> \in (DOMAIN Types) \X RelationNames : r \in DOMAIN Types[t]} |->
        Types[k[1]][k[2]]]
=============================================================================
