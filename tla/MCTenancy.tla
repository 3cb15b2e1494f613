----------------------------- MODULE MCTenancy ------------------------------
(* Instances of Tenancy: a pool with room or a crowded one, a personal and a *)
(* shared tenant, and the scenarios that TLC runs from a fresh or a founded  *)
(* server.                                                                   *)
EXTENDS Tenancy

CONSTANTS td, tp, ts, tx, ea, eb, doc, none, sys, r1, r2, n1

MCTenants == {td, tp, ts, tx}
MCHome == [c \in {doc} |-> ts]
MCPolicy == [t \in MCTenants |-> IF t = tp THEN "open" ELSE "admin_only"]
MCPins == {None, User(1)}

Unused(n, row) == [i \in 1..n |-> row]
Row(e, t, role) == [st |-> "row", email |-> e, tenant |-> t, role |-> role]
Fresh(what) ==
    [tenants |-> [t \in MCTenants |-> IF t = td THEN "shared" ELSE "unused"], docs |-> {},
     users |-> Unused(MaxUser, NoUser), keys |-> Unused(MaxKey, NoKey), tuples |-> {}, work |-> what]

\* A founded server: the founding key's personal tenant, and a shared tenant
\* with the users of roles.
Given(us, what) ==
    [tenants |-> [t \in MCTenants |-> CASE t = tp -> "personal" [] t = tx -> "unused" [] OTHER -> "shared"], docs |-> {doc},
     users |-> [i \in 1..MaxUser |-> IF i <= Len(us) THEN us[i] ELSE NoUser],
     keys |-> [i \in 1..MaxKey |-> IF i = 1 THEN [NewKey(tp, None, 0, "live") EXCEPT !.founding = TRUE] ELSE NoKey],
     tuples |-> UNION {NewTenantTuples(t) : t \in {td, tp, ts}}
                \cup {SystemAdmin(Svc(tp)), Tup(tp, "owner", Svc(tp))}
                \cup UNION {{TenantMember(us[i].tenant, User(i))} \cup RoleTuples(us[i].tenant, us[i].role, User(i))
                            : i \in 1..Len(us)}
                \cup {SystemAdmin(Svc(us[i].tenant)) : i \in {i \in 1..Len(us) : us[i].role = "admin"}},
     work |-> what]

\* Room for another tenant.
Without(t, g) == [g EXCEPT !.tenants = [@ EXCEPT ![t] = "unused"], !.docs = {},
                           !.tuples = @ \ NewTenantTuples(t)]

Founding == {Fresh({"bootstrap", "provision"}), Fresh({"bootstrap", "reset"})}
Members == {Given(<<Row(ea, ts, "member")>>, {"update", "revoke"}),
            Given(<<Row(ea, ts, "admin")>>, {"update", "grant", "fail"}),
            Without(ts, Given(<<>>, {"grant", "create"})),
            Given(<<Row(ea, ts, "member")>>, {"share", "unshare", "revoke"})}
KeyWork == {Given(<<>>, {"rotate", "revokekey"}),
            Given(<<>>, {"rotate", "delkey", "grace"}),
            Given(<<Row(ea, tp, "owner")>>, {"key", "drop"})}
Others == {Given(<<Row(ea, tp, "owner")>>, {"drop", "rotate"}),
           Without(ts, Given(<<>>, {"provision", "retype"})),
           Without(ts, Given(<<>>, {"grant", "retype"})),
           Without(ts, Given(<<>>, {"grant", "provision"})),
           Without(ts, Given(<<>>, {"grant", "rotate"})),
           Without(ts, Given(<<>>, {"grant", "key"})),
           Given(<<Row(ea, tp, "owner")>>, {"retype", "drop", "key"})}
\* Requests that need the rows and tuples of a tenant that is being deleted.
Deletions == {Given(<<Row(ea, ts, "member")>>, {"update", "drop"}),
              Given(<<Row(ea, ts, "admin")>>, {"grant", "revoke", "drop"}),
              Given(<<Row(ea, ts, "member")>>, {"share", "unshare", "drop"})}
\* As many requests as there are connections.
Crowds == {Given(<<Row(ea, ts, "member")>>, {"update", "rotate", "crowd"}),
           Given(<<>>, {"drop", "rotate", "crowd"})}
AllStarts == Founding \cup Members \cup KeyWork \cup Others \cup Deletions \cup Crowds

\* Users of the founding key's own tenant.
Household == {Given(<<Row(ea, tp, "owner")>>, {"update", "bootstrap"})}
=============================================================================
