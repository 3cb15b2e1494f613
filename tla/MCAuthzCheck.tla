---------------------------- MODULE MCAuthzCheck ----------------------------
(***************************************************************************)
(* The engine over the service's own namespace, one tenant and one         *)
(* document, with the tuples the service writes and the usersets and       *)
(* malformed rows the engine must cope with.                               *)
(***************************************************************************)
EXTENDS AuthzCheck, AuthzNamespace

CONSTANTS memory, t1, d1, u1, anyone

MCObjects == {memory, t1, d1, u1, anyone}
MCType == [o \in MCObjects |-> CASE o = memory -> "system" [] o = t1 -> "tenant"
                                 [] o = d1 -> "document" [] OTHER -> "user"]

On(o, r, s, sr) == [obj |-> o, rel |-> r, subj |-> s, srel |-> sr]

Wiring == {On(d1, "tenant", t1, ""), On(t1, "system", memory, "")}
SystemAdmin == On(memory, "admin", u1, "")
Admin == On(t1, "admin", u1, "")
Owner == On(t1, "owner", u1, "")
Public1 == On(t1, "viewer", anyone, "")
PublicMember == On(t1, "member", anyone, "")          \* its relation permits no wildcard
Circle == On(t1, "member", t1, "viewer")              \* viewers are members
Guests == On(t1, "viewer", d1, "viewer")              \* and so are the document's
Malformed == On(d1, "tenant", t1, "member")           \* a parent edge to a userset
Unknown == On(d1, "viewer", u1, "member")             \* users have no relations

Odd == {PublicMember, Malformed, Unknown}

MCTuples == Wiring \cup Odd \cup {SystemAdmin, Admin, Owner, Public1, Circle, Guests}
MCStores == {Wiring \cup UNION S :
                S \in SUBSET {{SystemAdmin}, {Admin}, {Public1}, {Circle, Guests}, Odd}}

\* A role granted, a role revoked, a tenant deleted.
MCCommits == {[add |-> {Owner}, del |-> {}], [add |-> {}, del |-> {Admin}],
              [add |-> {}, del |-> {t \in MCTuples : t.obj = t1 \/ t.subj = t1}]}

Ask1(o, r) == [obj |-> o, rel |-> r]
MCQueries == {Ask1(d1, "viewer"), Ask1(t1, "viewer"), Ask1(u1, "admin")}
=============================================================================
