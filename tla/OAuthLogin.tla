----------------------------- MODULE OAuthLogin -----------------------------
(***************************************************************************)
(* Signing in: from the identity and the address the upstream provider     *)
(* vouches for to a row of tenant_users (MemoryUserResolver), and from     *)
(* there to an authorization code.  A login is a series of statements, each *)
(* its own transaction; an address may pass to another identity, and rows  *)
(* come and go, between two of them.                                       *)
(***************************************************************************)
EXTENDS OAuthTokens

CONSTANTS Logins, Idents, Emails,
          AutoProvision     \* does the Provision callback create tenants?

ASSUME LoginsNumbered == Users \subseteq Nat /\ Logins \subseteq Nat

VARIABLES users,     \* tenant_users: address and identity, both unique
          mailbox,   \* whose each address is, upstream
          login

loginVars == <<users, mailbox, login>>

UserRow == [st : {"unused", "row", "gone"}, email : Emails \cup {None}, ident : Idents \cup {None},
            removed : Times]   \* when, if it is gone (history)
Login == [pc : {"idle", "subject", "refresh", "email", "stamp", "provision", "again", "code",
                "done", "refused"},
          ident : Idents \cup {None}, email : Emails \cup {None}, user : Users \cup {None},
          own : Users \cup {None}, others : SUBSET Users, code : Codes \cup {None}]
NoUser == [st |-> "unused", email |-> None, ident |-> None, removed |-> 0]
NoLogin == [pc |-> "idle", ident |-> None, email |-> None, user |-> None, own |-> None,
            others |-> {}, code |-> None]

IsUser(u) == users[u].st = "row"
WithEmail(e) == {u \in Users : IsUser(u) /\ users[u].email = e}
WithIdent(i) == {u \in Users : IsUser(u) /\ users[u].ident = i}
In(l, pc) == login[l].pc = pc
To(l, pc) == login' = [login EXCEPT ![l].pc = pc]
Found(l, u, pc) == login' = [login EXCEPT ![l].pc = pc, ![l].user = u]
Still == UNCHANGED <<users, mailbox>>

\* The provider vouches for an identity and its (verified) address.
Callback(l, e) ==
    /\ In(l, "idle") /\ \A k \in Logins : k < l => ~In(k, "idle")
    /\ \E own \in WithIdent(mailbox[e]) \cup {None} :
        /\ own = None => WithIdent(mailbox[e]) = {}
        /\ login' = [login EXCEPT ![l] =
             [NoLogin EXCEPT !.pc = "subject", !.ident = mailbox[e], !.email = e, !.own = own,
                !.others = {u \in Users : IsUser(u) /\ users[u].ident \notin {None, mailbox[e]}}]]
    /\ Still

\* mutant: the address first, as before identities were anchored
LookupSubjectMut(l) ==
    /\ In(l, "subject")
    /\ To(l, "email")
    /\ Still
LookupSubject(l) ==
    /\ In(l, "subject")
    /\ \/ \E u \in WithIdent(login[l].ident) :
            Found(l, u, IF users[u].email = login[l].email THEN "code" ELSE "refresh")
       \/ WithIdent(login[l].ident) = {} /\ To(l, "email")
    /\ Still

\* Never fails the login: an address that is taken stays where it is.
RefreshEmail(l) ==
    LET u == login[l].user IN
    /\ In(l, "refresh")
    /\ users' = IF IsUser(u) /\ WithEmail(login[l].email) \subseteq {u}
                THEN [users EXCEPT ![u].email = login[l].email] ELSE users
    /\ To(l, "code")
    /\ UNCHANGED mailbox

\* resolveEmailAnchored, before and after provisioning.
EmailOwn(l) ==
    /\ login[l].pc \in {"email", "again"}
    /\ \E u \in WithEmail(login[l].email) :
           users[u].ident = login[l].ident /\ Found(l, u, "code")
    /\ Still

\* mutant: the address is enough
MismatchMut(l, u) == FALSE
Mismatch(l, u) == users[u].ident \notin {None, login[l].ident}

EmailMismatch(l) ==
    /\ login[l].pc \in {"email", "again"}
    /\ \E u \in WithEmail(login[l].email) : Mismatch(l, u)
    /\ To(l, "refused")
    /\ Still

EmailAdopt(l) ==
    /\ login[l].pc \in {"email", "again"}
    /\ \E u \in WithEmail(login[l].email) :
           /\ users[u].ident # login[l].ident /\ ~Mismatch(l, u)
           /\ Found(l, u, "stamp")
    /\ Still

EmailMissing(l) ==
    /\ login[l].pc \in {"email", "again"} /\ WithEmail(login[l].email) = {}
    /\ To(l, IF In(l, "email") /\ AutoProvision THEN "provision" ELSE "refused")
    /\ Still

\* The guard is in the statement; nobody asks how many rows it changed.
StampSubject(l) ==
    LET u == login[l].user IN
    /\ In(l, "stamp")
    /\ users' = IF IsUser(u) /\ users[u].ident = None /\ WithIdent(login[l].ident) = {}
                THEN [users EXCEPT ![u].ident = login[l].ident] ELSE users
    /\ To(l, "code")
    /\ UNCHANGED mailbox

\* Rows and logins are numbered as they come.
FreshUser(u) == users[u].st = "unused" /\ \A v \in Users : v < u => users[v].st # "unused"

\* ProvisionPersonalTenant: the holder of the address if there is one, else a
\* new row anchored to the identity; a conflict on the identity is an error.
Provision(l) ==
    /\ In(l, "provision")
    /\ \/ /\ WithEmail(login[l].email) # {} /\ UNCHANGED users /\ To(l, "again")
       \/ /\ WithEmail(login[l].email) = {} /\ WithIdent(login[l].ident) = {}
          /\ \E u \in Users : /\ FreshUser(u)
                              /\ users' = [users EXCEPT ![u] = [NoUser EXCEPT !.st = "row",
                                       !.email = login[l].email, !.ident = login[l].ident]]
          /\ To(l, "again")
       \/ UNCHANGED users /\ To(l, "refused")        \* not allowed, or an error
    /\ UNCHANGED mailbox

\* The authorization server saves a code for the subject it was given.
IssueCode(l, c) ==
    /\ In(l, "code") /\ SaveCode(c, login[l].user)
    /\ login' = [login EXCEPT ![l].pc = "done", ![l].code = c]
    /\ Still

-----------------------------------------------------------------------------
(* Others change the table.                                                *)

\* GrantTenantUser, RevokeTenantUser (Tenancy).
GrantUser(u, e) ==
    /\ FreshUser(u) /\ WithEmail(e) = {}
    /\ users' = [users EXCEPT ![u] = [NoUser EXCEPT !.st = "row", !.email = e]]
    /\ UNCHANGED <<mailbox, login>>
RevokeUser(u) ==
    /\ IsUser(u)
    /\ users' = [users EXCEPT ![u] = [NoUser EXCEPT !.st = "gone", !.removed = now]]
    /\ UNCHANGED <<mailbox, login>>
\* The address passes to another person.
Reassign(e, i) ==
    /\ mailbox[e] # i
    /\ mailbox' = [mailbox EXCEPT ![e] = i]
    /\ UNCHANGED <<users, login>>

LoginStep(l) == \/ LookupSubject(l) \/ RefreshEmail(l)
                \/ EmailOwn(l) \/ EmailMismatch(l) \/ EmailAdopt(l) \/ EmailMissing(l)
                \/ StampSubject(l) \/ Provision(l)

LoginInit == /\ login = [l \in Logins |-> NoLogin]

LoginTypeOK == /\ users \in [Users -> UserRow]
               /\ mailbox \in [Emails -> Idents]
               /\ login \in [Logins -> Login]

Answer(l) == login[l].pc \in {"code", "done"}
\* The identity is the anchor: who had a row when he came is answered with that
\* row, whoever has his address now and whatever else he may adopt (Resolve).
SubjectFirst == \A l \in Logins :
    Answer(l) /\ login[l].own # None =>
        login[l].user = login[l].own \/ users[login[l].own].st = "gone"
\* No login is answered with a row that was another identity's when it began.
NotAnothers == \A l \in Logins : Answer(l) => login[l].user \notin login[l].others
=============================================================================
