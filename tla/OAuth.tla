------------------------------- MODULE OAuth --------------------------------
(***************************************************************************)
(* The authorization server of the instance: sign-in, codes and tokens     *)
(* (OAuthLogin, OAuthTokens), and what a replica prepares at start-up and  *)
(* tends afterwards: the client row of the web UI and the signing keys.    *)
(***************************************************************************)
EXTENDS OAuthLogin, FiniteSets

CONSTANTS Replicas, Keys, Urls, MaxStops,
          Members,      \* users there are when only the token endpoint moves
          Work          \* which parts move in a behaviour

ASSUME FamilyInUse == \A W \in Work : "family" \in W =>
    Members # {} /\ Codes # {} /\ \E t \in Tokens : \A s \in Tokens : t <= s
ASSUME MembersAre == Members \subseteq Users /\ MaxStops \in Nat
ASSUME Someone == Idents # {} /\ None \notin Idents \cup Users /\ Keys # {}

VARIABLES ui,     \* the oauth_clients row of the UI client
          keys,   \* authlet_signing_keys
          boot,   \* start-up and key rotation of each replica
          work, stops

bootVars == <<ui, keys, boot, stops>>
vars == <<tokenVars, loginVars, bootVars, work>>

UiRow == [st : {"absent", "row"}, url : Urls \cup {None}, public : BOOLEAN]
KeyRow == [st : {"unused", "active", "inactive", "retired"}]
Boot == [pc : {"down", "get", "create", "update", "signer", "lock", "insert", "retire", "up", "failed"},
         url : Urls \cup {None}, off : SUBSET Keys, old : Keys \cup {None}, was : {"boot", "tend"}]

B(p, pc) == boot[p].pc = pc
Go(p, pc) == boot' = [boot EXCEPT ![p].pc = pc]
ActiveKeys == {k \in Keys : keys[k].st = "active"}

-----------------------------------------------------------------------------
(* SeedUIClient: get, then create or update.                               *)

Start(p, url) ==
    /\ B(p, "down")
    /\ boot' = [boot EXCEPT ![p] = [pc |-> "get", url |-> url, off |-> {}, old |-> None, was |-> "boot"]]
    /\ UNCHANGED <<ui, keys, stops>>

\* mutant: the client is registered at every start
SeedGetMut(p) ==
    /\ B(p, "get") /\ Go(p, "create")
    /\ UNCHANGED <<ui, keys, stops>>
SeedGet(p) ==
    /\ B(p, "get")
    /\ Go(p, IF ui.st = "absent" THEN "create"
             ELSE IF ~ui.public \/ ui.url = boot[p].url THEN "signer" ELSE "update")
    /\ UNCHANGED <<ui, keys, stops>>

SeedCreate(p) ==
    /\ B(p, "create")
    /\ IF ui.st = "absent"
       THEN ui' = [st |-> "row", url |-> boot[p].url, public |-> TRUE] /\ Go(p, "signer")
       ELSE UNCHANGED ui /\ Go(p, "failed")
    /\ UNCHANGED <<keys, stops>>

SeedUpdate(p) ==
    /\ B(p, "update")
    /\ ui' = IF ui.st = "row" THEN [ui EXCEPT !.url = boot[p].url] ELSE ui
    /\ Go(p, "signer")
    /\ UNCHANGED <<keys, stops>>

\* An operator registers a client of his own under the id.
Register == /\ ui.st = "absent" /\ stops < MaxStops
            /\ ui' = [st |-> "row", url |-> None, public |-> FALSE]
            /\ stops' = stops + 1
            /\ UNCHANGED <<keys, boot>>

\* What is seeded is public and never expires; the sweep asks for the latter.
Spared == ui.public
\* DeleteExpired of clients nobody has used for a while.
SweepClients == /\ ui.st = "row" /\ ~Spared
                /\ ui' = [st |-> "absent", url |-> None, public |-> FALSE]
                /\ UNCHANGED <<keys, boot, stops>>

-----------------------------------------------------------------------------
(* The signing keys: a start without a signer inserts one, and the hourly  *)
(* tending replaces one that has grown old and then retires it.            *)

ReadSigner(p) ==
    /\ B(p, "signer")
    /\ \/ ActiveKeys # {} /\ boot[p].was = "boot" /\ Go(p, "up")
       \/ ActiveKeys = {} /\ Go(p, "lock")
       \/ \E k \in ActiveKeys : boot[p].was = "tend"
                                /\ boot' = [boot EXCEPT ![p].pc = "lock", ![p].old = k]
    /\ UNCHANGED <<ui, keys, stops>>

Tend(p) == /\ B(p, "up") /\ \E k \in Keys : keys[k].st = "unused"
           /\ boot' = [boot EXCEPT ![p].pc = "signer", ![p].was = "tend"]
           /\ UNCHANGED <<ui, keys, stops>>

\* mutant: no advisory lock around deactivate-all and insert
LockFreeMut(p) == TRUE
LockFree(p) == \A q \in Replicas \ {p} : ~B(q, "insert")

\* The transaction of Insert: lock, deactivate what is active ...
Deactivate(p) == /\ B(p, "lock") /\ LockFree(p)
                 /\ boot' = [boot EXCEPT ![p].pc = "insert", ![p].off = ActiveKeys]
                 /\ UNCHANGED <<ui, keys, stops>>

\* ... insert, commit.
InsertKey(p) ==
    /\ B(p, "insert")
    /\ \/ \E k \in Keys :
            /\ keys[k].st = "unused"
            /\ keys' = [j \in Keys |-> [st |-> IF j = k THEN "active"
                                               ELSE IF j \in boot[p].off /\ keys[j].st = "active"
                                               THEN "inactive" ELSE keys[j].st]]
            /\ boot' = [boot EXCEPT ![p].off = {}, ![p].pc = IF boot[p].old = None THEN "up"
                                                                                     ELSE "retire"]
       \/ /\ \A k \in Keys : keys[k].st # "unused"     \* bound: no more keys
          /\ UNCHANGED keys
          /\ boot' = [boot EXCEPT ![p].off = {}, ![p].pc = "up"]
    /\ UNCHANGED <<ui, stops>>

Retire(p) == /\ B(p, "retire")
             /\ keys' = [keys EXCEPT ![boot[p].old].st = "retired"]
             /\ boot' = [boot EXCEPT ![p].pc = "up", ![p].old = None]
             /\ UNCHANGED <<ui, stops>>

\* A process stops anywhere, its transaction with it.
Stop(p) == /\ stops < MaxStops /\ boot[p].pc \notin {"down", "failed"}
           /\ stops' = stops + 1 /\ Go(p, "failed")
           /\ UNCHANGED <<ui, keys>>
\* The supervisor starts it again.
Restart(p) == /\ B(p, "failed")
              /\ boot' = [boot EXCEPT ![p] = [@ EXCEPT !.pc = "get", !.off = {}, !.old = None,
                                                       !.was = "boot"]]
              /\ UNCHANGED <<ui, keys, stops>>

BootStep(p) == \/ SeedGet(p) \/ SeedCreate(p) \/ SeedUpdate(p)
               \/ ReadSigner(p) \/ Deactivate(p) \/ InsertKey(p) \/ Retire(p) \/ Restart(p)

-----------------------------------------------------------------------------
\* mutant: the claims are those of the login
ClaimsMut(r) == TRUE
\* lookupUserClaims.
Claims(r) == IsUser(req[r].user)

Serve(r) == TokenStep(r) \/ Mint(r, Claims(r))
SignIn(l) == LoginStep(l) /\ UNCHANGED tokenVars

Answered(r) == Serve(r) /\ UNCHANGED <<loginVars, bootVars, work>>
SignedIn(l) == /\ SignIn(l) \/ \E c \in Codes : IssueCode(l, c)
               /\ UNCHANGED <<bootVars, work>>
Booted(p) == BootStep(p) /\ UNCHANGED <<tokenVars, loginVars, work>>

\* A client that has redeemed its code just now.
Granted(c, t) ==
    /\ codes = [d \in Codes |-> IF d = c THEN [NoCode EXCEPT !.st = "gone"] ELSE NoCode]
    /\ tokens = [s \in Tokens |-> IF s = t THEN [st |-> "row", user |-> CHOOSE u \in Members : TRUE,
                                                 fam |-> c, exp |-> TokenTTL, by |-> None]
                                            ELSE NoToken]
    /\ revoked = [f \in Codes |-> None] /\ now = 0
    /\ req = [r \in Reqs |-> NoReq] /\ held = {t} /\ closed = {}

Init == /\ work \in Work
        /\ \/ /\ "family" \in work
              /\ Granted(CHOOSE c \in Codes : TRUE, CHOOSE t \in Tokens : \A s \in Tokens : t <= s)
           \/ "family" \notin work /\ TokenInit
        /\ LoginInit
        /\ users = [u \in Users |-> IF "tokens" \in work /\ u \in Members
                                 THEN [NoUser EXCEPT !.st = "row"] ELSE NoUser]
        /\ mailbox \in [Emails -> IF "logins" \in work THEN Idents ELSE {CHOOSE i \in Idents : TRUE}]
        /\ ui = [st |-> "absent", url |-> None, public |-> FALSE]
        /\ keys = [k \in Keys |-> [st |-> "unused"]]
        /\ boot \in [Replicas -> [pc : {"down"}, url : {None}, off : {{}}, old : {None}, was : {"boot"}]]
        /\ stops = 0

Next ==
    \/ \E r \in Reqs : Answered(r)
    \/ "tokens" \in work /\ TokenEnv /\ UNCHANGED <<loginVars, bootVars, work>>
    \/ "fresh" \in work /\ UNCHANGED <<loginVars, bootVars, work>>
       /\ \/ \E r \in Reqs : FailToken(r)
          \* a login of before
          \/ \E c \in Codes, u \in Users : IsUser(u) /\ SaveCode(c, u)
    \/ "fresh" \in work /\ UNCHANGED <<tokenVars, bootVars, work>>
       /\ \E u \in Users : RevokeUser(u)
    \/ \E l \in Logins : SignedIn(l)
    \/ "logins" \in work /\ UNCHANGED <<tokenVars, bootVars, work>>
       /\ \/ \E l \in Logins, e \in Emails : Callback(l, e)
          \/ \E u \in Users : RevokeUser(u) \/ \E e \in Emails : GrantUser(u, e)
          \/ \E e \in Emails, i \in Idents : Reassign(e, i)
    \/ \E p \in Replicas : Booted(p)
    \/ "boot" \in work /\ UNCHANGED <<tokenVars, loginVars, work>>
       /\ \/ \E p \in Replicas : Tend(p) \/ Stop(p) \/ \E url \in Urls : Start(p, url)
          \/ SweepClients \/ ("operator" \in work /\ Register)

Fairness == /\ \A r \in Reqs : WF_vars(Answered(r))
            /\ \A l \in Logins : WF_vars(SignedIn(l))
            /\ \A p \in Replicas : WF_vars(Booted(p))

Spec == Init /\ [][Next]_vars /\ Fairness

-----------------------------------------------------------------------------
TypeOK == /\ TokenTypeOK /\ LoginTypeOK
          /\ ui \in UiRow /\ keys \in [Keys -> KeyRow] /\ boot \in [Replicas -> Boot]
          /\ stops \in 0..MaxStops /\ work \in Work

\* A refresh token outlives the membership of its user, an access token with
\* claims does not come of it: no answer to a request that came after the user
\* was removed carries them (lookupUserClaims, UserContextBridge).
Powerless == \A r \in Reqs : LET u == req[r].user IN
    req[r].claims /\ users[u].st = "gone" => users[u].removed >= req[r].began

\* A replica that is up finds a signer, and the web UI its client, whatever
\* the others start, tend and sweep meanwhile (a client of the operator's under
\* that id is his own affair); and there is one signer only.
Ready == /\ \A p \in Replicas : B(p, "up") =>
              ActiveKeys # {} /\ (ui.st = "row" \/ "operator" \in work)
         /\ Cardinality(ActiveKeys) <= 1

\* Every login and every request to the token endpoint ends, and replicas that
\* start at once, of which one may stumble over the client row the other has
\* just created, are all up in the end.
Settles == <>[](/\ \A r \in Reqs : ~Active(r)
                /\ \A l \in Logins : login[l].pc \in {"idle", "code", "done", "refused"}
                /\ \A p \in Replicas : boot[p].pc \in {"down", "up"})
=============================================================================
