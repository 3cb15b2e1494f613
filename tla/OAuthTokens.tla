---------------------------- MODULE OAuthTokens -----------------------------
(***************************************************************************)
(* The stores of authorization codes and refresh tokens                    *)
(* (internal/authletstore), and the token endpoint that uses them.  The    *)
(* endpoint belongs to the authlet library: it redeems a code with         *)
(* ConsumeOnce and saves the first token of a family; it rotates a token   *)
(* with Get, MarkUsed and Save and revokes the family when MarkUsed says   *)
(* the token was used before.  In which order it saves the successor and   *)
(* marks the token is not visible from here: both are modelled.            *)
(***************************************************************************)
EXTENDS Naturals

CONSTANTS Reqs,              \* requests to the token endpoint
          Codes, Tokens,     \* hashes; the family of a token is named by its code
          Users, None,
          CodeTTL, TokenTTL, \* lifetimes
          Retention,         \* how long the revocation of a family is kept
          MaxTime            \* bound on the clock

ASSUME TTLs == CodeTTL \in Nat /\ TokenTTL \in Nat /\ Retention \in Nat /\ MaxTime \in Nat
ASSUME Numbered == Reqs \subseteq Nat /\ Tokens \subseteq Nat /\ None \notin Nat
ASSUME CredsDisjoint == Codes \cap Tokens = {} /\ None \notin Codes \cup Tokens

VARIABLES codes, tokens,     \* oauth_codes, oauth_refresh_tokens
          revoked,           \* oauth_revoked_families: when each was revoked
          now, req,
          held,              \* credentials that have been handed to a client
          closed             \* families that were ever revoked (history)

tokenVars == <<codes, tokens, revoked, now, req, held, closed>>

Times == 0..(MaxTime + CodeTTL + TokenTTL)
CodeRow == [st : {"unused", "row", "gone"}, user : Users \cup {None}, exp : Times]
TokenRow == [st : {"unused", "row", "gone"}, user : Users \cup {None}, fam : Codes \cup {None},
             exp : Times, by : Tokens \cup {None}]
Pcs == {"idle", "read", "delete", "commit", "get", "family", "mark", "save", "revoke",
        "mint", "done", "failed"}
Request == [pc : Pcs, cred : Codes \cup Tokens \cup {None}, next : Tokens \cup {None},
            fam : Codes \cup {None}, user : Users \cup {None}, won : Codes \cup Tokens \cup {None},
            began : Times, late : BOOLEAN, claims : BOOLEAN]

NoCode == [st |-> "unused", user |-> None, exp |-> 0]
NoToken == [st |-> "unused", user |-> None, fam |-> None, exp |-> 0, by |-> None]
NoReq == [pc |-> "idle", cred |-> None, next |-> None, fam |-> None, user |-> None,
          won |-> None, began |-> 0, late |-> FALSE, claims |-> FALSE]

Active(r) == req[r].pc \notin {"idle", "done", "failed"}
At(r, pc) == req[r].pc = pc
GoTo(r, pc) == req' = [req EXCEPT ![r].pc = pc]
Refuse(r) == GoTo(r, "done")
Keep == UNCHANGED <<revoked, now, closed>>
\* Requests are numbered as they arrive.
Arrives(r) == At(r, "idle") /\ \A s \in Reqs : s < r => ~At(s, "idle")
\* A successor's hash is random: nobody else has it.
Fresh(t) == tokens[t].st = "unused" /\ \A r \in Reqs : req[r].next # t
\* Tokens are numbered as they are drawn.
NextToken(t) == Fresh(t) /\ \A s \in Tokens : s < t => ~Fresh(s)
Revoked(f) == revoked[f] # None

\* The authorization endpoint saves a code for the user that logged in.
SaveCode(c, u) ==
    /\ codes[c].st = "unused"
    /\ codes' = [codes EXCEPT ![c] = [st |-> "row", user |-> u, exp |-> now + CodeTTL]]
    /\ held' = held \cup {c}
    /\ UNCHANGED <<tokens, req>> /\ Keep

-----------------------------------------------------------------------------
(* ConsumeOnce: a transaction that reads the row, deletes it and commits.  *)

StartRedeem(r, c) ==
    /\ Arrives(r) /\ c \in held
    /\ req' = [req EXCEPT ![r] = [NoReq EXCEPT !.pc = "read", !.cred = c, !.fam = c, !.began = now]]
    /\ UNCHANGED <<codes, tokens, held>> /\ Keep

ReadCode(r) ==
    /\ At(r, "read")
    /\ GoTo(r, IF codes[req[r].cred].st = "row" THEN "delete" ELSE "done")
    /\ UNCHANGED <<codes, tokens, held>> /\ Keep

\* Nobody else holds the lock of the row he has deleted.
CodeFree(c, r) == \A s \in Reqs \ {r} : ~(At(s, "commit") /\ req[s].cred = c)

\* mutant: RowsAffected is not looked at
DeleteCodeMut(r) ==
    /\ At(r, "delete") /\ CodeFree(req[r].cred, r)
    /\ GoTo(r, "commit")
    /\ UNCHANGED <<codes, tokens, held>> /\ Keep
DeleteCode(r) ==
    /\ At(r, "delete") /\ CodeFree(req[r].cred, r)
    /\ GoTo(r, IF codes[req[r].cred].st = "row" THEN "commit" ELSE "done")
    /\ UNCHANGED <<codes, tokens, held>> /\ Keep

\* An expired code: the error rolls the DELETE back.
CodeExpired(r) ==
    /\ At(r, "commit") /\ now > codes[req[r].cred].exp
    /\ Refuse(r)
    /\ UNCHANGED <<codes, tokens, held>> /\ Keep

CommitCode(r) ==
    LET c == req[r].cred IN
    /\ At(r, "commit") /\ now <= codes[c].exp
    /\ codes' = [codes EXCEPT ![c].st = "gone"]
    /\ \E t \in Tokens : /\ NextToken(t)
                         /\ req' = [req EXCEPT ![r].pc = "save", ![r].won = c, ![r].next = t,
                                               ![r].user = codes[c].user]
    /\ UNCHANGED <<tokens, held>> /\ Keep

-----------------------------------------------------------------------------
(* Rotation of a refresh token.                                            *)

StartRotate(r, t) ==
    /\ Arrives(r) /\ t \in held
    /\ req' = [req EXCEPT ![r] = [NoReq EXCEPT !.pc = "get", !.cred = t, !.began = now,
                                               !.late = tokens[t].fam \in closed]]
    /\ UNCHANGED <<codes, tokens, held>> /\ Keep

\* Get reads the token ...
GetToken(r) ==
    LET row == tokens[req[r].cred] IN
    /\ At(r, "get")
    /\ req' = [req EXCEPT ![r].pc = IF row.st = "row" THEN "family" ELSE "done",
                          ![r].fam = row.fam, ![r].user = row.user]
    /\ UNCHANGED <<codes, tokens, held>> /\ Keep

\* ... and then asks whether its family was revoked.
GetRefused(r) ==
    /\ At(r, "family")
    /\ Revoked(req[r].fam) \/ now > tokens[req[r].cred].exp
    /\ Refuse(r)
    /\ UNCHANGED <<codes, tokens, held>> /\ Keep

GetOk(r) ==
    /\ At(r, "family")
    /\ ~Revoked(req[r].fam) /\ now <= tokens[req[r].cred].exp
    /\ \E t \in Tokens, pc \in {"mark", "save"} :
           NextToken(t) /\ req' = [req EXCEPT ![r].pc = pc, ![r].next = t]
    /\ UNCHANGED <<codes, tokens, held>> /\ Keep

\* MarkUsed: the conditional UPDATE, on the row as it is when its lock is had.
MarkUsed(r) ==
    LET t == req[r].cred IN
    /\ At(r, "mark") /\ tokens[t].st = "row" /\ tokens[t].by = None
    /\ tokens' = [tokens EXCEPT ![t].by = req[r].next]
    /\ req' = [req EXCEPT ![r].won = t,
                          ![r].pc = IF tokens[req[r].next].st = "unused" THEN "save" ELSE "mint"]
    /\ UNCHANGED <<codes, held>> /\ Keep

\* mutant: the caller refuses the token and leaves the family be
AlreadyConsumedMut(r) ==
    /\ At(r, "mark") /\ tokens[req[r].cred].st = "row" /\ tokens[req[r].cred].by # None
    /\ Refuse(r)
    /\ UNCHANGED <<codes, tokens, held>> /\ Keep
AlreadyConsumed(r) ==
    /\ At(r, "mark") /\ tokens[req[r].cred].st = "row" /\ tokens[req[r].cred].by # None
    /\ GoTo(r, "revoke")
    /\ UNCHANGED <<codes, tokens, held>> /\ Keep

MarkNotFound(r) ==
    /\ At(r, "mark") /\ tokens[req[r].cred].st # "row"
    /\ Refuse(r)
    /\ UNCHANGED <<codes, tokens, held>> /\ Keep

SaveToken(r) ==
    /\ At(r, "save")
    /\ tokens' = [tokens EXCEPT ![req[r].next] =
                    [st |-> "row", user |-> req[r].user, fam |-> req[r].fam,
                     exp |-> now + TokenTTL, by |-> None]]
    /\ GoTo(r, IF req[r].won = None THEN "mark" ELSE "mint")
    /\ UNCHANGED <<codes, held>> /\ Keep

RevokeFamily(r) ==
    LET f == req[r].fam IN
    /\ At(r, "revoke")
    /\ revoked' = [revoked EXCEPT ![f] = IF Revoked(f) THEN @ ELSE now]
    /\ closed' = closed \cup {f}
    /\ Refuse(r)
    /\ UNCHANGED <<codes, tokens, held, now>>

\* The answer: an access token with the claims of the user's row, if there is
\* one, and the refresh token.
Mint(r, found) ==
    /\ At(r, "mint")
    /\ req' = [req EXCEPT ![r].pc = "done", ![r].claims = found]
    /\ held' = held \cup {req[r].next}
    /\ UNCHANGED <<codes, tokens>> /\ Keep

\* A statement fails, or the client goes away; an open transaction rolls back.
FailToken(r) ==
    /\ Active(r) /\ GoTo(r, "failed")
    /\ UNCHANGED <<codes, tokens, held>> /\ Keep

-----------------------------------------------------------------------------
(* The clock and the hourly sweep.                                         *)

\* No request outlasts two turns of the clock.
Tick == /\ now < MaxTime
        /\ \A r \in Reqs : Active(r) => req[r].began = now
        /\ now' = now + 1
        /\ UNCHANGED <<codes, tokens, revoked, req, held, closed>>

\* mutant: a soft delete
PurgedMut(row) == [row EXCEPT !.st = "deleted"]
Purged(row) == [row EXCEPT !.st = "gone"]
Lapsed(rows) == {x \in DOMAIN rows : rows[x].st = "row" /\ rows[x].exp < now}

SweepCodes ==
    /\ Lapsed(codes) # {}
    /\ \A c \in Lapsed(codes), r \in Reqs : ~(At(r, "commit") /\ req[r].cred = c)
    /\ codes' = [c \in Codes |-> IF c \in Lapsed(codes) THEN Purged(codes[c]) ELSE codes[c]]
    /\ UNCHANGED <<tokens, req, held>> /\ Keep

\* mutant: the revocations go with the tokens
OldMut(f) == Revoked(f) /\ revoked[f] < now
Old(f) == Revoked(f) /\ revoked[f] + Retention < now

SweepTokens ==
    /\ Lapsed(tokens) # {} \/ \E f \in Codes : Old(f)
    /\ tokens' = [t \in Tokens |-> IF t \in Lapsed(tokens) THEN Purged(tokens[t]) ELSE tokens[t]]
    /\ revoked' = [f \in Codes |-> IF Old(f) THEN None ELSE revoked[f]]
    /\ UNCHANGED <<codes, now, req, held, closed>>

TokenStep(r) ==
    \/ ReadCode(r) \/ DeleteCode(r) \/ CodeExpired(r) \/ CommitCode(r)
    \/ GetToken(r) \/ GetRefused(r) \/ GetOk(r)
    \/ MarkUsed(r) \/ AlreadyConsumed(r) \/ MarkNotFound(r)
    \/ SaveToken(r) \/ RevokeFamily(r)

TokenEnv ==
    \/ \E r \in Reqs : \/ \E c \in Codes : StartRedeem(r, c)
                       \/ \E t \in Tokens : StartRotate(r, t)
    \/ Tick \/ SweepCodes \/ SweepTokens

TokenInit ==
    /\ codes = [c \in Codes |-> NoCode]
    /\ tokens = [t \in Tokens |-> NoToken]
    /\ revoked = [f \in Codes |-> None]
    /\ now = 0
    /\ req = [r \in Reqs |-> NoReq]
    /\ held = {} /\ closed = {}

TokenNext ==
    \/ \E r \in Reqs : TokenStep(r) \/ \E found \in BOOLEAN : Mint(r, found)
    \/ \E c \in Codes, u \in Users : SaveCode(c, u)
    \/ TokenEnv \/ \E r \in Reqs : FailToken(r)

TokenSpec == TokenInit /\ [][TokenNext]_tokenVars

-----------------------------------------------------------------------------
TokenTypeOK ==
    /\ codes \in [Codes -> CodeRow]
    /\ tokens \in [Tokens -> TokenRow]
    /\ revoked \in [Codes -> Times \cup {None}]
    /\ now \in 0..MaxTime
    /\ req \in [Reqs -> Request]
    /\ held \subseteq Codes \cup Tokens
    /\ closed \subseteq Codes

\* Codes and refresh tokens are one-time credentials: what the interleaved
\* transactions do to them is what the atomic store of OneTime does (the comment
\* on ConsumeOnce, "a code yields exactly one grant", and that on MarkUsed).
Once == INSTANCE OneTime WITH
    Creds <- Codes \cup Tokens,
    live  <- {c \in Codes : codes[c].st = "row"}
             \cup {t \in Tokens : tokens[t].st = "row" /\ tokens[t].by = None},
    spent <- {c \in Codes : codes[c].st = "gone"}
             \cup {t \in Tokens : tokens[t].st = "gone" \/ (tokens[t].st = "row" /\ tokens[t].by # None)},
    won   <- [r \in Reqs |-> req[r].won]
RedeemedOnce == Once!Spec

\* A refresh token presented by two requests of which one rotated it: once the
\* other has been answered, the family is revoked, unless the token has expired
\* (the contract MarkUsed states for its caller).
ReuseRevokes ==
    \A r, s \in Reqs :
        /\ r # s /\ req[r].won \in Tokens /\ req[s].cred = req[r].won /\ req[s].pc = "done"
        => tokens[req[r].won].fam \in closed \/ now > tokens[req[r].won].exp

\* A request that arrives after the family of its token was revoked rotates
\* nothing, whatever was in flight at the time and however long ago it was: the
\* revocation is forgotten only when the last token of the family has expired
\* (DeleteExpired's comment).
NoRevival == \A r \in Reqs : req[r].late => req[r].won = None
=============================================================================
