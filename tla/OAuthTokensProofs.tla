------------------------- MODULE OAuthTokensProofs --------------------------
(***************************************************************************)
(* What holds of the authorization codes and refresh tokens for every      *)
(* number of requests, codes and tokens and all lifetimes: they are        *)
(* redeemed once, reuse is answered by a revocation, and, if revocations   *)
(* are kept longer than tokens live, a revoked family stays so.            *)
(***************************************************************************)
EXTENDS OAuthTokens, TLAPS

Redeems == {"read", "delete", "commit"}
Rotates == {"get", "family", "mark", "revoke"}
\* Past Get: the request knows the family, and may add a token to it.
Knows == {"family", "mark", "save", "revoke"}

\* What a request carries fits what it is about to do, and the rows it carries
\* are there: the code it has deleted, the token it presents, and its successor,
\* unless that is still to be saved.
Shape(r) == LET q == req[r] IN
    /\ q.pc = "idle" => q.cred = None /\ q.next = None /\ q.won = None /\ ~q.late
    /\ q.pc \in Redeems => q.cred \in Codes /\ q.fam = q.cred /\ q.next = None /\ q.won = None
    /\ q.pc \in Rotates => q.cred \in Tokens /\ q.won = None
    /\ q.pc \in Knows => q.fam \in Codes
    /\ q.pc \in {"mark", "save", "mint"} => q.next \in Tokens
    /\ q.pc = "commit" => codes[q.cred].st = "row"
    /\ q.pc = "save" => tokens[q.next].st = "unused"
    /\ q.pc = "mint" => tokens[q.next].st # "unused" /\ q.won # None
    /\ q.pc \in {"family", "mark", "revoke"} => q.fam = tokens[q.cred].fam
    /\ q.pc = "save" /\ q.won = None => q.cred \in Tokens /\ q.fam = tokens[q.cred].fam
    /\ q.cred \in Tokens => tokens[q.cred].st # "unused"
    /\ q.won \in {None, q.cred}
\* What a request has redeemed is spent.
Spends(r) == LET w == req[r].won IN
    /\ w \in Codes => codes[w].st = "gone"
    /\ w \in Tokens => tokens[w].st # "unused" /\ (tokens[w].st = "row" => tokens[w].by # None)
Known(t) == tokens[t].st # "unused" => tokens[t].fam \in Codes
Handed == \A t \in held \cap Tokens : tokens[t].st # "unused"
\* The locks of code rows, the random hashes and the winners are one's own.
Own == \A r, s \in Reqs :
    \/ r = s
    \/ /\ req[r].next = None \/ req[r].next # req[s].next
       /\ req[r].won = None \/ req[r].won # req[s].won
       /\ req[r].pc # "commit" \/ req[s].pc # "commit" \/ req[r].cred # req[s].cred
Shapes == /\ \A r \in Reqs : Shape(r) /\ Spends(r)
          /\ \A t \in Tokens : Known(t)
          /\ Handed /\ Own

\* A request that presented a token and was answered won it, or the family is
\* revoked, or the token has expired.
Told(r) == LET t == req[r].cred IN
    req[r].pc = "done" /\ t \in Tokens =>
        req[r].won = t \/ tokens[t].fam \in closed \/ now > tokens[t].exp
Answers == /\ \A r \in Reqs : Told(r)
           /\ \A t \in Tokens : tokens[t].st = "gone" => tokens[t].exp < now
           /\ \A f \in Codes : Revoked(f) => f \in closed

\* No request is older than one turn of the clock.
Young(r) == Active(r) => req[r].began <= now /\ now <= req[r].began + 1
\* A code that was not redeemed has no family, nor has one whose first token is
\* still to be saved.
NoFamily(f) == /\ f \notin closed
               /\ \A t \in Tokens : tokens[t].st # "unused" => tokens[t].fam # f
Unborn == \A c \in Codes : codes[c].st # "gone" =>
              NoFamily(c) /\ \A r \in Reqs : req[r].pc \in Knows => req[r].fam # c
Newborn == \A r \in Reqs : req[r].pc = "save" /\ req[r].won \in Codes =>
              /\ req[r].fam = req[r].won /\ NoFamily(req[r].fam)
              /\ \A s \in Reqs \ {r} : req[s].pc \in Knows => req[s].fam # req[r].fam
\* Who may still add a token to a revoked family came before it was revoked, so
\* the family ends within one turn of the clock and the life of a token.
Ends(f) == Revoked(f) =>
    /\ \A t \in Tokens : tokens[t].st # "unused" /\ tokens[t].fam = f =>
           tokens[t].exp <= revoked[f] + 1 + TokenTTL
    /\ \A r \in Reqs : req[r].pc \in {"mark", "save"} /\ req[r].fam = f => req[r].began <= revoked[f]
\* When the revocation is forgotten, it is past that.
Forgotten(f) == f \in closed /\ ~Revoked(f) =>
    /\ \A t \in Tokens : tokens[t].st # "unused" /\ tokens[t].fam = f => tokens[t].exp < now
    /\ \A r \in Reqs : req[r].pc \in {"mark", "save"} => req[r].fam # f
Late(r) == LET q == req[r] IN q.late =>
    /\ q.pc \in {"get", "family", "done", "failed"} /\ q.won = None
    /\ q.pc \in {"get", "family"} => tokens[q.cred].fam \in closed
Families == /\ \A r \in Reqs : Young(r) /\ Late(r)
            /\ \A t \in Tokens : tokens[t].st # "unused" => tokens[t].exp <= now + TokenTTL
            /\ Unborn /\ Newborn
            /\ \A f \in Codes : Ends(f) /\ Forgotten(f)

-----------------------------------------------------------------------------
(* Types.                                                                  *)

\* A blank row is a row.
LEMMA Blanks == NoCode \in CodeRow /\ NoToken \in TokenRow /\ NoReq \in Request
  <1>1. 0 \in Times
    BY TTLs DEF Times
  <1> QED BY <1>1 DEF NoCode, CodeRow, NoToken, TokenRow, NoReq, Request, Pcs

\* The times that are written are within the bounds.
LEMMA Clocks ==
  ASSUME now \in 0..MaxTime
  PROVE  /\ now \in Nat /\ now \in Times /\ now + CodeTTL \in Times /\ now + TokenTTL \in Times
         /\ Times \subseteq Nat
  BY TTLs DEF Times

\* A step that changes one request leaves the others alone.
LEMMA OneReq ==
  ASSUME req \in [Reqs -> Request], NEW r \in Reqs, NEW x \in Request, req' = [req EXCEPT ![r] = x]
  PROVE  req' \in [Reqs -> Request] /\ req'[r] = x /\ \A s \in Reqs \ {r} : req'[s] = req[s]
  OBVIOUS

\* A step that moves one request on changes nothing else of it.
LEMMA MovesOn ==
  ASSUME req \in [Reqs -> Request], NEW r \in Reqs, NEW pc \in Pcs, GoTo(r, pc)
  PROVE  /\ req' \in [Reqs -> Request]
         /\ req'[r].pc = pc /\ req'[r].cred = req[r].cred /\ req'[r].next = req[r].next
         /\ req'[r].fam = req[r].fam /\ req'[r].won = req[r].won /\ req'[r].user = req[r].user
         /\ req'[r].began = req[r].began /\ req'[r].late = req[r].late
         /\ \A s \in Reqs \ {r} : req'[s] = req[s]
  <1> DEFINE x == [req[r] EXCEPT !.pc = pc]
  <1>1. req[r] \in Request
    OBVIOUS
  <1>2. x \in Request
    BY <1>1 DEF Request
  <1>3. req' = [req EXCEPT ![r] = x]
    BY DEF GoTo
  <1>4. /\ x.pc = pc /\ x.cred = req[r].cred /\ x.next = req[r].next /\ x.fam = req[r].fam
        /\ x.won = req[r].won /\ x.user = req[r].user /\ x.began = req[r].began /\ x.late = req[r].late
    BY <1>1 DEF Request
  <1> HIDE DEF x
  <1> QED BY <1>2, <1>3, <1>4, OneReq

\* The parts of the type invariant a step may change.
CodesOK == codes \in [Codes -> CodeRow]
TokensOK == tokens \in [Tokens -> TokenRow]
ReqsOK == req \in [Reqs -> Request]
RestOK == /\ revoked \in [Codes -> Times \cup {None}] /\ now \in 0..MaxTime
          /\ held \subseteq Codes \cup Tokens /\ closed \subseteq Codes

\* Every step keeps the tables and the requests well typed.
LEMMA TypeStep ==
  ASSUME TokenTypeOK, Shapes, [TokenNext]_tokenVars
  PROVE  TokenTypeOK'
  <1> SUFFICES CodesOK' /\ TokensOK' /\ ReqsOK' /\ RestOK'
    BY DEF TokenTypeOK, CodesOK, TokensOK, ReqsOK, RestOK
  <1>t. CodesOK /\ TokensOK /\ ReqsOK /\ RestOK
    BY DEF TokenTypeOK, CodesOK, TokensOK, ReqsOK, RestOK
  <1>c. /\ now \in Nat /\ now \in Times /\ now + CodeTTL \in Times /\ now + TokenTTL \in Times
    BY <1>t, Clocks DEF RestOK
  <1>r. \A r \in Reqs : /\ req[r] \in Request /\ req[r].user \in Users \cup {None}
                        /\ req[r].fam \in Codes \cup {None}
    BY <1>t DEF ReqsOK, Request
  <1>s. \A r \in Reqs : Shape(r)
    BY DEF Shapes
  <1>1. ASSUME NEW r \in Reqs,
               \/ ReadCode(r) \/ DeleteCode(r) \/ CodeExpired(r) \/ GetRefused(r)
               \/ AlreadyConsumed(r) \/ MarkNotFound(r) \/ FailToken(r)
        PROVE  CodesOK' /\ TokensOK' /\ ReqsOK' /\ RestOK'
    <2>1. PICK pc \in Pcs : GoTo(r, pc)
      BY <1>1 DEF ReadCode, DeleteCode, CodeExpired, GetRefused, AlreadyConsumed, MarkNotFound,
                  FailToken, Refuse, Pcs
    <2>2. ReqsOK'
      BY <1>t, <2>1, MovesOn DEF ReqsOK
    <2> QED
      BY <1>1, <1>t, <2>2
      DEF ReadCode, DeleteCode, CodeExpired, GetRefused, AlreadyConsumed, MarkNotFound, FailToken,
          Keep, CodesOK, TokensOK, RestOK
  <1>2. ASSUME NEW r \in Reqs, NEW c \in Codes, StartRedeem(r, c)
        PROVE  CodesOK' /\ TokensOK' /\ ReqsOK' /\ RestOK'
    <2>1. ReqsOK'
      <3>1. [NoReq EXCEPT !.pc = "read", !.cred = c, !.fam = c, !.began = now] \in Request
        BY <1>c, Blanks DEF Request, Pcs
      <3> QED BY <1>2, <1>t, <3>1, OneReq DEF StartRedeem, ReqsOK
    <2> QED BY <1>2, <1>t, <2>1 DEF StartRedeem, Keep, CodesOK, TokensOK, RestOK
  <1>3. ASSUME NEW r \in Reqs, NEW t \in Tokens, StartRotate(r, t)
        PROVE  CodesOK' /\ TokensOK' /\ ReqsOK' /\ RestOK'
    <2>1. ReqsOK'
      <3> DEFINE x == [NoReq EXCEPT !.pc = "get", !.cred = t, !.began = now,
                                    !.late = tokens[t].fam \in closed]
      <3>1. x \in Request
        <4>1. \A b \in BOOLEAN :
                 [NoReq EXCEPT !.pc = "get", !.cred = t, !.began = now, !.late = b] \in Request
          BY <1>c, Blanks DEF Request, Pcs
        <4>2. (tokens[t].fam \in closed) \in BOOLEAN
          OBVIOUS
        <4> QED BY <4>1, <4>2, Zenon
      <3>2. req' = [req EXCEPT ![r] = x]
        BY <1>3 DEF StartRotate
      <3> HIDE DEF x
      <3> QED BY <1>t, <3>1, <3>2, OneReq DEF ReqsOK
    <2> QED BY <1>3, <1>t, <2>1 DEF StartRotate, Keep, CodesOK, TokensOK, RestOK
  <1>4. ASSUME NEW r \in Reqs, CommitCode(r)
        PROVE  CodesOK' /\ TokensOK' /\ ReqsOK' /\ RestOK'
    <2>1. req[r].cred \in Codes
      BY <1>4, <1>s DEF CommitCode, At, Shape, Redeems
    <2>2. codes[req[r].cred] \in CodeRow
      BY <1>t, <2>1 DEF CodesOK
    <2>3. [codes[req[r].cred] EXCEPT !.st = "gone"] \in CodeRow /\ codes[req[r].cred].user \in Users \cup {None}
      BY <2>2 DEF CodeRow
    <2>4. CodesOK'
      BY <1>4, <1>t, <2>3 DEF CommitCode, CodesOK
    <2>5. PICK t \in Tokens : req' = [req EXCEPT ![r].pc = "save", ![r].won = req[r].cred, ![r].next = t,
                                                 ![r].user = codes[req[r].cred].user]
      BY <1>4 DEF CommitCode
    <2>6. [req[r] EXCEPT !.pc = "save", !.won = req[r].cred, !.next = t,
                         !.user = codes[req[r].cred].user] \in Request
      BY <1>r, <2>1, <2>3 DEF Request, Pcs
    <2>7. ReqsOK'
      BY <1>t, <2>5, <2>6, OneReq DEF ReqsOK
    <2> QED BY <1>4, <1>t, <2>4, <2>7 DEF CommitCode, Keep, TokensOK, RestOK
  <1>5. ASSUME NEW r \in Reqs, GetToken(r)
        PROVE  CodesOK' /\ TokensOK' /\ ReqsOK' /\ RestOK'
    <2>1. req[r].cred \in Tokens
      BY <1>5, <1>s DEF GetToken, At, Shape, Rotates
    <2>2. /\ tokens[req[r].cred].fam \in Codes \cup {None}
          /\ tokens[req[r].cred].user \in Users \cup {None}
      BY <1>t, <2>1 DEF TokensOK, TokenRow
    <2>3. PICK pc \in Pcs : req' = [req EXCEPT ![r].pc = pc, ![r].fam = tokens[req[r].cred].fam,
                                               ![r].user = tokens[req[r].cred].user]
      BY <1>5 DEF GetToken, Pcs
    <2>4. [req[r] EXCEPT !.pc = pc, !.fam = tokens[req[r].cred].fam,
                         !.user = tokens[req[r].cred].user] \in Request
      BY <1>r, <2>2 DEF Request
    <2>5. ReqsOK'
      BY <1>t, <2>3, <2>4, OneReq DEF ReqsOK
    <2> QED BY <1>5, <1>t, <2>5 DEF GetToken, Keep, CodesOK, TokensOK, RestOK
  <1>6. ASSUME NEW r \in Reqs, GetOk(r)
        PROVE  CodesOK' /\ TokensOK' /\ ReqsOK' /\ RestOK'
    <2>1. PICK t \in Tokens, pc \in Pcs : req' = [req EXCEPT ![r].pc = pc, ![r].next = t]
      BY <1>6 DEF GetOk, Pcs
    <2>2. [req[r] EXCEPT !.pc = pc, !.next = t] \in Request
      BY <1>r DEF Request
    <2>3. ReqsOK'
      BY <1>t, <2>1, <2>2, OneReq DEF ReqsOK
    <2> QED BY <1>6, <1>t, <2>3 DEF GetOk, Keep, CodesOK, TokensOK, RestOK
  <1>7. ASSUME NEW r \in Reqs, MarkUsed(r)
        PROVE  CodesOK' /\ TokensOK' /\ ReqsOK' /\ RestOK'
    <2>1. req[r].cred \in Tokens /\ req[r].next \in Tokens
      BY <1>7, <1>s DEF MarkUsed, At, Shape, Rotates
    <2>2. [tokens[req[r].cred] EXCEPT !.by = req[r].next] \in TokenRow
      BY <1>t, <2>1 DEF TokensOK, TokenRow
    <2>3. TokensOK'
      BY <1>7, <1>t, <2>1, <2>2 DEF MarkUsed, TokensOK
    <2>4. PICK pc \in Pcs : req' = [req EXCEPT ![r].won = req[r].cred, ![r].pc = pc]
      BY <1>7 DEF MarkUsed, Pcs
    <2>5. [req[r] EXCEPT !.won = req[r].cred, !.pc = pc] \in Request
      BY <1>r, <2>1 DEF Request
    <2>6. ReqsOK'
      BY <1>t, <2>4, <2>5, OneReq DEF ReqsOK
    <2> QED BY <1>7, <1>t, <2>3, <2>6 DEF MarkUsed, Keep, CodesOK, RestOK
  <1>8. ASSUME NEW r \in Reqs, SaveToken(r)
        PROVE  CodesOK' /\ TokensOK' /\ ReqsOK' /\ RestOK'
    <2>1. [st |-> "row", user |-> req[r].user, fam |-> req[r].fam, exp |-> now + TokenTTL, by |-> None]
             \in TokenRow
      BY <1>r, <1>c DEF TokenRow
    <2>2. TokensOK'
      BY <1>8, <1>t, <2>1 DEF SaveToken, TokensOK
    <2>3. PICK pc \in Pcs : GoTo(r, pc)
      BY <1>8 DEF SaveToken, Pcs
    <2>4. ReqsOK'
      BY <1>t, <2>3, MovesOn DEF ReqsOK
    <2> QED BY <1>8, <1>t, <2>2, <2>4 DEF SaveToken, Keep, CodesOK, RestOK
  <1>9. ASSUME NEW r \in Reqs, RevokeFamily(r)
        PROVE  CodesOK' /\ TokensOK' /\ ReqsOK' /\ RestOK'
    <2>1. req[r].fam \in Codes /\ GoTo(r, "done") /\ "done" \in Pcs
      BY <1>9, <1>s DEF RevokeFamily, Refuse, At, Shape, Knows, Pcs
    <2>2. ReqsOK'
      BY <1>t, <2>1, MovesOn DEF ReqsOK
    <2>3. RestOK'
      BY <1>9, <1>t, <1>c, <2>1 DEF RevokeFamily, RestOK
    <2> QED BY <1>9, <1>t, <2>2, <2>3 DEF RevokeFamily, CodesOK, TokensOK
  <1>10. ASSUME NEW r \in Reqs, NEW found \in BOOLEAN, Mint(r, found)
         PROVE  CodesOK' /\ TokensOK' /\ ReqsOK' /\ RestOK'
    <2>1. [req[r] EXCEPT !.pc = "done", !.claims = found] \in Request
      BY <1>r DEF Request, Pcs
    <2>2. req' = [req EXCEPT ![r] = [req[r] EXCEPT !.pc = "done", !.claims = found]]
      BY <1>10 DEF Mint
    <2>3. ReqsOK'
      BY <1>t, <2>1, <2>2, OneReq DEF ReqsOK
    <2>4. req[r].next \in Tokens
      BY <1>10, <1>s DEF Mint, At, Shape
    <2> QED BY <1>10, <1>t, <2>3, <2>4 DEF Mint, Keep, CodesOK, TokensOK, RestOK
  <1>11. ASSUME NEW c \in Codes, NEW u \in Users, SaveCode(c, u)
         PROVE  CodesOK' /\ TokensOK' /\ ReqsOK' /\ RestOK'
    <2>1. [st |-> "row", user |-> u, exp |-> now + CodeTTL] \in CodeRow
      BY <1>11, <1>c DEF CodeRow
    <2>2. CodesOK'
      BY <1>11, <1>t, <2>1 DEF SaveCode, CodesOK
    <2> QED BY <1>11, <1>t, <2>2 DEF SaveCode, Keep, TokensOK, ReqsOK, RestOK
  <1>12. ASSUME Tick PROVE CodesOK' /\ TokensOK' /\ ReqsOK' /\ RestOK'
    BY <1>12, <1>t, TTLs DEF Tick, CodesOK, TokensOK, ReqsOK, RestOK
  <1>13. ASSUME SweepCodes PROVE CodesOK' /\ TokensOK' /\ ReqsOK' /\ RestOK'
    <2>1. \A row \in CodeRow : Purged(row) \in CodeRow
      BY DEF Purged, CodeRow
    <2>2. CodesOK'
      BY <1>13, <1>t, <2>1 DEF SweepCodes, CodesOK
    <2> QED BY <1>13, <1>t, <2>2 DEF SweepCodes, Keep, TokensOK, ReqsOK, RestOK
  <1>14. ASSUME SweepTokens PROVE CodesOK' /\ TokensOK' /\ ReqsOK' /\ RestOK'
    <2>1. \A row \in TokenRow : Purged(row) \in TokenRow
      BY DEF Purged, TokenRow
    <2>2. TokensOK'
      BY <1>14, <1>t, <2>1 DEF SweepTokens, TokensOK
    <2> QED BY <1>14, <1>t, <2>2 DEF SweepTokens, CodesOK, ReqsOK, RestOK
  <1>15. ASSUME UNCHANGED tokenVars PROVE CodesOK' /\ TokensOK' /\ ReqsOK' /\ RestOK'
    BY <1>15, <1>t DEF tokenVars, CodesOK, TokensOK, ReqsOK, RestOK
  <1> QED
    BY <1>1, <1>2, <1>3, <1>4, <1>5, <1>6, <1>7, <1>8, <1>9, <1>10, <1>11, <1>12, <1>13, <1>14, <1>15
    DEF TokenNext, TokenStep, TokenEnv

-----------------------------------------------------------------------------
(* What is spent stays spent, and what is one's own stays so.              *)

\* A step of others that spends codes and tokens, and brings none back, leaves
\* a request as it was, if it spares the code row whose lock he holds and the
\* hash he has drawn.
CodesGrow == \A c \in Codes : codes[c].st = "gone" => codes'[c].st = "gone"
TokensGrow == \A t \in Tokens : tokens[t].st # "unused" =>
    /\ tokens'[t].st # "unused" /\ tokens'[t].fam = tokens[t].fam
    /\ (tokens[t].st = "row" => tokens[t].by # None) => (tokens'[t].st = "row" => tokens'[t].by # None)

\* What others do leaves a request the credentials it has taken.
LEMMA OthersKeep ==
  ASSUME Shapes, NEW s \in Reqs, req'[s] = req[s], CodesGrow, TokensGrow,
         req[s].pc = "commit" => codes'[req[s].cred].st = "row",
         req[s].pc = "save" => tokens'[req[s].next].st = "unused"
  PROVE  Shape(s)' /\ Spends(s)'
  <1>1. Shape(s) /\ Spends(s)
    BY DEF Shapes
  <1>2. req[s].cred \in Tokens => tokens'[req[s].cred].st # "unused"
                                  /\ tokens'[req[s].cred].fam = tokens[req[s].cred].fam
    BY <1>1 DEF Shape, TokensGrow
  <1>3. Shape(s)'
    BY <1>1, <1>2 DEF Shape, TokensGrow, Rotates, Redeems, Knows
  <1>4. Spends(s)'
    BY <1>1 DEF Spends, CodesGrow, TokensGrow
  <1> QED BY <1>3, <1>4

\* A step that changes one request and no table.
LEMMA ReqOnly ==
  ASSUME Shapes, NEW r \in Reqs, \A s \in Reqs \ {r} : req'[s] = req[s],
         codes' = codes, tokens' = tokens, held' = held,
         Shape(r)', req'[r].won = req[r].won \/ req'[r].won = None,
         req'[r].next = req[r].next \/ \A s \in Reqs \ {r} : req[s].next # req'[r].next,
         req'[r].pc = "commit" =>
             \A s \in Reqs \ {r} : ~(req[s].pc = "commit" /\ req[s].cred = req'[r].cred)
  PROVE  Shapes'
  <1>1. CodesGrow /\ TokensGrow
    BY DEF CodesGrow, TokensGrow
  <1>2. \A s \in Reqs : Shape(s) /\ Spends(s)
    BY DEF Shapes
  <1>3. \A s \in Reqs \ {r} : Shape(s)' /\ Spends(s)'
    <2> TAKE s \in Reqs \ {r}
    <2>1. req[s].pc = "commit" => codes'[req[s].cred].st = "row"
      BY <1>2 DEF Shape
    <2>2. req[s].pc = "save" => tokens'[req[s].next].st = "unused"
      BY <1>2 DEF Shape
    <2> QED BY <1>1, <2>1, <2>2, OthersKeep
  <1>4. Spends(r)'
    <2>1. CASE req'[r].won = req[r].won
      BY <1>2, <2>1 DEF Spends
    <2>2. CASE req'[r].won = None
      BY <2>2, CredsDisjoint DEF Spends
    <2> QED BY <2>1, <2>2
  <1>5. Own'
    BY DEF Shapes, Own
  <1>6. (\A t \in Tokens : Known(t)') /\ Handed'
    BY DEF Shapes, Known, Handed
  <1> QED BY <1>3, <1>4, <1>5, <1>6 DEF Shapes

\* A step that only moves a request on.
LEMMA PcOnly ==
  ASSUME TokenTypeOK, Shapes, NEW r \in Reqs, NEW pc \in Pcs, GoTo(r, pc), pc # "idle",
         codes' = codes, tokens' = tokens, held' = held,
         pc \in Redeems => req[r].pc \in Redeems,
         pc \in Rotates \/ pc \in Knows => req[r].pc \in {"family", "mark"} /\ pc # "save",
         pc = "commit" =>
             /\ codes[req[r].cred].st = "row"
             /\ \A s \in Reqs \ {r} : ~(req[s].pc = "commit" /\ req[s].cred = req[r].cred),
         pc # "mint", pc # "mark"
  PROVE  Shapes'
  <1>1. /\ req'[r].pc = pc /\ req'[r].cred = req[r].cred /\ req'[r].next = req[r].next
        /\ req'[r].fam = req[r].fam /\ req'[r].won = req[r].won
        /\ \A s \in Reqs \ {r} : req'[s] = req[s]
    BY MovesOn DEF TokenTypeOK
  <1>2. Shape(r)
    BY DEF Shapes
  <1>3. Shape(r)'
    BY <1>1, <1>2 DEF Shape, Redeems, Rotates, Knows
  <1> QED BY <1>1, <1>3, ReqOnly

\* Every step keeps the shapes.
LEMMA ShapesStep ==
  ASSUME TokenTypeOK, Shapes, [TokenNext]_tokenVars, TokenTypeOK'
  PROVE  Shapes'
  <1>t. /\ codes \in [Codes -> CodeRow] /\ tokens \in [Tokens -> TokenRow] /\ req \in [Reqs -> Request]
        /\ codes' \in [Codes -> CodeRow] /\ tokens' \in [Tokens -> TokenRow]
        /\ req' \in [Reqs -> Request]
    BY DEF TokenTypeOK
  <1>s. \A s \in Reqs : Shape(s) /\ Spends(s)
    BY DEF Shapes
  <1>n. None \notin Codes \cup Tokens /\ Codes \cap Tokens = {}
    BY CredsDisjoint
  <1>1. ASSUME NEW r \in Reqs,
               \/ ReadCode(r) \/ DeleteCode(r) \/ CodeExpired(r) \/ GetRefused(r)
               \/ AlreadyConsumed(r) \/ MarkNotFound(r) \/ FailToken(r)
        PROVE  Shapes'
    <2>1. PICK pc \in {"delete", "commit", "done", "revoke", "failed"} :
             /\ GoTo(r, pc)
             /\ pc = "delete" => At(r, "read")
             /\ pc = "commit" => /\ At(r, "delete") /\ CodeFree(req[r].cred, r)
                                 /\ codes[req[r].cred].st = "row"
             /\ pc = "revoke" => At(r, "mark")
      BY <1>1 DEF ReadCode, DeleteCode, CodeExpired, GetRefused, AlreadyConsumed, MarkNotFound,
                  FailToken, Refuse
    <2>2. codes' = codes /\ tokens' = tokens /\ held' = held
      BY <1>1 DEF ReadCode, DeleteCode, CodeExpired, GetRefused, AlreadyConsumed, MarkNotFound,
                  FailToken
    <2>3. pc \in Pcs
      BY DEF Pcs
    <2>4. pc = "commit" =>
             \A s \in Reqs \ {r} : ~(req[s].pc = "commit" /\ req[s].cred = req[r].cred)
      BY <2>1 DEF CodeFree, At
    <2>5. pc \in Redeems => req[r].pc \in Redeems
      BY <2>1 DEF At, Redeems
    <2>6. pc \in Rotates \/ pc \in Knows => req[r].pc \in {"family", "mark"} /\ pc # "save"
      BY <2>1 DEF At, Rotates, Knows
    <2> QED BY <2>1, <2>2, <2>3, <2>4, <2>5, <2>6, PcOnly
  <1>2. ASSUME NEW r \in Reqs, NEW c \in Codes, StartRedeem(r, c) PROVE Shapes'
    <2>1. /\ req'[r].pc = "read" /\ req'[r].cred = c /\ req'[r].fam = c /\ req'[r].next = None
          /\ req'[r].won = None /\ \A s \in Reqs \ {r} : req'[s] = req[s]
      BY <1>2, <1>t DEF StartRedeem, NoReq
    <2>2. codes' = codes /\ tokens' = tokens /\ held' = held
      BY <1>2 DEF StartRedeem
    <2>3. Shape(r)'
      BY <1>n, <2>1 DEF Shape, Redeems, Rotates, Knows
    <2>4. req[r].next = None
      BY <1>2, <1>s DEF StartRedeem, Arrives, At, Shape
    <2> QED BY <2>1, <2>2, <2>3, <2>4, ReqOnly
  <1>3. ASSUME NEW r \in Reqs, NEW t \in Tokens, StartRotate(r, t) PROVE Shapes'
    <2>1. /\ req'[r].pc = "get" /\ req'[r].cred = t /\ req'[r].next = None
          /\ req'[r].won = None /\ \A s \in Reqs \ {r} : req'[s] = req[s]
      BY <1>3, <1>t DEF StartRotate, NoReq
    <2>2. codes' = codes /\ tokens' = tokens /\ held' = held /\ tokens[t].st # "unused"
      BY <1>3 DEF StartRotate, Shapes, Handed
    <2>3. Shape(r)'
      BY <1>n, <2>1, <2>2 DEF Shape, Redeems, Rotates, Knows
    <2>4. req[r].next = None
      BY <1>3, <1>s DEF StartRotate, Arrives, At, Shape
    <2> QED BY <2>1, <2>2, <2>3, <2>4, ReqOnly
  <1>5. ASSUME NEW r \in Reqs, GetToken(r) PROVE Shapes'
    <2>1. /\ req'[r].pc = (IF tokens[req[r].cred].st = "row" THEN "family" ELSE "done")
          /\ req'[r].cred = req[r].cred /\ req'[r].next = req[r].next
          /\ req'[r].fam = tokens[req[r].cred].fam /\ req'[r].won = req[r].won
          /\ \A s \in Reqs \ {r} : req'[s] = req[s]
      BY <1>5, <1>t DEF GetToken, Request
    <2>2. codes' = codes /\ tokens' = tokens /\ held' = held
      BY <1>5 DEF GetToken
    <2>3. req[r].pc = "get" /\ Shape(r) /\ req[r].cred \in Tokens
      BY <1>5, <1>s DEF GetToken, At, Shape, Rotates
    <2>4. tokens[req[r].cred].fam \in Codes
      BY <2>3 DEF Shape, Shapes, Known
    <2>5. Shape(r)'
      BY <2>1, <2>2, <2>3, <2>4 DEF Shape, Redeems, Rotates, Knows
    <2> QED BY <2>1, <2>2, <2>5, ReqOnly
  <1>6. ASSUME NEW r \in Reqs, GetOk(r) PROVE Shapes'
    <2>1. PICK t \in Tokens, pc \in {"mark", "save"} :
             NextToken(t) /\ req' = [req EXCEPT ![r].pc = pc, ![r].next = t]
      BY <1>6 DEF GetOk
    <2>2. /\ req'[r].pc = pc /\ req'[r].cred = req[r].cred /\ req'[r].next = t
          /\ req'[r].fam = req[r].fam /\ req'[r].won = req[r].won
          /\ \A s \in Reqs \ {r} : req'[s] = req[s]
      BY <2>1, <1>t DEF Request
    <2>3. codes' = codes /\ tokens' = tokens /\ held' = held
      BY <1>6 DEF GetOk
    <2>4. tokens[t].st = "unused" /\ \A s \in Reqs : req[s].next # t
      BY <2>1 DEF NextToken, Fresh
    <2>5. req[r].pc = "family" /\ Shape(r)
      BY <1>6, <1>s DEF GetOk, At
    <2>6. Shape(r)'
      BY <2>2, <2>3, <2>4, <2>5 DEF Shape, Redeems, Rotates, Knows
    <2> QED BY <2>2, <2>3, <2>4, <2>6, ReqOnly
  <1>9. ASSUME NEW r \in Reqs, RevokeFamily(r) PROVE Shapes'
    <2>1. GoTo(r, "done") /\ codes' = codes /\ tokens' = tokens /\ held' = held
      BY <1>9 DEF RevokeFamily, Refuse
    <2> QED BY <2>1, PcOnly DEF Pcs, Redeems, Rotates, Knows
  <1>12. ASSUME Tick \/ UNCHANGED tokenVars PROVE Shapes'
    <2>1. codes' = codes /\ tokens' = tokens /\ held' = held /\ req' = req
      BY <1>12 DEF Tick, tokenVars
    <2> QED BY <2>1 DEF Shapes, Shape, Spends, Known, Handed, Own

  <1>4. ASSUME NEW r \in Reqs, CommitCode(r) PROVE Shapes'
    <2> DEFINE c == req[r].cred
    <2>1. c \in Codes /\ req[r].pc = "commit" /\ codes[c].st = "row" /\ Shape(r)
      BY <1>4, <1>s DEF CommitCode, At, Shape, Redeems
    <2>2. /\ codes'[c].st = "gone" /\ \A d \in Codes \ {c} : codes'[d] = codes[d]
          /\ tokens' = tokens /\ held' = held
      BY <1>4, <1>t, <2>1 DEF CommitCode, CodeRow
    <2>3. PICK t \in Tokens : /\ NextToken(t)
                              /\ req' = [req EXCEPT ![r].pc = "save", ![r].won = c, ![r].next = t,
                                                    ![r].user = codes[c].user]
      BY <1>4 DEF CommitCode
    <2>4. /\ req'[r].pc = "save" /\ req'[r].cred = c /\ req'[r].next = t /\ req'[r].won = c
          /\ req'[r].fam = req[r].fam
          /\ \A s \in Reqs \ {r} : req'[s] = req[s]
      BY <1>t, <2>3 DEF Request
    <2>5. tokens[t].st = "unused" /\ \A s \in Reqs : req[s].next # t
      BY <2>3 DEF NextToken, Fresh
    <2>6. \A s \in Reqs : req[s].won # c
      BY <1>s, <2>1 DEF Spends
    <2>7. Shape(r)' /\ Spends(r)'
      BY <1>n, <2>1, <2>2, <2>4, <2>5 DEF Shape, Spends, Redeems, Rotates, Knows
    <2>8. CodesGrow /\ TokensGrow
      BY <2>1, <2>2 DEF CodesGrow, TokensGrow
    <2>9. ASSUME NEW s \in Reqs \ {r} PROVE Shape(s)' /\ Spends(s)'
      <3>1. req[s].pc = "commit" => req[s].cred # c /\ req[s].cred \in Codes
        BY <1>s, <2>1 DEF Shapes, Own, Shape, Redeems
      <3>2. req[s].pc = "commit" => codes'[req[s].cred].st = "row"
        BY <1>s, <2>2, <3>1 DEF Shape
      <3>3. req[s].pc = "save" => tokens'[req[s].next].st = "unused"
        BY <1>s, <2>2 DEF Shape
      <3> QED BY <2>4, <2>8, <3>2, <3>3, OthersKeep
    <2>10. Own'
      BY <2>4, <2>5, <2>6 DEF Shapes, Own
    <2>11. (\A u \in Tokens : Known(u)') /\ Handed'
      BY <2>2 DEF Shapes, Known, Handed
    <2> QED BY <2>7, <2>9, <2>10, <2>11 DEF Shapes
  <1>7. ASSUME NEW r \in Reqs, MarkUsed(r) PROVE Shapes'
    <2> DEFINE t == req[r].cred
    <2>1. /\ t \in Tokens /\ req[r].pc = "mark" /\ req[r].next \in Tokens /\ Shape(r)
          /\ tokens[t].st = "row" /\ tokens[t].by = None
      BY <1>7, <1>s DEF MarkUsed, At, Shape, Rotates
    <2>2. /\ tokens'[t].st = "row" /\ tokens'[t].by # None /\ tokens'[t].fam = tokens[t].fam
          /\ \A u \in Tokens \ {t} : tokens'[u] = tokens[u]
          /\ codes' = codes /\ held' = held
      BY <1>7, <1>t, <1>n, <2>1 DEF MarkUsed, TokenRow
    <2>3. /\ req'[r].pc = (IF tokens[req[r].next].st = "unused" THEN "save" ELSE "mint")
          /\ req'[r].cred = t /\ req'[r].next = req[r].next /\ req'[r].won = t
          /\ req'[r].fam = req[r].fam
          /\ \A s \in Reqs \ {r} : req'[s] = req[s]
      BY <1>7, <1>t DEF MarkUsed, Request
    <2>4. \A s \in Reqs : req[s].won # t
      BY <1>s, <2>1 DEF Spends
    <2>5. \A u \in Tokens : tokens'[u].st = tokens[u].st
      BY <2>1, <2>2
    <2>6. Shape(r)' /\ Spends(r)'
      BY <1>n, <2>1, <2>2, <2>3, <2>5 DEF Shape, Spends, Redeems, Rotates, Knows
    <2>7. CodesGrow /\ TokensGrow
      BY <2>2, <2>5 DEF CodesGrow, TokensGrow
    <2>8. ASSUME NEW s \in Reqs \ {r} PROVE Shape(s)' /\ Spends(s)'
      <3>1. req[s].pc = "commit" => codes'[req[s].cred].st = "row"
        BY <1>s, <2>2 DEF Shape
      <3>2. req[s].pc = "save" => tokens'[req[s].next].st = "unused"
        BY <1>s, <2>5 DEF Shape
      <3> QED BY <2>3, <2>7, <3>1, <3>2, OthersKeep
    <2>9. Own'
      BY <2>3, <2>4 DEF Shapes, Own
    <2>10. (\A u \in Tokens : Known(u)') /\ Handed'
      BY <2>2, <2>5 DEF Shapes, Known, Handed
    <2> QED BY <2>6, <2>8, <2>9, <2>10 DEF Shapes
  <1>8. ASSUME NEW r \in Reqs, SaveToken(r) PROVE Shapes'
    <2> DEFINE t == req[r].next
    <2>1. t \in Tokens /\ req[r].pc = "save" /\ tokens[t].st = "unused" /\ req[r].fam \in Codes /\ Shape(r)
      BY <1>8, <1>s DEF SaveToken, At, Shape, Knows
    <2>2. /\ tokens'[t].st = "row" /\ tokens'[t].fam = req[r].fam
          /\ \A u \in Tokens \ {t} : tokens'[u] = tokens[u]
          /\ codes' = codes /\ held' = held
      BY <1>8, <1>t, <2>1 DEF SaveToken
    <2>3. GoTo(r, IF req[r].won = None THEN "mark" ELSE "mint") /\ {"mark", "mint"} \subseteq Pcs
      BY <1>8 DEF SaveToken, Pcs
    <2>4. /\ req'[r].pc = (IF req[r].won = None THEN "mark" ELSE "mint")
          /\ req'[r].cred = req[r].cred /\ req'[r].next = t /\ req'[r].won = req[r].won
          /\ req'[r].fam = req[r].fam
          /\ \A s \in Reqs \ {r} : req'[s] = req[s]
      BY <1>t, <2>3, MovesOn
    <2>5. req[r].won = None => req[r].cred \in Tokens /\ req[r].fam = tokens[req[r].cred].fam
      BY <1>s, <2>1 DEF Shape
    <2>6. CodesGrow /\ TokensGrow
      BY <2>1, <2>2 DEF CodesGrow, TokensGrow
    <2>7. req[r].cred \in Tokens => req[r].cred # t /\ tokens[req[r].cred].st # "unused"
      BY <2>1 DEF Shape
    <2>8. Shape(r)'
      BY <1>n, <2>1, <2>2, <2>4, <2>5, <2>7 DEF Shape, Redeems, Rotates, Knows
    <2>9. Spends(r)'
      BY <1>s, <2>1, <2>2, <2>4 DEF Spends
    <2>10. ASSUME NEW s \in Reqs \ {r} PROVE Shape(s)' /\ Spends(s)'
      <3>1. req[s].pc = "commit" => codes'[req[s].cred].st = "row"
        BY <1>s, <2>2 DEF Shape
      <3>2. req[s].pc = "save" => req[s].next # t /\ req[s].next \in Tokens
        BY <1>n, <1>s, <2>1 DEF Shapes, Own, Shape
      <3>3. req[s].pc = "save" => tokens'[req[s].next].st = "unused"
        BY <1>s, <2>2, <3>2 DEF Shape
      <3> QED BY <2>4, <2>6, <3>1, <3>3, OthersKeep
    <2>11. Own'
      BY <2>1, <2>4 DEF Shapes, Own
    <2>12. (\A u \in Tokens : Known(u)') /\ Handed'
      BY <2>1, <2>2 DEF Shapes, Known, Handed
    <2> QED BY <2>8, <2>9, <2>10, <2>11, <2>12 DEF Shapes
  <1>10. ASSUME NEW r \in Reqs, NEW found \in BOOLEAN, Mint(r, found) PROVE Shapes'
    <2>1. /\ req'[r].pc = "done" /\ req'[r].cred = req[r].cred /\ req'[r].next = req[r].next
          /\ req'[r].won = req[r].won /\ \A s \in Reqs \ {r} : req'[s] = req[s]
      BY <1>10, <1>t DEF Mint, Request
    <2>2. /\ codes' = codes /\ tokens' = tokens /\ held' = held \cup {req[r].next}
          /\ req[r].pc = "mint" /\ Shape(r) /\ Spends(r)
      BY <1>10, <1>s DEF Mint, At
    <2>3. Shape(r)' /\ Spends(r)'
      BY <2>1, <2>2 DEF Shape, Spends, Redeems, Rotates, Knows
    <2>4. \A s \in Reqs \ {r} : Shape(s)' /\ Spends(s)'
      BY <1>s, <2>1, <2>2 DEF Shape, Spends
    <2>5. Own'
      BY <2>1, <2>2 DEF Shapes, Own
    <2>6. (\A u \in Tokens : Known(u)') /\ Handed'
      BY <2>2 DEF Shapes, Known, Handed, Shape
    <2> QED BY <2>3, <2>4, <2>5, <2>6 DEF Shapes
  <1>11. ASSUME NEW c \in Codes, NEW u \in Users, SaveCode(c, u) PROVE Shapes'
    <2>1. /\ codes[c].st = "unused" /\ \A d \in Codes \ {c} : codes'[d] = codes[d]
          /\ tokens' = tokens /\ req' = req /\ held' = held \cup {c}
      BY <1>11, <1>t DEF SaveCode
    <2>2. CodesGrow /\ TokensGrow
      BY <2>1 DEF CodesGrow, TokensGrow
    <2>3. ASSUME NEW s \in Reqs PROVE Shape(s)' /\ Spends(s)'
      <3>1. req[s].pc = "commit" => req[s].cred \in Codes /\ codes[req[s].cred].st = "row"
        BY <1>s DEF Shape, Redeems
      <3>2. req[s].pc = "commit" => codes'[req[s].cred].st = "row"
        BY <2>1, <3>1
      <3>3. req[s].pc = "save" => tokens'[req[s].next].st = "unused"
        BY <1>s, <2>1 DEF Shape
      <3> QED BY <2>1, <2>2, <3>2, <3>3, OthersKeep
    <2>4. Own' /\ (\A t \in Tokens : Known(t)') /\ Handed'
      BY <1>n, <2>1 DEF Shapes, Own, Known, Handed
    <2> QED BY <2>3, <2>4 DEF Shapes
  <1>13. ASSUME SweepCodes PROVE Shapes'
    <2>1. /\ tokens' = tokens /\ req' = req /\ held' = held
          /\ \A c \in Codes : codes'[c] = IF c \in Lapsed(codes) THEN Purged(codes[c]) ELSE codes[c]
      BY <1>13, <1>t DEF SweepCodes
    <2>2. CodesGrow /\ TokensGrow
      BY <1>t, <2>1 DEF CodesGrow, TokensGrow, Purged, CodeRow
    <2>3. ASSUME NEW s \in Reqs PROVE Shape(s)' /\ Spends(s)'
      <3>1. req[s].pc = "commit" => req[s].cred \in Codes /\ req[s].cred \notin Lapsed(codes)
        BY <1>13, <1>s DEF SweepCodes, At, Shape, Redeems
      <3>2. req[s].pc = "commit" => codes'[req[s].cred].st = "row"
        BY <1>s, <2>1, <3>1 DEF Shape
      <3>3. req[s].pc = "save" => tokens'[req[s].next].st = "unused"
        BY <1>s, <2>1 DEF Shape
      <3> QED BY <2>1, <2>2, <3>2, <3>3, OthersKeep
    <2>4. Own' /\ (\A t \in Tokens : Known(t)') /\ Handed'
      BY <2>1 DEF Shapes, Own, Known, Handed
    <2> QED BY <2>3, <2>4 DEF Shapes
  <1>14. ASSUME SweepTokens PROVE Shapes'
    <2>1. /\ codes' = codes /\ req' = req /\ held' = held
          /\ \A t \in Tokens : tokens'[t] = IF t \in Lapsed(tokens) THEN Purged(tokens[t]) ELSE tokens[t]
      BY <1>14, <1>t DEF SweepTokens
    <2>2. \A t \in Tokens : /\ tokens'[t].fam = tokens[t].fam /\ tokens'[t].by = tokens[t].by
                            /\ \/ tokens'[t].st = tokens[t].st
                               \/ tokens[t].st = "row" /\ tokens'[t].st = "gone"
      BY <1>t, <2>1 DEF Lapsed, Purged, TokenRow
    <2>3. CodesGrow /\ TokensGrow
      BY <2>1, <2>2 DEF CodesGrow, TokensGrow
    <2>4. ASSUME NEW s \in Reqs PROVE Shape(s)' /\ Spends(s)'
      <3>1. req[s].pc = "commit" => codes'[req[s].cred].st = "row"
        BY <1>s, <2>1 DEF Shape
      <3>2. req[s].pc = "save" => tokens'[req[s].next].st = "unused"
        BY <1>s, <2>2 DEF Shape
      <3> QED BY <2>1, <2>3, <3>1, <3>2, OthersKeep
    <2>5. Own' /\ (\A t \in Tokens : Known(t)') /\ Handed'
      BY <2>1, <2>2 DEF Shapes, Own, Known, Handed
    <2> QED BY <2>4, <2>5 DEF Shapes
  <1> QED
    BY <1>1, <1>2, <1>3, <1>4, <1>5, <1>6, <1>7, <1>8, <1>9, <1>10, <1>11, <1>12, <1>13, <1>14
    DEF TokenNext, TokenStep, TokenEnv

-----------------------------------------------------------------------------
\* At the start nothing was issued.
LEMMA TokenStart == TokenInit => TokenTypeOK /\ Shapes
  <1> SUFFICES ASSUME TokenInit PROVE TokenTypeOK /\ Shapes
    OBVIOUS
  <1>1. TokenTypeOK
    BY Blanks, TTLs DEF TokenInit, TokenTypeOK
  <1>2. \A r \in Reqs : Shape(r) /\ Spends(r)
    BY CredsDisjoint
    DEF TokenInit, Shape, Spends, NoReq, NoCode, NoToken, Redeems, Rotates, Knows
  <1>3. (\A t \in Tokens : Known(t)) /\ Handed /\ Own
    BY DEF TokenInit, Known, Handed, Own, NoReq, NoToken
  <1> QED BY <1>1, <1>2, <1>3 DEF Shapes

\* Types and shapes are inductive.
LEMMA ShapesInductive ==
  TokenTypeOK /\ Shapes /\ [TokenNext]_tokenVars => TokenTypeOK' /\ Shapes'
  BY TypeStep, ShapesStep

-----------------------------------------------------------------------------
(* The store redeems in one step what the transactions redeem in several.  *)

LiveCreds == {c \in Codes : codes[c].st = "row"}
             \cup {t \in Tokens : tokens[t].st = "row" /\ tokens[t].by = None}
SpentCreds == {c \in Codes : codes[c].st = "gone"}
              \cup {t \in Tokens : tokens[t].st = "gone" \/ (tokens[t].st = "row" /\ tokens[t].by # None)}
WonCreds == [r \in Reqs |-> req[r].won]

\* A step that moves requests on, and redeems nothing, is none of the store.
LEMMA Unseen ==
  ASSUME codes' = codes, tokens' = tokens, \A r \in Reqs : req'[r].won = req[r].won
  PROVE  UNCHANGED Once!vars
  BY DEF Once!vars

\* Issuing: a code saved, a successor saved.
LEMMA Issues ==
  ASSUME TokenTypeOK, NEW x \in Codes \cup Tokens, x \notin LiveCreds \cup SpentCreds,
         LiveCreds' = LiveCreds \cup {x}, SpentCreds' = SpentCreds, WonCreds' = WonCreds
  PROVE  Once!Next
  BY DEF Once!Next, Once!Issue, LiveCreds, SpentCreds, WonCreds

\* Redeeming: a code consumed, a token marked used.
LEMMA Redeeming ==
  ASSUME TokenTypeOK, NEW r \in Reqs, NEW x \in LiveCreds, req[r].won = None,
         LiveCreds' = LiveCreds \ {x}, SpentCreds' = SpentCreds \cup {x},
         req'[r].won = x, \A s \in Reqs \ {r} : req'[s].won = req[s].won
  PROVE  Once!Next
  <1>1. WonCreds' = [WonCreds EXCEPT ![r] = x] /\ WonCreds[r] = None
    BY DEF WonCreds
  <1>2. x \in Codes \cup Tokens
    BY DEF LiveCreds
  <1>3. Once!Redeem(r, x)
    BY <1>1 DEF Once!Redeem, LiveCreds, SpentCreds, WonCreds
  <1> QED BY <1>2, <1>3 DEF Once!Next

\* Lapsing: what a sweep deletes.
LEMMA Lapses ==
  ASSUME NEW C \in SUBSET (Codes \cup Tokens), C \subseteq LiveCreds,
         LiveCreds' = LiveCreds \ C, SpentCreds' = SpentCreds \cup C,
         \A s \in Reqs : req'[s].won = req[s].won
  PROVE  Once!Next
  <1>1. WonCreds' = WonCreds
    BY DEF WonCreds
  <1>2. Once!Lapse(C)
    BY <1>1 DEF Once!Lapse, LiveCreds, SpentCreds, WonCreds
  <1> QED BY <1>2 DEF Once!Next

\* Every step is one of the store, or unseen by it.
LEMMA OnceStep ==
  ASSUME TokenTypeOK, Shapes, [TokenNext]_tokenVars, TokenTypeOK'
  PROVE  [Once!Next]_(Once!vars)
  <1>t. /\ codes \in [Codes -> CodeRow] /\ tokens \in [Tokens -> TokenRow] /\ req \in [Reqs -> Request]
        /\ codes' \in [Codes -> CodeRow] /\ tokens' \in [Tokens -> TokenRow]
        /\ req' \in [Reqs -> Request]
    BY DEF TokenTypeOK
  <1>s. \A s \in Reqs : Shape(s) /\ Spends(s)
    BY DEF Shapes
  <1>n. None \notin Codes \cup Tokens /\ Codes \cap Tokens = {}
    BY CredsDisjoint
  <1>1. ASSUME NEW r \in Reqs,
               \/ ReadCode(r) \/ DeleteCode(r) \/ CodeExpired(r) \/ GetRefused(r)
               \/ AlreadyConsumed(r) \/ MarkNotFound(r) \/ FailToken(r) \/ RevokeFamily(r)
        PROVE  UNCHANGED Once!vars
    <2>1. PICK pc \in Pcs : GoTo(r, pc)
      BY <1>1 DEF ReadCode, DeleteCode, CodeExpired, GetRefused, AlreadyConsumed, MarkNotFound,
                  FailToken, RevokeFamily, Refuse, Pcs
    <2>2. \A s \in Reqs : req'[s].won = req[s].won
      BY <1>t, <2>1, MovesOn
    <2>3. codes' = codes /\ tokens' = tokens
      BY <1>1 DEF ReadCode, DeleteCode, CodeExpired, GetRefused, AlreadyConsumed, MarkNotFound,
                  FailToken, RevokeFamily
    <2> QED BY <2>2, <2>3, Unseen
  <1>2. ASSUME NEW r \in Reqs,
               \/ (\E c \in Codes : StartRedeem(r, c)) \/ (\E t \in Tokens : StartRotate(r, t))
               \/ GetToken(r) \/ GetOk(r) \/ (\E found \in BOOLEAN : Mint(r, found))
        PROVE  UNCHANGED Once!vars
    <2>1. codes' = codes /\ tokens' = tokens
      BY <1>2 DEF StartRedeem, StartRotate, GetToken, GetOk, Mint
    <2>2. \A s \in Reqs : req'[s].won = req[s].won
      <3>1. CASE \E c \in Codes : StartRedeem(r, c)
        BY <1>t, <1>s, <3>1 DEF StartRedeem, NoReq, Arrives, At, Shape
      <3>2. CASE \E t \in Tokens : StartRotate(r, t)
        BY <1>t, <1>s, <3>2 DEF StartRotate, NoReq, Arrives, At, Shape
      <3>3. CASE GetToken(r)
        BY <1>t, <3>3 DEF GetToken, Request
      <3>4. CASE GetOk(r)
        BY <1>t, <3>4 DEF GetOk, Request
      <3>5. CASE \E found \in BOOLEAN : Mint(r, found)
        BY <1>t, <3>5 DEF Mint, Request
      <3> QED BY <1>2, <3>1, <3>2, <3>3, <3>4, <3>5
    <2> QED BY <2>1, <2>2, Unseen
  <1>3. ASSUME Tick \/ UNCHANGED tokenVars PROVE UNCHANGED Once!vars
    BY <1>3, Unseen DEF Tick, tokenVars
  <1>4. ASSUME NEW r \in Reqs, CommitCode(r) PROVE Once!Next
    <2> DEFINE c == req[r].cred
    <2>1. c \in Codes /\ codes[c].st = "row" /\ req[r].won = None
      BY <1>4, <1>s DEF CommitCode, At, Shape, Redeems
    <2>2. codes'[c].st = "gone" /\ (\A d \in Codes \ {c} : codes'[d] = codes[d]) /\ tokens' = tokens
      BY <1>4, <1>t, <2>1 DEF CommitCode, CodeRow
    <2>3. req'[r].won = c /\ \A s \in Reqs \ {r} : req'[s].won = req[s].won
      BY <1>4, <1>t DEF CommitCode, Request
    <2>4. c \in LiveCreds /\ LiveCreds' = LiveCreds \ {c} /\ SpentCreds' = SpentCreds \cup {c}
      BY <1>n, <2>1, <2>2 DEF LiveCreds, SpentCreds
    <2> QED BY <2>1, <2>3, <2>4, Redeeming
  <1>5. ASSUME NEW r \in Reqs, MarkUsed(r) PROVE Once!Next
    <2> DEFINE t == req[r].cred
    <2>1. /\ t \in Tokens /\ tokens[t].st = "row" /\ tokens[t].by = None /\ req[r].won = None
          /\ req[r].next \in Tokens
      BY <1>5, <1>s DEF MarkUsed, At, Shape, Rotates
    <2>2. /\ tokens'[t].st = "row" /\ tokens'[t].by # None
          /\ (\A u \in Tokens \ {t} : tokens'[u] = tokens[u]) /\ codes' = codes
      BY <1>5, <1>t, <1>n, <2>1 DEF MarkUsed, TokenRow
    <2>3. req'[r].won = t /\ \A s \in Reqs \ {r} : req'[s].won = req[s].won
      BY <1>5, <1>t DEF MarkUsed, Request
    <2>4. t \in LiveCreds /\ LiveCreds' = LiveCreds \ {t} /\ SpentCreds' = SpentCreds \cup {t}
      BY <1>n, <2>1, <2>2 DEF LiveCreds, SpentCreds
    <2> QED BY <2>1, <2>3, <2>4, Redeeming
  <1>6. ASSUME NEW r \in Reqs, SaveToken(r) PROVE Once!Next
    <2> DEFINE t == req[r].next
    <2>1. t \in Tokens /\ tokens[t].st = "unused"
      BY <1>6, <1>s DEF SaveToken, At, Shape
    <2>2. /\ tokens'[t].st = "row" /\ tokens'[t].by = None
          /\ (\A u \in Tokens \ {t} : tokens'[u] = tokens[u]) /\ codes' = codes
      BY <1>6, <1>t, <2>1 DEF SaveToken
    <2>3. \A s \in Reqs : req'[s].won = req[s].won
      <3>1. GoTo(r, IF req[r].won = None THEN "mark" ELSE "mint") /\ {"mark", "mint"} \subseteq Pcs
        BY <1>6 DEF SaveToken, Pcs
      <3> QED BY <1>t, <3>1, MovesOn
    <2>4. t \notin LiveCreds \cup SpentCreds
      BY <1>n, <2>1 DEF LiveCreds, SpentCreds
    <2>5. LiveCreds' = LiveCreds \cup {t} /\ SpentCreds' = SpentCreds
      BY <1>n, <2>1, <2>2 DEF LiveCreds, SpentCreds
    <2>6. WonCreds' = WonCreds
      BY <2>3 DEF WonCreds
    <2> QED BY <2>1, <2>4, <2>5, <2>6, Issues
  <1>7. ASSUME NEW c \in Codes, NEW u \in Users, SaveCode(c, u) PROVE Once!Next
    <2>1. /\ codes[c].st = "unused" /\ codes'[c].st = "row" /\ tokens' = tokens /\ req' = req
          /\ \A d \in Codes \ {c} : codes'[d] = codes[d]
      BY <1>7, <1>t DEF SaveCode
    <2>2. c \notin LiveCreds \cup SpentCreds
      BY <1>n, <2>1 DEF LiveCreds, SpentCreds
    <2>3. LiveCreds' = LiveCreds \cup {c} /\ SpentCreds' = SpentCreds
      BY <1>n, <2>1 DEF LiveCreds, SpentCreds
    <2>4. WonCreds' = WonCreds
      BY <2>1 DEF WonCreds
    <2> QED BY <2>2, <2>3, <2>4, Issues
  <1>8. ASSUME SweepCodes PROVE Once!Next
    <2> DEFINE C == Lapsed(codes)
    <2>1. C \in SUBSET Codes /\ \A c \in C : codes[c].st = "row"
      BY <1>t DEF Lapsed
    <2>2. /\ tokens' = tokens /\ req' = req
          /\ \A c \in Codes : codes'[c].st = IF c \in C THEN "gone" ELSE codes[c].st
      BY <1>8, <1>t DEF SweepCodes, Purged, CodeRow
    <2>3. C \subseteq LiveCreds /\ LiveCreds' = LiveCreds \ C /\ SpentCreds' = SpentCreds \cup C
      BY <1>n, <2>1, <2>2 DEF LiveCreds, SpentCreds
    <2> HIDE DEF C
    <2> QED BY <2>1, <2>2, <2>3, Lapses
  <1>9. ASSUME SweepTokens PROVE Once!Next
    <2> DEFINE C == {t \in Lapsed(tokens) : tokens[t].by = None}
    <2>1. C \in SUBSET Tokens /\ \A t \in C : tokens[t].st = "row" /\ tokens[t].by = None
      BY <1>t DEF Lapsed
    <2>2. \A t \in Tokens : /\ tokens'[t].by = tokens[t].by
                            /\ tokens'[t].st = IF t \in Lapsed(tokens) THEN "gone" ELSE tokens[t].st
      BY <1>9, <1>t DEF SweepTokens, Purged, TokenRow
    <2>3. codes' = codes /\ req' = req /\ \A t \in Lapsed(tokens) : t \in Tokens /\ tokens[t].st = "row"
      BY <1>9, <1>t DEF SweepTokens, Lapsed
    <2>4. C \subseteq LiveCreds /\ LiveCreds' = LiveCreds \ C
      BY <1>n, <2>1, <2>2, <2>3 DEF LiveCreds
    <2>5. SpentCreds' = SpentCreds \cup C
      BY <1>n, <2>1, <2>2, <2>3 DEF SpentCreds
    <2> HIDE DEF C
    <2> QED BY <2>1, <2>3, <2>4, <2>5, Lapses
  <1> QED
    BY <1>1, <1>2, <1>3, <1>4, <1>5, <1>6, <1>7, <1>8, <1>9 DEF TokenNext, TokenStep, TokenEnv

\* Tables without lost rows and no request under way are a store.
LEMMA OnceStart ==
  ASSUME TokenTypeOK, \A r \in Reqs : req[r].won = None
  PROVE  Once!Init
  <1>1. LiveCreds \in SUBSET (Codes \cup Tokens)
    BY DEF LiveCreds
  <1>2. SpentCreds \in SUBSET ((Codes \cup Tokens) \ LiveCreds)
    BY CredsDisjoint DEF LiveCreds, SpentCreds
  <1>3. WonCreds = [r \in Reqs |-> None]
    BY DEF WonCreds
  <1> QED BY <1>1, <1>2, <1>3 DEF Once!Init, LiveCreds, SpentCreds, WonCreds

\* Codes and refresh tokens are redeemed once: the transactions of ConsumeOnce
\* and MarkUsed, interleaved in any way, are an atomic store of one-time
\* credentials.
THEOREM OneTimeCredentials == TokenSpec => RedeemedOnce
  <1>1. TokenInit => TokenTypeOK /\ Shapes /\ Once!Init
    <2> SUFFICES ASSUME TokenInit PROVE TokenTypeOK /\ Shapes /\ Once!Init
      OBVIOUS
    <2>1. TokenTypeOK /\ Shapes
      BY TokenStart
    <2>2. \A r \in Reqs : req[r].won = None
      BY DEF TokenInit, NoReq
    <2> QED BY <2>1, <2>2, OnceStart
  <1>2. TokenTypeOK /\ Shapes /\ [TokenNext]_tokenVars => TokenTypeOK' /\ Shapes'
    BY ShapesInductive
  <1>3. TokenTypeOK /\ Shapes /\ TokenTypeOK' /\ [TokenNext]_tokenVars => [Once!Next]_(Once!vars)
    BY OnceStep
  <1> QED BY <1>1, <1>2, <1>3, PTL DEF TokenSpec, RedeemedOnce, Once!Spec

-----------------------------------------------------------------------------
(* Reuse.                                                                  *)

\* No two requests redeem one credential.
LEMMA Winners == Shapes => \A r, s \in Reqs : req[r].won # None /\ req[r].won = req[s].won => r = s
  BY DEF Shapes, Own

\* Who writes tokens, and who the clock and the history.
LEMMA Writers ==
  ASSUME [TokenNext]_tokenVars
  PROVE  /\ \/ SweepTokens
            \/ \E r \in Reqs : MarkUsed(r) \/ SaveToken(r)
            \/ tokens' = tokens
         /\ \/ Tick
            \/ \E r \in Reqs : RevokeFamily(r)
            \/ now' = now /\ closed' = closed
  <1>1. ASSUME NEW r \in Reqs, TokenStep(r) \/ (\E found \in BOOLEAN : Mint(r, found))
        PROVE  /\ MarkUsed(r) \/ SaveToken(r) \/ tokens' = tokens
               /\ RevokeFamily(r) \/ (now' = now /\ closed' = closed)
    BY <1>1 DEF TokenStep, ReadCode, DeleteCode, CodeExpired, CommitCode, GetToken, GetRefused, GetOk,
                MarkUsed, AlreadyConsumed, MarkNotFound, SaveToken, Mint, RevokeFamily, Keep
  <1>2. ASSUME \/ \E r \in Reqs : \/ FailToken(r) \/ \E c \in Codes : StartRedeem(r, c)
                                 \/ \E t \in Tokens : StartRotate(r, t)
               \/ SweepCodes \/ (\E c \in Codes, u \in Users : SaveCode(c, u)) \/ UNCHANGED tokenVars
        PROVE  tokens' = tokens /\ now' = now /\ closed' = closed
    BY <1>2 DEF FailToken, StartRedeem, StartRotate, SweepCodes, SaveCode, Keep, tokenVars
  <1>3. Tick => tokens' = tokens
    BY DEF Tick
  <1>4. SweepTokens => now' = now /\ closed' = closed
    BY DEF SweepTokens
  <1> QED BY <1>1, <1>2, <1>3, <1>4 DEF TokenNext, TokenEnv

\* What the clock and the tables do to a token that was issued.
LEMMA TokenFate ==
  ASSUME TokenTypeOK, Shapes, TokenTypeOK', [TokenNext]_tokenVars, NEW t \in Tokens, tokens[t].st # "unused"
  PROVE  /\ tokens'[t].st \in {tokens[t].st, "gone"}
         /\ tokens'[t].fam = tokens[t].fam /\ tokens'[t].exp = tokens[t].exp
         /\ tokens'[t].st # tokens[t].st => tokens[t].exp < now /\ now' = now
         /\ closed \subseteq closed' /\ now <= now' /\ now \in Nat /\ now' \in Nat
         /\ tokens[t].exp \in Nat
  <1>t. tokens \in [Tokens -> TokenRow] /\ now \in Nat /\ now' \in Nat
    BY DEF TokenTypeOK
  <1>e. tokens[t].exp \in Nat
    BY TTLs DEF TokenTypeOK, TokenRow, Times
  <1>1. closed \subseteq closed' /\ now <= now'
    BY <1>t, Writers DEF Tick, RevokeFamily
  <1>2. CASE SweepTokens
    <2>1. tokens'[t] = IF t \in Lapsed(tokens) THEN Purged(tokens[t]) ELSE tokens[t]
      BY <1>t, <1>2 DEF SweepTokens
    <2> QED BY <1>t, <1>e, <1>1, <1>2, <2>1 DEF SweepTokens, Lapsed, Purged, TokenRow
  <1>3. CASE \E r \in Reqs : MarkUsed(r)
    BY <1>t, <1>e, <1>1, <1>3 DEF MarkUsed, TokenRow
  <1>4. CASE \E r \in Reqs : SaveToken(r)
    <2>1. PICK r \in Reqs : SaveToken(r)
      BY <1>4
    <2>2. tokens[req[r].next].st = "unused"
      BY <2>1 DEF SaveToken, At, Shapes, Shape
    <2> QED BY <1>t, <1>e, <1>1, <2>1, <2>2 DEF SaveToken
  <1>5. CASE tokens' = tokens
    BY <1>e, <1>t, <1>1, <1>5
  <1> QED BY <1>2, <1>3, <1>4, <1>5, Writers

\* Every step keeps the answers.
LEMMA AnswersStep ==
  ASSUME TokenTypeOK, Shapes, Answers, [TokenNext]_tokenVars, TokenTypeOK', Shapes'
  PROVE  Answers'
  <1>t. /\ codes \in [Codes -> CodeRow] /\ tokens \in [Tokens -> TokenRow] /\ req \in [Reqs -> Request]
        /\ codes' \in [Codes -> CodeRow] /\ tokens' \in [Tokens -> TokenRow]
        /\ req' \in [Reqs -> Request] /\ revoked \in [Codes -> Times \cup {None}]
    BY DEF TokenTypeOK
  <1>s. \A s \in Reqs : Shape(s) /\ Spends(s)
    BY DEF Shapes
  <1>n. None \notin Codes \cup Tokens /\ Codes \cap Tokens = {}
    BY CredsDisjoint
  <1>1. \A t \in Tokens : tokens'[t].st = "gone" => tokens'[t].exp < now'
    <2> SUFFICES ASSUME NEW t \in Tokens, tokens'[t].st = "gone" PROVE tokens'[t].exp < now'
      OBVIOUS
    <2>1. CASE tokens[t].st = "unused"
      <3>1. CASE SweepTokens
        BY <1>t, <2>1, <3>1 DEF SweepTokens, Lapsed
      <3>2. CASE \E r \in Reqs : MarkUsed(r) \/ SaveToken(r)
        BY <1>t, <2>1, <3>2 DEF MarkUsed, SaveToken
      <3>3. CASE tokens' = tokens
        BY <2>1, <3>3
      <3> QED BY <3>1, <3>2, <3>3, Writers
    <2>2. CASE tokens[t].st # "unused"
      BY <2>2, TokenFate DEF Answers
    <2> QED BY <2>1, <2>2
  <1>2. \A f \in Codes : Revoked(f)' => f \in closed'
    <2>1. CASE \E r \in Reqs : RevokeFamily(r)
      BY <1>t, <2>1 DEF RevokeFamily, Answers, Revoked
    <2>2. CASE SweepTokens
      BY <1>t, <2>2 DEF SweepTokens, Answers, Revoked
    <2>3. CASE revoked' = revoked /\ closed' = closed
      BY <2>3 DEF Answers, Revoked
    <2> QED
      BY <2>1, <2>2, <2>3
      DEF TokenNext, TokenStep, TokenEnv, ReadCode, DeleteCode, CodeExpired, CommitCode, GetToken,
          GetRefused, GetOk, MarkUsed, AlreadyConsumed, MarkNotFound, SaveToken, Mint,
          SaveCode, StartRedeem, StartRotate, FailToken, Tick, SweepCodes, Keep, tokenVars
  \* who was answered before keeps his answer
  <1>3. ASSUME NEW s \in Reqs, req'[s] = req[s] PROVE Told(s)'
    <2>1. req[s].cred \in Tokens => tokens[req[s].cred].st # "unused"
      BY <1>s DEF Shape
    <2>2. Told(s)
      BY DEF Answers
    <2> QED BY <1>3, <2>1, <2>2, TokenFate DEF Told
  \* a request that is not answered, or not about a token
  <1>4. ASSUME NEW r \in Reqs, req'[r].pc # "done" \/ req'[r].cred \notin Tokens PROVE Told(r)'
    BY <1>4 DEF Told
  <1>5. ASSUME NEW r \in Reqs,
               \/ ReadCode(r) \/ DeleteCode(r) \/ CodeExpired(r) \/ CommitCode(r)
               \/ GetOk(r) \/ MarkUsed(r) \/ AlreadyConsumed(r) \/ SaveToken(r) \/ FailToken(r)
               \/ (\E c \in Codes : StartRedeem(r, c)) \/ (\E t \in Tokens : StartRotate(r, t))
        PROVE  Answers'
    <2>1. \A s \in Reqs \ {r} : req'[s] = req[s]
      BY <1>t, <1>5 DEF ReadCode, DeleteCode, CodeExpired, CommitCode, GetOk, MarkUsed,
                  AlreadyConsumed, SaveToken, FailToken, StartRedeem, StartRotate, GoTo, Refuse
    <2>2. req'[r].pc # "done" \/ req'[r].cred \notin Tokens
      <3>1. CASE ReadCode(r) \/ DeleteCode(r) \/ CodeExpired(r)
        <4>1. PICK pc \in Pcs : GoTo(r, pc)
          BY <3>1 DEF ReadCode, DeleteCode, CodeExpired, Refuse, Pcs
        <4>2. req[r].cred \in Codes
          BY <1>s, <3>1 DEF ReadCode, DeleteCode, CodeExpired, At, Shape, Redeems
        <4> QED BY <1>n, <1>t, <4>1, <4>2, MovesOn
      <3>2. CASE CommitCode(r) \/ GetOk(r) \/ MarkUsed(r) \/ AlreadyConsumed(r) \/ SaveToken(r) \/ FailToken(r)
        <4>1. CommitCode(r) => req'[r].pc = "save"
          BY <1>t DEF CommitCode, Request
        <4>2. GetOk(r) => req'[r].pc \in {"mark", "save"}
          BY <1>t DEF GetOk, Request
        <4>3. MarkUsed(r) => req'[r].pc \in {"save", "mint"}
          BY <1>t DEF MarkUsed, Request
        <4>4. AlreadyConsumed(r) \/ SaveToken(r) \/ FailToken(r) =>
                  req'[r].pc \in {"revoke", "mark", "mint", "failed"}
          BY <1>t DEF AlreadyConsumed, SaveToken, FailToken, GoTo, Request
        <4> QED BY <3>2, <4>1, <4>2, <4>3, <4>4
      <3>3. CASE (\E c \in Codes : StartRedeem(r, c)) \/ (\E t \in Tokens : StartRotate(r, t))
        BY <1>t, <3>3 DEF StartRedeem, StartRotate, NoReq
      <3> QED BY <1>5, <3>1, <3>2, <3>3
    <2>3. Told(r)'
      BY <1>4, <2>2
    <2>4. \A s \in Reqs : Told(s)'
      BY <1>3, <2>1, <2>3
    <2> QED BY <1>1, <1>2, <2>4 DEF Answers
  <1>6. ASSUME NEW r \in Reqs,
               \/ GetToken(r) \/ GetRefused(r) \/ MarkNotFound(r) \/ RevokeFamily(r)
               \/ (\E found \in BOOLEAN : Mint(r, found))
        PROVE  Answers'
    <2> DEFINE t == req[r].cred
    <2>1. /\ \A s \in Reqs \ {r} : req'[s] = req[s]
          /\ req'[r].cred = t /\ req'[r].won = req[r].won /\ now' = now /\ tokens' = tokens
          /\ closed \subseteq closed'
      BY <1>t, <1>6 DEF GetToken, GetRefused, MarkNotFound, RevokeFamily, Mint, GoTo, Refuse, Keep, Request
    <2>2. ASSUME t \in Tokens, req'[r].pc = "done"
          PROVE  req[r].won = t \/ tokens[t].fam \in closed' \/ now > tokens[t].exp
      <3>0. now \in Nat /\ tokens[t].exp \in Nat /\ tokens[t].st # "unused"
        BY <1>s, <1>t, <2>2, TTLs DEF Shape, TokenTypeOK, TokenRow, Times
      <3>1. CASE GetToken(r) \/ MarkNotFound(r)
        <4>1. tokens[t].st # "row"
          <5>1. GetToken(r) => req'[r].pc = IF tokens[t].st = "row" THEN "family" ELSE "done"
            BY <1>t DEF GetToken, Request
          <5> QED BY <2>2, <3>1, <5>1 DEF MarkNotFound
        <4>2. tokens[t].st = "gone"
          BY <1>t, <2>2, <3>0, <4>1 DEF TokenRow
        <4> QED BY <2>2, <3>0, <4>2 DEF Answers
      <3>2. CASE GetRefused(r)
        <4>1. req[r].fam = tokens[t].fam /\ req[r].fam \in Codes
          BY <1>s, <3>2 DEF GetRefused, At, Shape, Knows
        <4>2. CASE Revoked(req[r].fam)
          BY <2>1, <4>1, <4>2 DEF Answers
        <4>3. CASE now > tokens[t].exp
          BY <4>3
        <4> QED BY <3>2, <4>2, <4>3 DEF GetRefused
      <3>3. CASE RevokeFamily(r)
        <4>1. req[r].fam = tokens[t].fam
          BY <1>s, <3>3 DEF RevokeFamily, At, Shape
        <4> QED BY <3>3, <4>1 DEF RevokeFamily
      <3>4. CASE \E found \in BOOLEAN : Mint(r, found)
        BY <1>s, <3>4 DEF Mint, At, Shape
      <3> QED BY <1>6, <3>1, <3>2, <3>3, <3>4
    <2>3. Told(r)'
      BY <2>1, <2>2 DEF Told
    <2>4. \A s \in Reqs : Told(s)'
      BY <1>3, <2>1, <2>3
    <2> QED BY <1>1, <1>2, <2>4 DEF Answers
  <1>7. ASSUME Tick \/ SweepCodes \/ SweepTokens \/ (\E c \in Codes, u \in Users : SaveCode(c, u))
               \/ UNCHANGED tokenVars
        PROVE  Answers'
    <2>1. req' = req
      BY <1>7 DEF Tick, SweepCodes, SweepTokens, SaveCode, tokenVars
    <2>2. \A s \in Reqs : Told(s)'
      BY <1>3, <2>1
    <2> QED BY <1>1, <1>2, <2>2 DEF Answers
  <1> QED
    BY <1>5, <1>6, <1>7 DEF TokenNext, TokenStep, TokenEnv

\* Once a token was rotated, whoever else presents it and is answered finds the
\* family revoked, or the token expired (MarkUsed's contract).
LEMMA ReuseFound == Shapes /\ Answers => ReuseRevokes
  <1> SUFFICES ASSUME Shapes, Answers, NEW r \in Reqs, NEW s \in Reqs,
                      r # s, req[r].won \in Tokens, req[s].cred = req[r].won, req[s].pc = "done"
               PROVE  tokens[req[r].won].fam \in closed \/ now > tokens[req[r].won].exp
    BY DEF ReuseRevokes
  <1>1. req[s].won # req[r].won
    BY CredsDisjoint, Winners
  <1> QED BY <1>1 DEF Answers, Told

\* A refresh token presented again ends its family: the contract of MarkUsed, for
\* any number of requests and tokens.
THEOREM ReuseIsRevoked == TokenSpec => []ReuseRevokes
  <1>1. TokenInit => TokenTypeOK /\ Shapes /\ Answers
    BY TokenStart DEF TokenInit, NoReq, NoToken, Answers, Told, Revoked
  <1>2. TokenTypeOK /\ Shapes /\ Answers /\ [TokenNext]_tokenVars => TokenTypeOK' /\ Shapes' /\ Answers'
    BY ShapesInductive, AnswersStep
  <1> QED BY <1>1, <1>2, ReuseFound, PTL DEF TokenSpec

-----------------------------------------------------------------------------
(* Families.                                                               *)

\* A request that is moved on adds no token to a family that has none, that is
\* revoked, or whose revocation is forgotten.
HasToken(f, live) == \E t \in Tokens : /\ tokens[t].st # "unused" /\ tokens[t].fam = f
                                       /\ live => now <= tokens[t].exp
Follows(r) ==
    /\ Late(r)'
    /\ Active(r)' => req'[r].began = now \/ (Active(r) /\ req'[r].began = req[r].began)
    /\ req'[r].pc \in Knows => \/ req[r].pc \in Knows /\ req'[r].fam = req[r].fam
                               \/ HasToken(req'[r].fam, FALSE)
    /\ req'[r].pc = "save" => req'[r].won \notin Codes
    /\ req'[r].pc \in {"mark", "save"} =>
           \/ req[r].pc \in {"mark", "save"} /\ req'[r].fam = req[r].fam /\ req'[r].began = req[r].began
           \/ ~Revoked(req'[r].fam) /\ HasToken(req'[r].fam, TRUE)
KeepsFamilies ==
    /\ revoked' = revoked /\ closed' = closed /\ now' = now
    /\ \A c \in Codes : codes'[c].st # "gone" => codes[c].st # "gone"
    /\ \A t \in Tokens : tokens'[t].st # "unused" =>
           tokens[t].st # "unused" /\ tokens'[t].fam = tokens[t].fam /\ tokens'[t].exp = tokens[t].exp

\* Such a step keeps what is said of the families.
LEMMA FamiliesKept ==
  ASSUME TokenTypeOK, Shapes, Families, KeepsFamilies, TokensGrow,
         \A s \in Reqs : req'[s] = req[s] \/ Follows(s)
  PROVE  Families'
  <1>n. now \in Nat
    BY DEF TokenTypeOK
  <1>1. \A s \in Reqs : Young(s)'
    <2> TAKE s \in Reqs
    <2>1. CASE req'[s] = req[s]
      BY <2>1 DEF Families, KeepsFamilies, Young, Active
    <2>2. CASE Follows(s)
      BY <1>n, <2>2 DEF Families, KeepsFamilies, Young, Active, Follows
    <2> QED BY <2>1, <2>2
  <1>2. \A s \in Reqs : Late(s)'
    <2> TAKE s \in Reqs
    <2>1. CASE req'[s] = req[s]
      <3>1. req[s].cred \in Tokens => tokens[req[s].cred].st # "unused"
        BY DEF Shapes, Shape
      <3>2. req[s].pc \in {"get", "family"} => req[s].cred \in Tokens
        BY DEF Shapes, Shape, Rotates
      <3> QED BY <2>1, <3>1, <3>2 DEF Families, KeepsFamilies, Late, TokensGrow
    <2>2. CASE Follows(s)
      BY <2>2 DEF Follows
    <2> QED BY <2>1, <2>2
  <1>3. \A t \in Tokens : tokens'[t].st # "unused" => tokens'[t].exp <= now' + TokenTTL
    BY DEF Families, KeepsFamilies
  <1>4. \A f \in Codes : NoFamily(f) => NoFamily(f)' /\ ~HasToken(f, FALSE)
    BY DEF NoFamily, KeepsFamilies, HasToken
  <1>5. Unborn'
    BY <1>4 DEF Families, Unborn, KeepsFamilies, Follows
  <1>6. Newborn'
    <2> SUFFICES ASSUME NEW r \in Reqs, NEW f \in Codes, req'[r].pc = "save", req'[r].won = f
                 PROVE  /\ req'[r].fam = f /\ NoFamily(f)'
                        /\ \A s \in Reqs \ {r} : req'[s].pc \in Knows => req'[s].fam # f
      BY DEF Newborn, NoFamily
    <2>1. req'[r] = req[r]
      BY DEF Follows
    <2>2. /\ req[r].fam = f /\ NoFamily(f)
          /\ \A s \in Reqs \ {r} : req[s].pc \in Knows => req[s].fam # f
      BY <2>1 DEF Families, Newborn
    <2>3. \A s \in Reqs \ {r} : req'[s].pc \in Knows => req'[s].fam # f
      BY <1>4, <2>2 DEF Follows
    <2> QED BY <1>4, <2>1, <2>2, <2>3
  <1>7. ASSUME NEW f \in Codes PROVE Ends(f)' /\ Forgotten(f)'
    <2>1. Ends(f) /\ Forgotten(f)
      BY DEF Families
    <2>2. ASSUME NEW r \in Reqs, req'[r].pc \in {"mark", "save"}, req'[r].fam = f
          PROVE  \/ req[r].pc \in {"mark", "save"} /\ req[r].fam = f /\ req'[r].began = req[r].began
                 \/ ~Revoked(f) /\ HasToken(f, TRUE)
      BY <2>2 DEF Follows
    <2>3. Ends(f)'
      BY <2>1, <2>2 DEF Ends, KeepsFamilies, Revoked
    <2>4. HasToken(f, TRUE) /\ f \in closed /\ ~Revoked(f) => FALSE
      <3>1. \A t \in Tokens : tokens[t].exp \in Nat
        BY TTLs DEF TokenTypeOK, TokenRow, Times
      <3> QED BY <1>n, <2>1, <3>1 DEF HasToken, Forgotten
    <2>5. Forgotten(f)'
      BY <2>1, <2>2, <2>4 DEF Forgotten, KeepsFamilies, Revoked
    <2> QED BY <2>3, <2>5
  <1> QED BY <1>1, <1>2, <1>3, <1>5, <1>6, <1>7 DEF Families

\* Revocations are kept longer than tokens live.
Outlast == Retention > TokenTTL

\* Every step keeps what is said of the families.
LEMMA FamiliesStep ==
  ASSUME Outlast, TokenTypeOK, Shapes, Answers, Families, [TokenNext]_tokenVars, TokenTypeOK', Shapes'
  PROVE  Families'
  <1>t. /\ codes \in [Codes -> CodeRow] /\ tokens \in [Tokens -> TokenRow] /\ req \in [Reqs -> Request]
        /\ codes' \in [Codes -> CodeRow] /\ tokens' \in [Tokens -> TokenRow]
        /\ req' \in [Reqs -> Request] /\ revoked \in [Codes -> Times \cup {None}]
        /\ now \in Nat /\ now' \in Nat /\ Times \subseteq Nat /\ TokenTTL \in Nat /\ Retention \in Nat
    BY TTLs DEF TokenTypeOK, Times
  <1>s. \A s \in Reqs : Shape(s) /\ Spends(s) /\ Young(s) /\ Late(s)
    BY DEF Shapes, Families
  <1>n. None \notin Codes \cup Tokens /\ Codes \cap Tokens = {} /\ None \notin Nat
    BY CredsDisjoint, Numbered
  <1>k. ASSUME tokens' = tokens PROVE TokensGrow
    BY <1>k DEF TokensGrow
  \* steps that only move a request on
  <1>1. ASSUME NEW r \in Reqs,
               \/ ReadCode(r) \/ DeleteCode(r) \/ CodeExpired(r) \/ GetRefused(r)
               \/ AlreadyConsumed(r) \/ MarkNotFound(r) \/ FailToken(r)
        PROVE  Families'
    <2>1. PICK pc \in {"delete", "commit", "done", "revoke", "failed"} :
              GoTo(r, pc) /\ Active(r) /\ (pc = "revoke" => req[r].pc = "mark")
                          /\ (pc \in {"delete", "commit"} => req[r].pc \in Redeems)
      BY <1>1 DEF ReadCode, DeleteCode, CodeExpired, GetRefused, AlreadyConsumed, MarkNotFound,
                  FailToken, Refuse, At, Active, Redeems
    <2>2. /\ req'[r].pc = pc /\ req'[r].cred = req[r].cred /\ req'[r].fam = req[r].fam
          /\ req'[r].won = req[r].won /\ req'[r].began = req[r].began /\ req'[r].late = req[r].late
          /\ \A s \in Reqs \ {r} : req'[s] = req[s]
      BY <1>t, <2>1, MovesOn DEF Pcs
    <2>3. KeepsFamilies /\ tokens' = tokens /\ closed' = closed
      BY <1>1 DEF ReadCode, DeleteCode, CodeExpired, GetRefused, AlreadyConsumed, MarkNotFound,
                  FailToken, Keep, KeepsFamilies
    <2>4. Late(r)'
      BY <1>s, <2>1, <2>2, <2>3 DEF Late, Redeems
    <2>5. Follows(r)
      BY <2>1, <2>2, <2>4 DEF Follows, Knows
    <2> QED BY <1>k, <2>2, <2>3, <2>5, FamiliesKept
  <1>2. ASSUME NEW r \in Reqs,
               \/ \E c \in Codes : StartRedeem(r, c)
               \/ \E t \in Tokens : StartRotate(r, t)
        PROVE  Families'
    <2>1. KeepsFamilies /\ tokens' = tokens /\ closed' = closed /\ \A s \in Reqs \ {r} : req'[s] = req[s]
      BY <1>2, <1>t DEF StartRedeem, StartRotate, Keep, KeepsFamilies
    <2>2. /\ req'[r].pc \in {"read", "get"} /\ req'[r].won = None /\ req'[r].began = now
          /\ req'[r].late => req'[r].pc = "get" /\ tokens[req'[r].cred].fam \in closed
      <3>1. CASE \E c \in Codes : StartRedeem(r, c)
        BY <1>t, <3>1 DEF StartRedeem, NoReq
      <3>2. CASE \E t \in Tokens : StartRotate(r, t)
        <4>1. PICK t \in Tokens : StartRotate(r, t)
          BY <3>2
        <4> DEFINE b == tokens[t].fam \in closed
        <4>2. \A x \in BOOLEAN :
                  req' = [req EXCEPT ![r] = [NoReq EXCEPT !.pc = "get", !.cred = t, !.began = now, !.late = x]]
                  => /\ req'[r].pc = "get" /\ req'[r].won = None /\ req'[r].began = now
                     /\ req'[r].late = x /\ req'[r].cred = t
          BY <1>t DEF NoReq
        <4>3. req' = [req EXCEPT ![r] = [NoReq EXCEPT !.pc = "get", !.cred = t, !.began = now, !.late = b]]
          BY <4>1 DEF StartRotate
        <4>4. b \in BOOLEAN
          OBVIOUS
        <4> HIDE DEF b
        <4>5. /\ req'[r].pc = "get" /\ req'[r].won = None /\ req'[r].began = now
              /\ req'[r].late = b /\ req'[r].cred = t
          BY <4>2, <4>3, <4>4, Zenon
        <4> QED BY <4>5, Zenon DEF b
      <3> QED BY <1>2, <3>1, <3>2
    <2>3. Late(r)'
      BY <2>1, <2>2 DEF Late
    <2>4. Follows(r)
      BY <2>2, <2>3 DEF Follows, Knows
    <2> QED BY <1>k, <2>1, <2>4, FamiliesKept
  <1>3. ASSUME NEW r \in Reqs, GetToken(r)
        PROVE  Families'
    <2> DEFINE t == req[r].cred
    <2>1. KeepsFamilies /\ tokens' = tokens /\ closed' = closed /\ \A s \in Reqs \ {r} : req'[s] = req[s]
      BY <1>3, <1>t DEF GetToken, Keep, KeepsFamilies
    <2>2. t \in Tokens /\ req[r].won = None /\ Active(r) /\ req[r].pc = "get" /\ tokens[t].st # "unused"
      BY <1>3, <1>s DEF GetToken, At, Shape, Rotates, Active
    <2>3. /\ req'[r].pc \in {"family", "done"} /\ req'[r].fam = tokens[t].fam /\ req'[r].cred = t
          /\ req'[r].won = None /\ req'[r].began = req[r].began /\ req'[r].late = req[r].late
      BY <1>3, <1>t, <2>2 DEF GetToken, Request
    <2>4. Late(r)'
      BY <1>s, <2>1, <2>2, <2>3 DEF Late
    <2>5. HasToken(req'[r].fam, FALSE)
      BY <2>2, <2>3 DEF HasToken
    <2>6. Follows(r)
      BY <2>2, <2>3, <2>4, <2>5 DEF Follows
    <2> QED BY <1>k, <2>1, <2>6, FamiliesKept
  <1>4. ASSUME NEW r \in Reqs, GetOk(r)
        PROVE  Families'
    <2> DEFINE t == req[r].cred
    <2>1. KeepsFamilies /\ tokens' = tokens /\ \A s \in Reqs \ {r} : req'[s] = req[s]
      BY <1>4, <1>t DEF GetOk, Keep, KeepsFamilies
    <2>2. /\ t \in Tokens /\ req[r].won = None /\ Active(r) /\ req[r].pc = "family"
          /\ req[r].fam = tokens[t].fam /\ req[r].fam \in Codes /\ tokens[t].st # "unused"
          /\ now <= tokens[t].exp /\ ~Revoked(req[r].fam)
      BY <1>4, <1>s DEF GetOk, At, Shape, Rotates, Knows, Active
    <2>3. /\ req'[r].pc \in {"mark", "save"} /\ req'[r].fam = req[r].fam /\ req'[r].cred = t
          /\ req'[r].won = None /\ req'[r].began = req[r].began /\ req'[r].late = req[r].late
      BY <1>4, <1>t, <2>2 DEF GetOk, Request
    <2>4. HasToken(req'[r].fam, TRUE) /\ ~Revoked(req'[r].fam)
      BY <2>2, <2>3 DEF HasToken
    <2>5. tokens[t].exp \in Nat
      BY <1>t, <2>2 DEF TokenRow
    <2>6. req[r].fam \notin closed
      BY <1>t, <2>2, <2>5 DEF Families, Forgotten
    <2>7. Late(r)'
      BY <1>s, <2>2, <2>3, <2>6 DEF Late
    <2>8. Follows(r)
      BY <1>n, <2>2, <2>3, <2>4, <2>7 DEF Follows, Knows
    <2> QED BY <1>k, <2>1, <2>8, FamiliesKept
  <1>5. ASSUME NEW r \in Reqs, MarkUsed(r)
        PROVE  Families'
    <2> DEFINE t == req[r].cred
    <2>1. /\ t \in Tokens /\ Active(r) /\ req[r].pc = "mark" /\ tokens[t].st = "row" /\ ~req[r].late
          /\ req[r].fam \in Codes /\ req[r].next \in Tokens
      BY <1>5, <1>s DEF MarkUsed, At, Shape, Rotates, Knows, Late, Active
    <2>2. /\ req'[r].pc \in {"save", "mint"} /\ req'[r].won = t /\ req'[r].fam = req[r].fam
          /\ req'[r].began = req[r].began /\ ~req'[r].late
          /\ \A s \in Reqs \ {r} : req'[s] = req[s]
      BY <1>5, <1>t, <2>1 DEF MarkUsed, Request
    <2>3. \A u \in Tokens : /\ tokens'[u].st = tokens[u].st /\ tokens'[u].fam = tokens[u].fam
                            /\ tokens'[u].exp = tokens[u].exp
                            /\ tokens'[u].by = IF u = t THEN req[r].next ELSE tokens[u].by
      BY <1>5, <1>t, <2>1 DEF MarkUsed, TokenRow
    <2>4. KeepsFamilies
      BY <1>5, <2>3 DEF MarkUsed, Keep, KeepsFamilies
    <2>5. TokensGrow
      BY <1>n, <2>1, <2>3 DEF TokensGrow
    <2>6. Late(r)'
      BY <2>2 DEF Late
    <2>7. Follows(r)
      BY <1>n, <2>1, <2>2, <2>6 DEF Follows, Knows
    <2> QED BY <2>2, <2>4, <2>5, <2>7, FamiliesKept
  <1>6. ASSUME NEW r \in Reqs, NEW found \in BOOLEAN, Mint(r, found)
        PROVE  Families'
    <2>1. KeepsFamilies /\ tokens' = tokens /\ \A s \in Reqs \ {r} : req'[s] = req[s]
      BY <1>6, <1>t DEF Mint, Keep, KeepsFamilies
    <2>2. ~req[r].late
      BY <1>6, <1>s DEF Mint, At, Late
    <2>3. req'[r].pc = "done" /\ ~req'[r].late
      BY <1>6, <1>t, <2>2 DEF Mint, Request
    <2>4. Follows(r)
      BY <2>3 DEF Follows, Late, Active, Knows
    <2> QED BY <1>k, <2>1, <2>4, FamiliesKept
  <1>7. ASSUME SweepCodes \/ (\E c \in Codes, u \in Users : SaveCode(c, u)) \/ UNCHANGED tokenVars
        PROVE  Families'
    <2>1. tokens' = tokens /\ req' = req /\ revoked' = revoked /\ closed' = closed /\ now' = now
      BY <1>7 DEF SweepCodes, SaveCode, Keep, tokenVars
    <2>2. ASSUME NEW c \in Codes, codes'[c].st # "gone" PROVE codes[c].st # "gone"
      <3>1. CASE SweepCodes
        BY <1>t, <2>2, <3>1 DEF SweepCodes, Lapsed
      <3>2. CASE \E d \in Codes, u \in Users : SaveCode(d, u)
        BY <1>t, <2>2, <3>2 DEF SaveCode
      <3>3. CASE UNCHANGED tokenVars
        BY <2>2, <3>3 DEF tokenVars
      <3> QED BY <1>7, <3>1, <3>2, <3>3
    <2>3. KeepsFamilies
      BY <2>1, <2>2 DEF KeepsFamilies
    <2> QED BY <1>k, <2>1, <2>3, FamiliesKept
  <1>8. ASSUME NEW r \in Reqs, CommitCode(r) PROVE Families'
    <2> DEFINE c == req[r].cred
    <2>1. /\ c \in Codes /\ req[r].fam = c /\ codes[c].st = "row" /\ Active(r) /\ ~req[r].late
          /\ NoFamily(c) /\ \A s \in Reqs : req[s].pc \in Knows => req[s].fam # c
      BY <1>8, <1>s DEF CommitCode, At, Shape, Redeems, Active, Late, Families, Unborn
    <2>2. /\ req'[r].pc = "save" /\ req'[r].won = c /\ req'[r].fam = c
          /\ req'[r].began = req[r].began /\ ~req'[r].late
          /\ \A s \in Reqs \ {r} : req'[s] = req[s]
      <3>1. PICK t \in Tokens : req' = [req EXCEPT ![r].pc = "save", ![r].won = c, ![r].next = t,
                                                   ![r].user = codes[c].user]
        BY <1>8 DEF CommitCode
      <3> QED BY <1>t, <2>1, <3>1 DEF Request
    <2>3. /\ tokens' = tokens /\ closed' = closed /\ revoked' = revoked /\ now' = now
          /\ codes'[c].st = "gone" /\ \A d \in Codes \ {c} : codes'[d] = codes[d]
      BY <1>8, <1>t, <2>1 DEF CommitCode, Keep, CodeRow
    <2>4. \A s \in Reqs : Young(s)' /\ Late(s)'
      BY <1>s, <2>1, <2>2, <2>3 DEF Young, Late, Active
    <2>5. \A f \in Codes : NoFamily(f) => NoFamily(f)'
      BY <2>3 DEF NoFamily
    <2>6. Unborn'
      BY <2>2, <2>3, <2>5 DEF Families, Unborn
    <2>7. Newborn'
      <3> SUFFICES ASSUME NEW s \in Reqs, NEW f \in Codes, req'[s].pc = "save", req'[s].won = f
                   PROVE  /\ req'[s].fam = f /\ NoFamily(f)'
                          /\ \A q \in Reqs \ {s} : req'[q].pc \in Knows => req'[q].fam # f
        BY DEF Newborn, NoFamily
      <3>1. CASE s = r
        BY <2>1, <2>2, <2>5, <3>1
      <3>2. CASE s # r
        <4>1. f # c
          BY <1>s, <2>1, <2>2, <3>2 DEF Spends
        <4>2. /\ req[s].fam = f /\ NoFamily(f)
              /\ \A q \in Reqs \ {s} : req[q].pc \in Knows => req[q].fam # f
          BY <2>2, <3>2 DEF Families, Newborn
        <4> QED BY <2>2, <2>5, <3>2, <4>1, <4>2
      <3> QED BY <3>1, <3>2
    <2>8. ASSUME NEW f \in Codes PROVE Ends(f)' /\ Forgotten(f)'
      <3>1. Ends(f) /\ Forgotten(f) /\ (Revoked(f) => f \in closed)
        BY DEF Families, Answers
      <3>2. c \notin closed
        BY <2>1 DEF NoFamily
      <3>3. \A s \in Reqs : req'[s].pc \in {"mark", "save"} /\ req'[s].fam = f =>
                f = c \/ req'[s] = req[s]
        BY <2>2
      <3>4. Ends(f)'
        BY <2>3, <3>1, <3>2, <3>3 DEF Ends, Revoked
      <3>5. Forgotten(f)'
        BY <2>3, <3>1, <3>2, <3>3 DEF Forgotten, Revoked
      <3> QED BY <3>4, <3>5
    <2> QED BY <2>3, <2>4, <2>6, <2>7, <2>8 DEF Families
  <1>9. ASSUME NEW r \in Reqs, SaveToken(r) PROVE Families'
    <2> DEFINE n == req[r].next
               f == req[r].fam
    <2>1. /\ n \in Tokens /\ f \in Codes /\ tokens[n].st = "unused" /\ Active(r) /\ ~req[r].late
          /\ req[r].pc = "save"
      BY <1>9, <1>s DEF SaveToken, At, Shape, Knows, Active, Late
    <2>2. /\ req'[r].pc \in {"mark", "mint"} /\ req'[r].fam = f /\ req'[r].won = req[r].won
          /\ req'[r].began = req[r].began /\ ~req'[r].late
          /\ \A s \in Reqs \ {r} : req'[s] = req[s]
      <3>1. PICK pc \in {"mark", "mint"} : GoTo(r, pc)
        BY <1>9 DEF SaveToken
      <3> QED BY <1>t, <2>1, <3>1, MovesOn DEF Pcs
    <2>3. /\ codes' = codes /\ closed' = closed /\ revoked' = revoked /\ now' = now
          /\ tokens'[n].st = "row" /\ tokens'[n].fam = f /\ tokens'[n].exp = now + TokenTTL
          /\ \A t \in Tokens \ {n} : tokens'[t] = tokens[t]
      BY <1>9, <1>t, <2>1 DEF SaveToken, Keep
    <2>4. \A s \in Reqs : Young(s)'
      BY <1>s, <2>1, <2>2, <2>3 DEF Young, Active
    <2>5. \A s \in Reqs : Late(s)'
      <3> SUFFICES ASSUME NEW s \in Reqs, s # r PROVE Late(s)'
        BY <2>2 DEF Late
      <3>1. req[s].pc \in {"get", "family"} => req[s].cred \in Tokens /\ req[s].cred # n
        BY <1>s, <2>1 DEF Shape, Rotates
      <3> QED BY <1>s, <2>2, <2>3, <3>1 DEF Late
    <2>6. \A t \in Tokens : tokens'[t].st # "unused" => tokens'[t].exp <= now' + TokenTTL
      BY <1>t, <2>3 DEF Families
    <2>7. \A g \in Codes \ {f} : NoFamily(g) => NoFamily(g)'
      BY <2>3 DEF NoFamily
    <2>8. Unborn'
      BY <2>1, <2>2, <2>3, <2>7 DEF Families, Unborn, Knows
    <2>9. Newborn'
      <3> SUFFICES ASSUME NEW s \in Reqs, NEW g \in Codes, req'[s].pc = "save", req'[s].won = g
                   PROVE  /\ req'[s].fam = g /\ NoFamily(g)'
                          /\ \A q \in Reqs \ {s} : req'[q].pc \in Knows => req'[q].fam # g
        BY DEF Newborn, NoFamily
      <3>1. s # r
        BY <2>2
      <3>2. /\ req[s].fam = g /\ NoFamily(g)
            /\ \A q \in Reqs \ {s} : req[q].pc \in Knows => req[q].fam # g
        BY <2>2, <3>1 DEF Families, Newborn
      <3>3. g # f
        BY <2>1, <3>1, <3>2 DEF Knows
      <3> QED BY <2>2, <2>7, <3>1, <3>2, <3>3
    <2>10. ASSUME NEW g \in Codes PROVE Ends(g)' /\ Forgotten(g)'
      <3>1. Ends(g) /\ Forgotten(g)
        BY DEF Families
      <3>2. \A s \in Reqs : req'[s].pc \in {"mark", "save"} =>
                req[s].pc \in {"mark", "save"} /\ req'[s].fam = req[s].fam /\ req'[s].began = req[s].began
        BY <2>1, <2>2
      <3>3. f = g /\ Revoked(g) => now + TokenTTL <= revoked[g] + 1 + TokenTTL
        <4> SUFFICES ASSUME f = g, Revoked(g) PROVE now + TokenTTL <= revoked[g] + 1 + TokenTTL
          OBVIOUS
        <4>1. req[r].began <= revoked[g] /\ now <= req[r].began + 1
          BY <1>s, <2>1, <3>1 DEF Ends, Young
        <4>2. revoked[g] \in Nat /\ req[r].began \in Nat
          BY <1>t DEF Revoked, Request
        <4> QED BY <1>t, <4>1, <4>2
      <3>4. Ends(g)'
        BY <2>3, <3>1, <3>2, <3>3 DEF Ends, Revoked
      <3>5. f = g => ~(g \in closed /\ ~Revoked(g))
        BY <2>1, <3>1 DEF Forgotten
      <3>6. Forgotten(g)'
        BY <2>3, <3>1, <3>2, <3>5 DEF Forgotten, Revoked
      <3> QED BY <3>4, <3>6
    <2> QED BY <2>4, <2>5, <2>6, <2>8, <2>9, <2>10 DEF Families
  <1>10. ASSUME NEW r \in Reqs, RevokeFamily(r) PROVE Families'
    <2> DEFINE f == req[r].fam
    <2>1. req[r].pc = "revoke" /\ f \in Codes /\ ~req[r].late
      BY <1>10, <1>s DEF RevokeFamily, At, Shape, Knows, Late
    <2>2. /\ req'[r].pc = "done" /\ ~req'[r].late
          /\ \A s \in Reqs \ {r} : req'[s] = req[s]
      BY <1>10, <1>t, <2>1, MovesOn DEF RevokeFamily, Refuse, Pcs
    <2>3. /\ codes' = codes /\ tokens' = tokens /\ now' = now /\ closed' = closed \cup {f}
          /\ revoked'[f] = (IF Revoked(f) THEN revoked[f] ELSE now)
          /\ \A g \in Codes \ {f} : revoked'[g] = revoked[g]
      BY <1>10, <1>t, <2>1 DEF RevokeFamily
    <2>4. \A s \in Reqs : Young(s)' /\ Late(s)'
      BY <1>s, <2>2, <2>3 DEF Young, Late, Active
    <2>5. \A g \in Codes \ {f} : NoFamily(g) => NoFamily(g)'
      BY <2>3 DEF NoFamily
    <2>6. \A c \in Codes : codes[c].st # "gone" => c # f
      BY <2>1 DEF Families, Unborn, Knows
    <2>7. Unborn'
      BY <2>2, <2>3, <2>5, <2>6 DEF Families, Unborn, Knows
    <2>8. Newborn'
      <3> SUFFICES ASSUME NEW s \in Reqs, NEW g \in Codes, req'[s].pc = "save", req'[s].won = g
                   PROVE  /\ req'[s].fam = g /\ NoFamily(g)'
                          /\ \A q \in Reqs \ {s} : req'[q].pc \in Knows => req'[q].fam # g
        BY DEF Newborn, NoFamily
      <3>1. s # r
        BY <2>2
      <3>2. /\ req[s].fam = g /\ NoFamily(g)
            /\ \A q \in Reqs \ {s} : req[q].pc \in Knows => req[q].fam # g
        BY <2>2, <3>1 DEF Families, Newborn
      <3>3. g # f
        BY <2>1, <3>1, <3>2 DEF Knows
      <3> QED BY <2>2, <2>5, <3>1, <3>2, <3>3 DEF Knows
    <2>9. ASSUME NEW g \in Codes PROVE Ends(g)' /\ Forgotten(g)'
      <3>1. Ends(g) /\ Forgotten(g)
        BY DEF Families
      <3>2. \A s \in Reqs : req'[s].pc \in {"mark", "save"} => req'[s] = req[s]
        BY <2>2
      <3>3. CASE g # f \/ Revoked(g)
        <4>1. revoked'[g] = revoked[g] /\ (g # f => (g \in closed' <=> g \in closed))
          BY <2>3, <3>3
        <4> QED BY <2>3, <3>1, <3>2, <3>3, <4>1 DEF Ends, Forgotten, Revoked
      <3>4. CASE g = f /\ ~Revoked(g)
        <4>1. revoked'[g] = now
          BY <2>3, <3>4
        <4>2. \A t \in Tokens : tokens[t].st # "unused" => tokens[t].exp <= now + TokenTTL /\ tokens[t].exp \in Nat
          BY <1>t DEF Families, TokenRow
        <4>3. \A s \in Reqs : req[s].pc \in {"mark", "save"} => req[s].began <= now
          BY <1>s DEF Young, Active
        <4>4. \A t \in Tokens : tokens[t].st # "unused" => tokens[t].exp <= now + 1 + TokenTTL
          BY <1>t, <4>2
        <4> QED BY <1>t, <1>n, <2>3, <3>2, <4>1, <4>3, <4>4 DEF Ends, Forgotten, Revoked
      <3> QED BY <3>3, <3>4
    <2> QED BY <2>3, <2>4, <2>7, <2>8, <2>9 DEF Families
  <1>11. ASSUME Tick PROVE Families'
    <2>1. /\ now' = now + 1 /\ codes' = codes /\ tokens' = tokens /\ revoked' = revoked /\ req' = req
          /\ closed' = closed /\ \A r \in Reqs : Active(r) => req[r].began = now
      BY <1>11 DEF Tick
    <2>2. \A s \in Reqs : Young(s)' /\ Late(s)'
      BY <1>t, <1>s, <2>1 DEF Young, Late, Active
    <2>3. \A t \in Tokens : tokens[t].exp \in Nat
      BY <1>t DEF TokenRow
    <2>4. \A t \in Tokens : tokens'[t].st # "unused" => tokens'[t].exp <= now' + TokenTTL
      BY <1>t, <2>1, <2>3 DEF Families
    <2>5. Unborn' /\ Newborn'
      BY <2>1 DEF Families, Unborn, Newborn, NoFamily
    <2>6. \A f \in Codes : Ends(f)'
      BY <2>1 DEF Families, Ends, Revoked
    <2>7. \A f \in Codes : Forgotten(f)'
      BY <1>t, <2>1, <2>3 DEF Families, Forgotten, Revoked
    <2> QED BY <2>2, <2>4, <2>5, <2>6, <2>7 DEF Families
  <1>12. ASSUME SweepTokens PROVE Families'
    <2>1. /\ codes' = codes /\ now' = now /\ req' = req /\ closed' = closed
          /\ \A f \in Codes : revoked'[f] = IF Old(f) THEN None ELSE revoked[f]
      BY <1>12 DEF SweepTokens
    <2>2. \A t \in Tokens : /\ tokens'[t].st # "unused" <=> tokens[t].st # "unused"
                            /\ tokens'[t].fam = tokens[t].fam /\ tokens'[t].exp = tokens[t].exp
      BY <1>12, <1>t DEF SweepTokens, Purged, Lapsed, TokenRow
    <2>3. \A s \in Reqs : Young(s)'
      BY <1>s, <2>1 DEF Young, Active
    <2>4. \A s \in Reqs : Late(s)'
      <3>1. \A s \in Reqs : req[s].pc \in {"get", "family"} => req[s].cred \in Tokens
        BY <1>s DEF Shape, Rotates
      <3> QED BY <1>s, <2>1, <2>2, <3>1 DEF Late
    <2>5. \A t \in Tokens : tokens'[t].st # "unused" => tokens'[t].exp <= now' + TokenTTL
      BY <2>1, <2>2 DEF Families
    <2>6. \A f \in Codes : NoFamily(f) => NoFamily(f)'
      BY <2>1, <2>2 DEF NoFamily
    <2>7. Unborn' /\ Newborn'
      BY <2>1, <2>6 DEF Families, Unborn, Newborn
    <2>8. ASSUME NEW f \in Codes PROVE Ends(f)' /\ Forgotten(f)'
      <3>1. Ends(f) /\ Forgotten(f)
        BY DEF Families
      <3>2. Ends(f)'
        BY <1>n, <2>1, <2>2, <3>1 DEF Ends, Revoked
      <3>3. Forgotten(f)'
        <4>1. CASE ~Old(f)
          BY <2>1, <2>2, <3>1, <4>1 DEF Forgotten, Revoked
        <4>2. CASE Old(f)
          <5>1. Revoked(f) /\ revoked[f] \in Nat /\ revoked[f] + Retention < now
            BY <1>t, <4>2 DEF Old, Revoked
          <5>2. ASSUME NEW t \in Tokens, tokens[t].st # "unused", tokens[t].fam = f
                PROVE  tokens[t].exp < now
            <6>1. tokens[t].exp <= revoked[f] + 1 + TokenTTL /\ tokens[t].exp \in Nat
              BY <1>t, <3>1, <5>1, <5>2 DEF Ends, TokenRow
            <6> QED BY <1>t, <5>1, <6>1 DEF Outlast
          <5>3. ASSUME NEW s \in Reqs, req[s].pc \in {"mark", "save"}, req[s].fam = f
                PROVE  FALSE
            <6>1. req[s].began <= revoked[f] /\ now <= req[s].began + 1 /\ req[s].began \in Nat
              BY <1>s, <1>t, <3>1, <5>1, <5>3 DEF Ends, Young, Active, Request
            <6> QED BY <1>t, <5>1, <6>1 DEF Outlast
          <5> QED BY <2>1, <2>2, <5>2, <5>3 DEF Forgotten
        <4> QED BY <4>1, <4>2
      <3> QED BY <3>2, <3>3
    <2> QED BY <2>3, <2>4, <2>5, <2>7, <2>8 DEF Families
  <1> QED
    BY <1>1, <1>2, <1>3, <1>4, <1>5, <1>6, <1>7, <1>8, <1>9, <1>10, <1>11, <1>12
    DEF TokenNext, TokenStep, TokenEnv

\* At the start there are no families.
LEMMA FamiliesStart == TokenInit => Families
  BY DEF TokenInit, NoReq, NoToken, NoCode, Families, Young, Active, Late, Unborn, Newborn, NoFamily,
         Knows, Ends, Forgotten, Revoked

\* A request that comes after the revocation of its token's family rotates
\* nothing, whatever was in flight when the family was revoked and even once the
\* revocation is forgotten, if revocations are kept longer than tokens live.
THEOREM RevokedForGood == Outlast => (TokenSpec => []NoRevival)
  <1> SUFFICES ASSUME Outlast PROVE TokenSpec => []NoRevival
    OBVIOUS
  <1>1. TokenInit => TokenTypeOK /\ Shapes /\ Answers /\ Families
    <2> SUFFICES ASSUME TokenInit PROVE TokenTypeOK /\ Shapes /\ Answers /\ Families
      OBVIOUS
    <2>1. TokenTypeOK /\ Shapes
      BY TokenStart
    <2>2. Answers
      BY DEF TokenInit, NoReq, NoToken, Answers, Told, Revoked
    <2>3. Families
      BY FamiliesStart
    <2> QED BY <2>1, <2>2, <2>3
  <1>2. TokenTypeOK /\ Shapes /\ Answers /\ Families /\ [TokenNext]_tokenVars
            => TokenTypeOK' /\ Shapes' /\ Answers' /\ Families'
    BY ShapesInductive, AnswersStep, FamiliesStep
  <1>3. Families => NoRevival
    BY DEF Families, Late, NoRevival
  <1> QED BY <1>1, <1>2, <1>3, PTL DEF TokenSpec
=============================================================================
