---------------------------- MODULE OAuthProofs -----------------------------
(***************************************************************************)
(* The authorization server as a whole: what OAuthTokensProofs shows of    *)
(* the token endpoint holds beside the logins, the start-ups and the       *)
(* removal of users; a login ends in the row of its identity; what a user  *)
(* who was removed still gets has no claims; every replica that is up      *)
(* finds the one signing key.                                              *)
(***************************************************************************)
EXTENDS OAuth, OAuthTokensProofs, FiniteSetTheorems

\* A login past its lookup has a user.
Named(l) == login[l].pc \in {"refresh", "stamp", "code", "done"} => login[l].user \in Users
LoginsOK == /\ login \in [Logins -> Login] /\ mailbox \in [Emails -> Idents]
            /\ users \in [Users -> UserRow] /\ work \in Work
            /\ \A l \in Logins : Named(l)

-----------------------------------------------------------------------------
(* The token endpoint among the others.                                    *)

\* Nothing but TokenNext touches what belongs to the token endpoint.
LEMMA TokensApart ==
  ASSUME LoginsOK, [Next]_vars
  PROVE  [TokenNext]_tokenVars
  <1>1. ASSUME NEW r \in Reqs, Answered(r) PROVE TokenNext
    <2>1. Claims(r) \in BOOLEAN
      BY DEF Claims, IsUser
    <2> QED BY <1>1, <2>1 DEF Answered, Serve, TokenNext
  <1>2. ASSUME NEW l \in Logins, SignedIn(l) PROVE [TokenNext]_tokenVars
    <2>1. CASE SignIn(l)
      BY <2>1 DEF SignIn
    <2>2. CASE \E c \in Codes : IssueCode(l, c)
      <3>1. login[l].user \in Users
        BY <2>2 DEF LoginsOK, Named, IssueCode, In
      <3> QED BY <2>2, <3>1 DEF IssueCode, TokenNext
    <2> QED BY <1>2, <2>1, <2>2 DEF SignedIn
  <1>3. ASSUME NEW p \in Replicas, Booted(p) PROVE UNCHANGED tokenVars
    BY <1>3 DEF Booted
  <1>4. ASSUME UNCHANGED vars PROVE UNCHANGED tokenVars
    BY <1>4 DEF vars
  <1> QED BY <1>1, <1>2, <1>3, <1>4 DEF Next, TokenNext

-----------------------------------------------------------------------------
(* Logins.                                                                 *)

Gone(u) == users[u].st = "gone"
Looks == {"email", "again", "stamp", "provision"}
Found4 == {"refresh", "stamp", "code", "done"}
\* An identity has one row.
OneRow == \A u, v \in Users : IsUser(u) /\ IsUser(v) /\ users[u].ident # None /\ users[u].ident = users[v].ident
                                => u = v
\* The row an identity had when it came is that identity's or gone, and who looks
\* further has lost it; rows that were others' are theirs or gone.
Anchored(l) == LET q == login[l] IN
    /\ q.pc # "idle" => q.ident \in Idents
    /\ q.own # None => /\ q.pc # "idle" /\ q.own \in Users
                       /\ Gone(q.own) \/ (IsUser(q.own) /\ users[q.own].ident = q.ident)
                       /\ q.pc \in Looks => Gone(q.own)
                       /\ q.pc \in {"refresh", "code", "done"} => q.user = q.own \/ Gone(q.own)
    /\ q.others # {} => q.pc # "idle"
    /\ \A u \in q.others : Gone(u) \/ (IsUser(u) /\ users[u].ident \notin {None, q.ident})
    /\ q.pc \in Found4 => q.user \notin q.others
Logged == LoginsOK /\ OneRow /\ \A l \in Logins : Anchored(l)

\* Rows are not brought back, and an identity is not taken from its row.
RowsKeep == \A u \in Users :
    /\ Gone(u) => Gone(u)'
    /\ IsUser(u) => Gone(u)' \/ (IsUser(u)' /\ (users[u].ident # None => users'[u].ident = users[u].ident))

\* Such a step keeps what is said of a login that does not move.
LEMMA LoginKept ==
  ASSUME Logged, NEW k \in Logins, login'[k] = login[k], RowsKeep
  PROVE  Named(k)' /\ Anchored(k)'
  <1>1. Named(k) /\ Anchored(k)
    BY DEF Logged, LoginsOK
  <1>2. login[k] \in Login /\ None \notin Idents
    BY Someone DEF Logged, LoginsOK
  <1>3. \A u \in login[k].others : u \in Users
    BY <1>2 DEF Login
  <1>4. Named(k)'
    BY <1>1 DEF Named
  <1>5. Anchored(k)'
    BY <1>1, <1>2, <1>3 DEF Anchored, RowsKeep, Gone, IsUser
  <1> QED BY <1>4, <1>5

\* A login that moves on, with the rows it named.
LEMMA LoginOnward ==
  ASSUME Logged, NEW l \in Logins, NEW pc \in {"email", "provision", "again", "code", "refused", "stamp", "refresh"},
         To(l, pc)
  PROVE  /\ login' \in [Logins -> Login]
         /\ \A k \in Logins \ {l} : login'[k] = login[k]
         /\ login'[l].pc = pc /\ login'[l].user = login[l].user /\ login'[l].ident = login[l].ident
         /\ login'[l].own = login[l].own /\ login'[l].others = login[l].others
  <1>1. login \in [Logins -> Login] /\ login[l] \in Login
    BY DEF Logged, LoginsOK
  <1> DEFINE x == [login[l] EXCEPT !.pc = pc]
  <1>2. x \in Login
    BY <1>1 DEF Login
  <1>3. /\ x.pc = pc /\ x.user = login[l].user /\ x.ident = login[l].ident
        /\ x.own = login[l].own /\ x.others = login[l].others
    BY <1>1 DEF Login
  <1>4. login' = [login EXCEPT ![l] = x]
    BY <1>1 DEF To
  <1> HIDE DEF x
  <1> QED BY <1>1, <1>2, <1>3, <1>4

\* And one that has found a row.
LEMMA LoginFound ==
  ASSUME Logged, NEW l \in Logins, NEW pc \in {"code", "stamp", "refresh"}, NEW u \in Users, Found(l, u, pc)
  PROVE  /\ login' \in [Logins -> Login]
         /\ \A k \in Logins \ {l} : login'[k] = login[k]
         /\ login'[l].pc = pc /\ login'[l].user = u /\ login'[l].ident = login[l].ident
         /\ login'[l].own = login[l].own /\ login'[l].others = login[l].others
  <1>1. login \in [Logins -> Login] /\ login[l] \in Login
    BY DEF Logged, LoginsOK
  <1> DEFINE x == [login[l] EXCEPT !.pc = pc, !.user = u]
  <1>2. x \in Login
    BY <1>1 DEF Login
  <1>3. /\ x.pc = pc /\ x.user = u /\ x.ident = login[l].ident
        /\ x.own = login[l].own /\ x.others = login[l].others
    BY <1>1 DEF Login
  <1>4. login' = [login EXCEPT ![l] = x]
    BY <1>1 DEF Found
  <1> HIDE DEF x
  <1> QED BY <1>1, <1>2, <1>3, <1>4

\* A step that changes one login and no row.
LEMMA LoginOnly ==
  ASSUME Logged, NEW l \in Logins, \A k \in Logins \ {l} : login'[k] = login[k],
         login' \in [Logins -> Login], users' = users, mailbox' = mailbox, work' = work,
         Named(l)', Anchored(l)'
  PROVE  Logged'
  <1>1. RowsKeep
    BY DEF RowsKeep, Gone, IsUser
  <1>2. \A k \in Logins : Named(k)' /\ Anchored(k)'
    BY <1>1, LoginKept
  <1>3. OneRow'
    BY DEF Logged, OneRow, IsUser
  <1>4. LoginsOK'
    BY <1>2 DEF Logged, LoginsOK
  <1> QED BY <1>2, <1>3, <1>4 DEF Logged

\* A login that takes a step of its own keeps what is said of all.
LEMMA LoginStepKeeps ==
  ASSUME Logged, TokenTypeOK, NEW l \in Logins, LoginStep(l), work' = work
  PROVE  Logged'
  <1>t. /\ login \in [Logins -> Login] /\ mailbox \in [Emails -> Idents] /\ users \in [Users -> UserRow]
        /\ Named(l) /\ Anchored(l) /\ OneRow
    BY DEF Logged, LoginsOK
  <1>l. /\ login[l].ident \in Idents \cup {None} /\ login[l].email \in Emails \cup {None}
        /\ login[l].own \in Users \cup {None} /\ login[l].others \in SUBSET Users
        /\ login[l].user \in Users \cup {None}
    BY <1>t DEF Login
  <1>n. None \notin Idents /\ None \notin Users
    BY Someone
  \* the lookup by identity finds the row the identity had, if that is there
  <1>1. CASE LookupSubject(l)
    <2>1. ASSUME NEW u \in WithIdent(login[l].ident), NEW pc \in {"code", "refresh"}, Found(l, u, pc)
          PROVE  Logged'
      <3>1. u \in Users /\ IsUser(u) /\ users[u].ident = login[l].ident
        BY DEF WithIdent
      <3>2. /\ login' \in [Logins -> Login] /\ \A k \in Logins \ {l} : login'[k] = login[k]
            /\ login'[l].pc = pc /\ login'[l].user = u /\ login'[l].ident = login[l].ident
            /\ login'[l].own = login[l].own /\ login'[l].others = login[l].others
        BY <2>1, <3>1, LoginFound
      <3>3. users' = users /\ mailbox' = mailbox
        BY <1>1 DEF LookupSubject, Still
      <3>4. login[l].pc = "subject"
        BY <1>1 DEF LookupSubject, In
      <3>5. Named(l)'
        BY <3>1, <3>2 DEF Named
      <3>6. login[l].own # None => login[l].own = u \/ Gone(login[l].own)
        BY <1>t, <1>n, <3>1, <3>4 DEF Anchored, OneRow
      <3>7. login'[l].user \notin login'[l].others
        BY <1>t, <3>1, <3>2 DEF Anchored, Gone, IsUser
      <3>8. Anchored(l)'
        BY <1>t, <3>2, <3>3, <3>4, <3>6, <3>7 DEF Anchored, Gone, IsUser, Looks
      <3> QED BY <3>2, <3>3, <3>5, <3>8, LoginOnly
    <2>2. CASE WithIdent(login[l].ident) = {} /\ To(l, "email")
      <3>1. /\ login' \in [Logins -> Login] /\ \A k \in Logins \ {l} : login'[k] = login[k]
            /\ login'[l].pc = "email" /\ login'[l].user = login[l].user /\ login'[l].ident = login[l].ident
            /\ login'[l].own = login[l].own /\ login'[l].others = login[l].others
        BY <2>2, LoginOnward
      <3>2. users' = users /\ mailbox' = mailbox /\ login[l].pc = "subject"
        BY <1>1 DEF LookupSubject, Still, In
      <3>3. login[l].own # None => Gone(login[l].own)
        BY <1>t, <2>2 DEF Anchored, WithIdent
      <3>4. Named(l)'
        BY <3>1 DEF Named
      <3>5. Anchored(l)'
        BY <1>t, <3>1, <3>2, <3>3 DEF Anchored, Gone, IsUser, Found4
      <3> QED BY <3>1, <3>2, <3>4, <3>5, LoginOnly
    <2> QED BY <1>1, <2>1, <2>2 DEF LookupSubject
  <1>2. CASE RefreshEmail(l)
    <2> DEFINE u == login[l].user
    <2>1. login[l].pc = "refresh" /\ u \in Users /\ To(l, "code")
      BY <1>2, <1>t DEF RefreshEmail, In, Named
    <2>2. /\ login' \in [Logins -> Login] /\ \A k \in Logins \ {l} : login'[k] = login[k]
          /\ login'[l].pc = "code" /\ login'[l].user = u /\ login'[l].ident = login[l].ident
          /\ login'[l].own = login[l].own /\ login'[l].others = login[l].others
      BY <2>1, LoginOnward
    <2>3. users' = users \/ users' = [users EXCEPT ![u].email = login[l].email]
      BY <1>2 DEF RefreshEmail
    <2>4. [users[u] EXCEPT !.email = login[l].email] \in UserRow
      BY <1>t, <1>l, <2>1 DEF UserRow
    <2>5. /\ users' \in [Users -> UserRow] /\ mailbox' = mailbox
          /\ \A v \in Users : users'[v].st = users[v].st /\ users'[v].ident = users[v].ident
      BY <1>2, <1>t, <2>1, <2>3, <2>4 DEF UserRow, RefreshEmail
    <2>6. RowsKeep /\ OneRow'
      BY <1>t, <2>5 DEF RowsKeep, Gone, IsUser, OneRow
    <2>7. \A k \in Logins \ {l} : Named(k)' /\ Anchored(k)'
      BY <2>2, <2>6, LoginKept
    <2>8. Named(l)' /\ Anchored(l)'
      BY <1>t, <1>l, <2>1, <2>2, <2>5 DEF Named, Anchored, Gone, IsUser, Looks, Found4
    <2> QED BY <2>2, <2>5, <2>6, <2>7, <2>8 DEF Logged, LoginsOK
  <1>3. CASE EmailOwn(l) \/ EmailAdopt(l)
    <2>1. PICK u \in WithEmail(login[l].email), pc \in {"code", "stamp"} :
             /\ Found(l, u, pc) /\ users[u].ident \in {None, login[l].ident}
             /\ login[l].pc \in {"email", "again"}
      BY <1>3 DEF EmailOwn, EmailAdopt, Mismatch
    <2>2. u \in Users /\ IsUser(u)
      BY DEF WithEmail
    <2>3. /\ login' \in [Logins -> Login] /\ \A k \in Logins \ {l} : login'[k] = login[k]
          /\ login'[l].pc = pc /\ login'[l].user = u /\ login'[l].ident = login[l].ident
          /\ login'[l].own = login[l].own /\ login'[l].others = login[l].others
      BY <2>1, <2>2, LoginFound
    <2>4. users' = users /\ mailbox' = mailbox
      BY <1>3 DEF EmailOwn, EmailAdopt, Still
    <2>5. login'[l].user \notin login'[l].others
      BY <1>t, <2>1, <2>2, <2>3 DEF Anchored, Gone, IsUser
    <2>6. Named(l)' /\ Anchored(l)'
      BY <1>t, <2>1, <2>2, <2>3, <2>4, <2>5 DEF Named, Anchored, Gone, IsUser, Looks
    <2> QED BY <2>3, <2>4, <2>6, LoginOnly
  <1>4. CASE EmailMismatch(l) \/ EmailMissing(l)
    <2>1. PICK pc \in {"provision", "refused"} : To(l, pc) /\ login[l].pc \in {"email", "again"}
      BY <1>4 DEF EmailMismatch, EmailMissing
    <2>2. /\ login' \in [Logins -> Login] /\ \A k \in Logins \ {l} : login'[k] = login[k]
          /\ login'[l].pc = pc /\ login'[l].user = login[l].user /\ login'[l].ident = login[l].ident
          /\ login'[l].own = login[l].own /\ login'[l].others = login[l].others
      BY <2>1, LoginOnward
    <2>3. users' = users /\ mailbox' = mailbox
      BY <1>4 DEF EmailMismatch, EmailMissing, Still
    <2>4. Named(l)' /\ Anchored(l)'
      BY <1>t, <2>1, <2>2, <2>3 DEF Named, Anchored, Gone, IsUser, Looks, Found4
    <2> QED BY <2>2, <2>3, <2>4, LoginOnly
  <1>5. CASE StampSubject(l)
    <2> DEFINE u == login[l].user
    <2>1. login[l].pc = "stamp" /\ u \in Users /\ To(l, "code") /\ mailbox' = mailbox
      BY <1>5, <1>t DEF StampSubject, In, Named
    <2>2. /\ login' \in [Logins -> Login] /\ \A k \in Logins \ {l} : login'[k] = login[k]
          /\ login'[l].pc = "code" /\ login'[l].user = u /\ login'[l].ident = login[l].ident
          /\ login'[l].own = login[l].own /\ login'[l].others = login[l].others
      BY <2>1, LoginOnward
    <2>3. \/ users' = users
          \/ /\ users' = [users EXCEPT ![u].ident = login[l].ident]
             /\ users[u].ident = None /\ WithIdent(login[l].ident) = {}
      BY <1>5 DEF StampSubject
    <2>4. [users[u] EXCEPT !.ident = login[l].ident] \in UserRow
      BY <1>t, <1>l, <2>1 DEF UserRow
    <2>5. /\ users' \in [Users -> UserRow]
          /\ \A v \in Users : /\ users'[v].st = users[v].st
                              /\ users[v].ident # None => users'[v].ident = users[v].ident
                              /\ users'[v].ident = users[v].ident \/ v = u
      BY <1>t, <2>1, <2>3, <2>4 DEF UserRow
    <2>6. RowsKeep
      BY <2>5 DEF RowsKeep, Gone, IsUser
    <2>7. OneRow'
      <3>1. CASE users' = users
        BY <1>t, <3>1 DEF OneRow, IsUser
      <3>2. CASE users' = [users EXCEPT ![u].ident = login[l].ident] /\ WithIdent(login[l].ident) = {}
        <4>1. users'[u].ident = login[l].ident
          BY <1>t, <2>1, <3>2 DEF UserRow
        <4>2. \A v \in Users \ {u} : users'[v] = users[v]
          BY <1>t, <3>2
        <4>3. \A v \in Users : IsUser(v) => users[v].ident # login[l].ident
          BY <3>2 DEF WithIdent
        <4> QED BY <1>t, <4>1, <4>2, <4>3 DEF OneRow, IsUser
      <3> QED BY <2>3, <3>1, <3>2
    <2>8. \A k \in Logins \ {l} : Named(k)' /\ Anchored(k)'
      BY <2>2, <2>6, LoginKept
    <2>9. u \notin login[l].others
      BY <1>t, <2>1 DEF Anchored, Found4
    <2>10. Named(l)' /\ Anchored(l)'
      BY <1>t, <1>l, <2>1, <2>2, <2>5, <2>9 DEF Named, Anchored, Gone, IsUser, Looks, Found4
    <2> QED BY <2>1, <2>2, <2>5, <2>7, <2>8, <2>10 DEF Logged, LoginsOK
  <1>6. CASE Provision(l)
    <2>1. PICK pc \in {"again", "refused"} : To(l, pc) /\ login[l].pc = "provision" /\ mailbox' = mailbox
      BY <1>6 DEF Provision, In
    <2>2. /\ login' \in [Logins -> Login] /\ \A k \in Logins \ {l} : login'[k] = login[k]
          /\ login'[l].pc = pc /\ login'[l].user = login[l].user /\ login'[l].ident = login[l].ident
          /\ login'[l].own = login[l].own /\ login'[l].others = login[l].others
      BY <2>1, LoginOnward
    <2>3. CASE users' = users
      <3>1. Named(l)' /\ Anchored(l)'
        BY <1>t, <2>1, <2>2, <2>3 DEF Named, Anchored, Gone, IsUser, Looks, Found4
      <3> QED BY <2>1, <2>2, <2>3, <3>1, LoginOnly
    <2>4. ASSUME NEW u \in Users, FreshUser(u), WithIdent(login[l].ident) = {},
                 users' = [users EXCEPT ![u] = [NoUser EXCEPT !.st = "row",
                                       !.email = login[l].email, !.ident = login[l].ident]]
          PROVE  Logged'
      <3> DEFINE row == [NoUser EXCEPT !.st = "row", !.email = login[l].email, !.ident = login[l].ident]
      <3>1. row \in UserRow /\ row.st = "row" /\ row.ident = login[l].ident
        BY <1>l, Blanks DEF NoUser, UserRow, NoReq, Request
      <3>2. /\ users' \in [Users -> UserRow] /\ users'[u] = row
            /\ \A v \in Users \ {u} : users'[v] = users[v]
        BY <1>t, <2>4, <3>1
      <3> HIDE DEF row
      <3>3. users[u].st = "unused"
        BY <2>4 DEF FreshUser
      <3>4. RowsKeep
        BY <3>2, <3>3 DEF RowsKeep, Gone, IsUser
      <3>5. \A v \in Users : IsUser(v) => users[v].ident # login[l].ident
        BY <2>4 DEF WithIdent
      <3>6. OneRow'
        BY <1>t, <3>1, <3>2, <3>5 DEF OneRow, IsUser
      <3>7. \A k \in Logins \ {l} : Named(k)' /\ Anchored(k)'
        BY <2>2, <3>4, LoginKept
      <3>8. login[l].own # u /\ u \notin login[l].others
        BY <1>t, <1>n, <3>3 DEF Anchored, Gone, IsUser
      <3>9. Named(l)' /\ Anchored(l)'
        BY <1>t, <1>l, <2>1, <2>2, <3>2, <3>8 DEF Named, Anchored, Gone, IsUser, Looks, Found4
      <3> QED BY <2>1, <2>2, <3>2, <3>6, <3>7, <3>9 DEF Logged, LoginsOK
    <2> QED BY <1>6, <2>3, <2>4 DEF Provision
  <1> QED BY <1>1, <1>2, <1>3, <1>4, <1>5, <1>6 DEF LoginStep

\* So does a code that is issued, a login that begins, and whoever grants a row,
\* takes one away or gives an address to another.
LEMMA LoginEnvKeeps ==
  ASSUME Logged, TokenTypeOK, work' = work,
         \/ \E l \in Logins, c \in Codes : IssueCode(l, c)
         \/ \E l \in Logins, e \in Emails : Callback(l, e)
         \/ \E u \in Users : RevokeUser(u) \/ \E e \in Emails : GrantUser(u, e)
         \/ \E e \in Emails, i \in Idents : Reassign(e, i)
  PROVE  Logged'
  <1>t. /\ login \in [Logins -> Login] /\ mailbox \in [Emails -> Idents] /\ users \in [Users -> UserRow]
        /\ OneRow /\ \A l \in Logins : Named(l) /\ Anchored(l)
    BY DEF Logged, LoginsOK
  <1>n. None \notin Idents /\ None \notin Users
    BY Someone
  <1>1. ASSUME NEW l \in Logins, NEW c \in Codes, IssueCode(l, c) PROVE Logged'
    <2>1. login[l] \in Login /\ login[l].user \in Users \cup {None} /\ login[l].pc = "code"
      BY <1>t, <1>1 DEF Login, IssueCode, In
    <2> DEFINE x == [login[l] EXCEPT !.pc = "done", !.code = c]
    <2>2. x \in Login
      BY <2>1 DEF Login
    <2>3. /\ x.pc = "done" /\ x.user = login[l].user /\ x.ident = login[l].ident
          /\ x.own = login[l].own /\ x.others = login[l].others
      BY <2>1 DEF Login
    <2>4. login' = [login EXCEPT ![l] = x] /\ users' = users /\ mailbox' = mailbox
      BY <1>t, <1>1 DEF IssueCode, Still
    <2> HIDE DEF x
    <2>5. login' \in [Logins -> Login] /\ login'[l] = x /\ \A k \in Logins \ {l} : login'[k] = login[k]
      BY <1>t, <2>2, <2>4
    <2>6. Named(l)' /\ Anchored(l)'
      BY <1>t, <2>1, <2>3, <2>4, <2>5 DEF Named, Anchored, Gone, IsUser, Looks, Found4
    <2> QED BY <2>4, <2>5, <2>6, LoginOnly
  <1>2. ASSUME NEW l \in Logins, NEW e \in Emails, Callback(l, e) PROVE Logged'
    <2> DEFINE i == mailbox[e]
               others == {u \in Users : IsUser(u) /\ users[u].ident \notin {None, i}}
    <2>1. PICK own \in WithIdent(i) \cup {None} :
             login' = [login EXCEPT ![l] = [NoLogin EXCEPT !.pc = "subject", !.ident = i, !.email = e,
                                              !.own = own, !.others = others]]
      BY <1>2 DEF Callback
    <2> DEFINE x == [NoLogin EXCEPT !.pc = "subject", !.ident = i, !.email = e, !.own = own, !.others = others]
    <2>2. i \in Idents /\ own \in Users \cup {None} /\ others \in SUBSET Users
      BY <1>t DEF WithIdent
    <2>3. x \in Login
      BY <2>2 DEF Login, NoLogin
    <2>4. x.pc = "subject" /\ x.ident = i /\ x.own = own /\ x.others = others
      BY DEF NoLogin
    <2>5. users' = users /\ mailbox' = mailbox
      BY <1>2 DEF Callback, Still
    <2>6. own # None => IsUser(own) /\ users[own].ident = i
      BY DEF WithIdent
    <2>7. \A u \in others : IsUser(u) /\ users[u].ident \notin {None, i}
      OBVIOUS
    <2> HIDE DEF x, others, i
    <2>8. login' \in [Logins -> Login] /\ login'[l] = x /\ \A k \in Logins \ {l} : login'[k] = login[k]
      BY <1>t, <2>1, <2>3 DEF x
    <2>9. Named(l)' /\ Anchored(l)'
      BY <2>2, <2>4, <2>5, <2>6, <2>7, <2>8 DEF Named, Anchored, Gone, IsUser, Looks, Found4
    <2> QED BY <2>5, <2>8, <2>9, LoginOnly
  <1>3. ASSUME NEW u \in Users, RevokeUser(u) PROVE Logged'
    <2>1. now \in Times
      BY Clocks DEF TokenTypeOK
    <2>2. [NoUser EXCEPT !.st = "gone", !.removed = now] \in UserRow
      BY <2>1 DEF NoUser, UserRow
    <2>3. /\ users' \in [Users -> UserRow] /\ users'[u].st = "gone"
          /\ \A v \in Users \ {u} : users'[v] = users[v]
          /\ login' = login /\ mailbox' = mailbox
      BY <1>3, <1>t, <2>2 DEF RevokeUser, NoUser
    <2>4. RowsKeep /\ OneRow'
      BY <1>t, <2>3 DEF RowsKeep, Gone, IsUser, OneRow
    <2>5. \A k \in Logins : Named(k)' /\ Anchored(k)'
      BY <2>3, <2>4, LoginKept
    <2> QED BY <1>t, <2>3, <2>4, <2>5 DEF Logged, LoginsOK
  <1>4. ASSUME NEW u \in Users, NEW e \in Emails, GrantUser(u, e) PROVE Logged'
    <2>1. [NoUser EXCEPT !.st = "row", !.email = e] \in UserRow
      BY Blanks DEF NoUser, UserRow, NoReq, Request
    <2>2. /\ users' \in [Users -> UserRow] /\ users'[u].ident = None
          /\ \A v \in Users \ {u} : users'[v] = users[v]
          /\ login' = login /\ mailbox' = mailbox /\ users[u].st = "unused"
      BY <1>4, <1>t, <2>1 DEF GrantUser, NoUser, FreshUser
    <2>3. RowsKeep /\ OneRow'
      BY <1>t, <2>2 DEF RowsKeep, Gone, IsUser, OneRow
    <2>4. \A k \in Logins : Named(k)' /\ Anchored(k)'
      BY <2>2, <2>3, LoginKept
    <2> QED BY <1>t, <2>2, <2>3, <2>4 DEF Logged, LoginsOK
  <1>5. ASSUME NEW e \in Emails, NEW i \in Idents, Reassign(e, i) PROVE Logged'
    <2>1. users' = users /\ login' = login /\ mailbox' \in [Emails -> Idents]
      BY <1>5, <1>t DEF Reassign
    <2>2. RowsKeep
      BY <2>1 DEF RowsKeep, Gone, IsUser
    <2>3. \A k \in Logins : Named(k)' /\ Anchored(k)'
      BY <2>1, <2>2, LoginKept
    <2> QED BY <1>t, <2>1, <2>3 DEF Logged, LoginsOK, OneRow, IsUser
  <1> QED BY <1>1, <1>2, <1>3, <1>4, <1>5

\* And every step of the whole.
LEMMA LoggedStep ==
  ASSUME Logged, TokenTypeOK, [Next]_vars
  PROVE  Logged'
  <1>1. work' = work
    BY DEF Next, Answered, SignedIn, Booted, vars
  <1>2. CASE \E l \in Logins : SignedIn(l)
    BY <1>1, <1>2, LoginStepKeeps, LoginEnvKeeps DEF SignedIn, SignIn
  <1>3. CASE \E l \in Logins, e \in Emails : Callback(l, e)
    BY <1>1, <1>3, LoginEnvKeeps
  <1>4. CASE \/ \E u \in Users : RevokeUser(u) \/ \E e \in Emails : GrantUser(u, e)
             \/ \E e \in Emails, i \in Idents : Reassign(e, i)
    BY <1>1, <1>4, LoginEnvKeeps
  <1>5. CASE UNCHANGED loginVars
    <2>1. RowsKeep
      BY <1>5 DEF loginVars, RowsKeep, Gone, IsUser
    <2>2. \A k \in Logins : Named(k)' /\ Anchored(k)'
      BY <1>5, <2>1, LoginKept DEF loginVars
    <2> QED BY <1>1, <1>5, <2>2 DEF loginVars, Logged, LoginsOK, OneRow, IsUser
  <1> QED
    BY <1>2, <1>3, <1>4, <1>5 DEF Next, Answered, Booted, vars

\* At the start nobody has logged in.
LEMMA LoggedStart == Init => Logged
  <1> SUFFICES ASSUME Init PROVE Logged
    OBVIOUS
  <1>1. NoLogin \in Login /\ NoUser \in UserRow /\ [NoUser EXCEPT !.st = "row"] \in UserRow
    BY Blanks DEF NoLogin, Login, NoUser, UserRow, NoReq, Request
  <1>2. (CHOOSE i \in Idents : TRUE) \in Idents
    BY Someone
  <1>3. LoginsOK
    BY <1>1, <1>2 DEF Init, LoginInit, LoginsOK, Named, NoLogin
  <1>4. OneRow
    BY DEF Init, OneRow, NoUser
  <1>5. \A l \in Logins : Anchored(l)
    BY DEF Init, LoginInit, NoLogin, Anchored, Looks, Found4
  <1> QED BY <1>3, <1>4, <1>5 DEF Logged

-----------------------------------------------------------------------------
(* The tokens of a user who was removed.                                   *)

\* Codes and tokens are of users, and so is what a request takes from them.
Carries == Knows \cup {"mint"}
OfUsers == /\ \A c \in Codes : codes[c].st = "row" => codes[c].user \in Users
           /\ \A t \in Tokens : tokens[t].st # "unused" => tokens[t].user \in Users
           /\ \A r \in Reqs : req[r].pc \in Carries => req[r].user \in Users

\* Who has been answered stays answered, and no request began in the future.
LEMMA DoneStays ==
  ASSUME TokenTypeOK, [TokenNext]_tokenVars, NEW r \in Reqs, req[r].pc = "done"
  PROVE  req'[r] = req[r]
  <1>1. req \in [Reqs -> Request]
    BY DEF TokenTypeOK
  <1>2. ASSUME NEW s \in Reqs, TokenStep(s) \/ \E found \in BOOLEAN : Mint(s, found)
        PROVE  req'[r] = req[r]
    <2>1. req[s].pc # "done"
      BY <1>2 DEF TokenStep, ReadCode, DeleteCode, CodeExpired, CommitCode, GetToken, GetRefused, GetOk,
                  MarkUsed, AlreadyConsumed, MarkNotFound, SaveToken, RevokeFamily, Mint, At
    <2> QED
      BY <1>1, <1>2, <2>1
      DEF TokenStep, ReadCode, DeleteCode, CodeExpired, CommitCode, GetToken, GetRefused, GetOk, MarkUsed,
          AlreadyConsumed, MarkNotFound, SaveToken, RevokeFamily, Mint, GoTo, Refuse
  <1>3. ASSUME NEW s \in Reqs, \/ FailToken(s) \/ \E c \in Codes : StartRedeem(s, c)
                               \/ \E t \in Tokens : StartRotate(s, t)
        PROVE  req'[r] = req[r]
    <2>1. req[s].pc # "done"
      BY <1>3 DEF FailToken, StartRedeem, StartRotate, Active, Arrives, At
    <2> QED BY <1>1, <1>3, <2>1 DEF FailToken, StartRedeem, StartRotate, GoTo
  <1>4. ASSUME \/ Tick \/ SweepCodes \/ SweepTokens \/ (\E c \in Codes, u \in Users : SaveCode(c, u))
               \/ UNCHANGED tokenVars
        PROVE  req' = req
    BY <1>4 DEF Tick, SweepCodes, SweepTokens, SaveCode, tokenVars
  <1> QED BY <1>2, <1>3, <1>4 DEF TokenNext, TokenEnv

\* Every step keeps codes, tokens and requests in the hands of users.
LEMMA OfUsersStep ==
  ASSUME TokenTypeOK, Shapes, OfUsers, [TokenNext]_tokenVars
  PROVE  OfUsers'
  <1>t. /\ codes \in [Codes -> CodeRow] /\ tokens \in [Tokens -> TokenRow] /\ req \in [Reqs -> Request]
    BY DEF TokenTypeOK
  <1>s. \A s \in Reqs : Shape(s)
    BY DEF Shapes
  <1>1. ASSUME NEW r \in Reqs,
               \/ ReadCode(r) \/ DeleteCode(r) \/ CodeExpired(r) \/ GetRefused(r)
               \/ AlreadyConsumed(r) \/ MarkNotFound(r) \/ FailToken(r) \/ RevokeFamily(r)
        PROVE  OfUsers'
    <2>1. PICK pc \in {"delete", "commit", "done", "revoke", "failed"} :
              GoTo(r, pc) /\ (pc = "revoke" => req[r].pc = "mark")
      BY <1>1 DEF ReadCode, DeleteCode, CodeExpired, GetRefused, AlreadyConsumed, MarkNotFound,
                  FailToken, RevokeFamily, Refuse, At
    <2>2. /\ req'[r].pc = pc /\ req'[r].user = req[r].user
          /\ \A s \in Reqs \ {r} : req'[s] = req[s]
      BY <1>t, <2>1, MovesOn DEF Pcs
    <2>3. codes' = codes /\ tokens' = tokens
      BY <1>1 DEF ReadCode, DeleteCode, CodeExpired, GetRefused, AlreadyConsumed, MarkNotFound,
                  FailToken, RevokeFamily
    <2> QED BY <2>1, <2>2, <2>3 DEF OfUsers, Carries, Knows
  <1>2. ASSUME NEW r \in Reqs, \/ \E c \in Codes : StartRedeem(r, c)
                               \/ \E t \in Tokens : StartRotate(r, t)
        PROVE  OfUsers'
    <2>1. codes' = codes /\ tokens' = tokens /\ \A s \in Reqs \ {r} : req'[s] = req[s]
      BY <1>2, <1>t DEF StartRedeem, StartRotate
    <2>2. req'[r].pc \in {"read", "get"}
      BY <1>2, <1>t DEF StartRedeem, StartRotate, NoReq
    <2> QED BY <2>1, <2>2 DEF OfUsers, Carries, Knows
  <1>3. ASSUME NEW r \in Reqs, CommitCode(r) PROVE OfUsers'
    <2> DEFINE c == req[r].cred
    <2>1. c \in Codes /\ codes[c].st = "row"
      BY <1>3, <1>s DEF CommitCode, At, Shape, Redeems
    <2>2. req'[r].user = codes[c].user /\ tokens' = tokens /\ \A s \in Reqs \ {r} : req'[s] = req[s]
      BY <1>3, <1>t, <2>1 DEF CommitCode, Request
    <2>3. codes'[c].st = "gone" /\ \A d \in Codes \ {c} : codes'[d] = codes[d]
      BY <1>3, <1>t, <2>1 DEF CommitCode, CodeRow
    <2> QED BY <2>1, <2>2, <2>3 DEF OfUsers
  <1>4. ASSUME NEW r \in Reqs, GetToken(r) PROVE OfUsers'
    <2> DEFINE t == req[r].cred
    <2>1. t \in Tokens /\ tokens[t].st # "unused"
      BY <1>4, <1>s DEF GetToken, At, Shape, Rotates
    <2>2. /\ req'[r].user = tokens[t].user /\ tokens' = tokens /\ codes' = codes
          /\ \A s \in Reqs \ {r} : req'[s] = req[s]
      BY <1>4, <1>t, <2>1 DEF GetToken, Request
    <2> QED BY <2>1, <2>2 DEF OfUsers
  <1>5. ASSUME NEW r \in Reqs, GetOk(r) \/ \E found \in BOOLEAN : Mint(r, found) PROVE OfUsers'
    <2>1. /\ req'[r].user = req[r].user /\ req[r].pc \in Carries
          /\ tokens' = tokens /\ codes' = codes /\ \A s \in Reqs \ {r} : req'[s] = req[s]
      BY <1>5, <1>t DEF GetOk, Mint, At, Request, Carries, Knows
    <2> QED BY <2>1 DEF OfUsers
  <1>6. ASSUME NEW r \in Reqs, MarkUsed(r) PROVE OfUsers'
    <2>1. req[r].cred \in Tokens
      BY <1>6, <1>s DEF MarkUsed, At, Shape, Rotates
    <2>2. /\ req'[r].user = req[r].user /\ req[r].pc \in Carries /\ codes' = codes
          /\ \A s \in Reqs \ {r} : req'[s] = req[s]
      BY <1>6, <1>t DEF MarkUsed, At, Request, Carries, Knows
    <2>3. \A t \in Tokens : tokens'[t].st = tokens[t].st /\ tokens'[t].user = tokens[t].user
      BY <1>6, <1>t, <2>1 DEF MarkUsed, TokenRow
    <2> QED BY <2>2, <2>3 DEF OfUsers
  <1>7. ASSUME NEW r \in Reqs, SaveToken(r) PROVE OfUsers'
    <2>1. req[r].next \in Tokens /\ req[r].pc \in Carries
      BY <1>7, <1>s DEF SaveToken, At, Shape, Carries, Knows
    <2>2. PICK pc \in Pcs : GoTo(r, pc)
      BY <1>7 DEF SaveToken, Pcs
    <2>3. req'[r].user = req[r].user /\ \A s \in Reqs \ {r} : req'[s] = req[s]
      BY <1>t, <2>2, MovesOn
    <2>4. /\ tokens'[req[r].next].user = req[r].user /\ codes' = codes
          /\ \A t \in Tokens \ {req[r].next} : tokens'[t] = tokens[t]
      BY <1>7, <1>t, <2>1 DEF SaveToken
    <2> QED BY <2>1, <2>3, <2>4 DEF OfUsers
  <1>8. ASSUME NEW c \in Codes, NEW u \in Users, SaveCode(c, u) PROVE OfUsers'
    <2>1. /\ codes'[c].user = u /\ \A d \in Codes \ {c} : codes'[d] = codes[d]
          /\ tokens' = tokens /\ req' = req
      BY <1>8, <1>t DEF SaveCode
    <2> QED BY <2>1 DEF OfUsers
  <1>9. ASSUME Tick \/ SweepCodes \/ SweepTokens \/ UNCHANGED tokenVars PROVE OfUsers'
    <2>1. req' = req
      BY <1>9 DEF Tick, SweepCodes, SweepTokens, tokenVars
    <2>2. \A c \in Codes : codes'[c].st = "row" => codes[c].st = "row" /\ codes'[c].user = codes[c].user
      BY <1>9, <1>t DEF Tick, SweepCodes, SweepTokens, tokenVars, Purged, CodeRow
    <2>3. \A t \in Tokens : tokens'[t].st # "unused" => tokens[t].st # "unused" /\ tokens'[t].user = tokens[t].user
      BY <1>9, <1>t DEF Tick, SweepCodes, SweepTokens, tokenVars, Purged, Lapsed, TokenRow
    <2> QED BY <2>1, <2>2, <2>3 DEF OfUsers
  <1> QED
    BY <1>1, <1>2, <1>3, <1>4, <1>5, <1>6, <1>7, <1>8, <1>9 DEF TokenNext, TokenStep, TokenEnv

\* Claims come of Mint, and requests begin when they come.
LEMMA ClaimsOf ==
  ASSUME TokenTypeOK, [TokenNext]_tokenVars, NEW r \in Reqs,
         ~\E found \in BOOLEAN : Mint(r, found)
  PROVE  /\ req'[r].claims = req[r].claims \/ req'[r].claims = FALSE
         /\ req'[r].began = req[r].began \/ req'[r].began = now
  <1>1. req \in [Reqs -> Request]
    BY DEF TokenTypeOK
  <1>2. ASSUME NEW s \in Reqs, \/ ReadCode(s) \/ DeleteCode(s) \/ CodeExpired(s) \/ GetRefused(s)
                               \/ AlreadyConsumed(s) \/ MarkNotFound(s) \/ FailToken(s)
                               \/ RevokeFamily(s) \/ SaveToken(s)
        PROVE  req'[r].claims = req[r].claims /\ req'[r].began = req[r].began
    <2>1. PICK pc \in Pcs : GoTo(s, pc)
      BY <1>2 DEF ReadCode, DeleteCode, CodeExpired, GetRefused, AlreadyConsumed, MarkNotFound,
                  FailToken, RevokeFamily, SaveToken, Refuse, Pcs
    <2> QED BY <1>1, <2>1 DEF GoTo, Request
  <1>3. ASSUME NEW s \in Reqs, CommitCode(s) \/ GetToken(s) \/ GetOk(s) \/ MarkUsed(s)
        PROVE  req'[r].claims = req[r].claims /\ req'[r].began = req[r].began
    <2> DEFINE Same == req'[r].claims = req[r].claims /\ req'[r].began = req[r].began
    <2>1. CommitCode(s) => Same
      BY <1>1 DEF CommitCode, Request
    <2>2. GetToken(s) => Same
      BY <1>1 DEF GetToken, Request
    <2>3. GetOk(s) => Same
      BY <1>1 DEF GetOk, Request
    <2>4. MarkUsed(s) => Same
      BY <1>1 DEF MarkUsed, Request
    <2> QED BY <1>3, <2>1, <2>2, <2>3, <2>4
  <1>4. ASSUME NEW s \in Reqs, \E found \in BOOLEAN : Mint(s, found)
        PROVE  req'[r].claims = req[r].claims /\ req'[r].began = req[r].began
    BY <1>1, <1>4 DEF Mint
  <1>5. ASSUME NEW s \in Reqs, NEW c \in Codes, StartRedeem(s, c)
        PROVE  \/ req'[r] = req[r]
               \/ req'[r].claims = FALSE /\ req'[r].began = now
    BY <1>1, <1>5 DEF StartRedeem, NoReq
  <1>6. ASSUME NEW s \in Reqs, NEW t \in Tokens, StartRotate(s, t)
        PROVE  \/ req'[r] = req[r]
               \/ req'[r].claims = FALSE /\ req'[r].began = now
    BY <1>1, <1>6 DEF StartRotate, NoReq
  <1>7. ASSUME \/ Tick \/ SweepCodes \/ SweepTokens \/ (\E c \in Codes, u \in Users : SaveCode(c, u))
               \/ UNCHANGED tokenVars
        PROVE  req' = req
    BY <1>7 DEF Tick, SweepCodes, SweepTokens, SaveCode, tokenVars
  <1> QED BY <1>2, <1>3, <1>4, <1>5, <1>6, <1>7 DEF TokenNext, TokenStep, TokenEnv

\* A row that goes is marked with the time, and stays as it is.
LEMMA RowsGo ==
  ASSUME Logged, TokenTypeOK, [Next]_vars, NEW u \in Users
  PROVE  /\ Gone(u) => users'[u] = users[u]
         /\ IsUser(u) => IsUser(u)' \/ (Gone(u)' /\ users'[u].removed = now)
  <1>t. users \in [Users -> UserRow] /\ \A l \in Logins : Named(l)
    BY DEF Logged, LoginsOK
  <1>1. ASSUME NEW l \in Logins, LoginStep(l)
        PROVE  \/ users'[u] = users[u]
               \/ ~Gone(u) /\ (IsUser(u) => IsUser(u)')
    <2>1. LookupSubject(l) \/ EmailOwn(l) \/ EmailMismatch(l) \/ EmailAdopt(l) \/ EmailMissing(l) => users' = users
      BY DEF LookupSubject, EmailOwn, EmailMismatch, EmailAdopt, EmailMissing, Still
    <2>2. RefreshEmail(l) => users'[u] = users[u] \/ (IsUser(u) /\ users'[u].st = users[u].st)
      BY <1>t DEF RefreshEmail, UserRow
    <2>3. StampSubject(l) => users'[u] = users[u] \/ (IsUser(u) /\ users'[u].st = users[u].st)
      BY <1>t DEF StampSubject, UserRow
    <2>4. Provision(l) => users'[u] = users[u] \/ users[u].st = "unused"
      BY <1>t DEF Provision, FreshUser
    <2> QED BY <1>1, <2>1, <2>2, <2>3, <2>4 DEF LoginStep, IsUser, Gone
  <1>2. ASSUME NEW v \in Users, RevokeUser(v)
        PROVE  users'[u] = users[u] \/ (IsUser(u) /\ users'[u].st = "gone" /\ users'[u].removed = now)
    BY <1>t, <1>2 DEF RevokeUser, NoUser
  <1>3. ASSUME NEW v \in Users, NEW e \in Emails, GrantUser(v, e)
        PROVE  users'[u] = users[u] \/ users[u].st = "unused"
    BY <1>t, <1>3 DEF GrantUser, FreshUser
  <1>4. ASSUME \/ UNCHANGED loginVars \/ (\E l \in Logins, c \in Codes : IssueCode(l, c))
               \/ (\E l \in Logins, e \in Emails : Callback(l, e))
               \/ (\E e \in Emails, i \in Idents : Reassign(e, i))
        PROVE  users' = users
    BY <1>4 DEF loginVars, IssueCode, Callback, Reassign, Still
  <1> QED
    BY <1>1, <1>2, <1>3, <1>4 DEF Next, Answered, SignedIn, SignIn, Booted, vars, IsUser, Gone

\* An access token is minted with the claims of the row as it is then.
LEMMA MintedBy ==
  ASSUME TokenTypeOK, [Next]_vars, NEW r \in Reqs, \E found \in BOOLEAN : Mint(r, found)
  PROVE  Mint(r, Claims(r)) /\ users' = users
  <1>1. req \in [Reqs -> Request] /\ req[r].pc = "mint" /\ req'[r].pc = "done"
    BY DEF TokenTypeOK, Mint, At, Request
  <1>2. ~UNCHANGED tokenVars
    BY <1>1 DEF tokenVars
  <1>3. ASSUME TokenEnv \/ (\E s \in Reqs : FailToken(s)) \/ (\E c \in Codes, u \in Users : SaveCode(c, u))
        PROVE  req'[r] = req[r] \/ req'[r].pc # "done"
    <2>1. ASSUME NEW s \in Reqs, \/ FailToken(s) \/ \E c \in Codes : StartRedeem(s, c)
                                 \/ \E t \in Tokens : StartRotate(s, t)
          PROVE  req'[r] = req[r] \/ req'[r].pc # "done"
      <3>1. CASE FailToken(s)
        BY <1>1, <3>1 DEF FailToken, GoTo, Request
      <3>2. CASE \/ \E c \in Codes : StartRedeem(s, c)
                 \/ \E t \in Tokens : StartRotate(s, t)
        <4>1. s # r
          BY <1>1, <3>2 DEF StartRedeem, StartRotate, Arrives, At
        <4> QED BY <1>1, <3>2, <4>1 DEF StartRedeem, StartRotate
      <3> QED BY <2>1, <3>1, <3>2
    <2>2. Tick \/ SweepCodes \/ SweepTokens \/ (\E c \in Codes, u \in Users : SaveCode(c, u)) => req' = req
      BY DEF Tick, SweepCodes, SweepTokens, SaveCode
    <2> QED BY <1>3, <2>1, <2>2 DEF TokenEnv
  <1>4. ASSUME NEW l \in Logins, SignedIn(l) PROVE req' = req
    BY <1>4 DEF SignedIn, SignIn, tokenVars, IssueCode, SaveCode
  <1>5. PICK s \in Reqs : Answered(s)
    BY <1>1, <1>2, <1>3, <1>4 DEF Next, Booted, vars, tokenVars
  <1>6. s = r
    <2>1. TokenStep(s) \/ Mint(s, Claims(s))
      BY <1>5 DEF Answered, Serve
    <2>2. \A q \in Reqs \ {s} : req'[q] = req[q]
      BY <1>1, <2>1
      DEF TokenStep, ReadCode, DeleteCode, CodeExpired, CommitCode, GetToken, GetRefused, GetOk, MarkUsed,
          AlreadyConsumed, MarkNotFound, SaveToken, RevokeFamily, Mint, GoTo, Refuse
    <2> QED BY <1>1, <2>2
  <1>7. ~TokenStep(r)
    BY <1>1 DEF TokenStep, ReadCode, DeleteCode, CodeExpired, CommitCode, GetToken, GetRefused, GetOk,
                MarkUsed, AlreadyConsumed, MarkNotFound, SaveToken, RevokeFamily, At
  <1> QED BY <1>5, <1>6, <1>7 DEF Answered, Serve, loginVars

\* What carries claims was answered while its user was there.
Claimed(r) == LET q == req[r] IN
    /\ q.began <= now
    /\ q.claims = TRUE => /\ q.pc = "done" /\ q.user \in Users
                          /\ IsUser(q.user) \/ (Gone(q.user) /\ users[q.user].removed >= q.began)

\* Every step keeps that.
LEMMA ClaimedStep ==
  ASSUME Logged, TokenTypeOK, TokenTypeOK', Shapes, OfUsers, [Next]_vars, NEW r \in Reqs, Claimed(r)
  PROVE  Claimed(r)'
  <1>t. /\ req \in [Reqs -> Request] /\ now \in Nat /\ now' \in Nat /\ req[r].began \in Nat
        /\ req'[r].began \in Nat
    BY TTLs DEF TokenTypeOK, Request, Times
  <1>n. [TokenNext]_tokenVars
    BY TokensApart DEF Logged
  <1>w. now <= now'
    BY <1>n, <1>t, Writers DEF Tick, RevokeFamily
  <1>1. CASE req[r].claims = TRUE
    <2>1. req'[r] = req[r]
      BY <1>1, <1>n, DoneStays DEF Claimed
    <2>2. req[r].user \in Users
      BY <1>1 DEF Claimed
    <2>3. IsUser(req[r].user) => \/ users'[req[r].user].st = "row"
                                 \/ users'[req[r].user].st = "gone" /\ users'[req[r].user].removed = now
      BY <2>2, RowsGo DEF IsUser, Gone
    <2>4. Gone(req[r].user) => users'[req[r].user] = users[req[r].user]
      BY <2>2, RowsGo
    <2> QED BY <1>1, <1>t, <1>w, <2>1, <2>2, <2>3, <2>4 DEF Claimed, IsUser, Gone
  <1>2. CASE ~(req[r].claims = TRUE) /\ ~\E found \in BOOLEAN : Mint(r, found)
    <2>1. /\ req'[r].claims = req[r].claims \/ req'[r].claims = FALSE
          /\ req'[r].began = req[r].began \/ req'[r].began = now
      BY <1>2, <1>n, ClaimsOf
    <2> QED BY <1>2, <1>t, <1>w, <2>1 DEF Claimed
  <1>3. CASE \E found \in BOOLEAN : Mint(r, found)
    <2>1. req[r].pc = "mint" /\ req[r].user \in Users /\ req'[r].pc = "done" /\ tokens' = tokens
          /\ codes' = codes /\ now' = now
      BY <1>3, <1>t DEF Mint, At, OfUsers, Carries, Request, Keep
    <2>2. Mint(r, Claims(r)) /\ users' = users
      BY <1>3, MintedBy
    <2>3. \A b \in BOOLEAN : Mint(r, b) => /\ req'[r].claims = b /\ req'[r].user = req[r].user
                                           /\ req'[r].began = req[r].began
      BY <1>t DEF Mint, Request
    <2> DEFINE b == Claims(r)
    <2>4. b \in BOOLEAN /\ (b = TRUE => IsUser(req[r].user))
      BY DEF Claims, IsUser
    <2> HIDE DEF b
    <2>5. Mint(r, b)
      BY <2>2 DEF b
    <2>6. /\ req'[r].claims = b /\ req'[r].user = req[r].user /\ req'[r].began = req[r].began
      BY <2>3, <2>4, <2>5
    <2> QED BY <1>t, <1>w, <2>1, <2>2, <2>4, <2>6 DEF Claimed, IsUser, Gone
  <1> QED BY <1>1, <1>2, <1>3

-----------------------------------------------------------------------------
(* Start-up and key rotation.                                              *)

Seeds == {"update", "signer", "lock", "insert", "retire", "up"}
\* Who has deactivated what was active inserts alone; the key that is retired is
\* not the one that signs; past the seeding there is a client row.
Apart(p) ==
    /\ B(p, "insert") => ActiveKeys \subseteq boot[p].off
    /\ B(p, "up") => ActiveKeys # {}
    /\ boot[p].old # None => keys[boot[p].old].st # "unused"
    /\ B(p, "retire") => boot[p].old # None /\ keys[boot[p].old].st # "active"
    /\ boot[p].pc \in Seeds /\ "operator" \notin work => ui.st = "row"
BootOK == boot \in [Replicas -> Boot] /\ keys \in [Keys -> KeyRow] /\ ui \in UiRow
OneKey == /\ \A j, k \in Keys : keys[j].st = "active" /\ keys[k].st = "active" => j = k
          /\ (\E k \in Keys : keys[k].st # "unused") => ActiveKeys # {}
Alone == \A p, q \in Replicas : B(p, "insert") /\ B(q, "insert") => p = q
Public == "operator" \notin work /\ ui.st = "row" => ui.public = TRUE
Signing == BootOK /\ OneKey /\ Alone /\ Public /\ \A p \in Replicas : Apart(p)

\* A replica that moves on.
LEMMA BootGoes ==
  ASSUME BootOK, NEW p \in Replicas,
         NEW pc \in {"down", "get", "create", "update", "signer", "lock", "insert", "retire", "up", "failed"},
         Go(p, pc)
  PROVE  /\ boot' \in [Replicas -> Boot]
         /\ boot'[p].pc = pc /\ boot'[p].old = boot[p].old /\ boot'[p].off = boot[p].off
         /\ \A q \in Replicas \ {p} : boot'[q] = boot[q]
  <1> DEFINE x == [boot[p] EXCEPT !.pc = pc]
  <1>1. boot \in [Replicas -> Boot] /\ boot[p] \in Boot
    BY DEF BootOK
  <1>2. x \in Boot /\ x.pc = pc /\ x.old = boot[p].old /\ x.off = boot[p].off
    BY <1>1 DEF Boot
  <1>3. boot' = [boot EXCEPT ![p] = x]
    BY <1>1 DEF Go
  <1> HIDE DEF x
  <1> QED BY <1>1, <1>2, <1>3

\* A step that changes one replica and neither keys nor client.
LEMMA BootOnly ==
  ASSUME Signing, NEW p \in Replicas, boot' \in [Replicas -> Boot],
         \A q \in Replicas \ {p} : boot'[q] = boot[q], keys' = keys, ui' = ui, work' = work,
         boot'[p].pc = "insert" => \A q \in Replicas \ {p} : ~B(q, "insert"),
         Apart(p)'
  PROVE  Signing'
  <1>1. BootOK' /\ OneKey' /\ Public'
    BY DEF Signing, BootOK, OneKey, Public, ActiveKeys
  <1>2. Alone'
    BY DEF Signing, Alone, B
  <1>3. \A q \in Replicas \ {p} : Apart(q)'
    BY DEF Signing, Apart, B, ActiveKeys
  <1> QED BY <1>1, <1>2, <1>3 DEF Signing

\* Every step keeps one signing key.
LEMMA SigningStep ==
  ASSUME Signing, [Next]_vars
  PROVE  Signing'
  <1>w. work' = work
    BY DEF Next, Answered, SignedIn, Booted, vars
  <1>t. BootOK /\ boot \in [Replicas -> Boot] /\ keys \in [Keys -> KeyRow] /\ ui \in UiRow /\ \A p \in Replicas : Apart(p)
    BY DEF Signing, BootOK
  <1>b. \A p \in Replicas : boot[p].old \in Keys \cup {None} /\ boot[p].off \in SUBSET Keys
    BY <1>t DEF Boot
  <1>1. ASSUME NEW p \in Replicas, NEW url \in Urls, Start(p, url) PROVE Signing'
    <2>1. [pc |-> "get", url |-> url, off |-> {}, old |-> None, was |-> "boot"] \in Boot
      BY DEF Boot
    <2>2. /\ boot' \in [Replicas -> Boot] /\ boot'[p].pc = "get" /\ boot'[p].old = None
          /\ \A q \in Replicas \ {p} : boot'[q] = boot[q]
          /\ keys' = keys /\ ui' = ui
      BY <1>1, <1>t, <2>1 DEF Start
    <2>3. Apart(p)'
      BY <2>2 DEF Apart, B, Seeds
    <2> QED BY <1>w, <2>2, <2>3, BootOnly
  <1>2. ASSUME NEW p \in Replicas, SeedGet(p) PROVE Signing'
    <2>1. PICK pc \in {"create", "signer", "update"} : Go(p, pc) /\ (pc # "create" => ui.st # "absent")
      BY <1>2 DEF SeedGet
    <2>2. /\ boot' \in [Replicas -> Boot] /\ boot'[p].pc = pc /\ boot'[p].old = boot[p].old
          /\ \A q \in Replicas \ {p} : boot'[q] = boot[q]
          /\ keys' = keys /\ ui' = ui
      BY <1>2, <2>1, BootGoes DEF SeedGet, Signing
    <2>3. pc # "create" => ui.st = "row"
      BY <1>t, <2>1 DEF UiRow
    <2>4. Apart(p)'
      BY <1>t, <2>2, <2>3 DEF Apart, B, Seeds, ActiveKeys
    <2> QED BY <1>w, <2>2, <2>4, BootOnly
  <1>3. ASSUME NEW p \in Replicas, SeedCreate(p) PROVE Signing'
    <2>1. PICK pc \in {"signer", "failed"} : Go(p, pc) /\ (pc = "signer" => ui'.st = "row")
      BY <1>3 DEF SeedCreate
    <2>2. /\ boot' \in [Replicas -> Boot] /\ boot'[p].pc = pc /\ boot'[p].old = boot[p].old
          /\ \A q \in Replicas \ {p} : boot'[q] = boot[q]
          /\ keys' = keys
      BY <1>3, <1>t, <2>1, BootGoes DEF SeedCreate
    <2>3. boot[p].url \in Urls \cup {None}
      BY <1>t DEF Boot
    <2>4. \/ ui' = ui
          \/ ui' = [st |-> "row", url |-> boot[p].url, public |-> TRUE]
      BY <1>3 DEF SeedCreate
    <2>5. ui' \in UiRow /\ (ui.st = "row" => ui'.st = "row") /\ (ui' = ui \/ ui'.public = TRUE)
      <3>1. [st |-> "row", url |-> boot[p].url, public |-> TRUE] \in UiRow
        BY <2>3 DEF UiRow
      <3>2. CASE ui' = ui
        BY <1>t, <3>2
      <3>3. CASE ui' = [st |-> "row", url |-> boot[p].url, public |-> TRUE]
        BY <3>1, <3>3
      <3> QED BY <2>4, <3>2, <3>3
    <2>6. Apart(p)'
      BY <1>t, <2>1, <2>2 DEF Apart, B, Seeds, ActiveKeys
    <2>7. \A q \in Replicas \ {p} : Apart(q)'
      BY <1>t, <1>w, <2>2, <2>5 DEF Apart, B, ActiveKeys
    <2>8. BootOK' /\ OneKey' /\ Alone' /\ Public'
      BY <1>w, <2>2, <2>5 DEF Signing, BootOK, OneKey, Alone, Public, ActiveKeys, B
    <2> QED BY <2>6, <2>7, <2>8 DEF Signing
  <1>4. ASSUME NEW p \in Replicas, SeedUpdate(p) PROVE Signing'
    <2>1. /\ boot' \in [Replicas -> Boot] /\ boot'[p].pc = "signer" /\ boot'[p].old = boot[p].old
          /\ \A q \in Replicas \ {p} : boot'[q] = boot[q]
          /\ keys' = keys /\ boot[p].pc = "update"
      BY <1>4, <1>t, BootGoes DEF SeedUpdate, B
    <2>2. boot[p].url \in Urls \cup {None}
      BY <1>t DEF Boot
    <2>3. ui' \in UiRow /\ ui'.st = ui.st /\ ui'.public = ui.public
      BY <1>4, <1>t, <2>2 DEF SeedUpdate, UiRow
    <2>4. \A q \in Replicas : Apart(q)'
      BY <1>t, <1>w, <2>1, <2>3 DEF Apart, B, Seeds, ActiveKeys
    <2>5. BootOK' /\ OneKey' /\ Alone' /\ Public'
      BY <1>w, <2>1, <2>3 DEF Signing, BootOK, OneKey, Alone, Public, ActiveKeys, B
    <2> QED BY <2>4, <2>5 DEF Signing
  <1>5. ASSUME Register \/ SweepClients, Register => "operator" \in work PROVE Signing'
    <2>1. boot' = boot /\ keys' = keys /\ ui' \in UiRow
      <3>1. [st |-> "row", url |-> None, public |-> FALSE] \in UiRow
        BY DEF UiRow
      <3>2. [st |-> "absent", url |-> None, public |-> FALSE] \in UiRow
        BY DEF UiRow
      <3> QED BY <1>5, <3>1, <3>2 DEF Register, SweepClients
    <2>2. "operator" \in work \/ ui' = ui
      <3>1. SweepClients /\ "operator" \notin work => ui.public = TRUE
        <4>1. SweepClients => ui.st = "row"
          BY DEF SweepClients
        <4> QED BY <4>1, Zenon DEF Signing, Public
      <3>2. SweepClients => ~ui.public
        BY DEF SweepClients, Spared
      <3>3. ~(SweepClients /\ "operator" \notin work)
        BY <3>1, <3>2, Zenon
      <3> QED BY <1>5, <3>3
    <2> QED
      BY <1>t, <1>w, <2>1, <2>2 DEF Signing, BootOK, OneKey, Alone, Public, Apart, ActiveKeys, B
  <1>6. ASSUME NEW p \in Replicas, ReadSigner(p) PROVE Signing'
    <2>1. boot[p].pc = "signer" /\ keys' = keys /\ ui' = ui
      BY <1>6 DEF ReadSigner, B
    <2>2. CASE \E pc \in {"up", "lock"} : Go(p, pc) /\ (pc = "up" => ActiveKeys # {})
      <3>1. PICK pc \in {"up", "lock"} : Go(p, pc) /\ (pc = "up" => ActiveKeys # {})
        BY <2>2
      <3>2. /\ boot' \in [Replicas -> Boot] /\ boot'[p].pc = pc /\ boot'[p].old = boot[p].old
            /\ \A q \in Replicas \ {p} : boot'[q] = boot[q]
        BY <1>t, <3>1, BootGoes
      <3>3. Apart(p)'
        BY <1>t, <1>w, <2>1, <3>1, <3>2 DEF Apart, B, Seeds, ActiveKeys
      <3> QED BY <1>w, <2>1, <3>2, <3>3, BootOnly
    <2>3. ASSUME NEW k \in ActiveKeys, boot' = [boot EXCEPT ![p].pc = "lock", ![p].old = k] PROVE Signing'
      <3>1. [boot[p] EXCEPT !.pc = "lock", !.old = k] \in Boot /\ k \in Keys /\ keys[k].st = "active"
        BY <1>t DEF Boot, ActiveKeys
      <3>2. /\ boot' \in [Replicas -> Boot] /\ boot'[p].pc = "lock" /\ boot'[p].old = k
            /\ \A q \in Replicas \ {p} : boot'[q] = boot[q]
        BY <1>t, <2>3, <3>1 DEF Boot
      <3>3. Apart(p)'
        BY <1>t, <1>w, <2>1, <3>1, <3>2 DEF Apart, B, Seeds, ActiveKeys
      <3> QED BY <1>w, <2>1, <3>2, <3>3, BootOnly
    <2> QED BY <1>6, <2>2, <2>3 DEF ReadSigner
  <1>7. ASSUME NEW p \in Replicas, Tend(p) PROVE Signing'
    <2>1. [boot[p] EXCEPT !.pc = "signer", !.was = "tend"] \in Boot
      BY <1>t DEF Boot
    <2>2. /\ boot' \in [Replicas -> Boot] /\ boot'[p].pc = "signer" /\ boot'[p].old = boot[p].old
          /\ \A q \in Replicas \ {p} : boot'[q] = boot[q]
          /\ keys' = keys /\ ui' = ui /\ boot[p].pc = "up"
      BY <1>7, <1>t, <2>1 DEF Tend, B, Boot
    <2>3. Apart(p)'
      BY <1>t, <1>w, <2>2 DEF Apart, B, Seeds, ActiveKeys
    <2> QED BY <1>w, <2>2, <2>3, BootOnly
  <1>8. ASSUME NEW p \in Replicas, Deactivate(p) PROVE Signing'
    <2>1. ActiveKeys \in SUBSET Keys
      BY DEF ActiveKeys
    <2>2. [boot[p] EXCEPT !.pc = "insert", !.off = ActiveKeys] \in Boot
      BY <1>t, <2>1 DEF Boot
    <2>3. /\ boot' \in [Replicas -> Boot] /\ boot'[p].pc = "insert" /\ boot'[p].old = boot[p].old
          /\ boot'[p].off = ActiveKeys
          /\ \A q \in Replicas \ {p} : boot'[q] = boot[q] /\ ~B(q, "insert")
          /\ keys' = keys /\ ui' = ui /\ boot[p].pc = "lock"
      BY <1>8, <1>t, <2>2 DEF Deactivate, LockFree, B, Boot
    <2>4. Apart(p)'
      BY <1>t, <1>w, <2>3 DEF Apart, B, Seeds, ActiveKeys
    <2> QED BY <1>w, <2>3, <2>4, BootOnly
  <1>9. ASSUME NEW p \in Replicas, InsertKey(p) PROVE Signing'
    <2>1. boot[p].pc = "insert" /\ ui' = ui /\ ActiveKeys \subseteq boot[p].off
      BY <1>9, <1>t DEF InsertKey, B, Apart
    <2>2. \A q \in Replicas \ {p} : boot[q].pc # "insert"
      BY <2>1 DEF Signing, Alone, B
    <2>3. ASSUME NEW pc \in {"up", "retire"}, boot' = [boot EXCEPT ![p].off = {}, ![p].pc = pc]
          PROVE  /\ boot' \in [Replicas -> Boot] /\ boot'[p].pc = pc /\ boot'[p].old = boot[p].old
                 /\ \A q \in Replicas \ {p} : boot'[q] = boot[q]
      <3>1. [boot[p] EXCEPT !.off = {}, !.pc = pc] \in Boot
        BY <1>t DEF Boot
      <3> QED BY <1>t, <2>3, <3>1 DEF Boot
    <2>4. CASE \A k \in Keys : keys[k].st # "unused"
      <3>1. keys' = keys /\ boot' = [boot EXCEPT ![p].off = {}, ![p].pc = "up"]
        BY <1>9, <2>4 DEF InsertKey
      <3>2. ActiveKeys # {}
        BY <2>4, Someone DEF Signing, OneKey
      <3>3. Apart(p)'
        BY <1>t, <1>w, <2>1, <2>3, <3>1, <3>2 DEF Apart, B, Seeds, ActiveKeys
      <3> QED BY <1>w, <2>1, <2>3, <3>1, <3>3, BootOnly
    <2>5. ASSUME NEW k \in Keys, keys[k].st = "unused",
                 keys' = [j \in Keys |-> [st |-> IF j = k THEN "active"
                                               ELSE IF j \in boot[p].off /\ keys[j].st = "active"
                                               THEN "inactive" ELSE keys[j].st]],
                 boot' = [boot EXCEPT ![p].off = {}, ![p].pc = IF boot[p].old = None THEN "up" ELSE "retire"]
          PROVE  Signing'
      <3>1. /\ keys' \in [Keys -> KeyRow] /\ keys'[k].st = "active"
            /\ \A j \in Keys \ {k} : /\ keys'[j].st # "active"
                                     /\ keys[j].st # "unused" => keys'[j].st # "unused"
        BY <1>t, <2>1, <2>5 DEF KeyRow, ActiveKeys
      <3>2. PICK pc \in {"up", "retire"} : /\ boot' = [boot EXCEPT ![p].off = {}, ![p].pc = pc]
                                           /\ pc = IF boot[p].old = None THEN "up" ELSE "retire"
        BY <2>5
      <3>3. /\ boot' \in [Replicas -> Boot] /\ boot'[p].pc = pc /\ boot'[p].old = boot[p].old
            /\ \A q \in Replicas \ {p} : boot'[q] = boot[q]
        BY <2>3, <3>2
      <3>4. ActiveKeys' = {k}
        BY <3>1 DEF ActiveKeys
      <3>5. \A q \in Replicas : boot[q].old # None => keys'[boot[q].old].st # "unused" /\ boot[q].old # k
        BY <1>t, <1>b, <2>5, <3>1 DEF Apart
      <3>6. \A q \in Replicas \ {p} : Apart(q)'
        BY <1>t, <1>w, <1>b, <2>1, <2>2, <3>1, <3>3, <3>4, <3>5 DEF Apart, B
      <3>7. boot[p].old # None => keys'[boot[p].old].st # "active"
        BY <1>b, <3>1, <3>5
      <3>8. Apart(p)'
        BY <1>t, <1>w, <2>1, <3>2, <3>3, <3>4, <3>5, <3>7 DEF Apart, B, Seeds
      <3>9. BootOK' /\ OneKey' /\ Public'
        BY <1>t, <1>w, <2>1, <3>1, <3>3, <3>4 DEF Signing, BootOK, OneKey, Public
      <3>10. Alone'
        BY <2>2, <3>3 DEF Alone, B
      <3> QED BY <3>6, <3>8, <3>9, <3>10 DEF Signing
    <2> QED BY <1>9, <2>4, <2>5 DEF InsertKey
  <1>10. ASSUME NEW p \in Replicas, Retire(p) PROVE Signing'
    <2> DEFINE k == boot[p].old
    <2>1. /\ boot[p].pc = "retire" /\ ui' = ui /\ k \in Keys /\ keys[k].st \notin {"active", "unused"}
      BY <1>10, <1>t, <1>b DEF Retire, B, Apart
    <2>2. [boot[p] EXCEPT !.pc = "up", !.old = None] \in Boot
      BY <1>t DEF Boot
    <2>3. /\ boot' \in [Replicas -> Boot] /\ boot'[p].pc = "up" /\ boot'[p].old = None
          /\ \A q \in Replicas \ {p} : boot'[q] = boot[q]
      BY <1>10, <1>t, <2>2 DEF Retire, Boot
    <2>4. /\ keys' \in [Keys -> KeyRow] /\ keys'[k].st = "retired"
          /\ \A j \in Keys \ {k} : keys'[j] = keys[j]
      BY <1>10, <1>t, <2>1 DEF Retire, KeyRow
    <2>5. ActiveKeys' = ActiveKeys /\ ActiveKeys # {}
      BY <2>1, <2>4 DEF ActiveKeys, Signing, OneKey
    <2>6. \A q \in Replicas : boot[q].old # None => keys'[boot[q].old].st \notin {"unused"}
                                                    /\ (keys[boot[q].old].st # "active" =>
                                                            keys'[boot[q].old].st # "active")
      BY <1>t, <1>b, <2>4 DEF Apart
    <2>7. \A q \in Replicas \ {p} : Apart(q)'
      BY <1>t, <1>w, <2>1, <2>3, <2>5, <2>6 DEF Apart, B
    <2>8. Apart(p)'
      BY <1>t, <1>w, <2>1, <2>3, <2>5 DEF Apart, B, Seeds
    <2>9. BootOK' /\ OneKey' /\ Public' /\ Alone'
      BY <1>t, <1>w, <2>1, <2>3, <2>4, <2>5 DEF Signing, BootOK, OneKey, Public, Alone, B
    <2> QED BY <2>7, <2>8, <2>9 DEF Signing
  <1>11. ASSUME NEW p \in Replicas, Stop(p) PROVE Signing'
    <2>1. /\ boot' \in [Replicas -> Boot] /\ boot'[p].pc = "failed" /\ boot'[p].old = boot[p].old
          /\ \A q \in Replicas \ {p} : boot'[q] = boot[q]
          /\ keys' = keys /\ ui' = ui
      BY <1>11, <1>t, BootGoes DEF Stop
    <2>2. Apart(p)'
      BY <1>t, <2>1 DEF Apart, B, Seeds
    <2> QED BY <1>w, <2>1, <2>2, BootOnly
  <1>12. ASSUME NEW p \in Replicas, Restart(p) PROVE Signing'
    <2>1. [boot[p] EXCEPT !.pc = "get", !.off = {}, !.old = None, !.was = "boot"] \in Boot
      BY <1>t DEF Boot
    <2>2. /\ boot' \in [Replicas -> Boot] /\ boot'[p].pc = "get" /\ boot'[p].old = None
          /\ \A q \in Replicas \ {p} : boot'[q] = boot[q]
          /\ keys' = keys /\ ui' = ui
      BY <1>12, <1>t, <2>1 DEF Restart, Boot
    <2>3. Apart(p)'
      BY <2>2 DEF Apart, B, Seeds
    <2> QED BY <1>w, <2>2, <2>3, BootOnly
  <1>13. ASSUME UNCHANGED <<boot, keys, ui>> PROVE Signing'
    BY <1>13, <1>w, <1>t DEF Signing, BootOK, OneKey, Alone, Public, Apart, ActiveKeys, B
  <1>14. CASE \E p \in Replicas : Booted(p)
    <2>1. PICK p \in Replicas : BootStep(p)
      BY <1>14 DEF Booted
    <2> QED BY <1>2, <1>3, <1>4, <1>6, <1>8, <1>9, <1>10, <1>12, <2>1 DEF BootStep
  <1>15. CASE UNCHANGED bootVars
    BY <1>13, <1>15 DEF bootVars
  <1>16. CASE \/ \E p \in Replicas : Tend(p) \/ Stop(p) \/ \E url \in Urls : Start(p, url)
              \/ SweepClients \/ ("operator" \in work /\ Register)
    <2>1. CASE \E p \in Replicas : Tend(p) \/ Stop(p) \/ \E url \in Urls : Start(p, url)
      BY <1>1, <1>7, <1>11, <2>1
    <2>2. CASE SweepClients /\ ~Register
      BY <1>5, <2>2
    <2>3. CASE "operator" \in work /\ Register
      BY <1>5, <2>3
    <2>4. SweepClients /\ Register => FALSE
      BY DEF SweepClients, Register
    <2> QED BY <1>16, <2>1, <2>2, <2>3, <2>4
  <1> QED
    BY <1>14, <1>15, <1>16 DEF Next, Answered, SignedIn, vars

\* At the start there are no keys, and everyone is down.
LEMMA SigningStart == Init => Signing
  <1> SUFFICES ASSUME Init PROVE Signing
    OBVIOUS
  <1>1. BootOK
    BY DEF Init, BootOK, Boot, KeyRow, UiRow
  <1>2. \A p \in Replicas : boot[p].pc = "down" /\ boot[p].old = None
    BY DEF Init
  <1>3. OneKey /\ Public
    BY DEF Init, OneKey, Public
  <1>4. Alone /\ \A p \in Replicas : Apart(p)
    BY <1>2 DEF Alone, Apart, B, Seeds
  <1> QED BY <1>1, <1>3, <1>4 DEF Signing

-----------------------------------------------------------------------------
(* The theorems.                                                           *)

\* What is inductive of the whole, but for the families.
Whole == Logged /\ TokenTypeOK /\ Shapes /\ Answers /\ OfUsers /\ Signing /\ \A r \in Reqs : Claimed(r)

\* A behaviour begins with no token, or with the one a client has just been given.
LEMMA Beginnings == Init => Whole /\ Families /\ Once!Init
  <1> SUFFICES ASSUME Init PROVE Whole /\ Families /\ Once!Init
    OBVIOUS
  <1>1. Logged /\ Signing
    BY LoggedStart, SigningStart
  <1>2. /\ TokenTypeOK /\ Shapes /\ Answers /\ Families /\ OfUsers
        /\ \A r \in Reqs : req[r] = NoReq /\ now = 0
    <2>1. CASE TokenInit
      <3>1. TokenTypeOK /\ Shapes
        BY <2>1, TokenStart
      <3>2. Answers
        BY <2>1 DEF TokenInit, NoReq, NoToken, Answers, Told, Revoked
      <3>3. Families
        BY <2>1, FamiliesStart
      <3>4. OfUsers
        BY <2>1 DEF TokenInit, OfUsers, NoCode, NoToken, NoReq, Carries, Knows
      <3> QED BY <2>1, <3>1, <3>2, <3>3, <3>4 DEF TokenInit
    <2>2. ASSUME NEW c \in Codes, NEW t \in Tokens, Granted(c, t), Members # {}
          PROVE  /\ TokenTypeOK /\ Shapes /\ Answers /\ Families /\ OfUsers
                 /\ \A r \in Reqs : req[r] = NoReq /\ now = 0
      <3> DEFINE u == CHOOSE u \in Members : TRUE
                 row == [st |-> "row", user |-> u, fam |-> c, exp |-> TokenTTL, by |-> None]
      <3>1. u \in Users
        BY <2>2, MembersAre
      <3> HIDE DEF u
      <3>2. TokenTTL \in Times /\ 0 \in Times
        BY TTLs DEF Times
      <3>3. row \in TokenRow /\ [NoCode EXCEPT !.st = "gone"] \in CodeRow
        BY <3>1, <3>2, Blanks DEF TokenRow, CodeRow, NoCode
      <3>4. /\ codes = [d \in Codes |-> IF d = c THEN [NoCode EXCEPT !.st = "gone"] ELSE NoCode]
            /\ tokens = [s \in Tokens |-> IF s = t THEN row ELSE NoToken]
            /\ revoked = [f \in Codes |-> None] /\ now = 0
            /\ req = [r \in Reqs |-> NoReq] /\ held = {t} /\ closed = {}
        BY <2>2 DEF Granted, u
      <3>5. row.st = "row" /\ row.fam = c /\ row.user = u /\ row.exp = TokenTTL /\ row.by = None
        OBVIOUS
      <3> HIDE DEF row
      <3>6. TokenTypeOK
        BY <3>3, <3>4, Blanks, TTLs DEF TokenTypeOK
      <3>7. \A r \in Reqs : Shape(r) /\ Spends(r)
        BY <3>4, CredsDisjoint DEF Shape, Spends, NoReq, Redeems, Rotates, Knows
      <3>8. Shapes
        BY <3>4, <3>5, <3>7 DEF Shapes, Known, Handed, Own, NoReq, NoToken
      <3>9. Answers
        BY <3>4, <3>5 DEF Answers, Told, Revoked, NoReq, NoToken
      <3>10. Families
        <4>1. \A r \in Reqs : Young(r) /\ Late(r)
          BY <3>4 DEF Young, Late, NoReq, Active
        <4>2. Unborn
          BY <3>4, <3>5 DEF Unborn, NoFamily, NoReq, NoCode, NoToken, Knows
        <4>3. Newborn /\ \A f \in Codes : Ends(f) /\ Forgotten(f)
          BY <3>4 DEF Newborn, Ends, Forgotten, Revoked, NoReq
        <4>4. \A s \in Tokens : tokens[s].st # "unused" => tokens[s].exp <= now + TokenTTL
          BY <3>4, <3>5, TTLs DEF NoToken
        <4> QED BY <4>1, <4>2, <4>3, <4>4 DEF Families
      <3>11. OfUsers
        BY <3>1, <3>4, <3>5 DEF OfUsers, NoCode, NoToken, NoReq, Carries, Knows
      <3> QED BY <3>4, <3>6, <3>8, <3>9, <3>10, <3>11
    <2>3. CASE "family" \in work /\ Granted(CHOOSE c \in Codes : TRUE,
                                            CHOOSE t \in Tokens : \A s \in Tokens : t <= s)
      <3>1. Members # {} /\ Codes # {} /\ \E t \in Tokens : \A s \in Tokens : t <= s
        BY <2>3, FamilyInUse DEF Init
      <3>2. (CHOOSE c \in Codes : TRUE) \in Codes /\ (CHOOSE t \in Tokens : \A s \in Tokens : t <= s) \in Tokens
        BY <3>1
      <3> QED BY <2>2, <2>3, <3>1, <3>2
    <2> QED BY <2>1, <2>3 DEF Init
  <1>3. \A r \in Reqs : Claimed(r)
    <2>1. NoReq.claims = FALSE /\ NoReq.began = 0
      BY DEF NoReq
    <2>2. \A r \in Reqs : req[r].claims = FALSE
      BY <1>2, <2>1, Zenon
    <2>3. \A r \in Reqs : ~(req[r].claims = TRUE)
      BY <2>2, Zenon
    <2>4. \A r \in Reqs : req[r].began <= now
      <3>1. \A r \in Reqs : now = 0 /\ req[r].began = 0
        BY <1>2, <2>1, Zenon
      <3>2. 0 <= 0
        OBVIOUS
      <3> QED BY <3>1, <3>2, Zenon
    <2> QED BY <2>3, <2>4 DEF Claimed
  <1>4. Once!Init
    BY <1>2, OnceStart DEF NoReq
  <1> QED BY <1>1, <1>2, <1>3, <1>4 DEF Whole

\* And goes on so.
LEMMA WholeStep == Whole /\ [Next]_vars => Whole' /\ [TokenNext]_tokenVars
  <1> SUFFICES ASSUME Whole, [Next]_vars PROVE Whole' /\ [TokenNext]_tokenVars
    OBVIOUS
  <1>1. Logged /\ TokenTypeOK /\ Shapes /\ Answers /\ OfUsers /\ Signing /\ \A r \in Reqs : Claimed(r)
    BY DEF Whole
  <1>2. [TokenNext]_tokenVars
    BY <1>1, TokensApart DEF Logged
  <1>3. TokenTypeOK' /\ Shapes' /\ Answers' /\ OfUsers'
    BY <1>1, <1>2, ShapesInductive, AnswersStep, OfUsersStep
  <1>4. Logged' /\ Signing'
    BY <1>1, LoggedStep, SigningStep
  <1>5. \A r \in Reqs : Claimed(r)'
    BY <1>1, <1>3, ClaimedStep
  <1> QED BY <1>2, <1>3, <1>4, <1>5 DEF Whole

\* Beside logins, removals and start-ups, the token endpoint keeps its promises:
\* one-time credentials, revocation upon reuse, and no revival.
THEOREM TokenEndpoint == Spec => RedeemedOnce /\ []ReuseRevokes /\ (Outlast => []NoRevival)
  <1>1. Whole /\ TokenTypeOK' /\ [TokenNext]_tokenVars => [Once!Next]_(Once!vars)
    BY OnceStep DEF Whole
  <1>2. Whole => ReuseRevokes
    BY ReuseFound DEF Whole
  <1>3. Families => NoRevival
    BY DEF Families, Late, NoRevival
  <1>4. Whole /\ Whole' /\ Families /\ [TokenNext]_tokenVars /\ Outlast => Families'
    BY FamiliesStep DEF Whole
  <1>5. Whole' => TokenTypeOK'
    BY DEF Whole
  <1>6. Spec => []Whole /\ [][TokenNext]_tokenVars
    BY Beginnings, WholeStep, PTL DEF Spec
  <1>7. Spec => RedeemedOnce
    BY <1>1, <1>5, Beginnings, WholeStep, PTL DEF Spec, RedeemedOnce, Once!Spec
  <1>8. Spec => []ReuseRevokes
    BY <1>2, <1>6, PTL
  <1>9. ASSUME Outlast PROVE Spec => []NoRevival
    <2>1. Whole /\ Whole' /\ Families /\ [TokenNext]_tokenVars => Families'
      BY <1>4, <1>9
    <2> QED BY <1>3, <2>1, Beginnings, WholeStep, PTL DEF Spec
  <1> QED BY <1>7, <1>8, <1>9

\* The invariant holds beside all that moves.
LEMMA WholeInvariant == Spec => []Whole
  BY Beginnings, WholeStep, PTL DEF Spec

\* The identity is the anchor of a login, whoever else signs in, is granted or
\* removed meanwhile, and whoever the addresses pass to (Resolve).
THEOREM IdentityIsAnchor == Spec => []SubjectFirst
  <1>1. Whole => SubjectFirst
    BY DEF Whole, Logged, Anchored, SubjectFirst, Answer, Gone, Found4
  <1> QED BY <1>1, WholeInvariant, PTL

\* Nobody is resolved to the row of another identity, also when the address he
\* comes with is that of a user who signed in before (Resolve).
THEOREM OwnRowOnly == Spec => []NotAnothers
  <1>1. Whole => NotAnothers
    BY DEF Whole, Logged, Anchored, NotAnothers, Answer, Gone, Found4
  <1> QED BY <1>1, WholeInvariant, PTL

\* A token that outlives the membership of its user carries no claims.
THEOREM RemovedArePowerless == Spec => []Powerless
  <1>1. Whole => Powerless
    BY DEF Whole, Claimed, Powerless, Gone, IsUser
  <1> QED BY <1>1, WholeInvariant, PTL

\* There is one signing key and no replica is up without it, however many start,
\* rotate and stop at once.
THEOREM OneSigner == Spec => []Ready
  <1>1. Whole => Ready
    <2> SUFFICES ASSUME Whole PROVE Ready
      OBVIOUS
    <2>1. \A p \in Replicas : B(p, "up") => ActiveKeys # {} /\ (ui.st = "row" \/ "operator" \in work)
      BY DEF Whole, Signing, Apart, Seeds, B
    <2>2. \A j, k \in ActiveKeys : j = k
      BY DEF Whole, Signing, OneKey, ActiveKeys
    <2>3. ActiveKeys = {} \/ \E k \in Keys : ActiveKeys = {k}
      BY <2>2 DEF ActiveKeys
    <2>4. Cardinality(ActiveKeys) <= 1
      <3>1. CASE ActiveKeys = {}
        BY <3>1, FS_EmptySet
      <3>2. ASSUME NEW k \in Keys, ActiveKeys = {k} PROVE Cardinality(ActiveKeys) <= 1
        BY <3>2, FS_Singleton
      <3> QED BY <2>3, <3>1, <3>2
    <2> QED BY <2>1, <2>4 DEF Ready
  <1> QED BY <1>1, WholeInvariant, PTL

\* Stops are counted.
Counted == stops \in 0..MaxStops

\* A stop and an operator's client count up to the bound.
LEMMA CountedStep == ASSUME Counted, [Next]_vars PROVE Counted'
  <1>1. ASSUME NEW p \in Replicas, BootStep(p) \/ Tend(p) \/ \E url \in Urls : Start(p, url) PROVE UNCHANGED stops
    BY <1>1 DEF BootStep, SeedGet, SeedCreate, SeedUpdate, ReadSigner, Deactivate, InsertKey, Retire, Restart, Tend, Start
  <1>2. UNCHANGED stops \/ (stops < MaxStops /\ stops' = stops + 1)
    BY <1>1 DEF Next, Answered, SignedIn, Booted, vars, bootVars, Stop, SweepClients, Register
  <1> QED BY <1>2, MembersAre DEF Counted

\* All the state of the authorization server has its type: rows of users, codes,
\* tokens and keys, and what the logins, requests and replicas carry.
THEOREM TypesHold == Spec => []TypeOK
  <1>1. Init => Counted
    BY MembersAre DEF Init, Counted
  <1>2. Whole /\ Counted => TypeOK
    BY DEF Whole, Logged, LoginsOK, LoginTypeOK, Signing, BootOK, Counted, TypeOK
  <1> QED BY <1>1, <1>2, CountedStep, WholeInvariant, PTL DEF Spec
=============================================================================
