-------------------------- MODULE Sessions_proofs ---------------------------
(***************************************************************************)
(* What sessions, settings, limiter and notifications promise, for any     *)
(* number of requests and browsers and any values of the constants that    *)
(* satisfy the assumptions of Sessions: one section for each component.    *)
(***************************************************************************)
EXTENDS Sessions, Sums, WellFoundedInduction

\* The sums of the limiter are those of the library.
LEMMA SameSums == \A f, X : Limit!SumFunctionOnSet(f, X) = SumFunctionOnSet(f, X)
  BY DEF SumFunctionOnSet, FoldFunctionOnSet, MapThenFoldSet,
         Limit!SumFunctionOnSet, Limit!FoldFunctionOnSet, Limit!MapThenFoldSet

-----------------------------------------------------------------------------
\* The refresh tokens of a user are capabilities.  The row names a token only after the
\* request that made it has committed, and a request writes the column from a row it has
\* read, so that what it writes is its own token, none, or what the row has by then.

IssuedOrNone(jti) == jti = None \/ (jti \in Requests /\ Issued(jti))

\* The row, and every row a request is working from, names no token or an issued one.
RowsNameIssued ==
  /\ IssuedOrNone(user.refresh_token_jti)
  /\ \A r \in Requests : req[r].phase = "read" =>
       req[r].user \in User /\ IssuedOrNone(req[r].user.refresh_token_jti)

\* The answers with cookies go to a browser.
BrowsersKnown == \A r \in Requests :
  req[r].op \in {"login", "refresh", "logout"} /\ req[r].phase # "new" => req[r].browser \in Browsers

AccountsInv == TypeOK /\ RowsNameIssued /\ BrowsersKnown

LEMMA AccountsInit == Init => AccountsInv
  BY DEF Init, AccountsInv, TypeOK, RowsNameIssued, IssuedOrNone, BrowsersKnown, Request, User

-----------------------------------------------------------------------------
\* A request that begins reads the row and issues nothing.
LEMMA ReadKeeps ==
  ASSUME AccountsInv, NEW r \in Requests, NEW op \in Operations, NEW b \in Browsers \cup {None},
         NEW token \in Requests \cup {None}, NEW password \in Requests \cup {None},
         op \in {"login", "refresh", "logout"} => b \in Browsers,
         Read(r, op, b, token, password)
  PROVE  /\ AccountsInv'
         /\ UNCHANGED user
         /\ \A s \in Requests : Issued(s)' <=> Issued(s)
         /\ \A s \in Requests \ {r} : (Accepted(s)' <=> Accepted(s)) /\ req'[s].token = req[s].token
         /\ ~Accepted(r)
         /\ Accepted(r)' <=> op = "refresh"
         /\ req'[r].token = token
  <1> USE DEF AccountsInv, TypeOK, Read
  <1>1. TypeOK'
    BY DEF Request
  <1>2. \A s \in Requests : Issued(s)' <=> Issued(s)
    BY DEF Issued
  <1>3. RowsNameIssued'
    BY <1>2 DEF RowsNameIssued, IssuedOrNone
  <1>4. /\ \A s \in Requests \ {r} : (Accepted(s)' <=> Accepted(s)) /\ req'[s].token = req[s].token
        /\ ~Accepted(r) /\ (Accepted(r)' <=> op = "refresh") /\ req'[r].token = token
    BY DEF Accepted
  <1>5. BrowsersKnown'
    BY DEF BrowsersKnown
  <1> QED BY <1>1, <1>2, <1>3, <1>4, <1>5

\* A request that commits writes its own token over the row's, if it makes one, or
\* else none over the row's, or nothing: never a token that the row no longer had.
LEMMA WriteKeeps ==
  ASSUME AccountsInv, NEW r \in Requests, NEW op \in Operations, NEW new \in User,
         IF op \in {"login", "refresh"}
           THEN new.refresh_token_jti = r
           ELSE new.refresh_token_jti \in {None, req[r].user.refresh_token_jti},
         Write(r, op, new)
  PROVE  /\ AccountsInv'
         /\ \A s \in Requests : (Accepted(s)' <=> Accepted(s)) /\ req'[s].token = req[s].token
         /\ IF op \in {"login", "refresh"}
              THEN /\ ~Issued(r)
                   /\ user'.refresh_token_jti = r
                   /\ \A s \in Requests : Issued(s)' <=> s = r \/ Issued(s)
              ELSE /\ user'.refresh_token_jti \in {None, user.refresh_token_jti}
                   /\ \A s \in Requests : Issued(s)' <=> Issued(s)
  <1> USE NoneAssumption DEF AccountsInv, Write
  <1>1. /\ req[r].user \in User /\ IssuedOrNone(req[r].user.refresh_token_jti)
        /\ ~Issued(r)
    BY DEF RowsNameIssued, Issued
  <1>2. user' \in User
    BY <1>1 DEF TypeOK, User
  <1>3. TypeOK'
    <2>1. log' \in Seq(Requests)
      BY DEF TypeOK
    <2>2. [req[r] EXCEPT !.phase = "written"] \in Request
      BY DEF TypeOK, Request
    <2>3. req' = [req EXCEPT ![r] = [req[r] EXCEPT !.phase = "written"]]
      OBVIOUS
    <2>4. req' \in [Requests -> Request]
      BY <2>2, <2>3 DEF TypeOK
    <2> QED BY <1>2, <2>1, <2>4 DEF TypeOK
  <1>4. \A s \in Requests : /\ req'[s].token = req[s].token /\ req'[s].user = req[s].user
                            /\ req'[s].op = req[s].op /\ req'[s].browser = req[s].browser
                            /\ req'[s].phase = IF s = r THEN "written" ELSE req[s].phase
    BY DEF TypeOK, Request
  <1>5. \A s \in Requests : Accepted(s)' <=> Accepted(s)
    BY <1>4 DEF Accepted
  <1>6. \A s \in Requests : Issued(s)' <=> Issued(s) \/ (s = r /\ op \in {"login", "refresh"})
    BY <1>4 DEF Issued
  <1>7. user'.refresh_token_jti = IF new.refresh_token_jti # req[r].user.refresh_token_jti
                                    THEN new.refresh_token_jti ELSE user.refresh_token_jti
    BY DEF TypeOK, User
  <1>8. BrowsersKnown'
    BY <1>4 DEF BrowsersKnown
  <1>9. CASE op \in {"login", "refresh"}
    <2>1. user'.refresh_token_jti = r
      BY <1>1, <1>7, <1>9 DEF IssuedOrNone
    <2>2. RowsNameIssued'
      BY <1>4, <1>6, <1>9, <2>1 DEF RowsNameIssued, IssuedOrNone
    <2> QED BY <1>1, <1>3, <1>4, <1>5, <1>6, <1>9, <1>8, <2>1, <2>2
  <1>10. CASE op \notin {"login", "refresh"}
    <2>1. user'.refresh_token_jti \in {None, user.refresh_token_jti}
      BY <1>7, <1>10
    <2>2. RowsNameIssued'
      BY <1>4, <1>6, <1>10, <2>1 DEF RowsNameIssued, IssuedOrNone
    <2> QED BY <1>3, <1>4, <1>5, <1>6, <1>10, <1>8, <2>1, <2>2
  <1> QED BY <1>9, <1>10

\* A step that leaves the row, what was issued and what was let in as they are.
Quiet == /\ AccountsInv'
         /\ UNCHANGED <<Usable, Dead, LetIn>>

\* Of those steps, what they must leave alone for that.
LEMMA QuietStep ==
  ASSUME AccountsInv, TypeOK', BrowsersKnown',
         user'.refresh_token_jti = user.refresh_token_jti,
         \A s \in Requests : /\ Issued(s)' <=> Issued(s)
                             /\ Accepted(s)' <=> Accepted(s)
                             /\ Accepted(s) => req'[s].token = req[s].token
                             /\ req'[s].phase = "read" =>
                                  req[s].phase = "read" /\ req'[s].user = req[s].user
  PROVE  Quiet
  <1>1. RowsNameIssued'
    BY DEF AccountsInv, RowsNameIssued, IssuedOrNone
  <1>2. UNCHANGED <<Usable, Dead, LetIn>>
    BY DEF Usable, Dead, LetIn
  <1> QED BY <1>1, <1>2 DEF AccountsInv, Quiet

LEMMA OthersAreQuiet ==
  ASSUME AccountsInv,
         \/ \E r \in Requests, b \in Browsers : RefuseRefresh(r, b) \/ LogoutWithoutToken(r, b)
         \/ \E b \in Browsers : AccessExpires(b)
         \/ \E r \in Requests : AnswerTokens(r) \/ AnswerLogout(r) \/ LoseAnswer(r)
         \/ UNCHANGED vars
  PROVE  Quiet
  <1> USE DEF AccountsInv, Request
  <1>1. ASSUME NEW r \in Requests, NEW b \in Browsers, RefuseRefresh(r, b) PROVE Quiet
    <2>1. cookie[b] \in Requests \cup {None}
      BY DEF TypeOK
    <2> DEFINE new == [req[r] EXCEPT !.op = "refresh", !.phase = "refused", !.browser = b,
                                     !.token = cookie[b]]
    <2>2. TypeOK'
      <3>1. new \in Request
        BY <2>1 DEF TypeOK, Operations
      <3>2. req' = [req EXCEPT ![r] = new]
        BY <1>1 DEF RefuseRefresh
      <3> HIDE DEF new
      <3>3. req' \in [Requests -> Request]
        BY <3>1, <3>2 DEF TypeOK
      <3> QED BY <1>1, <3>3 DEF TypeOK, RefuseRefresh
    <2>3. BrowsersKnown'
      BY <1>1 DEF TypeOK, BrowsersKnown, RefuseRefresh
    <2>4. \A s \in Requests : req'[s] = IF s = r THEN new ELSE req[s]
      BY <1>1 DEF TypeOK, RefuseRefresh
    <2>5. \A s \in Requests \ {r} : req'[s] = req[s]
      BY <2>4
    <2>6. req'[r].phase = "refused" /\ req[r].phase = "new"
      BY <1>1, <2>4 DEF RefuseRefresh, TypeOK
    <2> HIDE DEF new
    <2>7. \A s \in Requests : /\ Issued(s)' <=> Issued(s)
                              /\ Accepted(s)' <=> Accepted(s)
      BY <2>5, <2>6 DEF Issued, Accepted
    <2>8. ~Accepted(r)
      BY <2>6 DEF Accepted
    <2> QED BY <1>1, <2>2, <2>3, <2>5, <2>6, <2>7, <2>8, QuietStep DEF RefuseRefresh
  <1>2. ASSUME NEW r \in Requests, NEW b \in Browsers, LogoutWithoutToken(r, b) PROVE Quiet
    <2>1. cookie[b] \in Requests \cup {None}
      BY DEF TypeOK
    <2> DEFINE new == [req[r] EXCEPT !.op = "logout", !.phase = "answered", !.browser = b]
    <2>2. TypeOK'
      <3>1. new \in Request
        BY <2>1 DEF TypeOK, Operations
      <3>2. req' = [req EXCEPT ![r] = new]
        BY <1>2 DEF LogoutWithoutToken
      <3> HIDE DEF new
      <3>3. req' \in [Requests -> Request]
        BY <3>1, <3>2 DEF TypeOK
      <3> QED BY <1>2, <3>3 DEF TypeOK, LogoutWithoutToken
    <2>3. BrowsersKnown'
      BY <1>2 DEF TypeOK, BrowsersKnown, LogoutWithoutToken
    <2>4. \A s \in Requests : req'[s] = IF s = r THEN new ELSE req[s]
      BY <1>2 DEF TypeOK, LogoutWithoutToken
    <2>5. \A s \in Requests \ {r} : req'[s] = req[s]
      BY <2>4
    <2>6. req'[r].op = "logout" /\ req'[r].phase = "answered" /\ req[r].phase = "new"
      BY <1>2, <2>4 DEF LogoutWithoutToken, TypeOK
    <2> HIDE DEF new
    <2>7. \A s \in Requests : /\ Issued(s)' <=> Issued(s)
                              /\ Accepted(s)' <=> Accepted(s)
      BY <2>5, <2>6 DEF Issued, Accepted
    <2>8. ~Accepted(r)
      BY <2>6 DEF Accepted
    <2> QED BY <1>2, <2>2, <2>3, <2>5, <2>6, <2>7, <2>8, QuietStep DEF LogoutWithoutToken
  <1>3. ASSUME NEW b \in Browsers, AccessExpires(b) PROVE Quiet
    <2>1. TypeOK' /\ BrowsersKnown'
      BY <1>3 DEF TypeOK, BrowsersKnown, AccessExpires
    <2> QED BY <1>3, <2>1, QuietStep DEF AccessExpires, Issued, Accepted
  <1>4. ASSUME NEW r \in Requests, AnswerTokens(r) PROVE Quiet
    <2>1. req[r].browser \in Browsers
      BY <1>4 DEF BrowsersKnown, AnswerTokens, Answer
    <2>2. TypeOK' /\ BrowsersKnown'
      BY <1>4, <2>1 DEF TypeOK, BrowsersKnown, AnswerTokens, Answer
    <2> QED BY <1>4, <2>2, QuietStep DEF TypeOK, AnswerTokens, Answer, Issued, Accepted
  <1>5. ASSUME NEW r \in Requests, AnswerLogout(r) PROVE Quiet
    <2>1. req[r].browser \in Browsers
      BY <1>5 DEF BrowsersKnown, AnswerLogout, Answer
    <2>2. TypeOK' /\ BrowsersKnown'
      BY <1>5, <2>1 DEF TypeOK, BrowsersKnown, AnswerLogout, Answer
    <2> QED BY <1>5, <2>2, QuietStep DEF TypeOK, AnswerLogout, Answer, Issued, Accepted
  <1>6. CASE UNCHANGED vars
    <2>1. TypeOK' /\ BrowsersKnown'
      BY <1>6 DEF TypeOK, BrowsersKnown, vars
    <2> QED BY <1>6, <2>1, QuietStep DEF vars, Issued, Accepted
  <1>7. ASSUME NEW r \in Requests, LoseAnswer(r) PROVE Quiet
    <2>1. TypeOK' /\ BrowsersKnown'
      BY <1>7 DEF TypeOK, BrowsersKnown, LoseAnswer
    <2> QED BY <1>7, <2>1, QuietStep DEF LoseAnswer, Issued, Accepted
  <1> QED BY <1>1, <1>2, <1>3, <1>4, <1>5, <1>6, <1>7

-----------------------------------------------------------------------------
\* A step leaves the tokens alone, issues one in place of the row's, revokes the
\* row's, or lets a browser in by the row's.
CapabilityStep == AccountsInv' /\ [Capabilities!Next]_<<Usable, Dead, LetIn>>

LEMMA QuietIsCapabilityStep == Quiet => CapabilityStep
  BY DEF Quiet, CapabilityStep

\* What a login or a refresh writes.
LEMMA IssueWrites ==
  ASSUME AccountsInv, NEW r \in Requests, Login(r) \/ Refresh(r)
  PROVE  \E op \in {"login", "refresh"}, new \in User : new.refresh_token_jti = r /\ Write(r, op, new)
  <1> DEFINE new == [req[r].user EXCEPT !.refresh_token_jti = r]
  <1>1. PICK op \in {"login", "refresh"} : Write(r, op, new)
    BY DEF Login, Refresh
  <1>2. new \in User /\ new.refresh_token_jti = r
    BY <1>1 DEF AccountsInv, RowsNameIssued, User, Write
  <1> QED BY <1>1, <1>2

\* What the other requests write.
LEMMA RevokeWrites ==
  ASSUME AccountsInv, NEW r \in Requests,
         \/ Logout(r) \/ ResetPassword(r) \/ ChangePassword(r) \/ UpdateName(r)
         \/ \E e \in Emails : UpdateEmail(r, e)
  PROVE  \E op \in Operations \ {"login", "refresh"}, new \in User :
           /\ Write(r, op, new)
           /\ new.refresh_token_jti \in {None, req[r].user.refresh_token_jti}
  <1>1. req[r].user \in User
    BY DEF AccountsInv, RowsNameIssued, Logout, ResetPassword, ChangePassword, UpdateName,
       UpdateEmail, Write
  <1> DEFINE out    == [req[r].user EXCEPT !.refresh_token_jti = None]
             secret == [req[r].user EXCEPT !.hashed_password = r, !.refresh_token_jti = None]
             moved(e) == [req[r].user EXCEPT !.email = e, !.refresh_token_jti = None]
  <1>2. /\ out \in User /\ out.refresh_token_jti = None
        /\ secret \in User /\ secret.refresh_token_jti = None
    BY <1>1 DEF User
  <1>3. \A e \in Emails : moved(e) \in User /\ moved(e).refresh_token_jti = None
    BY <1>1 DEF User
  <1> HIDE DEF out, secret
  <1>4. CASE Logout(r)
    <2>1. Write(r, "logout", out)
      BY <1>4 DEF Logout, out
    <2> QED BY <1>2, <2>1 DEF Operations
  <1>5. CASE ResetPassword(r)
    <2>1. Write(r, "reset", secret)
      BY <1>5 DEF ResetPassword, secret
    <2> QED BY <1>2, <2>1 DEF Operations
  <1>6. CASE ChangePassword(r)
    <2>1. Write(r, "password", secret)
      BY <1>6 DEF ChangePassword, secret
    <2> QED BY <1>2, <2>1 DEF Operations
  <1>7. CASE UpdateName(r)
    BY <1>1, <1>7 DEF UpdateName, Operations
  <1>8. CASE \E e \in Emails : UpdateEmail(r, e)
    <2>1. PICK e \in Emails : UpdateEmail(r, e)
      BY <1>8
    <2>2. Write(r, "email", moved(e))
      BY <2>1 DEF UpdateEmail
    <2> HIDE DEF moved
    <2> QED BY <1>3, <2>2 DEF Operations
  <1> QED BY <1>4, <1>5, <1>6, <1>7, <1>8

\* A login, or a refresh: its token takes the place of the row's.
LEMMA IssueStep ==
  ASSUME AccountsInv, NEW r \in Requests, Login(r) \/ Refresh(r)
  PROVE  CapabilityStep
  <1> USE NoneAssumption
  <1>1. PICK op \in {"login", "refresh"}, new \in User : new.refresh_token_jti = r /\ Write(r, op, new)
    BY IssueWrites
  <1>2. /\ AccountsInv' /\ ~Issued(r) /\ user'.refresh_token_jti = r
        /\ \A s \in Requests : Issued(s)' <=> s = r \/ Issued(s)
        /\ \A s \in Requests : (Accepted(s)' <=> Accepted(s)) /\ req'[s].token = req[s].token
    BY <1>1, WriteKeeps DEF Operations
  <1>3. UNCHANGED LetIn
    BY <1>2 DEF LetIn
  <1>4. r \notin Usable \cup Dead
    BY <1>2 DEF AccountsInv, RowsNameIssued, IssuedOrNone, Usable, Dead
  <1>5. Usable' = (Usable \ Usable) \cup {r} /\ Dead' = Dead \cup Usable
    BY <1>2 DEF AccountsInv, RowsNameIssued, IssuedOrNone, Usable, Dead
  <1>6. Capabilities!Issue(r, Usable)
    BY <1>3, <1>4, <1>5 DEF Capabilities!Issue, Capabilities!Gone
  <1>7. Usable \in SUBSET Requests
    BY DEF AccountsInv, TypeOK, User, Usable
  <1> QED BY <1>2, <1>6, <1>7 DEF CapabilityStep, Capabilities!Next

\* Logout, reset, change of password, address or name: the row's token is revoked, or
\* left.
LEMMA RevokeStep ==
  ASSUME AccountsInv, NEW r \in Requests,
         \/ Logout(r) \/ ResetPassword(r) \/ ChangePassword(r) \/ UpdateName(r)
         \/ \E e \in Emails : UpdateEmail(r, e)
  PROVE  CapabilityStep
  <1> USE NoneAssumption
  <1>1. PICK op \in Operations \ {"login", "refresh"}, new \in User :
          /\ Write(r, op, new)
          /\ new.refresh_token_jti \in {None, req[r].user.refresh_token_jti}
    BY RevokeWrites
  <1>2. /\ AccountsInv' /\ user'.refresh_token_jti \in {None, user.refresh_token_jti}
        /\ \A s \in Requests : Issued(s)' <=> Issued(s)
        /\ \A s \in Requests : (Accepted(s)' <=> Accepted(s)) /\ req'[s].token = req[s].token
    BY <1>1, WriteKeeps
  <1>3. UNCHANGED LetIn
    BY <1>2 DEF LetIn
  <1>4. CASE user'.refresh_token_jti = user.refresh_token_jti
    BY <1>2, <1>3, <1>4 DEF CapabilityStep, Usable, Dead
  <1>5. CASE user'.refresh_token_jti = None
    <2>1. Usable' = Usable \ Usable /\ Dead' = Dead \cup Usable
      BY <1>2, <1>5 DEF AccountsInv, RowsNameIssued, IssuedOrNone, Usable, Dead
    <2>2. Capabilities!Revoke(Usable)
      BY <1>3, <2>1 DEF Capabilities!Revoke, Capabilities!Gone
    <2>3. Usable \in SUBSET Requests
      BY DEF AccountsInv, TypeOK, User, Usable
    <2> QED BY <1>2, <2>2, <2>3 DEF CapabilityStep, Capabilities!Next
  <1> QED BY <1>2, <1>4, <1>5

\* A refresh that is let through uses the row's token; what else begins uses none.
LEMMA BeginStep ==
  ASSUME AccountsInv, NEW r \in Requests,
         \/ BeginReset(r)
         \/ \E b \in Browsers :
              \/ BeginLogin(r, b) \/ BeginRefresh(r, b) \/ BeginLogout(r, b)
              \/ \E op \in {"password", "email", "name"} : BeginChange(r, b, op)
  PROVE  CapabilityStep
  <1> USE NoneAssumption
  <1>1. PICK op \in Operations, b \in Browsers \cup {None},
             token \in Requests \cup {None}, password \in Requests \cup {None} :
          /\ Read(r, op, b, token, password)
          /\ op \in {"login", "refresh", "logout"} => b \in Browsers
          /\ op = "refresh" => token # None /\ token = user.refresh_token_jti
    <2>1. CASE BeginReset(r)
      BY <2>1 DEF BeginReset, Operations
    <2>2. ASSUME NEW b \in Browsers, BeginLogin(r, b)
          PROVE  Read(r, "login", b, None, user.hashed_password) /\ user.hashed_password \in Requests \cup {None}
      BY <2>2 DEF BeginLogin, AccountsInv, TypeOK, User
    <2>3. ASSUME NEW b \in Browsers, BeginRefresh(r, b)
          PROVE  /\ Read(r, "refresh", b, cookie[b], req[cookie[b]].password)
                 /\ cookie[b] \in Requests /\ req[cookie[b]].password \in Requests \cup {None}
                 /\ cookie[b] # None /\ cookie[b] = user.refresh_token_jti
      BY <2>3 DEF BeginRefresh, AccountsInv, TypeOK, Request
    <2>4. ASSUME NEW b \in Browsers, BeginLogout(r, b)
          PROVE  Read(r, "logout", b, cookie[b], None) /\ cookie[b] \in Requests \cup {None}
      BY <2>4 DEF BeginLogout, AccountsInv, TypeOK
    <2>5. ASSUME NEW b \in Browsers, NEW op \in {"password", "email", "name"}, BeginChange(r, b, op)
          PROVE  Read(r, op, b, cookie[b], None) /\ cookie[b] \in Requests \cup {None}
      BY <2>5 DEF BeginChange, AccountsInv, TypeOK
    <2> QED BY <2>1, <2>2, <2>3, <2>4, <2>5 DEF Operations
  <1>2. /\ AccountsInv' /\ UNCHANGED user
        /\ \A s \in Requests : Issued(s)' <=> Issued(s)
        /\ \A s \in Requests \ {r} : (Accepted(s)' <=> Accepted(s)) /\ req'[s].token = req[s].token
        /\ ~Accepted(r) /\ (Accepted(r)' <=> op = "refresh") /\ req'[r].token = token
    BY <1>1, ReadKeeps
  <1>3. UNCHANGED <<Usable, Dead>>
    BY <1>2 DEF Usable, Dead
  <1>4. CASE op = "refresh"
    <2>1. LetIn' = LetIn \cup {<<token, r>>}
      BY <1>2, <1>4 DEF LetIn
    <2>2. token \in Usable
      BY <1>1, <1>4 DEF Usable
    <2>3. Capabilities!Use(token, r)
      BY <1>3, <2>1, <2>2 DEF Capabilities!Use
    <2> QED BY <1>1, <1>2, <1>4, <2>3 DEF CapabilityStep, Capabilities!Next
  <1>5. CASE op # "refresh"
    <2>1. UNCHANGED LetIn
      BY <1>2, <1>5 DEF LetIn
    <2> QED BY <1>2, <1>3, <2>1 DEF CapabilityStep
  <1> QED BY <1>4, <1>5

LEMMA StepIsCapability == ASSUME AccountsInv, [Next]_vars PROVE CapabilityStep
  BY OthersAreQuiet, QuietIsCapabilityStep, IssueStep, RevokeStep, BeginStep DEF Next

-----------------------------------------------------------------------------
LEMMA Invariant == Spec => []AccountsInv
  <1>1. AccountsInv /\ [Next]_vars => AccountsInv'
    BY StepIsCapability DEF CapabilityStep
  <1> QED BY AccountsInit, <1>1, PTL DEF Spec

\* Every row, cookie and request is well typed.
THEOREM SessionsTyped == Spec => []TypeOK
  <1>1. AccountsInv => TypeOK
    BY DEF AccountsInv
  <1> QED BY Invariant, <1>1, PTL

\* A refresh token is accepted only while it is the row's; once rotated, revoked or
\* replaced it never is again, whatever requests overlap.
THEOREM TokensRefineCapability == Spec => TokensAreCapabilities
  <1>1. Init => Capabilities!Init
    BY DEF Init, Capabilities!Init, Usable, Dead, LetIn, Issued, Accepted
  <1>2. AccountsInv /\ [Next]_vars => [Capabilities!Next]_<<Usable, Dead, LetIn>>
    BY StepIsCapability DEF CapabilityStep
  <1> QED BY <1>1, <1>2, Invariant, PTL DEF Spec, TokensAreCapabilities, Capabilities!Spec

-----------------------------------------------------------------------------
\* A refresh is refused for a reason.  A browser keeps the token of an answer, and
\* presents it while it waits for no refresh of its own: by then none with that token
\* was answered, or its answer would have replaced the token.  So what committed after
\* the token and took its place was something else, or its answer was lost.

\* Whatever has committed was a request that wrote, the row's token being that of the
\* last one if it made a token; and whatever made a token has committed.
LogFollowed ==
  /\ \A i \in 1..Len(log) : req[log[i]].phase \in {"written", "answered"}
  /\ \A r \in Requests : Issued(r) => \E i \in 1..Len(log) : log[i] = r
  /\ Len(log) > 0 /\ Issued(log[Len(log)]) => user.refresh_token_jti = log[Len(log)]

Answered(t) == t \in Requests /\ Issued(t) /\ req[t].phase = "answered"

\* Tokens come from answers, and a refresh with the token a browser has was not answered.
TokensFromAnswers ==
  /\ \A b \in Browsers : cookie[b] # None => Answered(cookie[b])
  /\ \A r \in Requests : req[r].token # None => Answered(req[r].token) /\ req[r].phase # "new"
  /\ \A b \in Browsers, r \in Requests :
       req[r].op = "refresh" /\ req[r].browser = b /\ req[r].phase = "answered" =>
         cookie[b] = None \/ req[r].token # cookie[b]

\* t committed, and later s.
Followed(t, s) == \E k, j \in 1..Len(log) : k < j /\ log[k] = t /\ log[j] = s

SameCall(s, r) ==
  req[s].op = "refresh" /\ req[s].browser = req[r].browser /\ req[s].token = req[r].token

RefusalsFollowed == \A r \in Requests : req[r].phase = "refused" =>
  \E s \in Requests : Followed(req[r].token, s) /\ (~SameCall(s, r) \/ s \in lost)

Told == LogFollowed /\ TokensFromAnswers /\ RefusalsFollowed

LEMMA RefusedFollowed == ASSUME AccountsInv, RefusalsFollowed PROVE RefusedForAReason
  <1>1. log \in Seq(Requests) /\ Len(log) \in Nat
    BY DEF AccountsInv, TypeOK
  <1>2. ASSUME NEW t, NEW s, Followed(t, s) PROVE s \in CommittedAfter(t)
    <2>1. Contains(log, t)
      BY <1>2 DEF Followed, Contains
    <2>2. PICK k, j \in 1..Len(log) : k < j /\ log[k] = t /\ log[j] = s
      BY <1>2 DEF Followed
    <2>3. k \in 1..(j - 1)
      BY <1>1, <2>2
    <2> QED BY <2>1, <2>2, <2>3 DEF CommittedAfter
  <1> QED BY <1>2 DEF RefusalsFollowed, RefusedForAReason, SameCall

\* A call that begins, is refused, or ends without a row to read.
LEMMA StartKeepsTold ==
  ASSUME AccountsInv, AccountsInv', Told, NEW r \in Requests, req[r].phase = "new", NEW q \in Request,
         req' = [req EXCEPT ![r] = q], UNCHANGED <<user, cookie, lost, log>>,
         q.phase \in {"read", "refused"} \/ (q.phase = "answered" /\ q.op = "logout"),
         q.token = None \/ \E b \in Browsers : cookie[b] = q.token,
         q.phase = "refused" =>
           \E s \in Requests : /\ Followed(q.token, s)
                               /\ \/ ~(/\ req[s].op = "refresh" /\ req[s].browser = q.browser
                                       /\ req[s].token = q.token)
                                  \/ s \in lost
  PROVE  Told'
  <1>1. req \in [Requests -> Request] /\ log \in Seq(Requests)
    BY DEF AccountsInv, TypeOK
  <1>2. \A i \in 1..Len(log) : log[i] \in Requests \ {r} /\ req'[log[i]] = req[log[i]]
    BY <1>1 DEF Told, LogFollowed
  <1>3. \A s \in Requests : (Issued(s)' <=> Issued(s)) /\ (Answered(s)' <=> Answered(s))
    BY <1>1 DEF Issued, Answered
  <1>4. LogFollowed'
    BY <1>1, <1>2, <1>3 DEF Told, LogFollowed
  <1>5. TokensFromAnswers'
    <2>1. \A b \in Browsers : cookie'[b] # None => Answered(cookie[b])'
      BY <1>3 DEF Told, TokensFromAnswers, Answered
    <2>2. q.token # None => Answered(q.token)
      BY DEF Told, TokensFromAnswers
    <2>3. \A s \in Requests : req'[s].token # None => Answered(req[s].token)' /\ req'[s].phase # "new"
      BY <1>1, <1>3, <2>2 DEF Told, TokensFromAnswers, Answered
    <2>4. \A b \in Browsers, s \in Requests :
            req'[s].op = "refresh" /\ req'[s].browser = b /\ req'[s].phase = "answered" =>
              cookie'[b] = None \/ req'[s].token # cookie'[b]
      BY <1>1 DEF Told, TokensFromAnswers
    <2> QED BY <2>1, <2>3, <2>4 DEF TokensFromAnswers
  <1>6. \A t, s : Followed(t, s)' <=> Followed(t, s)
    BY DEF Followed
  <1>7. \A s \in Requests : \A t : Followed(t, s) => s # r /\ req'[s] = req[s]
    BY <1>2 DEF Followed
  <1>8. RefusalsFollowed'
    <2>1. SUFFICES ASSUME NEW p \in Requests, req'[p].phase = "refused"
                   PROVE  \E s \in Requests : /\ Followed(req'[p].token, s)
                                              /\ ~SameCall(s, p)' \/ s \in lost
      BY <1>6 DEF RefusalsFollowed
    <2>2. CASE p = r
      BY <1>1, <1>7, <2>1, <2>2 DEF SameCall
    <2>3. CASE p # r
      <3>1. req'[p] = req[p]
        BY <1>1, <2>3
      <3>2. PICK s \in Requests : Followed(req[p].token, s) /\ (~SameCall(s, p) \/ s \in lost)
        BY <2>1, <3>1 DEF Told, RefusalsFollowed
      <3> QED BY <1>7, <3>1, <3>2 DEF SameCall
    <2> QED BY <2>2, <2>3
  <1> QED BY <1>4, <1>5, <1>8 DEF Told

\* A call that commits.
LEMMA WriteKeepsTold ==
  ASSUME AccountsInv, AccountsInv', Told, NEW r \in Requests, NEW op \in Operations, NEW new \in User,
         Write(r, op, new),
         op \in {"login", "refresh"} => user'.refresh_token_jti = r
  PROVE  Told'
  <1> DEFINE q == [req[r] EXCEPT !.phase = "written"]
  <1>1. req \in [Requests -> Request] /\ log \in Seq(Requests) /\ Len(log) \in Nat
    BY DEF AccountsInv, TypeOK
  <1>2. /\ req' = [req EXCEPT ![r] = q] /\ log' = Append(log, r) /\ UNCHANGED <<cookie, lost>>
        /\ req[r].op = op /\ req[r].phase = "read"
        /\ q.op = op /\ q.phase = "written" /\ q.browser = req[r].browser /\ q.token = req[r].token
    BY <1>1 DEF Write, Request
  <1> HIDE DEF q
  <1>3. /\ Len(log') = Len(log) + 1 /\ log'[Len(log) + 1] = r
        /\ \A i \in 1..Len(log) : log'[i] = log[i] /\ log[i] \in Requests
    BY <1>1, <1>2
  <1>4. \A s \in Requests : /\ req'[s].op = req[s].op /\ req'[s].browser = req[s].browser
                            /\ req'[s].token = req[s].token
                            /\ req'[s].phase = IF s = r THEN "written" ELSE req[s].phase
    BY <1>1, <1>2
  <1>5. \A s \in Requests : /\ Issued(s) => Issued(s)'
                            /\ Issued(s)' => Issued(s) \/ s = r
                            /\ Answered(s)' <=> Answered(s)
    BY <1>2, <1>4 DEF Issued, Answered
  <1>6. LogFollowed'
    <2>1. \A i \in 1..Len(log') : req'[log'[i]].phase \in {"written", "answered"}
      BY <1>1, <1>3, <1>4 DEF Told, LogFollowed
    <2>2. \A s \in Requests : Issued(s)' => \E i \in 1..Len(log') : log'[i] = s
      <3>1. \A i \in 1..Len(log) : i \in 1..Len(log')
        BY <1>1, <1>3
      <3>2. Len(log) + 1 \in 1..Len(log')
        BY <1>1, <1>3
      <3> QED BY <1>3, <1>5, <3>1, <3>2 DEF Told, LogFollowed
    <2>3. Issued(r)' => user'.refresh_token_jti = r
      BY <1>2, <1>4 DEF Issued
    <2> QED BY <1>3, <2>1, <2>2, <2>3 DEF LogFollowed
  <1>7. TokensFromAnswers'
    <2>1. \A b \in Browsers : cookie'[b] # None => Answered(cookie[b])'
      BY <1>2, <1>5 DEF Told, TokensFromAnswers, Answered
    <2>2. \A s \in Requests : req'[s].token # None => Answered(req[s].token)' /\ req'[s].phase # "new"
      BY <1>4, <1>5 DEF Told, TokensFromAnswers, Answered
    <2>3. \A b \in Browsers, s \in Requests :
            req'[s].op = "refresh" /\ req'[s].browser = b /\ req'[s].phase = "answered" =>
              cookie'[b] = None \/ req'[s].token # cookie'[b]
      BY <1>2, <1>4 DEF Told, TokensFromAnswers
    <2> QED BY <2>1, <2>2, <2>3 DEF TokensFromAnswers
  <1>8. ASSUME NEW t, NEW s, Followed(t, s) PROVE Followed(t, s)'
    <2>1. PICK k, j \in 1..Len(log) : k < j /\ log[k] = t /\ log[j] = s
      BY <1>8 DEF Followed
    <2>2. k \in 1..Len(log') /\ j \in 1..Len(log') /\ log'[k] = t /\ log'[j] = s
      BY <1>1, <1>3, <2>1
    <2> QED BY <2>1, <2>2 DEF Followed
  <1>9. RefusalsFollowed'
    <2>1. SUFFICES ASSUME NEW p \in Requests, req'[p].phase = "refused"
                   PROVE  \E s \in Requests : /\ Followed(req[p].token, s)'
                                              /\ ~SameCall(s, p)' \/ s \in lost'
      BY DEF RefusalsFollowed
    <2>2. req[p].phase = "refused"
      BY <1>4, <2>1
    <2>3. PICK s \in Requests : Followed(req[p].token, s) /\ (~SameCall(s, p) \/ s \in lost)
      BY <2>2 DEF Told, RefusalsFollowed
    <2>4. req'[p].token = req[p].token /\ (~SameCall(s, p)' \/ s \in lost')
      BY <1>2, <1>4, <2>3 DEF SameCall
    <2>5. Followed(req[p].token, s)'
      <3>1. Followed(req[p].token, s) => \E k, j \in 1..Len(log') : k < j /\ log'[k] = req[p].token /\ log'[j] = s
        BY <1>8 DEF Followed
      <3> QED BY <2>3, <2>4, <3>1 DEF Followed
    <2> QED BY <2>4, <2>5
  <1> QED BY <1>6, <1>7, <1>9 DEF Told

\* A call whose answer arrives: its browser has the token of the answer, that nobody
\* could present before.
LEMMA AnswerKeepsTold ==
  ASSUME AccountsInv, AccountsInv', Told, NEW r \in Requests, AnswerTokens(r) \/ AnswerLogout(r)
  PROVE  Told'
  <1> DEFINE q == [req[r] EXCEPT !.phase = "answered"]
             home == req[r].browser
             given == IF req[r].op = "logout" THEN None ELSE r
  <1>1. /\ req \in [Requests -> Request] /\ log \in Seq(Requests)
        /\ cookie \in [Browsers -> Requests \cup {None}]
    BY DEF AccountsInv, TypeOK
  <1>2. /\ req' = [req EXCEPT ![r] = q] /\ UNCHANGED <<user, lost, log>>
        /\ req[r].phase = "written" /\ req[r].op \in {"login", "refresh", "logout"}
        /\ cookie' = [cookie EXCEPT ![home] = given]
    BY DEF AnswerTokens, AnswerLogout, Answer
  <1>3. home \in Browsers
    BY <1>2 DEF AccountsInv, BrowsersKnown
  <1>4. q.op = req[r].op /\ q.phase = "answered" /\ q.browser = req[r].browser /\ q.token = req[r].token
    BY <1>1 DEF Request
  <1> HIDE DEF q
  <1>5. \A s \in Requests : /\ req'[s].op = req[s].op /\ req'[s].browser = req[s].browser
                            /\ req'[s].token = req[s].token
                            /\ req'[s].phase = IF s = r THEN "answered" ELSE req[s].phase
    BY <1>1, <1>2, <1>4
  <1>6. \A s \in Requests : (Issued(s)' <=> Issued(s)) /\ (Answered(s) => Answered(s)' /\ s # r)
    BY <1>2, <1>5 DEF Issued, Answered
  <1>7. LogFollowed'
    <2>1. \A i \in 1..Len(log) : log[i] \in Requests
      BY <1>1
    <2> QED BY <1>2, <1>5, <1>6, <2>1 DEF Told, LogFollowed
  <1>8. TokensFromAnswers'
    <2>1. given # None => Answered(r)' /\ given = r
      BY <1>2, <1>5 DEF Answered, Issued
    <2>2. \A b \in Browsers : cookie'[b] = IF b = home THEN given ELSE cookie[b]
      BY <1>1, <1>2, <1>3
    <2> HIDE DEF home, given
    <2>3. \A b \in Browsers : cookie'[b] # None => Answered(cookie[b])'
      BY <1>6, <2>1, <2>2 DEF Told, TokensFromAnswers, Answered
    <2>4. \A s \in Requests : req'[s].token # None => Answered(req[s].token)' /\ req'[s].phase # "new"
      BY <1>5, <1>6 DEF Told, TokensFromAnswers, Answered
    <2>5. \A s \in Requests : req[s].token # None => req[s].token # r
      BY <1>6 DEF Told, TokensFromAnswers, Answered
    <2>6. \A b \in Browsers, s \in Requests :
            req'[s].op = "refresh" /\ req'[s].browser = b /\ req'[s].phase = "answered" =>
              cookie'[b] = None \/ req'[s].token # cookie'[b]
      BY <1>5, <2>1, <2>2, <2>5 DEF Told, TokensFromAnswers, home
    <2> QED BY <2>3, <2>4, <2>6 DEF TokensFromAnswers
  <1>9. RefusalsFollowed'
    BY <1>2, <1>5 DEF Told, RefusalsFollowed, Followed, SameCall
  <1> QED BY <1>7, <1>8, <1>9 DEF Told

\* A refresh that is refused.
LEMMA RefuseKeepsTold ==
  ASSUME AccountsInv, AccountsInv', Told, NEW r \in Requests, NEW b \in Browsers, RefuseRefresh(r, b)
  PROVE  Told'
  <1> DEFINE q == [req[r] EXCEPT !.op = "refresh", !.phase = "refused", !.browser = b, !.token = cookie[b]]
             t == cookie[b]
  <1>1. /\ req \in [Requests -> Request] /\ log \in Seq(Requests) /\ Len(log) \in Nat
        /\ req' \in [Requests -> Request]
    BY DEF AccountsInv, TypeOK
  <1>2. /\ req' = [req EXCEPT ![r] = q] /\ UNCHANGED <<user, cookie, lost, log>> /\ req[r].phase = "new"
        /\ ~Refreshing(b) /\ t # None /\ t # user.refresh_token_jti
    BY DEF RefuseRefresh
  <1>3. q \in Request /\ q.phase = "refused" /\ q.browser = b /\ q.token = t
    <2>1. q = req'[r]
      BY <1>1, <1>2
    <2> QED BY <1>1, <2>1 DEF Request
  <1>4. Answered(t)
    BY <1>2 DEF Told, TokensFromAnswers
  <1>5. PICK k \in 1..Len(log) : log[k] = t
    BY <1>4 DEF Told, LogFollowed, Answered
  <1>6. k < Len(log)
    <2>1. k # Len(log)
      BY <1>1, <1>2, <1>4, <1>5 DEF Told, LogFollowed, Answered
    <2> QED BY <1>1, <1>5, <2>1
  <1> DEFINE s == log[Len(log)]
  <1>7. s \in Requests /\ req[s].phase \in {"written", "answered"} /\ Followed(t, s)
    <2>1. Len(log) \in 1..Len(log)
      BY <1>1, <1>6
    <2> QED BY <1>1, <1>5, <1>6, <2>1 DEF Told, LogFollowed, Followed
  <1>8. ~(req[s].op = "refresh" /\ req[s].browser = b /\ req[s].token = t) \/ s \in lost
    BY <1>2, <1>7 DEF Refreshing, Busy, Told, TokensFromAnswers
  <1> HIDE DEF q, s
  <1>9. q.token = None \/ \E c \in Browsers : cookie[c] = q.token
    BY <1>3
  <1>10. \E z \in Requests : /\ Followed(q.token, z)
                             /\ \/ ~(/\ req[z].op = "refresh" /\ req[z].browser = q.browser
                                     /\ req[z].token = q.token)
                                \/ z \in lost
    BY <1>3, <1>7, <1>8
  <1> QED BY <1>2, <1>3, <1>9, <1>10, StartKeepsTold

\* A call that reads the row, or needs none.
LEMMA BeginKeepsTold ==
  ASSUME AccountsInv, AccountsInv', Told, NEW r \in Requests,
         \/ BeginReset(r)
         \/ \E b \in Browsers :
              \/ BeginLogin(r, b) \/ BeginRefresh(r, b) \/ BeginLogout(r, b)
              \/ LogoutWithoutToken(r, b)
              \/ \E op \in {"password", "email", "name"} : BeginChange(r, b, op)
  PROVE  Told'
  <1> DEFINE q == req'[r]
  <1>1. req \in [Requests -> Request] /\ req' \in [Requests -> Request]
    BY DEF AccountsInv, TypeOK
  <1>2. ASSUME NEW op, NEW b, NEW token, NEW password, Read(r, op, b, token, password),
               token = None \/ \E c \in Browsers : cookie[c] = token
        PROVE  Told'
    <2>1. /\ req' = [req EXCEPT ![r] = q] /\ UNCHANGED <<user, cookie, lost, log>>
          /\ req[r].phase = "new" /\ q \in Request /\ q.phase = "read" /\ q.token = token
      BY <1>1, <1>2 DEF Read
    <2> HIDE DEF q
    <2> QED BY <1>2, <2>1, StartKeepsTold
  <1>3. ASSUME NEW b \in Browsers, LogoutWithoutToken(r, b) PROVE Told'
    <2>1. /\ req' = [req EXCEPT ![r] = [req[r] EXCEPT !.op = "logout", !.phase = "answered", !.browser = b]]
          /\ UNCHANGED <<user, cookie, lost, log>> /\ req[r].phase = "new"
      BY <1>3 DEF LogoutWithoutToken
    <2>2. /\ req' = [req EXCEPT ![r] = q] /\ q \in Request
          /\ q.phase = "answered" /\ q.op = "logout" /\ q.token = req[r].token
      BY <1>1, <2>1 DEF Request
    <2>3. req[r].token = None
      BY <2>1 DEF Told, TokensFromAnswers
    <2> HIDE DEF q
    <2> QED BY <2>1, <2>2, <2>3, StartKeepsTold
  <1>4. CASE BeginReset(r)
    BY <1>2, <1>4 DEF BeginReset
  <1>5. ASSUME NEW b \in Browsers, BeginLogin(r, b) PROVE Told'
    BY <1>2, <1>5 DEF BeginLogin
  <1>6. ASSUME NEW b \in Browsers, BeginRefresh(r, b) PROVE Told'
    BY <1>2, <1>6 DEF BeginRefresh
  <1>7. ASSUME NEW b \in Browsers, BeginLogout(r, b) PROVE Told'
    BY <1>2, <1>7 DEF BeginLogout
  <1>8. ASSUME NEW b \in Browsers, NEW op \in {"password", "email", "name"}, BeginChange(r, b, op) PROVE Told'
    BY <1>2, <1>8 DEF BeginChange
  <1> QED BY <1>3, <1>4, <1>5, <1>6, <1>7, <1>8

LEMMA ToldKeeps == ASSUME AccountsInv, AccountsInv', Told, [Next]_vars PROVE Told'
  <1>1. ASSUME NEW r \in Requests, Login(r) \/ Refresh(r) PROVE Told'
    <2>1. PICK op \in {"login", "refresh"}, new \in User : new.refresh_token_jti = r /\ Write(r, op, new)
      BY <1>1, IssueWrites
    <2>2. user'.refresh_token_jti = r /\ op \in Operations
      BY <2>1, WriteKeeps DEF Operations
    <2> QED BY <2>1, <2>2, WriteKeepsTold
  <1>2. ASSUME NEW r \in Requests,
               \/ Logout(r) \/ ResetPassword(r) \/ ChangePassword(r) \/ UpdateName(r)
               \/ \E e \in Emails : UpdateEmail(r, e)
        PROVE  Told'
    <2>1. PICK op \in Operations \ {"login", "refresh"}, new \in User : Write(r, op, new)
      BY <1>2, RevokeWrites
    <2> QED BY <2>1, WriteKeepsTold
  <1>3. ASSUME UNCHANGED <<user, cookie, req, log>>, lost \subseteq lost' PROVE Told'
    BY <1>3 DEF Told, LogFollowed, TokensFromAnswers, RefusalsFollowed, Issued, Answered,
       Followed, SameCall
  <1>4. ASSUME NEW b \in Browsers, AccessExpires(b) PROVE Told'
    BY <1>3, <1>4 DEF AccessExpires
  <1>5. CASE UNCHANGED vars
    BY <1>3, <1>5 DEF vars
  <1>6. ASSUME NEW r \in Requests, LoseAnswer(r) PROVE Told'
    BY <1>3, <1>6 DEF LoseAnswer
  <1> QED BY <1>1, <1>2, <1>4, <1>5, <1>6, BeginKeepsTold, RefuseKeepsTold, AnswerKeepsTold DEF Next

\* "This prevents JTI-rotation conflicts where the 2nd refresh call would fail because
\* the first one already rotated the token" (client.ts:7): whatever number of browsers,
\* and however their calls overlap.
THEOREM RefusalsHaveReasons == Spec => []RefusedForAReason
  <1>1. Init => Told
    BY DEF Init, Told, LogFollowed, TokensFromAnswers, RefusalsFollowed, Issued, Answered
  <1>2. AccountsInv /\ Told /\ [Next]_vars => (AccountsInv /\ Told)'
    BY StepIsCapability, ToldKeeps DEF CapabilityStep
  <1>3. AccountsInv /\ Told => RefusedForAReason
    BY RefusedFollowed DEF Told
  <1> QED BY AccountsInit, <1>1, <1>2, <1>3, PTL DEF Spec

-----------------------------------------------------------------------------
\* Settings.  A request that changes a row writes the columns that differ from what it
\* read: it can put back a file it has uploaded itself, and no other.

\* The requests that have committed are done.
LogDone == \A i \in 1..Len(saved) : saving[saved[i]].phase = "done"

\* What a request saw bears nothing of its own, and is still there.
SeenByOthers == \A r \in Requests : saving[r].phase = "read" =>
  /\ saving[r].op \in Save!Operations
  /\ saving[r].profile # None =>
       profile # None /\ saving[r].profile.logo_path # r /\ saving[r].profile.stamp_path # r
  /\ saving[r].organization # None => organization # None /\ saving[r].organization.logo_url # r
  /\ saving[r].op \in {"organization", "orgLogo"} => saving[r].organization # None
  /\ saving[r].signature.path # r

SettingsInv == Save!TypeOK /\ LogDone /\ SeenByOthers /\ Save!UploadsSurvive

\* Of some of the first numbers one is the largest.
LEMMA FiniteMax ==
  ASSUME NEW n \in Nat, NEW S \in SUBSET (1..n), S # {}
  PROVE  Save!Max(S) \in S
  <1> DEFINE T == {n - x : x \in S}
             R == OpToRel(<, Nat)
  <1>1. T \subseteq Nat /\ T # {}
    <2>1. \A x \in S : x \in 1..n /\ n - x \in Nat
      OBVIOUS
    <2> QED BY <2>1
  <1>2. IsWellFoundedOn(R, Nat)
    BY NatLessThanWellFounded
  <1>3. \A x, y \in Nat : y < x => <<y, x>> \in R
    BY DEF OpToRel
  <1> HIDE DEF R
  <1>4. PICK m \in T : \A y \in T : <<y, m>> \notin R
    <2> HIDE DEF T
    <2> QED BY <1>1, <1>2, WFMin
  <1>5. PICK x \in S : m = n - x
    BY <1>4
  <1>6. ASSUME NEW y \in S PROVE x >= y
    <2>1. n - y \in T /\ n - y \in Nat /\ m \in Nat
      BY <1>1
    <2>2. ~(n - y < m)
      BY <1>3, <1>4, <2>1
    <2> QED BY <1>5, <2>2
  <1> QED BY <1>5, <1>6 DEF Save!Max

\* The last upload is that of a request that is done, and of the first that commits next.
LEMMA LastUploads ==
  ASSUME Save!TypeOK, LogDone, NEW op
  PROVE  /\ Save!LastUpload(op) = None \/ (Save!LastUpload(op) \in Requests /\ saving[Save!LastUpload(op)].phase = "done")
         /\ (UNCHANGED saved /\ \A i \in 1..Len(saved) : saving'[saved[i]].op = saving[saved[i]].op)
              => Save!LastUpload(op)' = Save!LastUpload(op)
         /\ \A r \in Requests : (saving[r].phase = "read" /\ Save!Done(r))
              => Save!LastUpload(op)' = IF saving[r].op = op THEN r ELSE Save!LastUpload(op)
  <1> DEFINE ups == {i \in 1..Len(saved) : saving[saved[i]].op = op}
  <1>1. /\ Len(saved) \in Nat /\ \A i \in 1..Len(saved) : saved[i] \in Requests
        /\ ups \subseteq 1..Len(saved) /\ ups \subseteq Nat
    BY DEF Save!TypeOK
  <1>2. Save!LastUpload(op) = IF ups = {} THEN None ELSE saved[Save!Max(ups)]
    BY DEF Save!LastUpload
  <1>3. ups # {} => Save!Max(ups) \in ups
    <2> HIDE DEF ups
    <2> QED BY <1>1, FiniteMax
  <1>4. Save!LastUpload(op) = None \/ (Save!LastUpload(op) \in Requests /\ saving[Save!LastUpload(op)].phase = "done")
    BY <1>1, <1>2, <1>3 DEF LogDone
  <1>5. ASSUME UNCHANGED saved, \A i \in 1..Len(saved) : saving'[saved[i]].op = saving[saved[i]].op
        PROVE  Save!LastUpload(op)' = Save!LastUpload(op)
    <2>1. {i \in 1..Len(saved') : saving'[saved'[i]].op = op} = ups
      BY <1>5
    <2> QED BY <1>2, <1>5, <2>1 DEF Save!LastUpload
  <1>6. ASSUME NEW r \in Requests, saving[r].phase = "read", Save!Done(r)
        PROVE  Save!LastUpload(op)' = IF saving[r].op = op THEN r ELSE Save!LastUpload(op)
    <2> DEFINE last == Len(saved) + 1
               all == {i \in 1..Len(saved') : saving'[saved'[i]].op = op}
    <2>1. /\ Len(saved') = last /\ saved'[last] = r /\ \A i \in 1..Len(saved) : saved'[i] = saved[i]
          /\ \A s \in Requests : saving'[s].op = saving[s].op
      BY <1>6 DEF Save!Done, Save!TypeOK
    <2>2. all = ups \cup (IF saving[r].op = op THEN {last} ELSE {})
      BY <1>1, <1>6, <2>1
    <2>3. Save!LastUpload(op)' = IF all = {} THEN None ELSE saved'[Save!Max(all)]
      BY DEF Save!LastUpload
    <2>4. CASE saving[r].op = op
      <3>1. last \in all /\ \A i \in all : i \in Nat /\ i <= last
        BY <1>1, <2>2, <2>4
      <3>2. Save!Max(all) = last
        <4> HIDE DEF all
        <4>1. last \in Nat
          BY <1>1
        <4> HIDE DEF last
        <4>2. \A x \in all : (\A y \in all : x >= y) => x = last
          BY <3>1, <4>1
        <4>3. \A y \in all : last >= y
          BY <3>1, <4>1
        <4> QED BY <3>1, <4>2, <4>3 DEF Save!Max
      <3> QED BY <2>1, <2>3, <2>4, <3>1, <3>2
    <2>5. CASE saving[r].op # op
      <3>1. all = ups
        BY <2>2, <2>5
      <3> QED BY <1>1, <1>2, <1>3, <2>1, <2>3, <2>5, <3>1
    <2> QED BY <2>4, <2>5
  <1> QED BY <1>4, <1>5, <1>6

LEMMA SettingsInit == Save!Init => SettingsInv
  BY NoneAssumption, SettingsAssumption DEF Save!Init, SettingsInv, Save!TypeOK, LogDone,
     SeenByOthers, Save!UploadsSurvive, Save!LastUpload, Save!Request,
     Save!Signature, Save!Value, Save!Profile, Save!Organization

\* A request that begins has no upload in any row.
LEMMA BeginKeeps ==
  ASSUME SettingsInv, NEW r \in Requests, NEW op \in Save!Operations, Save!Begin(r, op),
         op \in {"organization", "orgLogo"} => organization # None
  PROVE  SettingsInv'
  <1> USE DEF SettingsInv
  <1> DEFINE q == [op |-> op, phase |-> "read", profile |-> profile, organization |-> organization,
                   signature |-> signature, granted |-> granted]
  <1>1. /\ saving' = [saving EXCEPT ![r] = q] /\ saving[r].phase = "new"
        /\ UNCHANGED <<profile, organization, signature, granted, saved>>
        /\ q \in Save!Request
        /\ q.op = op /\ q.phase = "read" /\ q.profile = profile /\ q.organization = organization
        /\ q.signature = signature
    BY DEF Save!Begin, Save!TypeOK, Save!Request
  <1> HIDE DEF q
  <1>2. Save!TypeOK' /\ LogDone'
    BY <1>1 DEF Save!TypeOK, LogDone
  <1>3. \A i \in 1..Len(saved) : saved[i] \in Requests /\ saving'[saved[i]].op = saving[saved[i]].op
    BY <1>1 DEF Save!TypeOK, LogDone
  <1>4. \A o \in Save!Operations : Save!LastUpload(o)' = Save!LastUpload(o) /\ Save!LastUpload(o) # r
    BY <1>1, <1>3, NoneAssumption, SettingsAssumption, LastUploads
  <1>5. Save!UploadsSurvive'
    BY <1>1, <1>4 DEF Save!UploadsSurvive, Save!Operations
  <1>6. /\ profile # None => profile.logo_path # r /\ profile.stamp_path # r
        /\ organization # None => organization.logo_url # r
        /\ signature.path # r
    BY <1>4 DEF Save!UploadsSurvive, Save!Operations
  <1>7. SeenByOthers'
    BY <1>1, <1>6 DEF SeenByOthers, Save!TypeOK
  <1> QED BY <1>2, <1>5, <1>7

\* A request that commits.
LEMMA DoneKeeps ==
  ASSUME SettingsInv, NEW r \in Requests, saving[r].phase = "read", Save!Done(r),
         profile' \in Save!Profile \cup {None}, organization' \in Save!Organization \cup {None},
         signature' \in Save!Signature, granted' \subseteq Permissions,
         profile # None => profile' # None, organization # None => organization' # None,
         Save!UploadsSurvive'
  PROVE  SettingsInv'
  <1> USE DEF SettingsInv
  <1> DEFINE q == [saving[r] EXCEPT !.phase = "done"]
  <1>1. saving' = [saving EXCEPT ![r] = q] /\ q \in Save!Request /\ q.phase = "done"
        /\ saved' = Append(saved, r)
    BY DEF Save!Done, Save!TypeOK, Save!Request
  <1> HIDE DEF q
  <1>2. Save!TypeOK'
    BY <1>1 DEF Save!TypeOK
  <1>3. LogDone'
    BY <1>1 DEF LogDone, Save!TypeOK
  <1>4. SeenByOthers'
    BY <1>1 DEF SeenByOthers, Save!TypeOK
  <1> QED BY <1>2, <1>3, <1>4

LEMMA FailedKeeps ==
  ASSUME SettingsInv, NEW r \in Requests, saving[r].phase = "read", Save!Failed(r)
  PROVE  SettingsInv'
  <1> USE DEF SettingsInv
  <1> DEFINE q == [saving[r] EXCEPT !.phase = "failed"]
  <1>1. /\ saving' = [saving EXCEPT ![r] = q] /\ q \in Save!Request /\ q.phase = "failed"
        /\ q.op = saving[r].op
        /\ UNCHANGED <<profile, organization, signature, granted, saved>>
    BY DEF Save!Failed, Save!TypeOK, Save!Request
  <1> HIDE DEF q
  <1>2. Save!TypeOK' /\ SeenByOthers' /\ LogDone'
    BY <1>1 DEF Save!TypeOK, SeenByOthers, LogDone
  <1>3. \A i \in 1..Len(saved) : saved[i] \in Requests /\ saving'[saved[i]].op = saving[saved[i]].op
    BY <1>1 DEF Save!TypeOK
  <1>4. \A o \in Save!Operations : Save!LastUpload(o)' = Save!LastUpload(o)
    BY <1>1, <1>3, LastUploads
  <1>5. Save!UploadsSurvive'
    BY <1>1, <1>4 DEF Save!UploadsSurvive, Save!Operations
  <1> QED BY <1>2, <1>5

\* The profile and the signature are written by the columns that changed: a file is
\* replaced by its upload only.
LEMMA WriteProfileKeeps ==
  ASSUME SettingsInv, NEW r \in Requests, saving[r].phase = "read", saving[r].op # "orgLogo",
         NEW new \in Save!Profile, NEW signed \in Save!Signature,
         new.logo_path = IF saving[r].op = "logo" THEN r ELSE Save!Read(r).logo_path,
         new.stamp_path = IF saving[r].op = "stamp" THEN r ELSE Save!Read(r).stamp_path,
         signed.path = IF saving[r].op = "signature" THEN r ELSE saving[r].signature.path,
         Save!WriteProfile(r, new, signed)
  PROVE  SettingsInv'
  <1> USE DEF SettingsInv
  <1>1. CASE saving[r].profile = None /\ profile # None
    BY <1>1, FailedKeeps DEF Save!WriteProfile
  <1>2. CASE ~(saving[r].profile = None /\ profile # None)
    <2> DEFINE changed == Save!Changed(profile, saving[r].profile, new)
               resigned == Save!Changed(signature, saving[r].signature, signed)
    <2>1. /\ profile' = IF saving[r].profile = None THEN new ELSE changed
          /\ signature' = resigned
          /\ Save!Done(r) /\ UNCHANGED <<organization, granted>>
      BY <1>2 DEF Save!WriteProfile
    <2>2. /\ saving[r] \in Save!Request /\ profile \in Save!Profile \cup {None}
          /\ signature \in Save!Signature
          /\ saving[r].signature \in Save!Signature /\ saving[r].profile \in Save!Profile \cup {None}
      BY DEF Save!TypeOK, Save!Request
    <2>3. /\ saving[r].profile # None => /\ profile # None /\ saving[r].profile.logo_path # r
                                         /\ saving[r].profile.stamp_path # r
          /\ saving[r].signature.path # r
      BY DEF SeenByOthers
    <2>4. saving[r].profile # None =>
            /\ changed \in Save!Profile
            /\ changed.logo_path = IF saving[r].op = "logo" THEN r ELSE profile.logo_path
            /\ changed.stamp_path = IF saving[r].op = "stamp" THEN r ELSE profile.stamp_path
      BY <2>2, <2>3 DEF Save!Changed, Save!Profile, Save!Read
    <2>5. resigned \in Save!Signature /\ resigned.path = IF saving[r].op = "signature" THEN r ELSE signature.path
      BY <2>2, <2>3 DEF Save!Changed, Save!Signature
    <2> HIDE DEF changed, resigned
    <2>6. \A o \in Save!Operations : Save!LastUpload(o)' = IF saving[r].op = o THEN r ELSE Save!LastUpload(o)
      BY <2>1, LastUploads
    <2>7. Save!UploadsSurvive'
      <3>1. saving[r].profile = None => profile = None
        BY <1>2
      <3>2. saving[r].profile = None =>
              /\ new.logo_path = IF saving[r].op = "logo" THEN r ELSE None
              /\ new.stamp_path = IF saving[r].op = "stamp" THEN r ELSE None
        BY DEF Save!NewProfile, Save!Read
      <3>3. profile' # None
        BY <2>1, <2>4, NoneAssumption, SettingsAssumption
      <3>4. profile'.logo_path = Save!LastUpload("logo")'
        BY <2>1, <2>3, <2>4, <2>6, <3>1, <3>2 DEF Save!UploadsSurvive, Save!Operations
      <3>5. profile'.stamp_path = Save!LastUpload("stamp")'
        BY <2>1, <2>3, <2>4, <2>6, <3>1, <3>2 DEF Save!UploadsSurvive, Save!Operations
      <3>6. signature'.path = Save!LastUpload("signature")'
        BY <2>1, <2>5, <2>6 DEF Save!UploadsSurvive, Save!Operations
      <3>7. (IF organization' = None THEN None ELSE organization'.logo_url) = Save!LastUpload("orgLogo")'
        BY <2>1, <2>6 DEF Save!UploadsSurvive, Save!Operations
      <3> QED BY <3>3, <3>4, <3>5, <3>6, <3>7 DEF Save!UploadsSurvive
    <2> QED BY <2>1, <2>2, <2>4, <2>5, <2>7, NoneAssumption, SettingsAssumption, DoneKeeps
            DEF Save!TypeOK
  <1> QED BY <1>1, <1>2

LEMMA UploadsKeep ==
  ASSUME SettingsInv, NEW r \in Requests,
         \/ \E c \in {r, None}, t \in {r, None, saving[r].signature.text} : Save!UpdateProfile(r, c, t)
         \/ \E extracted \in BOOLEAN : Save!UploadLogo(r, extracted)
         \/ Save!UploadStamp(r)
         \/ Save!UploadSignature(r)
  PROVE  SettingsInv'
  <1>1. /\ Save!Read(r) \in Save!Profile /\ saving[r].signature \in Save!Signature
        /\ r \in Save!Value /\ None \in Save!Value
        /\ saving[r].signature.text \in Save!Value
    BY DEF SettingsInv, Save!TypeOK, Save!Request, Save!Read, Save!NewProfile, Save!Profile,
       Save!Value, Save!Signature
  <1> DEFINE old == Save!Read(r)
             sig == saving[r].signature
  <1>2. ASSUME NEW c \in {r, None}, NEW t \in {r, None, saving[r].signature.text},
               Save!UpdateProfile(r, c, t)
        PROVE  SettingsInv'
    <2> DEFINE new == [old EXCEPT !.identity = r, !.primary_color = c]
               signed == [sig EXCEPT !.text = t]
    <2>1. /\ new \in Save!Profile /\ new.logo_path = old.logo_path /\ new.stamp_path = old.stamp_path
          /\ signed \in Save!Signature /\ signed.path = sig.path
      BY <1>1, <1>2 DEF Save!Profile, Save!Signature
    <2>2. saving[r].op = "profile" /\ saving[r].phase = "read" /\ Save!WriteProfile(r, new, signed)
      BY <1>2 DEF Save!UpdateProfile, Save!Ending
    <2> HIDE DEF new, signed
    <2> QED BY <2>1, <2>2, WriteProfileKeeps
  <1>3. ASSUME NEW extracted \in BOOLEAN, Save!UploadLogo(r, extracted) PROVE SettingsInv'
    <2> DEFINE colour == IF extracted /\ old.primary_color = None THEN r ELSE old.primary_color
               new == [old EXCEPT !.logo_path = r, !.primary_color = colour]
    <2>1. new \in Save!Profile /\ new.logo_path = r /\ new.stamp_path = old.stamp_path
      BY <1>1 DEF Save!Profile
    <2>2. saving[r].op = "logo" /\ saving[r].phase = "read" /\ Save!WriteProfile(r, new, sig)
      BY <1>3 DEF Save!UploadLogo, Save!Ending
    <2> HIDE DEF new
    <2> QED BY <1>1, <2>1, <2>2, WriteProfileKeeps
  <1>4. CASE Save!UploadStamp(r)
    <2> DEFINE new == [old EXCEPT !.stamp_path = r]
    <2>1. new \in Save!Profile /\ new.stamp_path = r /\ new.logo_path = old.logo_path
      BY <1>1 DEF Save!Profile
    <2>2. saving[r].op = "stamp" /\ saving[r].phase = "read" /\ Save!WriteProfile(r, new, sig)
      BY <1>4 DEF Save!UploadStamp, Save!Ending
    <2> HIDE DEF new
    <2> QED BY <1>1, <2>1, <2>2, WriteProfileKeeps
  <1>5. CASE Save!UploadSignature(r)
    <2> DEFINE signed == [sig EXCEPT !.path = r]
    <2>1. signed \in Save!Signature /\ signed.path = r
      BY <1>1 DEF Save!Signature
    <2>2. saving[r].op = "signature" /\ saving[r].phase = "read" /\ Save!WriteProfile(r, old, signed)
      BY <1>5 DEF Save!UploadSignature, Save!Ending
    <2> HIDE DEF signed
    <2> QED BY <1>1, <2>1, <2>2, WriteProfileKeeps
  <1> QED BY <1>2, <1>3, <1>4, <1>5

\* The steps that leave the profile's files alone.
LEMMA TextAndGrantsKeep ==
  ASSUME SettingsInv, NEW r \in Requests,
         \/ \E t \in {r, None} : Save!UpdateSignatureText(r, t)
         \/ \E p \in Permissions : Save!Grant(r, p) \/ Save!Revoke(r, p)
  PROVE  SettingsInv'
  <1> USE DEF SettingsInv
  <1>1. ASSUME Save!Done(r), saving[r].phase = "read", saving[r].op \in {"text", "grant", "revoke"},
               UNCHANGED <<profile, organization>>, signature' \in Save!Signature,
               signature'.path = signature.path, granted' \subseteq Permissions
        PROVE  SettingsInv'
    <2>1. \A o \in {"logo", "stamp", "signature", "orgLogo"} : Save!LastUpload(o)' = Save!LastUpload(o)
      BY <1>1, LastUploads
    <2>2. Save!UploadsSurvive'
      BY <1>1, <2>1 DEF Save!UploadsSurvive
    <2> QED BY <1>1, <2>2, DoneKeeps DEF Save!TypeOK
  <1>2. ASSUME NEW t \in {r, None}, Save!UpdateSignatureText(r, t) PROVE SettingsInv'
    <2>1. /\ signature' \in Save!Signature
          /\ signature'.path = signature.path
      BY <1>2 DEF Save!UpdateSignatureText, Save!Changed, Save!TypeOK, Save!Request,
         Save!Signature, Save!Value
    <2> QED BY <1>1, <1>2, <2>1 DEF Save!UpdateSignatureText, Save!Ending, Save!TypeOK
  <1>3. ASSUME NEW p \in Permissions, Save!Grant(r, p) \/ Save!Revoke(r, p) PROVE SettingsInv'
    <2>1. CASE Save!Grant(r, p)
      <3>1. CASE p \in granted \ saving[r].granted
        BY <2>1, <3>1, FailedKeeps DEF Save!Grant, Save!Ending
      <3>2. CASE p \notin granted \ saving[r].granted
        BY <1>1, <2>1, <3>2 DEF Save!Grant, Save!Ending, Save!TypeOK
      <3> QED BY <3>1, <3>2
    <2>2. CASE Save!Revoke(r, p)
      BY <1>1, <2>2 DEF Save!Revoke, Save!Ending, Save!TypeOK
    <2> QED BY <1>3, <2>1, <2>2
  <1> QED BY <1>2, <1>3

\* The steps that write the organization.
LEMMA OrganizationKeeps ==
  ASSUME SettingsInv, NEW r \in Requests,
         Save!AttachOrganization(r) \/ Save!UpdateOrganization(r) \/ Save!UploadOrganizationLogo(r)
  PROVE  SettingsInv'
  <1> USE DEF SettingsInv
  <1>1. ASSUME Save!Done(r), saving[r].phase = "read", saving[r].op \in {"attach", "organization", "orgLogo"},
               UNCHANGED <<profile, signature, granted>>, organization' \in Save!Organization,
               organization'.logo_url =
                 IF saving[r].op = "orgLogo" THEN r
                 ELSE IF organization = None THEN None ELSE organization.logo_url
        PROVE  SettingsInv'
    <2>1. \A o \in {"logo", "stamp", "signature", "orgLogo"} :
            Save!LastUpload(o)' = IF saving[r].op = o THEN r ELSE Save!LastUpload(o)
      BY <1>1, LastUploads
    <2>2. organization' # None
      BY <1>1, NoneAssumption, SettingsAssumption
    <2>3. Save!UploadsSurvive'
      BY <1>1, <2>1, <2>2 DEF Save!UploadsSurvive
    <2> QED BY <1>1, <2>2, <2>3, DoneKeeps DEF Save!TypeOK
  <1>2. CASE Save!AttachOrganization(r)
    <2>1. CASE saving[r].organization = None /\ organization # None
      BY <1>2, <2>1, FailedKeeps DEF Save!AttachOrganization, Save!Ending
    <2>2. CASE ~(saving[r].organization = None /\ organization # None)
      <3>1. organization' = IF saving[r].organization = None THEN Save!NewOrganization ELSE organization
        BY <1>2, <2>2 DEF Save!AttachOrganization
      <3>2. Save!NewOrganization \in Save!Organization /\ Save!NewOrganization.logo_url = None
        BY DEF Save!NewOrganization, Save!Organization, Save!Value
      <3>3. saving[r].phase = "read" /\ saving[r].op = "attach" /\ Save!Done(r)
            /\ UNCHANGED <<profile, signature, granted>>
        BY <1>2, <2>2 DEF Save!AttachOrganization, Save!Ending
      <3>4. saving[r].organization # None => organization \in Save!Organization /\ organization # None
        BY <3>3 DEF SeenByOthers, Save!TypeOK
      <3> QED BY <1>1, <2>2, <3>1, <3>2, <3>3, <3>4
    <2> QED BY <2>1, <2>2
  <1>3. ASSUME NEW op \in {"organization", "orgLogo"}, NEW new \in Save!Organization,
               new.logo_url = IF op = "orgLogo" THEN r ELSE saving[r].organization.logo_url,
               Save!WriteOrganization(r, op, new)
        PROVE  SettingsInv'
    <2>1. /\ saving[r].phase = "read" /\ saving[r].op = op /\ Save!Done(r)
          /\ UNCHANGED <<profile, signature, granted>>
          /\ organization' = Save!Changed(organization, saving[r].organization, new)
      BY <1>3 DEF Save!WriteOrganization, Save!Ending
    <2>2. /\ saving[r].organization \in Save!Organization /\ saving[r].organization.logo_url # r
          /\ organization \in Save!Organization /\ organization # None
      BY <2>1 DEF SeenByOthers, Save!TypeOK, Save!Request
    <2>3. /\ organization' \in Save!Organization
          /\ organization'.logo_url = IF op = "orgLogo" THEN r ELSE organization.logo_url
      BY <1>3, <2>1, <2>2 DEF Save!Changed, Save!Organization
    <2> QED BY <1>1, <2>1, <2>2, <2>3
  <1>4. \A op \in {"organization", "orgLogo"} : Save!Ending(r, op) => saving[r].organization \in Save!Organization
    BY DEF Save!Ending, SeenByOthers, Save!TypeOK, Save!Request
  <1>5. CASE Save!UpdateOrganization(r)
    <2> DEFINE new == [saving[r].organization EXCEPT !.identity = r]
    <2>1. Save!WriteOrganization(r, "organization", new) /\ saving[r].organization \in Save!Organization
      BY <1>4, <1>5 DEF Save!UpdateOrganization, Save!WriteOrganization
    <2>2. new \in Save!Organization /\ new.logo_url = saving[r].organization.logo_url
      BY <2>1 DEF Save!Organization, Save!Value
    <2> HIDE DEF new
    <2> QED BY <1>3, <2>1, <2>2
  <1>6. CASE Save!UploadOrganizationLogo(r)
    <2> DEFINE new == [saving[r].organization EXCEPT !.logo_url = r]
    <2>1. Save!WriteOrganization(r, "orgLogo", new) /\ saving[r].organization \in Save!Organization
      BY <1>4, <1>6 DEF Save!UploadOrganizationLogo, Save!WriteOrganization
    <2>2. new \in Save!Organization /\ new.logo_url = r
      BY <2>1 DEF Save!Organization, Save!Value
    <2> HIDE DEF new
    <2> QED BY <1>3, <2>1, <2>2
  <1> QED BY <1>2, <1>5, <1>6

LEMMA SettingsStutterKeeps == ASSUME SettingsInv, UNCHANGED Save!vars PROVE SettingsInv'
  <1>1. \A o \in Save!Operations : Save!LastUpload(o)' = Save!LastUpload(o)
    BY DEF Save!vars, Save!LastUpload
  <1>2. Save!UploadsSurvive'
    BY <1>1 DEF SettingsInv, Save!UploadsSurvive, Save!Operations, Save!vars
  <1> QED BY <1>2 DEF SettingsInv, Save!vars, Save!TypeOK, LogDone, SeenByOthers

\* The files of the settings pages are those uploaded last.
THEOREM FilesSurvive == Save!Spec => []UploadsSurvive
  <1>1. SettingsInv /\ [Save!Next]_Save!vars => SettingsInv'
    <2> SUFFICES ASSUME SettingsInv, [Save!Next]_Save!vars PROVE SettingsInv'
      OBVIOUS
    <2>1. ASSUME NEW r \in Requests, NEW op \in Save!Operations \ {"organization", "orgLogo"},
                 Save!Begin(r, op)
          PROVE  SettingsInv'
      BY <2>1, BeginKeeps
    <2>2. ASSUME NEW r \in Requests, NEW op \in {"organization", "orgLogo"},
                 Save!BeginOrganization(r, op)
          PROVE  SettingsInv'
      BY <2>2, BeginKeeps DEF Save!BeginOrganization, Save!Operations
    <2> QED BY <2>1, <2>2, UploadsKeep, TextAndGrantsKeep, OrganizationKeeps,
               SettingsStutterKeeps DEF Save!Next
  <1>2. SettingsInv => UploadsSurvive
    BY DEF SettingsInv, UploadsSurvive
  <1> QED BY SettingsInit, <1>1, <1>2, PTL DEF Save!Spec

-----------------------------------------------------------------------------
\* The rate limiter.

\* Nothing was let through in a tick to come.
NothingAhead == \A s \in Limit!Stores, u \in Limit!Ticks : u > now => admitted[s][u] = 0

\* A store keeps what it let through for as long as the window has it.
WindowKept == \A s \in Limit!Stores, u \in Limit!Window(now) : admitted[s][u] <= store[s][u]

RateLimiterInv == Limit!TypeOK /\ NothingAhead /\ WindowKept /\ Limit!BudgetPerStore

LEMMA FiniteTicks ==
  IsFiniteSet(Limit!Ticks) /\ \A t \in Limit!Ticks : Limit!Window(t) \in SUBSET Limit!Ticks /\ IsFiniteSet(Limit!Window(t))
  <1>1. IsFiniteSet(0..Horizon)
    BY LimiterAssumption, FS_Interval
  <1>2. \A t \in Limit!Ticks : Limit!Window(t) \in SUBSET Limit!Ticks
    BY DEF Limit!Window
  <1> QED BY <1>1, <1>2, FS_Subset DEF Limit!Ticks

\* A request is added to a store.
LEMMA CountedBy ==
  ASSUME Limit!TypeOK, NEW f \in Limit!Counts
  PROVE  /\ Limit!Counted(f) \in Limit!Counts /\ Limit!Pruned(f) \in Limit!Counts
         /\ \A u \in Limit!Window(now) : /\ Limit!Pruned(f)[u] = f[u]
                                         /\ Limit!Counted(f)[u] = IF u = now THEN f[u] + 1 ELSE f[u]
         /\ SumFunctionOnSet(Limit!Pruned(f), Limit!Ticks) \in Nat
         /\ SumFunctionOnSet(Limit!Counted(f), Limit!Ticks) = SumFunctionOnSet(Limit!Pruned(f), Limit!Ticks) + 1
  <1>1. /\ now \in Limit!Ticks /\ Limit!Ticks \subseteq Nat /\ now + Period > now
        /\ Limit!Pruned(f) \in Limit!Counts
        /\ \A u \in Limit!Window(now) : u \in Limit!Ticks /\ Limit!Pruned(f)[u] = f[u]
    BY LimiterAssumption DEF Limit!TypeOK, Limit!Counts, Limit!Pruned, Limit!Window, Limit!Ticks
  <1>2. /\ Limit!Counted(f) \in Limit!Counts
        /\ \A u \in Limit!Ticks : Limit!Counted(f)[u] = IF u = now THEN Limit!Pruned(f)[u] + 1 ELSE Limit!Pruned(f)[u]
    BY <1>1 DEF Limit!Counted, Limit!Counts
  <1> DEFINE kept == Limit!Pruned(f)
             more == Limit!Counted(f)
  <1>3. /\ now \in Limit!Ticks
        /\ \A u \in Limit!Ticks : kept[u] \in Nat
        /\ more[now] \in Nat /\ more[now] = kept[now] + 1
        /\ \A u \in Limit!Ticks \ {now} : more[u] = kept[u]
    BY <1>1, <1>2 DEF Limit!Counts
  <1>4. SumFunctionOnSet(kept, Limit!Ticks) \in Nat
    BY <1>3, FiniteTicks, SumType
  <1>5. SumFunctionOnSet(more, Limit!Ticks) = SumFunctionOnSet(kept, Limit!Ticks) - kept[now] + more[now]
    <2> HIDE DEF kept, more
    <2> QED BY <1>3, FiniteTicks, SumUpdate
  <1>6. SumFunctionOnSet(more, Limit!Ticks) = SumFunctionOnSet(kept, Limit!Ticks) + 1
    <2> HIDE DEF kept, more
    <2> QED BY <1>3, <1>4, <1>5
  <1>7. \A u \in Limit!Window(now) : /\ kept[u] = f[u]
                                     /\ more[u] = IF u = now THEN f[u] + 1 ELSE f[u]
    BY <1>1, <1>2
  <1> QED BY <1>1, <1>2, <1>4, <1>6, <1>7

\* A request was let through by store s, which counts it, or by none.
LEMMA Checked ==
  ASSUME RateLimiterInv, asked' \in Limit!Counts, now' = now, store' \in [Limit!Stores -> Limit!Counts],
         \A z \in Limit!Stores, u \in Limit!Window(now) : store[z][u] <= store'[z][u],
         \/ UNCHANGED admitted
         \/ \E s \in Limit!Stores :
              /\ admitted' = [admitted EXCEPT ![s] = [admitted[s] EXCEPT ![now] = admitted[s][now] + 1]]
              /\ store[s][now] + 1 <= store'[s][now]
              /\ SumFunctionOnSet(store'[s], Limit!Ticks) <= Calls
  PROVE  RateLimiterInv'
  <1> USE DEF RateLimiterInv
  <1>1. /\ now \in Limit!Ticks /\ now \in Limit!Window(now) /\ Limit!Ticks \subseteq Nat
        /\ Limit!Ticks' = Limit!Ticks
        /\ \A t \in Limit!Ticks : Limit!Window(t)' = Limit!Window(t)
    BY LimiterAssumption DEF Limit!TypeOK, Limit!Ticks, Limit!Window
  <1>2. CASE UNCHANGED admitted
    <2>1. Limit!TypeOK' /\ NothingAhead' /\ Limit!BudgetPerStore'
      BY <1>1, <1>2 DEF Limit!TypeOK, NothingAhead, Limit!BudgetPerStore, Limit!Stores
    <2>2. WindowKept'
      BY <1>1, <1>2 DEF WindowKept, Limit!TypeOK, Limit!Counts, Limit!Window
    <2> QED BY <2>1, <2>2
  <1>3. ASSUME NEW s \in Limit!Stores,
               admitted' = [admitted EXCEPT ![s] = [admitted[s] EXCEPT ![now] = admitted[s][now] + 1]],
               store[s][now] + 1 <= store'[s][now],
               SumFunctionOnSet(store'[s], Limit!Ticks) <= Calls
        PROVE  RateLimiterInv'
    <2>1. /\ admitted' \in [Limit!Stores -> Limit!Counts]
          /\ \A z \in Limit!Stores, u \in Limit!Ticks :
               admitted'[z][u] = IF z = s /\ u = now THEN admitted[z][u] + 1 ELSE admitted[z][u]
      BY <1>1, <1>3 DEF Limit!TypeOK, Limit!Counts
    <2>2. Limit!TypeOK' /\ NothingAhead'
      BY <1>1, <2>1 DEF Limit!TypeOK, NothingAhead
    <2>3. WindowKept'
      BY <1>1, <1>3, <2>1 DEF WindowKept, Limit!TypeOK, Limit!Counts, Limit!Window
    <2>4. Limit!BudgetPerStore'
      <3>1. SUFFICES ASSUME NEW z \in Limit!Stores, NEW t \in Limit!Ticks
                     PROVE  SumFunctionOnSet(admitted'[z], Limit!Window(t)) <= Calls
        BY <1>1, SameSums DEF Limit!BudgetPerStore, Limit!Stores
      <3> DEFINE f == admitted[z]
                 g == admitted'[z]
                 h == store'[z]
                 W == Limit!Window(t)
      <3>2. /\ \A u \in W : u \in Limit!Ticks
            /\ IsFiniteSet(W) /\ W \in SUBSET Limit!Ticks
            /\ \A u \in Limit!Ticks : f[u] \in Nat /\ g[u] \in Nat /\ h[u] \in Nat
            /\ SumFunctionOnSet(f, W) <= Calls
        BY <2>1, FiniteTicks, SameSums DEF Limit!TypeOK, Limit!Counts, Limit!BudgetPerStore
      <3>3. CASE z # s \/ now \notin W
        <4>1. \A u \in W : f[u] \in Nat /\ g[u] = f[u]
          BY <2>1, <3>2, <3>3
        <4>2. SumFunctionOnSet(g, W) = SumFunctionOnSet(f, W)
          <5> HIDE DEF f, g, W
          <5> QED BY <3>2, <4>1, SumSame
        <4> QED BY <3>2, <4>2
      <3>4. CASE z = s /\ now \in W
        <4> DEFINE V == {u \in W : u <= now}
        <4>1. \A u \in V : u \in Limit!Window(now) /\ u \in Limit!Ticks
          <5>1. now <= t
            BY <3>4 DEF Limit!Window
          <5> QED BY <1>1, <3>2, <5>1, LimiterAssumption DEF Limit!Window
        <4>2. \A u \in V : g[u] <= h[u]
          BY <1>1, <2>3, <3>4, <4>1 DEF WindowKept
        <4>3. \A u \in W : u \notin V => g[u] = 0
          BY <1>1, <2>2, <3>2 DEF NothingAhead
        <4>4. \A u \in W : g[u] \in Nat /\ g[u] <= h[u]
          BY <3>2, <4>2, <4>3
        <4>5. SumFunctionOnSet(g, W) <= SumFunctionOnSet(h, Limit!Ticks)
          <5> HIDE DEF g, h, W, V
          <5> QED BY <3>2, <4>4, FiniteTicks, SumWithin
        <4>6. SumFunctionOnSet(h, Limit!Ticks) <= Calls
          BY <1>3, <3>4
        <4>7. SumFunctionOnSet(g, W) \in Nat /\ SumFunctionOnSet(h, Limit!Ticks) \in Nat
          <5> HIDE DEF g, h, W, V
          <5> QED BY <3>2, FiniteTicks, SumType
        <4> QED BY <4>5, <4>6, <4>7, LimiterAssumption
      <3> QED BY <3>3, <3>4
    <2> QED BY <2>2, <2>3, <2>4
  <1> QED BY <1>2, <1>3

LEMMA CheckRedisKeeps == ASSUME RateLimiterInv, Limit!CheckRedis PROVE RateLimiterInv'
  <1> DEFINE f == Limit!Counted(store[Limit!Redis])
  <1>1. /\ Limit!Redis \in Limit!Stores /\ store[Limit!Redis] \in Limit!Counts
        /\ now \in Limit!Ticks /\ Limit!TypeOK
        /\ now \in Limit!Window(now) /\ store \in [Limit!Stores -> Limit!Counts]
    BY LimiterAssumption DEF RateLimiterInv, Limit!TypeOK, Limit!Stores, Limit!Ticks, Limit!Window
  <1>2. f \in Limit!Counts /\ \A u \in Limit!Window(now) : f[u] = IF u = now THEN store[Limit!Redis][u] + 1 ELSE store[Limit!Redis][u]
    BY <1>1, CountedBy
  <1>3. /\ store' = [store EXCEPT ![Limit!Redis] = f]
        /\ store'[Limit!Redis] = f /\ now' = now
        /\ \/ UNCHANGED admitted
           \/ /\ ~(SumFunctionOnSet(f, Limit!Ticks) > Calls)
              /\ admitted' = [admitted EXCEPT ![Limit!Redis][now] = @ + 1]
    BY <1>1, SameSums DEF Limit!CheckRedis
  <1>4. SumFunctionOnSet(f, Limit!Ticks) \in Nat
    <2>1. /\ SumFunctionOnSet(f, Limit!Ticks) = SumFunctionOnSet(Limit!Pruned(store[Limit!Redis]), Limit!Ticks) + 1
          /\ SumFunctionOnSet(Limit!Pruned(store[Limit!Redis]), Limit!Ticks) \in Nat
      BY <1>1, CountedBy
    <2> QED BY <2>1
  <1> HIDE DEF f
  <1>5. asked' \in Limit!Counts
    BY <1>1 DEF RateLimiterInv, Limit!TypeOK, Limit!CheckRedis, Limit!Ask, Limit!Counts
  <1>6. \A z \in Limit!Stores, u \in Limit!Window(now) : store[z][u] <= store'[z][u]
    BY <1>1, <1>2, <1>3 DEF Limit!Counts, Limit!Window
  <1>7. store' \in [Limit!Stores -> Limit!Counts]
        /\ store[Limit!Redis][now] + 1 <= store'[Limit!Redis][now]
    BY <1>1, <1>2, <1>3 DEF Limit!Counts
  <1>8. \/ UNCHANGED admitted
        \/ /\ admitted' = [admitted EXCEPT ![Limit!Redis] = [admitted[Limit!Redis] EXCEPT ![now] = admitted[Limit!Redis][now] + 1]]
           /\ SumFunctionOnSet(store'[Limit!Redis], Limit!Ticks) <= Calls
    BY <1>3, <1>4, LimiterAssumption
  <1> QED BY <1>1, <1>3, <1>5, <1>6, <1>7, <1>8, Checked

LEMMA MemCheckKeeps ==
  ASSUME RateLimiterInv, NEW p \in Processes, Limit!MemCheck(p)
  PROVE  RateLimiterInv'
  <1>1. /\ Limit!Redis \in Limit!Stores /\ p \in Limit!Stores /\ p # Limit!Redis
        /\ now \in Limit!Ticks /\ Limit!TypeOK
        /\ store[Limit!Redis] \in Limit!Counts /\ store[p] \in Limit!Counts
        /\ now \in Limit!Window(now) /\ store \in [Limit!Stores -> Limit!Counts]
    BY LimiterAssumption DEF RateLimiterInv, Limit!TypeOK, Limit!Stores, Limit!Ticks, Limit!Window
  <1> DEFINE full == SumFunctionOnSet(Limit!Pruned(store[p]), Limit!Ticks) >= Calls
             kept == Limit!Pruned(store[p])
             more == Limit!Counted(store[p])
  <1>2. PICK r \in {store[Limit!Redis], Limit!Counted(store[Limit!Redis])} :
          IF full THEN /\ store' = [store EXCEPT ![Limit!Redis] = r, ![p] = kept]
                       /\ UNCHANGED admitted
                  ELSE /\ store' = [store EXCEPT ![Limit!Redis] = r, ![p] = more]
                       /\ admitted' = [admitted EXCEPT ![p][now] = @ + 1]
    BY <1>1, SameSums DEF Limit!MemCheck
  <1>3. r \in Limit!Counts /\ \A u \in Limit!Window(now) : store[Limit!Redis][u] <= r[u]
    BY <1>1, CountedBy DEF Limit!Counts, Limit!Window
  <1>4. /\ kept \in Limit!Counts /\ more \in Limit!Counts
        /\ \A u \in Limit!Window(now) : /\ kept[u] = store[p][u]
                                        /\ more[u] = IF u = now THEN store[p][u] + 1 ELSE store[p][u]
        /\ SumFunctionOnSet(kept, Limit!Ticks) \in Nat
        /\ SumFunctionOnSet(more, Limit!Ticks) = SumFunctionOnSet(kept, Limit!Ticks) + 1
    BY <1>1, CountedBy
  <1>5. asked' \in Limit!Counts /\ now' = now
    BY <1>1 DEF RateLimiterInv, Limit!TypeOK, Limit!MemCheck, Limit!Ask, Limit!Counts
  <1>6. ~full => SumFunctionOnSet(more, Limit!Ticks) <= Calls
    BY <1>4, LimiterAssumption
  <1> HIDE DEF full, kept, more
  <1>7. CASE full
    <2>1. \A z \in Limit!Stores, u \in Limit!Window(now) : store[z][u] <= store'[z][u]
      BY <1>1, <1>2, <1>3, <1>4, <1>7 DEF Limit!Counts, Limit!Window
    <2>2. store' \in [Limit!Stores -> Limit!Counts]
      BY <1>1, <1>2, <1>3, <1>4, <1>7
    <2> QED BY <1>2, <1>5, <1>7, <2>1, <2>2, Checked
  <1>8. CASE ~full
    <2>1. \A z \in Limit!Stores, u \in Limit!Window(now) : store[z][u] <= store'[z][u]
      BY <1>1, <1>2, <1>3, <1>4, <1>8 DEF Limit!Counts, Limit!Window
    <2>2. store' \in [Limit!Stores -> Limit!Counts] /\ store'[p] = more
      BY <1>1, <1>2, <1>3, <1>4, <1>8
    <2>3. store[p][now] + 1 <= store'[p][now] /\ SumFunctionOnSet(store'[p], Limit!Ticks) <= Calls
      BY <1>1, <1>4, <1>6, <1>8, <2>2 DEF Limit!Counts
    <2>4. admitted' = [admitted EXCEPT ![p] = [admitted[p] EXCEPT ![now] = admitted[p][now] + 1]]
      BY <1>2, <1>8
    <2> QED BY <1>1, <1>5, <2>1, <2>2, <2>3, <2>4, Checked
  <1> QED BY <1>7, <1>8

LEMMA OthersKeep ==
  ASSUME RateLimiterInv, Limit!Tick \/ Limit!RedisExpires \/ (\E p \in Processes : Limit!Restart(p)) \/ UNCHANGED Limit!vars
  PROVE  RateLimiterInv'
  <1> USE DEF RateLimiterInv
  <1>1. CASE Limit!Tick
    <2>1. now \in Limit!Ticks /\ now' = now + 1 /\ now' \in Limit!Ticks
          /\ UNCHANGED <<store, asked, admitted>>
      BY <1>1, LimiterAssumption DEF Limit!Tick, Limit!TypeOK, Limit!Ticks
    <2>2. Limit!TypeOK' /\ NothingAhead' /\ Limit!BudgetPerStore'
      <3>1. Limit!TypeOK' /\ NothingAhead'
        BY <2>1 DEF Limit!TypeOK, NothingAhead, Limit!Ticks
      <3>2. Limit!BudgetPerStore'
        BY <2>1 DEF Limit!BudgetPerStore, Limit!Window
      <3> QED BY <3>1, <3>2
    <2>3. WindowKept'
      <3>1. SUFFICES ASSUME NEW s \in Limit!Stores, NEW u \in Limit!Window(now + 1)
                     PROVE  admitted[s][u] <= store[s][u]
        BY <2>1 DEF WindowKept, Limit!Window
      <3>2. u \in Limit!Ticks /\ (u \in Limit!Window(now) \/ u > now) /\ store[s][u] \in Nat
        BY <2>1, LimiterAssumption DEF Limit!Window, Limit!Ticks, Limit!TypeOK, Limit!Counts
      <3> QED BY <3>2 DEF WindowKept, NothingAhead
    <2> QED BY <2>2, <2>3
  <1>2. ASSUME NEW s \in Limit!Stores, store' = [store EXCEPT ![s] = Limit!Nothing],
               UNCHANGED <<now, asked>>,
               \/ admitted' = [admitted EXCEPT ![s] = Limit!Nothing]
               \/ UNCHANGED admitted /\ \A t \in Limit!Window(now) : store[s][t] = 0
        PROVE  RateLimiterInv'
    <2>1. Limit!Nothing \in Limit!Counts /\ \A u \in Limit!Ticks : Limit!Nothing[u] = 0
      BY DEF Limit!Nothing, Limit!Counts
    <2>2. Limit!TypeOK' /\ NothingAhead'
      BY <1>2, <2>1 DEF Limit!TypeOK, NothingAhead
    <2>3. WindowKept'
      BY <1>2, <2>1 DEF WindowKept, Limit!Window, Limit!TypeOK, Limit!Counts
    <2>4. Limit!BudgetPerStore'
      <3>1. SUFFICES ASSUME NEW z \in Limit!Stores, NEW t \in Limit!Ticks
                     PROVE  SumFunctionOnSet(admitted'[z], Limit!Window(t)) <= Calls
        BY SameSums DEF Limit!BudgetPerStore, Limit!Stores, Limit!Window
      <3>2. SumFunctionOnSet(Limit!Nothing, Limit!Window(t)) = 0
        <4>1. \A u \in Limit!Window(t) : Limit!Nothing[u] = 0
          BY <2>1 DEF Limit!Window
        <4> QED BY <4>1, FiniteTicks, SumOfZeros
      <3>3. admitted'[z] = admitted[z] \/ admitted'[z] = Limit!Nothing
        BY <1>2 DEF Limit!TypeOK
      <3> QED BY <3>2, <3>3, LimiterAssumption, SameSums DEF Limit!BudgetPerStore
    <2> QED BY <2>2, <2>3, <2>4
  <1>3. CASE Limit!RedisExpires
    BY <1>2, <1>3 DEF Limit!RedisExpires, Limit!Stores
  <1>4. ASSUME NEW p \in Processes, Limit!Restart(p) PROVE RateLimiterInv'
    BY <1>2, <1>4 DEF Limit!Restart, Limit!Stores
  <1>5. CASE UNCHANGED Limit!vars
    BY <1>5 DEF Limit!vars, Limit!TypeOK, NothingAhead, WindowKept, Limit!BudgetPerStore,
       Limit!Window
  <1> QED BY <1>1, <1>3, <1>4, <1>5

LEMMA RateLimiterInit == Limit!Init => RateLimiterInv
  <1> SUFFICES ASSUME Limit!Init PROVE RateLimiterInv
    OBVIOUS
  <1>1. Limit!Nothing \in Limit!Counts /\ \A u \in Limit!Ticks : Limit!Nothing[u] = 0
    BY DEF Limit!Nothing, Limit!Counts
  <1>2. Limit!TypeOK /\ NothingAhead /\ WindowKept
    BY <1>1, LimiterAssumption DEF Limit!Init, Limit!TypeOK, NothingAhead, WindowKept, Limit!Ticks,
       Limit!Window
  <1>3. Limit!BudgetPerStore
    <2>1. SUFFICES ASSUME NEW s \in Limit!Stores, NEW t \in Limit!Ticks
                   PROVE  SumFunctionOnSet(Limit!Nothing, Limit!Window(t)) <= Calls
      BY SameSums DEF Limit!BudgetPerStore, Limit!Init
    <2>2. \A u \in Limit!Window(t) : Limit!Nothing[u] = 0
      BY <1>1 DEF Limit!Window
    <2> QED BY <2>2, FiniteTicks, SumOfZeros, LimiterAssumption
  <1> QED BY <1>2, <1>3 DEF RateLimiterInv

\* Each store lets no more than its budget through in any window.
THEOREM BudgetsKept == Limit!Spec => []BudgetPerStore
  <1>1. Limit!Init => RateLimiterInv
    BY RateLimiterInit
  <1>2. RateLimiterInv /\ [Limit!Next]_Limit!vars => RateLimiterInv'
    BY CheckRedisKeeps, MemCheckKeeps, OthersKeep DEF Limit!Next
  <1>3. RateLimiterInv => BudgetPerStore
    BY DEF RateLimiterInv, BudgetPerStore
  <1> QED BY <1>1, <1>2, <1>3, PTL DEF Limit!Spec

-----------------------------------------------------------------------------
\* Notifications.

\* What was read, or is shown, was committed.
ReadsCommitted ==
  /\ payments = {r \in Requests : paying[r] = "done"}
  /\ \A b \in Browsers : list[b] \subseteq payments /\ fetch[b].rows \subseteq payments

\* A payment that was announced is on its way to the browser's list, or there, or missed.
OnItsWay(b, r) ==
  \/ r \in missed[b] \/ r \in Notify!ToSet(inbox[b])
  \/ fetch[b].phase = "asked"
  \/ fetch[b].phase = "answered" /\ r \in fetch[b].rows
  \/ fetch[b].phase = "idle" /\ r \in list[b]

NoneForgotten ==
  \A b \in Browsers, r \in Requests : paying[r] \in {"published", "done"} => OnItsWay(b, r)

NotificationsInv == Notify!TypeOK /\ ReadsCommitted /\ NoneForgotten

LEMMA NotificationsInit == Notify!Init => NotificationsInv
  BY DEF Notify!Init, NotificationsInv, Notify!TypeOK, ReadsCommitted, NoneForgotten, OnItsWay,
     Notify!Fetch

\* The steps of a payment.
LEMMA PaymentsKeep ==
  ASSUME NotificationsInv, NEW r \in Requests,
         Notify!Record(r) \/ Notify!Publish(r) \/ Notify!Commit(r) \/ Notify!Rollback(r)
  PROVE  NotificationsInv'
  <1> USE DEF NotificationsInv
  <1>1. CASE Notify!Record(r)
    BY <1>1 DEF Notify!Record, Notify!TypeOK, ReadsCommitted, NoneForgotten, OnItsWay
  <1>2. CASE Notify!Publish(r)
    <2>1. PICK told \in {Notify!Listening, {}} :
            /\ inbox' = [b \in Browsers |-> IF b \in told THEN Append(inbox[b], r) ELSE inbox[b]]
            /\ missed' = [b \in Browsers |-> IF b \in told THEN missed[b] ELSE missed[b] \cup {r}]
      BY <1>2 DEF Notify!Publish
    <2>2. /\ paying[r] = "recorded" /\ paying' = [paying EXCEPT ![r] = "published"]
          /\ UNCHANGED <<payments, stream, fetch, list>>
      BY <1>2 DEF Notify!Publish
    <2>3. Notify!TypeOK' /\ ReadsCommitted'
      BY <2>1, <2>2 DEF Notify!TypeOK, ReadsCommitted
    <2>4. \A b \in Browsers : /\ missed[b] \subseteq missed'[b]
                              /\ Notify!ToSet(inbox[b]) \subseteq Notify!ToSet(inbox'[b])
                              /\ r \in missed'[b] \/ r \in Notify!ToSet(inbox'[b])
      <3>1. SUFFICES ASSUME NEW b \in Browsers
                     PROVE  /\ Notify!ToSet(inbox[b]) \subseteq Notify!ToSet(Append(inbox[b], r))
                            /\ r \in Notify!ToSet(Append(inbox[b], r))
        BY <2>1
      <3> DEFINE s == inbox[b]
      <3>2. s \in Seq(Requests)
        BY DEF Notify!TypeOK
      <3> HIDE DEF s
      <3>3. /\ DOMAIN Append(s, r) = 1..(Len(s) + 1) /\ DOMAIN s = 1..Len(s) /\ Len(s) \in Nat
            /\ Append(s, r)[Len(s) + 1] = r
            /\ \A i \in 1..Len(s) : Append(s, r)[i] = s[i]
        BY <3>2
      <3>4. r \in Notify!ToSet(Append(s, r))
        BY <3>3 DEF Notify!ToSet
      <3>5. ASSUME NEW x \in Notify!ToSet(s) PROVE x \in Notify!ToSet(Append(s, r))
        BY <3>3 DEF Notify!ToSet
      <3> QED BY <3>4, <3>5 DEF s
    <2>5. NoneForgotten'
      BY <2>2, <2>4 DEF NoneForgotten, OnItsWay, Notify!TypeOK
    <2> QED BY <2>3, <2>5
  <1>3. CASE Notify!Commit(r)
    BY <1>3 DEF Notify!Commit, Notify!TypeOK, ReadsCommitted, NoneForgotten, OnItsWay
  <1>4. CASE Notify!Rollback(r)
    BY <1>4 DEF Notify!Rollback, Notify!TypeOK, ReadsCommitted, NoneForgotten, OnItsWay
  <1> QED BY <1>1, <1>2, <1>3, <1>4

\* The steps of a stream.
LEMMA StreamsKeep ==
  ASSUME NotificationsInv, NEW b \in Browsers,
         Notify!Subscribe(b) \/ Notify!Refuse(b) \/ Notify!Disconnect(b) \/ Notify!TokenChanges(b)
  PROVE  NotificationsInv'
  <1> USE DEF NotificationsInv
  <1>1. CASE Notify!Subscribe(b) \/ Notify!Refuse(b)
    <2>1. UNCHANGED <<payments, paying, inbox, fetch, list, missed>>
      BY <1>1 DEF Notify!Subscribe, Notify!Refuse
    <2>2. stream' \in [Browsers -> {"connecting", "open", "closed"}]
      BY <1>1 DEF Notify!Subscribe, Notify!Refuse, Notify!TypeOK
    <2> QED BY <2>1, <2>2 DEF Notify!TypeOK, ReadsCommitted, NoneForgotten, OnItsWay
  <1>2. CASE Notify!Unsubscribe(b, "connecting")
    <2>1. Notify!ToSet(inbox[b]) \subseteq Requests
      <3>1. inbox[b] \in Seq(Requests)
        BY DEF Notify!TypeOK
      <3> QED BY <3>1 DEF Notify!ToSet
    <2>2. Notify!TypeOK' /\ ReadsCommitted'
      BY <1>2, <2>1 DEF Notify!Unsubscribe, Notify!TypeOK, ReadsCommitted
    <2>3. \A c \in Browsers : /\ missed[c] \subseteq missed'[c]
                              /\ Notify!ToSet(inbox[c]) \subseteq Notify!ToSet(inbox'[c]) \cup missed'[c]
      BY <1>2 DEF Notify!Unsubscribe, Notify!TypeOK
    <2>4. UNCHANGED <<payments, paying, fetch, list>>
      BY <1>2 DEF Notify!Unsubscribe
    <2>5. NoneForgotten'
      BY <2>3, <2>4 DEF NoneForgotten, OnItsWay
    <2> QED BY <2>2, <2>5
  <1> QED BY <1>1, <1>2 DEF Notify!Disconnect, Notify!TokenChanges

\* The steps of a list.
LEMMA ListsKeep ==
  ASSUME NotificationsInv, NEW b \in Browsers,
         Notify!Forward(b) \/ Notify!AnswerFetch(b) \/ Notify!ShowList(b)
  PROVE  NotificationsInv'
  <1> USE DEF NotificationsInv
  <1>1. CASE Notify!Forward(b)
    <2>1. Tail(inbox[b]) \in Seq(Requests)
      BY <1>1 DEF Notify!Forward, Notify!TypeOK
    <2>2. Notify!TypeOK' /\ ReadsCommitted'
      BY <1>1, <2>1 DEF Notify!Forward, Notify!TypeOK, ReadsCommitted, Notify!Fetch
    <2>3. /\ fetch'[b].phase = "asked"
          /\ \A c \in Browsers \ {b} : inbox'[c] = inbox[c] /\ fetch'[c] = fetch[c]
          /\ UNCHANGED <<paying, list, missed>>
      BY <1>1 DEF Notify!Forward, Notify!TypeOK
    <2>4. NoneForgotten'
      BY <2>3 DEF NoneForgotten, OnItsWay
    <2> QED BY <2>2, <2>4
  <1>2. CASE Notify!AnswerFetch(b)
    <2>1. Notify!TypeOK' /\ ReadsCommitted'
      BY <1>2 DEF Notify!AnswerFetch, Notify!TypeOK, ReadsCommitted, Notify!Fetch
    <2>2. /\ fetch'[b].phase = "answered" /\ fetch'[b].rows = payments
          /\ missed'[b] = missed[b] \cup {r \in Requests : paying[r] = "published"}
          /\ \A c \in Browsers \ {b} : missed'[c] = missed[c] /\ fetch'[c] = fetch[c]
          /\ UNCHANGED <<paying, list, inbox>>
      BY <1>2 DEF Notify!AnswerFetch, Notify!TypeOK
    <2>3. NoneForgotten'
      BY <2>2 DEF NoneForgotten, OnItsWay, ReadsCommitted
    <2> QED BY <2>1, <2>3
  <1>3. CASE Notify!ShowList(b)
    <2>1. Notify!TypeOK' /\ ReadsCommitted'
      BY <1>3 DEF Notify!ShowList, Notify!TypeOK, ReadsCommitted, Notify!Fetch, Notify!Idle
    <2>2. /\ fetch[b].phase = "answered" /\ fetch'[b].phase = "idle" /\ list'[b] = fetch[b].rows
          /\ \A c \in Browsers \ {b} : list'[c] = list[c] /\ fetch'[c] = fetch[c]
          /\ UNCHANGED <<paying, missed, inbox>>
      BY <1>3 DEF Notify!ShowList, Notify!TypeOK, Notify!Idle
    <2>3. NoneForgotten'
      BY <2>2 DEF NoneForgotten, OnItsWay
    <2> QED BY <2>1, <2>3
  <1> QED BY <1>1, <1>2, <1>3

LEMMA NotificationsStutterKeeps ==
  ASSUME NotificationsInv, UNCHANGED Notify!vars
  PROVE  NotificationsInv'
  BY DEF Notify!vars, NotificationsInv, Notify!TypeOK, ReadsCommitted, NoneForgotten, OnItsWay

\* A page that has handled what it was told shows what was committed, but for what it
\* was not told.
LEMMA NothingOwed == NotificationsInv => Notify!ListsFollowPayments
  <1>1. ASSUME NotificationsInv, NEW b \in Browsers, Notify!Settled(b) PROVE payments \ list[b] \subseteq missed[b]
    <2>1. Notify!ToSet(inbox[b]) = {}
      BY <1>1 DEF Notify!Settled, Notify!ToSet
    <2> QED BY <1>1, <2>1 DEF NotificationsInv, ReadsCommitted, NoneForgotten, OnItsWay,
               Notify!Settled
  <1> QED BY <1>1 DEF NotificationsInv, ReadsCommitted, Notify!ListsFollowPayments

\* A page that has handled what it was told lists every payment, but for those it was
\* not told of or asked ahead of, whenever streams open and are cut.
THEOREM ListsKeepUp == Notify!Spec => []ListsFollowPayments
  <1>1. NotificationsInv /\ [Notify!Next]_Notify!vars => NotificationsInv'
    BY PaymentsKeep, StreamsKeep, ListsKeep, NotificationsStutterKeeps DEF Notify!Next
  <1>2. NotificationsInv => ListsFollowPayments
    BY NothingOwed DEF ListsFollowPayments
  <1> QED BY NotificationsInit, <1>1, <1>2, PTL DEF Notify!Spec
=============================================================================
