------------------------------ MODULE Accounts ------------------------------
(***************************************************************************)
(* The sessions of one user: login, refresh-token rotation, logout, reset  *)
(* and change of the password, change of the e-mail address and name       *)
(* (auth.py, users.py). The row holds the jti of the one refresh token     *)
(* that is accepted; the token itself is in the browser's cookie.          *)
(*                                                                         *)
(* A request reads the row and makes its checks; later its session commits *)
(* the columns that differ from what it read; later still the browser gets *)
(* the answer, which carries the new cookie, unless that is lost. A token  *)
(* or a password is named after the request that made it.                  *)
(***************************************************************************)
EXTENDS Sequences, SequencesExt

CONSTANTS
  Requests,   \* the requests, each of them one call of one endpoint
  Browsers,
  Emails,     \* the addresses no other account has
  None        \* no token; the password and address the account began with

ASSUME NoneAssumption == None \notin Requests /\ None \notin Emails

VARIABLES
  user,     \* the row of table users
  cookie,   \* the refresh token each browser keeps
  access,   \* the browsers that hold an access token that has not expired
  req,      \* what each request is doing and has read
  lost,     \* the refreshes whose answer the browser no longer waits for
  log       \* history: the requests that have committed, in that order

vars == <<user, cookie, access, req, lost, log>>

User == [refresh_token_jti : Requests \cup {None}, hashed_password : Requests \cup {None},
         email : Emails \cup {None}]

Operations == {"login", "refresh", "logout", "reset", "password", "email", "name"}

\* token: the cookie the request came with; password: the one its session was
\* opened with.
Request == [op : Operations \cup {None}, phase : {"new", "read", "written", "answered", "refused"},
            browser : Browsers \cup {None}, token : Requests \cup {None},
            user : User \cup {None}, password : Requests \cup {None}]

Init == /\ user = [refresh_token_jti |-> None, hashed_password |-> None, email |-> None]
        /\ cookie = [b \in Browsers |-> None]
        /\ access = {}
        /\ req = [r \in Requests |-> [op |-> None, phase |-> "new", browser |-> None,
                                      token |-> None, user |-> None, password |-> None]]
        /\ lost = {}
        /\ log = << >>

Busy(r) == req[r].phase \in {"read", "written"}

\* A request reads the user's row.
Read(r, op, b, token, password) ==
  /\ req[r].phase = "new"
  /\ req' = [req EXCEPT ![r] = [op |-> op, phase |-> "read", browser |-> b, token |-> token,
                                user |-> user, password |-> password]]
  /\ UNCHANGED <<user, cookie, access, lost, log>>

\* Every column is written back, changed or not.
WriteWholeRow(r, op, new) ==
  /\ req[r].op = op /\ req[r].phase = "read"
  /\ user' = new
  /\ req' = [req EXCEPT ![r].phase = "written"]
  /\ log' = Append(log, r)
  /\ UNCHANGED <<cookie, access, lost>>

\* Its session commits the columns that differ from what it read.
Write(r, op, new) ==
  /\ req[r].op = op /\ req[r].phase = "read"
  /\ LET seen == req[r].user
     IN  user' = [f \in DOMAIN user |-> IF new[f] # seen[f] THEN new[f] ELSE user[f]]
  /\ req' = [req EXCEPT ![r].phase = "written"]
  /\ log' = Append(log, r)
  /\ UNCHANGED <<cookie, access, lost>>

\* The browser gets the answer: a new token, no token, or nothing about tokens.
Answer(r, ops, token, granted) ==
  /\ req[r].op \in ops /\ req[r].phase = "written" /\ r \notin lost
  /\ cookie' = [cookie EXCEPT ![req[r].browser] = token]
  /\ access' = IF granted THEN access \cup {req[r].browser} ELSE access \ {req[r].browser}
  /\ req' = [req EXCEPT ![r].phase = "answered"]
  /\ UNCHANGED <<user, lost, log>>

-----------------------------------------------------------------------------
\* The password typed is the one the row has when it is read.
BeginLogin(r, b) == Read(r, "login", b, None, user.hashed_password)
Login(r) == Write(r, "login", [req[r].user EXCEPT !.refresh_token_jti = r])

\* Every call of the browser refreshes for itself.
RefreshingAlone(b) == FALSE

Refreshing(b) ==
  \E r \in Requests \ lost : req[r].op = "refresh" /\ req[r].browser = b /\ Busy(r)

\* The browser's one tab waits for one refresh at a time (client.ts, performRefresh).
BeginRefresh(r, b) ==
  /\ ~Refreshing(b)
  /\ cookie[b] # None
  /\ cookie[b] = user.refresh_token_jti
  /\ Read(r, "refresh", b, cookie[b], req[cookie[b]].password)

\* The token is not the row's: 401, and the browser forgets its access token.
RefuseRefresh(r, b) ==
  /\ req[r].phase = "new"
  /\ ~Refreshing(b)
  /\ cookie[b] # None
  /\ cookie[b] # user.refresh_token_jti
  /\ req' = [req EXCEPT ![r] = [@ EXCEPT !.op = "refresh", !.phase = "refused",
                                         !.browser = b, !.token = cookie[b]]]
  /\ access' = access \ {b}
  /\ UNCHANGED <<user, cookie, lost, log>>

\* _issue_tokens: a token of its own, in place of the one presented.
Refresh(r) == Write(r, "refresh", [req[r].user EXCEPT !.refresh_token_jti = r])

\* Any token of the user will do, the row's or not: logout revokes them all.
BeginLogout(r, b) == cookie[b] # None /\ Read(r, "logout", b, cookie[b], None)
Logout(r) == Write(r, "logout", [req[r].user EXCEPT !.refresh_token_jti = None])

\* Without a cookie there is no row to read: the answer only forgets the tokens.
LogoutWithoutToken(r, b) ==
  /\ req[r].phase = "new"
  /\ cookie[b] = None
  /\ access' = access \ {b}
  /\ req' = [req EXCEPT ![r] = [@ EXCEPT !.op = "logout", !.phase = "answered", !.browser = b]]
  /\ UNCHANGED <<user, cookie, lost, log>>

\* The holder of the recovery key sets a password.
BeginReset(r) == Read(r, "reset", None, None, None)
ResetPassword(r) == Write(r, "reset", [req[r].user EXCEPT !.hashed_password = r,
                                                          !.refresh_token_jti = None])

\* get_current_user: an access token does for these, whatever became of its session.
BeginChange(r, b, op) == b \in access /\ Read(r, op, b, cookie[b], None)
ChangePassword(r) == Write(r, "password", [req[r].user EXCEPT !.hashed_password = r,
                                                              !.refresh_token_jti = None])
UpdateEmail(r, e) == Write(r, "email", [req[r].user EXCEPT !.email = e,
                                                           !.refresh_token_jti = None])
UpdateName(r) == Write(r, "name", req[r].user)

AnswerTokens(r) == Answer(r, {"login", "refresh"}, r, TRUE)
AnswerLogout(r) == Answer(r, {"logout"}, None, FALSE)

\* The page is reloaded, or the network or the gateway fails: whether the server commits
\* or not, the browser keeps the cookie it has, and no access token. (A login or a logout
\* whose answer is lost is one that is never answered.)
LoseAnswer(r) ==
  /\ req[r].op = "refresh" /\ Busy(r) /\ r \notin lost
  /\ lost' = lost \cup {r}
  /\ access' = access \ {req[r].browser}
  /\ UNCHANGED <<user, cookie, req, log>>

AccessExpires(b) == /\ b \in access
                    /\ access' = access \ {b}
                    /\ UNCHANGED <<user, cookie, req, lost, log>>

Next ==
  \/ \E r \in Requests, b \in Browsers :
       \/ BeginLogin(r, b) \/ BeginRefresh(r, b) \/ RefuseRefresh(r, b)
       \/ BeginLogout(r, b) \/ LogoutWithoutToken(r, b)
       \/ \E op \in {"password", "email", "name"} : BeginChange(r, b, op)
  \/ \E r \in Requests :
       \/ BeginReset(r)
       \/ Login(r) \/ Refresh(r) \/ Logout(r) \/ ResetPassword(r)
       \/ ChangePassword(r) \/ UpdateName(r) \/ (\E e \in Emails : UpdateEmail(r, e))
       \/ AnswerTokens(r) \/ AnswerLogout(r) \/ LoseAnswer(r)
  \/ \E b \in Browsers : AccessExpires(b)

Spec == Init /\ [][Next]_vars

-----------------------------------------------------------------------------
TypeOK == /\ user \in User
          /\ cookie \in [Browsers -> Requests \cup {None}]
          /\ access \subseteq Browsers
          /\ req \in [Requests -> Request]
          /\ lost \subseteq Requests
          /\ log \in Seq(Requests)

Issued(r) == req[r].op \in {"login", "refresh"} /\ req[r].phase \in {"written", "answered"}

\* The refreshes that were let through.
Accepted(r) == req[r].op = "refresh" /\ req[r].phase \in {"read", "written", "answered"}

Usable == {user.refresh_token_jti} \ {None}
Dead   == {r \in Requests : Issued(r)} \ {user.refresh_token_jti}
LetIn  == {<<req[r].token, r>> : r \in {s \in Requests : Accepted(s)}}

Capabilities == INSTANCE Capability WITH
  Ids <- Requests, Users <- Requests, live <- Usable, dead <- Dead, uses <- LetIn

\* A refresh token opens a session only while it is the row's; one that was rotated,
\* revoked or replaced by another login is never accepted again, whatever requests
\* were under way.
TokensAreCapabilities == Capabilities!Spec

CommittedAfter(r) == IF Contains(log, r)
                       THEN {log[i] : i \in {j \in 1..Len(log) : \E k \in 1..(j-1) : log[k] = r}}
                       ELSE {}

\* "This prevents JTI-rotation conflicts where the 2nd refresh call would fail because
\* the first one already rotated the token" (client.ts:7): a refresh is refused only
\* if something else than a refresh of that browser with that token has committed
\* since the token was issued (a login, a revocation, a request that overlapped them), or
\* such a refresh whose answer was lost.
RefusedForAReason ==
  \A r \in Requests : req[r].phase = "refused" =>
    \E s \in CommittedAfter(req[r].token) :
      \/ ~(req[s].op = "refresh" /\ req[s].browser = req[r].browser /\ req[s].token = req[r].token)
      \/ s \in lost

\* "Toutes les sessions actives (refresh tokens) sont revoquees" (auth.py:302): no
\* session outlives the password it was opened with.
SessionsMatchPassword ==
  user.refresh_token_jti # None =>
    req[user.refresh_token_jti].password = user.hashed_password
=============================================================================
