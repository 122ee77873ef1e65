------------------------------ MODULE ApiClient ------------------------------
(***************************************************************************)
(* One browser tab (frontend/src/lib/api/client.ts, AuthGuard.tsx): the    *)
(* API calls it has in flight, the one refresh they share when their       *)
(* access token has expired, and the queue of calls that wait for it. What *)
(* the backend answers is nondeterministic here; Accounts says when it     *)
(* accepts a refresh.                                                      *)
(*                                                                         *)
(* JavaScript runs one callback at a time: the end of a refresh and what   *)
(* its leader does next (emptying the queue) are one step.                 *)
(***************************************************************************)
EXTENDS Naturals

CONSTANTS
  Calls,        \* the API calls the pages make
  MaxRetries,   \* retries after a gateway error (2 in the code)
  BootsOnLoad,  \* AuthGuard boots only while no call is in flight
  Guard, None   \* the refresh AuthGuard started; no refresh

ASSUME RetriesAssumption == MaxRetries \in Nat
ASSUME NamesAssumption   == Guard \notin Calls /\ None \notin Calls /\ Guard # None

VARIABLES
  call,     \* what each call is doing
  leader,   \* who started the refresh in flight: a call, AuthGuard or nobody
  token,    \* the access token in the store is accepted by the backend
  guard     \* AuthGuard

vars == <<call, leader, token, guard>>

Settled == {"resolved", "rejected"}

\* refreshed: the call's _retry flag; retries: its _retryCount; token: it was sent
\* with a token the backend accepts.
Call == [phase : {"new", "sent", "sleeping", "leading", "queued"} \cup Settled,
         refreshed : BOOLEAN, retries : 0..MaxRetries, token : BOOLEAN]

TypeOK == /\ call \in [Calls -> Call]
          /\ leader \in Calls \cup {Guard, None}
          /\ token \in BOOLEAN
          /\ guard \in {"off", "booting", "ready", "login"}

Init == /\ call = [c \in Calls |-> [phase |-> "new", refreshed |-> FALSE,
                                    retries |-> 0, token |-> FALSE]]
        /\ leader = None
        /\ token = FALSE
        /\ guard = "off"

Settle(c, phase) == call' = [call EXCEPT ![c].phase = phase]

\* The request interceptor takes the token from the store each time.
Sent(c) == [c EXCEPT !.phase = "sent", !.token = token]

-----------------------------------------------------------------------------
\* Pages are rendered, and call the API, once AuthGuard is ready.
Send(c) ==
  /\ guard = "ready"
  /\ call[c].phase = "new"
  /\ call' = [call EXCEPT ![c] = Sent(@)]
  /\ UNCHANGED <<leader, token, guard>>

\* An answer, or an error that is neither 401 nor the gateway's.
Respond(c) ==
  /\ call[c].phase = "sent"
  /\ \/ call[c].token /\ Settle(c, "resolved")
     \/ Settle(c, "rejected")
  /\ UNCHANGED <<leader, token, guard>>

\* 502, 503, 504: the call sleeps, or gives up.
GatewayError(c) ==
  /\ call[c].phase = "sent"
  /\ call' = [call EXCEPT ![c] = IF @.retries < MaxRetries
                                   THEN [@ EXCEPT !.phase = "sleeping", !.retries = @ + 1]
                                   ELSE [@ EXCEPT !.phase = "rejected"]]
  /\ UNCHANGED <<leader, token, guard>>

Resend(c) ==
  /\ call[c].phase = "sleeping"
  /\ call' = [call EXCEPT ![c] = Sent(@)]
  /\ UNCHANGED <<leader, token, guard>>

\* A 401 is retried once: the call starts a refresh, or waits for the one in flight.
Unauthorized(c) ==
  /\ call[c].phase = "sent" /\ ~call[c].token
  /\ IF call[c].refreshed
       THEN Settle(c, "rejected") /\ UNCHANGED leader
       ELSE /\ call' = [call EXCEPT ![c].phase = IF leader = None THEN "leading" ELSE "queued",
                                    ![c].refreshed = TRUE]
            /\ leader' = IF leader = None THEN c ELSE leader
  /\ UNCHANGED <<token, guard>>

\* AuthGuard mounts: with a token it renders, without one it starts a refresh or
\* joins the one in flight.
Boot ==
  /\ guard # "booting"
  /\ BootsOnLoad => \A c \in Calls : call[c].phase \in {"new"} \cup Settled
  /\ IF token THEN guard' = "ready" /\ UNCHANGED leader
              ELSE /\ guard' = "booting"
                   /\ leader' = IF leader = None THEN Guard ELSE leader
  /\ UNCHANGED <<call, token>>

\* Only the leader goes on.
ContinueLeaderOnly(ok) ==
  IF leader = Guard
    THEN UNCHANGED call
    ELSE call' = [call EXCEPT ![leader].phase = IF ok THEN "sent" ELSE "rejected",
                              ![leader].token = ok]

\* processQueue and the leader's own continuation; AuthGuard has none of that.
Continue(ok) ==
  IF leader = Guard
    THEN UNCHANGED call
    ELSE call' = [c \in Calls |->
                    IF call[c].phase \in {"leading", "queued"}
                      THEN IF ok THEN [call[c] EXCEPT !.phase = "sent", !.token = TRUE]
                                 ELSE [call[c] EXCEPT !.phase = "rejected"]
                      ELSE call[c]]

RefreshSucceeds ==
  /\ leader # None
  /\ leader' = None
  /\ token' = TRUE
  /\ guard' = IF guard = "booting" THEN "ready" ELSE guard
  /\ Continue(TRUE)

\* clearAuth: AuthGuard sends the user to the login page.
RefreshFails ==
  /\ leader # None
  /\ leader' = None
  /\ token' = FALSE
  /\ guard' = "login"
  /\ Continue(FALSE)

\* The user logs in again; the access token expires.
LogIn == guard = "login" /\ token' = TRUE /\ guard' = "off" /\ UNCHANGED <<call, leader>>
TokenExpires == /\ token
                /\ token' = FALSE
                /\ call' = [c \in Calls |-> [call[c] EXCEPT !.token = FALSE]]
                /\ UNCHANGED <<leader, guard>>

Answered(c) == Respond(c) \/ GatewayError(c) \/ Unauthorized(c)
RefreshEnds == RefreshSucceeds \/ RefreshFails

Next == \/ \E c \in Calls : Send(c) \/ Answered(c) \/ Resend(c)
        \/ Boot \/ RefreshEnds \/ LogIn \/ TokenExpires

\* Every request that is sent is answered or times out (30 s), the refresh included,
\* and every timer fires.
Spec == /\ Init /\ [][Next]_vars
        /\ \A c \in Calls : WF_vars(Answered(c)) /\ WF_vars(Resend(c))
        /\ WF_vars(RefreshEnds)

-----------------------------------------------------------------------------
\* "all callers await the same promise" (client.ts:6): no call is left pending, for
\* ever, by a refresh, a retry or the failure of either.
CallsSettle == \A c \in Calls : call[c].phase = "sent" ~> call[c].phase \in Settled
=============================================================================
