--------------------------- MODULE Notifications ---------------------------
(***************************************************************************)
(* How the payment lists of open browsers follow the payments of others:   *)
(* record_payment (payments.py) publishes an event on the organization's   *)
(* Redis channel (notification_publisher.py), each open stream             *)
(* (notifications.py) forwards what its subscription receives, and the     *)
(* page (use-notifications.ts) invalidates its lists, which fetches them   *)
(* again. Redis keeps nothing for a stream that is not subscribed, and the *)
(* event goes out before the transaction of the payment commits. One       *)
(* organization; the bell, which only displays, and pings are left out.    *)
(***************************************************************************)
EXTENDS Naturals, Sequences, SequencesExt

CONSTANTS
  Requests,  \* the requests that record a payment, each of them one
  Browsers   \* the browsers on a page that lists payments

VARIABLES
  payments,  \* the payments committed
  req,       \* how far each request is
  stream,    \* each browser's EventSource
  inbox,     \* what each stream's subscription has received and not forwarded
  fetch,     \* the fetch of each browser's list: under way, or answered with these rows
  list,      \* the payments each browser lists
  missed     \* history: the payments each browser was not told of, or told of too early

vars == <<payments, req, stream, inbox, fetch, list, missed>>

Fetch == [phase : {"idle", "asked", "answered"}, rows : SUBSET Requests]
Idle  == [phase |-> "idle", rows |-> {}]

\* The page is loaded: its EventSource is connecting, its list is fetched.
Init == /\ payments = {}
        /\ req = [r \in Requests |-> "new"]
        /\ stream = [b \in Browsers |-> "connecting"]
        /\ inbox = [b \in Browsers |-> << >>]
        /\ fetch = [b \in Browsers |-> [phase |-> "asked", rows |-> {}]]
        /\ list = [b \in Browsers |-> {}]
        /\ missed = [b \in Browsers |-> {}]

Listening == {b \in Browsers : stream[b] = "open"}

-----------------------------------------------------------------------------
\* The payment is saved, and flushed.
Record(r) == /\ req[r] = "new"
             /\ req' = [req EXCEPT ![r] = "recorded"]
             /\ UNCHANGED <<payments, stream, inbox, fetch, list, missed>>

\* publish_notification reaches the streams subscribed, or (Redis being away, which
\* is ignored) nobody.
Publish(r) ==
  /\ req[r] = "recorded"
  /\ req' = [req EXCEPT ![r] = "published"]
  /\ \E told \in {Listening, {}} :
       /\ inbox' = [b \in Browsers |-> IF b \in told THEN Append(inbox[b], r) ELSE inbox[b]]
       /\ missed' = [b \in Browsers |-> IF b \in told THEN missed[b] ELSE missed[b] \cup {r}]
  /\ UNCHANGED <<payments, stream, fetch, list>>

\* get_db commits when the handler has returned ...
Commit(r) == /\ req[r] = "published"
             /\ req' = [req EXCEPT ![r] = "done"]
             /\ payments' = payments \cup {r}
             /\ UNCHANGED <<stream, inbox, fetch, list, missed>>

\* ... or the handler, the commit or the process fails: an event may be out already.
Rollback(r) == /\ req[r] \in {"recorded", "published"}
               /\ req' = [req EXCEPT ![r] = "failed"]
               /\ UNCHANGED <<payments, stream, inbox, fetch, list, missed>>

-----------------------------------------------------------------------------
\* _get_sse_user accepts the cookie; the generator subscribes.
Subscribe(b) == /\ stream[b] = "connecting"
                /\ stream' = [stream EXCEPT ![b] = "open"]
                /\ UNCHANGED <<payments, req, inbox, fetch, list, missed>>

\* It answers 401: an EventSource does not try again.
Refuse(b) == /\ stream[b] = "connecting"
             /\ stream' = [stream EXCEPT ![b] = "closed"]
             /\ UNCHANGED <<payments, req, inbox, fetch, list, missed>>

\* The subscription ends, with all it had not forwarded: it was in time for none of it.
Unsubscribe(b, phase) ==
  /\ stream' = [stream EXCEPT ![b] = phase]
  /\ inbox' = [inbox EXCEPT ![b] = << >>]
  /\ missed' = [missed EXCEPT ![b] = @ \cup ToSet(inbox[b])]
  /\ UNCHANGED <<payments, req, fetch, list>>

\* The connection is cut: the EventSource connects again, the page fetches nothing.
Disconnect(b) == stream[b] = "open" /\ Unsubscribe(b, "connecting")

\* The session is renewed: the effect closes the EventSource and opens another.
TokenChanges(b) == stream[b] # "connecting" /\ Unsubscribe(b, "connecting")

\* A fetch that is under way is good enough.
ForwardDuringFetch(b) ==
  /\ stream[b] = "open" /\ inbox[b] # << >>
  /\ inbox' = [inbox EXCEPT ![b] = Tail(@)]
  /\ fetch' = [fetch EXCEPT ![b] = IF @.phase = "idle" THEN [phase |-> "asked", rows |-> {}] ELSE @]
  /\ UNCHANGED <<payments, req, stream, list, missed>>

\* The event reaches the page, which invalidates its list: a fetch under way is
\* cancelled, a new one begins.
Forward(b) ==
  /\ stream[b] = "open" /\ inbox[b] # << >>
  /\ inbox' = [inbox EXCEPT ![b] = Tail(@)]
  /\ fetch' = [fetch EXCEPT ![b] = [phase |-> "asked", rows |-> {}]]
  /\ UNCHANGED <<payments, req, stream, list, missed>>

\* The server reads the payments committed: not those that are only published.
AnswerFetch(b) ==
  /\ fetch[b].phase = "asked"
  /\ fetch' = [fetch EXCEPT ![b] = [phase |-> "answered", rows |-> payments]]
  /\ missed' = [missed EXCEPT ![b] = @ \cup {r \in Requests : req[r] = "published"}]
  /\ UNCHANGED <<payments, req, stream, inbox, list>>

ShowList(b) ==
  /\ fetch[b].phase = "answered"
  /\ list' = [list EXCEPT ![b] = fetch[b].rows]
  /\ fetch' = [fetch EXCEPT ![b] = Idle]
  /\ UNCHANGED <<payments, req, stream, inbox, missed>>

Next == \/ \E r \in Requests : Record(r) \/ Publish(r) \/ Commit(r) \/ Rollback(r)
        \/ \E b \in Browsers : Subscribe(b) \/ Refuse(b) \/ Disconnect(b) \/ TokenChanges(b)
                               \/ Forward(b) \/ AnswerFetch(b) \/ ShowList(b)

Spec == Init /\ [][Next]_vars

-----------------------------------------------------------------------------
TypeOK == /\ payments \subseteq Requests
          /\ req \in [Requests -> {"new", "recorded", "published", "done", "failed"}]
          /\ stream \in [Browsers -> {"connecting", "open", "closed"}]
          /\ inbox \in [Browsers -> Seq(Requests)]
          /\ fetch \in [Browsers -> Fetch]
          /\ list \in [Browsers -> SUBSET Requests] /\ missed \in [Browsers -> SUBSET Requests]

Settled(b) == inbox[b] = << >> /\ fetch[b].phase = "idle"

\* A page that has handled what it was told lists every payment and no other, but for
\* those whose event never reached it (its stream was not open, or was cut, or Redis was
\* away) and those its list was read ahead of: published and not yet committed.
ListsFollowPayments ==
  \A b \in Browsers : Settled(b) =>
    list[b] \subseteq payments /\ payments \ list[b] \subseteq missed[b]
=============================================================================
