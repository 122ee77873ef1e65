------------------------------ MODULE MobileMoney ------------------------------
(***************************************************************************)
(* Mobile money payments of one order: POST /initiate asks CinetPay for a  *)
(* payment and inserts a pending transaction; the webhook and              *)
(* GET /status each bring CinetPay's verdict to the transaction and to the *)
(* order, in sessions that read the two rows and write them at the commit. *)
(*                                                                         *)
(* The order's price is fixed and its other payments are one step each:    *)
(* OrderRequests has their interleavings.                                  *)
(***************************************************************************)
EXTENDS Naturals, FiniteSetsExt

CONSTANTS
  Handlers,   \* requests in flight
  Txns,       \* transaction identifiers
  Amounts,    \* amounts a client may be asked for
  Price,      \* total_cents of the order
  MaxCash,    \* bound on what is paid by other means
  Notified,   \* the verdicts CinetPay sends a webhook for
  NoTxn       \* the transaction of a handler that has none

Verdicts == {"waiting", "accepted", "refused"}

ASSUME PriceAssumption    == Price \in Nat \ {0} /\ MaxCash \in Nat
ASSUME AmountAssumption   == Amounts \subseteq Nat \ {0}
ASSUME NoTxnAssumption    == NoTxn \notin Txns
ASSUME NotifiedAssumption == Notified \subseteq Verdicts

VARIABLES
  provider,   \* CinetPay: what became of each payment
  notices,    \* webhooks sent, each delivered any number of times, in any order
  txns,       \* status of the payment_transactions rows
  amount,     \* ... and their amount_cents
  order,      \* paid_cents and payment_status of the orders row
  cash,       \* the completed transactions of other methods, summed
  job         \* what each handler is doing

vars == <<provider, notices, txns, amount, order, cash, job>>

TxnStatus == {"absent", "pending", "completed", "failed"}
OrderRow  == [paid : Nat, payment_status : {"pending", "partial", "paid"}]

\* found: the status of the row the session loaded; base: the order row it loaded.
Job  == [phase : {"idle", "initiating", "asking", "told", "settling"},
         txn : Txns \cup {NoTxn}, sum : Nat, news : Verdicts,
         found : TxnStatus, base : OrderRow]
Idle == [phase |-> "idle", txn |-> NoTxn, sum |-> 0, news |-> "waiting",
         found |-> "absent", base |-> [paid |-> 0, payment_status |-> "pending"]]

TypeOK == /\ provider \in [Txns -> Verdicts \cup {"unknown"}]
          /\ notices \subseteq Txns \X Verdicts
          /\ txns \in [Txns -> TxnStatus]
          /\ amount \in [Txns -> Nat]
          /\ order \in OrderRow /\ order.paid <= Price
          /\ cash \in Nat
          /\ job \in [Handlers -> Job]

Init == /\ provider = [t \in Txns |-> "unknown"]
        /\ notices = {}
        /\ txns = [t \in Txns |-> "absent"]
        /\ amount = [t \in Txns |-> 0]
        /\ order = Idle.base
        /\ cash = 0
        /\ job = [h \in Handlers |-> Idle]

Done(h) == job' = [job EXCEPT ![h] = Idle]

-----------------------------------------------------------------------------
(* CinetPay and the rest of the system.                                    *)

\* The client pays, or does not.
Decide(t) ==
  /\ provider[t] = "waiting"
  /\ \E v \in {"accepted", "refused"} : provider' = [provider EXCEPT ![t] = v]
  /\ UNCHANGED <<notices, txns, amount, order, cash, job>>

Notify(t) ==
  /\ provider[t] \in Notified
  /\ notices' = notices \cup {<<t, provider[t]>>}
  /\ UNCHANGED <<provider, txns, amount, order, cash, job>>

StatusOfPaid(paid) == IF paid >= Price THEN "paid" ELSE "partial"

\* A payment by another method, within the balance.
PayCash(a) ==
  /\ order.paid + a <= Price /\ cash + a <= MaxCash
  /\ order' = [paid |-> order.paid + a, payment_status |-> StatusOfPaid(order.paid + a)]
  /\ cash' = cash + a
  /\ UNCHANGED <<provider, notices, txns, amount, job>>

-----------------------------------------------------------------------------
(* POST /initiate                                                          *)

\* CinetPay is asked first; any positive amount will do.
Initiate(h) ==
  /\ job[h].phase = "idle"
  /\ \E t \in Txns, a \in Amounts :
       /\ provider[t] = "unknown"
       /\ provider' = [provider EXCEPT ![t] = "waiting"]
       /\ job' = [job EXCEPT ![h] = [Idle EXCEPT !.phase = "initiating", !.txn = t, !.sum = a]]
  /\ UNCHANGED <<notices, txns, amount, order, cash>>

\* The transaction is inserted once CinetPay answered.
CommitInitiate(h) ==
  /\ job[h].phase = "initiating"
  /\ txns' = [txns EXCEPT ![job[h].txn] = "pending"]
  /\ amount' = [amount EXCEPT ![job[h].txn] = job[h].sum]
  /\ Done(h)
  /\ UNCHANGED <<provider, notices, order, cash>>

-----------------------------------------------------------------------------
(* The webhook and GET /status                                             *)

\* The transaction is looked up whatever its status; one that is not there yet is
\* acknowledged and forgotten.
ReceiveWebhook(h) ==
  /\ job[h].phase = "idle"
  /\ \E n \in notices :
       /\ txns[n[1]] # "absent"
       /\ job' = [job EXCEPT ![h] = [Idle EXCEPT
                    !.phase = "told", !.txn = n[1], !.news = n[2], !.found = txns[n[1]]]]
  /\ UNCHANGED <<provider, notices, txns, amount, order, cash>>

\* Only a pending transaction is worth a question to CinetPay.
ReadStatus(h) ==
  /\ job[h].phase = "idle"
  /\ \E t \in Txns :
       /\ txns[t] = "pending"
       /\ job' = [job EXCEPT ![h] = [Idle EXCEPT
                    !.phase = "asking", !.txn = t, !.found = "pending"]]
  /\ UNCHANGED <<provider, notices, txns, amount, order, cash>>

\* A payment that is not yet decided is taken for a refused one.
VerifyEagerly(h) ==
  /\ job[h].phase = "asking"
  /\ job' = [job EXCEPT ![h].phase = "told",
                        ![h].news = IF provider[job[h].txn] = "accepted"
                                    THEN "accepted" ELSE "refused"]
  /\ UNCHANGED <<provider, notices, txns, amount, order, cash>>

\* CinetPay answers with a verdict; without one nothing changes (Forget).
Verify(h) ==
  /\ job[h].phase = "asking"
  /\ provider[job[h].txn] \in {"accepted", "refused"}
  /\ job' = [job EXCEPT ![h].phase = "told", ![h].news = provider[job[h].txn]]
  /\ UNCHANGED <<provider, notices, txns, amount, order, cash>>

ReadOrder(h) ==
  /\ job[h].phase = "told" /\ job[h].news = "accepted"
  /\ job' = [job EXCEPT ![h].phase = "settling", ![h].base = order]
  /\ UNCHANGED <<provider, notices, txns, amount, order, cash>>

\* An UPDATE sets the columns whose value changed since they were loaded.
Column(row, loaded, new) == IF new # loaded THEN new ELSE row

\* order.paid_cents = min(order.paid_cents + txn.amount_cents, order.total_cents)
Paid(base, a) == Min({base.paid + a, Price})

\* The order's payment is committed, its transaction later.
SettleOrderOnly(h) ==
  /\ job[h].phase = "settling"
  /\ LET b == job[h].base
         p == Paid(b, amount[job[h].txn])
     IN  order' = [paid |-> Column(order.paid, b.paid, p),
                   payment_status |-> Column(order.payment_status, b.payment_status,
                                             StatusOfPaid(p))]
  /\ Done(h)
  /\ UNCHANGED <<provider, notices, txns, amount, cash>>

Settle(h) ==
  /\ job[h].phase = "settling"
  /\ LET t == job[h].txn
         b == job[h].base
         p == Paid(b, amount[t])
     IN  /\ txns' = [txns EXCEPT ![t] = Column(@, job[h].found, "completed")]
         /\ order' = [paid |-> Column(order.paid, b.paid, p),
                      payment_status |-> Column(order.payment_status, b.payment_status,
                                                StatusOfPaid(p))]
  /\ Done(h)
  /\ UNCHANGED <<provider, notices, amount, cash>>

\* Anything but an acceptance fails the transaction, whatever it was.
Fail(h) ==
  /\ job[h].phase = "told" /\ job[h].news # "accepted"
  /\ txns' = [txns EXCEPT ![job[h].txn] = Column(@, job[h].found, "failed")]
  /\ Done(h)
  /\ UNCHANGED <<provider, notices, amount, order, cash>>

\* No verdict, an error of CinetPay or of the database, a crash: rolled back.
Forget(h) ==
  /\ job[h].phase # "idle"
  /\ Done(h)
  /\ UNCHANGED <<provider, notices, txns, amount, order, cash>>

-----------------------------------------------------------------------------
Handle(h) ==
  \/ Initiate(h) \/ CommitInitiate(h)
  \/ ReceiveWebhook(h) \/ ReadStatus(h) \/ Verify(h)
  \/ ReadOrder(h) \/ Settle(h) \/ Fail(h) \/ Forget(h)

Next == \/ \E t \in Txns : Decide(t) \/ Notify(t)
        \/ \E a \in Amounts : PayCash(a)
        \/ \E h \in Handlers : Handle(h)

Spec == Init /\ [][Next]_vars

-----------------------------------------------------------------------------
\* Webhooks repeated, late or racing a status request never leave a transaction
\* with the verdict CinetPay did not give: if it only notifies final verdicts.
TxnAgreesWithProvider ==
  \A t \in Txns : /\ txns[t] = "completed" => provider[t] = "accepted"
                  /\ txns[t] = "failed"    => provider[t] = "refused"

\* Mobile money appears on the order together with a completed transaction, never
\* before one and never without.
MoneyComesWithTransaction ==
  order.paid > cash => \E t \in Txns : txns[t] = "completed"

\* verify_financial_integrity (007_views_and_rls.sql:379): the order shows no more
\* than its completed transactions add up to.
CountedOnce ==
  order.paid <= cash + MapThenSumSet(LAMBDA t : amount[t],
                                     {t \in Txns : txns[t] = "completed"})
=============================================================================
