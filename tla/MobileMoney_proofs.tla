--------------------------- MODULE MobileMoney_proofs ---------------------------
(***************************************************************************)
(* If CinetPay notifies only final verdicts, no repetition, delay or race  *)
(* of webhooks and status requests makes a transaction contradict CinetPay *)
(* or puts money on the order without a completed transaction: for any     *)
(* number of transactions, requests in flight and notifications.           *)
(***************************************************************************)
EXTENDS MobileMoney, TLAPS

Final == {"accepted", "refused"}

\* A webhook says what CinetPay decided, and CinetPay does not change its mind.
NoticesTrue == \A n \in notices : n[2] \in Final /\ n[2] = provider[n[1]]

\* No transaction without a payment CinetPay was asked for.
Asked == \A t \in Txns : provider[t] = "unknown" => txns[t] = "absent"

\* What a request was told or has loaded is true and stays so: a completed
\* transaction stays completed, and an order row loaded with mobile money on it
\* means that one is.
JobTrue == \A h \in Handlers :
  LET j == job[h] IN
  /\ j.phase # "idle" => j.txn \in Txns
  /\ j.phase = "initiating" => provider[j.txn] # "unknown" /\ txns[j.txn] = "absent"
  /\ j.phase \in {"asking", "told", "settling"} => txns[j.txn] # "absent"
  /\ j.phase \in {"told", "settling"} => j.news = provider[j.txn] /\ j.news \in Final
  /\ j.phase = "settling" => j.news = "accepted"
  /\ j.found = "completed" => txns[j.txn] = "completed"
  /\ j.found = "failed" => j.phase = "idle" \/ txns[j.txn] = "failed"
  /\ j.base.paid > cash => \E t \in Txns : txns[t] = "completed"

\* One request inserts a given transaction.
OneInsert == \A g, h \in Handlers :
  /\ job[g].phase = "initiating" /\ job[h].phase = "initiating"
  /\ job[g].txn = job[h].txn
  => g = h

IInv == /\ TypeOK /\ NoticesTrue /\ Asked /\ JobTrue /\ OneInsert
        /\ TxnAgreesWithProvider /\ MoneyComesWithTransaction
LEMMA InitInvariant == Init => IInv
  BY NoTxnAssumption, PriceAssumption
  DEF Init, Idle, Job, OrderRow, TxnStatus, Verdicts, Final, IInv, TypeOK, NoticesTrue, Asked, JobTrue,
         OneInsert, TxnAgreesWithProvider, MoneyComesWithTransaction

\* The cap: never beyond the price.
LEMMA PaidWithinPrice ==
  ASSUME NEW b \in OrderRow, NEW a \in Nat
  PROVE  Paid(b, a) \in Nat /\ Paid(b, a) <= Price
  <1> DEFINE S == {b.paid + a, Price}
  <1>1. \E x \in S : \A y \in S : x <= y
    BY PriceAssumption DEF OrderRow
  <1>2. Min(S) \in S /\ \A y \in S : Min(S) <= y
    BY <1>1, Zenon DEF Min
  <1> QED BY <1>2, PriceAssumption DEF Paid, OrderRow

\* Every step keeps the invariant: the verdicts in flight are final ones, so
\* nothing is written over a completed transaction.
LEMMA StepInvariant ==
  ASSUME Notified \subseteq Final, IInv, [Next]_vars
  PROVE  IInv'
  <1> USE NoTxnAssumption DEF Job, OrderRow, TxnStatus, Verdicts, Final
  <1>1. ASSUME NEW t \in Txns, Decide(t) PROVE IInv'
    <2>1. TypeOK'
      BY <1>1, PriceAssumption DEF IInv, TypeOK, Decide
    <2>2. NoticesTrue' /\ Asked' /\ TxnAgreesWithProvider'
      BY <1>1 DEF IInv, TypeOK, NoticesTrue, Asked, JobTrue,
         OneInsert, TxnAgreesWithProvider, MoneyComesWithTransaction, Decide
    <2>3. JobTrue' /\ OneInsert'
      BY <1>1 DEF IInv, TypeOK, NoticesTrue, Asked, JobTrue,
         OneInsert, TxnAgreesWithProvider, MoneyComesWithTransaction, Decide
    <2>4. MoneyComesWithTransaction'
      BY <1>1 DEF IInv, TypeOK, NoticesTrue, Asked, JobTrue,
         OneInsert, TxnAgreesWithProvider, MoneyComesWithTransaction, Decide
    <2> QED BY <2>1, <2>2, <2>3, <2>4 DEF IInv
  <1>2. ASSUME NEW t \in Txns, Notify(t) PROVE IInv'
    <2>1. TypeOK'
      BY <1>2, PriceAssumption DEF IInv, TypeOK, Notify
    <2>2. NoticesTrue' /\ Asked' /\ TxnAgreesWithProvider'
      BY <1>2 DEF IInv, TypeOK, NoticesTrue, Asked, JobTrue,
         OneInsert, TxnAgreesWithProvider, MoneyComesWithTransaction, Notify
    <2>3. JobTrue' /\ OneInsert'
      BY <1>2 DEF IInv, TypeOK, NoticesTrue, Asked, JobTrue,
         OneInsert, TxnAgreesWithProvider, MoneyComesWithTransaction, Notify
    <2>4. MoneyComesWithTransaction'
      BY <1>2 DEF IInv, TypeOK, NoticesTrue, Asked, JobTrue,
         OneInsert, TxnAgreesWithProvider, MoneyComesWithTransaction, Notify
    <2> QED BY <2>1, <2>2, <2>3, <2>4 DEF IInv
  <1>3. ASSUME NEW a \in Amounts, PayCash(a) PROVE IInv'
    <2>1. TypeOK'
      BY <1>3, AmountAssumption, PriceAssumption DEF IInv, TypeOK, PayCash, StatusOfPaid
    <2>2. NoticesTrue' /\ Asked' /\ TxnAgreesWithProvider'
      BY <1>3, AmountAssumption DEF IInv, TypeOK, NoticesTrue, Asked, JobTrue,
         OneInsert, TxnAgreesWithProvider, MoneyComesWithTransaction, PayCash, StatusOfPaid
    <2>3. JobTrue' /\ OneInsert'
      BY <1>3, AmountAssumption DEF IInv, TypeOK, NoticesTrue, Asked, JobTrue,
         OneInsert, TxnAgreesWithProvider, MoneyComesWithTransaction, PayCash, StatusOfPaid
    <2>4. MoneyComesWithTransaction'
      BY <1>3, AmountAssumption DEF IInv, TypeOK, NoticesTrue, Asked, JobTrue,
         OneInsert, TxnAgreesWithProvider, MoneyComesWithTransaction, PayCash, StatusOfPaid
    <2> QED BY <2>1, <2>2, <2>3, <2>4 DEF IInv
  <1>4. ASSUME NEW h \in Handlers, Initiate(h) PROVE IInv'
    <2>1. TypeOK'
      <3>1. job' \in [Handlers -> Job]
        <4>1. PICK t \in Txns, a \in Amounts :
                job' = [job EXCEPT ![h] = [Idle EXCEPT !.phase = "initiating", !.txn = t, !.sum = a]]
          BY <1>4 DEF Initiate
        <4>2. [Idle EXCEPT !.phase = "initiating", !.txn = t, !.sum = a] \in Job
          BY <4>1, AmountAssumption DEF Idle
        <4> QED BY <4>1, <4>2 DEF IInv, TypeOK
      <3> QED BY <1>4, <3>1 DEF IInv, TypeOK, Initiate
    <2>2. NoticesTrue' /\ Asked' /\ TxnAgreesWithProvider'
      BY <1>4, AmountAssumption DEF IInv, TypeOK, NoticesTrue, Asked, JobTrue,
         OneInsert, TxnAgreesWithProvider, MoneyComesWithTransaction, Initiate, Idle
    <2>3. JobTrue' /\ OneInsert'
      <3>1. PICK t \in Txns, a \in Amounts :
              /\ provider[t] = "unknown" /\ provider' = [provider EXCEPT ![t] = "waiting"]
              /\ job' = [job EXCEPT ![h] = [Idle EXCEPT !.phase = "initiating", !.txn = t, !.sum = a]]
        BY <1>4 DEF Initiate
      <3>2. txns[t] = "absent"
        BY <3>1 DEF IInv, Asked
      <3>3. UNCHANGED <<notices, txns, amount, order, cash>>
        BY <1>4 DEF Initiate
      <3>4. JobTrue'
        BY <3>1, <3>2, <3>3 DEF IInv, TypeOK, JobTrue, Idle
      <3>5. OneInsert'
        BY <3>1, <3>2, <3>3 DEF IInv, TypeOK, JobTrue, OneInsert, Idle
      <3> QED BY <3>4, <3>5
    <2>4. MoneyComesWithTransaction'
      BY <1>4, AmountAssumption DEF IInv, TypeOK, NoticesTrue, Asked, JobTrue,
         OneInsert, TxnAgreesWithProvider, MoneyComesWithTransaction, Initiate, Idle
    <2> QED BY <2>1, <2>2, <2>3, <2>4 DEF IInv
  <1>5. ASSUME NEW h \in Handlers, CommitInitiate(h) PROVE IInv'
    <2>1. TypeOK'
      BY <1>5, PriceAssumption DEF IInv, TypeOK, CommitInitiate, Done, Idle
    <2>2. NoticesTrue' /\ Asked' /\ TxnAgreesWithProvider'
      BY <1>5 DEF IInv, TypeOK, NoticesTrue, Asked, JobTrue,
         OneInsert, TxnAgreesWithProvider, MoneyComesWithTransaction, CommitInitiate, Done, Idle
    <2>3. JobTrue' /\ OneInsert'
      BY <1>5 DEF IInv, TypeOK, NoticesTrue, Asked, JobTrue,
         OneInsert, TxnAgreesWithProvider, MoneyComesWithTransaction, CommitInitiate, Done, Idle
    <2>4. MoneyComesWithTransaction'
      BY <1>5 DEF IInv, TypeOK, NoticesTrue, Asked, JobTrue,
         OneInsert, TxnAgreesWithProvider, MoneyComesWithTransaction, CommitInitiate, Done, Idle
    <2> QED BY <2>1, <2>2, <2>3, <2>4 DEF IInv
  <1>6. ASSUME NEW h \in Handlers, ReceiveWebhook(h) PROVE IInv'
    <2>1. TypeOK'
      <3>1. job' \in [Handlers -> Job]
        <4>1. PICK n \in notices :
                job' = [job EXCEPT ![h] = [Idle EXCEPT
                  !.phase = "told", !.txn = n[1], !.news = n[2], !.found = txns[n[1]]]]
          BY <1>6 DEF ReceiveWebhook
        <4>2. n[1] \in Txns /\ n[2] \in Verdicts /\ txns[n[1]] \in TxnStatus
          BY <4>1 DEF IInv, TypeOK
        <4>3. [Idle EXCEPT !.phase = "told", !.txn = n[1], !.news = n[2],
                           !.found = txns[n[1]]] \in Job
          BY <4>2 DEF Idle
        <4> QED BY <4>1, <4>3 DEF IInv, TypeOK
      <3> QED BY <1>6, <3>1 DEF IInv, TypeOK, ReceiveWebhook
    <2>2. NoticesTrue' /\ Asked' /\ TxnAgreesWithProvider'
      BY <1>6 DEF IInv, TypeOK, NoticesTrue, Asked, JobTrue,
         OneInsert, TxnAgreesWithProvider, MoneyComesWithTransaction, ReceiveWebhook, Idle
    <2>3. JobTrue' /\ OneInsert'
      BY <1>6 DEF IInv, TypeOK, NoticesTrue, Asked, JobTrue,
         OneInsert, TxnAgreesWithProvider, MoneyComesWithTransaction, ReceiveWebhook, Idle
    <2>4. MoneyComesWithTransaction'
      BY <1>6 DEF IInv, TypeOK, NoticesTrue, Asked, JobTrue,
         OneInsert, TxnAgreesWithProvider, MoneyComesWithTransaction, ReceiveWebhook, Idle
    <2> QED BY <2>1, <2>2, <2>3, <2>4 DEF IInv
  <1>7. ASSUME NEW h \in Handlers, ReadStatus(h) PROVE IInv'
    <2>1. TypeOK'
      <3>1. job' \in [Handlers -> Job]
        <4>1. PICK t \in Txns :
                job' = [job EXCEPT ![h] = [Idle EXCEPT
                  !.phase = "asking", !.txn = t, !.found = "pending"]]
          BY <1>7 DEF ReadStatus
        <4>2. [Idle EXCEPT !.phase = "asking", !.txn = t, !.found = "pending"] \in Job
          BY <4>1 DEF Idle
        <4> QED BY <4>1, <4>2 DEF IInv, TypeOK
      <3> QED BY <1>7, <3>1 DEF IInv, TypeOK, ReadStatus
    <2>2. NoticesTrue' /\ Asked' /\ TxnAgreesWithProvider'
      BY <1>7 DEF IInv, TypeOK, NoticesTrue, Asked, JobTrue,
         OneInsert, TxnAgreesWithProvider, MoneyComesWithTransaction, ReadStatus, Idle
    <2>3. JobTrue' /\ OneInsert'
      BY <1>7 DEF IInv, TypeOK, NoticesTrue, Asked, JobTrue,
         OneInsert, TxnAgreesWithProvider, MoneyComesWithTransaction, ReadStatus, Idle
    <2>4. MoneyComesWithTransaction'
      BY <1>7 DEF IInv, TypeOK, NoticesTrue, Asked, JobTrue,
         OneInsert, TxnAgreesWithProvider, MoneyComesWithTransaction, ReadStatus, Idle
    <2> QED BY <2>1, <2>2, <2>3, <2>4 DEF IInv
  <1>8. ASSUME NEW h \in Handlers, Verify(h) PROVE IInv'
    <2>1. TypeOK'
      <3>1. job' \in [Handlers -> Job]
        <4>1. job[h] \in Job /\ provider[job[h].txn] \in Verdicts
          BY <1>8 DEF IInv, TypeOK, Verify
        <4>2. [job[h] EXCEPT !.phase = "told", !.news = provider[job[h].txn]] \in Job
          BY <4>1
        <4>3. job' = [job EXCEPT ![h] = [job[h] EXCEPT
                        !.phase = "told", !.news = provider[job[h].txn]]]
          BY <1>8 DEF IInv, TypeOK, Verify
        <4> QED BY <4>2, <4>3 DEF IInv, TypeOK
      <3> QED BY <1>8, <3>1 DEF IInv, TypeOK, Verify
    <2>2. NoticesTrue' /\ Asked' /\ TxnAgreesWithProvider'
      BY <1>8 DEF IInv, TypeOK, NoticesTrue, Asked, JobTrue,
         OneInsert, TxnAgreesWithProvider, MoneyComesWithTransaction, Verify
    <2>3. JobTrue' /\ OneInsert'
      BY <1>8 DEF IInv, TypeOK, NoticesTrue, Asked, JobTrue,
         OneInsert, TxnAgreesWithProvider, MoneyComesWithTransaction, Verify
    <2>4. MoneyComesWithTransaction'
      BY <1>8 DEF IInv, TypeOK, NoticesTrue, Asked, JobTrue,
         OneInsert, TxnAgreesWithProvider, MoneyComesWithTransaction, Verify
    <2> QED BY <2>1, <2>2, <2>3, <2>4 DEF IInv
  <1>9. ASSUME NEW h \in Handlers, ReadOrder(h) PROVE IInv'
    <2>1. TypeOK'
      <3>1. job' \in [Handlers -> Job]
        <4>1. job[h] \in Job /\ order \in OrderRow
          BY DEF IInv, TypeOK
        <4>2. [job[h] EXCEPT !.phase = "settling", !.base = order] \in Job
          BY <4>1
        <4>3. job' = [job EXCEPT ![h] = [job[h] EXCEPT !.phase = "settling", !.base = order]]
          BY <1>9 DEF IInv, TypeOK, ReadOrder
        <4> QED BY <4>2, <4>3 DEF IInv, TypeOK
      <3> QED BY <1>9, <3>1 DEF IInv, TypeOK, ReadOrder
    <2>2. NoticesTrue' /\ Asked' /\ TxnAgreesWithProvider'
      BY <1>9 DEF IInv, TypeOK, NoticesTrue, Asked, JobTrue,
         OneInsert, TxnAgreesWithProvider, MoneyComesWithTransaction, ReadOrder
    <2>3. JobTrue' /\ OneInsert'
      BY <1>9 DEF IInv, TypeOK, NoticesTrue, Asked, JobTrue,
         OneInsert, TxnAgreesWithProvider, MoneyComesWithTransaction, ReadOrder
    <2>4. MoneyComesWithTransaction'
      BY <1>9 DEF IInv, TypeOK, NoticesTrue, Asked, JobTrue,
         OneInsert, TxnAgreesWithProvider, MoneyComesWithTransaction, ReadOrder
    <2> QED BY <2>1, <2>2, <2>3, <2>4 DEF IInv
  <1>10. ASSUME NEW h \in Handlers, Settle(h) PROVE IInv'
    <2> DEFINE p == Paid(job[h].base, amount[job[h].txn])
    <2>0. p \in Nat /\ p <= Price
      BY <1>10, PaidWithinPrice DEF IInv, TypeOK, NoticesTrue, Asked, JobTrue,
         OneInsert, TxnAgreesWithProvider, MoneyComesWithTransaction, Settle
    <2> HIDE DEF p
    <2>1. TypeOK'
      BY <1>10, <2>0, PriceAssumption DEF IInv, TypeOK, Settle, Done, Idle, Column, StatusOfPaid, p
    <2>2. NoticesTrue' /\ Asked' /\ TxnAgreesWithProvider'
      BY <1>10, <2>0 DEF IInv, TypeOK, NoticesTrue, Asked, JobTrue,
         OneInsert, TxnAgreesWithProvider, MoneyComesWithTransaction, Settle, Done, Idle, Column, StatusOfPaid, p
    <2>3. JobTrue' /\ OneInsert'
      BY <1>10, <2>0 DEF IInv, TypeOK, NoticesTrue, Asked, JobTrue,
         OneInsert, TxnAgreesWithProvider, MoneyComesWithTransaction, Settle, Done, Idle, Column, StatusOfPaid, p
    <2>4. MoneyComesWithTransaction'
      BY <1>10, <2>0 DEF IInv, TypeOK, NoticesTrue, Asked, JobTrue,
         OneInsert, TxnAgreesWithProvider, MoneyComesWithTransaction, Settle, Done, Idle, Column, StatusOfPaid, p
    <2> QED BY <2>1, <2>2, <2>3, <2>4 DEF IInv
  <1>11. ASSUME NEW h \in Handlers, Fail(h) PROVE IInv'
    <2>1. TypeOK'
      BY <1>11, PriceAssumption DEF IInv, TypeOK, Fail, Done, Idle, Column
    <2>2. NoticesTrue' /\ Asked' /\ TxnAgreesWithProvider'
      BY <1>11 DEF IInv, TypeOK, NoticesTrue, Asked, JobTrue,
         OneInsert, TxnAgreesWithProvider, MoneyComesWithTransaction, Fail, Done, Idle, Column
    <2>3. JobTrue' /\ OneInsert'
      BY <1>11 DEF IInv, TypeOK, NoticesTrue, Asked, JobTrue,
         OneInsert, TxnAgreesWithProvider, MoneyComesWithTransaction, Fail, Done, Idle, Column
    <2>4. MoneyComesWithTransaction'
      BY <1>11 DEF IInv, TypeOK, NoticesTrue, Asked, JobTrue,
         OneInsert, TxnAgreesWithProvider, MoneyComesWithTransaction, Fail, Done, Idle, Column
    <2> QED BY <2>1, <2>2, <2>3, <2>4 DEF IInv
  <1>12. ASSUME NEW h \in Handlers, Forget(h) PROVE IInv'
    <2>1. TypeOK'
      BY <1>12, PriceAssumption DEF IInv, TypeOK, Forget, Done, Idle
    <2>2. NoticesTrue' /\ Asked' /\ TxnAgreesWithProvider'
      BY <1>12 DEF IInv, TypeOK, NoticesTrue, Asked, JobTrue,
         OneInsert, TxnAgreesWithProvider, MoneyComesWithTransaction, Forget, Done, Idle
    <2>3. JobTrue' /\ OneInsert'
      BY <1>12 DEF IInv, TypeOK, NoticesTrue, Asked, JobTrue,
         OneInsert, TxnAgreesWithProvider, MoneyComesWithTransaction, Forget, Done, Idle
    <2>4. MoneyComesWithTransaction'
      BY <1>12 DEF IInv, TypeOK, NoticesTrue, Asked, JobTrue,
         OneInsert, TxnAgreesWithProvider, MoneyComesWithTransaction, Forget, Done, Idle
    <2> QED BY <2>1, <2>2, <2>3, <2>4 DEF IInv
  <1>13. CASE UNCHANGED vars
    BY <1>13 DEF IInv, TypeOK, NoticesTrue, Asked, JobTrue,
         OneInsert, TxnAgreesWithProvider, MoneyComesWithTransaction, vars
  <1> QED
    BY <1>1, <1>2, <1>3, <1>4, <1>5, <1>6, <1>7, <1>8, <1>9, <1>10, <1>11, <1>12, <1>13 DEF Next, Handle

\* The strengthening is inductive when only final statuses are notified.
THEOREM Invariant ==
  ASSUME Notified \subseteq Final
  PROVE  Spec => []IInv
  <1>1. IInv /\ [Next]_vars => IInv'
    BY StepInvariant
  <1> QED BY InitInvariant, <1>1, PTL DEF Spec

\* Whatever webhooks and status requests do to each other, the order is never paid
\* beyond its price by mobile money and all rows keep their types.
THEOREM TypeCorrect ==
  ASSUME Notified \subseteq Final
  PROVE  Spec => []TypeOK
  <1>1. IInv => TypeOK
    BY DEF IInv
  <1> QED BY Invariant, <1>1, PTL

\* No transaction ever contradicts CinetPay.
THEOREM AgreesWithProvider ==
  ASSUME Notified \subseteq Final
  PROVE  Spec => []TxnAgreesWithProvider
  <1>1. IInv => TxnAgreesWithProvider
    BY DEF IInv
  <1> QED BY Invariant, <1>1, PTL

\* No mobile money on the order without a completed transaction.
THEOREM MoneyHasTransaction ==
  ASSUME Notified \subseteq Final
  PROVE  Spec => []MoneyComesWithTransaction
  <1>1. IInv => MoneyComesWithTransaction
    BY DEF IInv
  <1> QED BY Invariant, <1>1, PTL
=============================================================================
