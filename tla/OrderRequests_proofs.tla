------------------------- MODULE OrderRequests_proofs -------------------------
(***************************************************************************)
(* What survives any number of requests in flight.  Neither PaidBacked nor *)
(* LinesReadable can be read off one step: a save writes an entity that    *)
(* may be stale, so the invariant speaks of every entity a request holds   *)
(* (GoodJob) as well as of the row.                                        *)
(***************************************************************************)
EXTENDS OrderRequests, OrderAggregate_proofs

LinesFit(o) == \A i \in Items : o.delivered[i] <= o.quantity[i]

\* What the save of job j adds to the completed payments and to the refunds.
PaysIn(j)  == IF j.kind = "pay" THEN j.amount ELSE 0
PaysOut(j) == IF j.kind = "approve" THEN j.amount ELSE 0

\* An entity in memory shows no money that its own commit would not back.
GoodJob(j) ==
  /\ j \in Job
  /\ LinesFit(j.ent)
  /\ j.kind \in {"approve", "request", "reject"} => j.rid \in RefundIds
  /\ j.phase \in {"reviewing", "locked"} => j.kind = "approve"
  /\ SavesOrder(j) => /\ j.ent.paid <= received + PaysIn(j)
                      /\ j.ent.refunded <= returned + PaysOut(j)

IInv == /\ TypeOK
        /\ PaidBacked
        /\ LinesFit(order)
        /\ \A w \in Workers : GoodJob(job[w])

-----------------------------------------------------------------------------
\* Ledger! has its own copy of the definitions of OrderAggregate.
LEMMA SameAggregate ==
  /\ Ledger!Order = Order /\ Ledger!NoOrder = NoOrder
  /\ Refund = [status : Ledger!RefundStatus, requested : Nat, approved : Nat]
  /\ Ledger!NoRefund = NoRefund /\ Ledger!Refund = Refund
BY DEF Order, OrderStatus, PaymentStatus, Absent, NoOrder, NoLines, Refund, NoRefund,
   Ledger!Order, Ledger!OrderStatus, Ledger!PaymentStatus, Ledger!Absent,
   Ledger!NoOrder, Ledger!NoLines, Ledger!Refund, Ledger!NoRefund

LEMMA SameTypes ==
  Ledger!TypeOK <=> /\ order \in Order
                    /\ received \in Nat
                    /\ returned \in Nat
                    /\ refunds \in [RefundIds -> Refund]
BY SameAggregate DEF Ledger!TypeOK

LEMMA SameCreate ==
  ASSUME NEW t \in TermSheets, NEW q \in LineInputs(Items), NEW p \in [Items -> Prices],
         Ledger!CreateOrder(t, q, p)
  PROVE  /\ order' = WithLines(WithTerms([NoOrder EXCEPT !.status = "draft"], t), q, p)
         /\ UNCHANGED <<received, returned, refunds>>
BY SameAggregate DEF Ledger!CreateOrder, Ledger!Save, Ledger!WithLines, Ledger!WithTerms,
   Ledger!NoLines, WithLines, WithTerms, NoLines

LEMMA NoOrderFacts == NoOrder \in Order /\ LinesFit(NoOrder)
BY DEF NoOrder, NoLines, Order, OrderStatus, PaymentStatus, LinesFit

LEMMA IdleIsGood == GoodJob(Idle)
<1>1. NoRefund \in Refund
  BY DEF NoRefund, Refund, Ledger!NoRefund, Ledger!Refund, Ledger!RefundStatus
<1>2. Idle \in Job
  BY <1>1, NoOrderFacts DEF Idle, Job, Kinds
<1>3. Idle.kind = "none" /\ Idle.ent = NoOrder /\ Idle.phase = "idle"
  BY DEF Idle
<1> QED
  BY <1>2, <1>3, NoOrderFacts DEF GoodJob, SavesOrder

LEMMA InitIInv == Init => IInv
<1> SUFFICES ASSUME Init PROVE IInv
  OBVIOUS
<1>1. /\ order = NoOrder /\ received = 0 /\ returned = 0
      /\ refunds = [r \in RefundIds |-> NoRefund]
      /\ job = [w \in Workers |-> Idle] /\ deletionLost = FALSE
  BY SameAggregate DEF Init, Ledger!Init
<1>2. NoRefund \in Refund
  BY SameAggregate DEF NoRefund, Ledger!NoRefund, Ledger!RefundStatus
<1>3. \A w \in Workers : GoodJob(job[w])
  BY <1>1, IdleIsGood
<1>4. Ledger!TypeOK
  BY <1>1, <1>2, NoOrderFacts, SameTypes
<1>5. job \in [Workers -> Job]
  BY <1>1, IdleIsGood DEF GoodJob
<1>6. NoOrder.paid = 0 /\ NoOrder.refunded = 0
  BY DEF NoOrder
<1>7. PaidBacked /\ LinesFit(order)
  BY <1>1, <1>6, NoOrderFacts DEF PaidBacked
<1> QED
  BY <1>1, <1>3, <1>4, <1>5, <1>7 DEF IInv, TypeOK

-----------------------------------------------------------------------------
(* The three kinds of step: a request takes a new job, a request commits,  *)
(* the insert.                                                             *)

LEMMA TakeJob ==
  ASSUME IInv, NEW w \in Workers, NEW j, GoodJob(j),
         job' = [job EXCEPT ![w] = j], UNCHANGED db
  PROVE  IInv'
<1>1. \A v \in Workers : GoodJob(job[v])'
  <2>1. \A v \in Workers : job'[v] = IF v = w THEN j ELSE job[v]
    BY DEF IInv, TypeOK
  <2>2. \A v \in Workers : GoodJob(job'[v])
    BY <2>1 DEF IInv
  <2> QED
    BY <2>2 DEF GoodJob, db
<1>2. job' \in [Workers -> Job]
  BY DEF IInv, TypeOK, GoodJob
<1> QED
  BY <1>1, <1>2, SameAggregate DEF IInv, TypeOK, PaidBacked, LinesFit, db, Ledger!TypeOK

LEMMA FinishJob ==
  ASSUME IInv, NEW w \in Workers, job' = [job EXCEPT ![w] = Idle],
         order' \in Order, LinesFit(order'),
         received' \in Nat, returned' \in Nat, refunds' \in [RefundIds -> Refund],
         received <= received', returned <= returned',
         order'.paid <= received', order'.refunded <= returned', deletionLost' \in BOOLEAN
  PROVE  IInv'
<1>1. received \in Nat /\ returned \in Nat /\ job \in [Workers -> Job]
  BY SameTypes DEF IInv, TypeOK
<1>2. \A v \in Workers : job'[v] = IF v = w THEN Idle ELSE job[v]
  BY <1>1
<1>3. \A v \in Workers : GoodJob(job'[v])
  BY <1>2, IdleIsGood DEF IInv
<1>4. ASSUME NEW j, GoodJob(j)
      PROVE  GoodJob(j)'
  <2>1. /\ j.ent.paid \in Nat /\ j.ent.refunded \in Nat /\ j.amount \in Nat
    BY <1>4 DEF GoodJob, Job, Order
  <2> QED
    BY <1>1, <1>4, <2>1 DEF GoodJob, PaysIn, PaysOut
<1>5. \A v \in Workers : GoodJob(job[v])'
  BY <1>3, <1>4
<1>6. job' \in [Workers -> Job]
  BY <1>1, IdleIsGood DEF GoodJob
<1> QED
  BY <1>5, <1>6, SameAggregate DEF IInv, TypeOK, PaidBacked, LinesFit, Ledger!TypeOK

-----------------------------------------------------------------------------
(* The jobs requests take.                                                 *)

LEMMA EditJob ==
  ASSUME NEW n \in Order, LinesFit(n), n.paid <= received, n.refunded <= returned,
         received \in Nat, returned \in Nat, NEW k \in {"edit", "delete"}
  PROVE  GoodJob([Idle EXCEPT !.phase = "begun", !.kind = k, !.ent = n])
<1> DEFINE j == [Idle EXCEPT !.phase = "begun", !.kind = k, !.ent = n]
<1>1. Idle \in Job
  BY IdleIsGood DEF GoodJob
<1>2. j \in Job /\ j.kind = k /\ j.ent = n /\ j.phase = "begun"
  BY <1>1 DEF Job, Kinds
<1> HIDE DEF j
<1> QED
  BY <1>2 DEF GoodJob, PaysIn, PaysOut, j

LEMMA BeginEdit ==
  ASSUME IInv, NEW w \in Workers, NEW k \in {"edit", "delete"}, NEW n \in Order,
         LinesFit(n), n.paid = order.paid, n.refunded = order.refunded, Begin(w, k, n)
  PROVE  IInv'
<1>1. n.paid <= received /\ n.refunded <= returned /\ received \in Nat /\ returned \in Nat
  BY SameTypes DEF IInv, PaidBacked, TypeOK
<1>2. GoodJob([Idle EXCEPT !.phase = "begun", !.kind = k, !.ent = n])
  BY <1>1, EditJob
<1> QED
  BY <1>2, TakeJob DEF Begin

\* The requests that prepare a change of the order.
LEMMA BeginEditKeepsIInv ==
  ASSUME IInv, NEW w \in Workers,
         \/ BeginUpdateTerms(w) \/ BeginUpdateOrder(w) \/ BeginAddOrderItem(w)
         \/ BeginUpdateOrderItem(w) \/ BeginRemoveOrderItem(w)
         \/ BeginConfirm(w) \/ BeginCancel(w) \/ BeginDelete(w) \/ BeginDelivery(w)
  PROVE  IInv'
<1>0. order \in Order /\ LinesFit(order)
  BY SameTypes DEF IInv, TypeOK
<1>1. ASSUME NEW i \in Items, NEW q \in Nat, NEW p \in Nat, CanEditCommercialTerms(order),
             Begin(w, "edit", WithLine(order, i, q, p))
      PROVE  IInv'
  <2> DEFINE n == WithLine(order, i, q, p)
  <2>1. n \in Order
    BY <1>0, WithLineType
  <2>2. n.paid = order.paid /\ n.refunded = order.refunded /\ n.delivered = order.delivered
    BY <1>0 DEF WithLine, Order
  <2>3. \A k \in Items : order.delivered[k] = 0
    BY <1>0, <1>1 DEF CanEditCommercialTerms, HasDelivery, Order
  <2>4. \A k \in Items : n.quantity[k] \in Nat
    BY <2>1 DEF Order
  <2> HIDE DEF n
  <2>5. LinesFit(n)
    BY <2>2, <2>3, <2>4 DEF LinesFit
  <2>6. Begin(w, "edit", n)
    BY <1>1 DEF n
  <2> QED
    BY <2>1, <2>2, <2>5, <2>6, BeginEdit
<1>2. CASE BeginUpdateTerms(w)
  <2>1. PICK t \in TermSheets : Begin(w, "edit", WithTerms(order, t))
    BY <1>2 DEF BeginUpdateTerms
  <2> DEFINE n == WithTerms(order, t)
  <2>2. n \in Order
    BY <1>0, WithTermsType
  <2>3. /\ n.paid = order.paid /\ n.refunded = order.refunded
        /\ n.delivered = order.delivered /\ n.quantity = order.quantity
    BY <1>0 DEF WithTerms, Order
  <2>4. LinesFit(n)
    BY <1>0, <2>3 DEF LinesFit
  <2> HIDE DEF n
  <2> QED
    BY <2>1, <2>2, <2>3, <2>4, BeginEdit DEF n
<1>3. CASE BeginUpdateOrder(w)
  <2>1. PICK t \in TermSheets, q \in LineInputs(FreshItems), p \in [Items -> Prices] :
          Begin(w, "edit", WithLines(WithTerms(order, t), q, p))
    BY <1>3 DEF BeginUpdateOrder
  <2> DEFINE m == WithTerms(order, t)
             n == WithLines(m, q, p)
  <2>2. m \in Order
    BY <1>0, WithTermsType
  <2>3. n \in Order
    BY <2>2, WithLinesType
  <2>4. m.paid = order.paid /\ m.refunded = order.refunded
    BY <1>0 DEF WithTerms, Order
  <2>5. n.paid = m.paid /\ n.refunded = m.refunded /\ n.delivered = NoLines
    BY <2>2 DEF WithLines, Order
  <2>6. \A i \in Items : n.quantity[i] \in Nat
    BY <2>3 DEF Order
  <2> HIDE DEF m, n
  <2>7. LinesFit(n)
    BY <2>5, <2>6 DEF LinesFit, NoLines
  <2> QED
    BY <2>1, <2>3, <2>4, <2>5, <2>7, BeginEdit DEF m, n
<1>4. CASE BeginAddOrderItem(w) \/ BeginUpdateOrderItem(w)
  <2>1. PICK i \in Items, q \in Quantities, p \in Prices :
          CanEditCommercialTerms(order) /\ Begin(w, "edit", WithLine(order, i, q, p))
    BY <1>4 DEF BeginAddOrderItem, BeginUpdateOrderItem, FreshItems
  <2>2. q \in Nat /\ p \in Nat
    BY QuantityAssumption, PriceAssumption
  <2> QED
    BY <1>1, <2>1, <2>2
<1>5. CASE BeginRemoveOrderItem(w)
  <2>1. PICK i \in Items :
          CanEditCommercialTerms(order) /\ Begin(w, "edit", WithLine(order, i, 0, 0))
    BY <1>5 DEF BeginRemoveOrderItem
  <2> QED
    BY <1>1, <2>1
<1>6. ASSUME NEW k \in {"edit", "delete"},
             NEW n \in {Confirmed(order), Cancelled(order), Deleted(order)}, Begin(w, k, n)
      PROVE  IInv'
  <2>1. n \in Order
    BY <1>0, StatusType
  <2>2. /\ n.paid = order.paid /\ n.refunded = order.refunded
        /\ n.delivered = order.delivered /\ n.quantity = order.quantity
    BY <1>0 DEF Confirmed, Cancelled, Deleted, Order
  <2>3. LinesFit(n)
    BY <1>0, <2>2 DEF LinesFit
  <2> QED
    BY <1>6, <2>1, <2>2, <2>3, BeginEdit
<1>7. CASE BeginConfirm(w) \/ BeginCancel(w) \/ BeginDelete(w)
  BY <1>6, <1>7 DEF BeginConfirm, BeginCancel, BeginDelete
<1>8. CASE BeginDelivery(w)
  <2>1. PICK d \in [Items -> Quantities \cup {0}] :
          CanDeliver(order, d) /\ Begin(w, "edit", AfterDelivery(order, d))
    BY <1>8 DEF BeginDelivery
  <2> DEFINE n == AfterDelivery(order, d)
  <2>2. n \in Order
    BY <1>0, AfterDeliveryType
  <2>3. /\ n.paid = order.paid /\ n.refunded = order.refunded /\ n.quantity = order.quantity
        /\ n.delivered = [i \in Items |-> order.delivered[i] + d[i]]
    BY <1>0, AfterDeliveryColumns
  <2> HIDE DEF n
  <2>4. LinesFit(n)
    BY <2>1, <2>3 DEF LinesFit, CanDeliver
  <2> QED
    BY <2>1, <2>2, <2>3, <2>4, BeginEdit DEF n
<1> QED
  BY <1>2, <1>3, <1>4, <1>5, <1>7, <1>8

\* The requests that prepare a movement of money.
LEMMA BeginMoneyKeepsIInv ==
  ASSUME IInv, NEW w \in Workers,
         \/ BeginPayment(w) \/ BeginRequestRefund(w)
         \/ BeginApproveRefund(w) \/ BeginRejectRefund(w)
  PROVE  IInv'
<1>0. /\ order \in Order /\ LinesFit(order) /\ order.paid \in Nat /\ order.refunded \in Nat
      /\ received \in Nat /\ returned \in Nat /\ refunds \in [RefundIds -> Refund]
      /\ order.paid <= received /\ order.refunded <= returned
  BY SameTypes DEF IInv, TypeOK, PaidBacked, Order
<1>i. Idle \in Job /\ LinesFit(Idle.ent)
  BY IdleIsGood DEF GoodJob
<1>1. CASE BeginPayment(w)
  <2>1. PICK a \in Amounts, late \in BOOLEAN :
          /\ job' = [job EXCEPT ![w] = [Idle EXCEPT
                       !.phase = "begun", !.kind = "pay", !.amount = a,
                       !.ent = AfterPayment(order, a, late)]]
          /\ UNCHANGED db
    BY <1>1 DEF BeginPayment
  <2>2. a \in Nat
    BY AmountAssumption
  <2> DEFINE n == AfterPayment(order, a, late)
             j == [Idle EXCEPT !.phase = "begun", !.kind = "pay", !.amount = a, !.ent = n]
  <2>3. /\ n \in Order /\ n.paid = order.paid + a /\ n.refunded = order.refunded
        /\ n.quantity = order.quantity /\ n.delivered = order.delivered
    BY <1>0, <2>2, PaymentEffect
  <2> HIDE DEF n
  <2>4. j \in Job /\ j.kind = "pay" /\ j.amount = a /\ j.ent = n /\ j.phase = "begun"
    BY <1>i, <2>2, <2>3 DEF Job, Kinds
  <2> HIDE DEF j
  <2>5. GoodJob(j)
    BY <1>0, <2>2, <2>3, <2>4 DEF GoodJob, PaysIn, PaysOut, LinesFit
  <2> QED
    BY <2>1, <2>5, TakeJob DEF j, n
<1>2. CASE BeginApproveRefund(w)
  <2>1. PICK r \in RefundIds, a \in Amounts :
          /\ job' = [job EXCEPT ![w] = [Idle EXCEPT
                       !.phase = "reviewing", !.kind = "approve", !.rid = r, !.amount = a,
                       !.fund = [refunds[r] EXCEPT !.status = "completed", !.approved = a]]]
          /\ UNCHANGED db
    BY <1>2 DEF BeginApproveRefund
  <2>2. a \in Nat
    BY AmountAssumption
  <2> DEFINE f == [refunds[r] EXCEPT !.status = "completed", !.approved = a]
             j == [Idle EXCEPT !.phase = "reviewing", !.kind = "approve", !.rid = r,
                               !.amount = a, !.fund = f]
  <2>3. f \in Refund
    BY <1>0, <2>2, SameAggregate DEF Ledger!RefundStatus
  <2> HIDE DEF f
  <2>4. j \in Job /\ j.kind = "approve" /\ j.amount = a /\ j.rid = r /\ j.ent = Idle.ent
        /\ j.phase = "reviewing"
    BY <1>i, <2>2, <2>3 DEF Job, Kinds
  <2>5. Idle.ent.paid = 0 /\ Idle.ent.refunded = 0
    BY DEF Idle, NoOrder
  <2> HIDE DEF j
  <2>6. GoodJob(j)
    BY <1>0, <1>i, <2>2, <2>4, <2>5 DEF GoodJob, PaysIn, PaysOut
  <2> QED
    BY <2>1, <2>6, TakeJob DEF j, f
<1>3. ASSUME NEW r \in RefundIds, NEW f \in Refund, NEW k \in {"request", "reject"},
             job' = [job EXCEPT ![w] = [Idle EXCEPT
                       !.phase = "begun", !.kind = k, !.rid = r, !.fund = f]],
             UNCHANGED db
      PROVE  IInv'
  <2> DEFINE j == [Idle EXCEPT !.phase = "begun", !.kind = k, !.rid = r, !.fund = f]
  <2>1. j \in Job /\ j.kind = k /\ j.rid = r /\ j.ent = Idle.ent /\ j.phase = "begun"
    BY <1>i DEF Job, Kinds
  <2> HIDE DEF j
  <2>2. GoodJob(j)
    BY <1>i, <2>1 DEF GoodJob, SavesOrder
  <2> QED
    BY <1>3, <2>2, TakeJob DEF j
<1>4. CASE BeginRequestRefund(w)
  <2>1. PICK r \in RefundIds, a \in Amounts :
          /\ job' = [job EXCEPT ![w] = [Idle EXCEPT
                       !.phase = "begun", !.kind = "request", !.rid = r,
                       !.fund = [status |-> "requested", requested |-> a, approved |-> 0]]]
          /\ UNCHANGED db
    BY <1>4 DEF BeginRequestRefund
  <2>2. [status |-> "requested", requested |-> a, approved |-> 0] \in Refund
    BY AmountAssumption, SameAggregate DEF Ledger!RefundStatus
  <2> QED
    BY <1>3, <2>1, <2>2
<1>5. CASE BeginRejectRefund(w)
  <2>1. PICK r \in RefundIds :
          /\ job' = [job EXCEPT ![w] = [Idle EXCEPT
                       !.phase = "begun", !.kind = "reject", !.rid = r,
                       !.fund = [refunds[r] EXCEPT !.status = "rejected"]]]
          /\ UNCHANGED db
    BY <1>5 DEF BeginRejectRefund
  <2>2. [refunds[r] EXCEPT !.status = "rejected"] \in Refund
    BY <1>0, SameAggregate DEF Ledger!RefundStatus
  <2> QED
    BY <1>3, <2>1, <2>2
<1> QED
  BY <1>1, <1>2, <1>4, <1>5

-----------------------------------------------------------------------------
(* Saves.                                                                  *)

\* The second read of an approval.
LEMMA ApplyRefundKeepsIInv ==
  ASSUME IInv, NEW w \in Workers, ApplyRefund(w)
  PROVE  IInv'
<1> DEFINE i == job[w]
<1>0. /\ order \in Order /\ LinesFit(order) /\ order.paid \in Nat /\ order.refunded \in Nat
      /\ received \in Nat /\ returned \in Nat
      /\ job \in [Workers -> Job] /\ GoodJob(i)
      /\ order.paid <= received /\ order.refunded <= returned
  BY SameTypes DEF IInv, TypeOK, PaidBacked, Order
<1>1. PICK late \in BOOLEAN :
        job' = [job EXCEPT ![w].phase = "begun",
                           ![w].ent = AfterRefund(order, i.amount, late)]
  BY DEF ApplyRefund
<1>2. CanRefund(order, i.amount) /\ UNCHANGED db
  BY DEF ApplyRefund, Refundable
<1>3. i.amount \in Nat /\ i \in Job
  BY <1>0 DEF GoodJob, Job
<1> DEFINE n == AfterRefund(order, i.amount, late)
           j == [i EXCEPT !.phase = "begun", !.ent = n]
<1>4. /\ n \in Order /\ n.paid = order.paid - i.amount /\ n.refunded = order.refunded + i.amount
      /\ n.quantity = order.quantity /\ n.delivered = order.delivered
  BY <1>0, <1>2, <1>3, RefundEffect
<1> HIDE DEF n
<1>5. /\ j \in Job /\ j.kind = i.kind /\ j.amount = i.amount /\ j.rid = i.rid /\ j.ent = n
      /\ j.phase = "begun"
  BY <1>3, <1>4 DEF Job
<1>6. job' = [job EXCEPT ![w] = j]
  BY <1>0, <1>1, <1>3 DEF n, Job
<1>7. i.kind = "approve"
  BY <1>0 DEF ApplyRefund, GoodJob
<1> HIDE DEF j
<1>8. GoodJob(j)
  BY <1>0, <1>3, <1>4, <1>5, <1>7 DEF GoodJob, PaysIn, PaysOut, LinesFit
<1> QED
  BY <1>2, <1>6, <1>8, TakeJob

\* Re-reading a row, or locking it, leaves the entity as it is.
LEMMA Reread ==
  ASSUME IInv, NEW w \in Workers, Load(w) \/ LoadRefund(w) \/ LockRow(w)
  PROVE  IInv'
<1> DEFINE j == job[w]
<1>0. /\ order \in Order /\ refunds \in [RefundIds -> Refund]
      /\ job \in [Workers -> Job] /\ GoodJob(j)
  BY SameTypes DEF IInv, TypeOK
<1>1. ASSUME NEW n \in Job, n.kind = j.kind, n.ent = j.ent, n.amount = j.amount,
             n.rid = j.rid, n.phase \in {"reviewing", "locked"} => n.kind = "approve",
             job' = [job EXCEPT ![w] = n], UNCHANGED db
      PROVE  IInv'
  <2>1. GoodJob(n)
    BY <1>0, <1>1 DEF GoodJob, SavesOrder, PaysIn, PaysOut
  <2> QED
    BY <1>1, <2>1, TakeJob
<1>2. CASE Load(w)
  <2> DEFINE n == [j EXCEPT !.phase = "loaded", !.base = order]
  <2>1. /\ n \in Job /\ n.kind = j.kind /\ n.ent = j.ent
        /\ n.amount = j.amount /\ n.rid = j.rid /\ n.phase = "loaded"
    BY <1>0 DEF Job
  <2>2. job' = [job EXCEPT ![w] = n] /\ UNCHANGED db
    BY <1>0, <1>2 DEF Load, Job
  <2> HIDE DEF n
  <2> QED
    BY <1>1, <2>1, <2>2
<1>3. ASSUME NEW ph \in {"loaded", "locked"}, j.kind \in {"approve", "reject"},
             ph = "locked" => j.kind = "approve",
             job' = [job EXCEPT ![w].phase = ph, ![w].fbase = refunds[job[w].rid]],
             UNCHANGED db
      PROVE  IInv'
  <2> DEFINE n == [j EXCEPT !.phase = ph, !.fbase = refunds[j.rid]]
  <2>1. refunds[j.rid] \in Refund
    BY <1>0, <1>3 DEF GoodJob
  <2>2. /\ n \in Job /\ n.kind = j.kind /\ n.ent = j.ent
        /\ n.amount = j.amount /\ n.rid = j.rid /\ n.phase = ph
    BY <1>0, <2>1 DEF Job
  <2>3. job' = [job EXCEPT ![w] = n]
    BY <1>0, <1>3 DEF Job
  <2> HIDE DEF n
  <2> QED
    BY <1>1, <1>3, <2>2, <2>3
<1>4. CASE LoadRefund(w)
  BY <1>3, <1>4 DEF LoadRefund
<1>5. CASE LockRow(w)
  BY <1>3, <1>5 DEF LockRow
<1> QED
  BY <1>2, <1>4, <1>5

LEMMA ColumnType ==
  ASSUME NEW S, NEW row \in S, NEW base \in S, NEW ent \in S
  PROVE  Column(row, base, ent) \in S /\ Column(row, base, ent) \in {row, ent}
BY DEF Column

LEMMA RowsType ==
  ASSUME NEW row, NEW base, NEW ent,
         NEW rowcol \in [Items -> Nat], NEW entcol \in [Items -> Nat]
  PROVE  Rows(row, base, ent, rowcol, entcol) \in [Items -> Nat]
BY DEF Rows

\* Whatever is stale, a save leaves a typed order, whose lines are each the
\* row's or the entity's, and whose money is the row's or the entity's.
LEMMA WrittenFacts ==
  ASSUME NEW row \in Order, NEW base \in Order, NEW ent \in Order,
         LinesFit(row), LinesFit(ent)
  PROVE  LET n == Written(row, base, ent) IN
         /\ n \in Order /\ LinesFit(n)
         /\ n.paid \in {row.paid, ent.paid}
         /\ n.refunded \in {row.refunded, ent.refunded}
<1> DEFINE n == Written(row, base, ent)
<1>1. /\ n.paid \in {row.paid, ent.paid}
      /\ n.refunded \in {row.refunded, ent.refunded}
  BY DEF Written, Column
<1>2. /\ n.quantity \in [Items -> Nat] /\ n.price \in [Items -> Nat]
      /\ n.delivered \in [Items -> Nat]
  BY RowsType DEF Written, Order
<1>3. /\ n.status \in OrderStatus \cup {Absent} /\ n.payment_status \in PaymentStatus
      /\ n.is_deleted \in BOOLEAN /\ n.tax_rate \in Nat /\ n.discount \in Nat
      /\ n.shipping \in Nat /\ n.paid \in Nat /\ n.refunded \in Nat
  BY ColumnType DEF Written, Order
<1>4. n \in Order
  BY <1>2, <1>3 DEF Written, Order
<1>5. ASSUME NEW i \in Items
      PROVE  n.delivered[i] <= n.quantity[i]
  BY <1>5 DEF Written, Rows, LinesFit
<1> QED
  BY <1>1, <1>4, <1>5 DEF LinesFit

LEMMA SaveRefundType ==
  ASSUME refunds \in [RefundIds -> Refund], NEW w \in Workers, job[w] \in Job, SaveRefund(w)
  PROVE  refunds' \in [RefundIds -> Refund]
<1> DEFINE j == job[w]
<1>1. j.fund \in Refund /\ j.fbase \in Refund
  BY DEF Job
<1>2. ASSUME NEW f \in Refund
      PROVE  MergeRefund(f, j.fbase, j.fund) \in Refund
  BY <1>1, <1>2, ColumnType, SameAggregate DEF MergeRefund
<1> QED
  BY <1>2 DEF SaveRefund

LEMMA SaveKeepsIInv ==
  ASSUME IInv, NEW w \in Workers,
         CommitOrder(w) \/ CommitPayment(w) \/ CommitApproval(w)
  PROVE  IInv'
<1> DEFINE j == job[w]
<1>0. /\ order \in Order /\ LinesFit(order) /\ refunds \in [RefundIds -> Refund]
      /\ received \in Nat /\ returned \in Nat /\ GoodJob(j)
      /\ order.paid \in Nat /\ order.refunded \in Nat
      /\ order.paid <= received /\ order.refunded <= returned /\ deletionLost \in BOOLEAN
  BY SameTypes DEF IInv, TypeOK, PaidBacked, Order
<1>1. /\ j.base \in Order /\ j.ent \in Order /\ j.amount \in Nat
      /\ j.ent.paid \in Nat /\ j.ent.refunded \in Nat /\ LinesFit(j.ent)
  BY <1>0 DEF GoodJob, Job, Order
<1>2. /\ Result(w) \in Order /\ LinesFit(Result(w))
      /\ Result(w).paid \in {order.paid, j.ent.paid}
      /\ Result(w).refunded \in {order.refunded, j.ent.refunded}
  BY <1>0, <1>1, WrittenFacts DEF Result
<1>3. CASE CommitOrder(w)
  <2>1. /\ order' = Result(w) /\ job' = [job EXCEPT ![w] = Idle]
        /\ UNCHANGED <<received, returned, refunds>>
        /\ j.ent.paid <= received /\ j.ent.refunded <= returned
    BY <1>0, <1>3 DEF CommitOrder, Done, GoodJob, SavesOrder, PaysIn, PaysOut
  <2>4. deletionLost' \in BOOLEAN
    BY <1>0, <1>3 DEF CommitOrder
  <2>2. order'.paid <= received' /\ order'.refunded <= returned'
    BY <1>0, <1>2, <2>1
  <2>3. received <= received' /\ returned <= returned'
    BY <1>0, <2>1
  <2> QED
    BY <1>0, <1>2, <2>1, <2>2, <2>3, <2>4, FinishJob
<1>4. CASE CommitPayment(w)
  <2>1. /\ order' = Result(w) /\ job' = [job EXCEPT ![w] = Idle]
        /\ received' = received + j.amount /\ UNCHANGED <<returned, refunds, deletionLost>>
        /\ j.ent.paid <= received + j.amount /\ j.ent.refunded <= returned
    BY <1>0, <1>4 DEF CommitPayment, Done, GoodJob, SavesOrder, PaysIn, PaysOut
  <2>2. order'.paid <= received' /\ order'.refunded <= returned'
    BY <1>0, <1>1, <1>2, <2>1
  <2>3. received <= received' /\ returned <= returned' /\ received' \in Nat
    BY <1>0, <1>1, <2>1
  <2> QED
    BY <1>0, <1>2, <2>1, <2>2, <2>3, FinishJob
<1>5. CASE CommitApproval(w)
  <2>1. /\ order' = Result(w) /\ job' = [job EXCEPT ![w] = Idle]
        /\ returned' = returned + j.amount /\ UNCHANGED <<received, deletionLost>>
        /\ j.kind = "approve"
    BY <1>0, <1>5 DEF CommitApproval, Done, GoodJob
  <2>2. j.ent.paid <= received /\ j.ent.refunded <= returned + j.amount
    BY <1>0, <2>1 DEF GoodJob, SavesOrder, PaysIn, PaysOut
  <2>3. order'.paid <= received' /\ order'.refunded <= returned'
    BY <1>0, <1>1, <1>2, <2>1, <2>2
  <2>4. received <= received' /\ returned <= returned' /\ returned' \in Nat
    BY <1>0, <1>1, <2>1
  <2>5. refunds' \in [RefundIds -> Refund]
    BY <1>0, <1>5, SaveRefundType DEF CommitApproval, GoodJob
  <2> QED
    BY <1>0, <1>2, <2>1, <2>3, <2>4, <2>5, FinishJob
<1> QED
  BY <1>3, <1>4, <1>5

\* Requests that end without touching the order's row.
LEMMA EndKeepsIInv ==
  ASSUME IInv, NEW w \in Workers,
         \/ CommitRejection(w) \/ CommitRefundRequest(w) \/ Refuse(w) \/ Crash(w)
  PROVE  IInv'
<1>0. /\ order \in Order /\ LinesFit(order) /\ refunds \in [RefundIds -> Refund]
      /\ received \in Nat /\ returned \in Nat /\ job[w] \in Job /\ GoodJob(job[w])
      /\ order.paid <= received /\ order.refunded <= returned /\ deletionLost \in BOOLEAN
  BY SameTypes DEF IInv, TypeOK, PaidBacked
<1>1. ASSUME UNCHANGED <<order, received, returned, deletionLost>>, Done(w),
             refunds' \in [RefundIds -> Refund]
      PROVE  IInv'
  <2>1. /\ order' \in Order /\ LinesFit(order') /\ received' \in Nat /\ returned' \in Nat
        /\ received <= received' /\ returned <= returned'
        /\ order'.paid <= received' /\ order'.refunded <= returned'
        /\ deletionLost' \in BOOLEAN
    BY <1>0, <1>1
  <2>2. job' = [job EXCEPT ![w] = Idle]
    BY <1>1 DEF Done
  <2> QED
    BY <1>1, <2>1, <2>2, FinishJob
<1>2. CASE CommitRejection(w)
  <2>1. refunds' \in [RefundIds -> Refund]
    BY <1>0, <1>2, SaveRefundType DEF CommitRejection
  <2> QED
    BY <1>1, <1>2, <2>1 DEF CommitRejection
<1>3. CASE CommitRefundRequest(w)
  <2>1. refunds' \in [RefundIds -> Refund]
    <3>1. job[w].fund \in Refund
      BY <1>0 DEF Job
    <3> QED
      BY <1>0, <1>3, <3>1 DEF CommitRefundRequest
  <2> QED
    BY <1>1, <1>3, <2>1 DEF CommitRefundRequest
<1>4. CASE Refuse(w) \/ Crash(w)
  BY <1>0, <1>1, <1>4 DEF Refuse, Crash, db
<1> QED
  BY <1>2, <1>3, <1>4

LEMMA CreateKeepsIInv ==
  ASSUME IInv, NEW w \in Workers, CreateOrder(w)
  PROVE  IInv'
<1> DEFINE d == [NoOrder EXCEPT !.status = "draft"]
<1>1. PICK t \in TermSheets, q \in LineInputs(Items), p \in [Items -> Prices] :
        Ledger!CreateOrder(t, q, p)
  BY DEF CreateOrder
<1> DEFINE m == WithTerms(d, t)
           n == WithLines(m, q, p)
<1>2. order' = n /\ UNCHANGED <<received, returned, refunds>>
  BY <1>1, SameCreate
<1>3. d \in Order /\ d.paid = 0 /\ d.refunded = 0
  <2>1. NoOrder.paid = 0 /\ NoOrder.refunded = 0
    BY DEF NoOrder
  <2> QED
    BY <2>1, NoOrderFacts DEF Order, OrderStatus
<1>4. m \in Order
  BY <1>3, WithTermsType
<1>5. n \in Order
  BY <1>4, WithLinesType
<1>6. m.paid = d.paid /\ m.refunded = d.refunded
  BY <1>3 DEF WithTerms, Order
<1>7. n.paid = m.paid /\ n.refunded = m.refunded /\ n.delivered = NoLines
  BY <1>4 DEF WithLines, Order
<1>8. \A i \in Items : n.quantity[i] \in Nat
  BY <1>5 DEF Order
<1> HIDE DEF d, m, n
<1>9. LinesFit(n)
  BY <1>7, <1>8 DEF LinesFit, NoLines
<1>10. received \in Nat /\ returned \in Nat /\ refunds \in [RefundIds -> Refund]
       /\ job \in [Workers -> Job] /\ deletionLost \in BOOLEAN
  BY SameTypes DEF IInv, TypeOK
<1>11. PaidBacked'
  BY <1>2, <1>3, <1>6, <1>7, <1>10 DEF PaidBacked
<1>12. \A v \in Workers : GoodJob(job[v])'
  BY <1>2 DEF CreateOrder, IInv, GoodJob
<1>13. TypeOK'
  BY <1>2, <1>5, <1>10, SameAggregate DEF CreateOrder, TypeOK, Ledger!TypeOK
<1>14. LinesFit(order)'
  BY <1>2, <1>9 DEF LinesFit
<1> QED
  BY <1>11, <1>12, <1>13, <1>14 DEF IInv

LEMMA StepIInv == IInv /\ [Next]_vars => IInv'
<1> SUFFICES ASSUME IInv, [Next]_vars PROVE IInv'
  OBVIOUS
<1>1. ASSUME NEW w \in Workers, CreateOrder(w) \/ BeginAny(w) \/ Proceed(w) \/ Crash(w)
      PROVE  IInv'
  <2>1. CASE BeginAny(w)
    BY <2>1, BeginEditKeepsIInv, BeginMoneyKeepsIInv DEF BeginAny
  <2>2. CASE Proceed(w) \/ Crash(w)
    BY <2>2, ApplyRefundKeepsIInv, Reread, SaveKeepsIInv, EndKeepsIInv DEF Proceed
  <2> QED
    BY <1>1, <2>1, <2>2, CreateKeepsIInv
<1>2. CASE UNCHANGED vars
  BY <1>2 DEF vars, IInv, TypeOK, Ledger!TypeOK, PaidBacked, LinesFit, GoodJob
<1> QED
  BY <1>1, <1>2 DEF Next

-----------------------------------------------------------------------------
\* The invariant the theorems below rest on, for any number of requests.
THEOREM Invariant == Spec => []IInv
<1> QED
  BY InitIInv, StepIInv, PTL DEF Spec

\* Rows and entities in memory keep their types.
THEOREM TypeCorrect == Spec => []TypeOK
<1>1. IInv => TypeOK
  BY DEF IInv
<1> QED
  BY <1>1, Invariant, PTL

\* Lost updates can hide money received, but never show money that was not: each
\* save writes paid_cents and refunded_cents that completed transactions back
\* (record_payment.py:50, manage_refund.py:88, order_repository.py:88).
THEOREM MoneyShownIsBacked == Spec => []PaidBacked
<1>1. IInv => PaidBacked
  BY DEF IInv
<1> QED
  BY <1>1, Invariant, PTL

\* Replacing item rows by stale ones leaves each line whole, so that
\* OrderItem.__post_init__ always accepts what is read back.
THEOREM LinesStayReadable == Spec => []LinesReadable
<1>1. IInv => LinesReadable
  BY DEF IInv, GoodJob, LinesFit, LinesReadable
<1> QED
  BY <1>1, Invariant, PTL

-----------------------------------------------------------------------------
(* Refunds.  A refund request is one job's until it is inserted, and what  *)
(* was asked for never changes afterwards.                                 *)

Reviews(j) == j.kind \in {"approve", "reject"}

\* What a job may do to the refund it names.
Claims(j) ==
  /\ j.kind = "request" \/ Reviews(j) => j.fund.status # "absent" /\ j.fund.approved <= j.fund.requested
  /\ j.kind = "request" => refunds[j.rid].status = "absent"
  /\ Reviews(j) => /\ refunds[j.rid].status # "absent"
                   /\ j.fund.requested = refunds[j.rid].requested
                   /\ j.phase \in {"loaded", "locked"} /\ (j.phase = "loaded" => j.kind = "reject")
                        => j.fbase.requested = j.fund.requested
  /\ ~(j.kind = "request" \/ Reviews(j)) => j.rid = NoId

\* No other job names a refund that is being inserted.
InsertsAlone == \A v, w \in Workers : v # w /\ job[v].kind = "request" => job[v].rid # job[w].rid

RefundInv == /\ ApprovalsWithinRequest
             /\ \A w \in Workers : Claims(job[w])
             /\ InsertsAlone

LEMMA IdleClaims == Claims(Idle)
BY DEF Claims, Reviews, Idle

\* A request takes a job, or goes on with its own; the refunds stay.
LEMMA TakeClaim ==
  ASSUME IInv, IInv', RefundInv, NEW w \in Workers, NEW j, Claims(j),
         j.kind = "request" => \A v \in Workers \ {w} : job[v].rid # j.rid,
         job' = [job EXCEPT ![w] = j], UNCHANGED db
  PROVE  RefundInv'
<1> USE DEF db
<1>1. \A v \in Workers : job'[v] = IF v = w THEN j ELSE job[v]
  BY DEF IInv, TypeOK
<1>2. \A v \in Workers : Claims(job[v])'
  BY <1>1 DEF RefundInv, Claims, Reviews
<1>3. ASSUME NEW v \in Workers \ {w}, job[v].kind = "request"
      PROVE  job[v].rid # j.rid
  <2>1. job[v].rid \in RefundIds /\ refunds[job[v].rid].status = "absent"
    BY <1>3 DEF IInv, GoodJob, RefundInv, Claims
  <2>2. CASE Reviews(j)
    BY <2>1, <2>2 DEF Claims
  <2>3. CASE j.kind # "request" /\ ~Reviews(j)
    BY <2>1, <2>3, NoIdAssumption DEF Claims
  <2> QED
    BY <2>2, <2>3
<1>4. InsertsAlone'
  BY <1>1, <1>3 DEF RefundInv, InsertsAlone
<1> QED
  BY <1>2, <1>4 DEF RefundInv, ApprovalsWithinRequest

\* The job ends with the refund it names written.
LEMMA EndClaim ==
  ASSUME IInv, RefundInv, NEW w \in Workers, NEW f,
         job[w].kind = "request" \/ Reviews(job[w]),
         job' = [job EXCEPT ![w] = Idle], refunds' = [refunds EXCEPT ![job[w].rid] = f],
         f.status # "absent", f.approved <= f.requested,
         Reviews(job[w]) => f.requested = refunds[job[w].rid].requested
  PROVE  RefundInv'
<1> DEFINE r == job[w].rid
<1>0. r \in RefundIds /\ refunds \in [RefundIds -> Refund] /\ Claims(job[w])
  BY SameTypes DEF IInv, TypeOK, GoodJob, Reviews, RefundInv
<1>1. \A v \in Workers : job'[v] = IF v = w THEN Idle ELSE job[v]
  BY DEF IInv, TypeOK
<1>2. \A s \in RefundIds : refunds'[s] = IF s = r THEN f ELSE refunds[s]
  BY <1>0
<1>3. ASSUME NEW v \in Workers \ {w}
      PROVE  Claims(job[v])'
  <2> DEFINE j == job[v]
  <2>1. Claims(j) /\ (j.kind = "request" \/ Reviews(j) => j.rid \in RefundIds)
    BY DEF IInv, GoodJob, Reviews, RefundInv
  <2>2. j.kind = "request" => j.rid # r
    BY DEF RefundInv, InsertsAlone
  <2>3. Reviews(j) /\ j.rid = r => Reviews(job[w])
    BY <1>0, <2>1 DEF Claims
  <2>4. job'[v] = j
    BY <1>1
  <2>5. Reviews(j) => refunds'[j.rid].status # "absent"
                      /\ refunds'[j.rid].requested = refunds[j.rid].requested
    BY <1>2, <2>1, <2>3 DEF Claims
  <2>6. j.kind = "request" => refunds'[j.rid] = refunds[j.rid]
    BY <1>2, <2>1, <2>2
  <2> QED
    BY <2>1, <2>4, <2>5, <2>6 DEF Claims, Reviews
<1>4. Claims(Idle)'
  BY DEF Claims, Reviews, Idle
<1>5. \A v \in Workers : Claims(job[v])'
  BY <1>1, <1>3, <1>4
<1>6. InsertsAlone'
  <2>1. Idle.kind = "none" /\ Idle.rid = NoId
    BY DEF Idle
  <2>2. \A v \in Workers : job[v].kind = "request" => job[v].rid # NoId
    BY NoIdAssumption DEF IInv, GoodJob
  <2> QED
    BY <1>1, <2>1, <2>2 DEF RefundInv, InsertsAlone
<1>7. ApprovalsWithinRequest'
  BY <1>2 DEF RefundInv, ApprovalsWithinRequest
<1> QED
  BY <1>5, <1>6, <1>7 DEF RefundInv

\* The jobs that name no refund.
LEMMA TakesNone ==
  ASSUME IInv, IInv', RefundInv, NEW w \in Workers, NEW j, job' = [job EXCEPT ![w] = j],
         UNCHANGED db, j.kind \notin {"request", "approve", "reject"}, j.rid = NoId
  PROVE  RefundInv'
<1>1. Claims(j)
  BY DEF Claims, Reviews
<1> QED
  BY <1>1, TakeClaim

LEMMA BeginKeepsRefunds ==
  ASSUME IInv, IInv', RefundInv, NEW w \in Workers, BeginAny(w)
  PROVE  RefundInv'
<1>0. refunds \in [RefundIds -> Refund]
  BY SameTypes DEF IInv, TypeOK
<1>1. ASSUME NEW k \in {"edit", "delete"}, NEW n, Begin(w, k, n)
      PROVE  RefundInv'
  <2> DEFINE j == [Idle EXCEPT !.phase = "begun", !.kind = k, !.ent = n]
  <2>1. j.kind = k /\ j.rid = NoId
    BY DEF Idle
  <2>2. job' = [job EXCEPT ![w] = j] /\ UNCHANGED db
    BY <1>1 DEF Begin
  <2> HIDE DEF j
  <2> QED
    BY <2>1, <2>2, TakesNone
<1>2. CASE BeginPayment(w)
  <2>1. PICK a \in Amounts, late \in BOOLEAN :
          /\ job' = [job EXCEPT ![w] = [Idle EXCEPT
                       !.phase = "begun", !.kind = "pay", !.amount = a,
                       !.ent = AfterPayment(order, a, late)]]
          /\ UNCHANGED db
    BY <1>2 DEF BeginPayment
  <2> DEFINE n == AfterPayment(order, a, late)
             j == [Idle EXCEPT !.phase = "begun", !.kind = "pay", !.amount = a, !.ent = n]
  <2>2. job' = [job EXCEPT ![w] = j]
    BY <2>1
  <2> HIDE DEF n
  <2>3. j.kind = "pay" /\ j.rid = NoId
    BY DEF Idle
  <2> HIDE DEF j
  <2> QED
    BY <2>1, <2>2, <2>3, TakesNone
<1>3. ASSUME NEW r \in RefundIds, NEW j, Reviews(j), j.rid = r,
             j.phase \in {"reviewing", "begun"},
             refunds[r].status # "absent", j.fund.status # "absent",
             j.fund.requested = refunds[r].requested, j.fund.approved <= j.fund.requested,
             job' = [job EXCEPT ![w] = j], UNCHANGED db
      PROVE  RefundInv'
  <2>1. Claims(j)
    BY <1>3 DEF Claims, Reviews
  <2> QED
    BY <1>3, <2>1, TakeClaim DEF Reviews
<1>4. CASE BeginApproveRefund(w)
  <2>1. PICK r \in RefundIds, a \in Amounts :
          /\ Ledger!Reviewable(refunds[r])
          /\ a <= refunds[r].requested
          /\ job' = [job EXCEPT ![w] = [Idle EXCEPT
                       !.phase = "reviewing", !.kind = "approve", !.rid = r, !.amount = a,
                       !.fund = [refunds[r] EXCEPT !.status = "completed", !.approved = a]]]
          /\ UNCHANGED db
    BY <1>4 DEF BeginApproveRefund
  <2> DEFINE f == [refunds[r] EXCEPT !.status = "completed", !.approved = a]
  <2>2. /\ refunds[r].status # "absent" /\ f.status = "completed"
        /\ f.requested = refunds[r].requested /\ f.approved = a
    BY <1>0, <2>1, SameAggregate DEF Ledger!Reviewable
  <2> HIDE DEF f
  <2> DEFINE j == [Idle EXCEPT !.phase = "reviewing", !.kind = "approve", !.rid = r,
                               !.amount = a, !.fund = f]
  <2>3. job' = [job EXCEPT ![w] = j]
    BY <2>1 DEF f
  <2>4. j.phase = "reviewing" /\ j.kind = "approve" /\ j.rid = r /\ j.fund = f
    BY DEF Idle
  <2> HIDE DEF j
  <2>5. /\ Reviews(j) /\ j.rid = r /\ j.phase \in {"reviewing", "begun"}
        /\ refunds[r].status # "absent" /\ j.fund.status # "absent"
        /\ j.fund.requested = refunds[r].requested /\ j.fund.approved <= j.fund.requested
    BY <2>1, <2>2, <2>4 DEF Reviews
  <2> QED
    BY <1>3, <2>1, <2>3, <2>5
<1>5. CASE BeginRejectRefund(w)
  <2>1. PICK r \in RefundIds :
          /\ Ledger!Reviewable(refunds[r])
          /\ job' = [job EXCEPT ![w] = [Idle EXCEPT
                       !.phase = "begun", !.kind = "reject", !.rid = r,
                       !.fund = [refunds[r] EXCEPT !.status = "rejected"]]]
          /\ UNCHANGED db
    BY <1>5 DEF BeginRejectRefund
  <2> DEFINE f == [refunds[r] EXCEPT !.status = "rejected"]
  <2>2. /\ refunds[r].status # "absent" /\ f.status = "rejected"
        /\ f.requested = refunds[r].requested /\ f.approved = refunds[r].approved
    BY <1>0, <2>1, SameAggregate DEF Ledger!Reviewable
  <2>3. f.approved <= f.requested
    BY <2>2 DEF RefundInv, ApprovalsWithinRequest
  <2> HIDE DEF f
  <2> DEFINE j == [Idle EXCEPT !.phase = "begun", !.kind = "reject", !.rid = r, !.fund = f]
  <2>4. job' = [job EXCEPT ![w] = j]
    BY <2>1 DEF f
  <2>5. j.phase = "begun" /\ j.kind = "reject" /\ j.rid = r /\ j.fund = f
    BY DEF Idle
  <2> HIDE DEF j
  <2>6. /\ Reviews(j) /\ j.rid = r /\ j.phase \in {"reviewing", "begun"}
        /\ refunds[r].status # "absent" /\ j.fund.status # "absent"
        /\ j.fund.requested = refunds[r].requested /\ j.fund.approved <= j.fund.requested
    BY <2>1, <2>2, <2>3, <2>5 DEF Reviews
  <2> QED
    BY <1>3, <2>1, <2>4, <2>6
<1>6. CASE BeginRequestRefund(w)
  <2>1. PICK r \in RefundIds, a \in Amounts :
          /\ refunds[r].status = "absent" /\ \A v \in Workers : job[v].rid # r
          /\ job' = [job EXCEPT ![w] = [Idle EXCEPT
                       !.phase = "begun", !.kind = "request", !.rid = r,
                       !.fund = [status |-> "requested", requested |-> a, approved |-> 0]]]
          /\ UNCHANGED db
    BY <1>6 DEF BeginRequestRefund
  <2> DEFINE f == [status |-> "requested", requested |-> a, approved |-> 0]
             j == [Idle EXCEPT !.phase = "begun", !.kind = "request", !.rid = r, !.fund = f]
  <2>2. job' = [job EXCEPT ![w] = j]
    BY <2>1
  <2>3. f.status = "requested" /\ f.approved <= f.requested
    BY AmountAssumption
  <2> HIDE DEF f
  <2>4. j.kind = "request" /\ j.rid = r /\ j.fund = f /\ j.phase = "begun"
    BY DEF Idle
  <2> HIDE DEF j
  <2>5. Claims(j)
    BY <2>1, <2>3, <2>4 DEF Claims, Reviews
  <2> QED
    BY <2>1, <2>2, <2>4, <2>5, TakeClaim
<1>7. CASE \/ BeginUpdateTerms(w) \/ BeginUpdateOrder(w) \/ BeginAddOrderItem(w)
           \/ BeginUpdateOrderItem(w) \/ BeginRemoveOrderItem(w)
           \/ BeginConfirm(w) \/ BeginCancel(w) \/ BeginDelete(w) \/ BeginDelivery(w)
  BY <1>1, <1>7 DEF BeginUpdateTerms, BeginUpdateOrder, BeginAddOrderItem,
     BeginUpdateOrderItem, BeginRemoveOrderItem, BeginConfirm, BeginCancel, BeginDelete,
     BeginDelivery
<1> QED
  BY <1>2, <1>4, <1>5, <1>6, <1>7 DEF BeginAny

\* A job goes on: what it reads of the refund has the amount asked for.
LEMMA GoOnKeepsRefunds ==
  ASSUME IInv, IInv', RefundInv, NEW w \in Workers,
         ApplyRefund(w) \/ Load(w) \/ LoadRefund(w) \/ LockRow(w)
  PROVE  RefundInv'
<1> DEFINE i == job[w]
<1>0. job \in [Workers -> Job] /\ i \in Job /\ Claims(i) /\ GoodJob(i)
      /\ (i.kind = "request" => \A v \in Workers \ {w} : job[v].rid # i.rid)
  BY DEF IInv, TypeOK, RefundInv, InsertsAlone
<1>1. ASSUME NEW j, j.kind = i.kind, j.rid = i.rid, j.fund = i.fund,
             Reviews(j) /\ j.phase \in {"loaded", "locked"} /\ (j.phase = "loaded" => j.kind = "reject")
               => j.fbase = refunds[i.rid],
             job' = [job EXCEPT ![w] = j], UNCHANGED db
      PROVE  RefundInv'
  <2>1. Claims(j)
    BY <1>0, <1>1 DEF Claims, Reviews
  <2> QED
    BY <1>0, <1>1, <2>1, TakeClaim
<1>2. CASE ApplyRefund(w)
  <2>1. PICK late \in BOOLEAN :
          job' = [job EXCEPT ![w].phase = "begun",
                             ![w].ent = AfterRefund(order, i.amount, late)]
    BY <1>2 DEF ApplyRefund
  <2> DEFINE n == AfterRefund(order, i.amount, late)
             j == [i EXCEPT !.phase = "begun", !.ent = n]
  <2>2. job' = [job EXCEPT ![w] = j]
    BY <1>0, <2>1 DEF Job
  <2> HIDE DEF n
  <2>3. j.kind = i.kind /\ j.rid = i.rid /\ j.fund = i.fund /\ j.phase = "begun"
    BY <1>0 DEF Job
  <2> HIDE DEF j
  <2> QED
    BY <1>1, <1>2, <2>2, <2>3 DEF ApplyRefund
<1>3. CASE Load(w)
  <2> DEFINE j == [i EXCEPT !.phase = "loaded", !.base = order]
  <2>1. job' = [job EXCEPT ![w] = j] /\ UNCHANGED db /\ i.kind # "reject"
    BY <1>0, <1>3 DEF Load, Job, SavesOrder
  <2>2. j.kind = i.kind /\ j.rid = i.rid /\ j.fund = i.fund /\ j.phase = "loaded"
    BY <1>0 DEF Job
  <2> HIDE DEF j
  <2> QED
    BY <1>1, <2>1, <2>2
<1>4. ASSUME NEW p, job' = [job EXCEPT ![w].phase = p, ![w].fbase = refunds[job[w].rid]],
             UNCHANGED db
      PROVE  RefundInv'
  <2> DEFINE j == [i EXCEPT !.phase = p, !.fbase = refunds[i.rid]]
  <2>1. job' = [job EXCEPT ![w] = j]
    BY <1>0, <1>4 DEF Job
  <2>2. j.kind = i.kind /\ j.rid = i.rid /\ j.fund = i.fund /\ j.fbase = refunds[i.rid]
    BY <1>0 DEF Job
  <2> HIDE DEF j
  <2> QED
    BY <1>1, <1>4, <2>1, <2>2
<1> QED
  BY <1>2, <1>3, <1>4 DEF LoadRefund, LockRow

\* A save of the refund leaves what was asked for, and approves within it.
LEMMA SaveRefundKeepsRefunds ==
  ASSUME IInv, RefundInv, NEW w \in Workers, SaveRefund(w), Done(w), Reviews(job[w]),
         job[w].phase \in {"loaded", "locked"}, job[w].phase = "loaded" => job[w].kind = "reject"
  PROVE  RefundInv'
<1> DEFINE j == job[w]
           r == j.rid
           f == MergeRefund(refunds[r], j.fbase, j.fund)
<1>0. /\ refunds \in [RefundIds -> Refund] /\ r \in RefundIds /\ j \in Job
      /\ refunds[r].status # "absent" /\ refunds[r].approved <= refunds[r].requested
      /\ j.fund.status # "absent" /\ j.fund.approved <= j.fund.requested
      /\ j.fund.requested = refunds[r].requested /\ j.fbase.requested = j.fund.requested
  BY SameTypes DEF IInv, TypeOK, GoodJob, Reviews, RefundInv, Claims, ApprovalsWithinRequest
<1>1. /\ f.status \in {refunds[r].status, j.fund.status}
      /\ f.requested = refunds[r].requested
      /\ f.approved \in {refunds[r].approved, j.fund.approved}
  BY <1>0 DEF MergeRefund, Column
<1>2. refunds' = [refunds EXCEPT ![r] = f] /\ job' = [job EXCEPT ![w] = Idle]
  BY <1>0 DEF SaveRefund, Done
<1> HIDE DEF f
<1> QED
  BY <1>0, <1>1, <1>2, EndClaim

LEMMA StepRefunds ==
  ASSUME IInv, IInv', RefundInv, [Next]_vars
  PROVE  RefundInv'
<1>1. ASSUME NEW w \in Workers, Done(w), UNCHANGED refunds
      PROVE  RefundInv'
  <2>1. job' = [job EXCEPT ![w] = Idle] /\ Idle.kind = "none"
    BY <1>1 DEF Done, Idle
  <2>2. \A v \in Workers : job'[v] = IF v = w THEN Idle ELSE job[v]
    BY <2>1 DEF IInv, TypeOK
  <2>3. \A v \in Workers : Claims(job[v])'
    BY <1>1, <2>2, IdleClaims DEF RefundInv, Claims, Reviews
  <2>4. InsertsAlone'
    <3>1. \A v \in Workers : job[v].kind = "request" => job[v].rid # NoId
      BY NoIdAssumption DEF IInv, GoodJob
    <3>2. Idle.rid = NoId
      BY DEF Idle
    <3> QED
      BY <2>1, <2>2, <3>1, <3>2 DEF RefundInv, InsertsAlone
  <2> QED
    BY <1>1, <2>3, <2>4 DEF RefundInv, ApprovalsWithinRequest
<1>2. ASSUME NEW w \in Workers, CommitRefundRequest(w)
      PROVE  RefundInv'
  <2> DEFINE f == job[w].fund
  <2>1. f.status # "absent" /\ f.approved <= f.requested /\ ~Reviews(job[w])
    BY <1>2 DEF CommitRefundRequest, RefundInv, Claims, Reviews
  <2>2. refunds' = [refunds EXCEPT ![job[w].rid] = f] /\ job' = [job EXCEPT ![w] = Idle]
        /\ job[w].kind = "request"
    BY <1>2 DEF CommitRefundRequest, Done
  <2> HIDE DEF f
  <2> QED
    BY <2>1, <2>2, EndClaim
<1>3. ASSUME NEW w \in Workers, CommitApproval(w) \/ CommitRejection(w)
      PROVE  RefundInv'
  <2>1. job[w].phase = "locked" => job[w].kind = "approve"
    BY DEF IInv, GoodJob
  <2> QED
    BY <1>3, <2>1, SaveRefundKeepsRefunds DEF CommitApproval, CommitRejection, Reviews
<1>4. ASSUME NEW w \in Workers, CreateOrder(w)
      PROVE  UNCHANGED <<job, refunds>>
  BY <1>4, SameCreate DEF CreateOrder
<1>5. ASSUME UNCHANGED <<job, refunds>>
      PROVE  RefundInv'
  BY <1>5 DEF RefundInv, ApprovalsWithinRequest, Claims, InsertsAlone
<1>6. ASSUME NEW w \in Workers, CommitOrder(w) \/ CommitPayment(w) \/ Refuse(w) \/ Crash(w)
      PROVE  RefundInv'
  BY <1>1, <1>6 DEF CommitOrder, CommitPayment, Refuse, Crash, db
<1> QED
  BY <1>2, <1>3, <1>4, <1>5, <1>6, BeginKeepsRefunds, GoOnKeepsRefunds DEF Next, Proceed, vars

\* Of approvals and rejections that overlap on a refund, whichever writes last, what is
\* approved stays within what was asked for (payment.py:152, manage_refund.py:75-117).
THEOREM ApprovalsStayWithinRequest == Spec => []ApprovalsWithinRequest
<1>1. Init => RefundInv
  <2> SUFFICES ASSUME Init PROVE RefundInv
    OBVIOUS
  <2>1. /\ refunds = [r \in RefundIds |-> NoRefund] /\ job = [w \in Workers |-> Idle]
        /\ NoRefund.approved = 0 /\ NoRefund.requested = 0
    BY SameAggregate DEF Init, Ledger!Init, NoRefund, Ledger!NoRefund
  <2>2. Idle.kind = "none"
    BY DEF Idle
  <2> QED
    BY <2>1, <2>2, IdleClaims DEF RefundInv, ApprovalsWithinRequest, InsertsAlone
<1>2. IInv /\ IInv' /\ RefundInv /\ [Next]_vars => RefundInv'
  BY StepRefunds
<1>3. RefundInv => ApprovalsWithinRequest
  BY DEF RefundInv
<1> QED
  BY <1>1, <1>2, <1>3, Invariant, PTL DEF Spec

-----------------------------------------------------------------------------
(* Totals.  Only an edit and a deletion can write a negative total while   *)
(* no money has come in.                                                   *)

LEMMA SamePresentable ==
  ASSUME NEW o
  PROVE  Ledger!Presentable(o) = Presentable(o)
<1>1. ASSUME NEW q, NEW p
      PROVE  Ledger!LineSum(q, p) = LineSum(q, p)
  BY DEF Ledger!LineSum, LineSum, Ledger!MapThenSumSet, MapThenSumSet,
     Ledger!MapThenFoldSet, MapThenFoldSet
<1>2. Ledger!Total(o) = Total(o)
  BY <1>1 DEF Ledger!Total, Total, Ledger!ApplyRate, ApplyRate
<1>3. Ledger!DeliveredAmount(o) = DeliveredAmount(o)
  BY <1>1 DEF Ledger!DeliveredAmount, DeliveredAmount, Ledger!ApplyRate, ApplyRate
<1> QED
  BY <1>2, <1>3 DEF Ledger!Presentable, Presentable

\* Money comes in with every payment, and has come in before any approval.
MoneyMoves(j) == /\ j.kind = "pay" => j.amount > 0
                 /\ j.kind = "approve" /\ j.phase # "reviewing" => received > 0

TotalInv == EditsKeepTotalReadable /\ \A w \in Workers : MoneyMoves(job[w])

\* A request takes, changes or ends its job, and received never shrinks.
LEMMA KeepMoneyMoves ==
  ASSUME IInv, TotalInv, NEW w \in Workers, NEW j, job' = [job EXCEPT ![w] = j],
         received' \in Nat, received <= received', MoneyMoves(j)
  PROVE  \A v \in Workers : MoneyMoves(job[v])'
<1>1. received \in Nat
  BY SameTypes DEF IInv, TypeOK
<1>2. ASSUME NEW i, MoneyMoves(i)
      PROVE  MoneyMoves(i)'
  BY <1>1, <1>2 DEF MoneyMoves
<1>3. \A v \in Workers : job'[v] = IF v = w THEN j ELSE job[v]
  BY DEF IInv, TypeOK
<1>4. \A v \in Workers : MoneyMoves(job'[v])
  BY <1>3 DEF TotalInv
<1> QED
  BY <1>2, <1>4

LEMMA SameRowKeepsTotal ==
  ASSUME TotalInv, UNCHANGED db
  PROVE  EditsKeepTotalReadable'
BY DEF TotalInv, EditsKeepTotalReadable, db, Ledger!Exists, Ledger!Absent, Total, LineSum,
   ApplyRate, MapThenSumSet, MapThenFoldSet

\* What a request begins or goes on with.
LEMMA JobsKeepMoneyMoves ==
  ASSUME IInv, TotalInv, NEW w \in Workers,
         BeginAny(w) \/ ApplyRefund(w) \/ Load(w) \/ LoadRefund(w) \/ LockRow(w)
  PROVE  UNCHANGED db /\ \A v \in Workers : MoneyMoves(job[v])'
<1> DEFINE i == job[w]
<1>0. /\ job \in [Workers -> Job] /\ i \in Job /\ MoneyMoves(i) /\ GoodJob(i)
      /\ received \in Nat /\ order.paid \in Nat /\ order.paid <= received
  BY SameTypes DEF IInv, TypeOK, TotalInv, PaidBacked, Order
<1>1. ASSUME NEW j, job' = [job EXCEPT ![w] = j], UNCHANGED db, MoneyMoves(j)
      PROVE  UNCHANGED db /\ \A v \in Workers : MoneyMoves(job[v])'
  <2>1. received' \in Nat /\ received <= received'
    BY <1>0, <1>1 DEF db
  <2> QED
    BY <1>1, <2>1, KeepMoneyMoves
<1>2. ASSUME NEW k \in {"edit", "delete"}, NEW n, Begin(w, k, n)
      PROVE  UNCHANGED db /\ \A v \in Workers : MoneyMoves(job[v])'
  <2> DEFINE j == [Idle EXCEPT !.phase = "begun", !.kind = k, !.ent = n]
  <2>1. j.kind = k
    BY DEF Idle
  <2>2. job' = [job EXCEPT ![w] = j] /\ UNCHANGED db
    BY <1>2 DEF Begin
  <2> HIDE DEF j
  <2> QED
    BY <1>1, <2>1, <2>2 DEF MoneyMoves
<1>3. CASE BeginPayment(w)
  <2>1. PICK a \in Amounts, late \in BOOLEAN :
          /\ job' = [job EXCEPT ![w] = [Idle EXCEPT
                       !.phase = "begun", !.kind = "pay", !.amount = a,
                       !.ent = AfterPayment(order, a, late)]]
          /\ UNCHANGED db
    BY <1>3 DEF BeginPayment
  <2> DEFINE n == AfterPayment(order, a, late)
             j == [Idle EXCEPT !.phase = "begun", !.kind = "pay", !.amount = a, !.ent = n]
  <2>2. job' = [job EXCEPT ![w] = j]
    BY <2>1
  <2> HIDE DEF n
  <2>3. j.kind = "pay" /\ j.amount = a
    BY DEF Idle
  <2> HIDE DEF j
  <2>4. a > 0
    BY AmountAssumption
  <2>5. MoneyMoves(j)
    BY <2>3, <2>4 DEF MoneyMoves
  <2> QED
    BY <1>1, <2>1, <2>2, <2>5
<1>4. CASE BeginRequestRefund(w)
  <2>1. PICK r \in RefundIds, a \in Amounts :
          /\ job' = [job EXCEPT ![w] = [Idle EXCEPT
                       !.phase = "begun", !.kind = "request", !.rid = r,
                       !.fund = [status |-> "requested", requested |-> a, approved |-> 0]]]
          /\ UNCHANGED db
    BY <1>4 DEF BeginRequestRefund
  <2> DEFINE f == [status |-> "requested", requested |-> a, approved |-> 0]
             j == [Idle EXCEPT !.phase = "begun", !.kind = "request", !.rid = r, !.fund = f]
  <2>2. job' = [job EXCEPT ![w] = j]
    BY <2>1
  <2> HIDE DEF f
  <2>3. j.kind = "request"
    BY DEF Idle
  <2> HIDE DEF j
  <2> QED
    BY <1>1, <2>1, <2>2, <2>3 DEF MoneyMoves
<1>5. CASE BeginApproveRefund(w)
  <2>1. PICK r \in RefundIds, a \in Amounts :
          /\ job' = [job EXCEPT ![w] = [Idle EXCEPT
                       !.phase = "reviewing", !.kind = "approve", !.rid = r, !.amount = a,
                       !.fund = [refunds[r] EXCEPT !.status = "completed", !.approved = a]]]
          /\ UNCHANGED db
    BY <1>5 DEF BeginApproveRefund
  <2> DEFINE f == [refunds[r] EXCEPT !.status = "completed", !.approved = a]
             j == [Idle EXCEPT !.phase = "reviewing", !.kind = "approve", !.rid = r,
                               !.amount = a, !.fund = f]
  <2>2. job' = [job EXCEPT ![w] = j]
    BY <2>1
  <2> HIDE DEF f
  <2>3. j.kind = "approve" /\ j.phase = "reviewing"
    BY DEF Idle
  <2> HIDE DEF j
  <2> QED
    BY <1>1, <2>1, <2>2, <2>3 DEF MoneyMoves
<1>6. CASE BeginRejectRefund(w)
  <2>1. PICK r \in RefundIds :
          /\ job' = [job EXCEPT ![w] = [Idle EXCEPT
                       !.phase = "begun", !.kind = "reject", !.rid = r,
                       !.fund = [refunds[r] EXCEPT !.status = "rejected"]]]
          /\ UNCHANGED db
    BY <1>6 DEF BeginRejectRefund
  <2> DEFINE f == [refunds[r] EXCEPT !.status = "rejected"]
             j == [Idle EXCEPT !.phase = "begun", !.kind = "reject", !.rid = r, !.fund = f]
  <2>2. job' = [job EXCEPT ![w] = j]
    BY <2>1
  <2> HIDE DEF f
  <2>3. j.kind = "reject"
    BY DEF Idle
  <2> HIDE DEF j
  <2> QED
    BY <1>1, <2>1, <2>2, <2>3 DEF MoneyMoves
<1>7. ASSUME NEW j, j.kind = i.kind, j.amount = i.amount, i.phase = "reviewing" => received > 0,
             job' = [job EXCEPT ![w] = j], UNCHANGED db
      PROVE  UNCHANGED db /\ \A v \in Workers : MoneyMoves(job[v])'
  BY <1>0, <1>1, <1>7 DEF MoneyMoves
<1>8. CASE ApplyRefund(w)
  <2>1. PICK late \in BOOLEAN :
          job' = [job EXCEPT ![w].phase = "begun",
                             ![w].ent = AfterRefund(order, i.amount, late)]
    BY <1>8 DEF ApplyRefund
  <2> DEFINE n == AfterRefund(order, i.amount, late)
             j == [i EXCEPT !.phase = "begun", !.ent = n]
  <2>2. job' = [job EXCEPT ![w] = j]
    BY <1>0, <2>1 DEF Job
  <2> HIDE DEF n
  <2>3. j.kind = i.kind /\ j.amount = i.amount
    BY <1>0 DEF Job
  <2>4. received > 0 /\ UNCHANGED db
    <3>1. i.amount > 0 /\ i.amount <= order.paid /\ i.amount \in Nat /\ UNCHANGED db
      BY <1>0, <1>8 DEF ApplyRefund, Refundable, CanRefund, Job
    <3> QED
      BY <1>0, <3>1
  <2> HIDE DEF j
  <2> QED
    BY <1>7, <2>2, <2>3, <2>4
<1>9. CASE Load(w)
  <2> DEFINE j == [i EXCEPT !.phase = "loaded", !.base = order]
  <2>1. job' = [job EXCEPT ![w] = j] /\ UNCHANGED db /\ i.phase # "reviewing"
    BY <1>0, <1>9 DEF Load, Job
  <2>2. j.kind = i.kind /\ j.amount = i.amount
    BY <1>0 DEF Job
  <2> HIDE DEF j
  <2> QED
    BY <1>7, <2>1, <2>2
<1>10. CASE LoadRefund(w) \/ LockRow(w)
  <2>1. PICK p \in {"loaded", "locked"} :
          job' = [job EXCEPT ![w].phase = p, ![w].fbase = refunds[job[w].rid]]
    BY <1>10 DEF LoadRefund, LockRow
  <2> DEFINE j == [i EXCEPT !.phase = p, !.fbase = refunds[i.rid]]
  <2>2. job' = [job EXCEPT ![w] = j]
    BY <1>0, <2>1 DEF Job
  <2>3. j.kind = i.kind /\ j.amount = i.amount
    BY <1>0 DEF Job
  <2>4. UNCHANGED db /\ i.phase # "reviewing"
    BY <1>10 DEF LoadRefund, LockRow
  <2> HIDE DEF j
  <2> QED
    BY <1>7, <2>2, <2>3, <2>4
<1>11. CASE \/ BeginUpdateTerms(w) \/ BeginUpdateOrder(w) \/ BeginAddOrderItem(w)
            \/ BeginUpdateOrderItem(w) \/ BeginRemoveOrderItem(w)
            \/ BeginConfirm(w) \/ BeginCancel(w) \/ BeginDelete(w) \/ BeginDelivery(w)
  BY <1>2, <1>11 DEF BeginUpdateTerms, BeginUpdateOrder, BeginAddOrderItem,
     BeginUpdateOrderItem, BeginRemoveOrderItem, BeginConfirm, BeginCancel, BeginDelete,
     BeginDelivery
<1> QED
  BY <1>3, <1>4, <1>5, <1>6, <1>8, <1>9, <1>10, <1>11 DEF BeginAny

\* The commits, each of which ends its job.
LEMMA CommitsKeepTotal ==
  ASSUME IInv, TotalInv, NEW w \in Workers,
         CommitOrder(w) \/ CommitPayment(w) \/ CommitApproval(w)
  PROVE  EditsKeepTotalReadable' /\ received' \in Nat /\ received <= received' /\ Done(w)
<1> DEFINE j == job[w]
<1>0. received \in Nat /\ j \in Job /\ j.amount \in Nat /\ MoneyMoves(j) /\ GoodJob(j)
  BY SameTypes DEF IInv, TypeOK, TotalInv, Job
<1>1. CASE CommitOrder(w) /\ j.kind = "edit"
  <2>1. order' = Result(w) /\ received' = received /\ Presentable(Result(w)) /\ Done(w)
    BY <1>1 DEF CommitOrder, Saveable
  <2>2. Total(order') \in Nat
    BY <2>1 DEF Presentable
  <2>3. Total(order)' = Total(order')
    BY DEF Total, LineSum, ApplyRate, MapThenSumSet, MapThenFoldSet
  <2> QED
    BY <1>0, <2>1, <2>2, <2>3 DEF EditsKeepTotalReadable
<1>2. CASE CommitOrder(w) /\ j.kind = "delete"
  <2>1. /\ order' = Result(w) /\ received' = received /\ Done(w)
        /\ deletionLost' = (deletionLost \/ ~Result(w).is_deleted)
    BY <1>2 DEF CommitOrder
  <2>2. deletionLost' \/ order'.is_deleted
    BY <2>1
  <2> QED
    BY <1>0, <2>1, <2>2 DEF EditsKeepTotalReadable, Ledger!Exists
<1>3. CASE CommitPayment(w)
  <2>1. received' = received + j.amount /\ j.amount > 0 /\ Done(w)
    BY <1>0, <1>3 DEF CommitPayment, MoneyMoves
  <2>2. received' > 0 /\ received' \in Nat /\ received <= received'
    BY <1>0, <2>1
  <2> QED
    BY <2>1, <2>2 DEF EditsKeepTotalReadable
<1>4. CASE CommitApproval(w)
  <2>1. received' = received /\ received > 0 /\ Done(w)
    BY <1>0, <1>4 DEF CommitApproval, MoneyMoves, GoodJob
  <2> QED
    BY <1>0, <2>1 DEF EditsKeepTotalReadable
<1> QED
  BY <1>1, <1>2, <1>3, <1>4 DEF CommitOrder

LEMMA StepTotal ==
  ASSUME IInv, TotalInv, [Next]_vars
  PROVE  TotalInv'
<1>0. received \in Nat
  BY SameTypes DEF IInv, TypeOK
<1>1. Idle.kind = "none" /\ MoneyMoves(Idle)
  BY DEF Idle, MoneyMoves
<1>2. ASSUME NEW w \in Workers,
             BeginAny(w) \/ ApplyRefund(w) \/ Load(w) \/ LoadRefund(w) \/ LockRow(w)
      PROVE  TotalInv'
  BY <1>2, JobsKeepMoneyMoves, SameRowKeepsTotal DEF TotalInv
<1>3. ASSUME NEW w \in Workers, Done(w), received' \in Nat, received <= received',
             EditsKeepTotalReadable'
      PROVE  TotalInv'
  BY <1>1, <1>3, KeepMoneyMoves DEF TotalInv, Done
<1>4. ASSUME NEW w \in Workers, CommitOrder(w) \/ CommitPayment(w) \/ CommitApproval(w)
      PROVE  TotalInv'
  BY <1>3, <1>4, CommitsKeepTotal
<1>5. ASSUME NEW w \in Workers, Refuse(w) \/ Crash(w)
      PROVE  TotalInv'
  BY <1>0, <1>3, <1>5, SameRowKeepsTotal DEF Refuse, Crash, db
<1>6. ASSUME NEW w \in Workers, CommitRejection(w) \/ CommitRefundRequest(w)
      PROVE  TotalInv'
  <2>1. UNCHANGED <<order, received, deletionLost>> /\ Done(w)
    BY <1>6 DEF CommitRejection, CommitRefundRequest
  <2>2. EditsKeepTotalReadable'
    BY <2>1 DEF TotalInv, EditsKeepTotalReadable, Ledger!Exists, Ledger!Absent, Total, LineSum,
       ApplyRate, MapThenSumSet, MapThenFoldSet
  <2> QED
    BY <1>0, <1>3, <2>1, <2>2
<1>7. ASSUME NEW w \in Workers, CreateOrder(w)
      PROVE  TotalInv'
  <2>1. PICK t \in TermSheets, q \in LineInputs(Items), p \in [Items -> Prices] :
          Ledger!CreateOrder(t, q, p)
    BY <1>7 DEF CreateOrder
  <2>2. Ledger!Presentable(order') /\ UNCHANGED <<received, job>>
    BY <1>7, <2>1 DEF Ledger!CreateOrder, Ledger!Save, CreateOrder
  <2>3. Total(order') \in Nat
    BY <2>2, SamePresentable DEF Presentable
  <2>4. Total(order)' = Total(order')
    BY DEF Total, LineSum, ApplyRate, MapThenSumSet, MapThenFoldSet
  <2> QED
    BY <2>2, <2>3, <2>4 DEF TotalInv, EditsKeepTotalReadable, MoneyMoves
<1>8. CASE UNCHANGED vars
  BY <1>8, SameRowKeepsTotal DEF vars, db, TotalInv, MoneyMoves
<1> QED
  BY <1>2, <1>4, <1>5, <1>6, <1>7, <1>8 DEF Next, Proceed

\* However many edits overlap before money arrives, the order they leave has a total that
\* Money reads back (money.py:19): each edit's answer computes the amounts of what the save
\* wrote, and only a deletion answers without (orders.py).
THEOREM EditsLeaveTotalReadable == Spec => []EditsKeepTotalReadable
<1>1. Init => TotalInv
  <2> SUFFICES ASSUME Init PROVE TotalInv
    OBVIOUS
  <2>1. order = NoOrder /\ job = [w \in Workers |-> Idle]
    BY SameAggregate DEF Init, Ledger!Init
  <2>2. Idle.kind = "none" /\ NoOrder.status = Ledger!Absent
    BY DEF Idle, NoOrder, Absent, Ledger!Absent
  <2> QED
    BY <2>1, <2>2 DEF TotalInv, EditsKeepTotalReadable, Ledger!Exists, MoneyMoves
<1>2. IInv /\ TotalInv /\ [Next]_vars => TotalInv'
  BY StepTotal
<1>3. TotalInv => EditsKeepTotalReadable
  BY DEF TotalInv
<1> QED
  BY <1>1, <1>2, <1>3, Invariant, PTL DEF Spec
=============================================================================
