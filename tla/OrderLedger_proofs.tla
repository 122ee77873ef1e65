-------------------------- MODULE OrderLedger_proofs --------------------------
(***************************************************************************)
(* OrderLedger keeps its promises for every set of lines, prices, terms,   *)
(* amounts and refund requests, and without the bound on what is received. *)
(*                                                                         *)
(* IInv is inductive.  Beside the properties it says what they need from   *)
(* each other: before the insert there is nothing (Blank), every total is  *)
(* one Money accepts (Readable), and only an order that holds money is     *)
(* marked paid (PaidMeansMoney), which is why edits, allowed only while    *)
(* paid = 0, never touch a `paid' order.                                   *)
(***************************************************************************)
EXTENDS OrderLedger, OrderAggregate_proofs, Sums

Blank          == order.status = Absent => order = NoOrder
Readable       == order.status # Absent => Total(order) \in Nat
PaidMeansMoney == order.payment_status = "paid" => order.paid > 0
StatusOfMoney  == order.status # Absent => PaymentStatusTracksMoney

IInv == /\ TypeOK
        /\ Blank
        /\ Readable
        /\ Balanced
        /\ NoOverpayment
        /\ DeliveryMatchesStatus
        /\ PaidMeansMoney
        /\ StatusOfMoney

-----------------------------------------------------------------------------
LEMMA InitIInv == Init => IInv
<1> SUFFICES ASSUME Init PROVE IInv
  OBVIOUS
<1>1. order = NoOrder /\ received = 0 /\ returned = 0
  BY DEF Init
<1>2. NoOrder \in Order
  BY DEF NoOrder, NoLines, Order, OrderStatus, PaymentStatus
<1>3. TypeOK
  BY <1>1, <1>2 DEF Init, TypeOK, Refund, NoRefund, RefundStatus
<1>4. DeliveryMatchesStatus
  BY <1>1 DEF DeliveryMatchesStatus, NoOrder, NoLines, Absent,
              FullyDelivered, HasDelivery, HasItems, HasLine
<1> QED
  BY <1>1, <1>3, <1>4 DEF IInv, Blank, Readable, Balanced, NoOverpayment,
     PaidMeansMoney, StatusOfMoney, NoOrder, Absent, OrderStatus

\* What every request that edits the order does to its money: nothing, and the
\* price only moves while nothing is paid.
Edited(o, n) ==
  /\ n \in Order /\ n.status # Absent
  /\ n.paid = o.paid /\ n.refunded = o.refunded
  /\ n.payment_status = o.payment_status
  /\ Total(n) \in Nat
  /\ o.paid = 0 \/ Total(n) = Total(o)

\* The lines, quantity by quantity, that DeliveryMatchesStatus relates to the
\* status of order n.
Matches(n) ==
  /\ n.status = "delivered" <=> FullyDelivered(n)
  /\ n.status = "partially_delivered" <=> HasDelivery(n) /\ ~FullyDelivered(n)
  /\ \A i \in Items : n.delivered[i] <= n.quantity[i]

\* Without deliveries, a status that speaks of none is right.
LEMMA NothingDelivered ==
  ASSUME NEW n \in Order, ~HasDelivery(n),
         n.status \notin {"delivered", "partially_delivered"}
  PROVE  Matches(n)
<1>1. \A i \in Items : n.delivered[i] = 0 /\ n.quantity[i] \in Nat
  BY DEF HasDelivery, Order
<1> QED
  BY <1>1 DEF Matches, HasDelivery, FullyDelivered, HasItems, HasLine

\* The edits allowed by CanEditCommercialTerms.
LEMMA TermsEdited ==
  ASSUME NEW o \in Order, CanEditCommercialTerms(o), NEW n \in Order,
         n.status = o.status, n.paid = o.paid, n.refunded = o.refunded,
         n.payment_status = o.payment_status, Total(n) \in Nat,
         \A i \in Items : n.delivered[i] = o.delivered[i] \/ n.delivered[i] = 0
  PROVE  Edited(o, n) /\ Matches(n)
<1>1. o.status \in {"draft", "confirmed", "in_production", "ready"} /\ o.paid = 0
  BY DEF CanEditCommercialTerms
<1>2. ~HasDelivery(n)
  BY DEF CanEditCommercialTerms, HasDelivery
<1> QED
  BY <1>1, <1>2, NothingDelivered DEF Edited, Absent

-----------------------------------------------------------------------------
\* Every request that edits the order, one step per action.
LEMMA EditStep ==
  ASSUME IInv, EditOrder
  PROVE  /\ Edited(order, order')
         /\ Matches(order')
         /\ \A i \in Items : order.delivered[i] <= order'.delivered[i]
         /\ UNCHANGED <<received, returned, refunds>>
<1> DEFINE Good == /\ Edited(order, order')
                   /\ Matches(order')
                   /\ \A i \in Items : order.delivered[i] <= order'.delivered[i]
                   /\ UNCHANGED <<received, returned, refunds>>
<1> SUFFICES Good
  OBVIOUS
<1> USE DEF IInv
<1>0. order \in Order /\ \A i \in Items : order.delivered[i] \in Nat
  BY DEF TypeOK, Order
<1>t. ASSUME NEW n \in Order, CanEditCommercialTerms(order), Save(n),
             n.status = order.status, n.paid = order.paid, n.refunded = order.refunded,
             n.payment_status = order.payment_status,
             n.delivered = order.delivered \/ n.delivered = NoLines
      PROVE  Good
  <2>1. \A i \in Items : order.delivered[i] = 0
    BY <1>0, <1>t DEF CanEditCommercialTerms, HasDelivery
  <2>2. \A i \in Items : n.delivered[i] = 0
    BY <2>1, <1>t DEF NoLines
  <2>3. order' = n /\ Total(n) \in Nat /\ UNCHANGED <<received, returned, refunds>>
    BY <1>t DEF Save, Presentable
  <2>4. Edited(order, n) /\ Matches(n)
    BY <1>0, <1>t, <2>2, <2>3, TermsEdited
  <2> QED
    BY <2>1, <2>2, <2>3, <2>4
<1>1. ASSUME NEW t \in TermSheets, UpdateTerms(t)
      PROVE  Good
  <2> DEFINE n == WithTerms(order, t)
  <2>1. n \in Order
    BY <1>0, WithTermsType
  <2>2. /\ n.status = order.status /\ n.paid = order.paid /\ n.refunded = order.refunded
        /\ n.payment_status = order.payment_status /\ n.delivered = order.delivered
    BY <1>0 DEF WithTerms, Order
  <2>3. CanEditCommercialTerms(order) /\ Save(n)
    BY <1>1 DEF UpdateTerms
  <2> HIDE DEF n, Good
  <2> QED
    BY <2>1, <2>2, <2>3, <1>t
<1>2. ASSUME NEW t \in TermSheets, NEW q \in LineInputs(FreeItems),
             NEW p \in [Items -> Prices], UpdateOrder(t, q, p)
      PROVE  Good
  <2> DEFINE m == WithTerms(order, t)
             n == WithLines(m, q, p)
  <2>1. m \in Order
    BY <1>0, WithTermsType
  <2>2. n \in Order
    BY <2>1, WithLinesType
  <2>3. /\ m.status = order.status /\ m.paid = order.paid /\ m.refunded = order.refunded
        /\ m.payment_status = order.payment_status
    BY <1>0 DEF WithTerms, Order
  <2>4. /\ n.status = m.status /\ n.paid = m.paid /\ n.refunded = m.refunded
        /\ n.payment_status = m.payment_status /\ n.delivered = NoLines
    BY <2>1 DEF WithLines, Order
  <2>5. CanEditCommercialTerms(order) /\ Save(n)
    BY <1>2 DEF UpdateOrder
  <2> HIDE DEF m, n, Good
  <2> QED
    BY <2>2, <2>3, <2>4, <2>5, <1>t
<1>3. ASSUME NEW i \in Items, NEW q \in Nat, NEW p \in Nat,
             CanEditCommercialTerms(order), Save(WithLine(order, i, q, p))
      PROVE  Good
  <2> DEFINE n == WithLine(order, i, q, p)
  <2>1. n \in Order
    BY <1>0, WithLineType
  <2>2. /\ n.status = order.status /\ n.paid = order.paid /\ n.refunded = order.refunded
        /\ n.payment_status = order.payment_status /\ n.delivered = order.delivered
    BY <1>0 DEF WithLine, Order
  <2>3. Save(n)
    BY <1>3
  <2> HIDE DEF n, Good
  <2> QED
    BY <2>1, <2>2, <2>3, <1>3, <1>t
<1>4. ASSUME NEW i \in Items, NEW q \in Quantities, NEW p \in Prices,
             AddOrderItem(i, q, p) \/ UpdateOrderItem(i, q, p)
      PROVE  Good
  <2>1. q \in Nat /\ p \in Nat
    BY QuantityAssumption, PriceAssumption
  <2>2. CanEditCommercialTerms(order) /\ Save(WithLine(order, i, q, p))
    BY <1>4 DEF AddOrderItem, UpdateOrderItem
  <2> HIDE DEF Good
  <2> QED
    BY <2>1, <2>2, <1>3
<1>5. ASSUME NEW i \in Items, RemoveOrderItem(i)
      PROVE  Good
  <2>1. CanEditCommercialTerms(order) /\ Save(WithLine(order, i, 0, 0))
    BY <1>5 DEF RemoveOrderItem
  <2> HIDE DEF Good
  <2> QED
    BY <2>1, <1>3
<1>6. ASSUME NEW t \in TermSheets, NEW q \in LineInputs(Items),
             NEW p \in [Items -> Prices], CreateOrder(t, q, p)
      PROVE  Good
  <2> DEFINE d == [NoOrder EXCEPT !.status = "draft"]
             m == WithTerms(d, t)
             n == WithLines(m, q, p)
  <2>1. order = NoOrder
    BY <1>6 DEF CreateOrder, Blank
  <2>2. d \in Order /\ d.status = "draft" /\ d.paid = order.paid
        /\ d.refunded = order.refunded /\ d.payment_status = order.payment_status
    BY <1>0, <2>1 DEF Order, NoOrder, OrderStatus
  <2>3. m \in Order
    BY <2>2, WithTermsType
  <2>4. n \in Order
    BY <2>3, WithLinesType
  <2>5. /\ m.status = d.status /\ m.paid = d.paid /\ m.refunded = d.refunded
        /\ m.payment_status = d.payment_status
    BY <2>2 DEF WithTerms, Order
  <2>6. /\ n.status = m.status /\ n.paid = m.paid /\ n.refunded = m.refunded
        /\ n.payment_status = m.payment_status /\ n.delivered = NoLines
    BY <2>3 DEF WithLines, Order
  <2>7. order' = n /\ Total(n) \in Nat /\ UNCHANGED <<received, returned, refunds>>
    BY <1>6 DEF CreateOrder, Save, Presentable
  <2>8. order.paid = 0 /\ order.delivered = NoLines
    BY <2>1 DEF NoOrder
  <2> HIDE DEF d, m, n
  <2>9. ~HasDelivery(n)
    BY <2>6 DEF HasDelivery, NoLines
  <2>10. Matches(n)
    BY <2>2, <2>4, <2>5, <2>6, <2>9, NothingDelivered
  <2>11. Edited(order, n)
    BY <2>2, <2>4, <2>5, <2>6, <2>7, <2>8 DEF Edited, Absent
  <2>12. \A i \in Items : order.delivered[i] <= n.delivered[i]
    BY <2>6, <2>8 DEF NoLines
  <2> QED
    BY <2>7, <2>10, <2>11, <2>12
<1>s. ASSUME order' \in Order, order.status # Absent, order'.status # Absent,
             order'.paid = order.paid, order'.refunded = order.refunded,
             order'.payment_status = order.payment_status,
             order'.quantity = order.quantity, order'.price = order.price,
             order'.tax_rate = order.tax_rate, order'.discount = order.discount,
             order'.shipping = order.shipping, order'.delivered = order.delivered,
             order'.status \notin {"delivered", "partially_delivered"},
             order.status \notin {"delivered", "partially_delivered"},
             UNCHANGED <<received, returned, refunds>>
      PROVE  Good
  <2>1. Total(order') = Total(order) /\ Total(order) \in Nat
    BY <1>s, TotalColumns DEF Readable
  <2>2. ~HasDelivery(order)
    BY <1>s DEF DeliveryMatchesStatus
  <2>3. Matches(order')
    BY <1>s, <2>2, NothingDelivered DEF HasDelivery
  <2>4. Edited(order, order')
    BY <1>s, <2>1 DEF Edited
  <2> QED
    BY <1>0, <1>s, <2>3, <2>4
<1>7. CASE ConfirmOrder
  <2> DEFINE n == Confirmed(order)
  <2>1. n \in Order
    BY <1>0, StatusType
  <2>2. /\ n.status = "confirmed" /\ n.paid = order.paid /\ n.refunded = order.refunded
        /\ n.payment_status = order.payment_status /\ n.quantity = order.quantity
        /\ n.price = order.price /\ n.tax_rate = order.tax_rate
        /\ n.discount = order.discount /\ n.shipping = order.shipping
        /\ n.delivered = order.delivered
    BY <1>0 DEF Confirmed, Order
  <2>3. order.status # Absent /\ order.status \notin {"delivered", "partially_delivered"}
    BY <1>7 DEF ConfirmOrder, Exists, CanConfirm, CanTransition, ALLOWED_TRANSITIONS
  <2>4. order' = n /\ UNCHANGED <<received, returned, refunds>>
    BY <1>7 DEF ConfirmOrder, Save
  <2> HIDE DEF n, Good
  <2>5. order'.status # Absent /\ order'.status \notin {"delivered", "partially_delivered"}
    BY <2>2, <2>3, <2>4 DEF Absent
  <2> QED
    BY <2>1, <2>2, <2>3, <2>4, <2>5, <1>s
<1>8. CASE CancelOrder
  <2> DEFINE n == Cancelled(order)
  <2>1. n \in Order
    BY <1>0, StatusType
  <2>2. /\ n.status = "cancelled" /\ n.paid = order.paid /\ n.refunded = order.refunded
        /\ n.payment_status = order.payment_status /\ n.quantity = order.quantity
        /\ n.price = order.price /\ n.tax_rate = order.tax_rate
        /\ n.discount = order.discount /\ n.shipping = order.shipping
        /\ n.delivered = order.delivered
    BY <1>0 DEF Cancelled, Order
  <2>3. order.status # Absent /\ order.status \notin {"delivered", "partially_delivered"}
    BY <1>8 DEF CancelOrder, Exists, CanCancel, CanTransition, ALLOWED_TRANSITIONS
  <2>4. order' = n /\ UNCHANGED <<received, returned, refunds>>
    BY <1>8 DEF CancelOrder, Save
  <2> HIDE DEF n, Good
  <2>5. order'.status # Absent /\ order'.status \notin {"delivered", "partially_delivered"}
    BY <2>2, <2>3, <2>4 DEF Absent
  <2> QED
    BY <2>1, <2>2, <2>3, <2>4, <2>5, <1>s
<1>9. CASE DeleteOrder
  <2> DEFINE n == Deleted(order)
  <2>1. n \in Order
    BY <1>0, StatusType
  <2>2. /\ n.status = order.status /\ n.paid = order.paid /\ n.refunded = order.refunded
        /\ n.payment_status = order.payment_status /\ n.quantity = order.quantity
        /\ n.price = order.price /\ n.tax_rate = order.tax_rate
        /\ n.discount = order.discount /\ n.shipping = order.shipping
        /\ n.delivered = order.delivered
    BY <1>0 DEF Deleted, Order
  <2>3. order.status # Absent /\ order.status \notin {"delivered", "partially_delivered"}
    BY <1>9 DEF DeleteOrder, Exists, CanDelete
  <2>4. order' = n /\ UNCHANGED <<received, returned, refunds>>
    BY <1>9 DEF DeleteOrder
  <2> HIDE DEF n, Good
  <2>5. order'.status # Absent /\ order'.status \notin {"delivered", "partially_delivered"}
    BY <2>2, <2>3, <2>4 DEF Absent
  <2> QED
    BY <2>1, <2>2, <2>3, <2>4, <2>5, <1>s
<1>10. ASSUME NEW d \in [Items -> Quantities \cup {0}], RecordDelivery(d)
       PROVE  Good
  <2> DEFINE n == AfterDelivery(order, d)
  <2>1. n \in Order
    BY <1>0, AfterDeliveryType
  <2>2. /\ n.paid = order.paid /\ n.refunded = order.refunded
        /\ n.payment_status = order.payment_status /\ n.quantity = order.quantity
        /\ n.price = order.price /\ n.tax_rate = order.tax_rate
        /\ n.discount = order.discount /\ n.shipping = order.shipping
        /\ n.delivered = [i \in Items |-> order.delivered[i] + d[i]]
        /\ n.status = IF FullyDelivered(n) THEN "delivered" ELSE "partially_delivered"
    BY <1>0, AfterDeliveryColumns
  <2>3. order' = n /\ UNCHANGED <<received, returned, refunds>>
        /\ order.status # Absent /\ CanDeliver(order, d)
    BY <1>10 DEF RecordDelivery, Save, Exists
  <2>4. d \in [Items -> Nat]
    <3>1. Quantities \cup {0} \subseteq Nat
      BY QuantityAssumption
    <3> QED
      BY <3>1, WiderRange
  <2> HIDE DEF n
  <2>5. Edited(order, n)
    <3>1. Total(n) = Total(order) /\ Total(order) \in Nat
      BY <2>2, <2>3, TotalColumns DEF Readable
    <3> QED
      BY <2>1, <2>2, <3>1 DEF Edited, Absent
  <2>6. \A i \in Items : /\ order.delivered[i] <= n.delivered[i]
                         /\ n.delivered[i] <= n.quantity[i]
    BY <1>0, <2>2, <2>3, <2>4 DEF CanDeliver
  <2>7. HasDelivery(n)
    <3>1. PICK i \in Items : d[i] > 0
      BY <2>3 DEF CanDeliver
    <3>2. n.delivered[i] > 0
      BY <1>0, <2>2, <2>4, <3>1
    <3> QED
      BY <3>2 DEF HasDelivery
  <2>8. Matches(n)
    BY <2>2, <2>6, <2>7 DEF Matches
  <2> QED
    BY <2>3, <2>5, <2>6, <2>8
<1> HIDE DEF Good
<1> QED
  BY <1>1, <1>2, <1>4, <1>5, <1>6, <1>7, <1>8, <1>9, <1>10 DEF EditOrder

LEMMA EditKeepsIInv ==
  ASSUME IInv, EditOrder
  PROVE  IInv'
<1> USE DEF IInv
<1>1. /\ Edited(order, order') /\ Matches(order')
      /\ UNCHANGED <<received, returned, refunds>>
  BY EditStep
<1>2. order \in Order /\ order.paid \in Nat
  BY DEF TypeOK, Order
<1>3. order.status = Absent \/ order.status \in OrderStatus
  BY <1>2 DEF Order
<1>4. order.status = Absent => order.paid = 0 /\ order.payment_status = "pending"
  BY DEF Blank, NoOrder
<1>5. TypeOK' /\ Blank' /\ Readable' /\ Balanced' /\ PaidMeansMoney'
  BY <1>1 DEF Edited, TypeOK, Blank, Readable, Balanced, PaidMeansMoney
<1>6. DeliveryMatchesStatus'
  BY <1>1 DEF Matches, DeliveryMatchesStatus
<1>7. NoOverpayment'
  BY <1>1, <1>2, <1>3, <1>4 DEF Edited, NoOverpayment, Readable
<1>8. StatusOfMoney'
  BY <1>1, <1>2, <1>3, <1>4
     DEF Edited, StatusOfMoney, PaidMeansMoney, PaymentStatusTracksMoney, Readable
<1> QED
  BY <1>5, <1>6, <1>7, <1>8

-----------------------------------------------------------------------------
\* What a payment or a refund leaves of the order, given what came of the money.
LEMMA MoneyKeepsIInv ==
  ASSUME IInv, order.status # Absent, NEW late \in BOOLEAN,
         order' \in Order, Total(order') = Total(order),
         order'.status = order.status,
         order'.quantity = order.quantity, order'.delivered = order.delivered,
         order'.payment_status = PaymentStatusOf(order', late),
         Balanced', received' \in Nat, returned' \in Nat,
         refunds' \in [RefundIds -> Refund],
         Total(order) > 0 => order'.paid <= Total(order)
  PROVE  IInv'
<1> USE DEF IInv
<1>1. Total(order') \in Nat
  BY DEF Readable
<1>2. PaidMeansMoney' /\ StatusOfMoney'
  BY <1>1, PaymentStatusMeaning DEF PaidMeansMoney, StatusOfMoney, PaymentStatusTracksMoney
<1>3. DeliveryMatchesStatus'
  BY DEF DeliveryMatchesStatus, FullyDelivered, HasDelivery, HasItems, HasLine
<1>4. TypeOK' /\ Blank' /\ Readable' /\ NoOverpayment'
  BY <1>1 DEF TypeOK, Blank, Readable, NoOverpayment
<1> QED
  BY <1>2, <1>3, <1>4

LEMMA MoveKeepsIInv ==
  ASSUME IInv, MoveMoney
  PROVE  IInv'
<1> USE DEF IInv
<1>0. /\ order \in Order /\ order.paid \in Nat /\ order.refunded \in Nat
      /\ received \in Nat /\ returned \in Nat /\ refunds \in [RefundIds -> Refund]
  BY DEF TypeOK, Order
<1>1. ASSUME NEW a \in Amounts, NEW late \in BOOLEAN, RecordPayment(a, late)
      PROVE  IInv'
  <2>1. a \in Nat
    BY AmountAssumption
  <2>2. /\ order' = AfterPayment(order, a, late) /\ received' = received + a
        /\ UNCHANGED <<returned, refunds>> /\ order.status # Absent
        /\ Total(order) > 0 => order.paid + a <= Total(order)
    BY <1>1 DEF RecordPayment, Exists, CanPay
  <2>3. /\ order' \in Order /\ Total(order') = Total(order)
        /\ order'.paid = order.paid + a /\ order'.refunded = order.refunded
        /\ order'.status = order.status
        /\ order'.quantity = order.quantity /\ order'.delivered = order.delivered
        /\ order'.payment_status = PaymentStatusOf(order', late)
    <3> DEFINE n == AfterPayment(order, a, late)
    <3>1. /\ n \in Order /\ Total(n) = Total(order)
          /\ n.paid = order.paid + a /\ n.refunded = order.refunded
          /\ n.status = order.status
          /\ n.quantity = order.quantity /\ n.delivered = order.delivered
          /\ n.payment_status = PaymentStatusOf(n, late)
      BY <1>0, <2>1, PaymentEffect
    <3> HIDE DEF n
    <3> QED
      BY <2>2, <3>1 DEF n
  <2>4. Balanced' /\ received' \in Nat /\ returned' \in Nat
        /\ refunds' \in [RefundIds -> Refund]
    BY <1>0, <2>1, <2>2, <2>3 DEF Balanced
  <2> QED
    BY <2>2, <2>3, <2>4, MoneyKeepsIInv
<1>2. ASSUME NEW r \in RefundIds, NEW a \in Amounts, NEW late \in BOOLEAN,
             ApproveRefund(r, a, late)
      PROVE  IInv'
  <2>1. a \in Nat
    BY AmountAssumption
  <2>2. /\ order' = AfterRefund(order, a, late) /\ returned' = returned + a
        /\ received' = received /\ order.status # Absent /\ CanRefund(order, a)
        /\ refunds' = [refunds EXCEPT ![r].status = "completed", ![r].approved = a]
    BY <1>2 DEF ApproveRefund, Exists
  <2>3. /\ order' \in Order /\ Total(order') = Total(order)
        /\ order'.paid = order.paid - a /\ order'.refunded = order.refunded + a
        /\ order'.status = order.status
        /\ order'.quantity = order.quantity /\ order'.delivered = order.delivered
        /\ order'.payment_status = PaymentStatusOf(order', late)
    BY <1>0, <2>1, <2>2, RefundEffect
  <2>4. refunds' \in [RefundIds -> Refund]
    <3> DEFINE f == [refunds[r] EXCEPT !.status = "completed", !.approved = a]
    <3>1. f \in Refund
      BY <1>0, <2>1 DEF Refund, RefundStatus
    <3>2. refunds' = [refunds EXCEPT ![r] = f]
      BY <1>0, <2>2 DEF Refund
    <3> QED
      BY <1>0, <3>1, <3>2
  <2>5. Balanced' /\ received' \in Nat /\ returned' \in Nat
    BY <1>0, <2>1, <2>2, <2>3 DEF Balanced
  <2>6. Total(order) > 0 => order'.paid <= Total(order)
    <3>1. order.status \in OrderStatus /\ Total(order) \in Nat
      BY <1>0, <2>2 DEF Order, Readable
    <3> QED
      BY <1>0, <2>1, <2>3, <3>1 DEF NoOverpayment
  <2> QED
    BY <2>2, <2>3, <2>4, <2>5, <2>6, MoneyKeepsIInv
<1>3. ASSUME UNCHANGED <<order, received, returned>>, refunds' \in [RefundIds -> Refund]
      PROVE  IInv'
  BY <1>3 DEF TypeOK, Blank, Readable, Balanced, NoOverpayment, DeliveryMatchesStatus,
     FullyDelivered, HasDelivery, HasItems, HasLine, PaidMeansMoney, StatusOfMoney,
     PaymentStatusTracksMoney
<1>4. ASSUME NEW r \in RefundIds, NEW a \in Amounts, RequestRefund(r, a)
      PROVE  IInv'
  <2>1. a \in Nat
    BY AmountAssumption
  <2>2. refunds' \in [RefundIds -> Refund]
    BY <1>0, <1>4, <2>1 DEF RequestRefund, Refund, RefundStatus
  <2> QED
    BY <1>3, <1>4, <2>2 DEF RequestRefund
<1>5. ASSUME NEW r \in RefundIds, RejectRefund(r)
      PROVE  IInv'
  <2>1. refunds' \in [RefundIds -> Refund]
    BY <1>0, <1>5 DEF RejectRefund, Refund, RefundStatus
  <2> QED
    BY <1>3, <1>5, <2>1 DEF RejectRefund
<1> QED
  BY <1>1, <1>2, <1>4, <1>5 DEF MoveMoney

LEMMA StepIInv == IInv /\ [Next]_vars => IInv'
<1> SUFFICES ASSUME IInv, [Next]_vars PROVE IInv'
  OBVIOUS
<1>1. CASE EditOrder
  BY <1>1, EditKeepsIInv
<1>2. CASE MoveMoney
  BY <1>2, MoveKeepsIInv
<1>3. CASE UNCHANGED vars
  BY <1>3 DEF vars, IInv, TypeOK, Blank, Readable, Balanced, NoOverpayment,
     DeliveryMatchesStatus, FullyDelivered, HasDelivery, HasItems, HasLine,
     PaidMeansMoney, StatusOfMoney, PaymentStatusTracksMoney
<1> QED
  BY <1>1, <1>2, <1>3 DEF Next

-----------------------------------------------------------------------------
\* The invariant the theorems below rest on.
THEOREM Invariant == Spec => []IInv
<1> QED
  BY InitIInv, StepIInv, PTL DEF Spec

\* Every handler leaves rows of the right types.
THEOREM TypeCorrect == Spec => []TypeOK
<1>1. IInv => TypeOK
  BY DEF IInv
<1> QED
  BY <1>1, Invariant, PTL

\* However payments, refunds and edits follow each other, the order row shows
\* exactly the money of the transaction table (record_payment.py, manage_refund.py).
THEOREM MoneyBalances == Spec => []Balanced
<1>1. IInv => Balanced
  BY DEF IInv
<1> QED
  BY <1>1, Invariant, PTL

\* validate_payment and can_edit_commercial_terms together keep every order from
\* being paid beyond its price.
THEOREM NeverOverpaid == Spec => []NoOverpayment
<1>1. IInv => NoOverpayment
  BY DEF IInv
<1> QED
  BY <1>1, Invariant, PTL

\* record_delivery, cancel and the edits keep the status and the delivered
\* quantities in step.
THEOREM StatusMatchesDeliveries == Spec => []DeliveryMatchesStatus
<1>1. IInv => DeliveryMatchesStatus
  BY DEF IInv
<1> QED
  BY <1>1, Invariant, PTL

\* payment_status, recomputed only by payments and refunds, stays true of the
\* amounts that edits change in between.
THEOREM StatusIsHonest == Spec => []PaymentStatusTracksMoney
<1>1. IInv => PaymentStatusTracksMoney
  <2>1. NoOrder.payment_status = "pending" /\ NoOrder.paid = 0
    BY DEF NoOrder
  <2> QED
    BY <2>1 DEF IInv, Blank, StatusOfMoney, PaymentStatusTracksMoney
<1> QED
  BY <1>1, Invariant, PTL

\* No edit, confirmation, payment or refund forgets goods handed over.
THEOREM DeliveriesPersist == Spec => DeliveredNeverShrinks
<1>1. IInv /\ [Next]_vars
        => [\A i \in Items : order.delivered[i] <= order'.delivered[i]]_vars
  <2> SUFFICES ASSUME IInv, Next
               PROVE  \A i \in Items : order.delivered[i] <= order'.delivered[i]
    OBVIOUS
  <2>1. order \in Order /\ \A i \in Items : order.delivered[i] \in Nat
    BY DEF IInv, TypeOK, Order
  <2>2. CASE EditOrder
    BY <2>2, EditStep
  <2>3. CASE MoveMoney
    <3>1. order'.delivered = order.delivered
      <4>1. ASSUME NEW a \in Amounts, NEW late \in BOOLEAN, RecordPayment(a, late)
            PROVE  order'.delivered = order.delivered
        BY <2>1, <4>1, AmountAssumption, PaymentEffect DEF RecordPayment
      <4>2. ASSUME NEW r \in RefundIds, NEW a \in Amounts, NEW late \in BOOLEAN,
                   ApproveRefund(r, a, late)
            PROVE  order'.delivered = order.delivered
        BY <2>1, <4>2, AmountAssumption, RefundEffect DEF ApproveRefund
      <4> QED
        BY <2>3, <4>1, <4>2 DEF MoveMoney, RequestRefund, RejectRefund
    <3> QED
      BY <2>1, <3>1
  <2> QED
    BY <2>2, <2>3 DEF Next
<1> QED
  BY <1>1, Invariant, PTL DEF Spec, DeliveredNeverShrinks

-----------------------------------------------------------------------------
\* The sum over the completed refunds is one of finitely many: however many refunds
\* may be asked for, each approval completes one.
RefundsAddUp == IsFiniteSet(CompletedRefunds) /\ RefundsAccountedFor

\* A request that completes no refund and changes none that is completed.
LEMMA RefundsUndisturbed ==
  ASSUME IInv, RefundsAddUp, refunds' \in [RefundIds -> Refund], UNCHANGED returned,
         \A r \in RefundIds :
           \/ refunds'[r] = refunds[r]
           \/ /\ refunds[r].status # "completed" /\ refunds'[r].status # "completed"
              /\ refunds'[r].approved = 0
  PROVE  RefundsAddUp'
<1> DEFINE f == [r \in RefundIds |-> refunds[r].approved]
           g == [r \in RefundIds |-> refunds'[r].approved]
<1>1. CompletedRefunds' = CompletedRefunds
  BY DEF CompletedRefunds
<1>2. \A r \in CompletedRefunds : f[r] \in Nat /\ g[r] = f[r]
  BY DEF CompletedRefunds, IInv, TypeOK, Refund
<1>3. IsFiniteSet(CompletedRefunds) /\ returned = SumFunctionOnSet(f, CompletedRefunds)
  BY DEF RefundsAddUp, RefundsAccountedFor
<1>4. \A r \in RefundIds :
        refunds'[r].approved <= IF r \in CompletedRefunds THEN refunds'[r].requested ELSE 0
  BY DEF RefundsAddUp, RefundsAccountedFor, CompletedRefunds
<1> HIDE DEF f, g
<1>5. SumFunctionOnSet(g, CompletedRefunds) = SumFunctionOnSet(f, CompletedRefunds)
  BY <1>2, <1>3, SumSame
<1> QED
  BY <1>1, <1>3, <1>4, <1>5 DEF RefundsAddUp, RefundsAccountedFor, g

LEMMA ApprovalAddsUp ==
  ASSUME IInv, RefundsAddUp, NEW r \in RefundIds, NEW a \in Amounts, NEW late \in BOOLEAN,
         ApproveRefund(r, a, late)
  PROVE  RefundsAddUp'
<1> DEFINE f == [s \in RefundIds |-> refunds[s].approved]
           g == [s \in RefundIds |-> refunds'[s].approved]
           C == CompletedRefunds
<1>1. refunds \in [RefundIds -> Refund] /\ a \in Nat
  BY AmountAssumption DEF IInv, TypeOK
<1>2. /\ r \notin C /\ C' = C \cup {r} /\ returned' = returned + a
      /\ a <= refunds[r].requested
      /\ refunds'[r].approved = a /\ refunds'[r].requested = refunds[r].requested
      /\ \A s \in RefundIds \ {r} : refunds'[s] = refunds[s]
  BY <1>1 DEF ApproveRefund, Reviewable, CompletedRefunds, Refund
<1>3. \A s \in C : f[s] \in Nat /\ g[s] = f[s]
  BY <1>1, <1>2 DEF CompletedRefunds, Refund
<1>4. IsFiniteSet(C) /\ returned = SumFunctionOnSet(f, C)
  BY DEF RefundsAddUp, RefundsAccountedFor
<1>5. g[r] = a
  BY <1>2
<1>6. \A s \in RefundIds :
        refunds'[s].approved <= IF s \in C \cup {r} THEN refunds'[s].requested ELSE 0
  BY <1>2 DEF RefundsAddUp, RefundsAccountedFor
<1> HIDE DEF f, g, C
<1>7. SumFunctionOnSet(g, C) = SumFunctionOnSet(f, C) /\ SumFunctionOnSet(f, C) \in Nat
  BY <1>3, <1>4, SumSame, SumType
<1>8. \A s \in C : g[s] \in Nat
  BY <1>3
<1>9. SumFunctionOnSet(g, C \cup {r}) = a + SumFunctionOnSet(g, C)
  BY <1>1, <1>2, <1>4, <1>5, <1>8, SumAdd
<1>10. IsFiniteSet(C \cup {r})
  BY <1>4, FS_AddElement
<1>11. returned' = SumFunctionOnSet(g, C \cup {r})
  BY <1>1, <1>2, <1>4, <1>7, <1>9
<1> QED
  BY <1>2, <1>6, <1>10, <1>11 DEF RefundsAddUp, RefundsAccountedFor, C, g

LEMMA StepAddsUp == ASSUME IInv, RefundsAddUp, [Next]_vars PROVE RefundsAddUp'
<1>1. refunds \in [RefundIds -> Refund]
  BY DEF IInv, TypeOK
<1>2. refunds' \in [RefundIds -> Refund]
  BY StepIInv DEF IInv, TypeOK
<1>3. CASE EditOrder \/ UNCHANGED vars
  <2>1. UNCHANGED <<returned, refunds>>
    BY <1>3, EditStep DEF vars
  <2> QED
    BY <1>2, <2>1, RefundsUndisturbed
<1>4. ASSUME NEW a \in Amounts, NEW late \in BOOLEAN, RecordPayment(a, late)
      PROVE  RefundsAddUp'
  BY <1>2, <1>4, RefundsUndisturbed DEF RecordPayment
<1>5. ASSUME NEW r \in RefundIds, NEW a \in Amounts, RequestRefund(r, a)
      PROVE  RefundsAddUp'
  <2>1. \A s \in RefundIds : refunds'[s] =
          IF s = r THEN [status |-> "requested", requested |-> a, approved |-> 0]
                   ELSE refunds[s]
    BY <1>1, <1>5 DEF RequestRefund
  <2> QED
    BY <1>2, <1>5, <2>1, RefundsUndisturbed DEF RequestRefund
<1>6. ASSUME NEW r \in RefundIds, RejectRefund(r) PROVE RefundsAddUp'
  <2>1. \A s \in RefundIds \ {r} : refunds'[s] = refunds[s]
    BY <1>1, <1>6 DEF RejectRefund
  <2>2. refunds'[r].status = "rejected" /\ refunds'[r].approved = refunds[r].approved
    BY <1>1, <1>6 DEF RejectRefund, Refund
  <2>3. refunds[r].status # "completed" /\ refunds[r].approved = 0
    BY <1>1, <1>6
       DEF RejectRefund, Reviewable, RefundsAddUp, RefundsAccountedFor, CompletedRefunds, Refund
  <2> QED
    BY <1>2, <1>6, <2>1, <2>2, <2>3, RefundsUndisturbed DEF RejectRefund
<1> QED
  BY <1>3, <1>4, <1>5, <1>6, ApprovalAddsUp DEF Next, MoveMoney

\* However refunds are asked for, approved, in part or in whole, and rejected, what went
\* back is the sum of the approved amounts of the completed refunds, each within what
\* was asked for (manage_refund.py:75-117).
THEOREM RefundsAddUpToReturned == Spec => []RefundsAccountedFor
<1>1. Init => RefundsAddUp
  <2> SUFFICES ASSUME Init PROVE RefundsAddUp
    OBVIOUS
  <2>1. CompletedRefunds = {} /\ \A r \in RefundIds : refunds[r].approved = 0
    BY DEF Init, NoRefund, CompletedRefunds
  <2>2. returned = 0
    BY DEF Init
  <2> QED
    BY <2>1, <2>2, SumOfNone, FS_EmptySet DEF RefundsAddUp, RefundsAccountedFor
<1>2. RefundsAddUp => RefundsAccountedFor
  BY DEF RefundsAddUp
<1>3. IInv /\ RefundsAddUp /\ [Next]_vars => RefundsAddUp'
  BY StepAddsUp
<1> QED
  BY <1>1, <1>2, <1>3, Invariant, PTL DEF Spec
=============================================================================
