------------------------ MODULE OrderAggregate_proofs ------------------------
(***************************************************************************)
(* What the operations of OrderAggregate preserve, for every order and     *)
(* every value of the constants.  The sums over the lines (LineSum) stay   *)
(* closed: a fact here never depends on what they add up to, only on which *)
(* columns they read.                                                      *)
(***************************************************************************)
EXTENDS OrderAggregate, TLAPS

LEMMA WiderRange ==
  ASSUME NEW S, NEW A, NEW B, A \subseteq B, NEW f \in [S -> A]
  PROVE  f \in [S -> B]
OBVIOUS

\* The operations that edit an order leave a well-typed order.
LEMMA WithTermsType ==
  ASSUME NEW o \in Order, NEW t \in TermSheets
  PROVE  WithTerms(o, t) \in Order
<1>1. t.tax_rate \in Nat /\ t.discount \in Nat /\ t.shipping \in Nat
  <2>1. t \in [tax_rate : 0..100, discount : Nat, shipping : Nat]
    BY TermsAssumption
  <2> QED
    BY <2>1
<1> QED
  BY <1>1 DEF WithTerms, Order

LEMMA WithLinesType ==
  ASSUME NEW o \in Order, NEW ids, NEW q \in LineInputs(ids), NEW p \in [Items -> Prices]
  PROVE  WithLines(o, q, p) \in Order
<1>1. q \in [Items -> Nat] /\ p \in [Items -> Nat]
  <2>1. Quantities \cup {0} \subseteq Nat /\ Prices \subseteq Nat
    BY QuantityAssumption, PriceAssumption
  <2>2. q \in [Items -> Quantities \cup {0}]
    BY DEF LineInputs
  <2> QED
    BY <2>1, <2>2, WiderRange
<1> QED
  BY <1>1 DEF WithLines, NoLines, Order

LEMMA WithLineType ==
  ASSUME NEW o \in Order, NEW i \in Items, NEW q \in Nat, NEW p \in Nat
  PROVE  WithLine(o, i, q, p) \in Order
BY DEF WithLine, Order

LEMMA StatusType ==
  ASSUME NEW o \in Order
  PROVE  Confirmed(o) \in Order /\ Cancelled(o) \in Order /\ Deleted(o) \in Order
BY DEF Confirmed, Cancelled, Deleted, Order, OrderStatus

LEMMA AfterDeliveryType ==
  ASSUME NEW o \in Order, NEW d \in [Items -> Quantities \cup {0}]
  PROVE  AfterDelivery(o, d) \in Order
<1> DEFINE n == [o EXCEPT !.delivered = [i \in Items |-> o.delivered[i] + d[i]]]
           s == IF FullyDelivered(n) THEN "delivered" ELSE "partially_delivered"
<1>1. Quantities \cup {0} \subseteq Nat
  BY QuantityAssumption
<1>2. d \in [Items -> Nat]
  BY <1>1, WiderRange
<1>3. n \in Order
  BY <1>2 DEF Order
<1>4. s \in OrderStatus
  BY DEF OrderStatus
<1>5. [n EXCEPT !.status = s] \in Order
  BY <1>3, <1>4 DEF Order
<1> QED
  BY <1>5 DEF AfterDelivery
\* The columns a delivery changes.
LEMMA AfterDeliveryColumns ==
  ASSUME NEW o \in Order, NEW d, NEW n, n = AfterDelivery(o, d)
  PROVE  /\ n.paid = o.paid /\ n.refunded = o.refunded /\ n.is_deleted = o.is_deleted
         /\ n.payment_status = o.payment_status /\ n.quantity = o.quantity
         /\ n.price = o.price /\ n.tax_rate = o.tax_rate
         /\ n.discount = o.discount /\ n.shipping = o.shipping
         /\ n.delivered = [i \in Items |-> o.delivered[i] + d[i]]
         /\ n.status = IF FullyDelivered(n) THEN "delivered" ELSE "partially_delivered"
<1> DEFINE m == [o EXCEPT !.delivered = [i \in Items |-> o.delivered[i] + d[i]]]
           s == IF FullyDelivered(m) THEN "delivered" ELSE "partially_delivered"
<1>1. n = [m EXCEPT !.status = s]
  BY DEF AfterDelivery
<1>2. /\ m.paid = o.paid /\ m.refunded = o.refunded /\ m.is_deleted = o.is_deleted
      /\ m.payment_status = o.payment_status /\ m.quantity = o.quantity
      /\ m.price = o.price /\ m.tax_rate = o.tax_rate
      /\ m.discount = o.discount /\ m.shipping = o.shipping
      /\ m.delivered = [i \in Items |-> o.delivered[i] + d[i]]
      /\ DOMAIN m = DOMAIN o
  BY DEF Order
<1> HIDE DEF m, s
<1>3. /\ n.paid = m.paid /\ n.refunded = m.refunded /\ n.is_deleted = m.is_deleted
      /\ n.payment_status = m.payment_status /\ n.quantity = m.quantity
      /\ n.price = m.price /\ n.tax_rate = m.tax_rate
      /\ n.discount = m.discount /\ n.shipping = m.shipping
      /\ n.delivered = m.delivered /\ n.status = s
  BY <1>1, <1>2 DEF Order
<1>4. FullyDelivered(n) <=> FullyDelivered(m)
  BY <1>3 DEF FullyDelivered, HasItems, HasLine
<1> QED
  BY <1>2, <1>3, <1>4 DEF s

LEMMA PaymentStatusType ==
  ASSUME NEW o, NEW late
  PROVE  PaymentStatusOf(o, late) \in PaymentStatus
BY DEF PaymentStatusOf, PaymentStatus

\* What the payment status says of the money, whatever the due date.
LEMMA PaymentStatusMeaning ==
  ASSUME NEW o \in Order, NEW late \in BOOLEAN, Total(o) \in Nat,
         NEW s, s = PaymentStatusOf(o, late)
  PROVE  /\ s \in PaymentStatus
         /\ s = "paid" => o.paid > 0 /\ o.paid >= Total(o)
         /\ s \in {"partial", "partial_refund"} => o.paid > 0 /\ o.paid < Total(o)
         /\ s \in {"pending", "overdue"} => o.paid = 0
<1>1. o.paid \in Nat /\ o.refunded \in Nat
  BY DEF Order
<1>2. s \in PaymentStatus
  BY PaymentStatusType
<1> QED
  BY <1>1, <1>2 DEF PaymentStatusOf

\* Only these five columns make the total.
LEMMA TotalColumns ==
  ASSUME NEW o, NEW n,
         n.quantity = o.quantity, n.price = o.price, n.tax_rate = o.tax_rate,
         n.discount = o.discount, n.shipping = o.shipping
  PROVE  Total(n) = Total(o)
BY DEF Total

\* What a payment changes, and what it leaves alone.
LEMMA PaymentEffect ==
  ASSUME NEW o \in Order, NEW a \in Nat, NEW late \in BOOLEAN
  PROVE  LET n == AfterPayment(o, a, late) IN
         /\ n \in Order /\ Total(n) = Total(o)
         /\ n.paid = o.paid + a /\ n.refunded = o.refunded
         /\ n.status = o.status /\ n.is_deleted = o.is_deleted
         /\ n.quantity = o.quantity /\ n.delivered = o.delivered
         /\ n.payment_status = PaymentStatusOf(n, late)
<1> DEFINE n == AfterPayment(o, a, late)
           m == [o EXCEPT !.paid = @ + a]
<1>1. m \in Order /\ m.paid = o.paid + a /\ m.refunded = o.refunded
  BY DEF Order
<1>2. Total(m) = Total(o)
  BY DEF Order, Total
<1>3. PaymentStatusOf(m, late) \in PaymentStatus
  BY PaymentStatusType
<1>4. n = [m EXCEPT !.payment_status = PaymentStatusOf(m, late)]
  BY DEF AfterPayment
<1>5. n \in Order /\ n.payment_status = PaymentStatusOf(m, late)
  BY <1>1, <1>3, <1>4 DEF Order
<1>6. /\ n.paid = m.paid /\ n.refunded = m.refunded
      /\ n.status = o.status /\ n.is_deleted = o.is_deleted
      /\ n.quantity = o.quantity /\ n.delivered = o.delivered
      /\ n.price = o.price /\ n.tax_rate = o.tax_rate
      /\ n.discount = o.discount /\ n.shipping = o.shipping
  BY <1>1, <1>4 DEF Order
<1>7. Total(n) = Total(o)
  BY <1>6, TotalColumns
<1>8. PaymentStatusOf(n, late) = PaymentStatusOf(m, late)
  BY <1>2, <1>6, <1>7 DEF PaymentStatusOf
<1> QED
  BY <1>1, <1>5, <1>6, <1>7, <1>8

\* What a refund changes, and what it leaves alone.
LEMMA RefundEffect ==
  ASSUME NEW o \in Order, NEW a \in Nat, NEW late \in BOOLEAN,
         CanRefund(o, a)
  PROVE  LET n == AfterRefund(o, a, late) IN
         /\ n \in Order /\ Total(n) = Total(o)
         /\ n.paid = o.paid - a /\ n.refunded = o.refunded + a
         /\ n.status = o.status /\ n.is_deleted = o.is_deleted
         /\ n.quantity = o.quantity /\ n.delivered = o.delivered
         /\ n.payment_status = PaymentStatusOf(n, late)
<1> DEFINE n == AfterRefund(o, a, late)
           m == [o EXCEPT !.refunded = @ + a, !.paid = @ - a]
<1>1. m \in Order /\ m.paid = o.paid - a /\ m.refunded = o.refunded + a
  <2>1. o.paid - a \in Nat /\ o.refunded + a \in Nat
    BY DEF Order, CanRefund
  <2> QED
    BY <2>1 DEF Order
<1>2. Total(m) = Total(o)
  BY DEF Order, Total
<1>3. PaymentStatusOf(m, late) \in PaymentStatus
  BY PaymentStatusType
<1>4. n = [m EXCEPT !.payment_status = PaymentStatusOf(m, late)]
  BY DEF AfterRefund
<1>5. n \in Order /\ n.payment_status = PaymentStatusOf(m, late)
  BY <1>1, <1>3, <1>4 DEF Order
<1>6. /\ n.paid = m.paid /\ n.refunded = m.refunded
      /\ n.status = o.status /\ n.is_deleted = o.is_deleted
      /\ n.quantity = o.quantity /\ n.delivered = o.delivered
      /\ n.price = o.price /\ n.tax_rate = o.tax_rate
      /\ n.discount = o.discount /\ n.shipping = o.shipping
  BY <1>1, <1>4 DEF Order
<1>7. Total(n) = Total(o)
  BY <1>6, TotalColumns
<1>8. PaymentStatusOf(n, late) = PaymentStatusOf(m, late)
  BY <1>2, <1>6, <1>7 DEF PaymentStatusOf
<1> QED
  BY <1>1, <1>5, <1>6, <1>7, <1>8

=============================================================================
