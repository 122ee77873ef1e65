--------------------------- MODULE OrderAggregate ---------------------------
(***************************************************************************)
(* The Order aggregate root (domain/entities/order.py) as pure operators:  *)
(* amounts, guards, and the order each domain method leaves behind.  The   *)
(* state machines of the other modules call these operators.               *)
(*                                                                         *)
(* An order is a record.  Its lines are three functions over Items: a line *)
(* exists iff its quantity is positive (order.py:67 refuses anything       *)
(* else).  Names, dates, actors and descriptions are left out: no guard    *)
(* reads them, except the due date, which is the `late' flag of            *)
(* PaymentStatusOf.  Quantities already invoiced never exceed quantities   *)
(* delivered (order.py:73), so `delivered or invoiced' is `delivered' and  *)
(* invoicing has a module of its own.                                      *)
(***************************************************************************)
EXTENDS Integers, FiniteSetsExt

CONSTANTS
  Items,        \* identifiers order lines can carry (uuid4)
  Quantities,   \* quantities a request may ask for (DTO: gt=0)
  Prices,       \* unit prices a request may give (DTO: ge=0)
  TermSheets    \* commercial terms: tax rate in percent, discount, shipping

ASSUME QuantityAssumption == Quantities \subseteq Nat \ {0}
ASSUME PriceAssumption    == Prices \subseteq Nat
ASSUME TermsAssumption    ==
  TermSheets \subseteq [tax_rate : 0..100, discount : Nat, shipping : Nat]

OrderStatus == {"draft", "confirmed", "in_production", "ready",
                "partially_delivered", "delivered", "disputed",
                "cancelled", "archived"}

PaymentStatus == {"pending", "partial", "paid", "overdue", "refunded",
                  "partial_refund"}

\* The status before the row is inserted.
Absent == "absent"

Order == [status         : OrderStatus \cup {Absent},
          payment_status : PaymentStatus,
          is_deleted     : BOOLEAN,
          tax_rate       : Nat,
          discount       : Nat,
          shipping       : Nat,
          paid           : Nat,
          refunded       : Nat,
          quantity       : [Items -> Nat],
          price          : [Items -> Nat],
          delivered      : [Items -> Nat]]

ALLOWED_TRANSITIONS ==
  [draft               |-> {"confirmed", "cancelled"},
   confirmed           |-> {"in_production", "cancelled"},
   in_production       |-> {"ready", "cancelled", "disputed"},
   ready               |-> {"partially_delivered", "delivered", "cancelled"},
   partially_delivered |-> {"partially_delivered", "delivered", "disputed"},
   delivered           |-> {"disputed", "archived"},
   disputed            |-> {"delivered", "cancelled"},
   cancelled           |-> {},
   archived            |-> {}]

NoLines == [i \in Items |-> 0]

NoOrder == [status |-> Absent, payment_status |-> "pending",
            is_deleted |-> FALSE, tax_rate |-> 0, discount |-> 0,
            shipping |-> 0, paid |-> 0, refunded |-> 0,
            quantity |-> NoLines, price |-> NoLines, delivered |-> NoLines]

-----------------------------------------------------------------------------
(* Amounts.  Money is an integer number of cents and is never negative.    *)

LineSum(q, p) == MapThenSumSet(LAMBDA i : q[i] * p[i], Items)

\* ROUND_HALF_UP of cents * rate / 100.
ApplyRate(cents, rate) == (2 * cents * rate + 100) \div 200

Total(o) ==
  LET subtotal == LineSum(o.quantity, o.price)
  IN  subtotal + ApplyRate(subtotal, o.tax_rate) + o.shipping - o.discount

\* The delivered part of the total, before shipping is added.
DeliveredAmount(o) ==
  LET subtotal  == LineSum(o.quantity, o.price)
      delivered == LineSum(o.delivered, o.price)
      discount  == IF subtotal > 0 THEN (o.discount * delivered) \div subtotal
                                   ELSE 0
  IN  delivered + ApplyRate(delivered, o.tax_rate) - discount

\* The response of every handler that edits the order computes both amounts;
\* Money refuses a negative one, the handler fails and the save is undone.
Presentable(o) == /\ Total(o) \in Nat
                  /\ DeliveredAmount(o) \in Nat

-----------------------------------------------------------------------------
(* Lines and commercial terms.                                             *)

HasLine(o, i) == o.quantity[i] > 0
HasItems(o)   == \E i \in Items : HasLine(o, i)

HasDelivery(o)    == \E i \in Items : o.delivered[i] > 0
FullyDelivered(o) == HasItems(o) /\ \A i \in Items : o.delivered[i] = o.quantity[i]

\* A dropped guard: terms stay editable while goods are leaving.
CanEditUntilPaid(o) == o.status # "cancelled" /\ o.paid = 0

CanEditCommercialTerms(o) ==
  /\ o.status \in {"draft", "confirmed", "in_production", "ready"}
  /\ o.paid = 0
  /\ ~HasDelivery(o)

WithTerms(o, t) == [o EXCEPT !.tax_rate = t.tax_rate,
                             !.discount = t.discount,
                             !.shipping = t.shipping]

\* Adds, changes or (with quantity 0) removes a line: in every case nothing of
\* it has been delivered.
WithLine(o, i, q, p) == [o EXCEPT !.quantity[i] = q, !.price[i] = p]

\* All the lines of the order replaced.
WithLines(o, q, p) ==
  [o EXCEPT !.quantity  = q,
            !.price     = [i \in Items |-> IF q[i] > 0 THEN p[i] ELSE 0],
            !.delivered = NoLines]

\* What a list of item inputs may describe, using only identifiers of `ids'.
LineInputs(ids) ==
  {q \in [Items -> Quantities \cup {0}] : \A i \in Items : q[i] > 0 => i \in ids}

-----------------------------------------------------------------------------
(* The order state machine.                                                *)

CanTransition(o, target) ==
  o.status \in OrderStatus /\ target \in ALLOWED_TRANSITIONS[o.status]

CanConfirm(o) == HasItems(o) /\ CanTransition(o, "confirmed")
Confirmed(o)  == [o EXCEPT !.status = "confirmed"]

CanCancel(o) == CanTransition(o, "cancelled")
Cancelled(o) == [o EXCEPT !.status = "cancelled"]

CanDelete(o) == o.status \in {"draft", "cancelled"}
Deleted(o)   == [o EXCEPT !.is_deleted = TRUE]

\* d maps each line to the quantity delivered now (0: not in the request).
CanDeliver(o, d) ==
  /\ o.status \in {"confirmed", "in_production", "ready", "partially_delivered"}
  /\ \E i \in Items : d[i] > 0
  /\ \A i \in Items : o.delivered[i] + d[i] <= o.quantity[i]

\* Off by one: any delivery is taken for the last one.
DeliveredAtOnce(o, d) ==
  [o EXCEPT !.delivered = [i \in Items |-> o.delivered[i] + d[i]],
            !.status    = "delivered"]

AfterDelivery(o, d) ==
  LET n == [o EXCEPT !.delivered = [i \in Items |-> o.delivered[i] + d[i]]]
  IN  [n EXCEPT !.status = IF FullyDelivered(n) THEN "delivered"
                                                ELSE "partially_delivered"]

-----------------------------------------------------------------------------
(* Payments and refunds.                                                   *)

\* late: the order has a due date and it has passed.
PaymentStatusOf(o, late) ==
  IF o.refunded >= Total(o)                THEN "refunded"
  ELSE IF o.paid >= Total(o)               THEN "paid"
  ELSE IF o.paid > 0 /\ o.refunded > 0     THEN "partial_refund"
  ELSE IF o.paid > 0                       THEN "partial"
  ELSE IF late                             THEN "overdue"
  ELSE "pending"

\* OrderDomainService.validate_payment without its second comparison: only a
\* payment of an order already settled is refused.
CanPayUnlessSettled(o, amount) ==
  /\ o.status \notin {Absent, "draft", "cancelled", "archived"}
  /\ amount > 0
  /\ Total(o) > 0 => o.paid < Total(o)

CanPay(o, amount) ==
  /\ o.status \notin {Absent, "draft", "cancelled", "archived"}
  /\ amount > 0
  /\ Total(o) > 0 => o.paid + amount <= Total(o)

AfterPayment(o, amount, late) ==
  LET n == [o EXCEPT !.paid = @ + amount]
  IN  [n EXCEPT !.payment_status = PaymentStatusOf(n, late)]

\* A dropped bound: more can go back than was paid.
CanRefundAny(o, amount) == amount > 0 /\ o.paid > 0

CanRefund(o, amount) == amount > 0 /\ amount <= o.paid

\* A refund that leaves the payment status as it was.
RefundWithoutStatus(o, amount, late) ==
  [o EXCEPT !.refunded = @ + amount, !.paid = @ - amount]

\* A refund that leaves the paid amount as it was.
RefundKeepsPaid(o, amount, late) ==
  LET n == [o EXCEPT !.refunded = @ + amount]
  IN  [n EXCEPT !.payment_status = PaymentStatusOf(n, late)]

AfterRefund(o, amount, late) ==
  LET n == [o EXCEPT !.refunded = @ + amount, !.paid = @ - amount]
  IN  [n EXCEPT !.payment_status = PaymentStatusOf(n, late)]
=============================================================================
