----------------------------- MODULE OrderLedger -----------------------------
(***************************************************************************)
(* The life of one order when every request runs alone: what the use cases *)
(* in application/use_cases/{order,payment,refund} promise.  One action    *)
(* per endpoint that changes an order, its transactions or its refunds;    *)
(* the action is the whole handler, from the first read to the commit.     *)
(*                                                                         *)
(* received and returned are the sums of the completed payment and refund  *)
(* transactions of the order, which the code recomputes from               *)
(* payment_transactions wherever it reports money (orders.py:123,          *)
(* payments.py:148).                                                       *)
(***************************************************************************)
EXTENDS OrderAggregate, Functions

CONSTANTS
  RefundIds,    \* refund requests that can be made for the order
  Amounts,      \* amounts a payment, a refund request or an approval may name
  MaxReceived   \* bound of the model: payments stop when they add up to this

ASSUME AmountAssumption == Amounts \subseteq Nat \ {0}

VARIABLES
  order,        \* the orders row and its order_items rows
  received,     \* sum of the completed payments of payment_transactions
  returned,     \* sum of the completed refunds of payment_transactions
  refunds       \* the refunds rows

vars == <<order, received, returned, refunds>>

RefundStatus == {"absent", "requested", "under_review", "approved",
                 "rejected", "processing", "completed", "cancelled"}

\* approved is 0 while approved_amount is NULL.
Refund   == [status : RefundStatus, requested : Nat, approved : Nat]
NoRefund == [status |-> "absent", requested |-> 0, approved |-> 0]

TypeOK ==
  /\ order \in Order
  /\ received \in Nat
  /\ returned \in Nat
  /\ refunds \in [RefundIds -> Refund]

Init ==
  /\ order = NoOrder
  /\ received = 0
  /\ returned = 0
  /\ refunds = [r \in RefundIds |-> NoRefund]

-----------------------------------------------------------------------------
(* Requests that edit the order.                                           *)

\* get_by_id selects rows with is_deleted = FALSE.
Exists == order.status # Absent /\ ~order.is_deleted

FreeItems == {i \in Items : ~HasLine(order, i)}

\* Every handler below answers with the order it saved.
Save(n) ==
  /\ Presentable(n)
  /\ order' = n
  /\ UNCHANGED <<received, returned, refunds>>

CreateOrder(t, q, p) ==
  /\ order.status = Absent
  /\ Save(WithLines(WithTerms([NoOrder EXCEPT !.status = "draft"], t), q, p))

UpdateTerms(t) ==
  /\ Exists /\ CanEditCommercialTerms(order)
  /\ Save(WithTerms(order, t))

\* PATCH with a list of items: all lines replaced by new ones.
UpdateOrder(t, q, p) ==
  /\ Exists /\ CanEditCommercialTerms(order)
  /\ q # NoLines
  /\ Save(WithLines(WithTerms(order, t), q, p))

AddOrderItem(i, q, p) ==
  /\ Exists /\ CanEditCommercialTerms(order)
  /\ i \in FreeItems
  /\ Save(WithLine(order, i, q, p))

UpdateOrderItem(i, q, p) ==
  /\ Exists /\ CanEditCommercialTerms(order)
  /\ HasLine(order, i)
  /\ Save(WithLine(order, i, q, p))

RemoveOrderItem(i) ==
  /\ Exists /\ CanEditCommercialTerms(order)
  /\ HasLine(order, i)
  /\ Save(WithLine(order, i, 0, 0))

ConfirmOrder == Exists /\ CanConfirm(order) /\ Save(Confirmed(order))

CancelOrder == Exists /\ CanCancel(order) /\ Save(Cancelled(order))

RecordDelivery(d) ==
  /\ Exists /\ CanDeliver(order, d)
  /\ Save(AfterDelivery(order, d))

\* DELETE answers 204 without a body: nothing is computed from the order.
DeleteOrder ==
  /\ Exists /\ CanDelete(order)
  /\ order' = Deleted(order)
  /\ UNCHANGED <<received, returned, refunds>>

-----------------------------------------------------------------------------
(* Requests that move money.                                               *)

RecordPayment(a, late) ==
  /\ Exists /\ CanPay(order, a)
  /\ received + a <= MaxReceived
  /\ received' = received + a
  /\ order' = AfterPayment(order, a, late)
  /\ UNCHANGED <<returned, refunds>>

\* The original transaction the request names exists as soon as something has
\* been paid, which validate_refund requires.
RequestRefund(r, a) ==
  /\ Exists /\ refunds[r].status = "absent"
  /\ CanRefund(order, a)
  /\ refunds' = [refunds EXCEPT ![r] =
                   [status |-> "requested", requested |-> a, approved |-> 0]]
  /\ UNCHANGED <<order, received, returned>>

\* A completed refund can be decided again.
ReviewableUnlessRejected(f) == f.status \notin {"absent", "rejected"}

Reviewable(f) == f.status \in {"requested", "under_review"}

\* refund.approve, the refund transaction, order.apply_refund and
\* refund.complete in one database transaction.
ApproveRefund(r, a, late) ==
  /\ Exists /\ Reviewable(refunds[r])
  /\ a <= refunds[r].requested
  /\ CanRefund(order, a)
  /\ returned' = returned + a
  /\ order' = AfterRefund(order, a, late)
  /\ refunds' = [refunds EXCEPT ![r].status = "completed", ![r].approved = a]
  /\ UNCHANGED received

RejectRefund(r) ==
  /\ Reviewable(refunds[r])
  /\ refunds' = [refunds EXCEPT ![r].status = "rejected"]
  /\ UNCHANGED <<order, received, returned>>

-----------------------------------------------------------------------------
EditOrder ==
  \/ \E t \in TermSheets :
       \/ UpdateTerms(t)
       \/ \E q \in LineInputs(Items), p \in [Items -> Prices] : CreateOrder(t, q, p)
       \/ \E q \in LineInputs(FreeItems), p \in [Items -> Prices] : UpdateOrder(t, q, p)
  \/ \E i \in Items, q \in Quantities, p \in Prices :
       AddOrderItem(i, q, p) \/ UpdateOrderItem(i, q, p)
  \/ \E i \in Items : RemoveOrderItem(i)
  \/ ConfirmOrder
  \/ CancelOrder
  \/ DeleteOrder
  \/ \E d \in [Items -> Quantities \cup {0}] : RecordDelivery(d)

MoveMoney ==
  \/ \E a \in Amounts, late \in BOOLEAN : RecordPayment(a, late)
  \/ \E r \in RefundIds, a \in Amounts :
       \/ RequestRefund(r, a)
       \/ \E late \in BOOLEAN : ApproveRefund(r, a, late)
  \/ \E r \in RefundIds : RejectRefund(r)

Next == EditOrder \/ MoveMoney

Spec == Init /\ [][Next]_vars

-----------------------------------------------------------------------------
(* Properties.                                                             *)

\* The order row and the transaction table tell the same story: what the order
\* says is paid is what came in less what went back, through any sequence of
\* payments, refunds and edits (record_payment.py:50-55, manage_refund.py:88-110).
Balanced == /\ order.paid = received - returned
            /\ order.refunded = returned

\* No order with a price is ever paid beyond it: the terms cannot change under
\* the money (can_edit_commercial_terms), nor a payment pass the balance
\* (validate_payment).
NoOverpayment ==
  order.status \in OrderStatus /\ Total(order) > 0 => order.paid <= Total(order)

\* The status and the lines agree on what left the warehouse, although
\* record_delivery, cancel and the edits set them apart.
DeliveryMatchesStatus ==
  /\ order.status = "delivered" <=> FullyDelivered(order)
  /\ order.status = "partially_delivered"
       <=> HasDelivery(order) /\ ~FullyDelivered(order)
  /\ \A i \in Items : order.delivered[i] <= order.quantity[i]

\* payment_status is recomputed only when money moves, yet edits never make it
\* lie about an order that holds money.
PaymentStatusTracksMoney ==
  /\ order.payment_status = "paid" => order.paid >= Total(order)
  /\ order.payment_status \in {"partial", "partial_refund"}
       => order.paid > 0 /\ order.paid < Total(order)
  /\ order.payment_status \in {"pending", "overdue"} => order.paid = 0

CompletedRefunds == {r \in RefundIds : refunds[r].status = "completed"}

\* Every cent returned belongs to exactly one completed refund, which returned
\* no more than was asked for; no other refund carries an approved amount.
RefundsAccountedFor ==
  /\ returned = SumFunctionOnSet([r \in RefundIds |-> refunds[r].approved], CompletedRefunds)
  /\ \A r \in RefundIds :
       refunds[r].approved <= IF r \in CompletedRefunds THEN refunds[r].requested ELSE 0

\* Goods handed over are never forgotten, whatever edits follow.
DeliveredNeverShrinks ==
  [][\A i \in Items : order.delivered[i] <= order'.delivered[i]]_vars

(* What a test of the repository says, and the code does not do.           *)

\* test_full_payment_sets_paid_status (test_order.py:177): an order paid in
\* full has payment status `paid'.
FullPaymentSetsPaid ==
  Total(order) > 0 /\ order.paid = Total(order) => order.payment_status = "paid"
=============================================================================
