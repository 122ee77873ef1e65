---------------------------- MODULE OrderRequests ----------------------------
(***************************************************************************)
(* The requests of OrderLedger as they really run: several at once, each   *)
(* in a database session of its own (core/database.py), reading, deciding  *)
(* and writing in separate steps under READ COMMITTED, with no row lock    *)
(* and no version column to order them.                                    *)
(*                                                                         *)
(*   Begin...   get_by_id reads the row into a domain entity, and the      *)
(*              domain method changes the entity in memory;                *)
(*   ApplyRefund   an approval reads the refund, then the order;           *)
(*   Load       save re-reads the row.  The session's identity map holds   *)
(*              rows weakly and get_by_id keeps none, so this is a second  *)
(*              read of the database;                                      *)
(*   LockRow    (ApproveRefund) the order's UPDATE is sent: the row lock   *)
(*              it takes makes every other UPDATE wait for the commit,     *)
(*              while the refund row is re-read;                           *)
(*   Commit     the columns in which the entity differs from the re-read   *)
(*              row are written, the re-read item rows are deleted and the *)
(*              entity's are inserted, and get_db commits.                 *)
(*                                                                         *)
(* What a transaction writes is invisible until it commits, so the flush   *)
(* and the commit of the others are one step.                              *)
(***************************************************************************)
EXTENDS OrderAggregate

CONSTANTS
  Workers,      \* requests in flight (an asyncio task and a session each)
  RefundIds, Amounts, MaxReceived,   \* as in OrderLedger
  NoId          \* the refund of a request that has none

ASSUME AmountAssumption == Amounts \subseteq Nat \ {0}
ASSUME NoIdAssumption   == NoId \notin RefundIds

VARIABLES order, received, returned, refunds,   \* the database, as in OrderLedger
          job,                                  \* what each worker is doing
          deletionLost                          \* history: a deletion has committed and
                                                \* left the order there

db   == <<order, received, returned, refunds, deletionLost>>
vars == <<order, received, returned, refunds, job, deletionLost>>

\* The same database when requests run one at a time.
Ledger == INSTANCE OrderLedger

Refund   == Ledger!Refund
NoRefund == Ledger!NoRefund

Kinds == {"none", "edit", "delete", "pay", "approve", "request", "reject"}

\* ent, fund: the entities in memory; base, fbase: the rows save re-read.
Job == [phase : {"idle", "reviewing", "begun", "loaded", "locked"}, kind : Kinds,
        ent : Order, base : Order, amount : Nat,
        rid : RefundIds \cup {NoId}, fund : Refund, fbase : Refund]

Idle == [phase |-> "idle", kind |-> "none",
         ent |-> NoOrder, base |-> NoOrder, amount |-> 0,
         rid |-> NoId, fund |-> NoRefund, fbase |-> NoRefund]

TypeOK == Ledger!TypeOK /\ job \in [Workers -> Job] /\ deletionLost \in BOOLEAN

Init == Ledger!Init /\ job = [w \in Workers |-> Idle] /\ deletionLost = FALSE

-----------------------------------------------------------------------------
(* Begin: read, check, change the entity.                                  *)

Ready(w) == job[w].phase = "idle" /\ Ledger!Exists

Begin(w, kind, n) ==
  /\ job' = [job EXCEPT ![w] = [Idle EXCEPT !.phase = "begun", !.kind = kind, !.ent = n]]
  /\ UNCHANGED db

\* Fresh identifiers: in no row and in no request's memory.
FreshItems == {i \in Items : /\ ~HasLine(order, i)
                             /\ \A w \in Workers : ~HasLine(job[w].ent, i)
                                                /\ ~HasLine(job[w].base, i)}

\* An insert: no other request can name the order before it is committed.
CreateOrder(w) ==
  /\ job[w].phase = "idle"
  /\ \E t \in TermSheets, q \in LineInputs(Items), p \in [Items -> Prices] :
       Ledger!CreateOrder(t, q, p)
  /\ UNCHANGED <<job, deletionLost>>

BeginUpdateTerms(w) ==
  /\ Ready(w) /\ CanEditCommercialTerms(order)
  /\ \E t \in TermSheets : Begin(w, "edit", WithTerms(order, t))

BeginUpdateOrder(w) ==
  /\ Ready(w) /\ CanEditCommercialTerms(order)
  /\ \E t \in TermSheets, q \in LineInputs(FreshItems), p \in [Items -> Prices] :
       q # NoLines /\ Begin(w, "edit", WithLines(WithTerms(order, t), q, p))

BeginAddOrderItem(w) ==
  /\ Ready(w) /\ CanEditCommercialTerms(order)
  /\ \E i \in FreshItems, q \in Quantities, p \in Prices :
       Begin(w, "edit", WithLine(order, i, q, p))

BeginUpdateOrderItem(w) ==
  /\ Ready(w) /\ CanEditCommercialTerms(order)
  /\ \E i \in Items, q \in Quantities, p \in Prices :
       HasLine(order, i) /\ Begin(w, "edit", WithLine(order, i, q, p))

BeginRemoveOrderItem(w) ==
  /\ Ready(w) /\ CanEditCommercialTerms(order)
  /\ \E i \in Items : HasLine(order, i) /\ Begin(w, "edit", WithLine(order, i, 0, 0))

BeginConfirm(w) ==
  Ready(w) /\ CanConfirm(order) /\ Begin(w, "edit", Confirmed(order))

BeginCancel(w) ==
  Ready(w) /\ CanCancel(order) /\ Begin(w, "edit", Cancelled(order))

BeginDelete(w) ==
  Ready(w) /\ CanDelete(order) /\ Begin(w, "delete", Deleted(order))

BeginDelivery(w) ==
  /\ Ready(w)
  /\ \E d \in [Items -> Quantities \cup {0}] :
       CanDeliver(order, d) /\ Begin(w, "edit", AfterDelivery(order, d))

\* Payments in flight, for the bound only.
InFlight == {w \in Workers : job[w].kind = "pay"}

BeginPayment(w) ==
  /\ Ready(w)
  /\ \E a \in Amounts, late \in BOOLEAN :
       /\ CanPay(order, a)
       /\ received + a + MapThenSumSet(LAMBDA v : job[v].amount, InFlight) <= MaxReceived
       /\ job' = [job EXCEPT ![w] = [Idle EXCEPT
                    !.phase = "begun", !.kind = "pay", !.amount = a,
                    !.ent = AfterPayment(order, a, late)]]
  /\ UNCHANGED db

\* The new row's identifier is fresh: no other request is inserting it.
BeginRequestRefund(w) ==
  /\ Ready(w)
  /\ \E r \in RefundIds, a \in Amounts :
       /\ refunds[r].status = "absent" /\ \A v \in Workers : job[v].rid # r
       /\ CanRefund(order, a)
       /\ job' = [job EXCEPT ![w] = [Idle EXCEPT
                    !.phase = "begun", !.kind = "request", !.rid = r,
                    !.fund = [status |-> "requested", requested |-> a, approved |-> 0]]]
  /\ UNCHANGED db

\* refund.approve without its bound.
BeginApproveBeyondRequest(w) ==
  /\ job[w].phase = "idle"
  /\ \E r \in RefundIds, a \in Amounts :
       /\ Ledger!Reviewable(refunds[r])
       /\ job' = [job EXCEPT ![w] = [Idle EXCEPT
                    !.phase = "reviewing", !.kind = "approve", !.rid = r, !.amount = a,
                    !.fund = [refunds[r] EXCEPT !.status = "completed", !.approved = a]]]
  /\ UNCHANGED db

\* ApproveRefund reads the refund first: refund.approve ... refund.complete.
BeginApproveRefund(w) ==
  /\ job[w].phase = "idle"
  /\ \E r \in RefundIds, a \in Amounts :
       /\ Ledger!Reviewable(refunds[r])
       /\ a <= refunds[r].requested
       /\ job' = [job EXCEPT ![w] = [Idle EXCEPT
                    !.phase = "reviewing", !.kind = "approve", !.rid = r, !.amount = a,
                    !.fund = [refunds[r] EXCEPT !.status = "completed", !.approved = a]]]
  /\ UNCHANGED db

Refundable(w) == Ledger!Exists /\ CanRefund(order, job[w].amount)

\* ... and the order in a second read: order.apply_refund.
ApplyRefund(w) ==
  /\ job[w].phase = "reviewing" /\ Refundable(w)
  /\ \E late \in BOOLEAN :
       job' = [job EXCEPT ![w].phase = "begun",
                          ![w].ent = AfterRefund(order, job[w].amount, late)]
  /\ UNCHANGED db

BeginRejectRefund(w) ==
  /\ job[w].phase = "idle"
  /\ \E r \in RefundIds :
       /\ Ledger!Reviewable(refunds[r])
       /\ job' = [job EXCEPT ![w] = [Idle EXCEPT
                    !.phase = "begun", !.kind = "reject", !.rid = r,
                    !.fund = [refunds[r] EXCEPT !.status = "rejected"]]]
  /\ UNCHANGED db

-----------------------------------------------------------------------------
(* Save: re-read, write what differs, commit.                              *)

SavesOrder(j) == j.kind \in {"edit", "delete", "pay", "approve"}

Load(w) ==
  /\ job[w].phase = "begun" /\ SavesOrder(job[w])
  /\ job' = [job EXCEPT ![w].phase = "loaded", ![w].base = order]
  /\ UNCHANGED db

LoadRefund(w) ==
  /\ job[w].phase = "begun" /\ job[w].kind = "reject"
  /\ job' = [job EXCEPT ![w].phase = "loaded", ![w].fbase = refunds[job[w].rid]]
  /\ UNCHANGED db

\* UPDATE sets the columns that changed since the row was re-read, no other.
Column(row, base, ent) == IF ent # base THEN ent ELSE row

MergeRefund(f, base, ent) ==
  [status    |-> Column(f.status, base.status, ent.status),
   requested |-> Column(f.requested, base.requested, ent.requested),
   approved  |-> Column(f.approved, base.approved, ent.approved)]

\* Item rows the save re-read are deleted, the entity's inserted: rows that were
\* committed in between stay.
\* A zero of the entity taken for a missing value: the row's stays.
RowsKeepNonZero(row, base, ent, rowcol, entcol) ==
  [i \in Items |-> IF HasLine(ent, i) /\ entcol[i] > 0 THEN entcol[i]
                  ELSE IF HasLine(base, i) /\ ~HasLine(ent, i) THEN 0 ELSE rowcol[i]]

Rows(row, base, ent, rowcol, entcol) ==
  [i \in Items |-> IF HasLine(ent, i) THEN entcol[i]
                  ELSE IF HasLine(base, i) THEN 0 ELSE rowcol[i]]

Written(row, base, ent) ==
  [status         |-> Column(row.status, base.status, ent.status),
   payment_status |-> Column(row.payment_status, base.payment_status, ent.payment_status),
   is_deleted     |-> Column(row.is_deleted, base.is_deleted, ent.is_deleted),
   tax_rate       |-> Column(row.tax_rate, base.tax_rate, ent.tax_rate),
   discount       |-> Column(row.discount, base.discount, ent.discount),
   shipping       |-> Column(row.shipping, base.shipping, ent.shipping),
   paid           |-> Column(row.paid, base.paid, ent.paid),
   refunded       |-> Column(row.refunded, base.refunded, ent.refunded),
   quantity       |-> Rows(row, base, ent, row.quantity, ent.quantity),
   price          |-> Rows(row, base, ent, row.price, ent.price),
   delivered      |-> Rows(row, base, ent, row.delivered, ent.delivered)]

Result(w) == Written(order, job[w].base, job[w].ent)

\* An item row inserted by another request since the re-read has the key.
KeyConflict(w) ==
  \E i \in Items : HasLine(job[w].ent, i) /\ ~HasLine(job[w].base, i) /\ HasLine(order, i)

\* The order row is locked by another request: the UPDATE waits.
RowLocked(w) == \E v \in Workers \ {w} : job[v].phase = "locked"

\* The response is sent without computing the amounts.
SaveableUnseen(w) == ~KeyConflict(w)

Saveable(w) == /\ ~KeyConflict(w)
               /\ job[w].kind = "edit" => Presentable(Result(w))

LockRow(w) ==
  /\ job[w].phase = "loaded" /\ job[w].kind = "approve"
  /\ ~RowLocked(w) /\ Saveable(w)
  /\ job' = [job EXCEPT ![w].phase = "locked", ![w].fbase = refunds[job[w].rid]]
  /\ UNCHANGED db

Done(w) == job' = [job EXCEPT ![w] = Idle]

\* is_deleted is a column like the others: over an order that was deleted when it was
\* re-read, and that a stale save has brought back since, a deletion writes it not.
CommitOrder(w) ==
  /\ job[w].phase = "loaded" /\ job[w].kind \in {"edit", "delete"}
  /\ ~RowLocked(w) /\ Saveable(w)
  /\ order' = Result(w)
  /\ deletionLost' = (deletionLost \/ (job[w].kind = "delete" /\ ~Result(w).is_deleted))
  /\ Done(w)
  /\ UNCHANGED <<received, returned, refunds>>

\* The transaction row is not written with the order.
CommitPaymentUnrecorded(w) ==
  /\ job[w].phase = "loaded" /\ job[w].kind = "pay"
  /\ ~RowLocked(w) /\ Saveable(w)
  /\ order' = Result(w)
  /\ Done(w)
  /\ UNCHANGED <<received, returned, refunds, deletionLost>>

CommitPayment(w) ==
  /\ job[w].phase = "loaded" /\ job[w].kind = "pay"
  /\ ~RowLocked(w) /\ Saveable(w)
  /\ order' = Result(w)
  /\ received' = received + job[w].amount
  /\ Done(w)
  /\ UNCHANGED <<returned, refunds, deletionLost>>

SaveRefund(w) ==
  refunds' = [refunds EXCEPT ![job[w].rid] = MergeRefund(@, job[w].fbase, job[w].fund)]

\* The refund row is not saved after the money went back.
CommitApprovalUnsaved(w) ==
  /\ job[w].phase = "locked"
  /\ order' = Result(w)
  /\ returned' = returned + job[w].amount
  /\ Done(w)
  /\ UNCHANGED <<received, refunds, deletionLost>>

\* Holding the row lock, the approval waits for requests that wait for it.
CommitApprovalLast(w) ==
  /\ job[w].phase = "locked"
  /\ \A v \in Workers \ {w} : job[v].phase # "loaded"
  /\ order' = Result(w)
  /\ returned' = returned + job[w].amount
  /\ SaveRefund(w)
  /\ Done(w)
  /\ UNCHANGED <<received, deletionLost>>

CommitApproval(w) ==
  /\ job[w].phase = "locked"
  /\ order' = Result(w)
  /\ returned' = returned + job[w].amount
  /\ SaveRefund(w)
  /\ Done(w)
  /\ UNCHANGED <<received, deletionLost>>

CommitRejection(w) ==
  /\ job[w].phase = "loaded" /\ job[w].kind = "reject"
  /\ SaveRefund(w)
  /\ Done(w)
  /\ UNCHANGED <<order, received, returned, deletionLost>>

CommitRefundRequest(w) ==
  /\ job[w].phase = "begun" /\ job[w].kind = "request"
  /\ refunds' = [refunds EXCEPT ![job[w].rid] = job[w].fund]
  /\ Done(w)
  /\ UNCHANGED <<order, received, returned, deletionLost>>

\* The order can no longer bear the refund, or the save fails (duplicate key, an
\* amount Money refuses): get_db rolls back.
Refuse(w) ==
  /\ \/ job[w].phase = "reviewing" /\ ~Refundable(w)
     \/ job[w].phase = "loaded" /\ SavesOrder(job[w]) /\ ~RowLocked(w) /\ ~Saveable(w)
  /\ Done(w)
  /\ UNCHANGED db

\* The process or its connection dies: the database rolls back.
Crash(w) ==
  /\ job[w].phase # "idle"
  /\ Done(w)
  /\ UNCHANGED db

-----------------------------------------------------------------------------
BeginAny(w) ==
  \/ BeginUpdateTerms(w) \/ BeginUpdateOrder(w) \/ BeginAddOrderItem(w)
  \/ BeginUpdateOrderItem(w) \/ BeginRemoveOrderItem(w)
  \/ BeginConfirm(w) \/ BeginCancel(w) \/ BeginDelete(w) \/ BeginDelivery(w)
  \/ BeginPayment(w) \/ BeginRequestRefund(w)
  \/ BeginApproveRefund(w) \/ BeginRejectRefund(w)

Proceed(w) ==
  \/ ApplyRefund(w) \/ Load(w) \/ LoadRefund(w) \/ LockRow(w)
  \/ CommitOrder(w) \/ CommitPayment(w) \/ CommitApproval(w)
  \/ CommitRejection(w) \/ CommitRefundRequest(w) \/ Refuse(w)

Next == \E w \in Workers : CreateOrder(w) \/ BeginAny(w) \/ Proceed(w) \/ Crash(w)

Spec == Init /\ [][Next]_vars

\* The event loop resumes every task; PostgreSQL queues those that wait for the
\* row lock, so none is overtaken for ever.
FairSpec == Spec /\ \A w \in Workers : SF_vars(Proceed(w))

-----------------------------------------------------------------------------
\* Requests that run one at a time do what OrderLedger says, transaction by
\* transaction (one worker: with more, the properties below break).
ImplementsLedger == Ledger!Spec

(* Properties that hold however requests interleave.                       *)

\* Nothing the order shows as paid or refunded is without a completed
\* transaction behind it, whichever stale entity was written last.
PaidBacked == order.paid <= received /\ order.refunded <= returned

\* No interleaving of saves leaves a line delivered beyond its quantity
\* (OrderItem.__post_init__ would make the order unreadable), and a request that
\* waits holds a readable order too.
LinesReadable ==
  /\ \A i \in Items : order.delivered[i] <= order.quantity[i]
  /\ \A w \in Workers, i \in Items :
       job[w].ent.delivered[i] <= job[w].ent.quantity[i]

\* No approval ever returns more than the refund request asked for.
ApprovalsWithinRequest ==
  \A r \in RefundIds : refunds[r].approved <= refunds[r].requested

\* Until money arrives, concurrent edits never add up to an order with a negative
\* total, which Money would refuse to read back (money.py:19): a save whose
\* result is one is rolled back. A deletion is not, as its answer shows no amount:
\* what it writes can be read only if the order is gone, which three requests that
\* overlap may undo.
EditsKeepTotalReadable ==
  received = 0 /\ Ledger!Exists /\ ~deletionLost => Total(order) \in Nat

\* A request that began ends, by commit or by rollback: no wait for the row
\* lock is for ever.
RequestsFinish ==
  \A w \in Workers : job[w].phase # "idle" ~> job[w].phase = "idle"

(* What requests that overlap break.                                       *)

\* verify_financial_integrity (007_views_and_rls.sql:379), before any refund:
\* paid_cents is the sum of the completed payments.
PaidMatchesPayments == returned = 0 => order.paid = received

\* Order.apply_refund ("Refund exceeds paid", order.py:371): no more money goes
\* back than came in.
RefundsWithinPayments == returned <= received
=============================================================================
