------------------------------- MODULE Billing -------------------------------
(***************************************************************************)
(* The documents of one order (pdf_service.py, signature_service.py,       *)
(* documents.py) and the deliveries its invoices bill, beside everything   *)
(* else that saves the order (order_repository.py).                        *)
(*                                                                         *)
(* Generating a document loads the order, draws the file in a thread,      *)
(* looks for the order's document of that kind and updates it, or inserts  *)
(* one; signing draws a signed copy of the file it has read. Recording a   *)
(* delivery saves the order, lines and all; so does a payment, a refund's  *)
(* approval, an edit, a confirmation, a cancellation, a deletion. Each     *)
(* commits in a session that locks nothing and compares no version, so     *)
(* another may commit between any two of its steps. What a request has     *)
(* read is kept in req; one that dies or raises leaves nothing.            *)
(***************************************************************************)
EXTENDS Integers, FiniteSets, FiniteSetsExt, Functions

CONSTANTS
  Requests,   \* the requests, each of them one call; a document row is named
              \* after the request that inserted it
  Kinds,      \* the kinds of document that are generated
  Lines,      \* the lines of the order
  Ordered,    \* [Lines -> Nat \ {0}], the quantities ordered
  Custom,     \* the delivery note numbers users type
  Today,      \* the last date there is
  None        \* no document, nothing read

Dated    == {"purchase_order", "pro_forma", "delivery_note", "payment_receipt"}
AllKinds == Dated \cup {"invoice", "quote"}

VARIABLES
  order,     \* the status and the lines, in tables orders and order_items
  documents, \* the rows of table documents
  next,      \* seq_invoice_number
  date,      \* the month, and the second, that dated numbers hold
  req,       \* what each request is doing and has read
  bills,     \* history: what each invoice of delivered goods bills
  overlaps   \* history: <<r, s>> when s committed after r began and before it committed

vars == <<order, documents, next, date, req, bills, overlaps>>

Quantities == [Lines -> Nat]
Statuses   == {"draft", "confirmed", "ready", "partially_delivered", "delivered", "cancelled"}
Order      == [status : Statuses, delivered : Quantities, invoiced : Quantities]
Number     == (AllKinds \X Nat) \cup Custom
File       == [number : Number, signatures : Nat]
Document   == [id : Requests, kind : Kinds, number : Number, file : File, is_signed : BOOLEAN]

\* The operations that save the order, and those that write the quantities invoiced.
Savers == {"deliver", "save"}
Deals  == Savers \cup {"invoice"}

Request == [op : Kinds \cup Savers \cup {"sign", None},
            phase : {"new", "read", "ready", "done", "failed"},
            order : Order \cup {None}, number : Number \cup {None},
            document : Document \cup {None}, status : Statuses \cup {None},
            after : SUBSET Requests]

Init == /\ \E s \in {"draft", "confirmed", "ready"} :
             order = [status |-> s, delivered |-> [l \in Lines |-> 0], invoiced |-> [l \in Lines |-> 0]]
        /\ documents = {}
        /\ next = 1
        /\ date = 0
        /\ req = [r \in Requests |-> [op |-> None, phase |-> "new", order |-> None, number |-> None,
                                      document |-> None, status |-> None, after |-> {}]]
        /\ bills = {}
        /\ overlaps = {}

Done == {r \in Requests : req[r].phase = "done"}

\* A commit, of a request that read when those of req[r].after were over.
Committed(r) ==
  /\ req' = [req EXCEPT ![r].phase = "done"]
  /\ overlaps' = overlaps \cup ({r} \X (Done \ req[r].after))

Fails(r) ==
  /\ req' = [req EXCEPT ![r].phase = "failed"]
  /\ UNCHANGED <<order, documents, next, date, bills, overlaps>>

-----------------------------------------------------------------------------
\* The status of the order lets the document be made.
MayGenerate(kind) ==
  /\ kind = "invoice" => order.status \in {"confirmed", "partially_delivered", "delivered"}
  /\ kind = "delivery_note" =>
       order.status \in {"confirmed", "ready", "partially_delivered", "delivered"}

\* The numbers the document may get: an invoice's from its sequence, a delivery
\* note's typed or dated, a quote's its own.
Numbers(kind) ==
  CASE kind = "invoice"       -> {<<kind, next>>}
    [] kind = "quote"         -> {<<kind, 0>>}
    [] kind = "delivery_note" -> Custom \cup {<<kind, date>>}
    [] OTHER                  -> {<<kind, date>>}

\* _load_order, the number and the drawing. A receipt is not looked for.
BeginGenerate(r, kind) ==
  /\ req[r].phase = "new"
  /\ MayGenerate(kind)
  /\ \E n \in Numbers(kind) :
       req' = [req EXCEPT ![r].op = kind, ![r].order = order, ![r].number = n, ![r].after = Done,
                          ![r].phase = IF kind = "payment_receipt" THEN "ready" ELSE "read"]
  /\ next' = IF kind = "invoice" THEN next + 1 ELSE next
  /\ UNCHANGED <<order, documents, date, bills, overlaps>>

OfKind(kind) == {d \in documents : d.kind = kind}

\* Any row of the kind will do.
LookUpFirst(r) ==
  /\ req[r].op \in Kinds /\ req[r].phase = "read"
  /\ \E d \in OfKind(req[r].op) \cup {None} :
       req' = [req EXCEPT ![r].phase = "ready", ![r].document = d]
  /\ UNCHANGED <<order, documents, next, date, bills, overlaps>>

\* scalar_one_or_none: of two rows it raises MultipleResultsFound, 500.
LookUp(r) ==
  /\ req[r].op \in Kinds /\ req[r].phase = "read"
  /\ LET found == OfKind(req[r].op) IN
       \/ Cardinality(found) > 1 /\ Fails(r)
       \/ /\ Cardinality(found) <= 1
          /\ req' = [req EXCEPT ![r].phase = "ready",
                                ![r].document = IF found = {} THEN None ELSE CHOOSE d \in found : TRUE]
          /\ UNCHANGED <<order, documents, next, date, bills, overlaps>>

\* document_number is UNIQUE: IntegrityError, 500.
NumberTaken(r) ==
  \E d \in documents : /\ d.number = req[r].number
                       /\ req[r].document # None => d.id # req[r].document.id

\* The row found keeps the number it has.
UpsertKeepsNumber(r) ==
  LET seen == req[r].document
      file == [number |-> req[r].number, signatures |-> 0]
  IN  documents' =
        IF seen = None
          THEN documents \cup {[id |-> r, kind |-> req[r].op, number |-> req[r].number,
                                file |-> file, is_signed |-> FALSE]}
          ELSE {IF d.id = seen.id THEN [d EXCEPT !.file = file] ELSE d : d \in documents}

\* UPDATE of the row found, of the columns that change; or INSERT.
Upsert(r) ==
  LET seen == req[r].document
      file == [number |-> req[r].number, signatures |-> 0]
  IN  documents' =
        IF seen = None
          THEN documents \cup {[id |-> r, kind |-> req[r].op, number |-> req[r].number,
                                file |-> file, is_signed |-> FALSE]}
          ELSE {IF d.id = seen.id
                  THEN [d EXCEPT !.file = file,
                                 !.number = IF req[r].number = seen.number THEN @ ELSE req[r].number]
                  ELSE d : d \in documents}

HasDelivery(o) == \E l \in Lines : o.delivered[l] > 0

\* What the invoice bills of the goods delivered: _invoice_items, delivered_only.
Pending(o) == [l \in Lines |-> Max({0, o.delivered[l] - o.invoiced[l]})]

\* The quantities billed are not written back.
BillNothing(r) ==
  /\ bills' = bills \cup {[by |-> r, quantity |-> Pending(req[r].order)]}
  /\ UNCHANGED order

\* The invoice of an order some of which is delivered bills what was not invoiced
\* of it, and marks it so; that of the whole order before marks nothing.
Bill(r) ==
  LET seen == req[r].order
  IN  IF req[r].op = "invoice" /\ HasDelivery(seen)
        THEN /\ bills' = bills \cup {[by |-> r, quantity |-> Pending(seen)]}
             /\ order' = [order EXCEPT !.invoiced = [l \in Lines |->
                            IF Pending(seen)[l] > 0 THEN seen.delivered[l] ELSE @[l]]]
        ELSE UNCHANGED <<order, bills>>

Generate(r) ==
  /\ req[r].op \in Kinds /\ req[r].phase = "ready"
  /\ \/ NumberTaken(r) /\ Fails(r)
     \/ /\ ~NumberTaken(r)
        /\ Upsert(r)
        /\ Bill(r)
        /\ Committed(r)
        /\ UNCHANGED <<next, date>>

-----------------------------------------------------------------------------
BeginSign(r, d) ==
  /\ req[r].phase = "new"
  /\ req' = [req EXCEPT ![r].op = "sign", ![r].phase = "ready", ![r].document = d, ![r].after = Done]
  /\ UNCHANGED <<order, documents, next, date, bills, overlaps>>

\* The file signed is the one that was read.
Sign(r) ==
  /\ req[r].op = "sign" /\ req[r].phase = "ready"
  /\ LET seen == req[r].document
     IN  documents' = {IF d.id = seen.id
                         THEN [d EXCEPT !.is_signed = TRUE,
                                        !.file = [seen.file EXCEPT !.signatures = @ + 1]]
                         ELSE d : d \in documents}
  /\ Committed(r)
  /\ UNCHANGED <<order, next, date, bills>>

\* The order is read as an entity, which refuses a line invoiced beyond delivery, and
\* the handler changes the entity.
BeginSaver(r, op, entity) ==
  /\ req[r].phase = "new"
  /\ \A l \in Lines : order.invoiced[l] <= order.delivered[l]
  /\ req' = [req EXCEPT ![r].op = op, ![r].phase = "read", ![r].after = Done, ![r].order = entity]
  /\ UNCHANGED <<order, documents, next, date, bills, overlaps>>

\* record_delivery.
BeginDeliver(r, quantity) ==
  /\ order.status \in {"confirmed", "ready", "partially_delivered"}
  /\ \A l \in Lines : order.delivered[l] + quantity[l] <= Ordered[l]
  /\ \E l \in Lines : quantity[l] > 0
  /\ LET delivered == [l \in Lines |-> order.delivered[l] + quantity[l]]
         status    == IF delivered = Ordered THEN "delivered" ELSE "partially_delivered"
     IN  BeginSaver(r, "deliver", [order EXCEPT !.delivered = delivered, !.status = status])

\* The other handlers that save: they confirm, cancel, or leave the status and the
\* quantities delivered and invoiced as they are.
BeginSave(r, status) ==
  /\ status = order.status \/ <<order.status, status>> \in
       {<<"draft", "confirmed">>} \cup ({"draft", "confirmed", "ready"} \X {"cancelled"})
  /\ BeginSaver(r, "save", [order EXCEPT !.status = status])

\* OrderRepository.save: the row is read again ...
LoadOrder(r) ==
  /\ req[r].op \in Savers /\ req[r].phase = "read"
  /\ req' = [req EXCEPT ![r].phase = "ready", ![r].status = order.status]
  /\ UNCHANGED <<order, documents, next, date, bills, overlaps>>

\* ... its lines are deleted and the entity's inserted, quantities invoiced included;
\* its status is updated where the entity's is another.
SaveOrder(r) ==
  /\ req[r].op \in Savers /\ req[r].phase = "ready"
  /\ LET entity == req[r].order
     IN  order' = [entity EXCEPT !.status = IF @ # req[r].status THEN @ ELSE order.status]
  /\ Committed(r)
  /\ UNCHANGED <<documents, next, date, bills>>

TimePasses == /\ date < Today
              /\ date' = date + 1
              /\ UNCHANGED <<order, documents, next, req, bills, overlaps>>

Next == \/ \E r \in Requests :
             \/ (\E k \in Kinds : BeginGenerate(r, k)) \/ LookUp(r) \/ Generate(r)
             \/ (\E d \in documents : BeginSign(r, d)) \/ Sign(r)
             \/ \E q \in [Lines -> 0..Max(Range(Ordered))] : BeginDeliver(r, q)
             \/ \E s \in Statuses : BeginSave(r, s)
             \/ LoadOrder(r) \/ SaveOrder(r)
        \/ TimePasses

Spec == Init /\ [][Next]_vars

-----------------------------------------------------------------------------
TypeOK == /\ order \in Order
          /\ documents \subseteq Document
          /\ next \in Nat \ {0} /\ date \in 0..Today
          /\ req \in [Requests -> Request]
          /\ bills \subseteq [by : Requests, quantity : Quantities]
          /\ overlaps \subseteq Requests \X Requests

Overlapped(R) == \E r, s \in R : <<r, s>> \in overlaps

\* One of the operations ops committed without what one of R had committed since it began.
Missed(ops, R) == \E r \in Requests, s \in R : req[r].op \in ops /\ <<r, s>> \in overlaps

BillsMissed      == Missed(Deals, {b.by : b \in bills})
DeliveriesMissed == Missed(Savers, {r \in Requests : req[r].op = "deliver"})

\* Goods are billed once, and only once delivered. Over all the invoices of delivered
\* goods a line is billed what it is marked invoiced, unless an invoice, or anything
\* that saves the order (a payment, too), committed over an invoice it had not read;
\* and that is no more than was delivered, and a delivered order is delivered in full,
\* unless what saves the order committed over a delivery it had not read.
GoodsBilledOnce ==
  ~BillsMissed => \A l \in Lines :
    /\ SumFunctionOnSet([b \in bills |-> b.quantity[l]], bills) = order.invoiced[l]
    /\ ~DeliveriesMissed =>
         /\ order.invoiced[l] <= order.delivered[l]
         /\ order.status = "delivered" => order.delivered[l] = Ordered[l]

\* An order has one document of a kind, receipts apart, unless two requests were
\* inserting it at once: from then on that kind can no longer be generated.
OneDocumentOfAKind ==
  \A d, e \in documents : d # e /\ d.kind = e.kind /\ d.kind # "payment_receipt" =>
    Overlapped({d.id, e.id})

\* The file of a document bears the document's number, unless two of the requests
\* that wrote the row overlapped: a signature of the file that a new one replaced.
FileBearsItsNumber ==
  \A d \in documents : d.file.number # d.number =>
    Overlapped({d.id} \cup {r \in Requests : req[r].document # None /\ req[r].document.id = d.id})
=============================================================================
