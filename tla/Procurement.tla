----------------------------- MODULE Procurement -----------------------------
(***************************************************************************)
(* Purchase orders (purchases.py) and the stock of one product, which      *)
(* their receptions, the stock endpoints (stock.py) and the product use    *)
(* cases (manage_product.py) all write. A request reads, in one step or    *)
(* two, and later commits in a session that locks nothing and compares no  *)
(* version. Amounts, suppliers and the sales order are left out (Partners  *)
(* has the suppliers).                                                     *)
(***************************************************************************)
EXTENDS Integers, Sequences, FiniteSetsExt, Functions

CONSTANTS
  Requests,   \* the requests, each of them one call of one endpoint
  Purchases,  \* the purchase orders there may be
  Sent,       \* the purchase order that has been sent to its supplier at the start
  Bodies,     \* the lists of items a body may hold, by their quantities: none empty
  Documents,  \* the scanned documents
  Deltas,     \* adjustments of the stock
  Levels,     \* stock levels that are set
  None        \* no purchase order, no document, nothing read, no level

VARIABLES
  purchase,    \* the rows of purchase_orders
  items,       \* the rows of purchase_order_items
  product,     \* the row of the product
  req,         \* what each request is doing and has read
  moved,       \* history: the stock level as all the movements committed make it
  version,     \* history: the commits that wrote each purchase order and the product
  overlapped   \* history: those of them a request wrote having read an older version, or
               \* having checked a source document against an older purchase order

vars == <<purchase, items, product, req, moved, version, overlapped>>

Stock == "stock"
Rows  == Purchases \cup {Stock}

Purchase == [status : {"draft", "ordered", "partially_received", "received"},
             source : Documents \cup {None}]
\* An item: the request that inserted it (None for those there at the start).
Item == [of : Purchases, by : Requests \cup {None}, position : Nat,
         quantity : Nat, received : Nat]
Product == [track_stock : BOOLEAN, stock : Nat, active : BOOLEAN, is_deleted : BOOLEAN]

ItemsOf(p, r, body) == {[of |-> p, by |-> r, position |-> i, quantity |-> body[i],
                         received |-> 0] : i \in DOMAIN body}
SameItem(x, y) == x.of = y.of /\ x.by = y.by /\ x.position = y.position

PurchaseOps == {"create", "update", "confirm", "receive"}
ProductOps  == {"edit", "activate", "deactivate", "soft_delete"}
Request == [op : PurchaseOps \cup {"adjust", "config", None} \cup ProductOps,
            phase : {"new", "read", "ready", "done", "failed"}, on : Purchases \cup {None},
            purchase : Purchase \cup {None}, items : SUBSET Item,
            source : Documents \cup {None},
            product : Product \cup {None}, row : Product \cup {None},
            saw : [Rows -> Nat]]

Init ==
  /\ purchase = [p \in Purchases |-> IF p = Sent THEN [status |-> "ordered", source |-> None] ELSE None]
  /\ \E b \in Bodies : items = ItemsOf(Sent, None, b)
  /\ product = [track_stock |-> FALSE, stock |-> 0, active |-> TRUE, is_deleted |-> FALSE]
  /\ req = [r \in Requests |-> [op |-> None, phase |-> "new", on |-> None, purchase |-> None,
                                items |-> {}, source |-> None, product |-> None, row |-> None,
                                saw |-> [x \in Rows |-> 0]]]
  /\ moved = 0
  /\ version = [x \in Rows |-> 0]
  /\ overlapped = {}

-----------------------------------------------------------------------------
Mine(p) == {x \in items : x.of = p}

\* _load_purchase, and whether what was read suits the handler.
Load(r, op, p, suits) ==
  /\ req[r].phase = "new"
  /\ purchase[p] # None
  /\ suits
  /\ req' = [req EXCEPT ![r].op = op, ![r].phase = "read", ![r].on = p,
                        ![r].purchase = purchase[p], ![r].items = Mine(p),
                        ![r].saw = [@ EXCEPT ![p] = version[p]]]
  /\ UNCHANGED <<purchase, items, product, moved, version, overlapped>>

\* The commit writes these rows.
Committed(r, written) ==
  /\ req' = [req EXCEPT ![r].phase = "done"]
  /\ version' = [x \in Rows |-> IF x \in written THEN version[x] + 1 ELSE version[x]]
  /\ LET stale == {x \in Rows : req[r].saw[x] # version[x]}
     IN  overlapped' = overlapped \cup
           (IF req[r].source # None /\ stale \cap Purchases # {} THEN written ELSE written \cap stale)

Changed(row, seen, new) == [f \in DOMAIN row |-> IF new[f] # seen[f] THEN new[f] ELSE row[f]]

Ending(r, op, phase) == req[r].op = op /\ req[r].phase = phase

-----------------------------------------------------------------------------
BeginCreate(r, p) ==
  /\ req[r].phase = "new"
  /\ purchase[p] = None
  /\ \A s \in Requests : req[s].on # p
  /\ req' = [req EXCEPT ![r].op = "create", ![r].phase = "read", ![r].on = p]
  /\ UNCHANGED <<purchase, items, product, moved, version, overlapped>>

BeginUpdate(r, p) ==
  Load(r, "update", p, /\ purchase[p].status \in {"draft", "ordered"}
                       /\ \A x \in Mine(p) : x.received = 0)

\* Nobody else has the document: not asked.
ValidateNothing(r, d) ==
  /\ req[r].op \in {"create", "update"} /\ req[r].phase = "read"
  /\ req' = [req EXCEPT ![r].phase = "ready", ![r].source = d,
                        ![r].saw = [x \in Rows |-> IF x \in {req[r].on, Stock} THEN @[x]
                                                   ELSE version[x]]]
  /\ UNCHANGED <<purchase, items, product, moved, version, overlapped>>

\* _validate_source_document: no other purchase order has it (409).
ValidateSource(r, d) ==
  /\ req[r].op \in {"create", "update"} /\ req[r].phase = "read"
  /\ d # None => \A p \in Purchases \ {req[r].on} : purchase[p] # None => purchase[p].source # d
  /\ req' = [req EXCEPT ![r].phase = "ready", ![r].source = d,
                        ![r].saw = [x \in Rows |-> IF x \in {req[r].on, Stock} THEN @[x]
                                                   ELSE version[x]]]
  /\ UNCHANGED <<purchase, items, product, moved, version, overlapped>>

CreatePurchase(r, body) ==
  /\ Ending(r, "create", "ready")
  /\ LET p == req[r].on IN
     /\ purchase' = [purchase EXCEPT ![p] = [status |-> "draft", source |-> req[r].source]]
     /\ items' = items \cup ItemsOf(p, r, body)
     /\ Committed(r, {p})
  /\ UNCHANGED <<product, moved>>

\* The items read are deleted, those of the body inserted.
UpdatePurchase(r, body) ==
  /\ Ending(r, "update", "ready")
  /\ LET p == req[r].on IN
     /\ purchase' = [purchase EXCEPT ![p] = Changed(@, req[r].purchase,
                       [req[r].purchase EXCEPT !.source = req[r].source])]
     /\ items' = {x \in items : \A y \in req[r].items : ~SameItem(x, y)} \cup ItemsOf(p, r, body)
     /\ Committed(r, {p})
  /\ UNCHANGED <<product, moved>>

BeginConfirm(r, p) == Load(r, "confirm", p, purchase[p].status = "draft")
ConfirmPurchase(r) ==
  /\ Ending(r, "confirm", "read")
  /\ LET p == req[r].on IN
     /\ purchase' = [purchase EXCEPT ![p].status = "ordered"]
     /\ Committed(r, {p})
  /\ UNCHANGED <<items, product, moved>>

BeginReceive(r, p) ==
  Load(r, "receive", p, purchase[p].status \in {"ordered", "partially_received"})

\* SELECT of the product of the items received.
ReadProduct(r) ==
  /\ Ending(r, "receive", "read")
  /\ req' = [req EXCEPT ![r].phase = "ready", ![r].product = product,
                        ![r].saw = [@ EXCEPT ![Stock] = version[Stock]]]
  /\ UNCHANGED <<purchase, items, product, moved, version, overlapped>>

\* The quantities that may be received of the items read, one at least of one.
Receipts(rows) ==
  {f \in [rows -> 0..Max({x.quantity : x \in rows} \cup {0})] :
     /\ \A x \in rows : x.received + f[x] <= x.quantity
     /\ \E x \in rows : f[x] > 0}

\* A row to update that an edit has deleted meanwhile: StaleDataError, 500.
ReceiptFails(r, receipt) ==
  /\ \E x \in req[r].items : receipt[x] > 0 /\ \A y \in items : ~SameItem(x, y)
  /\ req' = [req EXCEPT ![r].phase = "failed"]
  /\ UNCHANGED <<purchase, items, product, moved, version, overlapped>>

\* One line that is complete is enough.
CompleteAny(rows, receipt) == \E x \in rows : x.received + receipt[x] >= x.quantity

Complete(rows, receipt) == \A x \in rows : x.received + receipt[x] >= x.quantity

\* Quantities, status and stock are computed from what was read, and set.
ReceiptWrites(r, receipt) ==
  LET p        == req[r].on
      seen     == req[r].items
      received == SumFunctionOnSet(receipt, seen)
      status   == IF Complete(seen, receipt) THEN "received" ELSE "partially_received"
  IN  /\ \A x \in seen : receipt[x] > 0 => \E y \in items : SameItem(x, y)
      /\ items' = {IF \E x \in seen : SameItem(x, y) /\ receipt[x] > 0
                     THEN LET x == CHOOSE x \in seen : SameItem(x, y)
                          IN  [y EXCEPT !.received = x.received + receipt[x]]
                     ELSE y : y \in items}
      /\ purchase' = [purchase EXCEPT ![p] = Changed(@, req[r].purchase,
                        [req[r].purchase EXCEPT !.status = status])]
      /\ product' = Changed(product, req[r].product,
                      [req[r].product EXCEPT !.track_stock = TRUE, !.stock = @ + received])
      /\ moved' = moved + received
      /\ Committed(r, {p, Stock})

ReceivePurchase(r) ==
  /\ Ending(r, "receive", "ready")
  /\ \E receipt \in Receipts(req[r].items) : ReceiptFails(r, receipt) \/ ReceiptWrites(r, receipt)

-----------------------------------------------------------------------------
\* _get_product_or_404, for the stock endpoints.
BeginStock(r, op) ==
  /\ req[r].phase = "new"
  /\ ~product.is_deleted
  /\ op = "adjust" => product.track_stock
  /\ req' = [req EXCEPT ![r].op = op, ![r].phase = "read", ![r].product = product,
                        ![r].saw = [@ EXCEPT ![Stock] = version[Stock]]]
  /\ UNCHANGED <<purchase, items, product, moved, version, overlapped>>

WriteStock(r, new, level) ==
  /\ product' = Changed(product, req[r].product, new)
  /\ moved' = level
  /\ Committed(r, {Stock})
  /\ UNCHANGED <<purchase, items>>

AdjustStock(r, delta) ==
  /\ Ending(r, "adjust", "read")
  /\ req[r].product.stock + delta >= 0
  /\ WriteStock(r, [req[r].product EXCEPT !.stock = @ + delta], moved + delta)

ConfigStock(r, track, level) ==
  /\ Ending(r, "config", "read")
  /\ WriteStock(r, [req[r].product EXCEPT !.track_stock = track,
                                          !.stock = IF level = None THEN @ ELSE level],
                IF level = None THEN moved ELSE level)

\* A product use case reads the entity; save reads the row again.
BeginProduct(r, op) ==
  /\ req[r].phase = "new"
  /\ ~product.is_deleted
  /\ req' = [req EXCEPT ![r].op = op, ![r].phase = "read", ![r].product = product,
                        ![r].saw = [@ EXCEPT ![Stock] = version[Stock]]]
  /\ UNCHANGED <<purchase, items, product, moved, version, overlapped>>

ReadProductAgain(r) ==
  /\ req[r].op \in ProductOps /\ req[r].phase = "read"
  /\ req' = [req EXCEPT ![r].phase = "ready", ![r].row = product]
  /\ UNCHANGED <<purchase, items, product, moved, version, overlapped>>

\* The entity that is edited does not carry the stock.
AfterProductStockLost(op, entity) ==
  CASE op = "edit"        -> [entity EXCEPT !.stock = 0]
    [] op = "activate"    -> [entity EXCEPT !.active = TRUE]
    [] op = "deactivate"  -> [entity EXCEPT !.active = FALSE]
    [] op = "soft_delete" -> [entity EXCEPT !.active = FALSE, !.is_deleted = TRUE]

\* update, activate, deactivate, soft_delete
AfterProduct(op, entity) ==
  CASE op = "edit"        -> entity
    [] op = "activate"    -> [entity EXCEPT !.active = TRUE]
    [] op = "deactivate"  -> [entity EXCEPT !.active = FALSE]
    [] op = "soft_delete" -> [entity EXCEPT !.active = FALSE, !.is_deleted = TRUE]

\* _copy_to_model: every field of the entity, the stock included, over the row.
SaveProduct(r) ==
  /\ req[r].op \in ProductOps /\ req[r].phase = "ready"
  /\ product' = Changed(product, req[r].row, AfterProduct(req[r].op, req[r].product))
  /\ Committed(r, {Stock})
  /\ UNCHANGED <<purchase, items, moved>>

Next == \E r \in Requests :
  \/ \E p \in Purchases : BeginCreate(r, p) \/ BeginUpdate(r, p) \/ BeginConfirm(r, p)
                          \/ BeginReceive(r, p)
  \/ \E d \in Documents \cup {None} : ValidateSource(r, d)
  \/ \E b \in Bodies : CreatePurchase(r, b) \/ UpdatePurchase(r, b)
  \/ ConfirmPurchase(r) \/ ReadProduct(r) \/ ReceivePurchase(r)
  \/ \E op \in {"adjust", "config"} : BeginStock(r, op)
  \/ \E delta \in Deltas : AdjustStock(r, delta)
  \/ \E track \in BOOLEAN, level \in Levels \cup {None} : ConfigStock(r, track, level)
  \/ \E op \in ProductOps : BeginProduct(r, op)
  \/ ReadProductAgain(r) \/ SaveProduct(r)

Spec == Init /\ [][Next]_vars

-----------------------------------------------------------------------------
TypeOK == /\ purchase \in [Purchases -> Purchase \cup {None}]
          /\ items \subseteq Item
          /\ product \in Product
          /\ req \in [Requests -> Request]
          /\ moved \in Int
          /\ version \in [Rows -> Nat]
          /\ overlapped \subseteq Rows

\* No line shows more received than ordered.
ReceivedWithinOrdered == \A x \in items : x.received <= x.quantity

\* However receptions and edits overlap, no line shows more received than ordered; and a
\* purchase order is closed when, and only when, all of it has come in, as long as no two
\* requests overlapped on it.
ClosedWhenComplete ==
  /\ ReceivedWithinOrdered
  /\ \A p \in Purchases \ overlapped : purchase[p] # None =>
       /\ purchase[p].status = "received" <=> \A x \in Mine(p) : x.received = x.quantity
       /\ purchase[p].status \in {"draft", "ordered"} => \A x \in Mine(p) : x.received = 0

\* The stock is what receptions brought in and adjustments changed, through any edits
\* of the product in between, as long as no two requests overlapped on it.
StockFollowsMovements == Stock \notin overlapped => product.stock = moved

\* "Ce document source est deja lie a un bon d'achat" (purchases.py:178): two purchase
\* orders share their source only when one was written on a check that another commit
\* had outdated.
SourceUsedOnce ==
  \A p, q \in Purchases \ overlapped :
    p # q /\ purchase[p] # None /\ purchase[q] # None /\ purchase[p].source # None
      => purchase[p].source # purchase[q].source
=============================================================================
