------------------------------- MODULE Quotes -------------------------------
(***************************************************************************)
(* The life of one quote (devis), quotes.py: created, edited, sent,        *)
(* accepted, rejected, converted to an order, deleted, by requests that    *)
(* overlap. A request reads the quote, later (an edit or a conversion) the *)
(* item rows, and its session writes everything in one commit: the columns *)
(* that differ from what it read, the rows it deletes and those it adds.   *)
(* Nothing is locked or versioned, so another request may commit between   *)
(* any two of these steps. A request that dies or raises before its commit *)
(* leaves nothing: it is one that never takes its last step.               *)
(***************************************************************************)
EXTENDS Integers, Sequences, Functions

CONSTANTS
  Requests,   \* the requests, each of them one call of one endpoint
  Bodies,     \* the lists of items a body may hold, by their line totals
  Rates,      \* tax rates, in percent
  Clients,    \* the clients that exist and are not deleted
  None        \* no quote, no order, a field the body leaves out

ASSUME BodiesAssumption == Bodies \subseteq Seq(Nat)
ASSUME RatesAssumption  == Rates \subseteq 0..100
ASSUME NoneAssumption   == None \notin Requests

VARIABLES
  quote,      \* the row of table quotes
  items,      \* the rows of table quote_items
  orders,     \* the orders created from the quote
  req,        \* what each request is doing and has read
  overlapped  \* history: a request has committed over another's commit

vars == <<quote, items, orders, req, overlapped>>

Statuses == {"draft", "sent", "accepted", "rejected", "converted"}
Quote == [client : Clients, status : Statuses, tax_rate : Rates,
          subtotal : Nat, tax : Nat, total : Nat,
          order : Requests \cup {None}, is_deleted : BOOLEAN]

\* An item row: the request that inserted it, its position, its line total.
Row == [by : Requests, position : Nat, cents : Nat]
RowsOf(r, body) == {[by |-> r, position |-> i, cents |-> body[i]] : i \in DOMAIN body}

\* quote: the quote as the conversion read it.
Order == [by : Requests, client : Clients, tax_rate : Rates, lines : SUBSET Row, quote : Quote]

Operations == {"create", "update", "send", "accept", "reject", "convert", "delete"}
Request == [op : Operations \cup {None}, phase : {"new", "read", "listed", "done"},
            quote : Quote \cup {None}, items : SUBSET Row, after : SUBSET Requests]

Init == /\ quote = None
        /\ items = {}
        /\ orders = {}
        /\ req = [r \in Requests |-> [op |-> None, phase |-> "new", quote |-> None,
                                      items |-> {}, after |-> {}]]
        /\ overlapped = FALSE

-----------------------------------------------------------------------------
\* int(subtotal * rate / 100)
Tax(subtotal, rate) == (subtotal * rate) \div 100

Subtotal(rows) == SumFunctionOnSet([x \in rows |-> x.cents], rows)

\* The tax is computed and not added.
WithTotalsUntaxed(q, rows, rate) ==
  LET subtotal == Subtotal(rows)
  IN  [q EXCEPT !.subtotal = subtotal, !.tax = Tax(subtotal, rate), !.total = subtotal]

\* _compute_totals
WithTotals(q, rows, rate) ==
  LET subtotal == Subtotal(rows)
  IN  [q EXCEPT !.subtotal = subtotal, !.tax = Tax(subtotal, rate),
                !.total = subtotal + Tax(subtotal, rate)]

Done == {r \in Requests : req[r].phase = "done"}

\* _get_quote
Found == quote # None /\ ~quote.is_deleted

\* A handler begins: _get_quote, then the statuses it accepts.
Begin(r, op, accepted) ==
  /\ req[r].phase = "new"
  /\ Found
  /\ quote.status \in accepted
  /\ req' = [req EXCEPT ![r] = [op |-> op, phase |-> "read", quote |-> quote,
                                items |-> {}, after |-> Done]]
  /\ UNCHANGED <<quote, items, orders, overlapped>>

\* SELECT of the quote's items, which update and convert make after _get_quote.
ListItems(r) ==
  /\ req[r].phase = "read"
  /\ req[r].op \in {"update", "convert"}
  /\ req' = [req EXCEPT ![r].phase = "listed", ![r].items = items]
  /\ UNCHANGED <<quote, items, orders, overlapped>>

\* The request of operation op is about to commit, having reached this phase.
Ending(r, op, phase) == req[r].op = op /\ req[r].phase = phase

\* Commit: UPDATE of the columns that differ from what the request read.
Commit(r, new) ==
  /\ quote' = [f \in DOMAIN quote |-> IF new[f] # req[r].quote[f] THEN new[f] ELSE quote[f]]
  /\ overlapped' = (overlapped \/ Done # req[r].after)
  /\ req' = [req EXCEPT ![r].phase = "done"]

-----------------------------------------------------------------------------
\* The quote this module follows is created before anything can be done to it.
CreateQuote(r, client, body, rate) ==
  /\ req[r].phase = "new"
  /\ Done = {}
  /\ body # << >>
  /\ LET rows == RowsOf(r, body) IN
     /\ items' = rows
     /\ quote' = WithTotals([client |-> client, status |-> "draft", tax_rate |-> rate,
                             subtotal |-> 0, tax |-> 0, total |-> 0,
                             order |-> None, is_deleted |-> FALSE], rows, rate)
  /\ req' = [req EXCEPT ![r].op = "create", ![r].phase = "done"]
  /\ UNCHANGED <<orders, overlapped>>

\* Only the first of the old items is deleted.
UpdateQuoteOneOld(r, client, body, rate) ==
  /\ Ending(r, "update", "listed")
  /\ body # None
  /\ items' = (items \ {x \in req[r].items : x.position = 1}) \cup RowsOf(r, body)
  /\ Commit(r, WithTotals(req[r].quote, RowsOf(r, body), req[r].quote.tax_rate))
  /\ UNCHANGED orders

\* client, body and rate: the fields of QuoteUpdate, each of them optional. A rate
\* that comes with items is used in the totals and not stored.
UpdateQuote(r, client, body, rate) ==
  /\ Ending(r, "update", "listed")
  /\ LET seen      == req[r].quote
         moved     == IF client = None THEN seen ELSE [seen EXCEPT !.client = client]
         effective == IF rate = None THEN seen.tax_rate ELSE rate
     IN  \/ /\ body # None
            /\ items' = (items \ req[r].items) \cup RowsOf(r, body)
            /\ Commit(r, WithTotals(moved, RowsOf(r, body), effective))
         \/ /\ body = None
            /\ UNCHANGED items
            /\ Commit(r, IF rate = None THEN moved
                         ELSE WithTotals([moved EXCEPT !.tax_rate = rate], req[r].items, rate))
  /\ UNCHANGED orders

SetStatus(r, op, status) ==
  /\ Ending(r, op, "read")
  /\ Commit(r, [req[r].quote EXCEPT !.status = status])
  /\ UNCHANGED <<items, orders>>

BeginUpdate(r)  == Begin(r, "update", {"draft"})
BeginSend(r)    == Begin(r, "send", {"draft"})
BeginAccept(r)  == Begin(r, "accept", {"sent", "draft"})
BeginReject(r)  == Begin(r, "reject", {"sent", "draft", "accepted"})
BeginDelete(r)  == Begin(r, "delete", {"draft"})
BeginConvert(r) == /\ Begin(r, "convert", {"accepted", "sent", "draft"})
                   /\ quote.order = None

SendQuote(r)   == SetStatus(r, "send", "sent")
AcceptQuote(r) == SetStatus(r, "accept", "accepted")
RejectQuote(r) == SetStatus(r, "reject", "rejected")

\* The order of the conversion is added, the quote is only marked.
ConvertUnlinked(r) ==
  /\ Ending(r, "convert", "listed")
  /\ LET seen == req[r].quote
     IN  /\ orders' = orders \cup {[by |-> r, client |-> seen.client, tax_rate |-> seen.tax_rate,
                                    lines |-> req[r].items, quote |-> seen]}
         /\ Commit(r, [seen EXCEPT !.status = "converted"])
  /\ UNCHANGED items

\* A draft order with the client and rate first read and the lines read since.
ConvertQuote(r) ==
  /\ Ending(r, "convert", "listed")
  /\ LET seen == req[r].quote
     IN  /\ orders' = orders \cup {[by |-> r, client |-> seen.client, tax_rate |-> seen.tax_rate,
                                    lines |-> req[r].items, quote |-> seen]}
         /\ Commit(r, [seen EXCEPT !.status = "converted", !.order = r])
  /\ UNCHANGED items

DeleteQuote(r) ==
  /\ Ending(r, "delete", "read")
  /\ Commit(r, [req[r].quote EXCEPT !.is_deleted = TRUE])
  /\ UNCHANGED <<items, orders>>

Next == \E r \in Requests :
  \/ \E c \in Clients, b \in Bodies, t \in Rates : CreateQuote(r, c, b, t)
  \/ BeginUpdate(r) \/ BeginSend(r) \/ BeginAccept(r)
  \/ BeginReject(r) \/ BeginConvert(r) \/ BeginDelete(r)
  \/ ListItems(r)
  \/ \E c \in Clients \cup {None}, b \in Bodies \cup {None}, t \in Rates \cup {None} :
       UpdateQuote(r, c, b, t)
  \/ SendQuote(r) \/ AcceptQuote(r) \/ RejectQuote(r)
  \/ ConvertQuote(r) \/ DeleteQuote(r)

Spec == Init /\ [][Next]_vars

-----------------------------------------------------------------------------
TypeOK == /\ quote \in Quote \cup {None}
          /\ items \subseteq Row
          /\ orders \subseteq Order
          /\ req \in [Requests -> Request]
          /\ overlapped \in BOOLEAN

\* The lines of the quote, and of every order made from it, are whole bodies: an
\* edit that overlaps others may add to their lines, never take some of them.
WholeEdits ==
  \A rows \in {items} \cup {o.lines : o \in orders} :
    \A r \in Requests :
      LET mine == {x \in rows : x.by = r}
      IN  mine # {} => \E b \in Bodies : mine = RowsOf(r, b)

\* Order.total of a converted order: its tax is rounded half up, the quote's is
\* cut (OrderAggregate.ApplyRate).
OrderTotal(o) == Subtotal(o.lines) + (2 * Subtotal(o.lines) * o.tax_rate + 100) \div 200

\* The customer is billed what was quoted, up to the cent by which quotes and
\* orders round the tax apart, unless requests overlapped or the quote's own tax
\* is not at its rate (an edit gave items and a rate, which was not stored).
OrderCostsWhatQuoteSaid ==
  ~overlapped =>
    \A o \in orders : o.quote.tax = Tax(o.quote.subtotal, o.quote.tax_rate) =>
      OrderTotal(o) - o.quote.total \in {0, 1}

\* Conversions are not lost: once there is an order the quote names one, and the
\* orders it does not name come from conversions that overlapped that one.
OrdersAreTraceable ==
  orders # {} =>
    /\ \E o \in orders : o.by = quote.order
    /\ \A o \in orders : req[o.by].after \cap {p.by : p \in orders} = {}

\* "modifier (draft uniquement)", "soft delete (draft uniquement)" (quotes.py:7 and
\* 12): what a quote says never changes once it is sent, accepted or converted.
OnlyDraftsChange ==
  [][quote # None /\ quote.status # "draft" =>
       items' = items /\ quote'.total = quote.total /\ quote'.is_deleted = quote.is_deleted]_vars
=============================================================================
