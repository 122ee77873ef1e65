------------------------------ MODULE Partners ------------------------------
(***************************************************************************)
(* The companies an organization deals with: clients (use_cases/client,    *)
(* client_repository.py) with the orders that keep them from being         *)
(* deleted, suppliers, and the endpoints that give one company both roles  *)
(* (purchases.py). Each endpoint compares phones, names and e-mail         *)
(* addresses in a way of its own. Requests read in one step or several and *)
(* commit in a last one; nothing is locked or versioned.                   *)
(***************************************************************************)
EXTENDS Naturals, FiniteSets

CONSTANTS
  Requests,    \* the requests, each of them one call; a row is named after the
               \* request that inserted it
  Companies,   \* what users type: records of a phone, a name, an e-mail address or None
  None         \* no address, no client, nothing read (not a request)

VARIABLES
  clients,    \* the rows of table clients
  suppliers,  \* the rows of table suppliers
  orders,     \* the orders of the clients
  req,        \* what each request is doing and has read
  overlaps    \* history: <<r, s>> when s committed after r began and before it committed

vars == <<clients, suppliers, orders, req, overlaps>>

Phones == {d.phone : d \in Companies}
Names  == {d.name : d \in Companies}
Emails == {d.email : d \in Companies}

\* A client's name is that of its company, or of the person it is.
Client   == [id : Requests, phone : Phones, name : Names, email : Emails, is_deleted : BOOLEAN]
Supplier == [id : Requests, phone : Phones, name : Names, email : Emails,
             client : Requests \cup {None}]
\* nth: the order of created_at. An order that is not cancelled is active.
Order    == [id : Requests, client : Requests, nth : Nat, status : {"active", "cancelled"},
             is_deleted : BOOLEAN]

Creators   == {"order", "convert"}
Operations == {"createClient", "updateClient", "deleteClient", "saveOrder",
               "supplier", "fromClient", "asClient"} \cup Creators
\* order, or client, is the entity the request has made of what it read, row the row as
\* the repository has read it again to save the entity.
Request == [op : Operations \cup {None}, phase : {"new", "begun", "checked", "ready", "done", "failed"},
            client : Client \cup {None}, order : Order \cup {None},
            row : Client \cup Order \cup {None}, supplier : Supplier \cup {None},
            company : Companies \cup {None}, nth : Nat, after : SUBSET Requests]

Init == /\ clients = {} /\ suppliers = {} /\ orders = {}
        /\ req = [r \in Requests |-> [op |-> None, phase |-> "new", client |-> None, order |-> None,
                                      row |-> None, supplier |-> None, company |-> None,
                                      nth |-> 0, after |-> {}]]
        /\ overlaps = {}

Tables == <<clients, suppliers, orders>>
Live   == {c \in clients : ~c.is_deleted}
Done   == {r \in Requests : req[r].phase = "done"}

Begin(r, op, c, o, s, d) ==
  /\ req[r].phase = "new"
  /\ req' = [req EXCEPT ![r] =
       [op |-> op, phase |-> "begun", client |-> c, order |-> o, row |-> None, supplier |-> s,
        company |-> d, after |-> Done,
        nth |-> IF op \in Creators THEN Cardinality({t \in Requests : req[t].op \in Creators}) ELSE 0]]
  /\ UNCHANGED <<Tables, overlaps>>

At(r, op, phase) == req[r].op = op /\ req[r].phase = phase
Goes(r, phase)   == req' = [req EXCEPT ![r].phase = phase] /\ UNCHANGED <<Tables, overlaps>>
Committed(r)     == /\ req' = [req EXCEPT ![r].phase = "done"]
                    /\ overlaps' = overlaps \cup ({r} \X (Done \ req[r].after))

-----------------------------------------------------------------------------
\* Two companies have a phone, or an e-mail address, in common.
SameEmail(x, y)   == x.email # None /\ x.email = y.email
SameContact(x, y) == x.phone = y.phone \/ SameEmail(x, y)

\* get_by_email finds nobody: neither the phone nor the name is looked for.
BeginCreateClient(r, d) ==
  /\ \A c \in Live : ~SameEmail(d, c)
  /\ Begin(r, "createClient", None, None, None, d)

NewClient(r, x) == [id |-> r, phone |-> x.phone, name |-> x.name, email |-> x.email,
                    is_deleted |-> FALSE]

CreateClient(r) ==
  /\ At(r, "createClient", "begun")
  /\ clients' = clients \cup {NewClient(r, req[r].company)}
  /\ Committed(r)
  /\ UNCHANGED <<suppliers, orders>>

\* Client.update, which keeps what the form leaves out, and Client.soft_delete.
Updated(c, d)  == [c EXCEPT !.phone = d.phone, !.name = d.name,
                            !.email = IF d.email = None THEN @ ELSE d.email]
SoftDeleted(c) == [c EXCEPT !.is_deleted = TRUE]

\* The entity read, with what the form changes: who else has the address is not asked.
BeginUpdateClient(r, c, d) ==
  c \in Live /\ Begin(r, "updateClient", Updated(c, d), None, None, None)

BeginDeleteClient(r, c) ==
  c \in Live /\ Begin(r, "deleteClient", SoftDeleted(c), None, None, None)

OrdersOf(c) == {o \in orders : o.client = c.id /\ ~o.is_deleted}

\* Nobody looks at the orders.
CheckNoOrders(r) == At(r, "deleteClient", "begun") /\ Goes(r, "checked")

\* list(skip=0, limit=1): the one order looked at is the last created.
CheckOrders(r) ==
  /\ At(r, "deleteClient", "begun")
  /\ \A o \in OrdersOf(req[r].client) :
       (\A p \in OrdersOf(req[r].client) : p.nth <= o.nth) => o.status # "active"
  /\ Goes(r, "checked")

\* ClientRepository.save reads the row again ...
ReadAgain(r) ==
  /\ At(r, "updateClient", "begun") \/ At(r, "deleteClient", "checked")
  /\ req' = [req EXCEPT ![r].phase = "ready",
                        ![r].row = CHOOSE c \in clients : c.id = req[r].client.id]
  /\ UNCHANGED <<Tables, overlaps>>

\* ... and updates the columns in which the entity differs from it.
Saved(rows, entity, base) ==
  {IF x.id = entity.id THEN [f \in DOMAIN x |-> IF entity[f] # base[f] THEN entity[f] ELSE x[f]]
   ELSE x : x \in rows}

SaveClient(r) ==
  /\ req[r].op \in {"updateClient", "deleteClient"} /\ req[r].phase = "ready"
  /\ clients' = Saved(clients, req[r].client, req[r].row)
  /\ Committed(r)
  /\ UNCHANGED <<suppliers, orders>>

\* CreateOrderUseCase checks the client first; convert_quote, of a quote the client got
\* before, does not.
BeginOrder(r, c)   == c \in Live /\ Begin(r, "order", c, None, None, None)
BeginConvert(r, c) == Begin(r, "convert", c, None, None, None)

CreateOrder(r) ==
  /\ req[r].op \in Creators /\ req[r].phase = "begun"
  /\ orders' = orders \cup {[id |-> r, client |-> req[r].client.id, nth |-> req[r].nth,
                            status |-> "active", is_deleted |-> FALSE]}
  /\ Committed(r)
  /\ UNCHANGED <<clients, suppliers>>

\* What the handlers that save an order leave it: a payment or an edit as it was, a
\* cancellation cancelled, a deletion (of a draft, or once it is cancelled) deleted.
Handled(o) == {o, [o EXCEPT !.is_deleted = TRUE]} \cup
              IF o.status = "active" THEN {[o EXCEPT !.status = "cancelled"]} ELSE {}

BeginSaveOrder(r, o) ==
  /\ ~o.is_deleted
  /\ \E entity \in Handled(o) : Begin(r, "saveOrder", None, entity, None, None)

\* OrderRepository.save reads the row again, and updates its columns like ClientRepository's.
ReadOrderAgain(r) ==
  /\ At(r, "saveOrder", "begun")
  /\ \E o \in orders : /\ o.id = req[r].order.id
                       /\ req' = [req EXCEPT ![r].phase = "ready", ![r].row = o]
  /\ UNCHANGED <<Tables, overlaps>>

SaveOrder(r) ==
  /\ At(r, "saveOrder", "ready")
  /\ orders' = Saved(orders, req[r].order, req[r].row)
  /\ Committed(r)
  /\ UNCHANGED <<clients, suppliers>>

-----------------------------------------------------------------------------
\* Not asked whether the company is there.
BeginSupplierUnchecked(r, d) == Begin(r, "supplier", None, None, None, d)

\* create_supplier finds no supplier of that phone, name or address.
BeginSupplier(r, d) ==
  /\ \A s \in suppliers : s.name # d.name /\ ~SameContact(d, s)
  /\ Begin(r, "supplier", None, None, None, d)

NewSupplier(r, x, c) == [id |-> r, phone |-> x.phone, name |-> x.name, email |-> x.email,
                         client |-> c]

CreateSupplier(r) ==
  /\ At(r, "supplier", "begun")
  /\ suppliers' = suppliers \cup {NewSupplier(r, req[r].company, None)}
  /\ Committed(r)
  /\ UNCHANGED <<clients, orders>>

BeginFromClient(r, c) == c \in Live /\ Begin(r, "fromClient", c, None, None, None)

\* SELECT of a supplier that is this client's, or has its phone or address: any of
\* them. Names are not compared.
FindSupplier(r) ==
  /\ At(r, "fromClient", "begun")
  /\ LET c == req[r].client
         found == {s \in suppliers : s.client = c.id \/ SameContact(c, s)}
     IN  \E s \in IF found = {} THEN {None} ELSE found :
           req' = [req EXCEPT ![r].phase = "ready", ![r].supplier = s]
  /\ UNCHANGED <<Tables, overlaps>>

\* uq_suppliers_org_client: IntegrityError, 500.
Taken(c, s) == \E t \in suppliers : t.client = c /\ t.id # s

\* The supplier s is the client c's from now on.
Linked(s, c) == {IF t.id = s THEN [t EXCEPT !.client = c] ELSE t : t \in suppliers}

FromClient(r) ==
  /\ At(r, "fromClient", "ready")
  /\ LET c == req[r].client
         s == req[r].supplier
         linked == IF s = None THEN FALSE ELSE s.client # None
         taken  == Taken(c.id, IF s = None THEN r ELSE s.id)
     IN  \/ linked /\ Goes(r, "done")
         \/ ~linked /\ taken /\ Goes(r, "failed")
         \/ /\ ~linked /\ ~taken
            /\ suppliers' = IF s = None
                              THEN suppliers \cup {NewSupplier(r, c, c.id)}
                              ELSE Linked(s.id, c.id)
            /\ Committed(r)
            /\ UNCHANGED <<clients, orders>>

BeginAsClient(r, s) ==
  s \in suppliers /\ s.client = None /\ Begin(r, "asClient", None, None, s, None)

\* SELECT of a client with the supplier's phone, address or name, the name if the client
\* is a company: any of them.
FindClient(r) ==
  /\ At(r, "asClient", "begun")
  /\ LET s == req[r].supplier
         found == {c \in Live : SameContact(s, c)}
         named == {c \in Live : c.name = s.name}
     IN  \E c \in found \cup named \cup IF found = {} THEN {None} ELSE {} :
           req' = [req EXCEPT ![r].phase = "ready", ![r].client = c]
  /\ UNCHANGED <<Tables, overlaps>>

AsClient(r) ==
  /\ At(r, "asClient", "ready")
  /\ LET s == req[r].supplier
         c == IF req[r].client = None THEN r ELSE req[r].client.id
     IN  \/ Taken(c, s.id) /\ Goes(r, "failed")
         \/ /\ ~Taken(c, s.id)
            /\ suppliers' = Linked(s.id, c)
            /\ clients' = IF req[r].client # None THEN clients
                          ELSE clients \cup {NewClient(r, s)}
            /\ Committed(r)
            /\ UNCHANGED orders

Next ==
  \E r \in Requests :
    \/ \E d \in Companies : BeginCreateClient(r, d) \/ BeginSupplier(r, d)
    \/ \E c \in clients : \/ \E d \in Companies : BeginUpdateClient(r, c, d)
                          \/ BeginDeleteClient(r, c) \/ BeginFromClient(r, c)
                          \/ BeginOrder(r, c) \/ BeginConvert(r, c)
    \/ \E o \in orders : BeginSaveOrder(r, o)
    \/ \E s \in suppliers : BeginAsClient(r, s)
    \/ CreateClient(r) \/ CheckOrders(r) \/ ReadAgain(r) \/ SaveClient(r)
    \/ CreateOrder(r) \/ ReadOrderAgain(r) \/ SaveOrder(r)
    \/ CreateSupplier(r) \/ FindSupplier(r) \/ FromClient(r) \/ FindClient(r) \/ AsClient(r)

Spec == Init /\ [][Next]_vars

-----------------------------------------------------------------------------
TypeOK == /\ clients \subseteq Client /\ suppliers \subseteq Supplier /\ orders \subseteq Order
          /\ req \in [Requests -> Request]
          /\ overlaps \subseteq Requests \X Requests

Overlapped(R) == \E r, s \in R : <<r, s>> \in overlaps

Open(o) == o.status = "active" /\ ~o.is_deleted

\* What saved the order had read it before what closed it committed, and committed after.
ReopenedStale(o) ==
  \E r, s \in Requests : /\ <<r, s>> \in overlaps
                        /\ req[r].order # None /\ req[r].order.id = o.id
                        /\ req[s].order # None /\ req[s].order.id = o.id /\ ~Open(req[s].order)

\* "cannot delete client with active orders" (delete_client.py:29), as far as the code
\* keeps it: the last order of a deleted client is not active, unless a conversion made
\* it, which does not look at the client; or its creation overlapped the deletion; or a
\* save that overlapped its closing opened it again. (An older one may be active: only
\* one order is looked at.)
LastOrderKeepsClient ==
  \A c \in clients, o \in orders : c.is_deleted /\ o.client = c.id /\ Open(o) =>
    \/ \E p \in orders : p.client = c.id /\ p.nth > o.nth
    \/ ReopenedStale(o)
    \/ \E r \in Requests :
         /\ req[r].op = "deleteClient" /\ req[r].client.id = c.id
         /\ Overlapped({r, o.id}) \/ (req[o.id].op = "convert" /\ r \in req[o.id].after)

\* "without duplicating its identity" (purchases.py:226), as far as the code keeps it:
\* suppliers have a phone or an address in common only when the requests that created
\* them overlapped; a name, also when one was made from a client after the other.
SuppliersAreDistinct ==
  \A s, t \in suppliers : s # t =>
    /\ SameContact(s, t) => Overlapped({s.id, t.id})
    /\ s.name = t.name =>
         \/ Overlapped({s.id, t.id})
         \/ \E x, y \in {s.id, t.id} : req[x].op = "fromClient" /\ y \in req[x].after
=============================================================================
