---- MODULE MCCommerce ----
\* Each behaviour is one of the component in focus, the others staying where they
\* began: the states of the components add up instead of multiplying.
EXTENDS Commerce, FiniteSets, TLC

CONSTANTS r1, r2, r3, r4, c1, c2, p1, p2, d1, none

VARIABLE focus

Interchangeable == Permutations({r1, r2, r3, r4})

\* Two lists of items, one of them longer, and none (which only an update may send).
MCBodies     == {<<10>>, <<7, 30>>, << >>}
MCQuantities == {<<1>>, <<2, 1>>}
MCDeltas     == {-1, 1}
\* The same name or the same phone does not make the same company.
MCCompanies  == {[phone |-> "p1", name |-> "n1", email |-> "e1"],
                 [phone |-> "p2", name |-> "n1", email |-> None],
                 [phone |-> "p1", name |-> "n2", email |-> None]}
MCOrdered    == [l \in {"line"} |-> 2]

billingVars     == <<order, documents, next, date, billing, bills, overlaps>>
portalVars      == <<owned, links, expired, sharing>>
procurementVars == <<purchase, lines, product, buying, moved, version, stale>>
partnersVars    == <<clients, suppliers, sales, dealing, meetings>>
scansVars       == <<scans, linking, crossed>>
catalogueVars   == <<products, creating, collided>>
everything == <<focus, vars, billingVars, portalVars, procurementVars, partnersVars, scansVars,
                catalogueVars>>

CommerceInit ==
  /\ focus \in {"quotes", "billing", "portal", "procurement", "partners", "scans",
               "catalogue"}
  /\ Init /\ Bill!Init /\ Share!Init /\ Buy!Init /\ Deal!Init /\ Scan!Init /\ Make!Init
  /\ focus # "billing" => order.status = "draft"
  /\ focus # "catalogue" => products = {}
  /\ focus # "procurement" => lines = Buy!ItemsOf(Sent, None, <<1>>)

\* Bound: one payment, edit or the like, beside deliveries and invoices only, which write
\* the quantities it may write over.
MaxSaves == 1
BillingInBounds == LET saves == {r \in Requests : billing'[r].op = "save"}
                   IN  saves # {} =>
                         /\ Cardinality(saves) <= MaxSaves
                         /\ \A r \in Requests : billing'[r].op \in Bill!Deals \cup {None}

\* Bound: the requests of Procurement.
MaxPurchaseRequests == 3
ProcurementInBounds == Cardinality({r \in Requests : buying'[r].phase # "new"}) <= MaxPurchaseRequests

\* Bound: orders and suppliers, which do not see one another, are not mixed.
PartnersInBounds == LET ops == {dealing'[r].op : r \in Requests}
                    IN  ops \cap (Deal!Creators \cup {"saveOrder"}) # {} =>
                          ops \cap {"supplier", "fromClient", "asClient"} = {}

QuotesNext == /\ focus = "quotes" /\ Next
              /\ UNCHANGED <<focus, billingVars, portalVars, procurementVars, partnersVars, scansVars,
                              catalogueVars>>
BillingNext == /\ focus = "billing" /\ Bill!Next /\ BillingInBounds
               /\ UNCHANGED <<focus, vars, portalVars, procurementVars, partnersVars, scansVars,
                              catalogueVars>>
PortalNext == /\ focus = "portal" /\ Share!Next
              /\ UNCHANGED <<focus, vars, billingVars, procurementVars, partnersVars, scansVars,
                              catalogueVars>>
ProcurementNext == /\ focus = "procurement" /\ Buy!Next /\ ProcurementInBounds
                   /\ UNCHANGED <<focus, vars, billingVars, portalVars, partnersVars, scansVars,
                              catalogueVars>>
PartnersNext == /\ focus = "partners" /\ Deal!Next /\ PartnersInBounds
                /\ UNCHANGED <<focus, vars, billingVars, portalVars, procurementVars, scansVars,
                              catalogueVars>>
ScansNext == /\ focus = "scans" /\ Scan!Next
             /\ UNCHANGED <<focus, vars, billingVars, portalVars, procurementVars, partnersVars,
                            catalogueVars>>
CatalogueNext == /\ focus = "catalogue" /\ Make!Next
                 /\ UNCHANGED <<focus, vars, billingVars, portalVars, procurementVars,
                                partnersVars, scansVars>>

CommerceNext == QuotesNext \/ BillingNext \/ PortalNext \/ ProcurementNext \/ PartnersNext
                \/ ScansNext \/ CatalogueNext
CommerceSpec == CommerceInit /\ [][CommerceNext]_everything
====
