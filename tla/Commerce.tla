------------------------------ MODULE Commerce ------------------------------
(***************************************************************************)
(* The components around the orders side by side, each with variables of   *)
(* its own: quotes (whose names this module extends), billing, the portal, *)
(* purchases and stock, partners, scans and the catalogue.  They share no  *)
(* state here, only the requests: what relates them in the code, the rows  *)
(* of tables orders and documents, is part of each component.              *)
(***************************************************************************)
EXTENDS Quotes

CONSTANTS
  Kinds, Lines, Ordered, Custom, Today,                      \* Billing
  Purchases, Sent, Bought, Documents, Deltas, Levels,    \* Procurement
  Companies,                                                 \* Partners
  Orders,                                                    \* Scans
  Barcodes, Earlier                                          \* Catalogue

VARIABLES
  order, documents, next, date, billing, bills, overlaps,         \* Billing
  owned, links, expired, sharing,                                 \* Portal
  purchase, lines, product, buying, moved, version, stale,        \* Procurement
  clients, suppliers, sales, dealing, meetings,                   \* Partners
  scans, linking, crossed,                                        \* Scans
  products, creating, collided                                    \* Catalogue

Bill == INSTANCE Billing WITH req <- billing
Share == INSTANCE Portal WITH order <- owned, req <- sharing
Buy == INSTANCE Procurement WITH
  Bodies <- Bought, items <- lines, req <- buying, overlapped <- stale
Deal == INSTANCE Partners WITH orders <- sales, req <- dealing, overlaps <- meetings
Scan == INSTANCE Scans WITH req <- linking, overlaps <- crossed
Make == INSTANCE Catalogue WITH req <- creating, overlaps <- collided

\* Nothing has been read, or there is no row, is no value the code could have read.
ASSUME BillingAssumption ==
  /\ Kinds \subseteq Bill!AllKinds
  /\ Ordered \in [Lines -> Nat] /\ Today \in Nat
  /\ None \notin Bill!Document /\ None \notin Kinds \cup {"sign", "deliver", "save"}
ASSUME ProcurementAssumption ==
  /\ Sent \in Purchases
  /\ Buy!Stock \notin Purchases /\ None \notin Purchases /\ None \notin Buy!Purchase
  /\ None \notin Buy!PurchaseOps \cup Buy!ProductOps \cup {"adjust", "config"}
  /\ \A b \in Bought : b \in Seq(Nat \ {0}) /\ b # << >>
  /\ Levels \subseteq Nat /\ Deltas \subseteq Int
ASSUME PartnersAssumption ==
  None \notin Deal!Operations \cup Deal!Client \cup Deal!Order \cup Deal!Supplier

-----------------------------------------------------------------------------
\* What each component states, under the name it has there.
GoodsBilledOnce             == Bill!GoodsBilledOnce
OneDocumentOfAKind          == Bill!OneDocumentOfAKind
FileBearsItsNumber          == Bill!FileBearsItsNumber
LinksAloneUnlessOverlapping == Share!LinksAloneUnlessOverlapping
LinksAreCapabilities        == Share!LinksAreCapabilities
ClosedWhenComplete          == Buy!ClosedWhenComplete
StockFollowsMovements       == Buy!StockFollowsMovements
SourceUsedOnce              == Buy!SourceUsedOnce
LastOrderKeepsClient        == Deal!LastOrderKeepsClient
SuppliersAreDistinct        == Deal!SuppliersAreDistinct
LinksAgree                  == Scan!LinksAgree
CreationsSucceedAlone       == Make!CreationsSucceedAlone
=============================================================================
