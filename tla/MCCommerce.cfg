SPECIFICATION CommerceSpec
CONSTANTS
  r1 = r1
  r2 = r2
  r3 = r3
  r4 = r4
  c1 = c1
  c2 = c2
  p1 = p1
  p2 = p2
  d1 = d1
  none = none
  Requests = {r1, r2, r3, r4}
  Bodies <- MCBodies
  Rates = {0, 15}
  Clients = {c1, c2}
  None = none
  Kinds = {"invoice", "delivery_note", "payment_receipt"}
  Lines = {"line"}
  Ordered <- MCOrdered
  Custom = {}
  Today = 1
  Purchases = {p1, p2}
  Sent = p1
  Bought <- MCQuantities
  Documents = {d1}
  Deltas <- MCDeltas
  Levels = {0, 2}
  Companies <- MCCompanies
  Orders = {"one", "another"}
  Barcodes = {"ean"}
  Earlier = 2
SYMMETRY Interchangeable
CHECK_DEADLOCK FALSE
INVARIANTS
  WholeEdits OrderCostsWhatQuoteSaid OrdersAreTraceable
  GoodsBilledOnce OneDocumentOfAKind FileBearsItsNumber
  LinksAloneUnlessOverlapping
  ClosedWhenComplete StockFollowsMovements SourceUsedOnce
  LastOrderKeepsClient SuppliersAreDistinct
  LinksAgree CreationsSucceedAlone
PROPERTIES LinksAreCapabilities
