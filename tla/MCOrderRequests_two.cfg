SPECIFICATION Spec
CONSTANTS
  i1 = i1
  i2 = i2
  r1 = r1
  w1 = w1
  w2 = w2
  none = none
  Items = {i1}
  Quantities = {2}
  Prices = {1}
  TermSheets <- PlainTerms
  RefundIds = {r1}
  Amounts = {1, 2}
  MaxReceived = 2
  Workers = {w1, w2}
  NoId = none
CHECK_DEADLOCK FALSE
SYMMETRY Symmetry
INVARIANTS
  PaidBacked
  ApprovalsWithinRequest
