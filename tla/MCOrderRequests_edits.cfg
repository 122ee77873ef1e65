SPECIFICATION Spec
CONSTANTS
  i1 = i1
  i2 = i2
  r1 = r1
  w1 = w1
  w2 = w2
  none = none
  Items = {i1, i2}
  Quantities = {1, 2}
  Prices = {1}
  TermSheets <- MCTerms
  RefundIds = {}
  Amounts = {}
  MaxReceived = 0
  Workers = {w1, w2}
  NoId = none
CHECK_DEADLOCK FALSE
SYMMETRY Symmetry
INVARIANTS
  LinesReadable
  EditsKeepTotalReadable
