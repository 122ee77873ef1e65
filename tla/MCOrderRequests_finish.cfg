SPECIFICATION FairSpec
CONSTANTS
  i1 = i1
  i2 = i2
  r1 = r1
  w1 = w1
  w2 = w2
  none = none
  Items = {i1}
  Quantities = {1}
  Prices = {0}
  TermSheets <- PlainTerms
  RefundIds = {r1}
  Amounts = {1}
  MaxReceived = 1
  Workers = {w1, w2}
  NoId = none
CHECK_DEADLOCK FALSE
PROPERTY RequestsFinish
