SPECIFICATION Spec
CONSTANTS
  i1 = i1
  i2 = i2
  r1 = r1
  r2 = r2
  Items = {i1, i2}
  Quantities = {1, 2}
  Prices = {0, 1}
  TermSheets <- MCTerms
  RefundIds = {r1, r2}
  Amounts = {1, 2}
  MaxReceived = 4
CHECK_DEADLOCK FALSE
INVARIANTS
  TypeOK
  Balanced
  NoOverpayment
  DeliveryMatchesStatus
  PaymentStatusTracksMoney
  RefundsAccountedFor
PROPERTIES
  DeliveredNeverShrinks
