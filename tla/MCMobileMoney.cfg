SPECIFICATION Spec
CONSTANTS
  h1 = h1
  h2 = h2
  t1 = t1
  t2 = t2
  none = none
  Handlers = {h1, h2}
  Txns = {t1, t2}
  Amounts = {1, 2}
  Price = 3
  MaxCash = 1
  Notified = {"accepted", "refused"}
  NoTxn = none
SYMMETRY Symmetry
CHECK_DEADLOCK FALSE
INVARIANTS TxnAgreesWithProvider MoneyComesWithTransaction
