SPECIFICATION SessionsSpec
CONSTANTS
  r1 = r1
  r2 = r2
  r3 = r3
  r4 = r4
  b1 = b1
  b2 = b2
  e1 = e1
  none = none
  Requests = {r1, r2, r3, r4}
  Browsers = {b1, b2}
  Emails = {e1}
  None = none
  Permissions = {"orders.read"}
  Processes = {"worker"}
  Calls = 2
  Period = 2
  Horizon = 4
  MaxPerTick = 2
SYMMETRY Interchangeable
CHECK_DEADLOCK FALSE
INVARIANTS RefusedForAReason UploadsSurvive BudgetPerStore ListsFollowPayments
PROPERTIES TokensAreCapabilities
