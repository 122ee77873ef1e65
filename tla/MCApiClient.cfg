SPECIFICATION Spec
CONSTANTS
  q1 = q1
  q2 = q2
  q3 = q3
  guardian = guardian
  none = none
  Calls = {q1, q2, q3}
  MaxRetries = 1
  BootsOnLoad = TRUE
  Guard = guardian
  None = none
CHECK_DEADLOCK FALSE
PROPERTY CallsSettle
