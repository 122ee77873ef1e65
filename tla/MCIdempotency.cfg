SPECIFICATION Spec
CONSTANTS
  q1 = q1
  q2 = q2
  q3 = q3
  none = none
  processing = processing
  Requests = {q1, q2, q3}
  Reads = 2
  RedisFaults <- MCFaults
  HandlersBeatTTL = TRUE
  None = none
  Processing = processing
CHECK_DEADLOCK FALSE
INVARIANTS AtMostOnce AnswersAgree
PROPERTIES KeyIsFreed RequestsEnd
