CONSTANTS
  a = a
  b = b
  c = c
  d = d
  k = k
  m = m
  None = None
  Requests <- MCRequests
  Keys <- MCKeys
  Key <- MCKey
SPECIFICATION FairSpec
INVARIANTS OneRunPerKey CallsAreExact SharedOnOneLoop
PROPERTIES SharesAFreshResult AnsweredOnOneLoop
CHECK_DEADLOCK FALSE
