CONSTANTS
  a = a
  b = b
  c = c
  d = d
  k = k
  m = m
  None = None
  Requests <- MCRequests
  Keys <- MCKeys
  Key <- MCKey
SPECIFICATION FairSpec
INVARIANTS FollowersShareTheResult
CHECK_DEADLOCK FALSE
