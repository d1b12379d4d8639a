CONSTANTS
  r1 = r1
  r2 = r2
  w1 = w1
  w2 = w2
  a = a
  b = b
  c = c
  Free = Free
  Runs <- MCRuns
  Workers <- MCWorkers
  Urls <- MCUrls
  Pages <- MCPages
  QueueSize = 1
SPECIFICATION FairSpec
INVARIANTS ClaimsAreExact EndsWhenDone ListedIsAccountedFor
PROPERTIES NoRefetch ImplementsKeyLease EveryRunEnds
