CONSTANTS
  r1 = r1
  r2 = r2
  a = a
  b = b
  c = c
  Roots <- MCRoots
  Tasks <- MCTasks
  Parent <- MCParent
  RootOf <- MCRootOf
  PoolSize = 1
  IdlePolls = 3
SPECIFICATION FairSpec
INVARIANTS EndedMeansSettled AcceptedWorkIsKept PoolIsBounded
PROPERTIES WaitEnds
