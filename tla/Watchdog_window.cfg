CONSTANTS
  Threshold = 4
  Grace = 6
  SampleEvery = 2
  TurnTime = 1
  RestTime = 2
  MaxClock = 15
SPECIFICATION Spec
INVARIANTS HungIsNoticed
PROPERTIES RecentProgressSaves GraceIsGiven
