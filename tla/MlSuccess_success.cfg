CONSTANTS
  TaskCount = 4
  Jobless = {}
  StaleAfter = 3
  ContainerTimeout = 2
  MaxClock = 0
  MaxFaults = 0
  MaxDeaths = 0
  MaxAborts = 0
  MinRatio = 85
SPECIFICATION MlSpec
INVARIANTS SuccessPassesBarrier
