CONSTANTS
  TaskCount = 3
  Jobless = {}
  StaleAfter = 2
  ContainerTimeout = 1
  MaxClock = 1
  MaxFaults = 30
  MaxDeaths = 1
  MaxAborts = 1
SPECIFICATION TeardownSpec
INVARIANTS SettledRunIsReported
PROPERTIES NoStopUnderCrawl
