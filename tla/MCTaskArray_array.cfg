CONSTANTS
  TaskCount = 3
  Jobless = {2}
  StaleAfter = 2
  ContainerTimeout = 1
  MaxClock = 3
  MaxFaults = 3
  MaxDeaths = 1
  MaxAborts = 1
  MinRatio = 60
  Jobs <- SomeJobs
SPECIFICATION Spec
INVARIANTS OneAggregator LastOneAggregates NoResultLeftOut PassMeansCrawled EachJobReportedOnce
PROPERTIES RowsOnlyAdvance ImplementsElection
