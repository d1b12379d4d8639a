CONSTANTS
  JobCount = 4
  Companies <- MCCompanies
  Company <- MCCompany
  CompanyLimit <- MCCompanyLimit
  Browser <- MCBrowser
  Parallel = 2
  BrowserParallel = 1
  HangWatch = TRUE
  TimeoutOn = TRUE
  Stuck = {3}
  MaxOverloads = 1
SPECIFICATION FairSpec
INVARIANTS WithinLimits EachJobInOnePlace EndsWithNothingLeft HandledExitLeavesOnlyAStartingOne ShownCoversTheRunning
PROPERTIES ReadableOverloadIsKept Termination
