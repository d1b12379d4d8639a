CONSTANTS
  Execs <- MCExecs
  Jobs <- MCJobs
  Job <- MCJob
  Monitored = {"crawl", "ml"}
  Managing = {"crawl_1", "ml_1"}
  Hanging = {"ml_1", "recrawl_1"}
  Undated = {"crawl_1"}
  SafetyNet = net
  MaxSetbacks = 1
SPECIFICATION FairSpec
INVARIANTS StopSparesWhatWasListed
PROPERTIES StoppedInTheEnd
