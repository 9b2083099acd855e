SPECIFICATION FairSpec
CONSTANTS
  j1 = j1
  j2 = j2
  j3 = j3
  j4 = j4
  Job <- FourJobs
  Workers = 2
  Threads = 2
CHECK_DEADLOCK FALSE
INVARIANTS PermitsAddUp ActiveJobsIsExact
PROPERTIES FirstComeFirstServed JobsGoOn
