SPECIFICATION FairSpec
CONSTANTS
  Callers = {c1, c2}
  Physical = 3
  DefaultWorkers = 2
  Tasks = 2
  TasksAsk = TRUE
  MaxJobs = 2
PROPERTY
  EveryInitReturns
