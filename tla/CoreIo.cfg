SPECIFICATION CoreSpec
CONSTANTS
  Workers = {w1, w2}
  MaxJobs = 4
  Costs = {1, 2}
  Callers = {c1, c2}
  Physical = 3
  DefaultWorkers = 2
  Tasks = 2
  TasksAsk = TRUE
  MaxPoolJobs = 2
  Threads = {t1, t2}
  MaxCalls = 2
  MaxReports = 1
  SourceFiles <- CopySources
  RoundSize = 3
  Capacity = 2
  Stats <- StatAnswers
  RING_SIZE = 2
  Graphs <- RenderGraphs
  Files = {"v1", "v2"}
  NoAudio = NoAudio
  Unset = Unset
  TicksPerMs = 2
  MaxClock = 3
INVARIANTS
  PartsTypeOK
  InfoHolds
  PinnedApart
  OwnSamplesUnlessShared
  ReportInBounds
  NothingLost
  AnswersInOrder
  OutcomeIsFirstFlaw
  MetricsAddUp
PROPERTIES
  ImplementsOrderedMap
  InitReturns
  CallsReturn
  ImplementsWholeCopy
