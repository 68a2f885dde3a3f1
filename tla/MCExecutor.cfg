CONSTANTS
  Threads = {t1, t2, t3}
  Tasks = {w1, w2}
  NoTask = NoTask
SPECIFICATION FairSpec
INVARIANTS TypeOK ExclusiveTask MutexMeansRunning QuietAfterJoin
PROPERTIES WorkerTerminateReturns NotifiedTaskStarts SettledShutdownCompletes
CHECK_DEADLOCK FALSE
