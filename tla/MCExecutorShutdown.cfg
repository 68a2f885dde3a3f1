CONSTANTS
  Threads = {t1, t2, t3}
  Tasks = {w1, w2}
  NoTask = NoTask
SPECIFICATION FairSpec
PROPERTIES ShutdownCompletes
CHECK_DEADLOCK FALSE
