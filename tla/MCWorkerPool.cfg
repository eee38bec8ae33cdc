SPECIFICATION FairSpec
CONSTANTS
  Task = {t1, t2, t3, t4}
  NoTask = NoTask
  Worker = {w1, w2, w3, w4}
  MaxWorkers = 3
  MaxParked = 2
  MaxFailures = 1
INVARIANTS Capped Served NoLostWakeup StopLeavesNothing
PROPERTIES Implements EveryTaskRuns StopEnds
CHECK_DEADLOCK FALSE
