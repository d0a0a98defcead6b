SPECIFICATION FairSpec
CONSTANTS
  Worker = {w1, w2, w3}
  Caller = {k1, k2}
  Task = {t1, t2, t3}
  NoTask = NoTask
INVARIANTS
  TypeOK
  WakeupsCoverTasks
PROPERTIES
  ImplementsExecutor
  AcceptedTasksRun
  DestructorReturns
