\* Main and three forked threads, two semaphores, a timer that may preempt.
CONSTANTS
  main = main
  t1 = t1
  t2 = t2
  t3 = t3
  mutex = mutex
  done = done
  NULL = NULL
  Main = main
  Thread = {main, t1, t2, t3}
  Sem = {mutex, done}
  InitialValue <- MCInitialValue
  MaxValue = 2
SPECIFICATION FairSpec
INVARIANTS OnePlace NoUseAfterDelete NoLostWakeup HaltsOnlyWhenStuck
PROPERTIES ImplementsSemaphores ReadyRuns UnitsReachSleepers
