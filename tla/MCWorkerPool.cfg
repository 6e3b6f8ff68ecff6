\* The pool stops for good once worker_pool_destroy has returned.
CHECK_DEADLOCK FALSE
SPECIFICATION FairSpec
CONSTANTS
  Reqs = {r1, r2, r3}
  NumWorkers = 2
  Capacity = 2
  CounterRange = 4
INVARIANTS NothingLostOrReordered FreedAfterExit
PROPERTIES RingsAreFifos EventuallyRun DestroyReturns
