\* A server none of whose threads could be created sits in fdb_run_network.
CHECK_DEADLOCK FALSE
SPECIFICATION FairSpec
CONSTANTS
  ItemCount = 6
  WorldCount = 4
  BatchSize = 2
  W = 1
  Districts = 2
  NumThreads = 4
  MaxFaults = 4
INVARIANTS TypeOK CheckedTablesLoaded CleanBootComplete ListenerOpenWhileServing DisposedAfterExit
PROPERTIES ReloadChangesNothing BootEnds ShutdownEnds
