\* The server is idle when every request has been answered.
CHECK_DEADLOCK FALSE
SPECIFICATION FairSpec
CONSTANTS
  Reqs = {r1, r2, r3}
  Kinds = {"NewOrder", "Payment"}
  Thresholds = {15}
  FaultKinds = {"create", "read", "fatal"}
  MaxFaults = 1
  Warehouses = {1}
  WIds = {1}
  Districts = {1}
  Customers = {1}
  Orders <- OneOrder
  Amounts = {200}
  Times = {1}
  Loaded <- FullLoaded
INVARIANTS AppliedExactlyOnce
PROPERTIES EveryRequestAnswered
