\* The server is idle when every request has been answered or lost.
CHECK_DEADLOCK FALSE
SPECIFICATION Spec
CONSTANTS
  Reqs = {r1}
  Kinds = {"Payment"}
  Thresholds = {15}
  FaultKinds = {"unknown"}
  MaxFaults = 1
  Warehouses = {1}
  WIds = {1}
  Districts = {1}
  Customers = {1}
  Orders <- OneOrder
  Amounts = {200}
  Times = {1}
  Loaded <- FullLoaded
INVARIANTS AppliedExactlyOnce
