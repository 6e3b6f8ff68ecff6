\* The server is idle when every request has been answered or lost.
CHECK_DEADLOCK FALSE
SPECIFICATION Spec
CONSTANTS
  Reqs = {r1, r2}
  Kinds = {"NewOrder"}
  Thresholds = {15}
  FaultKinds = {}
  MaxFaults = 0
  Warehouses = {1}
  WIds = {1}
  Districts = {1}
  Customers = {1}
  Orders <- SomeOrders
  Amounts = {200}
  Times = {1}
  Loaded <- FullLoaded
INVARIANTS UniqueOrderIds
