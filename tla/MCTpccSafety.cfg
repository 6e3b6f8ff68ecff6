\* The server is idle when every request has been answered or lost.
CHECK_DEADLOCK FALSE
SPECIFICATION Spec
CONSTANTS
  Reqs = {r1, r2}
  Kinds = {"NewOrder", "Payment", "OrderStatus", "Delivery", "StockLevel"}
  Thresholds = {15}
  FaultKinds = {"create", "submit", "read", "unknown", "fatal", "partial", "trap"}
  MaxFaults = 1
  Warehouses = {1}
  WIds = {1, 2}
  Districts = {1}
  Customers = {1, 2}
  Orders <- AllOrders
  Amounts = {200}
  Times = {1, 2}
  Loaded <- MCLoaded
INVARIANTS TypeOK ContextLifetime OkIsCommitted AnsweredOrderStored
PROPERTIES Serializable
