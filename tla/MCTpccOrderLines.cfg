\* A store without customers, or the bound on payments, ends a behaviour.
CHECK_DEADLOCK FALSE
SPECIFICATION BoundedSpec
CONSTANTS
  Warehouses = {1, 257}
  WIds = {1, 3, 257}
  Districts = {1}
  Customers = {1, 2}
  Orders <- MCOrders
  Amounts = {200}
  Times = {1}
  Loaded <- MCLoaded
INVARIANTS LinesMatchCount
