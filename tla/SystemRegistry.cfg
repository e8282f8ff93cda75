CONSTANTS
  Requests <- PlanRequests
  GroupCalls <- PlanGroupCalls
  OrderCalls <- PlanOrderCalls
  Implicit <- ImplicitGroup
  MaxSystems = 2
  MaxOrders = 1
  MaxSchema = 1
  MaxHandles = 3
SPECIFICATION RegistrySpec
INVARIANTS
  HandlesHeld
  CacheExact
  RegisteredSchedulable
CHECK_DEADLOCK FALSE
