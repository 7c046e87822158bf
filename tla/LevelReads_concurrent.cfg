SPECIFICATION Spec
CONSTANTS
  kMaxHeight = 2
  Capacity = 1
  MaxOpen = 7
  Readers = {r1}
  NumKeys = 2
  MaxWrites = 3
  MaxFiles = 4
  Orders <- MCOrders
  Ops = {"get", "forward", "backward"}
INVARIANTS
  GetsNewest
  ScansWhole
  OpenWhileHeld
  HeldAlive
CHECK_DEADLOCK FALSE
