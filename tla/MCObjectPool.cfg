CONSTANTS
  Objects = {o1, o2, o3, o4}
  InitialSize = 2
SPECIFICATION PoolSpec
INVARIANTS ExclusiveOwnership LeakReportExact
PROPERTIES GrowsOnlyWhenDry ImplementsArena
