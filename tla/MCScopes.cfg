CONSTANTS
  Names = {a, b}
  MaxEvents = 8
  MaxScopes = 4
  MaxParameters = 2
  None = None
  Habits = {}
SPECIFICATION Spec
SYMMETRY Symmetry
INVARIANTS
  TypeOK
  EveryUseReachesItsVariable
  ConstIsKept
  SlotsStayApart
CHECK_DEADLOCK FALSE
