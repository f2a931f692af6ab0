CONSTANTS
  VarSlots = 3
  HandleSlots = 5
  ShareSlots = 2
  FnLocals = 2
  MaxFrames = 3
  MaxStatements = 8
  Habits = {}
  Plain = Plain
  Nothing = Nothing
SPECIFICATION Spec
INVARIANTS AssertionsHold HeapIsSound NothingLeaks
PROPERTIES CapturesAreKept
CHECK_DEADLOCK FALSE
