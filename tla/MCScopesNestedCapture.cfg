CONSTANTS
  Names = {a, b}
  MaxEvents = 9
  MaxScopes = 4
  MaxParameters = 2
  None = None
  Habits = {"nestedCapture"}
SPECIFICATION Spec
SYMMETRY Symmetry
INVARIANT
  FrameHasEverySlot
CHECK_DEADLOCK FALSE
