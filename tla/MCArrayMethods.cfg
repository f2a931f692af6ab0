CONSTANTS
  Values = {1, 2}
  MaxLength = 4
  MaxAssignments = 1
  UInts = 8
  Habits = {}
SPECIFICATION Spec
INVARIANTS
  StaysInside
  NothingLeaks
  EveryElementAskedOnce
  ResultsAreRight
PROPERTY
  MethodsFinish
