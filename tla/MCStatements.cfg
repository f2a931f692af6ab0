SPECIFICATION Spec
CONSTANTS
  MaxDepth = 5
  MaxStatements = 5
  Habits = {}
INVARIANTS
  ExceptionOnItsWay
  CodesStayInLoops
PROPERTIES
  JumpsArrive
  ImplementsStructuredControl
