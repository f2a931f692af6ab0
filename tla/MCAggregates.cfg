CONSTANTS
  Variables = 2
  MaxContents = 2
  MaxElements = 2
  Habits = {}
SPECIFICATION Spec
INVARIANTS
  NeverFreedTwice
  HeapIsSound
PROPERTY
  ImplementsCollectedHeap
