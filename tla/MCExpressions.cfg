SPECIFICATION Spec
CONSTANTS
  MaxHeight = 3
  Sources <- AllSources
  Habits = {}
  Runs = 2
INVARIANTS NothingGoneIsUsed NothingLeaks MeansWhatItSays
CHECK_DEADLOCK FALSE
