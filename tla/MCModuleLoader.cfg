CONSTANTS
  Files = {main, b, c}
  Main = main
  MaxImports = 2
  MaxDepth = 4
SPECIFICATION Spec
INVARIANTS OneModulePerFile ImportsEvaluatedFirst WholeProjectRuns
PROPERTIES AcyclicProjectsRun
CHECK_DEADLOCK FALSE
