CONSTANTS
  Variables = {v1, v2, v3}
  Values = {x1, x2, x3, x4, x5}
  Holders = {frame, closure, module}
  Null = Null
SPECIFICATION Spec
SYMMETRY Symmetry
INVARIANTS OwnersAgree CountsAreExact PooledVariablesAreReset
