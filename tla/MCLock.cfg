SPECIFICATION MCSpec
CONSTANTS
  Workers = {w1}
  Builders = {b1}
  Bindings <- MCBindings
  Registries <- MCRegistries
  p1 = p1
  p2 = p2
  i1 = i1
  i2 = i2
  Packs = {p1, p2}
  Integrations = {i1, i2}
  Main = main
  MaxDrifts = 2
  Nothing = Nothing
  TornLock = TornLock
INVARIANTS LockInv YieldedIsPinned
PROPERTIES OperationsEnd
CHECK_DEADLOCK FALSE
