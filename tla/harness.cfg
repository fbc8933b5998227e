SPECIFICATION Spec
CONSTANTS
  Repeat = 2
  Stress = 3
  INTMAX_BITS = 4
INVARIANTS
  ScriptsInv
  SumsPaired
  AverageComplete
  DedicatedCpus
PROPERTIES
  NothingLeftBehind
CHECK_DEADLOCK FALSE
