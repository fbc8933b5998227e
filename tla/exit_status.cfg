SPECIFICATION Spec
CONSTANTS
  MAX_CPUS = 3
INVARIANTS
  FailureReported
CHECK_DEADLOCK FALSE
