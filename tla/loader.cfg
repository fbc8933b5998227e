SPECIFICATION Spec
CONSTANTS
  MAX_CPUS = 3
INVARIANTS
  Inv
  CaptureReady
  MisuseWindow
  OneDescriptorAtMost
  OuterNumberUnused
PROPERTIES
  LoopsOrEnds
CHECK_DEADLOCK FALSE
