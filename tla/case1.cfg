SPECIFICATION Spec
CONSTANTS
  NULL = NULL
  Cpus = {0, 1, 2}
  RING_CNT = 2
  RING_BUF_DIM = 64
  BYTE = 4
  BPF_RINGBUF_DISCARD_BIT = 32
  KB = {2, 5}
  RingOf <- ArrayOfRings
  CUSTOMIZED = FALSE
  MaxCalls = 4
INVARIANTS
  Inv
  NoOverrun
  ReportedElaborated
  DropsNotInvented
  EveryCallAccounted
PROPERTIES
  LateDropsBounded
  ImplementsChannel
CHECK_DEADLOCK FALSE
