SPECIFICATION Spec
CONSTANTS
  NULL = NULL
  Cpus = {0, 1, 2}
  RING_CNT = 2
  RING_BUF_DIM = 64
  BYTE = 4
  BPF_RINGBUF_DISCARD_BIT = 32
  KB = {5}
  RingOf <- ArrayOfRings
  MaxCalls = 4
INVARIANTS
  Inv
  SkippedNotInvented
PROPERTIES
  ImplementsChannel
CHECK_DEADLOCK FALSE
