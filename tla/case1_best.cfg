SPECIFICATION Spec
CONSTANTS
  NULL = NULL
  Cpus = {0, 1}
  RING_CNT = 2
  RING_BUF_DIM = 64
  BYTE = 4
  BPF_RINGBUF_DISCARD_BIT = 64
  KB = {2, 9}
  RingOf <- ArrayOfRings
  CUSTOMIZED = TRUE
  MaxCalls = 5
INVARIANTS
  HeadersIntact
  ExactlyOnceInOrder
  QueryNotNegative
PROPERTIES
  UnchosenOnlyIfOutrun
CHECK_DEADLOCK FALSE
