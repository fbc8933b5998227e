SPECIFICATION Spec
CONSTANTS
  NULL = NULL
  Cpus = {0, 1}
  RING_CNT = 1
  RING_BUF_DIM = 64
  BYTE = 4
  BPF_RINGBUF_DISCARD_BIT = 32
  KB = {2, 5}
  RingOf <- SharedRing
  CUSTOMIZED = FALSE
  MaxCalls = 5
INVARIANTS
  NoOverrun
  Inv
  LengthsAgree
  ExactlyOnceInOrder
  OnlyCommitted
PROPERTIES
  ImplementsChannel
CHECK_DEADLOCK FALSE
