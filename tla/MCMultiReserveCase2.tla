------------------------ MODULE MCMultiReserveCase2 -------------------------
EXTENDS MultiReserveCase2

\* ringbuf_arr: entry i is the ring of cpu i, for i < n_cpus.
ArrayOfRings == [c \in Cpus |-> IF c < RING_CNT THEN c ELSE NULL]

\* One ring for all cpus.
SharedRing == [c \in Cpus |-> 0]
=============================================================================
