-------------------------- MODULE CaptureTheorems --------------------------
(***************************************************************************)
(* The arithmetic of a ring: the space a record takes and the offset of a  *)
(* position in the data pages.  Then the two inductive invariants all      *)
(* captures share, SpaceInv about positions and RecordInv about what lies  *)
(* in the rings: they hold at the start, and are kept by every step of the *)
(* kernel's helpers and by every step a userspace loop can take.  At last  *)
(* the same steps seen as steps of EventChannel.                           *)
(***************************************************************************)
EXTENDS BpfProgram, Capture, SequenceTheorems, FiniteSetTheorems, TLAPS

(* A record takes at least its header and its payload, rounded to 8.       *)
LEMMA RecordLenFacts ==
  ASSUME NEW n \in Nat
  PROVE  /\ RecordLen(n) \in Positions
         /\ n + 8 <= RecordLen(n)
BY DEF RecordLen, BPF_RINGBUF_HDR_SZ, Positions

(* The same without the rounding.                                          *)
LEMMA RecordLenNat ==
  ASSUME NEW n \in Nat
  PROVE  RecordLen(n) \in Nat /\ RecordLen(n) > 0
<1>1. RecordLen(n) \in Nat
  BY RecordLenFacts DEF Positions
<1>2. n + 8 <= RecordLen(n)
  BY RecordLenFacts
<1>3. QED
  BY <1>1, <1>2

(* Positions are closed under addition.                                    *)
LEMMA PositionsAdd ==
  ASSUME NEW p \in Positions, NEW q \in Positions
  PROVE  p + q \in Positions
BY DEF Positions

(* Every payload is a natural number, and not an empty one.                *)
LEMMA PayloadsNat == Payloads \subseteq Nat /\ 0 \notin Payloads
<1>1. ASSUME NEW k \in KB
      PROVE  k * BYTE \in Nat /\ k * BYTE # 0
  <2>1. k \in Nat /\ k # 0 /\ BYTE \in Nat /\ BYTE # 0
    BY RingAssumption
  <2>2. QED
    BY <2>1
<1>2. QED
  BY <1>1 DEF Payloads

(* The words a header goes through are words.                              *)
LEMMA HeaderWords ==
  /\ 0 \in Header
  /\ \A n \in Payloads : n + BPF_RINGBUF_BUSY_BIT \in Header
  /\ \A w \in Header : FlipBusy(w) \in Header
<1> DEFINE D == BPF_RINGBUF_DISCARD_BIT
<1>1. D \in Nat /\ D > 0
  BY RingAssumption
<1>2. 0 \in Header
  BY <1>1 DEF Header, WordSize, BPF_RINGBUF_BUSY_BIT
<1>3. ASSUME NEW n \in Payloads
      PROVE  n + BPF_RINGBUF_BUSY_BIT \in Header
  <2>1. n \in Nat /\ n < D
    BY PayloadsNat, RingAssumption
  <2>2. QED
    BY <2>1, <1>1 DEF Header, WordSize, BPF_RINGBUF_BUSY_BIT
<1>4. ASSUME NEW w \in Header
      PROVE  FlipBusy(w) \in Header
  <2>1. w + 2 * D \in Nat /\ 4 * D \in Nat /\ 4 * D > 0
    BY <1>1 DEF Header, WordSize, BPF_RINGBUF_BUSY_BIT
  <2>2. (w + 2 * D) % (4 * D) \in 0 .. 4 * D - 1
    BY <2>1
  <2>3. FlipBusy(w) = (w + 2 * D) % (4 * D) /\ Header = 0 .. 4 * D - 1
    BY <1>1 DEF FlipBusy, Header, WordSize, BPF_RINGBUF_BUSY_BIT
  <2>4. QED
    BY <2>2, <2>3
<1>5. QED
  BY <1>2, <1>3, <1>4

(* A remainder does not see multiples of the divisor.                      *)
LEMMA ModMultiple ==
  ASSUME NEW m \in Nat, m > 0, NEW a \in Nat, a < m, NEW f \in Nat
  PROVE  (a + m * f) % m = a
<1> DEFINE x == a + m * f
           q == x \div m
           b == x % m
<1>1. x \in Nat /\ m * f \in Nat
  OBVIOUS
<1>2. x = m * q + b /\ b \in 0 .. m - 1 /\ q \in Int
  BY <1>1
<1>3. m * f - m * q = m * (f - q)
  BY <1>2
<1>4. m * (f - q) = b - a
  BY <1>2, <1>3, <1>1
<1> HIDE DEF q, b
<1>5. CASE f - q <= -1
  <2>1. m * (f - q) <= -m
    BY <1>5, <1>2
  <2>2. QED
    BY <2>1, <1>4, <1>2
<1>6. CASE f - q >= 1
  <2>1. m * (f - q) >= m
    BY <1>6, <1>2
  <2>2. QED
    BY <2>1, <1>4, <1>2
<1>7. CASE f - q = 0
  <2>1. m * (f - q) = 0
    BY <1>7
  <2>2. QED
    BY <2>1, <1>4, <1>2 DEF b
<1>8. QED
  BY <1>5, <1>6, <1>7, <1>2

(* Submitting a record leaves its length in the header, and no flag.       *)
LEMMA FlipBack ==
  ASSUME NEW n \in Payloads
  PROVE  FlipBusy(n + BPF_RINGBUF_BUSY_BIT) = n
<1> DEFINE D == BPF_RINGBUF_DISCARD_BIT
<1>1. D \in Nat /\ D > 0 /\ n \in Nat /\ n < D
  BY PayloadsNat, RingAssumption
<1>2. 4 * D \in Nat /\ 4 * D > 0 /\ n < 4 * D /\ 1 \in Nat
  BY <1>1
<1> HIDE DEF D
<1>3. (n + (4 * D) * 1) % (4 * D) = n
  BY <1>1, <1>2, ModMultiple
<1>4. (n + 2 * D) + 2 * D = n + (4 * D) * 1
  BY <1>1
<1>5. FlipBusy(n + BPF_RINGBUF_BUSY_BIT) = ((n + 2 * D) + 2 * D) % (4 * D)
  BY <1>1 DEF FlipBusy, WordSize, BPF_RINGBUF_BUSY_BIT, D
<1>6. QED
  BY <1>3, <1>4, <1>5

(* What userspace reads out of the flags of a header.                      *)
LEMMA HeaderBits ==
  ASSUME NEW n \in Payloads
  PROVE  /\ HasBit(n + BPF_RINGBUF_BUSY_BIT, BPF_RINGBUF_BUSY_BIT)
         /\ ~HasBit(n, BPF_RINGBUF_BUSY_BIT)
         /\ ~HasBit(n, BPF_RINGBUF_DISCARD_BIT)
<1> DEFINE D == BPF_RINGBUF_DISCARD_BIT
<1>1. D \in Nat /\ D > 0 /\ n \in Nat /\ n < D
  BY PayloadsNat, RingAssumption
<1>2. ASSUME NEW m \in Nat, n < m
      PROVE  n \div m = 0 /\ (n + m) \div m = 1
  <2>1. n \div m = 0
    BY <1>1, <1>2
  <2>2. (n + m) \div m = 1
    BY <1>1, <1>2
  <2>3. QED
    BY <2>1, <2>2
<1>3. BPF_RINGBUF_BUSY_BIT \in Nat /\ n < BPF_RINGBUF_BUSY_BIT
  BY <1>1 DEF BPF_RINGBUF_BUSY_BIT
<1>4. QED
  BY <1>1, <1>2, <1>3 DEF HasBit

(* Remainder and quotient by the size of the ring.                         *)
LEMMA DivMod ==
  ASSUME NEW p \in Nat
  PROVE  /\ p = RING_BUF_DIM * (p \div RING_BUF_DIM) + (p % RING_BUF_DIM)
         /\ p % RING_BUF_DIM \in 0 .. mask
         /\ p \div RING_BUF_DIM \in Int
BY RingAssumption DEF mask

(* The header of a record is at a slot.                                    *)
LEMMA OffsetInSlots ==
  ASSUME NEW p \in Positions
  PROVE  Offset(p) \in Slots
<1> DEFINE D == RING_BUF_DIM
           q == p \div D
           o == p % D
<1>1. p \in Nat /\ p % 8 = 0 /\ D \in Nat /\ D % 8 = 0
  BY RingAssumption DEF Positions
<1>2. p = D * q + o /\ o \in 0 .. mask /\ q \in Int
  BY DivMod, <1>1
<1>3. PICK a \in Int : D = 8 * a
  BY <1>1
<1>4. PICK b \in Int : p = 8 * b
  BY <1>1
<1>5. D * q = 8 * (a * q)
  BY <1>2, <1>3
<1>6. o = 8 * (b - a * q) /\ b - a * q \in Int
  BY <1>2, <1>3, <1>4, <1>5 DEF mask
<1> HIDE DEF q
<1>7. o % 8 = 0
  BY <1>6, <1>2 DEF mask
<1>8. QED
  BY <1>2, <1>7 DEF Offset, Slots

(* Two positions less than a ring apart have different offsets.            *)
LEMMA OffsetsDiffer ==
  ASSUME NEW p \in Nat, NEW q \in Nat, p < q, q - p <= mask
  PROVE  Offset(p) # Offset(q)
<1> DEFINE D == RING_BUF_DIM
           i == p \div D
           j == q \div D
<1>1. D \in Nat /\ D > 0
  BY RingAssumption
<1>2. /\ p = D * i + (p % D) /\ i \in Int
      /\ q = D * j + (q % D) /\ j \in Int
  BY DivMod
<1>3. SUFFICES ASSUME (p % D) = (q % D) PROVE FALSE
  BY DEF Offset
<1>4. p % D \in Int /\ q % D \in Int
  BY <1>1
<1> HIDE DEF i, j, D
<1>5. q - p = D * j - D * i
  BY <1>2, <1>3, <1>4, <1>1
<1>6. D * j - D * i = D * (j - i)
  BY <1>1, <1>2
<1>7. CASE j - i <= 0
  <2>1. D * (j - i) <= 0
    BY <1>7, <1>1, <1>2
  <2>2. QED
    BY <2>1, <1>5, <1>6, <1>1, <1>2
<1>8. CASE j - i >= 1
  <2>1. D * (j - i) >= D
    BY <1>8, <1>1, <1>2
  <2>2. QED
    BY <2>1, <1>5, <1>6, <1>1, <1>2 DEF mask, D
<1>9. QED
  BY <1>7, <1>8, <1>2

(* One cell of a table of tables is written.                               *)
LEMMA TableUpdate ==
  ASSUME NEW S, NEW T, NEW U, NEW f \in [S -> [T -> U]],
         NEW r \in S, NEW o \in T, NEW u \in U
  PROVE  [f EXCEPT ![r] = [f[r] EXCEPT ![o] = u]] \in [S -> [T -> U]]
<1>1. [f[r] EXCEPT ![o] = u] \in [T -> U]
  OBVIOUS
<1>2. QED
  BY <1>1

(* The ring after a ring is a ring.                                        *)
LEMMA NextRingInRings ==
  ASSUME NEW r \in Rings
  PROVE  (r + 1) % RING_CNT \in Rings
BY RingAssumption DEF Rings

-----------------------------------------------------------------------------

(* What userspace computes from any header word is a multiple of 8.        *)
LEMMA RoundupPosition ==
  ASSUME NEW w \in Header
  PROVE  roundup_len(w) \in Positions
<1> DEFINE W == WordSize
           n == ((w * 4) % W) \div 4
<1>1. W \in Nat /\ W > 0 /\ w * 4 \in Nat
  BY RingAssumption DEF Header, WordSize, BPF_RINGBUF_BUSY_BIT
<1>2. (w * 4) % W \in Nat
  BY <1>1
<1>3. n \in Nat
  BY <1>2
<1>4. roundup_len(w) = ((n + 8 + 7) \div 8) * 8
  BY DEF roundup_len, BPF_RINGBUF_HDR_SZ
<1> HIDE DEF n
<1>5. QED
  BY <1>3, <1>4 DEF Positions

(***************************************************************************)
(* roundup_len agrees with the kernel for every length a header can hold,  *)
(* whatever the two flags above it: shared_code.h computes again what      *)
(* bpf_ringbuf_reserve took.                                               *)
(***************************************************************************)
THEOREM RoundupAgrees ==
  ASSUME NEW n \in Nat, n < BPF_RINGBUF_DISCARD_BIT,
         NEW flags \in 0 .. 3
  PROVE  roundup_len(n + flags * BPF_RINGBUF_DISCARD_BIT) = RecordLen(n)
<1> DEFINE D == BPF_RINGBUF_DISCARD_BIT
           W == WordSize
           w == n + flags * D
<1>1. D \in Nat /\ W = 4 * D
  BY RingAssumption DEF WordSize, BPF_RINGBUF_BUSY_BIT
<1>2. w * 4 = n * 4 + W * flags
  BY <1>1
<1>3. n * 4 \in Nat /\ n * 4 < W /\ W \in Nat /\ W > 0 /\ flags \in Nat
  BY <1>1
<1>4. (n * 4 + W * flags) % W = n * 4
  BY <1>3, ModMultiple
<1>5. (n * 4) \div 4 = n
  OBVIOUS
<1>6. ((w * 4) % W) \div 4 = n
  BY <1>2, <1>4, <1>5
<1>7. QED
  BY <1>6 DEF roundup_len, RecordLen

(* The steps of userspace leave the BPF side alone, but for the flag.      *)
UserFrame ==
  /\ UNCHANGED <<producer_pos, hdr, spinlock, reserved, dropped, n_drops,
                 n_skipped, cpuVars>>
  /\ capture_enabled' \in BOOLEAN

(* They move consumer_pos forward, and never past what has been read.      *)
UserMoves == \A r \in Rings :
  consumer_pos[r] <= consumer_pos'[r] /\ consumer_pos'[r] <= cons_pos'[r]

-----------------------------------------------------------------------------
(* SpaceInv implies the property it is for.                                *)
LEMMA SpaceInvNoOverrun == SpaceInv => NoOverrun
<1> SUFFICES ASSUME SpaceInv, NEW r \in Rings
             PROVE  WriteFront(r) - consumer_pos[r] <= mask
  BY DEF NoOverrun
<1> USE DEF SpaceInv
<1>1. CASE spinlock[r] = NULL
  BY <1>1 DEF WriteFront, BoundInv
<1>2. CASE spinlock[r] # NULL
  <2> DEFINE c == spinlock[r]
  <2>1. c \in Cpus /\ pc[c] = "publish" /\ call[c].rb = r
    BY <1>2 DEF LockInv, RingTypeOK
  <2>2. NewProd(c) - call[c].cons <= mask /\ call[c].cons <= consumer_pos[r]
    BY <2>1 DEF RoomInv, HasRoom
  <2>3. NewProd(c) \in Nat /\ call[c].cons \in Nat /\ consumer_pos[r] \in Nat
    <3>1. call[c].size \in Nat
      BY <2>1, PayloadsNat DEF CallInv
    <3>2. RecordLen(call[c].size) \in Positions
      BY <3>1, RecordLenFacts
    <3>3. /\ producer_pos[r] \in Positions /\ consumer_pos[r] \in Positions
          /\ call[c].cons \in Positions
      BY <2>1 DEF RingTypeOK
    <3>4. NewProd(c) \in Positions
      BY <2>1, <3>2, <3>3, PositionsAdd DEF NewProd
    <3>5. QED
      BY <3>3, <3>4 DEF Positions
  <2>4. QED
    BY <2>2, <2>3, <1>2, RingAssumption DEF WriteFront, mask
<1>3. QED
  BY <1>1, <1>2

-----------------------------------------------------------------------------
(* The steps of the kernel's helpers.                                      *)
LEMMA ReserveLoadSpace ==
  ASSUME SpaceInv, NEW c \in Cpus, ReserveLoad(c), UNCHANGED userVars
  PROVE  SpaceInv'
<1> USE DEF SpaceInv, ReserveLoad, Goto, ringVars, bss, userVars, loopVars, sigVars
<1>0. call[c].rb \in Rings /\ call[c].size \in Payloads
  BY DEF CallInv
<1>1. RingTypeOK'
  BY <1>0 DEF RingTypeOK, Labels
<1>2. UserTypeOK'
  BY DEF UserTypeOK
<1>3. CallInv'
  BY DEF CallInv, RingTypeOK
<1>4. LockInv'
  BY DEF LockInv, RingTypeOK
<1>5. RoomInv'
  BY <1>0 DEF RoomInv, RingTypeOK, HasRoom, NewProd, Positions
<1>6. BoundInv'
  BY DEF BoundInv
<1>7. QED
  BY <1>1, <1>2, <1>3, <1>4, <1>5, <1>6

LEMMA ReserveFullSpace ==
  ASSUME SpaceInv, NEW c \in Cpus, ReserveFull(c), UNCHANGED userVars
  PROVE  SpaceInv'
<1> USE DEF SpaceInv, ReserveFull, Goto, bss, userVars, loopVars, sigVars
<1>1. RingTypeOK'
  BY DEF RingTypeOK, Labels, NoCall, Positions
<1>2. UserTypeOK'
  BY DEF UserTypeOK
<1>3. CallInv'
  BY DEF CallInv, RingTypeOK
<1>4. LockInv'
  BY DEF LockInv, RingTypeOK
<1>5. RoomInv'
  BY DEF RoomInv, RingTypeOK, HasRoom, NewProd
<1>6. BoundInv'
  BY DEF BoundInv
<1>7. QED
  BY <1>1, <1>2, <1>3, <1>4, <1>5, <1>6

LEMMA ReserveHeaderSpace ==
  ASSUME SpaceInv, NEW c \in Cpus, ReserveHeader(c), UNCHANGED userVars
  PROVE  SpaceInv'
<1> USE DEF SpaceInv, ReserveHeader, Goto, bss, userVars, loopVars, sigVars
<1>0. call[c].rb \in Rings /\ call[c].size \in Payloads
  BY DEF CallInv
<1>1. RingTypeOK'
  <2>1. call[c].size + BPF_RINGBUF_BUSY_BIT \in Header
    BY <1>0, HeaderWords
  <2>2. Offset(producer_pos[call[c].rb]) \in Slots
    BY <1>0, OffsetInSlots DEF RingTypeOK
  <2>3. hdr' \in [Rings -> [Slots -> Header]]
    BY <2>1, <2>2, <1>0 DEF RingTypeOK
  <2>4. QED
    BY <2>3 DEF RingTypeOK, Labels
<1>2. UserTypeOK'
  BY DEF UserTypeOK
<1>3. CallInv'
  BY DEF CallInv, RingTypeOK
<1>4. LockInv'
  BY <1>0, RingAssumption DEF LockInv, RingTypeOK
<1>5. RoomInv'
  BY <1>0 DEF RoomInv, RingTypeOK, HasRoom, NewProd
<1>6. BoundInv'
  BY DEF BoundInv
<1>7. QED
  BY <1>1, <1>2, <1>3, <1>4, <1>5, <1>6

LEMMA ReservePublishSpace ==
  ASSUME SpaceInv, NEW c \in Cpus, ReservePublish(c), UNCHANGED userVars
  PROVE  SpaceInv'
<1> USE DEF SpaceInv, ReservePublish, Goto, bss, userVars, loopVars, sigVars
<1> DEFINE r == call[c].rb
<1>0. r \in Rings /\ call[c].size \in Payloads /\ call[c].size \in Nat
  BY PayloadsNat DEF CallInv
<1>a. NewProd(c) \in Positions /\ producer_pos[r] \in Positions
  BY <1>0, RecordLenFacts, PositionsAdd DEF NewProd, RingTypeOK
<1>1. RingTypeOK'
  <2>1. [pos |-> producer_pos[r], len |-> call[c].size]
          \in [pos : Positions, len : Payloads]
    BY <1>0, <1>a
  <2>2. reserved' \in [Rings -> Seq([pos : Positions, len : Payloads])]
    <3> DEFINE T == [pos : Positions, len : Payloads]
               e == [pos |-> producer_pos[r], len |-> call[c].size]
    <3>1. e \in T /\ reserved \in [Rings -> Seq(T)]
      BY <2>1 DEF RingTypeOK
    <3>2. reserved' = [reserved EXCEPT ![r] = Append(reserved[r], e)]
      OBVIOUS
    <3> HIDE DEF T, e
    <3>3. Append(reserved[r], e) \in Seq(T)
      BY <3>1, <1>0
    <3>4. QED
      BY <3>1, <3>2, <3>3, <1>0 DEF T
  <2>3. 0 \in Positions
    BY DEF Positions
  <2>4. call' \in [Cpus -> [rb : Rings \cup {NULL}, size : Payloads \cup {0},
                        cons : Positions, event : Positions, old : Nat]]
    BY <2>3, <1>a DEF RingTypeOK
  <2>5. QED
    BY <2>2, <2>4, <1>a, <1>0 DEF RingTypeOK, Labels
<1>2. UserTypeOK'
  BY DEF UserTypeOK
<1>3. CallInv'
  BY DEF CallInv, RingTypeOK
<1>4. LockInv'
  <2>1. spinlock[r] = c /\ spinlock' = [spinlock EXCEPT ![r] = NULL]
    BY DEF LockInv
  <2>2. ASSUME NEW d \in Cpus, pc'[d] = "publish"
        PROVE  spinlock'[call'[d].rb] = d
    <3>1. d # c /\ pc[d] = "publish" /\ call'[d] = call[d]
      BY <2>2 DEF RingTypeOK
    <3>2. spinlock[call[d].rb] = d /\ call[d].rb \in Rings
      BY <3>1 DEF LockInv, CallInv
    <3>3. QED
      BY <2>1, <3>1, <3>2 DEF RingTypeOK
  <2>3. ASSUME NEW q \in Rings, spinlock'[q] # NULL
        PROVE  pc'[spinlock'[q]] = "publish" /\ call'[spinlock'[q]].rb = q
    <3>1. q # r /\ spinlock'[q] = spinlock[q]
      BY <2>1, <2>3 DEF RingTypeOK
    <3>2. /\ spinlock[q] \in Cpus /\ pc[spinlock[q]] = "publish"
          /\ call[spinlock[q]].rb = q
      BY <2>3, <3>1 DEF LockInv, RingTypeOK
    <3>3. QED
      BY <3>1, <3>2 DEF RingTypeOK
  <2>4. QED
    BY <2>2, <2>3 DEF LockInv
<1>5. RoomInv'
  <2> SUFFICES ASSUME NEW d \in Cpus
      PROVE /\ pc'[d] \in {"lock", "publish"} =>
                  call'[d].cons <= consumer_pos'[call'[d].rb]
            /\ pc'[d] = "publish" => HasRoom(d)'
    BY DEF RoomInv
  <2>1. CASE d = c
    BY <2>1 DEF RingTypeOK
  <2>2. CASE d # c /\ pc[d] = "publish"
    <3>1. call[d].rb # r
      BY <2>2 DEF LockInv
    <3>2. QED
      BY <2>2, <3>1 DEF RoomInv, RingTypeOK, HasRoom, NewProd, CallInv
  <2>3. CASE d # c /\ pc[d] # "publish"
    BY <2>3 DEF RoomInv, RingTypeOK
  <2>4. QED
    BY <2>1, <2>2, <2>3
<1>6. BoundInv'
  <2>1. NewProd(c) - call[c].cons <= mask /\ call[c].cons <= consumer_pos[r]
    BY DEF RoomInv, HasRoom
  <2>2. /\ NewProd(c) \in Nat /\ call[c].cons \in Nat
        /\ consumer_pos[r] \in Nat /\ mask \in Int
    <3>1. mask \in Int
      BY RingAssumption DEF mask
    <3>2. QED
      BY <1>0, <1>a, <3>1 DEF RingTypeOK, Positions
  <2>3. NewProd(c) - consumer_pos[r] <= mask
    BY <2>1, <2>2
  <2>4. producer_pos' = [producer_pos EXCEPT ![r] = NewProd(c)]
        /\ UNCHANGED <<consumer_pos, cons_pos>>
    OBVIOUS
  <2>5. ASSUME NEW q \in Rings
        PROVE  producer_pos'[q] - consumer_pos'[q] <= mask
    <3>1. CASE q = r
      BY <2>3, <2>4, <3>1 DEF RingTypeOK
    <3>2. CASE q # r
      BY <2>4, <3>2 DEF BoundInv, RingTypeOK
    <3>3. QED
      BY <3>1, <3>2
  <2>6. QED
    BY <2>5, <2>4 DEF BoundInv
<1>7. QED
  BY <1>1, <1>2, <1>3, <1>4, <1>5, <1>6

LEMMA SubmitSpace ==
  ASSUME SpaceInv, NEW c \in Cpus, Submit(c), UNCHANGED userVars
  PROVE  SpaceInv'
<1> USE DEF SpaceInv, Submit, Goto, bss, userVars, loopVars, sigVars
<1> DEFINE r == call[c].rb
           o == Offset(call[c].event)
<1>0. r \in Rings /\ call[c].event \in Positions /\ o \in Slots
  BY OffsetInSlots DEF CallInv, RingTypeOK
<1>1. RingTypeOK'
  <2>1. hdr[r][o] \in Header
    BY <1>0 DEF RingTypeOK
  <2>2. FlipBusy(hdr[r][o]) \in Header
    BY <2>1, HeaderWords
  <2>3. hdr' = [hdr EXCEPT ![r] = [hdr[r] EXCEPT ![o] = FlipBusy(hdr[r][o])]]
    BY <1>0 DEF RingTypeOK
  <2>4. hdr' \in [Rings -> [Slots -> Header]]
    <3> DEFINE u == FlipBusy(hdr[r][o])
    <3>1. hdr \in [Rings -> [Slots -> Header]] /\ u \in Header
      BY <2>2 DEF RingTypeOK
    <3> HIDE DEF u
    <3>2. [hdr EXCEPT ![r] = [hdr[r] EXCEPT ![o] = u]]
            \in [Rings -> [Slots -> Header]]
      BY <3>1, <1>0, TableUpdate
    <3>3. QED
      BY <2>3, <3>2 DEF u
  <2>5. QED
    BY <2>4 DEF RingTypeOK, Labels, NoCall, Positions
<1>2. UserTypeOK'
  BY DEF UserTypeOK
<1>3. CallInv'
  BY DEF CallInv, RingTypeOK
<1>4. LockInv'
  BY DEF LockInv, RingTypeOK
<1>5. RoomInv'
  BY DEF RoomInv, RingTypeOK, HasRoom, NewProd
<1>6. BoundInv'
  BY DEF BoundInv
<1>7. QED
  BY <1>1, <1>2, <1>3, <1>4, <1>5, <1>6

(* Every step of a helper keeps the invariant.                             *)
LEMMA HelperSpace ==
  ASSUME SpaceInv, NEW c \in Cpus, HelperStep(c), UNCHANGED userVars
  PROVE  SpaceInv'
BY ReserveLoadSpace, ReserveFullSpace, ReserveHeaderSpace,
   ReservePublishSpace, SubmitSpace DEF HelperStep

(* A step of the program outside the helpers: cpu c, which does not hold a *)
(* lock, goes to label l with the locals k, and at most counters change.   *)
ProgramMoves(c, l, k) ==
  /\ pc[c] # "publish"
  /\ l \in Labels \ {"lock", "publish", "submit"}
  /\ k \in [rb : Rings \cup {NULL}, size : Payloads \cup {0},
            cons : Positions, event : Positions, old : Nat]
  /\ l = "reserve" => k.rb \in Rings /\ k.size \in Payloads
  /\ pc' = [pc EXCEPT ![c] = l]
  /\ call' = [call EXCEPT ![c] = k]
  /\ UNCHANGED <<ringVars, capture_enabled, userVars>>
  /\ n_drops' \in Nat /\ n_skipped' \in Nat

(* Such a step keeps it.                                                   *)
LEMMA ProgramSpace ==
  ASSUME SpaceInv, NEW c \in Cpus, NEW l, NEW k, ProgramMoves(c, l, k)
  PROVE  SpaceInv'
<1> USE DEF SpaceInv, ProgramMoves, ringVars, userVars, loopVars, sigVars
<1>1. RingTypeOK'
  BY DEF RingTypeOK
<1>2. UserTypeOK'
  BY DEF UserTypeOK
<1>3. CallInv'
  BY DEF CallInv, RingTypeOK
<1>4. LockInv'
  BY DEF LockInv, RingTypeOK
<1>5. RoomInv'
  BY DEF RoomInv, RingTypeOK, HasRoom, NewProd
<1>6. BoundInv'
  BY DEF BoundInv
<1>7. QED
  BY <1>1, <1>2, <1>3, <1>4, <1>5, <1>6

-----------------------------------------------------------------------------
(* It holds of rings just created.                                         *)
LEMMA InitSpace ==
  ASSUME RingInit, UserInit
  PROVE  SpaceInv
<1> USE DEF RingInit, UserInit
<1>0. 0 \in Positions /\ 0 \in Rings /\ mask \in Nat
  BY RingAssumption DEF Positions, Rings, mask
<1>1. RingTypeOK
  <2>1. 0 \in Header
    BY HeaderWords
  <2>2. hdr \in [Rings -> [Slots -> Header]]
    BY <2>1
  <2>3. NoCall \in [rb : Rings \cup {NULL}, size : Payloads \cup {0},
                    cons : Positions, event : Positions, old : Nat]
    BY <1>0 DEF NoCall
  <2>4. reserved \in [Rings -> Seq([pos : Positions, len : Payloads])]
    OBVIOUS
  <2>5. QED
    BY <1>0, <2>2, <2>3, <2>4 DEF RingTypeOK, Labels
<1>2. UserTypeOK
  BY <1>0 DEF UserTypeOK, NoReport
<1>3. CallInv
  BY DEF CallInv
<1>4. LockInv
  BY DEF LockInv
<1>5. RoomInv
  BY DEF RoomInv
<1>6. BoundInv
  BY <1>0 DEF BoundInv
<1>7. QED
  BY <1>1, <1>2, <1>3, <1>4, <1>5, <1>6 DEF SpaceInv

(* Userspace keeps it, whatever its loop is.                               *)
LEMMA UserSpace ==
  ASSUME SpaceInv, UserFrame, UserMoves, UserTypeOK',
         consumer_pos' \in [Rings -> Positions]
  PROVE  SpaceInv'
<1> USE DEF SpaceInv, UserFrame, cpuVars
<1>0. \A r \in Rings : consumer_pos[r] \in Int /\ consumer_pos'[r] \in Int
                      /\ producer_pos[r] \in Int
  BY DEF RingTypeOK, Positions
<1>1. RingTypeOK'
  BY DEF RingTypeOK
<1>2. CallInv'
  BY DEF CallInv
<1>3. LockInv'
  BY DEF LockInv
<1>4. RoomInv'
  <2> SUFFICES ASSUME NEW c \in Cpus
      PROVE /\ pc[c] \in {"lock", "publish"} =>
                  call[c].cons <= consumer_pos'[call[c].rb]
            /\ pc[c] = "publish" => HasRoom(c)
    BY DEF RoomInv, HasRoom, NewProd
  <2>1. pc[c] = "publish" => HasRoom(c)
    BY DEF RoomInv
  <2>2. ASSUME pc[c] \in {"lock", "publish"}
        PROVE  call[c].cons <= consumer_pos'[call[c].rb]
    <3>1. call[c].rb \in Rings /\ call[c].cons \in Int
      BY <2>2 DEF CallInv, RingTypeOK, Positions
    <3>2. call[c].cons <= consumer_pos[call[c].rb]
      BY <2>2 DEF RoomInv
    <3>3. QED
      BY <3>1, <3>2, <1>0 DEF UserMoves
  <2>3. QED
    BY <2>1, <2>2
<1>5. BoundInv'
  BY <1>0, RingAssumption DEF BoundInv, UserMoves, mask
<1>6. QED
  BY <1>1, <1>2, <1>3, <1>4, <1>5

-----------------------------------------------------------------------------
(* RecordInv, in the same way; and what the channels of EventChannel see.  *)
(* The records of a ring, typed.                                           *)
Record == [pos : Positions, len : Payloads]

LEMMA RecordTypes ==
  ASSUME SpaceInv, NEW r \in Rings
  PROVE  /\ reserved \in [Rings -> Seq(Record)]
         /\ reserved[r] \in Seq(Record)
         /\ Len(reserved[r]) \in Nat
         /\ DOMAIN reserved[r] = 1 .. Len(reserved[r])
         /\ \A i \in 1 .. Len(reserved[r]) :
              /\ reserved[r][i] \in Record
              /\ reserved[r][i].pos \in Positions
              /\ reserved[r][i].pos \in Nat
              /\ reserved[r][i].len \in Payloads
              /\ reserved[r][i].len \in Nat
              /\ After(reserved[r][i]) \in Nat
              /\ reserved[r][i].pos < After(reserved[r][i])
<1> DEFINE R == reserved[r]
<1>1. reserved \in [Rings -> Seq(Record)] /\ R \in Seq(Record)
  BY DEF SpaceInv, RingTypeOK, Record
<1>2. Len(R) \in Nat /\ DOMAIN R = 1 .. Len(R)
  BY <1>1
<1>3. ASSUME NEW i \in 1 .. Len(R)
      PROVE  /\ R[i] \in Record
             /\ R[i].pos \in Positions /\ R[i].pos \in Nat
             /\ R[i].len \in Payloads /\ R[i].len \in Nat
             /\ After(R[i]) \in Nat /\ R[i].pos < After(R[i])
  <2>1. R[i] \in Record
    BY <1>1
  <2>2. R[i].pos \in Positions /\ R[i].len \in Payloads /\ R[i].len \in Nat
    BY <2>1, PayloadsNat DEF Record
  <2>3. RecordLen(R[i].len) \in Nat /\ RecordLen(R[i].len) > 0
    BY <2>2, RecordLenNat
  <2>4. R[i].pos \in Nat
    BY <2>2 DEF Positions
  <2>5. QED
    BY <2>1, <2>2, <2>3, <2>4 DEF After
<1>4. QED
  BY <1>1, <1>2, <1>3

(* The positions of a ring are numbers.                                    *)
LEMMA PositionTypes ==
  ASSUME SpaceInv, NEW r \in Rings
  PROVE  /\ consumer_pos[r] \in Nat /\ producer_pos[r] \in Nat
         /\ cons_pos[r] \in Nat /\ prod_pos[r] \in Nat
         /\ cons_pos[r] \in Positions /\ producer_pos[r] \in Positions
         /\ mask \in Nat
         /\ taken \in [Rings -> Seq(Positions)]
         /\ Len(taken[r]) \in Nat /\ DOMAIN taken[r] = 1 .. Len(taken[r])
<1>1. mask \in Nat
  BY RingAssumption DEF mask
<1>2. taken \in [Rings -> Seq(Positions)] /\ taken[r] \in Seq(Positions)
  BY DEF SpaceInv, UserTypeOK
<1>3. Len(taken[r]) \in Nat /\ DOMAIN taken[r] = 1 .. Len(taken[r])
  BY <1>2
<1>4. /\ consumer_pos[r] \in Positions /\ producer_pos[r] \in Positions
      /\ cons_pos[r] \in Positions /\ prod_pos[r] \in Positions
  BY DEF SpaceInv, RingTypeOK, UserTypeOK
<1>5. Positions \subseteq Nat
  BY DEF Positions
<1>6. QED
  BY <1>1, <1>2, <1>3, <1>4, <1>5

(* Records of a ring do not overlap, and lie before producer_pos.          *)
LEMMA LayoutFacts ==
  ASSUME SpaceInv, LayoutInv, NEW r \in Rings
  PROVE  /\ \A i \in 1 .. Len(reserved[r]) :
              /\ After(reserved[r][i]) <= producer_pos[r]
              /\ reserved[r][i].pos < producer_pos[r]
         /\ \A i, j \in 1 .. Len(reserved[r]) :
              /\ i < j => After(reserved[r][i]) <= reserved[r][j].pos
              /\ i < j => reserved[r][i].pos < reserved[r][j].pos
              /\ reserved[r][i].pos = reserved[r][j].pos => i = j
<1> DEFINE R == reserved[r]
           n == Len(R)
<1>1. /\ n \in Nat
      /\ \A i \in 1 .. n : /\ R[i].pos \in Nat /\ After(R[i]) \in Nat
                           /\ R[i].pos < After(R[i])
  BY RecordTypes
<1>2. /\ \A i \in 1 .. n :
           After(R[i]) = IF i < n THEN R[i + 1].pos ELSE producer_pos[r]
      /\ \A j \in 1 .. n : \A i \in 1 .. j - 1 : After(R[i]) <= R[j].pos
  BY DEF LayoutInv
<1>3. producer_pos[r] \in Nat
  BY PositionTypes
<1> HIDE DEF n, R
<1>4. ASSUME NEW i \in 1 .. n, NEW j \in 1 .. n, i < j
      PROVE  After(R[i]) <= R[j].pos /\ R[i].pos < R[j].pos
  <2>1. i \in 1 .. j - 1
    BY <1>1, <1>4
  <2>2. After(R[i]) <= R[j].pos
    BY <1>2, <2>1
  <2>3. QED
    BY <1>1, <2>2
<1>5. ASSUME NEW i \in 1 .. n
      PROVE  After(R[i]) <= producer_pos[r] /\ R[i].pos < producer_pos[r]
  <2>1. CASE i < n
    <3>1. n \in 1 .. n
      BY <1>1, <2>1
    <3>2. After(R[i]) <= R[n].pos /\ After(R[n]) = producer_pos[r]
      BY <1>1, <1>2, <1>4, <2>1, <3>1
    <3>3. QED
      BY <1>1, <1>3, <3>1, <3>2
  <2>2. CASE i = n
    BY <1>1, <1>2, <1>3, <2>2
  <2>3. QED
    BY <1>1, <2>1, <2>2
<1>6. ASSUME NEW i \in 1 .. n, NEW j \in 1 .. n, R[i].pos = R[j].pos
      PROVE  i = j
  BY <1>1, <1>4, <1>6
<1>7. QED
  BY <1>4, <1>5, <1>6 DEF n, R

(* Two positions of the space in use have different slots.                 *)
LEMMA SlotsApart ==
  ASSUME SpaceInv, NEW r \in Rings, NEW p \in Nat, NEW q \in Nat, p # q,
         consumer_pos[r] <= p, p <= producer_pos[r],
         consumer_pos[r] <= q, q <= producer_pos[r]
  PROVE  Offset(p) # Offset(q)
<1>1. producer_pos[r] - consumer_pos[r] <= mask
  BY DEF SpaceInv, BoundInv
<1>2. p - q <= mask /\ q - p <= mask
  BY <1>1, PositionTypes
<1>3. QED
  BY <1>2, OffsetsDiffer

-----------------------------------------------------------------------------
(* A step that leaves rings and cursors alone, and the cpus that hold a    *)
(* record, keeps what is said of records.                                  *)
HoldersStay ==
  /\ \A c \in Cpus : pc'[c] = "submit"  <=> pc[c] = "submit"
  /\ \A c \in Cpus : pc'[c] = "publish" <=> pc[c] = "publish"
  /\ \A c \in Cpus : pc[c] \in {"submit", "publish"} => call'[c] = call[c]

LEMMA RingsStayRecord ==
  ASSUME SpaceInv, RecordInv, HoldersStay,
         UNCHANGED <<reserved, taken, producer_pos, consumer_pos, hdr,
                     cons_pos, prod_pos>>
  PROVE  RecordInv'
<1> USE DEF RecordInv, HoldersStay
<1>1. LayoutInv'
  BY DEF LayoutInv, After
<1>2. WrittenInv'
  BY DEF WrittenInv
<1>3. HeldInv'
  BY DEF HeldInv, Holds
<1>4. ConsumerBehind'
  BY DEF ConsumerBehind
<1>5. \A r \in Rings : \A pos : InFlight(r, pos)' <=> InFlight(r, pos)
  BY DEF InFlight
<1>6. HeadersIntact'
  BY <1>5 DEF HeadersIntact
<1>7. ExactlyOnceInOrder'
  BY DEF ExactlyOnceInOrder
<1>8. QED
  BY <1>1, <1>2, <1>3, <1>4, <1>6, <1>7

LEMMA ReserveLoadRecord ==
  ASSUME SpaceInv, RecordInv, NEW c \in Cpus, ReserveLoad(c), UNCHANGED userVars
  PROVE  RecordInv'
<1>1. HoldersStay
  BY DEF ReserveLoad, Goto, HoldersStay, SpaceInv, RingTypeOK
<1>2. QED
  BY <1>1, RingsStayRecord DEF ReserveLoad, ringVars, userVars, loopVars

LEMMA ReserveFullRecord ==
  ASSUME SpaceInv, RecordInv, NEW c \in Cpus, ReserveFull(c), UNCHANGED userVars
  PROVE  RecordInv'
<1>1. HoldersStay
  BY DEF ReserveFull, Goto, HoldersStay, SpaceInv, RingTypeOK
<1>2. QED
  BY <1>1, RingsStayRecord DEF ReserveFull, userVars, loopVars

LEMMA ProgramRecord ==
  ASSUME SpaceInv, RecordInv, NEW c \in Cpus, NEW l, NEW k,
         ProgramMoves(c, l, k), pc[c] # "submit"
  PROVE  RecordInv'
<1>1. HoldersStay
  BY DEF ProgramMoves, HoldersStay, SpaceInv, RingTypeOK
<1>2. QED
  BY <1>1, RingsStayRecord DEF ProgramMoves, ringVars, userVars, loopVars

(* The header of a new record is written behind all those in use.          *)
LEMMA ReserveHeaderRecord ==
  ASSUME SpaceInv, RecordInv, NEW c \in Cpus, ReserveHeader(c),
         UNCHANGED userVars
  PROVE  RecordInv'
<1> USE DEF RecordInv
<1> DEFINE r == call[c].rb
           o == Offset(producer_pos[r])
           h == call[c].size + BPF_RINGBUF_BUSY_BIT
<1>1. /\ r \in Rings /\ pc[c] = "lock" /\ spinlock[r] = NULL
      /\ pc' = [pc EXCEPT ![c] = "publish"]
      /\ hdr' = [hdr EXCEPT ![r][o] = h]
      /\ UNCHANGED <<reserved, taken, producer_pos, consumer_pos, call,
                     cons_pos, prod_pos>>
  BY DEF ReserveHeader, Goto, userVars, loopVars, SpaceInv, CallInv
<1>2. /\ pc \in [Cpus -> Labels] /\ hdr \in [Rings -> [Slots -> Header]]
      /\ o \in Slots
  BY <1>1, OffsetInSlots, PositionTypes DEF SpaceInv, RingTypeOK
<1>3. /\ hdr'[r][o] = h
      /\ \A q \in Rings, s \in Slots :
           q # r \/ s # o => hdr'[q][s] = hdr[q][s]
  BY <1>1, <1>2
<1>4. \A d \in Cpus : pc'[d] = "submit" <=> pc[d] = "submit"
  BY <1>1, <1>2
<1> HIDE DEF o, h
<1>5. LayoutInv' /\ ConsumerBehind' /\ ExactlyOnceInOrder'
  BY <1>1 DEF LayoutInv, After, ConsumerBehind, ExactlyOnceInOrder
<1>6. HeldInv'
  BY <1>1, <1>4 DEF HeldInv, Holds
<1>7. WrittenInv'
  <2> SUFFICES ASSUME NEW d \in Cpus, pc'[d] = "publish"
               PROVE  hdr'[call[d].rb][Offset(producer_pos[call[d].rb])] =
                        call[d].size + BPF_RINGBUF_BUSY_BIT
    BY <1>1 DEF WrittenInv
  <2>1. CASE d = c
    BY <2>1, <1>3 DEF o, h
  <2>2. CASE d # c
    <3>1. pc[d] = "publish"
      BY <2>2, <1>1, <1>2
    <3>2. spinlock[call[d].rb] = d /\ call[d].rb \in Rings
      BY <3>1 DEF SpaceInv, LockInv, CallInv
    <3>3. call[d].rb # r
      BY <3>2, <1>1, RingAssumption
    <3>4. Offset(producer_pos[call[d].rb]) \in Slots
      BY <3>2, OffsetInSlots, PositionTypes
    <3>5. QED
      BY <1>3, <3>1, <3>2, <3>3, <3>4 DEF WrittenInv
  <2>3. QED
    BY <2>1, <2>2
<1>8. HeadersIntact'
  <2>1. \A q \in Rings : \A pos : InFlight(q, pos)' <=> InFlight(q, pos)
    BY <1>1, <1>4 DEF InFlight
  <2>2. ASSUME NEW q \in Rings, NEW i \in 1 .. Len(reserved[q]),
               reserved[q][i].pos >= consumer_pos[q]
        PROVE  hdr'[q][Offset(reserved[q][i].pos)] =
                 hdr[q][Offset(reserved[q][i].pos)]
    <3> DEFINE p == reserved[q][i].pos
    <3>1. p \in Nat /\ p \in Positions /\ p < producer_pos[q]
      BY RecordTypes, LayoutFacts
    <3>2. Offset(p) \in Slots
      BY <3>1, OffsetInSlots
    <3>3. CASE q = r
      <4>1. /\ producer_pos[q] \in Nat /\ consumer_pos[q] \in Nat
            /\ consumer_pos[q] <= producer_pos[q]
        BY PositionTypes, <3>1, <2>2
      <4>2. Offset(p) # Offset(producer_pos[q])
        BY <3>1, <2>2, <4>1, SlotsApart
      <4>3. QED
        BY <3>2, <3>3, <4>2, <1>3 DEF o
    <3>4. QED
      BY <3>2, <3>3, <1>3
  <2>3. \A q \in Rings : DOMAIN reserved[q] = 1 .. Len(reserved[q])
    BY RecordTypes
  <2>4. QED
    BY <1>1, <2>1, <2>2, <2>3 DEF HeadersIntact
<1>9. QED
  BY <1>5, <1>6, <1>7, <1>8

(* What the publication of a record does to the records of its ring.       *)
LEMMA PublishFacts ==
  ASSUME SpaceInv, NEW c \in Cpus, ReservePublish(c)
  PROVE  LET r == call[c].rb
             e == [pos |-> producer_pos[r], len |-> call[c].size]
             n == Len(reserved[r])
         IN  /\ r \in Rings /\ e \in Record
             /\ call[c].size \in Nat
             /\ After(e) = NewProd(c) /\ NewProd(c) \in Nat
             /\ producer_pos[r] < NewProd(c)
             /\ Len(reserved'[r]) = n + 1
             /\ \A i \in 1 .. n : reserved'[r][i] = reserved[r][i]
             /\ reserved'[r][n + 1] = e
             /\ \A q \in Rings \ {r} : /\ reserved'[q] = reserved[q]
                                       /\ producer_pos'[q] = producer_pos[q]
             /\ producer_pos'[r] = NewProd(c)
             /\ DOMAIN reserved'[r] = 1 .. n + 1
<1> DEFINE r == call[c].rb
           e == [pos |-> producer_pos[r], len |-> call[c].size]
           n == Len(reserved[r])
<1>1. /\ r \in Rings /\ call[c].size \in Payloads /\ call[c].size \in Nat
  BY PayloadsNat DEF ReservePublish, SpaceInv, CallInv
<1>2. e \in Record /\ producer_pos[r] \in Nat
  BY <1>1, PositionTypes DEF Record
<1>3. RecordLen(call[c].size) \in Nat /\ RecordLen(call[c].size) > 0
  BY <1>1, RecordLenNat
<1>4. /\ After(e) = NewProd(c) /\ NewProd(c) \in Nat
      /\ producer_pos[r] < NewProd(c)
  BY <1>2, <1>3 DEF After, NewProd
<1>5. /\ reserved \in [Rings -> Seq(Record)] /\ n \in Nat
      /\ reserved' = [reserved EXCEPT ![r] = Append(reserved[r], e)]
      /\ producer_pos' = [producer_pos EXCEPT ![r] = NewProd(c)]
      /\ producer_pos \in [Rings -> Positions]
  BY <1>1, RecordTypes DEF ReservePublish, SpaceInv, RingTypeOK
<1> HIDE DEF e
<1>6. reserved'[r] = Append(reserved[r], e) /\ reserved[r] \in Seq(Record)
  BY <1>1, <1>5
<1>7. /\ Len(reserved'[r]) = n + 1
      /\ \A i \in 1 .. n : reserved'[r][i] = reserved[r][i]
      /\ reserved'[r][n + 1] = e
      /\ DOMAIN reserved'[r] = 1 .. n + 1
  BY <1>2, <1>6
<1>8. \A q \in Rings \ {r} : /\ reserved'[q] = reserved[q]
                             /\ producer_pos'[q] = producer_pos[q]
  BY <1>1, <1>5
<1>9. producer_pos'[r] = NewProd(c)
  BY <1>1, <1>5
<1> USE DEF e
<1>10. QED
  BY <1>1, <1>2, <1>4, <1>7, <1>8, <1>9

(* A record is published under the header it was given, for a cpu that     *)
(* holds no other; nobody has been handed anything behind it.              *)
LEMMA ReservePublishRecord ==
  ASSUME SpaceInv, RecordInv, NEW c \in Cpus, ReservePublish(c),
         UNCHANGED userVars
  PROVE  RecordInv'
<1> USE DEF RecordInv
<1> DEFINE r == call[c].rb
           e == [pos |-> producer_pos[r], len |-> call[c].size]
           n == Len(reserved[r])
<1>1. /\ r \in Rings /\ e \in Record /\ call[c].size \in Nat
      /\ After(e) = NewProd(c) /\ NewProd(c) \in Nat
      /\ producer_pos[r] < NewProd(c)
      /\ Len(reserved'[r]) = n + 1
      /\ \A i \in 1 .. n : reserved'[r][i] = reserved[r][i]
      /\ reserved'[r][n + 1] = e
      /\ \A q \in Rings \ {r} : /\ reserved'[q] = reserved[q]
                                /\ producer_pos'[q] = producer_pos[q]
      /\ producer_pos'[r] = NewProd(c)
      /\ DOMAIN reserved'[r] = 1 .. n + 1
  BY PublishFacts
<1>2. /\ UNCHANGED <<taken, cons_pos, prod_pos, consumer_pos, hdr>>
      /\ pc[c] = "publish" /\ pc' = [pc EXCEPT ![c] = "submit"]
      /\ call' = [call EXCEPT ![c].event = producer_pos[r], ![c].cons = 0]
  BY DEF ReservePublish, Goto, userVars, loopVars
<1>3. /\ pc'[c] = "submit" /\ call'[c].rb = r
      /\ call'[c].event = producer_pos[r]
      /\ \A d \in Cpus : d # c => pc'[d] = pc[d] /\ call'[d] = call[d]
  BY <1>2 DEF SpaceInv, RingTypeOK
<1>4. /\ n \in Nat /\ producer_pos[r] \in Nat
      /\ \A i \in 1 .. n : /\ reserved[r][i].pos \in Nat
                           /\ reserved[r][i].pos < producer_pos[r]
                           /\ After(reserved[r][i]) \in Nat
                           /\ After(reserved[r][i]) <= producer_pos[r]
  BY <1>1, RecordTypes, LayoutFacts, PositionTypes
<1>5. e.pos = producer_pos[r] /\ e.len = call[c].size
  OBVIOUS
<1>6. \A q \in Rings : /\ Len(reserved[q]) \in Nat
                       /\ DOMAIN reserved[q] = 1 .. Len(reserved[q])
                       /\ Len(taken[q]) \in Nat
  BY RecordTypes, PositionTypes
<1> HIDE DEF e, n, r
<1>7. LayoutInv'
  <2> SUFFICES ASSUME NEW q \in Rings
      PROVE  LET R == reserved'[q]
                 m == Len(R)
             IN  /\ \A i \in 1 .. m : After(R[i]) =
                      IF i < m THEN R[i + 1].pos ELSE producer_pos'[q]
                 /\ \A j \in 1 .. m : \A i \in 1 .. j - 1 :
                      After(R[i]) <= R[j].pos
                 /\ (IF m = 0 THEN producer_pos'[q] ELSE R[1].pos) = 0
    BY DEF LayoutInv, After
  <2>1. CASE q # r
    BY <2>1, <1>1 DEF LayoutInv
  <2>2. CASE q = r
    <3> DEFINE R == reserved[r]
    <3>1. /\ \A i \in 1 .. n :
               After(R[i]) = IF i < n THEN R[i + 1].pos ELSE producer_pos[r]
          /\ \A j \in 1 .. n : \A i \in 1 .. j - 1 : After(R[i]) <= R[j].pos
          /\ (IF n = 0 THEN producer_pos[r] ELSE R[1].pos) = 0
      BY <1>1 DEF LayoutInv, n
    <3> HIDE DEF R
    <3>2. ASSUME NEW i \in 1 .. n + 1
          PROVE  After(reserved'[r][i]) =
                   IF i < n + 1 THEN reserved'[r][i + 1].pos ELSE NewProd(c)
      <4>1. CASE i = n + 1
        BY <4>1, <1>1, <1>4
      <4>2. CASE i < n
        <5>1. i \in 1 .. n /\ i + 1 \in 1 .. n /\ i < n + 1
          BY <4>2, <1>4
        <5>2. reserved'[r][i] = R[i] /\ reserved'[r][i + 1] = R[i + 1]
          BY <5>1, <1>1 DEF R
        <5>3. QED
          BY <5>1, <5>2, <3>1, <4>2
      <4>3. CASE i = n
        <5>1. i \in 1 .. n /\ i + 1 = n + 1 /\ i < n + 1 /\ ~(i < n)
          BY <4>3, <1>4
        <5>2. reserved'[r][i] = R[i] /\ reserved'[r][i + 1] = e
          BY <5>1, <1>1 DEF R
        <5>3. QED
          BY <5>1, <5>2, <3>1, <1>5
      <4>4. QED
        BY <4>1, <4>2, <4>3, <1>4
    <3>3. ASSUME NEW j \in 1 .. n + 1, NEW i \in 1 .. j - 1
          PROVE  After(reserved'[r][i]) <= reserved'[r][j].pos
      <4>1. i \in 1 .. n /\ reserved'[r][i] = R[i]
        BY <1>1, <1>4 DEF R
      <4>2. CASE j = n + 1
        BY <4>1, <4>2, <1>1, <1>4, <1>5 DEF R
      <4>3. CASE j \in 1 .. n
        BY <4>1, <4>3, <1>1, <3>1 DEF R
      <4>4. QED
        BY <4>2, <4>3, <1>4
    <3>4. reserved'[r][1].pos = 0
      <4>1. CASE n = 0
        BY <4>1, <1>1, <1>5, <3>1
      <4>2. CASE n # 0
        <5>1. 1 \in 1 .. n
          BY <4>2, <1>4
        <5>2. QED
          BY <4>2, <5>1, <1>1, <3>1 DEF R
      <4>3. QED
        BY <4>1, <4>2
    <3>5. n + 1 # 0
      BY <1>4
    <3>6. QED
      BY <2>2, <3>2, <3>3, <3>4, <3>5, <1>1
  <2>3. QED
    BY <2>1, <2>2
<1>8. WrittenInv'
  <2> SUFFICES ASSUME NEW d \in Cpus, pc'[d] = "publish"
      PROVE  hdr[call'[d].rb][Offset(producer_pos'[call'[d].rb])] =
               call'[d].size + BPF_RINGBUF_BUSY_BIT
    BY <1>2 DEF WrittenInv
  <2>1. d # c /\ pc[d] = "publish" /\ call'[d] = call[d]
    BY <1>3
  <2>2. spinlock[call[d].rb] = d /\ call[d].rb \in Rings /\ spinlock[r] = c
    BY <2>1, <1>2 DEF SpaceInv, LockInv, CallInv, r
  <2>3. producer_pos'[call[d].rb] = producer_pos[call[d].rb]
    BY <2>1, <2>2, <1>1
  <2>4. QED
    BY <2>1, <2>3 DEF WrittenInv
<1>9. HeldInv'
  <2>1. ASSUME NEW d \in Cpus, pc'[d] = "submit"
        PROVE  \E i \in 1 .. Len(reserved'[call'[d].rb]) :
                 /\ i > Len(taken[call'[d].rb])
                 /\ call'[d].event = reserved'[call'[d].rb][i].pos
    <3>1. CASE d = c
      <4>1. n >= Len(taken[r])
        BY <1>1 DEF ExactlyOnceInOrder, n
      <4>2. n + 1 \in 1 .. n + 1 /\ n + 1 > Len(taken[r])
        BY <4>1, <1>1, <1>4, <1>6
      <4>3. call'[c].event = reserved'[r][n + 1].pos
        BY <1>1, <1>3, <1>5
      <4>4. QED
        BY <3>1, <4>2, <4>3, <1>1, <1>3
    <3>2. CASE d # c
      <4>1. pc[d] = "submit" /\ call'[d] = call[d] /\ call[d].rb \in Rings
        BY <3>2, <2>1, <1>3 DEF SpaceInv, CallInv
      <4>2. PICK i \in 1 .. Len(reserved[call[d].rb]) :
              i > Len(taken[call[d].rb]) /\ Holds(d, call[d].rb, i)
        BY <4>1 DEF HeldInv
      <4>3. /\ i \in 1 .. Len(reserved'[call[d].rb])
            /\ reserved'[call[d].rb][i] = reserved[call[d].rb][i]
        <5>1. CASE call[d].rb = r
          BY <5>1, <1>1, <1>4 DEF n
        <5>2. CASE call[d].rb # r
          BY <5>2, <1>1, <4>1
        <5>3. QED
          BY <5>1, <5>2
      <4>4. call'[d].event = reserved'[call[d].rb][i].pos
        BY <4>1, <4>2, <4>3 DEF Holds
      <4>5. QED
        BY <4>1, <4>2, <4>3, <4>4
    <3>3. QED
      BY <3>1, <3>2
  <2>2. ASSUME NEW d \in Cpus, pc'[d] = "submit", d # c, call'[d].rb = r
        PROVE  call'[d].event # producer_pos[r]
    <3>1. pc[d] = "submit" /\ call'[d] = call[d]
      BY <2>2, <1>3
    <3>2. PICK i \in 1 .. n : Holds(d, r, i)
      BY <3>1, <2>2 DEF HeldInv, n
    <3>3. QED
      BY <3>1, <3>2, <1>4 DEF Holds
  <2>3. ASSUME NEW d \in Cpus, NEW f \in Cpus,
               pc'[d] = "submit", pc'[f] = "submit",
               call'[d].rb = call'[f].rb, call'[d].event = call'[f].event
        PROVE  d = f
    <3>1. CASE d # c /\ f # c
      BY <3>1, <2>3, <1>3 DEF HeldInv
    <3>2. CASE d = c \/ f = c
      BY <3>2, <2>2, <2>3, <1>3
    <3>3. QED
      BY <3>1, <3>2
  <2>4. QED
    BY <2>1, <2>3, <1>2 DEF HeldInv, Holds
<1>10. ConsumerBehind'
  <2> SUFFICES ASSUME NEW q \in Rings
               PROVE  /\ consumer_pos[q] <= cons_pos[q]
                      /\ cons_pos[q] <= producer_pos'[q]
                      /\ prod_pos[q] <= producer_pos'[q]
    BY <1>2 DEF ConsumerBehind
  <2>1. CASE q = r
    BY <2>1, <1>1, <1>4, PositionTypes DEF ConsumerBehind
  <2>2. CASE q # r
    BY <2>2, <1>1 DEF ConsumerBehind
  <2>3. QED
    BY <2>1, <2>2
<1>11. HeadersIntact'
  <2> DEFINE Held(q, p) == \E d \in Cpus :
               pc'[d] = "submit" /\ call'[d].rb = q /\ call'[d].event = p
  <2> SUFFICES ASSUME NEW q \in Rings, NEW i \in DOMAIN reserved'[q],
                      reserved'[q][i].pos >= consumer_pos[q]
      PROVE  hdr[q][Offset(reserved'[q][i].pos)] = reserved'[q][i].len +
               (IF Held(q, reserved'[q][i].pos)
                THEN BPF_RINGBUF_BUSY_BIT ELSE 0)
    BY <1>2 DEF HeadersIntact, InFlight
  <2>1. ASSUME NEW p, p # producer_pos[r] \/ q # r
        PROVE  Held(q, p) <=> InFlight(q, p)
    BY <2>1, <1>2, <1>3 DEF InFlight
  <2>2. CASE q = r /\ i = n + 1
    <3>1. reserved'[q][i] = e
      BY <2>2, <1>1
    <3>2. Held(q, e.pos)
      BY <2>2, <1>3, <1>5
    <3>3. hdr[r][Offset(producer_pos[r])] = call[c].size + BPF_RINGBUF_BUSY_BIT
      BY <1>2 DEF WrittenInv, r
    <3>4. QED
      BY <2>2, <3>1, <3>2, <3>3, <1>5
  <2>3. CASE ~(q = r /\ i = n + 1)
    <3>1. /\ i \in DOMAIN reserved[q] /\ reserved'[q][i] = reserved[q][i]
          /\ reserved[q][i].pos # producer_pos[r] \/ q # r
      <4>1. CASE q = r
        <5>1. i \in 1 .. n
          BY <4>1, <2>3, <1>1, <1>4
        <5>2. reserved[r][i].pos # producer_pos[r]
          BY <5>1, <1>4
        <5>3. QED
          BY <4>1, <5>1, <5>2, <1>1, <1>6 DEF n
      <4>2. CASE q # r
        BY <4>2, <1>1
      <4>3. QED
        BY <4>1, <4>2
    <3>2. QED
      BY <3>1, <2>1 DEF HeadersIntact
  <2>4. QED
    BY <2>2, <2>3
<1>12. ExactlyOnceInOrder'
  <2> SUFFICES ASSUME NEW q \in Rings
      PROVE  LET t == Len(taken[q])
             IN  /\ t <= Len(reserved'[q])
                 /\ \A i \in 1 .. t : taken[q][i] = reserved'[q][i].pos
                 /\ cons_pos[q] = IF t < Len(reserved'[q])
                                  THEN reserved'[q][t + 1].pos
                                  ELSE producer_pos'[q]
    BY <1>2 DEF ExactlyOnceInOrder
  <2>1. CASE q # r
    BY <2>1, <1>1 DEF ExactlyOnceInOrder
  <2>2. CASE q = r
    <3> DEFINE t == Len(taken[r])
    <3>1. /\ t \in Nat /\ t <= n
          /\ \A i \in 1 .. t : taken[r][i] = reserved[r][i].pos
          /\ cons_pos[r] = IF t < n THEN reserved[r][t + 1].pos
                                    ELSE producer_pos[r]
      BY <1>1, <1>6 DEF ExactlyOnceInOrder, n
    <3> HIDE DEF t
    <3>2. t <= n + 1 /\ t < n + 1
      BY <3>1, <1>4
    <3>3. \A i \in 1 .. t : i \in 1 .. n
      BY <3>1, <1>4
    <3>4. cons_pos[r] = reserved'[r][t + 1].pos
      <4>1. CASE t < n
        <5>1. t + 1 \in 1 .. n
          BY <4>1, <3>1, <1>4
        <5>2. QED
          BY <4>1, <5>1, <3>1, <1>1
      <4>2. CASE t = n
        BY <4>2, <3>1, <1>1, <1>5
      <4>3. QED
        BY <4>1, <4>2, <3>1, <1>4
    <3>5. QED
      BY <2>2, <3>1, <3>2, <3>3, <3>4, <1>1 DEF t
  <2>3. QED
    BY <2>1, <2>2
<1>13. QED
  BY <1>7, <1>8, <1>9, <1>10, <1>11, <1>12

(* The record a cpu is about to submit: it has it in the space in use, and *)
(* no other cpu has it.                                                    *)
LEMMA SubmitFacts ==
  ASSUME SpaceInv, RecordInv, NEW c \in Cpus, pc[c] = "submit"
  PROVE  LET r == call[c].rb
         IN  /\ r \in Rings
             /\ \E i \in 1 .. Len(reserved[r]) :
                  /\ i > Len(taken[r])
                  /\ Holds(c, r, i)
                  /\ cons_pos[r] <= reserved[r][i].pos
                  /\ hdr[r][Offset(reserved[r][i].pos)] =
                       reserved[r][i].len + BPF_RINGBUF_BUSY_BIT
<1> USE DEF RecordInv
<1> DEFINE r == call[c].rb
<1>1. r \in Rings
  BY DEF SpaceInv, CallInv
<1>2. PICK i \in 1 .. Len(reserved[r]) : i > Len(taken[r]) /\ Holds(c, r, i)
  BY DEF HeldInv
<1> DEFINE t == Len(taken[r])
           n == Len(reserved[r])
           p == reserved[r][i].pos
<1>3. /\ t \in Nat /\ n \in Nat /\ cons_pos[r] \in Nat /\ consumer_pos[r] \in Nat
      /\ \A j \in 1 .. n : reserved[r][j].pos \in Nat
      /\ DOMAIN reserved[r] = 1 .. n
  BY <1>1, RecordTypes, PositionTypes
<1>4. cons_pos[r] <= p
  <2>1. t + 1 \in 1 .. n /\ t < n /\ t + 1 <= i
    BY <1>2, <1>3
  <2>2. cons_pos[r] = reserved[r][t + 1].pos
    BY <1>1, <2>1 DEF ExactlyOnceInOrder
  <2>3. LayoutInv /\ i \in 1 .. n
    BY <1>2
  <2>4. t + 1 < i => reserved[r][t + 1].pos < p
    BY <1>1, <2>1, <2>3, LayoutFacts
  <2>5. t + 1 = i \/ t + 1 < i
    BY <1>3, <2>1, <2>3
  <2>6. p \in Nat
    BY <1>3, <2>3
  <2>7. CASE t + 1 = i
    BY <2>2, <2>6, <2>7
  <2>8. CASE t + 1 < i
    <3>1. cons_pos[r] < p
      BY <2>2, <2>4, <2>8
    <3>2. cons_pos[r] \in Nat
      BY <1>3
    <3>3. QED
      BY ONLY <2>6, <3>1, <3>2
  <2>9. QED
    BY <2>5, <2>7, <2>8
<1>5. hdr[r][Offset(p)] = reserved[r][i].len + BPF_RINGBUF_BUSY_BIT
  <2>1. consumer_pos[r] <= p
    BY <1>1, <1>3, <1>4 DEF ConsumerBehind
  <2>2. InFlight(r, p)
    BY <1>2 DEF Holds, InFlight
  <2>3. QED
    BY <1>1, <1>3, <2>1, <2>2 DEF HeadersIntact
<1>6. QED
  BY <1>1, <1>2, <1>4, <1>5

(* Submitting clears the flag of the cpu's own record, and of no other.    *)
LEMMA SubmitRecord ==
  ASSUME SpaceInv, RecordInv, NEW c \in Cpus, Submit(c), UNCHANGED userVars
  PROVE  RecordInv'
<1> USE DEF RecordInv
<1> DEFINE r == call[c].rb
           o == Offset(call[c].event)
           h == FlipBusy(hdr[r][o])
<1>1. /\ pc[c] = "submit" /\ pc' = [pc EXCEPT ![c] = "idle"]
      /\ call' = [call EXCEPT ![c] = NoCall]
      /\ hdr' = [hdr EXCEPT ![r][o] = h]
      /\ UNCHANGED <<reserved, taken, producer_pos, consumer_pos,
                     cons_pos, prod_pos>>
  BY DEF Submit, Goto, userVars, loopVars
<1>2. PICK k \in 1 .. Len(reserved[r]) :
        /\ Holds(c, r, k)
        /\ cons_pos[r] <= reserved[r][k].pos
        /\ hdr[r][Offset(reserved[r][k].pos)] =
             reserved[r][k].len + BPF_RINGBUF_BUSY_BIT
  BY <1>1, SubmitFacts
<1> DEFINE p == reserved[r][k].pos
<1>3. /\ r \in Rings /\ p \in Nat /\ p \in Positions /\ p < producer_pos[r]
      /\ reserved[r][k].len \in Payloads /\ call[c].event = p
      /\ consumer_pos[r] <= p
  <2>1. r \in Rings
    BY <1>1, SubmitFacts
  <2>2. consumer_pos[r] <= cons_pos[r]
    BY <2>1 DEF ConsumerBehind
  <2>3. QED
    BY <2>1, <2>2, <1>2, RecordTypes, LayoutFacts, PositionTypes DEF Holds
<1>4. h = reserved[r][k].len
  BY <1>2, <1>3, FlipBack
<1>5. /\ hdr \in [Rings -> [Slots -> Header]] /\ o \in Slots
      /\ pc \in [Cpus -> Labels]
  BY <1>3, OffsetInSlots DEF SpaceInv, RingTypeOK
<1>6. /\ hdr'[r][o] = h
      /\ \A q \in Rings, s \in Slots :
           q # r \/ s # o => hdr'[q][s] = hdr[q][s]
  BY <1>1, <1>3, <1>5
<1>7. /\ pc'[c] = "idle"
      /\ \A d \in Cpus : d # c => pc'[d] = pc[d] /\ call'[d] = call[d]
  BY <1>1 DEF SpaceInv, RingTypeOK
<1> HIDE DEF h, p
<1>8. LayoutInv' /\ ConsumerBehind' /\ ExactlyOnceInOrder'
  BY <1>1 DEF LayoutInv, After, ConsumerBehind, ExactlyOnceInOrder
<1>9. HeldInv'
  <2>1. \A d \in Cpus : pc'[d] = "submit" =>
          d # c /\ pc[d] = "submit" /\ call'[d] = call[d]
    BY <1>7
  <2>2. QED
    BY <1>1, <2>1 DEF HeldInv, Holds
<1>10. ASSUME NEW q \in Rings, NEW s \in Nat, s \in Positions,
              consumer_pos[q] <= s, s <= producer_pos[q], q # r \/ s # p
       PROVE  hdr'[q][Offset(s)] = hdr[q][Offset(s)]
  <2>1. Offset(s) \in Slots
    BY <1>10, OffsetInSlots
  <2>2. q = r => Offset(s) # Offset(p)
    <3>1. SUFFICES ASSUME q = r PROVE Offset(s) # Offset(p)
      OBVIOUS
    <3>2. s # p /\ p <= producer_pos[r]
      BY <3>1, <1>10, <1>3, PositionTypes
    <3>3. QED
      BY <3>1, <3>2, <1>3, <1>10, SlotsApart
  <2>3. QED
    BY <2>1, <2>2, <1>3, <1>6
<1>11. WrittenInv'
  <2> SUFFICES ASSUME NEW d \in Cpus, pc'[d] = "publish"
      PROVE  hdr'[call'[d].rb][Offset(producer_pos[call'[d].rb])] =
               call'[d].size + BPF_RINGBUF_BUSY_BIT
    BY <1>1 DEF WrittenInv
  <2>1. pc[d] = "publish" /\ call'[d] = call[d] /\ call[d].rb \in Rings
    BY <1>7 DEF SpaceInv, CallInv
  <2> DEFINE q == call[d].rb
  <2>2. hdr[q][Offset(producer_pos[q])] = call[d].size + BPF_RINGBUF_BUSY_BIT
    BY <2>1 DEF WrittenInv
  <2> HIDE DEF q
  <2>3. /\ producer_pos[q] \in Nat /\ producer_pos[q] \in Positions
        /\ consumer_pos[q] <= producer_pos[q]
        /\ q # r \/ producer_pos[q] # p
    <3>1. q \in Rings
      BY <2>1 DEF q
    <3>2. /\ producer_pos[q] \in Nat /\ producer_pos[q] \in Positions
          /\ consumer_pos[q] \in Nat /\ cons_pos[q] \in Nat
      BY <3>1, PositionTypes
    <3>3. consumer_pos[q] <= cons_pos[q] /\ cons_pos[q] <= producer_pos[q]
      BY <3>1 DEF ConsumerBehind
    <3>4. q = r => producer_pos[q] # p
      BY <3>2, <1>3
    <3>5. QED
      BY <3>2, <3>3, <3>4
  <2>4. producer_pos[q] <= producer_pos[q]
    BY <2>3
  <2>5. hdr'[q][Offset(producer_pos[q])] = hdr[q][Offset(producer_pos[q])]
    BY <2>1, <2>3, <2>4, <1>10 DEF q
  <2>6. QED
    BY <2>1, <2>2, <2>5 DEF q
<1>12. HeadersIntact'
  <2> SUFFICES ASSUME NEW q \in Rings, NEW i \in 1 .. Len(reserved[q]),
                      reserved[q][i].pos >= consumer_pos[q]
      PROVE  hdr'[q][Offset(reserved[q][i].pos)] = reserved[q][i].len +
               (IF InFlight(q, reserved[q][i].pos)'
                THEN BPF_RINGBUF_BUSY_BIT ELSE 0)
    <3>1. \A q \in Rings : DOMAIN reserved[q] = 1 .. Len(reserved[q])
      BY RecordTypes
    <3>2. QED
      BY <1>1, <3>1 DEF HeadersIntact, InFlight
  <2> DEFINE s == reserved[q][i].pos
  <2>1. /\ s \in Nat /\ s \in Positions /\ s < producer_pos[q]
        /\ reserved[q][i].len \in Nat /\ i \in DOMAIN reserved[q]
    BY RecordTypes, LayoutFacts
  <2>2. CASE q = r /\ i = k
    <3>1. ~ \E d \in Cpus : /\ pc'[d] = "submit" /\ call'[d].rb = r
                            /\ call'[d].event = p
      BY <1>1, <1>3, <1>7 DEF HeldInv
    <3>2. ~ InFlight(q, s)'
      BY <3>1, <2>2, <1>1 DEF InFlight, p
    <3>3. hdr'[q][Offset(s)] = reserved[q][i].len
      BY <2>2, <1>3, <1>4, <1>6 DEF p
    <3>4. QED
      BY <3>2, <3>3, <2>1, <1>1
  <2>3. CASE ~(q = r /\ i = k)
    <3>1. q # r \/ s # p
      BY <2>3, <1>3, LayoutFacts DEF p
    <3>2. InFlight(q, s)' <=> InFlight(q, s)
      BY <3>1, <1>1, <1>3, <1>7 DEF InFlight
    <3>3. s <= producer_pos[q]
      BY <2>1, PositionTypes
    <3>4. hdr'[q][Offset(s)] = hdr[q][Offset(s)]
      BY <3>1, <3>3, <2>1, <1>10
    <3>5. hdr[q][Offset(s)] = reserved[q][i].len +
            (IF InFlight(q, s) THEN BPF_RINGBUF_BUSY_BIT ELSE 0)
      BY <2>1 DEF HeadersIntact
    <3>6. QED
      BY <3>2, <3>4, <3>5
  <2>4. QED
    BY <2>2, <2>3
<1>13. QED
  BY <1>8, <1>9, <1>11, <1>12

(* Every step of a helper keeps what is said of records.                   *)
LEMMA HelperRecord ==
  ASSUME SpaceInv, RecordInv, NEW c \in Cpus, HelperStep(c), UNCHANGED userVars
  PROVE  RecordInv'
BY ReserveLoadRecord, ReserveFullRecord, ReserveHeaderRecord,
   ReservePublishRecord, SubmitRecord DEF HelperStep

-----------------------------------------------------------------------------
(* What userspace does to a ring, whatever its loop is.                    *)

(* It looks at most, and learns of no more than was published.             *)
Looks ==
  /\ UNCHANGED <<consumer_pos, cons_pos, taken>>
  /\ prod_pos' \in [Rings -> Positions]
  /\ \A r \in Rings : prod_pos'[r] <= producer_pos[r]

(* It takes the record under its cursor, which is not busy.                *)
Takes(r) ==
  /\ sig = "none"
  /\ cons_pos[r] < prod_pos[r]
  /\ ~Busy(r)
  /\ StepOver(r)
  /\ UNCHANGED <<consumer_pos, prod_pos>>

(* It gives back all that it has read.                                     *)
GivesBack(r) ==
  /\ sig = "none"
  /\ consumer_pos' = [consumer_pos EXCEPT ![r] = cons_pos[r]]
  /\ UNCHANGED <<cons_pos, prod_pos, taken>>

(* Rings just created: no records.                                         *)
LEMMA InitRecord ==
  ASSUME RingInit, UserInit
  PROVE  RecordInv
<1> USE DEF RingInit, UserInit
<1>1. LayoutInv
  <2>1. \A r \in Rings : reserved[r] = <<>> /\ producer_pos[r] = 0
    OBVIOUS
  <2>2. QED
    BY <2>1 DEF LayoutInv
<1>2. WrittenInv
  BY DEF WrittenInv
<1>3. HeldInv
  BY DEF HeldInv
<1>4. ConsumerBehind
  BY DEF ConsumerBehind
<1>5. HeadersIntact
  BY DEF HeadersIntact
<1>6. ExactlyOnceInOrder
  BY DEF ExactlyOnceInOrder
<1>7. QED
  BY <1>1, <1>2, <1>3, <1>4, <1>5, <1>6 DEF RecordInv

(* The record userspace takes is the next one, under a header without any  *)
(* flag; the cursor moves to where the one after it begins.                *)
LEMMA TakeFacts ==
  ASSUME SpaceInv, RecordInv, NEW r \in Rings, Takes(r)
  PROVE  LET t == Len(taken[r])
             e == reserved[r][t + 1]
         IN  /\ t + 1 \in 1 .. Len(reserved[r])
             /\ cons_pos[r] = e.pos
             /\ ~InFlight(r, e.pos) /\ ~Discarded(r)
             /\ cons_pos' = [cons_pos EXCEPT ![r] = After(e)]
             /\ After(e) \in Positions
             /\ sample' = [ring |-> r, pos |-> e.pos]
             /\ taken' = [taken EXCEPT ![r] = Append(taken[r], e.pos)]
<1> USE DEF RecordInv, Takes
<1> DEFINE t == Len(taken[r])
           n == Len(reserved[r])
           e == reserved[r][t + 1]
<1>1. /\ t \in Nat /\ n \in Nat /\ cons_pos[r] \in Nat /\ consumer_pos[r] \in Nat
      /\ prod_pos[r] \in Nat /\ producer_pos[r] \in Nat
      /\ DOMAIN reserved[r] = 1 .. n
  BY RecordTypes, PositionTypes
<1>2. t + 1 \in 1 .. n /\ cons_pos[r] = e.pos
  <2>1. cons_pos[r] < producer_pos[r]
    BY <1>1 DEF ConsumerBehind
  <2>2. /\ t <= n
        /\ cons_pos[r] = IF t < n THEN e.pos ELSE producer_pos[r]
    BY DEF ExactlyOnceInOrder
  <2>3. QED
    BY <1>1, <2>1, <2>2
<1>3. /\ e.pos \in Nat /\ e.pos \in Positions
      /\ e.len \in Payloads /\ e.len \in Nat /\ e.len < BPF_RINGBUF_DISCARD_BIT
  BY <1>2, RecordTypes, RingAssumption
<1>4. HeaderAt(r) =
        e.len + (IF InFlight(r, e.pos) THEN BPF_RINGBUF_BUSY_BIT ELSE 0)
  <2>1. e.pos >= consumer_pos[r]
    BY <1>1, <1>2 DEF ConsumerBehind
  <2>2. t + 1 \in DOMAIN reserved[r]
    BY <1>1, <1>2
  <2>3. hdr[r][Offset(e.pos)] =
          e.len + (IF InFlight(r, e.pos) THEN BPF_RINGBUF_BUSY_BIT ELSE 0)
    BY <2>1, <2>2 DEF HeadersIntact
  <2>4. QED
    BY <1>2, <2>3 DEF HeaderAt
<1> HIDE DEF e
<1>5. ~InFlight(r, e.pos)
  BY <1>3, <1>4, HeaderBits DEF Busy
<1>6. HeaderAt(r) = e.len
  BY <1>3, <1>4, <1>5
<1>7. ~Discarded(r)
  BY <1>3, <1>6, HeaderBits DEF Discarded
<1>8. roundup_len(HeaderAt(r)) = RecordLen(e.len)
  <2>1. 0 \in 0 .. 3 /\ e.len + 0 * BPF_RINGBUF_DISCARD_BIT = e.len
    BY <1>3, RingAssumption
  <2>2. roundup_len(e.len + 0 * BPF_RINGBUF_DISCARD_BIT) = RecordLen(e.len)
    BY <1>3, <2>1, RoundupAgrees
  <2>3. QED
    BY <1>6, <2>1, <2>2
<1>9. cons_pos' = [cons_pos EXCEPT ![r] = After(e)]
  BY <1>2, <1>8 DEF StepOver, After, e
<1>10. After(e) \in Positions
  BY <1>3, RecordLenFacts, PositionsAdd DEF After
<1>11. /\ sample' = [ring |-> r, pos |-> e.pos]
       /\ taken' = [taken EXCEPT ![r] = Append(taken[r], e.pos)]
  BY <1>2, <1>7 DEF StepOver, e
<1>12. QED
  BY <1>2, <1>5, <1>7, <1>9, <1>10, <1>11 DEF e

(* Taking a record keeps what is said of records.                          *)
LEMMA TakeRecords ==
  ASSUME SpaceInv, RecordInv, UserFrame, NEW r \in Rings, Takes(r)
  PROVE  RecordInv'
<1> USE DEF RecordInv, UserFrame, cpuVars
<1> DEFINE t == Len(taken[r])
           n == Len(reserved[r])
           e == reserved[r][t + 1]
<1>1. /\ t + 1 \in 1 .. n /\ cons_pos[r] = e.pos /\ ~InFlight(r, e.pos)
      /\ cons_pos' = [cons_pos EXCEPT ![r] = After(e)]
      /\ taken' = [taken EXCEPT ![r] = Append(taken[r], e.pos)]
  BY TakeFacts
<1>2. /\ t \in Nat /\ n \in Nat /\ e.pos \in Positions /\ e.pos \in Nat
      /\ taken \in [Rings -> Seq(Positions)]
      /\ cons_pos \in [Rings -> Positions]
      /\ consumer_pos[r] \in Nat /\ producer_pos[r] \in Nat
      /\ After(e) \in Nat /\ e.pos < After(e) /\ After(e) <= producer_pos[r]
  BY <1>1, RecordTypes, PositionTypes, LayoutFacts DEF SpaceInv, UserTypeOK
<1> HIDE DEF e
<1>3. /\ Len(taken'[r]) = t + 1
      /\ \A i \in 1 .. t : taken'[r][i] = taken[r][i]
      /\ taken'[r][t + 1] = e.pos
      /\ cons_pos'[r] = After(e)
      /\ \A q \in Rings \ {r} : taken'[q] = taken[q] /\ cons_pos'[q] = cons_pos[q]
  <2>1. taken[r] \in Seq(Positions) /\ taken'[r] = Append(taken[r], e.pos)
    BY <1>1, <1>2
  <2>2. QED
    BY <2>1, <1>1, <1>2
<1>4. LayoutInv' /\ WrittenInv'
  BY DEF LayoutInv, WrittenInv, After
<1>5. HeadersIntact'
  BY DEF HeadersIntact, InFlight, Takes
<1>6. ConsumerBehind'
  <2> SUFFICES ASSUME NEW q \in Rings
      PROVE  /\ consumer_pos[q] <= cons_pos'[q]
             /\ cons_pos'[q] <= producer_pos[q]
             /\ prod_pos[q] <= producer_pos[q]
    BY DEF ConsumerBehind, Takes
  <2>1. CASE q = r
    BY <2>1, <1>1, <1>2, <1>3 DEF ConsumerBehind
  <2>2. CASE q # r
    BY <2>2, <1>3 DEF ConsumerBehind
  <2>3. QED
    BY <2>1, <2>2
<1>7. ExactlyOnceInOrder'
  <2> SUFFICES ASSUME NEW q \in Rings
      PROVE  LET k == Len(taken'[q])
             IN  /\ k <= Len(reserved[q])
                 /\ \A i \in 1 .. k : taken'[q][i] = reserved[q][i].pos
                 /\ cons_pos'[q] = IF k < Len(reserved[q])
                                   THEN reserved[q][k + 1].pos
                                   ELSE producer_pos[q]
    BY DEF ExactlyOnceInOrder
  <2>1. CASE q # r
    BY <2>1, <1>3 DEF ExactlyOnceInOrder
  <2>2. CASE q = r
    <3>1. t + 1 <= n
      BY <1>1, <1>2
    <3>2. \A i \in 1 .. t + 1 : taken'[r][i] = reserved[r][i].pos
      <4>1. \A i \in 1 .. t : taken[r][i] = reserved[r][i].pos
        BY DEF ExactlyOnceInOrder
      <4>2. \A i \in 1 .. t + 1 : i \in 1 .. t \/ i = t + 1
        BY <1>2
      <4>3. QED
        BY <4>1, <4>2, <1>3 DEF e
    <3>3. After(e) = IF t + 1 < n THEN reserved[r][(t + 1) + 1].pos
                                  ELSE producer_pos[r]
      BY <1>1 DEF LayoutInv, e
    <3>4. QED
      BY <2>2, <3>1, <3>2, <3>3, <1>3
  <2>3. QED
    BY <2>1, <2>2
<1>8. HeldInv'
  <2>1. ASSUME NEW d \in Cpus, pc[d] = "submit"
        PROVE  \E i \in 1 .. Len(reserved[call[d].rb]) :
                 i > Len(taken'[call[d].rb]) /\ Holds(d, call[d].rb, i)
    <3> DEFINE q == call[d].rb
    <3>1. q \in Rings
      BY <2>1 DEF SpaceInv, CallInv
    <3>2. PICK i \in 1 .. Len(reserved[q]) : i > Len(taken[q]) /\ Holds(d, q, i)
      BY <2>1 DEF HeldInv
    <3>3. i > Len(taken'[q])
      <4>1. CASE q # r
        BY <4>1, <3>1, <3>2, <1>3
      <4>2. CASE q = r
        <5>1. i # t + 1
          BY <4>2, <3>2, <1>1 DEF Holds, InFlight, e
        <5>2. i \in Nat /\ i > t
          BY <4>2, <3>2, <1>2
        <5>3. QED
          BY <4>2, <5>1, <5>2, <1>2, <1>3
      <4>3. QED
        BY <4>1, <4>2
    <3>4. QED
      BY <3>2, <3>3
  <2>2. QED
    BY <2>1 DEF HeldInv, Holds
<1>9. QED
  BY <1>4, <1>5, <1>6, <1>7, <1>8

(* Looking, and giving back, keep it too.                                  *)
LEMMA LookRecords ==
  ASSUME SpaceInv, RecordInv, UserFrame, Looks
  PROVE  RecordInv'
<1> USE DEF RecordInv, UserFrame, cpuVars, Looks
<1>1. LayoutInv' /\ WrittenInv' /\ HeldInv'
  BY DEF LayoutInv, WrittenInv, HeldInv, Holds, After
<1>2. HeadersIntact' /\ ExactlyOnceInOrder'
  BY DEF HeadersIntact, InFlight, ExactlyOnceInOrder
<1>3. ConsumerBehind'
  BY DEF ConsumerBehind
<1>4. QED
  BY <1>1, <1>2, <1>3

LEMMA GiveBackRecords ==
  ASSUME SpaceInv, RecordInv, UserFrame, NEW r \in Rings, GivesBack(r)
  PROVE  RecordInv'
<1> USE DEF RecordInv, UserFrame, cpuVars, GivesBack
<1>1. LayoutInv' /\ WrittenInv' /\ HeldInv' /\ ExactlyOnceInOrder'
  BY DEF LayoutInv, WrittenInv, HeldInv, Holds, After, ExactlyOnceInOrder
<1>2. \A q \in Rings : /\ consumer_pos[q] <= consumer_pos'[q]
                       /\ consumer_pos'[q] <= cons_pos[q]
                       /\ consumer_pos'[q] \in Nat
  <2>1. ASSUME NEW q \in Rings
        PROVE  consumer_pos'[q] = IF q = r THEN cons_pos[q] ELSE consumer_pos[q]
    BY DEF SpaceInv, RingTypeOK
  <2>2. ASSUME NEW q \in Rings
        PROVE  /\ consumer_pos[q] \in Nat /\ cons_pos[q] \in Nat
               /\ consumer_pos[q] <= cons_pos[q]
    BY PositionTypes DEF ConsumerBehind
  <2>3. QED
    BY <2>1, <2>2
<1>3. HeadersIntact'
  <2> SUFFICES ASSUME NEW q \in Rings, NEW i \in DOMAIN reserved[q],
                      reserved[q][i].pos >= consumer_pos'[q]
      PROVE  hdr[q][Offset(reserved[q][i].pos)] = reserved[q][i].len +
        (IF InFlight(q, reserved[q][i].pos) THEN BPF_RINGBUF_BUSY_BIT ELSE 0)
    BY DEF HeadersIntact, InFlight
  <2>1. i \in 1 .. Len(reserved[q])
    BY RecordTypes
  <2>2. reserved[q][i].pos >= consumer_pos[q]
    BY <1>2, <2>1, RecordTypes, PositionTypes
  <2>3. QED
    BY <2>2 DEF HeadersIntact
<1>4. ConsumerBehind'
  BY <1>2 DEF ConsumerBehind
<1>5. QED
  BY <1>1, <1>3, <1>4

(* What the invariant says of the records that were handed out, and of the *)
(* lengths userspace computes.                                             *)
LEMMA RecordInvOnlyCommitted == SpaceInv /\ RecordInv => OnlyCommitted
<1> SUFFICES ASSUME SpaceInv, RecordInv, NEW r \in Rings,
                    NEW i \in DOMAIN taken[r], InFlight(r, taken[r][i])
             PROVE  FALSE
  BY DEF OnlyCommitted
<1> USE DEF RecordInv
<1>1. PICK c \in Cpus : /\ pc[c] = "submit" /\ call[c].rb = r
                        /\ call[c].event = taken[r][i]
  BY DEF InFlight
<1>2. PICK j \in 1 .. Len(reserved[r]) : j > Len(taken[r]) /\ Holds(c, r, j)
  BY <1>1 DEF HeldInv
<1>3. /\ i \in 1 .. Len(taken[r]) /\ Len(taken[r]) \in Nat
      /\ Len(taken[r]) <= Len(reserved[r]) /\ Len(reserved[r]) \in Nat
      /\ taken[r][i] = reserved[r][i].pos
  BY PositionTypes, RecordTypes DEF ExactlyOnceInOrder
<1>4. i \in 1 .. Len(reserved[r]) /\ i # j
  BY <1>2, <1>3
<1>5. reserved[r][j].pos = reserved[r][i].pos
  BY <1>1, <1>2, <1>3 DEF Holds
<1>6. QED
  BY <1>4, <1>5, LayoutFacts

LEMMA RecordInvLengthsAgree == SpaceInv /\ RecordInv => LengthsAgree
<1> SUFFICES ASSUME SpaceInv, RecordInv, NEW r \in Rings,
                    NEW i \in DOMAIN reserved[r],
                    reserved[r][i].pos >= consumer_pos[r]
      PROVE  roundup_len(hdr[r][Offset(reserved[r][i].pos)])
               = RecordLen(reserved[r][i].len)
  BY DEF LengthsAgree
<1> DEFINE e == reserved[r][i]
           f == IF InFlight(r, e.pos) THEN 2 ELSE 0
<1>1. e.len \in Nat /\ e.len < BPF_RINGBUF_DISCARD_BIT
  BY RecordTypes, RingAssumption
<1>2. hdr[r][Offset(e.pos)] =
        e.len + (IF InFlight(r, e.pos) THEN BPF_RINGBUF_BUSY_BIT ELSE 0)
  BY DEF RecordInv, HeadersIntact
<1>3. /\ f \in 0 .. 3
      /\ (IF InFlight(r, e.pos) THEN BPF_RINGBUF_BUSY_BIT ELSE 0)
           = f * BPF_RINGBUF_DISCARD_BIT
  BY RingAssumption DEF BPF_RINGBUF_BUSY_BIT
<1> HIDE DEF e, f
<1>4. roundup_len(e.len + f * BPF_RINGBUF_DISCARD_BIT) = RecordLen(e.len)
  BY <1>1, <1>3, RoundupAgrees
<1>5. QED
  BY <1>2, <1>3, <1>4 DEF e

-----------------------------------------------------------------------------
(* The rings as the channels of EventChannel.                              *)

(* The log of a channel has an entry for every record.                     *)
Entry == [at : Nat, size : Nat, ready : BOOLEAN]

LEMMA LogFacts ==
  ASSUME SpaceInv, NEW r \in Rings
  PROVE  /\ Log[r] \in Seq(Entry)
         /\ Len(Log[r]) = Len(reserved[r])
         /\ DOMAIN Log[r] = 1 .. Len(reserved[r])
         /\ \A i \in 1 .. Len(reserved[r]) :
              /\ Log[r][i].at    = reserved[r][i].pos
              /\ Log[r][i].size  = RecordLen(reserved[r][i].len)
              /\ Log[r][i].ready = ~InFlight(r, reserved[r][i].pos)
              /\ Channel!Behind(Log[r][i]) = After(reserved[r][i])
<1> DEFINE n == Len(reserved[r])
           e(i) == [at    |-> reserved[r][i].pos,
                    size  |-> RecordLen(reserved[r][i].len),
                    ready |-> ~InFlight(r, reserved[r][i].pos)]
<1>1. n \in Nat /\ DOMAIN reserved[r] = 1 .. n
  BY RecordTypes
<1>2. Log[r] = [i \in 1 .. n |-> e(i)]
  BY <1>1 DEF Log
<1>3. ASSUME NEW i \in 1 .. n
      PROVE  e(i) \in Entry
  <2>1. RecordLen(reserved[r][i].len) \in Nat /\ reserved[r][i].pos \in Nat
    BY RecordTypes, RecordLenNat
  <2>2. InFlight(r, reserved[r][i].pos) \in BOOLEAN
    BY DEF InFlight
  <2>3. QED
    BY <2>1, <2>2 DEF Entry
<1>4. ASSUME NEW i \in 1 .. n
      PROVE  /\ Log[r][i].at    = reserved[r][i].pos
             /\ Log[r][i].size  = RecordLen(reserved[r][i].len)
             /\ Log[r][i].ready = ~InFlight(r, reserved[r][i].pos)
  BY <1>2
<1>5. ASSUME NEW i \in 1 .. n
      PROVE  Channel!Behind(Log[r][i]) = After(reserved[r][i])
  BY <1>4 DEF Channel!Behind, After
<1> HIDE DEF e
<1>6. Log[r] \in [1 .. n -> Entry] /\ DOMAIN Log[r] = 1 .. n
  BY <1>2, <1>3
<1>7. Log[r] \in Seq(Entry)
  BY <1>1, <1>6, SeqDef
<1>8. Len(Log[r]) = n
  BY <1>1, <1>6, <1>7
<1>9. QED
  BY <1>4, <1>5, <1>6, <1>7, <1>8

(* Steps a channel does not see.                                           *)
LEMMA Unseen ==
  ASSUME SpaceInv, UNCHANGED <<reserved, taken, consumer_pos>>,
         \A r \in Rings : \A pos : InFlight(r, pos)' <=> InFlight(r, pos),
         sig' # "none" <=> sig # "none"
  PROVE  UNCHANGED Channel!vars
<1>1. Log' = Log
  BY DEF Log
<1>2. (sig # "none")' = (sig # "none")
  OBVIOUS
<1>3. QED
  BY <1>1, <1>2 DEF Channel!vars

LEMMA HoldersUnseen ==
  ASSUME SpaceInv, HoldersStay, UNCHANGED <<reserved, taken, consumer_pos>>,
         sig' = sig
  PROVE  UNCHANGED Channel!vars
<1>1. \A r \in Rings : \A pos : InFlight(r, pos)' <=> InFlight(r, pos)
  BY DEF HoldersStay, InFlight
<1>2. QED
  BY <1>1, Unseen

(* A channel ends where its ring does.                                      *)
LEMMA LogEnd ==
  ASSUME SpaceInv, LayoutInv, NEW r \in Rings
  PROVE  Channel!End(r) = producer_pos[r]
<1> DEFINE n == Len(reserved[r])
<1>1. /\ Len(Log[r]) = n /\ Log[r] \in Seq(Entry) /\ n \in Nat
      /\ \A i \in 1 .. n : Channel!Behind(Log[r][i]) = After(reserved[r][i])
  BY LogFacts, RecordTypes
<1>2. CASE n = 0
  <2>1. Log[r] = <<>>
    BY <1>1, <1>2
  <2>2. producer_pos[r] = 0
    BY <1>2 DEF LayoutInv
  <2>3. QED
    BY <2>1, <2>2 DEF Channel!End
<1>3. CASE n # 0
  <2>1. Log[r] # <<>>
    BY <1>1, <1>3
  <2>2. n \in 1 .. n /\ ~(n < n)
    BY <1>1, <1>3
  <2>3. After(reserved[r][n]) = producer_pos[r]
    BY <2>2 DEF LayoutInv
  <2>4. QED
    BY <1>1, <2>1, <2>2, <2>3 DEF Channel!End
<1>4. QED
  BY <1>2, <1>3

(* Publishing a record writes it to its channel.                           *)
LEMMA PublishWrites ==
  ASSUME SpaceInv, RecordInv, NEW c \in Cpus, ReservePublish(c),
         UNCHANGED userVars
  PROVE  Channel!Write(call[c].rb)
<1> DEFINE r == call[c].rb
           e == [pos |-> producer_pos[r], len |-> call[c].size]
           n == Len(reserved[r])
           k == RecordLen(call[c].size)
           x == [at |-> Channel!End(r), size |-> k, ready |-> FALSE]
<1>1. /\ r \in Rings /\ e \in Record /\ call[c].size \in Nat
      /\ NewProd(c) \in Nat
      /\ Len(reserved'[r]) = n + 1
      /\ \A i \in 1 .. n : reserved'[r][i] = reserved[r][i]
      /\ reserved'[r][n + 1] = e
      /\ \A q \in Rings \ {r} : reserved'[q] = reserved[q]
      /\ DOMAIN reserved'[r] = 1 .. n + 1
  BY PublishFacts
<1>2. /\ UNCHANGED <<taken, consumer_pos, sig>> /\ pc[c] = "publish"
      /\ pc'[c] = "submit" /\ call'[c].rb = r
      /\ call'[c].event = producer_pos[r]
      /\ \A d \in Cpus : d # c => pc'[d] = pc[d] /\ call'[d] = call[d]
  BY DEF ReservePublish, Goto, userVars, sigVars, loopVars, SpaceInv, RingTypeOK
<1>3. /\ n \in Nat /\ producer_pos[r] \in Nat /\ consumer_pos[r] \in Nat
      /\ k \in Nat /\ mask \in Nat
      /\ \A i \in 1 .. n : /\ reserved[r][i].pos \in Nat
                           /\ reserved[r][i].pos < producer_pos[r]
  BY <1>1, RecordTypes, LayoutFacts, PositionTypes, RecordLenNat DEF RecordInv
<1>4. Channel!End(r) = producer_pos[r]
  BY <1>1, LogEnd DEF RecordInv
<1>5. k \in {RecordLen(m) : m \in Payloads}
  BY DEF ReservePublish, SpaceInv, CallInv
<1>6. Channel!End(r) + k - consumer_pos[r] <= mask
  <2>1. NewProd(c) - call[c].cons <= mask /\ call[c].cons <= consumer_pos[r]
    BY <1>2 DEF SpaceInv, RoomInv, HasRoom
  <2>2. NewProd(c) = producer_pos[r] + k
    BY DEF NewProd
  <2>3. call[c].cons \in Nat
    BY DEF SpaceInv, RingTypeOK, Positions
  <2>4. QED
    BY <1>1, <1>3, <1>4, <2>1, <2>2, <2>3
<1>7. Log' = [Log EXCEPT ![r] = Append(Log[r], x)]
  <2> DEFINE Held(q, p) == \E d \in Cpus :
               pc'[d] = "submit" /\ call'[d].rb = q /\ call'[d].event = p
             y(q, i) == [at    |-> reserved'[q][i].pos,
                         size  |-> RecordLen(reserved'[q][i].len),
                         ready |-> ~Held(q, reserved'[q][i].pos)]
  <2>1. Log' = [q \in Rings |-> [i \in DOMAIN reserved'[q] |-> y(q, i)]]
    BY DEF Log, InFlight
  <2>2. ASSUME NEW q \in Rings, NEW p, q # r \/ p # producer_pos[r]
        PROVE  Held(q, p) <=> InFlight(q, p)
    BY <2>2, <1>2 DEF InFlight
  <2>3. ASSUME NEW q \in Rings, q # r
        PROVE  [i \in DOMAIN reserved'[q] |-> y(q, i)] = Log[q]
    BY <2>2, <2>3, <1>1 DEF Log
  <2>4. [i \in DOMAIN reserved'[r] |-> y(r, i)] = Append(Log[r], x)
    <3>1. /\ Len(Log[r]) = n /\ Log[r] \in Seq(Entry)
          /\ DOMAIN Log[r] = 1 .. n /\ DOMAIN reserved[r] = 1 .. n
      BY <1>1, LogFacts, RecordTypes
    <3>2. x \in Entry
      BY <1>3, <1>4 DEF Entry
    <3> HIDE DEF x, y, Held
    <3>3. /\ Append(Log[r], x) \in Seq(Entry)
          /\ Len(Append(Log[r], x)) = n + 1
          /\ \A i \in 1 .. n : Append(Log[r], x)[i] = Log[r][i]
          /\ Append(Log[r], x)[n + 1] = x
          /\ DOMAIN Append(Log[r], x) = 1 .. n + 1
      BY <3>1, <3>2
    <3>4. ASSUME NEW i \in 1 .. n
          PROVE  y(r, i) = Log[r][i]
      <4>1. reserved[r][i].pos # producer_pos[r]
        BY <1>3
      <4>2. Held(r, reserved[r][i].pos) <=> InFlight(r, reserved[r][i].pos)
        BY <4>1, <1>1, <2>2
      <4>3. y(r, i) = [at    |-> reserved[r][i].pos,
                       size  |-> RecordLen(reserved[r][i].len),
                       ready |-> ~InFlight(r, reserved[r][i].pos)]
        BY <4>2, <1>1 DEF y
      <4>4. QED
        BY <4>3, <3>1, <1>1 DEF Log
    <3>5. y(r, n + 1) = x
      <4>1. Held(r, producer_pos[r])
        BY <1>2 DEF Held
      <4>2. e.pos = producer_pos[r] /\ e.len = call[c].size
        OBVIOUS
      <4> HIDE DEF e
      <4>3. QED
        BY <4>1, <4>2, <1>1, <1>4 DEF x, y
    <3>6. ASSUME NEW i \in 1 .. n + 1
          PROVE  y(r, i) = Append(Log[r], x)[i]
      BY <3>3, <3>4, <3>5, <1>3
    <3>7. [i \in 1 .. n + 1 |-> y(r, i)] =
            [i \in 1 .. n + 1 |-> Append(Log[r], x)[i]]
      BY <3>6
    <3>8. QED
      BY <1>1, <3>3, <3>7
  <2> DEFINE g(q) == [i \in DOMAIN reserved'[q] |-> y(q, i)]
  <2>5. g(r) = Append(Log[r], x)
    BY <2>4
  <2>a. \A q \in Rings : q # r => g(q) = Log[q]
    BY <2>3
  <2>6. Log' = [q \in Rings |-> g(q)]
    BY <2>1
  <2>7. DOMAIN Log = Rings
    BY DEF Log
  <2> HIDE DEF g, x
  <2>8. Log' = [q \in Rings |-> IF q = r THEN Append(Log[r], x) ELSE Log[q]]
    BY <2>5, <2>a, <2>6
  <2>9. QED
    BY <2>7, <2>8, <1>1
<1>8. QED
  BY <1>2, <1>5, <1>6, <1>7 DEF Channel!Write

(* Submitting a record finishes it in its channel.                         *)
LEMMA SubmitFinishes ==
  ASSUME SpaceInv, RecordInv, NEW c \in Cpus, Submit(c), UNCHANGED userVars
  PROVE  Channel!Finish(call[c].rb)
<1> USE DEF RecordInv
<1> DEFINE r == call[c].rb
<1>1. /\ pc[c] = "submit" /\ pc' = [pc EXCEPT ![c] = "idle"]
      /\ call' = [call EXCEPT ![c] = NoCall]
      /\ UNCHANGED <<reserved, taken, consumer_pos, sig>>
  BY DEF Submit, Goto, userVars, loopVars, sigVars
<1>2. PICK k \in 1 .. Len(reserved[r]) : Holds(c, r, k)
  BY <1>1, SubmitFacts
<1> DEFINE p == reserved[r][k].pos
<1>3. /\ r \in Rings /\ call[c].event = p /\ DOMAIN Log[r] = 1 .. Len(reserved[r])
      /\ DOMAIN reserved[r] = 1 .. Len(reserved[r])
  BY <1>1, <1>2, SubmitFacts, RecordTypes, LogFacts DEF Holds
<1>4. /\ pc'[c] = "idle"
      /\ \A d \in Cpus : d # c => pc'[d] = pc[d] /\ call'[d] = call[d]
  BY <1>1 DEF SpaceInv, RingTypeOK
<1> DEFINE Held(q, s) == \E d \in Cpus :
               pc'[d] = "submit" /\ call'[d].rb = q /\ call'[d].event = s
           y(q, i) == [at    |-> reserved[q][i].pos,
                       size  |-> RecordLen(reserved[q][i].len),
                       ready |-> ~Held(q, reserved[q][i].pos)]
           g(q) == [i \in DOMAIN reserved[q] |-> y(q, i)]
           x == [Log[r][k] EXCEPT !.ready = TRUE]
           L == [Log[r] EXCEPT ![k] = x]
<1>5. Log' = [q \in Rings |-> g(q)]
  BY <1>1 DEF Log, InFlight
<1>6. ~Log[r][k].ready
  BY <1>1, <1>2, <1>3, LogFacts DEF Holds, InFlight
<1>7. ASSUME NEW q \in Rings, NEW s, q # r \/ s # p
      PROVE  Held(q, s) <=> InFlight(q, s)
  BY <1>7, <1>1, <1>3, <1>4 DEF InFlight
<1>8. ~Held(r, p)
  BY <1>1, <1>3, <1>4 DEF HeldInv
<1> HIDE DEF Held
<1>9. \A q \in Rings : q # r => g(q) = Log[q]
  <2> SUFFICES ASSUME NEW q \in Rings, q # r PROVE g(q) = Log[q]
    OBVIOUS
  <2>1. \A i \in DOMAIN reserved[q] :
          Held(q, reserved[q][i].pos) <=> InFlight(q, reserved[q][i].pos)
    BY <1>7
  <2>2. QED
    BY <2>1 DEF Log
<1>10. g(r) = L
  <2>1. Log[r] = [i \in 1 .. Len(reserved[r]) |->
                    [at    |-> reserved[r][i].pos,
                     size  |-> RecordLen(reserved[r][i].len),
                     ready |-> ~InFlight(r, reserved[r][i].pos)]]
    BY <1>3 DEF Log
  <2>2. x = y(r, k)
    <3>1. (~Held(r, p)) = TRUE
      BY <1>8
    <3>2. Log[r][k] = [at    |-> p,
                       size  |-> RecordLen(reserved[r][k].len),
                       ready |-> ~InFlight(r, p)]
      BY <2>1
    <3>3. x = [at |-> p, size |-> RecordLen(reserved[r][k].len), ready |-> TRUE]
      <4>1. ASSUME NEW a, NEW b, NEW z, NEW u
            PROVE  [[at |-> a, size |-> b, ready |-> z] EXCEPT !.ready = u]
                     = [at |-> a, size |-> b, ready |-> u]
        OBVIOUS
      <4> DEFINE b == RecordLen(reserved[r][k].len)
                 z == ~InFlight(r, p)
      <4> HIDE DEF p, b, z
      <4>2. [[at |-> p, size |-> b, ready |-> z] EXCEPT !.ready = TRUE]
              = [at |-> p, size |-> b, ready |-> TRUE]
        BY <4>1, Zenon
      <4>3. x = [[at |-> p, size |-> b, ready |-> z] EXCEPT !.ready = TRUE]
        BY <3>2 DEF b, z
      <4>4. QED
        BY <4>2, <4>3 DEF b
    <3>4. QED
      BY <3>1, <3>3
  <2>3. ASSUME NEW i \in 1 .. Len(reserved[r]), i # k
        PROVE  Log[r][i] = y(r, i)
    <3>1. reserved[r][i].pos # p
      BY <1>3, <2>3, LayoutFacts
    <3>2. Held(r, reserved[r][i].pos) <=> InFlight(r, reserved[r][i].pos)
      BY <1>3, <1>7, <3>1
    <3>3. QED
      BY <2>1, <3>2
  <2> HIDE DEF x, y
  <2>4. \A i \in 1 .. Len(reserved[r]) : L[i] = y(r, i)
    BY <1>3, <2>2, <2>3
  <2>5. L = [i \in 1 .. Len(reserved[r]) |-> L[i]]
    BY <1>3
  <2> HIDE DEF L
  <2>6. QED
    BY <1>3, <2>4, <2>5
<1>11. DOMAIN Log = Rings
  BY DEF Log
<1> HIDE DEF g, L
<1>12. Log' = [Log EXCEPT ![r] = L]
  BY <1>3, <1>5, <1>9, <1>10, <1>11
<1>13. Log' = [Log EXCEPT ![r][k].ready = TRUE]
  BY <1>12 DEF L
<1>14. UNCHANGED <<taken, consumer_pos, sig # "none">>
  BY <1>1
<1>15. QED
  BY <1>3, <1>6, <1>13, <1>14 DEF Channel!Finish

(* A step of userspace keeps the log of every channel.                     *)
LEMMA UserLog ==
  ASSUME UserFrame
  PROVE  UNCHANGED Log
<1>1. \A r \in Rings : \A pos : InFlight(r, pos)' <=> InFlight(r, pos)
  BY DEF UserFrame, cpuVars, InFlight
<1>2. QED
  BY <1>1 DEF Log, UserFrame

(* Taking a record hands out the next one of the channel.                  *)
LEMMA TakeHands ==
  ASSUME SpaceInv, RecordInv, UserFrame, NEW r \in Rings, Takes(r), sig' = sig
  PROVE  Channel!Hand(r)
<1> DEFINE t == Len(taken[r])
           e == reserved[r][t + 1]
<1>1. /\ t + 1 \in 1 .. Len(reserved[r]) /\ ~InFlight(r, e.pos)
      /\ taken' = [taken EXCEPT ![r] = Append(taken[r], e.pos)]
  BY TakeFacts
<1>2. /\ t + 1 \in DOMAIN Log[r] /\ Log[r][t + 1].ready
      /\ Log[r][t + 1].at = e.pos
  BY <1>1, LogFacts
<1>3. UNCHANGED <<Log, consumer_pos, sig # "none">> /\ ~(sig # "none")
  BY UserLog DEF Takes
<1>4. QED
  BY <1>1, <1>2, <1>3 DEF Channel!Hand, Channel!CanHand, Channel!Next1

(* Storing consumer_pos gives back every record handed out, if any is left *)
(* to be given back.                                                       *)
LEMMA GiveBackGives ==
  ASSUME SpaceInv, RecordInv, UserFrame, NEW r \in Rings, GivesBack(r),
         sig' = sig
  PROVE  Channel!GiveBack(r) \/ UNCHANGED Channel!vars
<1> USE DEF RecordInv
<1> DEFINE t == Len(taken[r])
           n == Len(reserved[r])
<1>1. /\ t \in Nat /\ n \in Nat /\ DOMAIN taken[r] = 1 .. t
      /\ cons_pos[r] \in Nat /\ consumer_pos[r] \in Nat
      /\ consumer_pos \in [Rings -> Positions]
  BY RecordTypes, PositionTypes DEF SpaceInv, RingTypeOK
<1>2. /\ t <= n
      /\ cons_pos[r] = IF t < n THEN reserved[r][t + 1].pos ELSE producer_pos[r]
      /\ consumer_pos[r] <= cons_pos[r]
  BY DEF ExactlyOnceInOrder, ConsumerBehind
<1>3. UNCHANGED <<Log, taken, sig # "none">> /\ ~(sig # "none")
  BY UserLog DEF GivesBack
<1>4. CASE cons_pos[r] = consumer_pos[r]
  <2>1. consumer_pos' = consumer_pos
    BY <1>1, <1>4 DEF GivesBack
  <2>2. QED
    BY <1>3, <2>1 DEF Channel!vars
<1>5. CASE cons_pos[r] # consumer_pos[r]
  <2>1. t # 0
    <3>1. (IF n = 0 THEN producer_pos[r] ELSE reserved[r][1].pos) = 0
      BY DEF LayoutInv
    <3>2. t = 0 => cons_pos[r] = 0
      BY <1>1, <1>2, <3>1
    <3>3. QED
      BY <3>2, <1>1, <1>2, <1>5
  <2>2. t \in 1 .. t /\ t \in 1 .. n
    BY <2>1, <1>1, <1>2
  <2>3. After(reserved[r][t]) = cons_pos[r]
    BY <2>2, <1>1, <1>2 DEF LayoutInv
  <2>4. Channel!Behind(Log[r][t]) = cons_pos[r]
    BY <2>2, <2>3, LogFacts
  <2>5. cons_pos[r] > consumer_pos[r]
    BY <1>1, <1>2, <1>5
  <2>6. QED
    BY <1>1, <1>3, <2>2, <2>4, <2>5 DEF Channel!GiveBack, GivesBack
<1>6. QED
  BY <1>4, <1>5

(* The SIGINT stops all channels.                                          *)
LEMMA SignalStops ==
  ASSUME UserFrame, UNCHANGED <<consumer_pos, taken>>,
         sig = "none", sig' # "none"
  PROVE  Channel!Stop
<1>1. ~(sig # "none") /\ (sig # "none")' = TRUE
  OBVIOUS
<1>2. QED
  BY <1>1, UserLog DEF Channel!Stop

(* Rings just created are empty channels.                                  *)
LEMMA InitChannel ==
  ASSUME RingInit, UserInit
  PROVE  Channel!Init
<1>1. \A r \in Rings : reserved[r] = <<>>
  BY DEF RingInit
<1>2. \A r \in Rings : Log[r] = <<>>
  BY <1>1 DEF Log
<1>3. Log = [r \in Rings |-> <<>>]
  BY <1>2 DEF Log
<1>4. QED
  BY <1>3 DEF Channel!Init, RingInit, UserInit

-----------------------------------------------------------------------------
(* What each side does, and what that makes of the whole.                  *)
RingInv == SpaceInv /\ RecordInv

(* The type of the locals of a run.                                        *)
CallType == [rb : Rings \cup {NULL}, size : Payloads \cup {0},
             cons : Positions, event : Positions, old : Nat]

LEMMA NoCallType == NoCall \in CallType
BY DEF NoCall, CallType, Positions

(* Asking for a record, or skipping: the last thing before the helper.     *)
LEMMA UseRingMoves ==
  ASSUME RingTypeOK, NEW c \in Cpus, NEW rb \in Rings \cup {NULL},
         pc[c] # "publish", UseRing(c, rb),
         UNCHANGED <<ringVars, bss, userVars>>
  PROVE  \E l, k : ProgramMoves(c, l, k)
<1> USE DEF UseRing, Goto, bss
<1>1. CASE rb = NULL
  <2>1. call' = [call EXCEPT ![c] = call[c]] /\ call[c] \in CallType
    BY <1>1 DEF RingTypeOK, CallType
  <2>2. ProgramMoves(c, "skip", call[c])
    BY <1>1, <2>1 DEF ProgramMoves, CallType, Labels, RingTypeOK
  <2>3. QED
    BY <2>2
<1>2. CASE rb # NULL
  <2>1. PICK n \in Payloads : call' = [call EXCEPT ![c].rb = rb, ![c].size = n]
    BY <1>2
  <2> DEFINE k == [call[c] EXCEPT !.rb = rb, !.size = n]
  <2>2. call[c] \in CallType /\ call' = [call EXCEPT ![c] = k]
    BY <2>1 DEF RingTypeOK, CallType
  <2>3. k \in CallType /\ k.rb \in Rings /\ k.size \in Payloads
    BY <2>2, <1>2 DEF CallType
  <2> HIDE DEF k
  <2>4. ProgramMoves(c, "reserve", k)
    BY <1>2, <2>2, <2>3 DEF ProgramMoves, CallType, Labels, RingTypeOK
  <2>5. QED
    BY <2>4
<1>3. QED
  BY <1>1, <1>2

(* A record is written to its channel when it is published, and finished   *)
(* when it is submitted.                                                   *)
LEMMA HelperChannel ==
  ASSUME RingInv, NEW c \in Cpus, HelperStep(c), UNCHANGED userVars
  PROVE  [Channel!Next]_Channel!vars
<1> USE DEF RingInv
<1>1. CASE ReserveLoad(c) \/ ReserveFull(c)
  <2>1. HoldersStay
    BY <1>1 DEF ReserveLoad, ReserveFull, Goto, HoldersStay, SpaceInv, RingTypeOK
  <2>2. QED
    BY <1>1, <2>1, HoldersUnseen
       DEF ReserveLoad, ReserveFull, ringVars, userVars, loopVars, sigVars
<1>2. CASE ReserveHeader(c)
  <2>1. \A r \in Rings : \A pos : InFlight(r, pos)' <=> InFlight(r, pos)
    BY <1>2 DEF ReserveHeader, Goto, InFlight, SpaceInv, RingTypeOK
  <2>2. QED
    BY <1>2, <2>1, Unseen DEF ReserveHeader, userVars, loopVars, sigVars
<1>3. CASE ReservePublish(c)
  <2>1. Channel!Write(call[c].rb) /\ call[c].rb \in Rings
    BY <1>3, PublishWrites DEF ReservePublish, SpaceInv, CallInv
  <2>2. QED
    BY <2>1 DEF Channel!Next
<1>4. CASE Submit(c)
  <2>1. Channel!Finish(call[c].rb) /\ call[c].rb \in Rings
    BY <1>4, SubmitFinishes DEF Submit, SpaceInv, CallInv
  <2>2. QED
    BY <2>1 DEF Channel!Next
<1>5. QED
  BY <1>1, <1>2, <1>3, <1>4 DEF HelperStep

(* What a step of a userspace loop does to the positions: it looks, takes  *)
(* a record, or gives the space of records back.                           *)
UserActs ==
  \/ Looks
  \/ \E r \in Rings : Takes(r) /\ sig' = sig
  \/ \E r \in Rings : GivesBack(r) /\ sig' = sig

(* Looking and taking leave consumer_pos alone, and giving back moves it   *)
(* to what has been read.                                                  *)
LEMMA UserActsMove ==
  ASSUME RingInv, UserActs, UserTypeOK'
  PROVE  UserMoves /\ consumer_pos' \in [Rings -> Positions]
<1> USE DEF RingInv
<1>1. /\ consumer_pos \in [Rings -> Positions] /\ cons_pos \in [Rings -> Positions]
      /\ \A r \in Rings : /\ consumer_pos[r] \in Nat /\ cons_pos[r] \in Nat
                          /\ consumer_pos[r] <= cons_pos[r]
  BY PositionTypes DEF SpaceInv, RingTypeOK, UserTypeOK, BoundInv
<1>2. CASE Looks
  BY <1>1, <1>2 DEF Looks, UserMoves
<1>3. ASSUME NEW r \in Rings, Takes(r)
      PROVE  UserMoves /\ consumer_pos' \in [Rings -> Positions]
  <2> DEFINE e == reserved[r][Len(taken[r]) + 1]
  <2>1. /\ Len(taken[r]) + 1 \in 1 .. Len(reserved[r])
        /\ cons_pos[r] = e.pos
        /\ cons_pos' = [cons_pos EXCEPT ![r] = After(e)]
    BY <1>3, TakeFacts
  <2>2. After(e) \in Nat /\ e.pos < After(e)
    BY <2>1, RecordTypes
  <2> HIDE DEF e
  <2>3. \A q \in Rings : consumer_pos[q] <= cons_pos'[q]
    BY <1>1, <2>1, <2>2
  <2>4. QED
    BY <1>1, <1>3, <2>3 DEF Takes, UserMoves
<1>4. ASSUME NEW r \in Rings, GivesBack(r)
      PROVE  UserMoves /\ consumer_pos' \in [Rings -> Positions]
  BY <1>1, <1>4 DEF GivesBack, UserMoves
<1>5. QED
  BY <1>2, <1>3, <1>4 DEF UserActs

(* Facts of the state every step of userspace starts from.                 *)
LEMMA UserFacts ==
  ASSUME RingInv
  PROVE  /\ UserTypeOK /\ RingTypeOK
         /\ \A r \in Rings : prod_pos[r] <= producer_pos[r]
         /\ \A r \in Rings : producer_pos[r] <= producer_pos[r]
         /\ Positions \subseteq Nat
BY DEF RingInv, SpaceInv, RecordInv, ConsumerBehind, RingTypeOK, Positions

(* A step that leaves what both sides know of the rings alone.             *)
LEMMA StayActs ==
  ASSUME RingInv, UNCHANGED <<consumer_pos, cons_pos, prod_pos, taken,
                                 producer_pos>>
  PROVE  UserActs
BY UserFacts DEF UserActs, Looks, UserTypeOK

(* Taking a record keeps the types of what it changes.                     *)
LEMMA TakeTypes ==
  ASSUME RingInv, NEW r \in Rings, Takes(r)
  PROVE  /\ cons_pos' \in [Rings -> Positions]
         /\ sample' \in [ring : Rings, pos : Positions]
         /\ taken' \in [Rings -> Seq(Positions)]
         /\ sample' = [ring |-> r, pos |-> cons_pos[r]]
         /\ taken' = [taken EXCEPT ![r] = Append(taken[r], cons_pos[r])]
         /\ ~Discarded(r)
<1> USE DEF RingInv
<1> DEFINE e == reserved[r][Len(taken[r]) + 1]
<1>1. /\ Len(taken[r]) + 1 \in 1 .. Len(reserved[r])
      /\ cons_pos[r] = e.pos
      /\ cons_pos' = [cons_pos EXCEPT ![r] = After(e)]
      /\ After(e) \in Positions
      /\ sample' = [ring |-> r, pos |-> e.pos]
      /\ taken' = [taken EXCEPT ![r] = Append(taken[r], e.pos)]
      /\ ~Discarded(r)
  BY TakeFacts
<1>2. e.pos \in Positions
  BY <1>1, RecordTypes
<1> HIDE DEF e
<1>3. cons_pos' \in [Rings -> Positions]
  BY <1>1 DEF SpaceInv, UserTypeOK
<1>4. taken' \in [Rings -> Seq(Positions)]
  <2>1. taken \in [Rings -> Seq(Positions)]
    BY DEF SpaceInv, UserTypeOK
  <2>2. Append(taken[r], e.pos) \in Seq(Positions)
    BY <1>2, <2>1
  <2>3. QED
    BY <1>1, <2>1, <2>2
<1>5. QED
  BY <1>1, <1>2, <1>3, <1>4

(* Of the cpus at some labels, one moves.                                  *)
AtLabels(f, L) == {d \in Cpus : f[d] \in L}

LEMMA LabelCount ==
  ASSUME NEW f, NEW g, NEW c \in Cpus, NEW L,
         \A d \in Cpus \ {c} : g[d] = f[d]
  PROVE  /\ Cardinality(AtLabels(f, L)) \in Nat
         /\ Cardinality(AtLabels(g, L)) \in Nat
         /\ Cardinality(AtLabels(g, L)) + (IF f[c] \in L THEN 1 ELSE 0)
              = Cardinality(AtLabels(f, L)) + (IF g[c] \in L THEN 1 ELSE 0)
<1> DEFINE F == AtLabels(f, L)
           G == AtLabels(g, L)
           R == AtLabels(f, L) \ {c}
<1> USE DEF AtLabels
<1>1. IsFiniteSet(F) /\ IsFiniteSet(G) /\ IsFiniteSet(R)
  <2>1. IsFiniteSet(Cpus)
    BY ProgramAssumption
  <2>2. F \subseteq Cpus /\ G \subseteq Cpus /\ R \subseteq Cpus
    OBVIOUS
  <2>3. QED
    BY <2>1, <2>2, FS_Subset
<1>2. /\ Cardinality(F) \in Nat /\ Cardinality(G) \in Nat /\ Cardinality(R) \in Nat
  BY <1>1, FS_CardinalityType
<1>3. /\ F = IF f[c] \in L THEN R \cup {c} ELSE R
      /\ G = IF g[c] \in L THEN R \cup {c} ELSE R
      /\ c \notin R
  OBVIOUS
<1> HIDE DEF F, G, R
<1>4. Cardinality(R \cup {c}) = Cardinality(R) + 1
  BY <1>1, <1>3, FS_AddElement
<1>5. QED
  BY <1>2, <1>3, <1>4 DEF F, G

(* One more place.                                                         *)
LEMMA PlacesAppend ==
  ASSUME NEW f, NEW g, NEW r \in Rings, NEW n \in Nat,
         IsFiniteSet(Places(f)),
         DOMAIN f[r] = 1 .. n, DOMAIN g[r] = 1 .. n + 1,
         \A q \in Rings \ {r} : DOMAIN g[q] = DOMAIN f[q]
  PROVE  /\ IsFiniteSet(Places(g))
         /\ Cardinality(Places(f)) \in Nat
         /\ Cardinality(Places(g)) = Cardinality(Places(f)) + 1
<1>1. \A h, x : x \in Places(h) <=>
                  \E q \in Rings : \E i \in DOMAIN h[q] : x = <<q, i>>
  BY DEF Places
<1>2. 1 .. n + 1 = (1 .. n) \cup {n + 1} /\ n + 1 \notin 1 .. n
  OBVIOUS
<1>3. <<r, n + 1>> \notin Places(f)
  BY <1>1, <1>2
<1>4. Places(g) = Places(f) \cup {<<r, n + 1>>}
  <2>1. ASSUME NEW x \in Places(g)
        PROVE  x \in Places(f) \cup {<<r, n + 1>>}
    BY <1>1, <1>2
  <2>2. ASSUME NEW x \in Places(f) \cup {<<r, n + 1>>}
        PROVE  x \in Places(g)
    BY <1>1, <1>2
  <2>3. QED
    BY <2>1, <2>2
<1> DEFINE S == Places(f)
           x == <<r, n + 1>>
<1>5. IsFiniteSet(S) /\ x \notin S /\ Places(g) = S \cup {x}
  BY <1>3, <1>4
<1> HIDE DEF S, x
<1>6. /\ IsFiniteSet(S \cup {x}) /\ Cardinality(S) \in Nat
      /\ Cardinality(S \cup {x}) = Cardinality(S) + 1
  BY <1>5, FS_AddElement, FS_CardinalityType
<1>7. QED
  BY <1>5, <1>6 DEF S

(* A record taken is one record more.                                      *)
LEMMA TakeCounts ==
  ASSUME RingInv, IsFiniteSet(Places(taken)), NEW r \in Rings, Takes(r)
  PROVE  /\ IsFiniteSet(Places(taken))'
         /\ TotalTaken \in Nat /\ TotalTaken' = TotalTaken + 1
<1> DEFINE n == Len(taken[r])
<1>1. /\ taken \in [Rings -> Seq(Positions)]
      /\ n \in Nat /\ DOMAIN taken[r] = 1 .. n
      /\ taken' = [taken EXCEPT ![r] = Append(taken[r], cons_pos[r])]
  BY TakeTypes, PositionTypes DEF RingInv
<1>2. \A q \in Rings \ {r} : DOMAIN taken'[q] = DOMAIN taken[q]
  BY <1>1
<1>3. DOMAIN taken'[r] = 1 .. n + 1
  <2>1. taken'[r] = Append(taken[r], cons_pos[r]) /\ taken[r] \in Seq(Positions)
    BY <1>1
  <2>2. cons_pos[r] \in Positions
    BY PositionTypes DEF RingInv
  <2>3. QED
    BY <2>1, <2>2
<1> HIDE DEF n
<1>4. /\ IsFiniteSet(Places(taken')) /\ Cardinality(Places(taken)) \in Nat
      /\ Cardinality(Places(taken')) = Cardinality(Places(taken)) + 1
  <2>1. n \in Nat /\ DOMAIN taken[r] = 1 .. n
    BY <1>1 DEF n
  <2>2. QED
    BY <2>1, <1>2, <1>3, PlacesAppend
<1>5. Places(taken)' = Places(taken')
  BY DEF Places
<1>6. QED
  BY <1>4, <1>5 DEF TotalTaken

(* A record in the caller's hands, and not given back.                     *)
LEMMA InHandsIntact == SpaceInv /\ InHands => SampleIntact
<1> SUFFICES ASSUME SpaceInv, InHands, sample # NULL
             PROVE  WriteFront(sample.ring) - sample.pos <= mask
  BY DEF SampleIntact
<1> DEFINE r == sample.ring
<1>1. r \in Rings /\ sample.pos \in Nat /\ consumer_pos[r] <= sample.pos
  BY DEF InHands, SpaceInv, UserTypeOK, Positions
<1>2. WriteFront(r) - consumer_pos[r] <= mask
  BY <1>1, SpaceInvNoOverrun DEF NoOverrun
<1>3. WriteFront(r) \in Int /\ consumer_pos[r] \in Nat /\ mask \in Int
  <2>1. producer_pos[r] \in Nat /\ consumer_pos[r] \in Nat
    BY <1>1, PositionTypes DEF SpaceInv
  <2>2. ASSUME spinlock[r] # NULL
        PROVE  NewProd(spinlock[r]) \in Int
    <3> DEFINE c == spinlock[r]
    <3>1. c \in Cpus /\ pc[c] = "publish" /\ call[c].rb = r
          /\ call[c].size \in Payloads
      BY <1>1, <2>2 DEF SpaceInv, LockInv, CallInv, RingTypeOK
    <3>2. RecordLen(call[c].size) \in Nat
      BY <3>1, PayloadsNat, RecordLenNat
    <3>3. QED
      BY <2>1, <3>1, <3>2 DEF NewProd
  <2>3. mask \in Int
    BY RingAssumption DEF mask
  <2>4. QED
    BY <2>1, <2>2, <2>3 DEF WriteFront
<1> HIDE DEF r
<1>4. QED
  BY <1>1, <1>2, <1>3 DEF r

LEMMA TakeInHands ==
  ASSUME RingInv, NEW r \in Rings, Takes(r)
  PROVE  InHands'
<1>1. sample' = [ring |-> r, pos |-> cons_pos[r]] /\ consumer_pos' = consumer_pos
  BY TakeTypes DEF Takes
<1>2. consumer_pos[r] <= cons_pos[r]
  BY DEF RingInv, SpaceInv, BoundInv
<1>3. QED
  BY <1>1, <1>2 DEF InHands

-----------------------------------------------------------------------------
(* A step of the program outside the helpers, and one of the helpers.      *)
LEMMA ProgramRings ==
  ASSUME RingInv, NEW c \in Cpus, NEW l, NEW k, ProgramMoves(c, l, k),
         pc[c] # "submit"
  PROVE  RingInv' /\ UNCHANGED Channel!vars
<1> USE DEF RingInv
<1>1. SpaceInv' /\ RecordInv'
  BY ProgramSpace, ProgramRecord
<1>2. HoldersStay
  BY DEF ProgramMoves, HoldersStay, SpaceInv, RingTypeOK
<1>3. QED
  BY <1>1, <1>2, HoldersUnseen
     DEF ProgramMoves, ringVars, userVars, loopVars, sigVars

LEMMA HelperRings ==
  ASSUME RingInv, NEW c \in Cpus, HelperStep(c), UNCHANGED userVars
  PROVE  RingInv' /\ [Channel!Next]_Channel!vars
<1>1. SpaceInv' /\ RecordInv'
  BY HelperSpace, HelperRecord DEF RingInv
<1>2. QED
  BY <1>1, HelperChannel DEF RingInv

(* What each step of a userspace loop must show.                           *)
UserDoes ==
  /\ UserFrame /\ UserActs /\ UserTypeOK'
  /\ \/ sig' = sig /\ (sig = "none" \/ UNCHANGED capture_enabled)
     \/ sig = "none" /\ sig' = "handling" /\ ~capture_enabled'
     \/ sig = "handling" /\ sig' = "exited" /\ UNCHANGED capture_enabled

(* Such a step keeps the invariant, and is a step of the channels.         *)
LEMMA UserRings ==
  ASSUME RingInv, UserDoes
  PROVE  RingInv' /\ [Channel!Next]_Channel!vars
<1> USE DEF RingInv, UserDoes
<1>1. UserMoves /\ SpaceInv'
  BY UserActsMove, UserSpace
<1>2. RecordInv'
  BY TakeRecords, LookRecords, GiveBackRecords DEF UserActs
<1>3. [Channel!Next]_Channel!vars
  <2>1. CASE Looks /\ sig = "none" /\ sig' = "handling"
    BY <2>1, SignalStops DEF Looks, Channel!Next
  <2>2. CASE Looks /\ (sig' # "none" <=> sig # "none")
    <3>1. \A r \in Rings : \A pos : InFlight(r, pos)' <=> InFlight(r, pos)
      BY DEF UserFrame, cpuVars, InFlight
    <3>2. QED
      BY <2>2, <3>1, Unseen DEF Looks, UserFrame
  <2>3. ASSUME NEW r \in Rings, Takes(r), sig' = sig
        PROVE  [Channel!Next]_Channel!vars
    BY <2>3, TakeHands DEF Channel!Next
  <2>4. ASSUME NEW r \in Rings, GivesBack(r), sig' = sig
        PROVE  [Channel!Next]_Channel!vars
    BY <2>4, GiveBackGives DEF Channel!Next
  <2>5. QED
    BY <2>1, <2>2, <2>3, <2>4 DEF UserActs
<1>4. QED
  BY <1>1, <1>2, <1>3

(* The steps every loop has in common.                                     *)
LEMMA CommonDoes ==
  ASSUME RingInv, UNCHANGED cpuVars, start_capture \/ Handler \/ CountOne
  PROVE  UserDoes
<1>0. n_drops \in Nat
  BY UserFacts DEF RingTypeOK
<1>1. CASE start_capture
  BY <1>1, UserFacts, StayActs
     DEF start_capture, Running, UserDoes, UserFrame, UserTypeOK, ringVars,
         sigVars
<1>2. CASE signal_callback
  BY <1>2, UserFacts, StayActs
     DEF signal_callback, Running, UserDoes, UserFrame, UserTypeOK, ringVars,
         loopVars
<1>3. CASE PrintAndExit
  BY <1>0, <1>3, UserFacts, StayActs
     DEF PrintAndExit, UserDoes, UserFrame, UserTypeOK, ringVars, bss, loopVars,
         RingTypeOK
<1>4. CASE CountOne
  BY <1>4, UserFacts, StayActs
     DEF CountOne, UserDoes, UserFrame, UserTypeOK, ringVars, bss, sigVars,
         RingTypeOK
<1>5. QED
  BY <1>1, <1>2, <1>3, <1>4 DEF Handler

(* A step in which nothing changes.                                        *)
LEMMA NothingDoes ==
  ASSUME RingInv, UNCHANGED <<ringVars, bss, cpuVars, userVars>>
  PROVE  UserDoes /\ UNCHANGED Channel!vars
<1> USE DEF ringVars, bss, cpuVars, userVars, loopVars, sigVars
<1>1. UserFrame /\ Looks /\ UserTypeOK'
  BY UserFacts DEF UserFrame, Looks, RingTypeOK, UserTypeOK
<1>2. UNCHANGED Channel!vars
  BY <1>1, UserLog DEF Channel!vars
<1>3. QED
  BY <1>1, <1>2 DEF UserDoes, UserActs

(* A capture that begins.                                                  *)
LEMMA InitRings ==
  ASSUME RingInit, UserInit
  PROVE  RingInv /\ Channel!Init
BY InitSpace, InitRecord, InitChannel DEF RingInv

(* What the invariant promises.                                            *)
LEMMA RingPromises ==
  RingInv => /\ NoOverrun /\ ConsumerBehind /\ HeadersIntact
             /\ LengthsAgree /\ ExactlyOnceInOrder /\ OnlyCommitted
             /\ InHands => SampleIntact
BY SpaceInvNoOverrun, RecordInvLengthsAgree, RecordInvOnlyCommitted, InHandsIntact
   DEF RingInv, RecordInv
=============================================================================
