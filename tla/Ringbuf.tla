------------------------------ MODULE Ringbuf ------------------------------
(***************************************************************************)
(* The BPF ring buffers and the helpers the programs of this repository    *)
(* call on them.  The kernel's ring is not under src/: it is modelled from *)
(* how the code uses it -- the BPF programs reserve and submit records     *)
(* (multi_ringbuf_reserve.bpf.c, single_ringbuf_reserve.bpf.c), userspace  *)
(* reads producer_pos and the record headers through the mapped pages and  *)
(* writes consumer_pos (case1.c, case3.c, case4.c).                        *)
(*                                                                         *)
(* A reserve is not atomic for the reader in userspace, nor for the other  *)
(* cpus: it loads consumer_pos before it takes the ring's spinlock, writes *)
(* the header of the record with the busy bit set, and only then publishes *)
(* the new producer_pos and unlocks.  Each of these is a step of its own.  *)
(***************************************************************************)
EXTENDS Integers, Sequences

CONSTANTS
  Cpus,          \* cpus that run the BPF program
  RING_CNT,      \* number of ring buffers: n_cpus, or 1
  RING_BUF_DIM,  \* size of the data area of a ring, in bytes
  BYTE,          \* the unit of a record's size
  KB,            \* the multiples of BYTE the program picks among
  BPF_RINGBUF_DISCARD_BIT, \* the last but one bit of a header word, 2^30
  NULL           \* the null pointer, and "held by no cpu"

Rings == 0 .. RING_CNT - 1

(* The sizes KB_2 == 2 * BYTE, KB_3 == 3 * BYTE, ... of the programs.      *)
Payloads == {k * BYTE : k \in KB}

BPF_RINGBUF_HDR_SZ == 8

(* mask of the ring: its size is a power of two, so that "pos & mask" is   *)
(* "pos % RING_BUF_DIM".                                                   *)
mask == RING_BUF_DIM - 1
Offset(pos) == pos % RING_BUF_DIM

(* Records start on multiples of 8: positions of the rings, and the        *)
(* offsets a header can be at.                                             *)
Positions == {p \in Nat : p % 8 = 0}
Slots == {o \in 0 .. mask : o % 8 = 0}

(* Bytes a record of n payload bytes takes: header and rounding included.  *)
RecordLen(n) == ((n + BPF_RINGBUF_HDR_SZ + 7) \div 8) * 8

(* A header word: the payload's length under two flags, of which the       *)
(* discard bit is the lower one.                                           *)
BPF_RINGBUF_BUSY_BIT == 2 * BPF_RINGBUF_DISCARD_BIT
WordSize == 2 * BPF_RINGBUF_BUSY_BIT
Header == 0 .. WordSize - 1

HasBit(word, bit) == (word \div bit) % 2 = 1

(* x ^ BPF_RINGBUF_BUSY_BIT, on the highest bit of a word.                 *)
FlipBusy(word) == (word + BPF_RINGBUF_BUSY_BIT) % WordSize

ASSUME RingAssumption ==
  /\ RING_CNT \in Nat \ {0}
  /\ RING_BUF_DIM \in Nat \ {0} /\ RING_BUF_DIM % 8 = 0
  /\ BYTE \in Nat \ {0}
  /\ KB \subseteq Nat \ {0}
  /\ BPF_RINGBUF_DISCARD_BIT \in Nat \ {0}
  /\ \A n \in Payloads : n < BPF_RINGBUF_DISCARD_BIT
  /\ NULL \notin Nat /\ NULL \notin Cpus

VARIABLES
  consumer_pos,    \* [ring -> bytes released by userspace], shared page
  producer_pos,    \* [ring -> bytes reserved by the BPF side], shared page
  hdr,             \* [ring -> [offset -> header word]], the data pages
  spinlock,        \* [ring -> the cpu inside reserve, or NULL]
  reserved,        \* history: [ring -> the records published, in order]
  dropped,         \* history: reserves that found no room
  capture_enabled, \* .bss of the BPF object, mapped in userspace too
  n_drops,         \* .bss
  n_skipped,       \* .bss
  pc,              \* [cpu -> where the BPF program stands on that cpu]
  call             \* [cpu -> the locals of the program and of its helper]

ringVars == <<consumer_pos, producer_pos, hdr, spinlock, reserved, dropped>>
bss      == <<capture_enabled, n_drops, n_skipped>>
cpuVars  == <<pc, call>>

(* Locals of one run of the program: the ring it writes to, the size it    *)
(* asks for, the consumer position its helper has loaded, the position of  *)
(* the record it got, and the counter value loaded by an increment.        *)
NoCall == [rb |-> NULL, size |-> 0, cons |-> 0, event |-> 0, old |-> 0]

(* The pages of a new ring are zeroed: an unwritten header reads as the    *)
(* committed header of an empty record.                                    *)
RingInit ==
  /\ consumer_pos    = [r \in Rings |-> 0]
  /\ producer_pos    = [r \in Rings |-> 0]
  /\ hdr             = [r \in Rings |-> [o \in Slots |-> 0]]
  /\ spinlock        = [r \in Rings |-> NULL]
  /\ reserved        = [r \in Rings |-> <<>>]
  /\ dropped         = 0
  /\ capture_enabled = FALSE
  /\ n_drops         = 0
  /\ n_skipped       = 0
  /\ pc              = [c \in Cpus |-> "idle"]
  /\ call            = [c \in Cpus |-> NoCall]

Goto(c, label) == pc' = [pc EXCEPT ![c] = label]

-----------------------------------------------------------------------------
(* bpf_ringbuf_reserve(rb, size, 0)                                        *)

(* The helper loads consumer_pos before it takes the lock.                 *)
ReserveLoad(c) ==
  /\ pc[c] = "reserve"
  /\ call' = [call EXCEPT ![c].cons = consumer_pos[call[c].rb]]
  /\ Goto(c, "lock")
  /\ UNCHANGED <<ringVars, bss>>

(* Position the ring would reach with the record of c in it.               *)
NewProd(c) == producer_pos[call[c].rb] + RecordLen(call[c].size)

(* Bug: the 8 bytes of the header are left out of the test for room.        *)
HasRoomHeaderless(c) ==
  NewProd(c) - BPF_RINGBUF_HDR_SZ - call[c].cons <= mask

(* Bug: the data pages are mapped twice in a row, and both are counted.    *)
HasRoomDoubled(c) == NewProd(c) - call[c].cons <= 2 * RING_BUF_DIM - 1

HasRoom(c) == NewProd(c) - call[c].cons <= mask

(* No room for the record: unlock and return NULL.                         *)
ReserveFull(c) ==
  /\ pc[c] = "lock"
  /\ spinlock[call[c].rb] = NULL
  /\ ~HasRoom(c)
  /\ dropped' = dropped + 1
  /\ call' = [call EXCEPT ![c] = NoCall]
  /\ Goto(c, "failed")
  /\ UNCHANGED <<consumer_pos, producer_pos, hdr, spinlock, reserved, bss>>

(* Bug: the header is written without waiting for the lock.                *)
ReserveHeaderUnlocked(c) ==
  LET r == call[c].rb
      h == call[c].size + BPF_RINGBUF_BUSY_BIT
  IN  /\ pc[c] = "lock"
      /\ HasRoom(c)
      /\ spinlock' = [spinlock EXCEPT ![r] = c]
      /\ hdr' = [hdr EXCEPT ![r][Offset(producer_pos[r])] = h]
      /\ Goto(c, "publish")
      /\ UNCHANGED <<consumer_pos, producer_pos, reserved, dropped, call, bss>>

(* Under the lock, the header is written busy; userspace must not look at  *)
(* it yet, for producer_pos does not cover it.                             *)
ReserveHeader(c) ==
  LET r == call[c].rb
      h == call[c].size + BPF_RINGBUF_BUSY_BIT
  IN  /\ pc[c] = "lock"
      /\ spinlock[r] = NULL
      /\ HasRoom(c)
      /\ spinlock' = [spinlock EXCEPT ![r] = c]
      /\ hdr' = [hdr EXCEPT ![r][Offset(producer_pos[r])] = h]
      /\ Goto(c, "publish")
      /\ UNCHANGED <<consumer_pos, producer_pos, reserved, dropped, call, bss>>

(* The store-release of producer_pos publishes the record; then unlock.    *)
ReservePublish(c) ==
  LET r   == call[c].rb
      pos == producer_pos[r]
  IN  /\ pc[c] = "publish"
      /\ producer_pos' = [producer_pos EXCEPT ![r] = NewProd(c)]
      /\ reserved' = [reserved EXCEPT
                        ![r] = Append(@, [pos |-> pos, len |-> call[c].size])]
      /\ spinlock' = [spinlock EXCEPT ![r] = NULL]
      /\ call' = [call EXCEPT ![c].event = pos, ![c].cons = 0]
      /\ Goto(c, "submit")
      /\ UNCHANGED <<consumer_pos, hdr, dropped, bss>>

(* bpf_ringbuf_submit(event, BPF_RB_NO_WAKEUP): one atomic exchange clears *)
(* the busy bit; nobody is woken, for userspace polls.                     *)
Submit(c) ==
  LET r == call[c].rb
  IN  /\ pc[c] = "submit"
      /\ hdr' = [hdr EXCEPT ![r][Offset(call[c].event)] = FlipBusy(@)]
      /\ call' = [call EXCEPT ![c] = NoCall]
      /\ Goto(c, "idle")
      /\ UNCHANGED <<consumer_pos, producer_pos, spinlock, reserved, dropped, bss>>

(* The steps of the helpers on cpu c, from the call to the return.         *)
HelperStep(c) ==
  \/ ReserveLoad(c)
  \/ ReserveFull(c)
  \/ ReserveHeader(c)
  \/ ReservePublish(c)
  \/ Submit(c)

(* smp_store_release(r->consumer_pos, pos): userspace gives space back.     *)
StoreConsumerPos(r, pos) ==
  /\ consumer_pos' = [consumer_pos EXCEPT ![r] = pos]
  /\ UNCHANGED <<producer_pos, hdr, spinlock, reserved, dropped>>

-----------------------------------------------------------------------------
Labels == {"idle", "query", "compare", "reserve", "lock", "publish", "submit",
           "failed", "store_drop", "skip", "store_skip"}

RingTypeOK ==
  /\ consumer_pos \in [Rings -> Positions]
  /\ producer_pos \in [Rings -> Positions]
  /\ hdr \in [Rings -> [Slots -> Header]]
  /\ spinlock \in [Rings -> Cpus \cup {NULL}]
  /\ reserved \in [Rings -> Seq([pos : Positions, len : Payloads])]
  /\ dropped \in Nat
  /\ capture_enabled \in BOOLEAN
  /\ n_drops \in Nat
  /\ n_skipped \in Nat
  /\ pc \in [Cpus -> Labels]
  /\ call \in [Cpus -> [rb : Rings \cup {NULL}, size : Payloads \cup {0},
                        cons : Positions, event : Positions, old : Nat]]
=============================================================================
