------------------------------ MODULE Capture ------------------------------
(***************************************************************************)
(* What is promised of a capture -- BPF programs on every cpu next to one  *)
(* userspace thread -- whatever the program and whatever the loop of the   *)
(* thread.  The modules MultiReserveCase1, MultiReserveCase3 and so on put *)
(* a program and a loop together and check or prove these properties.      *)
(***************************************************************************)
EXTENDS Ringbuf, Userspace, FiniteSets

(* The record reserved at pos of ring r is still held by a cpu.            *)
InFlight(r, pos) ==
  \E c \in Cpus : pc[c] = "submit" /\ call[c].rb = r /\ call[c].event = pos

(* The first byte no cpu has begun to write: past producer_pos while a cpu *)
(* is between the header and its publication.                              *)
WriteFront(r) ==
  IF spinlock[r] = NULL THEN producer_pos[r] ELSE NewProd(spinlock[r])

(* The places of the sequences of all rings: <<ring, index>>.               *)
Places(f) == UNION {{r} \X DOMAIN f[r] : r \in Rings}

(* How many records userspace was handed, over all rings.                  *)
TotalTaken == Cardinality(Places(taken))

(***************************************************************************)
(* No byte is reserved again before userspace has given it back: the       *)
(* distance from consumer_pos to the last byte written never reaches the   *)
(* size of the ring, although reserve compares with a consumer_pos loaded  *)
(* before the lock was taken.                                              *)
(***************************************************************************)
NoOverrun == \A r \in Rings : WriteFront(r) - consumer_pos[r] <= mask

(***************************************************************************)
(* Userspace never moves past what the BPF side has published, and never   *)
(* gives back more than it has read.                                       *)
(***************************************************************************)
ConsumerBehind == \A r \in Rings :
  /\ consumer_pos[r] <= cons_pos[r]
  /\ cons_pos[r] <= producer_pos[r]
  /\ prod_pos[r] <= producer_pos[r]

(***************************************************************************)
(* Every record not yet given back still has its own header in the pages:  *)
(* the length the program asked for, and the busy bit exactly while a cpu  *)
(* holds it.                                                               *)
(***************************************************************************)
HeadersIntact == \A r \in Rings : \A i \in DOMAIN reserved[r] :
  LET e == reserved[r][i]
  IN  e.pos >= consumer_pos[r] =>
        hdr[r][Offset(e.pos)] =
          e.len + (IF InFlight(r, e.pos) THEN BPF_RINGBUF_BUSY_BIT ELSE 0)

(***************************************************************************)
(* Userspace computes from a header, flags and all, the very bytes that    *)
(* reserve took for the record.                                            *)
(***************************************************************************)
LengthsAgree == \A r \in Rings : \A i \in DOMAIN reserved[r] :
  LET e == reserved[r][i]
  IN  e.pos >= consumer_pos[r] =>
        roundup_len(hdr[r][Offset(e.pos)]) = RecordLen(e.len)

(***************************************************************************)
(* Records are handed out exactly once, in the order they were reserved in *)
(* their ring, none skipped; the cursor stands on the next one.            *)
(***************************************************************************)
ExactlyOnceInOrder == \A r \in Rings :
  LET n == Len(taken[r])
  IN  /\ n <= Len(reserved[r])
      /\ \A i \in 1 .. n : taken[r][i] = reserved[r][i].pos
      /\ cons_pos[r] = IF n < Len(reserved[r]) THEN reserved[r][n + 1].pos
                                               ELSE producer_pos[r]

(***************************************************************************)
(* No record is handed out while the program that writes it still holds it.*)
(***************************************************************************)
OnlyCommitted == \A r \in Rings : \A i \in DOMAIN taken[r] :
  ~InFlight(r, taken[r][i])

(***************************************************************************)
(* The record in the caller's hands keeps its bytes: its space has not     *)
(* been given back, so no cpu has begun to write as far as one ring size   *)
(* after its start.  (True where consumer_pos is stored after the record   *)
(* was used: case3, and libbpf's callbacks.)                               *)
(***************************************************************************)
SampleIntact ==
  sample # NULL => WriteFront(sample.ring) - sample.pos <= mask

(***************************************************************************)
(* One record per call: the handler reports every record handed out, but   *)
(* for the one the main thread had in its hands when the signal came.      *)
(***************************************************************************)
ReportedElaborated == sig = "exited" =>
  report.elaborated = TotalTaken - (IF sample = NULL THEN 0 ELSE 1)

-----------------------------------------------------------------------------
(* The inductive invariant behind NoOverrun.                               *)

(* A cpu inside a helper knows its ring and its size.                      *)
CallInv == \A c \in Cpus :
  pc[c] \in {"reserve", "lock", "publish", "submit"} =>
    call[c].rb \in Rings /\ call[c].size \in Payloads

(* The spinlock of a ring is held exactly by the cpu that publishes in it. *)
LockInv ==
  /\ \A c \in Cpus : pc[c] = "publish" => spinlock[call[c].rb] = c
  /\ \A r \in Rings : spinlock[r] # NULL =>
       pc[spinlock[r]] = "publish" /\ call[spinlock[r]].rb = r

(* The consumer position a helper has loaded can be old, never ahead; so   *)
(* room found against it is room.                                          *)
RoomInv == \A c \in Cpus :
  /\ pc[c] \in {"lock", "publish"} => call[c].cons <= consumer_pos[call[c].rb]
  /\ pc[c] = "publish" => HasRoom(c)

BoundInv == \A r \in Rings :
  /\ producer_pos[r] - consumer_pos[r] <= mask
  /\ consumer_pos[r] <= cons_pos[r]

SpaceInv == RingTypeOK /\ UserTypeOK /\ CallInv /\ LockInv /\ RoomInv /\ BoundInv

-----------------------------------------------------------------------------
(* The inductive invariant behind what is said of records.                 *)

(* Where the record after e begins.                                        *)
After(e) == e.pos + RecordLen(e.len)

(* The records of a ring lie end to end from 0 to producer_pos.            *)
LayoutInv == \A r \in Rings :
  LET R == reserved[r]
      n == Len(R)
  IN  /\ \A i \in 1 .. n :
           After(R[i]) = IF i < n THEN R[i + 1].pos ELSE producer_pos[r]
      /\ \A j \in 1 .. n : \A i \in 1 .. j - 1 : After(R[i]) <= R[j].pos
      /\ (IF n = 0 THEN producer_pos[r] ELSE R[1].pos) = 0

(* A header is busy before the record under it is published.               *)
WrittenInv == \A c \in Cpus : pc[c] = "publish" =>
  LET r == call[c].rb
  IN  hdr[r][Offset(producer_pos[r])] = call[c].size + BPF_RINGBUF_BUSY_BIT

(* A cpu that has yet to submit holds a record of its own, and one that    *)
(* was not handed out.                                                     *)
Holds(c, r, i) ==
  pc[c] = "submit" /\ call[c].rb = r /\ call[c].event = reserved[r][i].pos

HeldInv ==
  /\ \A c \in Cpus : pc[c] = "submit" =>
       \E i \in 1 .. Len(reserved[call[c].rb]) :
         i > Len(taken[call[c].rb]) /\ Holds(c, call[c].rb, i)
  /\ \A c, d \in Cpus :
       pc[c] = "submit" /\ pc[d] = "submit" /\ call[c].rb = call[d].rb
         /\ call[c].event = call[d].event => c = d

RecordInv == /\ LayoutInv /\ WrittenInv /\ HeldInv
             /\ ConsumerBehind /\ HeadersIntact /\ ExactlyOnceInOrder

-----------------------------------------------------------------------------
(* The inductive invariant behind ReportedElaborated, of the loops that    *)
(* take one record per call: between the step over a record and the count  *)
(* in main, it is in the caller's hands and not counted yet.               *)
ElaboratedInv ==
  /\ sample = NULL <=> upc \notin {"release", "count"}
  /\ n_elaborated + (IF sample = NULL THEN 0 ELSE 1) = TotalTaken
  /\ sig = "exited" => report.elaborated = n_elaborated

(* The inductive invariant behind SampleIntact: the space of the record in *)
(* the caller's hands has not been given back.                             *)
InHands == sample # NULL => consumer_pos[sample.ring] <= sample.pos

-----------------------------------------------------------------------------
(* The rings seen as channels: a record is ready once its cpu has submitted*)
(* it.                                                                     *)
Log == [r \in Rings |-> [i \in DOMAIN reserved[r] |->
  [at    |-> reserved[r][i].pos,
   size  |-> RecordLen(reserved[r][i].len),
   ready |-> ~InFlight(r, reserved[r][i].pos)]]]

Channel == INSTANCE EventChannel WITH
  Channels <- Rings,
  Sizes    <- {RecordLen(n) : n \in Payloads},
  Capacity <- mask,
  log      <- Log,
  handed   <- taken,
  freed    <- consumer_pos,
  stopped  <- sig # "none"

(***************************************************************************)
(* A capture implements the channels of EventChannel: on every ring,       *)
(* records are written only where space was given back, handed out once,   *)
(* in order and finished; space is given back by whole records that were   *)
(* handed out; and until the capture is stopped no ring is left out, in    *)
(* reading or in giving back.                                              *)
(***************************************************************************)
ImplementsChannel == Channel!Spec
=============================================================================
