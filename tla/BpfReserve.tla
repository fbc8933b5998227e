----------------------------- MODULE BpfReserve -----------------------------
(***************************************************************************)
(* The program of multi_ringbuf_reserve.bpf.c and of                       *)
(* single_ringbuf_reserve.bpf.c: reserve a record of a random size, submit *)
(* it, or count a drop.  RingOf sends every cpu to its own ring in the     *)
(* first, and all cpus to the one ring in the second.  With CUSTOMIZED the *)
(* first queries every ring instead and picks the emptiest one it saw.     *)
(***************************************************************************)
EXTENDS BpfProgram

CONSTANT CUSTOMIZED  \* built with -D__CUSTOMIZED_1

ASSUME ReserveAssumption == CUSTOMIZED \in BOOLEAN

VARIABLE scan  \* [cpu -> locals of get_best_buffer]

progVars == <<calls, scan>>
bpfVars  == <<ringVars, bss, cpuVars, progVars>>

(* Locals of get_best_buffer: the loop index, the best ring so far with    *)
(* what was seen in it, and the consumer position the query has loaded.    *)
(* min_remained starts at 16 MB, twice the size of a ring.                 *)
(* Bug: it starts at 16 bytes.                                             *)
ScanStartSmall == [j |-> 0, min |-> 16, chosen |-> NULL, cons |-> 0]

ScanStart == [j |-> 0, min |-> 2 * RING_BUF_DIM, chosen |-> NULL, cons |-> 0]

BpfInit == RingInit /\ CallsInit /\ scan = [c \in Cpus |-> ScanStart]

-----------------------------------------------------------------------------
Enter(c) ==
  /\ EnterProgram(c)
  /\ IF CUSTOMIZED THEN Goto(c, "query") /\ UNCHANGED call
                   ELSE UseRing(c, RingOf[c])
  /\ UNCHANGED <<ringVars, bss, scan>>

(* bpf_ringbuf_query(rb, BPF_RB_AVAIL_DATA) is two loads, not a snapshot.  *)
QueryConsumer(c) ==
  /\ pc[c] = "query"
  /\ scan[c].j < RING_CNT
  /\ scan' = [scan EXCEPT ![c].cons = consumer_pos[scan[c].j]]
  /\ Goto(c, "compare")
  /\ UNCHANGED <<ringVars, bss, call, calls>>

(* Bug: the two positions change places in the subtraction.                *)
QueryProducerSwapped(c) ==
  LET s        == scan[c]
      remained == s.cons - producer_pos[s.j]
  IN  /\ pc[c] = "compare"
      /\ scan' = [scan EXCEPT ![c] =
                    [j |-> s.j + 1, min |-> remained, chosen |-> s.j, cons |-> 0]]
      /\ Goto(c, "query")
      /\ UNCHANGED <<ringVars, bss, call, calls>>

QueryProducer(c) ==
  LET s        == scan[c]
      remained == producer_pos[s.j] - s.cons
      next     == [s EXCEPT !.j = @ + 1, !.cons = 0]
  IN  /\ pc[c] = "compare"
      /\ scan' = [scan EXCEPT ![c] =
                    IF remained <= s.min
                    THEN [next EXCEPT !.min = remained, !.chosen = s.j]
                    ELSE next]
      /\ Goto(c, "query")
      /\ UNCHANGED <<ringVars, bss, call, calls>>

ChooseBest(c) ==
  /\ pc[c] = "query"
  /\ scan[c].j = RING_CNT
  /\ UseRing(c, scan[c].chosen)
  /\ scan' = [scan EXCEPT ![c] = ScanStart]
  /\ UNCHANGED <<ringVars, bss, calls>>

LoadDrops(c) == pc[c] = "failed" /\ LoadCounter(c, n_drops, "store_drop")

(* Bug: the counter is stored back as it was loaded.                       *)
StoreDropsUnchanged(c) ==
  /\ pc[c] = "store_drop"
  /\ n_drops' = call[c].old
  /\ call' = [call EXCEPT ![c] = NoCall]
  /\ Goto(c, "idle")
  /\ UNCHANGED <<ringVars, capture_enabled, n_skipped, calls>>

StoreDrops(c) ==
  /\ pc[c] = "store_drop"
  /\ n_drops' = call[c].old + 1
  /\ call' = [call EXCEPT ![c] = NoCall]
  /\ Goto(c, "idle")
  /\ UNCHANGED <<ringVars, capture_enabled, n_skipped, calls>>

Scan(c) == QueryConsumer(c) \/ QueryProducer(c) \/ ChooseBest(c)

Count(c) == LoadDrops(c) \/ StoreDrops(c) \/ LoadSkipped(c) \/ StoreSkipped(c)

(* A run of the program, once entered, goes to its end.                    *)
Run(c) ==
  \/ Scan(c)
  \/ HelperStep(c) /\ UNCHANGED progVars
  \/ Count(c) /\ UNCHANGED scan

BpfNext == \E c \in Cpus : Enter(c) \/ Run(c)

-----------------------------------------------------------------------------
BpfTypeOK ==
  /\ ProgramTypeOK
  /\ scan \in [Cpus -> [j : 0 .. RING_CNT, min : Int,
                        chosen : Rings \cup {NULL}, cons : Positions]]
=============================================================================
