----------------------------- MODULE ConsumeOne -----------------------------
(***************************************************************************)
(* The userspace loop of multi_ringbuf_reserve/case1.c: each call of       *)
(* ring_buffer__consume_one looks at one ring after the other until a      *)
(* record is found, gives its space back at once, and moves to the next    *)
(* ring after every look.  single_ringbuf_reserve/case1.c is the same code *)
(* over one ring.                                                          *)
(***************************************************************************)
EXTENDS Userspace

Cursor == ringbuf_pos

(* Bug: the thread waits on a ring until something shows up in it.         *)
RefreshStaying ==
  LET r == Cursor
  IN  /\ Running /\ upc = "poll"
      /\ cons_pos[r] >= prod_pos[r]
      /\ prod_pos' = [prod_pos EXCEPT ![r] = producer_pos[r]]
      /\ UNCHANGED <<ringVars, bss, cons_pos, ringbuf_pos, upc, sample,
                     n_elaborated, taken, sigVars>>

(* Nothing known to be left in the ring: load producer_pos, and move on if *)
(* it brings nothing.                                                      *)
Refresh ==
  LET r == Cursor
  IN  /\ Running /\ upc = "poll"
      /\ cons_pos[r] >= prod_pos[r]
      /\ prod_pos' = [prod_pos EXCEPT ![r] = producer_pos[r]]
      /\ ringbuf_pos' = IF cons_pos[r] < producer_pos[r] THEN r
                                                         ELSE NextRing(r)
      /\ UNCHANGED <<ringVars, bss, cons_pos, upc, sample, n_elaborated,
                     taken, sigVars>>

(* Bug: a record that is not committed is counted.                         *)
BailOutCounted ==
  LET r == Cursor
  IN  /\ Running /\ upc = "poll"
      /\ cons_pos[r] < prod_pos[r]
      /\ Busy(r)
      /\ ringbuf_pos' = NextRing(r)
      /\ upc' = "count"
      /\ UNCHANGED <<ringVars, bss, cons_pos, prod_pos, sample,
                     n_elaborated, taken, sigVars>>

(* The record at the cursor is not committed yet: bail out, next ring.     *)
BailOut ==
  LET r == Cursor
  IN  /\ Running /\ upc = "poll"
      /\ cons_pos[r] < prod_pos[r]
      /\ Busy(r)
      /\ ringbuf_pos' = NextRing(r)
      /\ UNCHANGED <<ringVars, bss, cons_pos, prod_pos, upc, sample,
                     n_elaborated, taken, sigVars>>

TakeRecord ==
  LET r == Cursor
  IN  /\ Running /\ upc = "poll"
      /\ cons_pos[r] < prod_pos[r]
      /\ ~Busy(r)
      /\ StepOver(r)
      /\ upc' = "release"
      /\ UNCHANGED <<ringVars, bss, prod_pos, ringbuf_pos, n_elaborated,
                     sigVars>>

(* The store-release of consumer_pos, then on to the next ring; the record *)
(* is returned to the caller after its bytes were given back.              *)
Release ==
  LET r == Cursor
  IN  /\ Running /\ upc = "release"
      /\ StoreConsumerPos(r, cons_pos[r])
      /\ ringbuf_pos' = NextRing(r)
      /\ upc' = IF sample = NULL THEN "poll" ELSE "count"
      /\ UNCHANGED <<bss, cons_pos,
                     prod_pos, sample, n_elaborated, taken, sigVars>>

ConsumeStep == Refresh \/ BailOut \/ TakeRecord \/ Release \/ CountOne
=============================================================================
