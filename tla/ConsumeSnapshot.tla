-------------------------- MODULE ConsumeSnapshot --------------------------
(***************************************************************************)
(* The userspace loop of multi_ringbuf_reserve/case3.c and case4.c: one    *)
(* record per call, but the thread stays on a ring until it has reached    *)
(* the producer position it last loaded there.  The two files differ in    *)
(* one line, the store-release of consumer_pos: case3 gives the space back *)
(* when it has drained its snapshot, case4 after every record.             *)
(***************************************************************************)
EXTENDS Userspace

VARIABLE ReleaseEachRecord  \* the program started; FALSE: case3, TRUE: case4

Cursor == ringbuf_pos

(* The snapshot is drained: load producer_pos again.                       *)
Reload ==
  LET r == Cursor
  IN  /\ Running /\ upc = "poll"
      /\ cons_pos[r] >= prod_pos[r]
      /\ prod_pos' = [prod_pos EXCEPT ![r] = producer_pos[r]]
      /\ upc' = "publish"
      /\ UNCHANGED <<ringVars, bss, cons_pos, ringbuf_pos, sample,
                     n_elaborated, taken, sigVars>>

(* Bug: the position just loaded is stored, not the one reached.           *)
SwitchRingEager ==
  LET r == Cursor
  IN  /\ Running /\ upc = "publish"
      /\ StoreConsumerPos(r, prod_pos[r])
      /\ ringbuf_pos' = IF cons_pos[r] # 0 \/ prod_pos[r] = 0
                        THEN NextRing(r) ELSE r
      /\ upc' = "poll"
      /\ UNCHANGED <<bss, cons_pos,
                     prod_pos, sample, n_elaborated, taken, sigVars>>

(* Bug: the thread does not leave the ring, and stores nothing.            *)
SwitchRingStaying ==
  /\ Running /\ upc = "publish"
  /\ upc' = "poll"
  /\ UNCHANGED <<ringVars, bss, cons_pos, prod_pos, ringbuf_pos, sample,
                 n_elaborated, taken, sigVars>>

(* case3 gives back all it has consumed; then both switch to the next      *)
(* ring, except the first time something shows up in a ring.               *)
SwitchRing ==
  LET r == Cursor
  IN  /\ Running /\ upc = "publish"
      /\ IF ReleaseEachRecord THEN UNCHANGED ringVars
                              ELSE StoreConsumerPos(r, cons_pos[r])
      /\ ringbuf_pos' = IF cons_pos[r] # 0 \/ prod_pos[r] = 0
                        THEN NextRing(r) ELSE r
      /\ upc' = "poll"
      /\ UNCHANGED <<bss, cons_pos,
                     prod_pos, sample, n_elaborated, taken, sigVars>>

(* A record not committed yet: the call tries again, and stays on the ring.*)
Spin ==
  LET r == Cursor
  IN  /\ Running /\ upc = "poll"
      /\ cons_pos[r] < prod_pos[r]
      /\ Busy(r)
      /\ UNCHANGED <<ringVars, bss, userVars>>

(* Bug: one record more than was published.                                *)
TakeRecordPastEnd ==
  /\ Running /\ upc = "poll"
  /\ cons_pos[Cursor] <= prod_pos[Cursor]
  /\ ~Busy(Cursor)
  /\ StepOver(Cursor)
  /\ upc' = "count"
  /\ UNCHANGED <<ringVars, bss, prod_pos, ringbuf_pos, n_elaborated, sigVars>>

(* Bug: the call returns 0 with a record.                                  *)
TakeRecordUncounted ==
  /\ Running /\ upc = "poll"
  /\ cons_pos[Cursor] < prod_pos[Cursor]
  /\ ~Busy(Cursor)
  /\ StepOver(Cursor)
  /\ upc' = "poll"
  /\ UNCHANGED <<ringVars, bss, prod_pos, ringbuf_pos, n_elaborated, sigVars>>

TakeRecord ==
  LET r == Cursor
  IN  /\ Running /\ upc = "poll"
      /\ cons_pos[r] < prod_pos[r]
      /\ ~Busy(r)
      /\ StepOver(r)
      /\ upc' = CASE ReleaseEachRecord     -> "release"
                  [] Discarded(r)   -> "poll"
                  [] OTHER                 -> "count"
      /\ UNCHANGED <<ringVars, bss, prod_pos, ringbuf_pos, n_elaborated,
                     sigVars>>

(* case4 only: the space of the record is given back before it is returned.*)
Release ==
  LET r == Cursor
  IN  /\ Running /\ upc = "release"
      /\ StoreConsumerPos(r, cons_pos[r])
      /\ upc' = IF sample = NULL THEN "poll" ELSE "count"
      /\ UNCHANGED <<bss, cons_pos,
                     prod_pos, ringbuf_pos, sample, n_elaborated, taken,
                     sigVars>>

ConsumeStep ==
  Reload \/ SwitchRing \/ Spin \/ TakeRecord \/ Release \/ CountOne
=============================================================================
