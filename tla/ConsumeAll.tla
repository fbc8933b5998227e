----------------------------- MODULE ConsumeAll -----------------------------
(***************************************************************************)
(* The userspace loop of the programs that call libbpf's                   *)
(* ring_buffer__consume: multi_ringbuf_reserve/case2.c,                    *)
(* single_ringbuf_reserve/case2.c and multi_ringbuf_output/case1.c.  The   *)
(* library is not under src/.  One call goes over all rings, stays on a    *)
(* ring until a fresh load of producer_pos brings nothing or a record is   *)
(* not committed, hands each record to the callback handle_event, and      *)
(* returns how many it handed over; only then does main add that number to *)
(* n_elaborated.                                                           *)
(***************************************************************************)
EXTENDS Capture

VARIABLES
  got_new_data,  \* the pass over the current ring found a record
  res            \* records handed over in this call

callVars == <<got_new_data, res>>

CallInit == got_new_data = FALSE /\ res = 0

Cursor == ringbuf_pos

At(label) == Running /\ upc = label

(* main calls ring_buffer__consume.                                        *)
BeginCall ==
  /\ At("poll")
  /\ ringbuf_pos' = 0
  /\ upc' = "enter"
  /\ UNCHANGED <<ringVars, bss, cons_pos, prod_pos, sample, n_elaborated,
                 taken, sigVars, callVars>>

EnterRing ==
  /\ At("enter")
  /\ cons_pos' = [cons_pos EXCEPT ![Cursor] = consumer_pos[Cursor]]
  /\ upc' = "refresh"
  /\ UNCHANGED <<ringVars, bss, prod_pos, ringbuf_pos, sample, n_elaborated,
                 taken, sigVars, callVars>>

(* One pass: load producer_pos, then read up to it.                        *)
Refresh ==
  /\ At("refresh")
  /\ prod_pos' = [prod_pos EXCEPT ![Cursor] = producer_pos[Cursor]]
  /\ got_new_data' = FALSE
  /\ upc' = "read"
  /\ UNCHANGED <<ringVars, bss, cons_pos, ringbuf_pos, sample, n_elaborated,
                 taken, sigVars, res>>

(* Bug: the call ends after the first ring.                                *)
LeaveRingLast == upc' = "count" /\ UNCHANGED ringbuf_pos

LeaveRing ==
  IF ringbuf_pos = RING_CNT - 1
  THEN upc' = "count" /\ UNCHANGED ringbuf_pos
  ELSE upc' = "enter" /\ ringbuf_pos' = ringbuf_pos + 1

(* The pass is over: another one if this one found something.              *)
EndPass ==
  /\ At("read")
  /\ cons_pos[Cursor] >= prod_pos[Cursor]
  /\ IF got_new_data THEN upc' = "refresh" /\ UNCHANGED ringbuf_pos
                     ELSE LeaveRing
  /\ UNCHANGED <<ringVars, bss, cons_pos, prod_pos, sample, n_elaborated,
                 taken, sigVars, callVars>>

(* A record not committed yet ends the work on its ring.                   *)
BailOut ==
  /\ At("read")
  /\ cons_pos[Cursor] < prod_pos[Cursor]
  /\ Busy(Cursor)
  /\ LeaveRing
  /\ UNCHANGED <<ringVars, bss, cons_pos, prod_pos, sample, n_elaborated,
                 taken, sigVars, callVars>>

(* Bug: the bytes are given back before the callback has used them.        *)
TakeRecordReleasing ==
  /\ At("read")
  /\ cons_pos[Cursor] < prod_pos[Cursor]
  /\ ~Busy(Cursor)
  /\ StepOver(Cursor)
  /\ StoreConsumerPos(Cursor, cons_pos'[Cursor])
  /\ got_new_data' = TRUE
  /\ res' = res + 1
  /\ upc' = "release"
  /\ UNCHANGED <<bss, prod_pos, ringbuf_pos, n_elaborated, sigVars>>

(* Bug: one record more than was published.                                *)
TakeRecordPastEnd ==
  /\ At("read")
  /\ cons_pos[Cursor] <= prod_pos[Cursor]
  /\ ~Busy(Cursor)
  /\ StepOver(Cursor)
  /\ got_new_data' = TRUE
  /\ res' = res + 1
  /\ upc' = "release"
  /\ UNCHANGED <<ringVars, bss, prod_pos, ringbuf_pos, n_elaborated, sigVars>>

(* The callback handle_event gets the record, and returns 0.               *)
TakeRecord ==
  /\ At("read")
  /\ cons_pos[Cursor] < prod_pos[Cursor]
  /\ ~Busy(Cursor)
  /\ StepOver(Cursor)
  /\ got_new_data' = TRUE
  /\ res' = IF Discarded(Cursor) THEN res ELSE res + 1
  /\ upc' = "release"
  /\ UNCHANGED <<ringVars, bss, prod_pos, ringbuf_pos, n_elaborated, sigVars>>

(* The callback is done with the record: its bytes are given back.         *)
Release ==
  /\ At("release")
  /\ StoreConsumerPos(Cursor, cons_pos[Cursor])
  /\ sample' = NULL
  /\ upc' = "read"
  /\ UNCHANGED <<bss, cons_pos, prod_pos, ringbuf_pos, n_elaborated, taken,
                 sigVars, callVars>>

(* Bug: the result of a call is counted again by the next one.             *)
CountAllTwice ==
  /\ At("count")
  /\ n_elaborated' = n_elaborated + res
  /\ upc' = "poll"
  /\ UNCHANGED <<ringVars, bss, cons_pos, prod_pos, ringbuf_pos, sample,
                 taken, sigVars, callVars>>

(* n_elaborated += ring_buffer__consume(ringbuf)                           *)
CountAll ==
  /\ At("count")
  /\ n_elaborated' = n_elaborated + res
  /\ res' = 0
  /\ upc' = "poll"
  /\ UNCHANGED <<ringVars, bss, cons_pos, prod_pos, ringbuf_pos, sample,
                 taken, sigVars, got_new_data>>

ConsumeStep ==
  \/ BeginCall \/ EnterRing \/ Refresh \/ EndPass
  \/ BailOut \/ TakeRecord \/ Release \/ CountAll

-----------------------------------------------------------------------------
(***************************************************************************)
(* What main has not counted yet is exactly what the current call of       *)
(* ring_buffer__consume has handed over: a SIGINT loses those records from *)
(* the report, and no others.                                              *)
(***************************************************************************)
UncountedIsThisCall ==
  /\ TotalTaken = n_elaborated + res
  /\ sig = "exited" => report.elaborated = TotalTaken - res

(* Every ring but the one a record is being handed over from is given back *)
(* as far as it is read; so consumer_pos tells a new pass where to begin.  *)
SettledInv == \A r \in Rings :
  consumer_pos[r] = cons_pos[r] \/ (upc = "release" /\ r = Cursor)
=============================================================================
