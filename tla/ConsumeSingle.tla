---------------------------- MODULE ConsumeSingle ----------------------------
(***************************************************************************)
(* The userspace loop of single_ringbuf_reserve/case1.c: there is one ring *)
(* and consume_one looks at it once, returning 0 when it finds nothing.    *)
(***************************************************************************)
EXTENDS Userspace

Ring == 0

(* consume_one finds nothing new: it returns 0, which counts nothing.      *)
LookAgain ==
  /\ Running /\ upc = "poll"
  /\ cons_pos[Ring] >= prod_pos[Ring]
  /\ prod_pos' = [prod_pos EXCEPT ![Ring] = producer_pos[Ring]]
  /\ UNCHANGED <<ringVars, bss, cons_pos, ringbuf_pos, upc, sample,
                 n_elaborated, taken, sigVars>>

(* The record at the cursor is not committed yet: return 0.                *)
NotYet ==
  /\ Running /\ upc = "poll"
  /\ cons_pos[Ring] < prod_pos[Ring]
  /\ Busy(Ring)
  /\ UNCHANGED <<ringVars, bss, userVars>>

(* Bug: the busy bit is not looked at.                                     *)
TakeRecordBusy ==
  /\ Running /\ upc = "poll"
  /\ cons_pos[Ring] < prod_pos[Ring]
  /\ StepOver(Ring)
  /\ upc' = "release"
  /\ UNCHANGED <<ringVars, bss, prod_pos, ringbuf_pos, n_elaborated, sigVars>>

TakeRecord ==
  /\ Running /\ upc = "poll"
  /\ cons_pos[Ring] < prod_pos[Ring]
  /\ ~Busy(Ring)
  /\ StepOver(Ring)
  /\ upc' = "release"
  /\ UNCHANGED <<ringVars, bss, prod_pos, ringbuf_pos, n_elaborated, sigVars>>

(* Bug: consumer_pos is never stored.                                      *)
ReleaseForgotten ==
  /\ Running /\ upc = "release"
  /\ upc' = "count"
  /\ UNCHANGED <<ringVars, bss, cons_pos, prod_pos, ringbuf_pos, sample,
                 n_elaborated, taken, sigVars>>

(* The bytes of the record are given back before it is returned.           *)
Release ==
  /\ Running /\ upc = "release"
  /\ StoreConsumerPos(Ring, cons_pos[Ring])
  /\ upc' = IF sample = NULL THEN "poll" ELSE "count"
  /\ UNCHANGED <<bss, cons_pos, prod_pos, ringbuf_pos, sample, n_elaborated,
                 taken, sigVars>>

ConsumeStep == LookAgain \/ NotYet \/ TakeRecord \/ Release \/ CountOne
=============================================================================
