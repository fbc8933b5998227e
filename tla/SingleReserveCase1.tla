------------------------- MODULE SingleReserveCase1 -------------------------
(***************************************************************************)
(* single_ringbuf_reserve, case1: all cpus write to one ring, which is     *)
(* read one record at a time.                                              *)
(***************************************************************************)
EXTENDS ReserveCapture, ConsumeSingle

Loop == start_capture \/ ConsumeStep

Next == BpfStep \/ UserStep(Loop) \/ UserStep(Handler)

(* The main thread never blocks: its loop polls.                           *)
Fairness == BpfFairness /\ WF_vars(UserStep(Loop))

Spec == Init /\ [][Next]_vars /\ Fairness

(***************************************************************************)
(* The inductive invariant: that of a capture, and main counts every       *)
(* record but the one it has in its hands.                                 *)
(***************************************************************************)
Inv == CaptureInv /\ ElaboratedInv
=============================================================================
