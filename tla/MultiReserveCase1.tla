------------------------- MODULE MultiReserveCase1 -------------------------
(***************************************************************************)
(* multi_ringbuf_reserve, case1: one ring per cpu (or the emptiest ring,   *)
(* with CUSTOMIZED), read one record at a time in rotation.                *)
(***************************************************************************)
EXTENDS ReserveCapture, ConsumeOne

Loop == start_capture \/ ConsumeStep

Next == BpfStep \/ UserStep(Loop) \/ UserStep(Handler)

(* The main thread never blocks: its loop polls.                           *)
Fairness == BpfFairness /\ WF_vars(UserStep(Loop))

Spec == Init /\ [][Next]_vars /\ Fairness

(***************************************************************************)
(* The inductive invariant of case1: that of a capture, and main counts    *)
(* every record but the one it has in its hands.                           *)
(***************************************************************************)
Inv == CaptureInv /\ ElaboratedInv
=============================================================================
