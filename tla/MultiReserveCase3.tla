------------------------- MODULE MultiReserveCase3 -------------------------
(***************************************************************************)
(* multi_ringbuf_reserve, case3 and case4: the thread drains a snapshot of *)
(* a ring before it looks at the next one.                                 *)
(***************************************************************************)
EXTENDS ReserveCapture, ConsumeSnapshot

allVars == <<vars, ReleaseEachRecord>>

(* One of the two programs is started, and stays what it is.               *)
InitEither == Init /\ ReleaseEachRecord \in BOOLEAN
Same(A) == A /\ UNCHANGED ReleaseEachRecord

Loop == start_capture \/ ConsumeStep

Next == Same(BpfStep) \/ Same(UserStep(Loop)) \/ Same(UserStep(Handler))

(* The main thread never blocks: its loop polls.                           *)
Fairness ==
  /\ \A c \in Cpus : WF_allVars(Same(Run(c) /\ UNCHANGED userVars))
  /\ WF_allVars(Same(UserStep(Loop)))

Spec == InitEither /\ [][Next]_allVars /\ Fairness

(***************************************************************************)
(* case3 does not give the space of a record back while the caller uses    *)
(* it; case4 does.                                                         *)
(***************************************************************************)
SampleIntactInCase3 == ~ReleaseEachRecord => SampleIntact

(***************************************************************************)
(* The inductive invariant of case3 and case4: that of a capture, main     *)
(* counts every record but the one in its hands, and in case3 nothing is   *)
(* given back while a record is in its hands.                              *)
(***************************************************************************)
Inv == /\ CaptureInv /\ ElaboratedInv
       /\ ReleaseEachRecord \in BOOLEAN
       /\ ~ReleaseEachRecord => upc # "release" /\ InHands
=============================================================================
