------------------------- MODULE MultiReserveCase2 -------------------------
(***************************************************************************)
(* multi_ringbuf_reserve, case2, and single_ringbuf_reserve, case2: all    *)
(* rings are drained by libbpf's ring_buffer__consume.                     *)
(***************************************************************************)
EXTENDS ReserveCapture, ConsumeAll

allVars == <<vars, callVars>>

InitAll == Init /\ CallInit

Loop == (start_capture /\ UNCHANGED callVars) \/ ConsumeStep

Next ==
  \/ BpfStep /\ UNCHANGED callVars
  \/ UserStep(Loop)
  \/ UserStep(Handler) /\ UNCHANGED callVars

(* The main thread never blocks: its loop polls.                           *)
Fairness ==
  /\ \A c \in Cpus : WF_allVars(Run(c) /\ UNCHANGED <<userVars, callVars>>)
  /\ WF_allVars(UserStep(Loop))

Spec == InitAll /\ [][Next]_allVars /\ Fairness

(***************************************************************************)
(* The inductive invariant of case2: that of a capture; a pass begins at   *)
(* the position it ended; the callback has the record to itself; and what  *)
(* is not counted is what the current call has handed over.                *)
(***************************************************************************)
Inv == /\ CaptureInv /\ SettledInv /\ InHands /\ UncountedIsThisCall
       /\ got_new_data \in BOOLEAN /\ res \in Nat

(***************************************************************************)
(* README.md: "Elaborated: 0 # number of events correctly sent to          *)
(* userspace."  The number reported would be that of the records handed to *)
(* userspace.                                                              *)
(***************************************************************************)
ElaboratedExact == sig = "exited" => report.elaborated = TotalTaken
=============================================================================
