-------------------------- MODULE MultiOutputCase1 --------------------------
(***************************************************************************)
(* multi_ringbuf_output, case1: one ring per cpu written with              *)
(* bpf_ringbuf_output, drained by libbpf's ring_buffer__consume.           *)
(***************************************************************************)
EXTENDS BpfOutput, ConsumeAll

vars == <<bpfVars, userVars, callVars>>

Init == BpfInit /\ UserInit /\ CallInit

Loop == (start_capture /\ UNCHANGED callVars) \/ ConsumeStep

UserStep(A) == A /\ UNCHANGED <<cpuVars, calls>>

Next ==
  \/ BpfNext /\ UNCHANGED <<userVars, callVars>>
  \/ UserStep(Loop)
  \/ UserStep(Handler) /\ UNCHANGED callVars

(* An entered program runs to its end; the main thread never blocks.       *)
Fairness ==
  /\ \A c \in Cpus : WF_vars(Run(c) /\ UNCHANGED <<userVars, callVars>>)
  /\ WF_vars(UserStep(Loop))

Spec == Init /\ [][Next]_vars /\ Fairness

TypeOK == ProgramTypeOK /\ UserTypeOK

(* The system calls whose events are in no ring.                           *)
Lost == calls - Cardinality(Places(reserved))

(***************************************************************************)
(* n_skipped counts both the events that found a full ring and those of a  *)
(* cpu without one, and its increments race between cpus.  With no cpu     *)
(* inside the program, it is at most the number of events lost, and zero   *)
(* only if none was.                                                       *)
(***************************************************************************)
SkippedNotInvented == (\A c \in Cpus : pc[c] = "idle") =>
  n_skipped <= Lost /\ (Lost > 0 => n_skipped > 0)

-----------------------------------------------------------------------------
(* The inductive invariant behind SkippedNotInvented.                      *)

(* Programs whose event may still go into a ring.                          *)
Undecided == {c \in Cpus : pc[c] \in {"reserve", "lock", "publish"}}

(* Programs whose event is lost, and not counted in n_skipped yet: what    *)
(* n_skipped can still gain.                                               *)
Skipping == {c \in Cpus : pc[c] \in {"failed", "skip", "store_skip"}}

SkipsInv ==
  LET missed == Lost - Cardinality(Undecided)
      behind == Cardinality(Skipping)
  IN  /\ n_skipped + behind <= missed
      /\ \A c \in Cpus : pc[c] = "store_skip" => call[c].old + behind <= missed
      /\ missed > 0 => n_skipped > 0 \/ Skipping # {}

(***************************************************************************)
(* The inductive invariant of the capture: records lie and are handed out  *)
(* as in every capture; a pass begins at the position it ended, the        *)
(* callback has the record to itself, and what is not counted is what the  *)
(* current call has handed over; and n_skipped lags behind the lost events *)
(* by no more than the programs that are about to count.                   *)
(***************************************************************************)
Inv == /\ SpaceInv /\ RecordInv /\ ProgramTypeOK
       /\ SettledInv /\ InHands /\ got_new_data \in BOOLEAN /\ res \in Nat
       /\ UncountedIsThisCall /\ IsFiniteSet(Places(taken))
       /\ SkipsInv /\ IsFiniteSet(Places(reserved))

(***************************************************************************)
(* README.md: "Drops: 0 # number of events dropped (the ring buffer is     *)
(* full)".  A handler that is about to print the counters, with no cpu     *)
(* inside the program, would find some drops if events were dropped.       *)
(***************************************************************************)
DropsReported ==
  (sig = "handling" /\ (\A c \in Cpus : pc[c] = "idle") /\ dropped > 0)
    => n_drops > 0
=============================================================================
