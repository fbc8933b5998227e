----------------------------- MODULE BpfProgram -----------------------------
(***************************************************************************)
(* What the BPF programs of this repository share: each is attached to     *)
(* getpgid and runs, on every cpu at once, for the system calls of the     *)
(* stress processes; it finds its ring in the array of rings by the number *)
(* of its cpu, and counts in .bss the events it could not send.            *)
(***************************************************************************)
EXTENDS Ringbuf, FiniteSets

CONSTANTS
  RingOf,   \* [cpu -> the ring its array entry holds, or NULL]
  MaxCalls  \* bound: system calls of all cpus together

ASSUME ProgramAssumption ==
  /\ IsFiniteSet(Cpus)
  /\ RingOf \in [Cpus -> Rings \cup {NULL}]
  /\ MaxCalls \in Nat

VARIABLE calls  \* runs of the program so far, on all cpus

CallsInit == calls = 0

(* A system call enters the program with capture on.  (With capture off    *)
(* the program returns at once and changes nothing.)                       *)
EnterProgram(c) ==
  /\ pc[c] = "idle"
  /\ calls < MaxCalls
  /\ capture_enabled
  /\ calls' = calls + 1

(* Bug: without a ring the program returns and counts nothing.             *)
UseRingUncounted(c, rb) ==
  IF rb = NULL
  THEN Goto(c, "idle") /\ UNCHANGED call
  ELSE /\ \E n \in Payloads :
            call' = [call EXCEPT ![c].rb = rb, ![c].size = n]
       /\ Goto(c, "reserve")

(* The ring is known: ask for a record of n bytes in it.  Without a ring   *)
(* the event is skipped.                                                   *)
UseRing(c, rb) ==
  IF rb = NULL
  THEN Goto(c, "skip") /\ UNCHANGED call
  ELSE /\ \E n \in Payloads :
            call' = [call EXCEPT ![c].rb = rb, ![c].size = n]
       /\ Goto(c, "reserve")

(* counter++ on a .bss counter is a load and a store, and every cpu shares *)
(* the counter.                                                            *)
LoadCounter(c, counter, next) ==
  /\ call' = [call EXCEPT ![c].old = counter]
  /\ Goto(c, next)
  /\ UNCHANGED <<ringVars, bss, calls>>

LoadSkipped(c) == pc[c] = "skip" /\ LoadCounter(c, n_skipped, "store_skip")

StoreSkipped(c) ==
  /\ pc[c] = "store_skip"
  /\ n_skipped' = call[c].old + 1
  /\ call' = [call EXCEPT ![c] = NoCall]
  /\ Goto(c, "idle")
  /\ UNCHANGED <<ringVars, capture_enabled, n_drops, calls>>

ProgramTypeOK ==
  /\ RingTypeOK
  /\ calls \in 0 .. MaxCalls
=============================================================================
