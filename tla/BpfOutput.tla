----------------------------- MODULE BpfOutput -----------------------------
(***************************************************************************)
(* The program of multi_ringbuf_output.bpf.c: bpf_ringbuf_output copies an *)
(* event of fixed size into the ring of the cpu.  The helper reserves,     *)
(* copies and submits like BpfReserve does in three calls; an event that   *)
(* finds no room is counted in n_skipped, like one that has no ring.       *)
(***************************************************************************)
EXTENDS BpfProgram

bpfVars == <<ringVars, bss, cpuVars, calls>>

BpfInit == RingInit /\ CallsInit

(* The entry of the cpu in the auxiliary map exists wherever its ring does.*)
Enter(c) ==
  /\ EnterProgram(c)
  /\ UseRing(c, RingOf[c])
  /\ UNCHANGED <<ringVars, bss>>

(* err = bpf_ringbuf_output(...); if (err != 0) n_skipped++                *)
OutputFailed(c) ==
  pc[c] = "failed" /\ LoadCounter(c, n_skipped, "store_skip")

(* A run of the program, once entered, goes to its end.                    *)
Run(c) ==
  \/ HelperStep(c) /\ UNCHANGED calls
  \/ OutputFailed(c) \/ LoadSkipped(c) \/ StoreSkipped(c)

BpfNext == \E c \in Cpus : Enter(c) \/ Run(c)
=============================================================================
