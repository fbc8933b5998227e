--------------------------- MODULE ReserveCapture ---------------------------
(***************************************************************************)
(* A capture with the reserve API: the program of BpfReserve on every cpu  *)
(* next to a userspace thread, whose loop is left to the module of a case. *)
(***************************************************************************)
EXTENDS BpfReserve, Capture

vars == <<bpfVars, userVars>>

Init == BpfInit /\ UserInit

BpfStep == BpfNext /\ UNCHANGED userVars

UserStep(A) == A /\ UNCHANGED <<cpuVars, progVars>>

(* The kernel runs an entered program to its end; nothing obliges a        *)
(* process to make another system call.                                    *)
BpfFairness == \A c \in Cpus : WF_vars(Run(c) /\ UNCHANGED userVars)

TypeOK == BpfTypeOK /\ UserTypeOK

-----------------------------------------------------------------------------
(***************************************************************************)
(* The increments of n_drops race between cpus and can be lost: the        *)
(* counter never exceeds the events dropped, and once the cpus are done it *)
(* is zero only if nothing was dropped.                                    *)
(***************************************************************************)
DropsNotInvented ==
  /\ n_drops <= dropped
  /\ (\A c \in Cpus : pc[c] \notin {"failed", "store_drop"}) =>
        (dropped > 0 => n_drops > 0)

(***************************************************************************)
(* README.md: "Drops: 0 # number of events dropped (the ring buffer is     *)
(* full)".  When no cpu is inside the program, n_drops would be the number *)
(* of events dropped so far.                                               *)
(***************************************************************************)
DropsExact == (\A c \in Cpus : pc[c] = "idle") => n_drops = dropped

(***************************************************************************)
(* Every system call ends as a record in a ring, a drop, or a skip: with   *)
(* at most one cpu that has no ring, so that n_skipped has one writer, the *)
(* books balance whenever no cpu is inside the program.                    *)
(***************************************************************************)
EveryCallAccounted == (\A c \in Cpus : pc[c] = "idle") =>
  calls = Cardinality(Places(reserved)) + dropped + n_skipped

(***************************************************************************)
(* bpf_ringbuf_query is unsigned: between its two loads userspace may give *)
(* space back, but the difference never wraps below zero.                  *)
(***************************************************************************)
QueryNotNegative == \A c \in Cpus :
  /\ pc[c] = "compare" => scan[c].cons <= producer_pos[scan[c].j]
  /\ scan[c].min >= 0

(***************************************************************************)
(* Whatever userspace reads while get_best_buffer goes around, a ring is   *)
(* too full for an event to be sent anywhere only if userspace gave back   *)
(* more than the whole of it between the two loads of the query: no event  *)
(* is skipped because rings are full.                                      *)
(***************************************************************************)
UnchosenOnlyIfOutrun == [][\A c \in Cpus :
  (pc[c] = "compare" /\ pc'[c] = "query" /\ scan'[c].chosen = NULL) =>
    consumer_pos[scan[c].j] - scan[c].cons > RING_BUF_DIM]_vars

(* The programs that may still find their ring full.                       *)
MayDrop == {c \in Cpus : pc[c] \in {"query", "compare", "reserve", "lock"}}

(***************************************************************************)
(* Once the handler has switched capture off, the drops its report can     *)
(* miss are those of programs already running: drops and programs that can *)
(* still drop together never grow, until the last program is done.         *)
(***************************************************************************)
LateDropsBounded == [][sig # "none" =>
  dropped' + Cardinality(MayDrop') <= dropped + Cardinality(MayDrop)]_vars

-----------------------------------------------------------------------------
(* The inductive invariant behind what is said of the program.             *)

(* A query under way is one of a ring, and the consumer position it has    *)
(* loaded can be old, never ahead; no ring is chosen as long as none was   *)
(* below the start value.                                                  *)
QueryInv == \A c \in Cpus :
  /\ pc[c] = "compare" => /\ scan[c].j \in Rings
                          /\ scan[c].cons <= consumer_pos[scan[c].j]
  /\ scan[c].min >= 0
  /\ scan[c].chosen = NULL => scan[c].min = 2 * RING_BUF_DIM

(* Programs whose event is dropped, and not counted in n_drops yet: what   *)
(* n_drops can still gain.                                                 *)
Dropping == {c \in Cpus : pc[c] \in {"failed", "store_drop"}}

DropsInv ==
  /\ n_drops + Cardinality(Dropping) <= dropped
  /\ \A c \in Cpus : pc[c] = "store_drop" =>
       call[c].old + Cardinality(Dropping) <= dropped
  /\ dropped > 0 => n_drops > 0 \/ Dropping # {}

(* Programs that have yet to end as a record, a drop or a skip.            *)
Undecided == {c \in Cpus : pc[c] \in {"reserve", "lock", "publish", "skip",
                                      "store_skip"}}

(* n_skipped has one writer: cpus write to the ring of their own number,   *)
(* and at most one has none.                                               *)
OneSkips ==
  /\ ~CUSTOMIZED
  /\ \A c, d \in Cpus : RingOf[c] = NULL /\ RingOf[d] = NULL => c = d

AccountInv == OneSkips =>
  /\ \A c \in Cpus : /\ pc[c] \notin {"query", "compare"}
                     /\ pc[c] \in {"skip", "store_skip"} => RingOf[c] = NULL
                     /\ pc[c] = "store_skip" => call[c].old = n_skipped
  /\ calls = Cardinality(Places(reserved)) + dropped + n_skipped
               + Cardinality(Undecided)

(* The handler has switched capture off.                                   *)
StoppedInv == sig # "none" => ~capture_enabled

ProgramInv == /\ QueryInv /\ DropsInv /\ AccountInv /\ StoppedInv
              /\ IsFiniteSet(Places(reserved)) /\ IsFiniteSet(Places(taken))

(***************************************************************************)
(* The inductive invariant of a capture: the positions of every ring leave *)
(* room for the reserves in progress, whatever consumer position they have *)
(* loaded; records lie end to end, each under the header it was given and  *)
(* handed out in turn; and the counters lag behind the events by no more   *)
(* than the programs that are about to count.                              *)
(***************************************************************************)
CaptureInv == SpaceInv /\ RecordInv /\ BpfTypeOK /\ ProgramInv
=============================================================================
