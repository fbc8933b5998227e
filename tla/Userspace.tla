----------------------------- MODULE Userspace -----------------------------
(***************************************************************************)
(* What the userspace programs have in common: the state of the one main   *)
(* thread, which polls the rings in a loop, and the SIGINT handler, which  *)
(* runs on that thread between any two of its steps and never returns to   *)
(* it.  The modules ConsumeOne, ConsumeSnapshot and ConsumeAll add the     *)
(* loop of each case.                                                      *)
(***************************************************************************)
EXTENDS Ringbuf

(* The null pointer is not a record in somebody's hands.                   *)
ASSUME SampleAssumption == NULL \notin [ring : Nat, pos : Nat]

VARIABLES
  cons_pos,     \* [ring -> consumer position], private to the thread
  prod_pos,     \* [ring -> last producer position loaded], private
  ringbuf_pos,  \* the ring the next step looks at
  upc,          \* where the main thread stands
  sample,       \* the record in the caller's hands, or NULL
  n_elaborated, \* records the main loop has counted
  taken,        \* history: [ring -> positions of the records handed out]
  sig,          \* "none", "handling" or "exited"
  report        \* the two numbers the handler prints

loopVars == <<cons_pos, prod_pos, ringbuf_pos, upc, sample, n_elaborated,
              taken>>
sigVars  == <<sig, report>>
userVars == <<loopVars, sigVars>>

NoReport == [drops |-> 0, elaborated |-> 0]

(* main() up to the loop: positions are zeroed, attached, then capture is  *)
(* enabled.                                                                *)
UserInit ==
  /\ cons_pos     = [r \in Rings |-> 0]
  /\ prod_pos     = [r \in Rings |-> 0]
  /\ ringbuf_pos  = 0
  /\ upc          = "start"
  /\ sample       = NULL
  /\ n_elaborated = 0
  /\ taken        = [r \in Rings |-> <<>>]
  /\ sig          = "none"
  /\ report       = NoReport

Running == sig = "none"

start_capture ==
  /\ Running /\ upc = "start"
  /\ capture_enabled' = TRUE
  /\ upc' = "poll"
  /\ UNCHANGED <<ringVars, n_drops, n_skipped, cons_pos, prod_pos,
                 ringbuf_pos, sample, n_elaborated, taken, sigVars>>

-----------------------------------------------------------------------------
(* Bug: the handler leaves capture on.                                     *)
signal_callbackCapturing ==
  /\ Running
  /\ sig' = "handling"
  /\ UNCHANGED <<ringVars, bss, loopVars, report>>

(* signal_callback: first capture goes off; programs already past their    *)
(* test of capture_enabled run on.                                         *)
signal_callback ==
  /\ Running
  /\ sig' = "handling"
  /\ capture_enabled' = FALSE
  /\ UNCHANGED <<ringVars, n_drops, n_skipped, loopVars, report>>

(* Then the counters are read and printed, and the process exits.          *)
PrintAndExit ==
  /\ sig = "handling"
  /\ sig' = "exited"
  /\ report' = [drops |-> n_drops, elaborated |-> n_elaborated]
  /\ UNCHANGED <<ringVars, bss, loopVars>>

Handler == signal_callback \/ PrintAndExit

-----------------------------------------------------------------------------
(* Bug: the flags are not cleared.                                         *)
roundup_lenFlagged(len) == ((len + BPF_RINGBUF_HDR_SZ + 7) \div 8) * 8

(* Bytes from a record to the next, out of its header: the word is shifted *)
(* left and right by two, which clears the flags, the header is added, and *)
(* the sum is rounded up to 8.                                             *)
roundup_len(len) ==
  ((((len * 4) % WordSize) \div 4 + BPF_RINGBUF_HDR_SZ + 7) \div 8) * 8

(* The header under the cursor of ring r, as smp_load_acquire reads it.    *)
HeaderAt(r) == hdr[r][Offset(cons_pos[r])]
Busy(r) == HasBit(HeaderAt(r), BPF_RINGBUF_BUSY_BIT)
Discarded(r) == HasBit(HeaderAt(r), BPF_RINGBUF_DISCARD_BIT)

(* Bug: the length of a record is not rounded up to 8.                     *)
StepOverUnrounded(r) ==
  /\ cons_pos' = [cons_pos EXCEPT
                     ![r] = @ + HeaderAt(r) + BPF_RINGBUF_HDR_SZ]
  /\ sample' = [ring |-> r, pos |-> cons_pos[r]]
  /\ taken' = [taken EXCEPT ![r] = Append(@, cons_pos[r])]

(* Step over a committed record; a discarded one yields no sample.         *)
StepOver(r) ==
  /\ cons_pos' = [cons_pos EXCEPT ![r] = @ + roundup_len(HeaderAt(r))]
  /\ IF Discarded(r)
     THEN sample' = NULL /\ UNCHANGED taken
     ELSE /\ sample' = [ring |-> r, pos |-> cons_pos[r]]
          /\ taken' = [taken EXCEPT ![r] = Append(@, cons_pos[r])]

(* consume_one returned 1 with a sample: the main loop counts it and calls *)
(* again, which forgets the sample.                                        *)
CountOne ==
  /\ Running /\ upc = "count"
  /\ n_elaborated' = n_elaborated + 1
  /\ sample' = NULL
  /\ upc' = "poll"
  /\ UNCHANGED <<ringVars, bss, cons_pos, prod_pos, ringbuf_pos, taken,
                 sigVars>>

NextRing(r) == (r + 1) % RING_CNT

-----------------------------------------------------------------------------
UserTypeOK ==
  /\ cons_pos \in [Rings -> Positions]
  /\ prod_pos \in [Rings -> Positions]
  /\ ringbuf_pos \in Rings
  /\ upc \in {"start", "poll", "publish", "release", "count",
              "enter", "refresh", "read"}
  /\ sample \in [ring : Rings, pos : Positions] \cup {NULL}
  /\ n_elaborated \in Nat
  /\ taken \in [Rings -> Seq(Positions)]
  /\ sig \in {"none", "handling", "exited"}
  /\ report \in [drops : Nat, elaborated : Nat]
=============================================================================
