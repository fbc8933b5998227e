--------------------- MODULE MultiReserveCase2Theorems ---------------------
(***************************************************************************)
(* multi_ringbuf_reserve and single_ringbuf_reserve, case2 (libbpf's       *)
(* ring_buffer__consume), for any number of cpus and rings, any size of    *)
(* ring and of records, either program.                                    *)
(***************************************************************************)
EXTENDS MultiReserveCase2, ReserveTheorems

LEMMA InvBase == Inv => BaseInv /\ RingInv
BY CaptureBase DEF Inv

(* What each step of the loop must show: what it does to the positions,    *)
(* and to the records of the current call.                                 *)
CallKeeps == /\ SettledInv' /\ InHands' /\ UncountedIsThisCall'
             /\ got_new_data' \in BOOLEAN /\ res' \in Nat

(* A step that hands over nothing, counts nothing and stays out of a       *)
(* record.                                                                 *)
CallStays ==
  /\ UNCHANGED <<cons_pos, consumer_pos, sample, taken, n_elaborated, res>>
  /\ upc = "release" => upc' = "release" /\ UNCHANGED ringbuf_pos
  /\ got_new_data' \in BOOLEAN
  /\ \/ sig' # "exited"
     \/ UNCHANGED <<sig, report>>
     \/ report'.elaborated = n_elaborated

LEMMA CallStaysKeeps ==
  ASSUME Inv, CallStays
  PROVE  CallKeeps
<1>1. UncountedIsThisCall'
  <2>1. TotalTaken' = TotalTaken /\ n_elaborated' = n_elaborated /\ res' = res
    BY DEF CallStays, TotalTaken, Places
  <2>2. n_elaborated \in Nat /\ res \in Nat
    BY InvBase, UserFacts DEF Inv, UserTypeOK
  <2>3. TotalTaken - res = n_elaborated
    BY <2>2 DEF Inv, UncountedIsThisCall
  <2>4. sig' = "exited" => report'.elaborated = TotalTaken - res
    BY <2>3 DEF Inv, CallStays, UncountedIsThisCall
  <2>5. QED
    BY <2>1, <2>4 DEF Inv, UncountedIsThisCall
<1>2. SettledInv' /\ InHands'
  BY DEF Inv, CallStays, SettledInv, InHands, Cursor
<1>3. QED
  BY <1>1, <1>2 DEF Inv, CallStays, CallKeeps

(* Leaving a ring, for the next or for main.                               *)
LEMMA LeaveRingTypes ==
  ASSUME UserTypeOK, LeaveRing
  PROVE  ringbuf_pos' \in Rings /\ upc' \in {"count", "enter"}
BY RingAssumption DEF UserTypeOK, LeaveRing, Rings

-----------------------------------------------------------------------------
(* The steps of the loop.                                                  *)
LEMMA BeginCallKeeps ==
  ASSUME Inv, UserStep(BeginCall)
  PROVE  UserKeeps /\ CallStays
<1> USE InvBase
        DEF UserStep, BeginCall, At, Running, ringVars, bss, sigVars, callVars
<1>1. 0 \in Rings
  BY RingAssumption DEF Rings
<1>2. UserTypeOK' /\ UserFrame
  BY <1>1, UserFacts DEF UserTypeOK, UserFrame, RingTypeOK
<1>3. QED
  BY <1>2, StayActs DEF UserKeeps, UserDoes, CallStays, Inv

(* The position a pass begins at is the one the last pass ended at.        *)
LEMMA EnterRingKeeps ==
  ASSUME Inv, UserStep(EnterRing)
  PROVE  UserKeeps /\ CallStays
<1> USE InvBase
        DEF UserStep, EnterRing, At, Running, Cursor, ringVars, bss, sigVars, callVars
<1>1. ringbuf_pos \in Rings /\ cons_pos \in [Rings -> Positions]
  BY UserFacts DEF UserTypeOK
<1>2. consumer_pos[ringbuf_pos] = cons_pos[ringbuf_pos]
  BY <1>1 DEF Inv, SettledInv
<1>3. cons_pos' = cons_pos
  BY <1>1, <1>2
<1>4. UserTypeOK' /\ UserFrame
  BY <1>1, <1>3, UserFacts DEF UserTypeOK, UserFrame, RingTypeOK
<1>5. QED
  BY <1>3, <1>4, StayActs DEF UserKeeps, UserDoes, CallStays, Inv

LEMMA RefreshKeeps ==
  ASSUME Inv, UserStep(Refresh)
  PROVE  UserKeeps /\ CallStays
<1> USE InvBase
        DEF UserStep, Refresh, At, Running, Cursor, ringVars, bss, sigVars
<1>1. prod_pos' \in [Rings -> Positions] /\ ringbuf_pos \in Rings
  BY UserFacts DEF UserTypeOK, RingTypeOK
<1>2. UserTypeOK' /\ UserFrame
  BY <1>1, UserFacts DEF UserTypeOK, UserFrame, RingTypeOK
<1>3. Looks
  BY <1>1, UserFacts DEF Looks, UserTypeOK
<1>4. QED
  BY <1>2, <1>3 DEF UserKeeps, UserDoes, UserActs, CallStays

LEMMA EndPassKeeps ==
  ASSUME Inv, UserStep(EndPass) \/ UserStep(BailOut)
  PROVE  UserKeeps /\ CallStays
<1> USE InvBase
        DEF UserStep, EndPass, BailOut, At, Running, ringVars, bss, sigVars, callVars
<1>1. ringbuf_pos' \in Rings /\ upc' \in {"refresh", "count", "enter"}
  BY LeaveRingTypes, UserFacts DEF UserTypeOK
<1>2. UserTypeOK' /\ UserFrame
  BY <1>1, UserFacts DEF UserTypeOK, UserFrame, RingTypeOK
<1>3. QED
  BY <1>2, StayActs DEF UserKeeps, UserDoes, CallStays, Inv

LEMMA TakeRecordKeeps ==
  ASSUME Inv, UserStep(TakeRecord)
  PROVE  UserKeeps /\ CallKeeps
<1> USE InvBase
        DEF Inv, UserStep, TakeRecord, At, Running, Cursor, ringVars, bss, sigVars
<1>1. ringbuf_pos \in Rings /\ Takes(ringbuf_pos) /\ sig' = sig
  BY UserFacts DEF Takes, UserTypeOK
<1>2. UserTypeOK'
  <2>1. /\ UserTypeOK /\ upc' = "release"
        /\ UNCHANGED <<prod_pos, ringbuf_pos, n_elaborated, sig, report>>
    BY UserFacts
  <2>2. /\ cons_pos' \in [Rings -> Positions]
        /\ sample' \in [ring : Rings, pos : Positions]
        /\ taken' \in [Rings -> Seq(Positions)]
    BY <1>1, TakeTypes
  <2>3. QED
    BY ONLY <2>1, <2>2 DEF UserTypeOK
<1>3. UserFrame
  BY UserFacts DEF UserFrame, RingTypeOK
<1>4. UncountedIsThisCall'
  <2>1. ~Discarded(ringbuf_pos)
    BY <1>1, TakeTypes
  <2>2. res' = res + 1 /\ n_elaborated' = n_elaborated
    BY <2>1
  <2>3. TotalTaken \in Nat /\ TotalTaken' = TotalTaken + 1
    BY <1>1, TakeCounts DEF CaptureInv, ProgramInv
  <2>4. n_elaborated \in Nat /\ res \in Nat /\ TotalTaken = n_elaborated + res
    BY UserFacts DEF UserTypeOK, UncountedIsThisCall
  <2>5. TotalTaken' = n_elaborated' + res'
    BY <2>2, <2>3, <2>4
  <2>6. QED
    BY <1>1, <2>5 DEF UncountedIsThisCall
<1>5. SettledInv'
  <2>1. \A r \in Rings : r # ringbuf_pos => cons_pos'[r] = cons_pos[r]
    BY UserFacts DEF StepOver, UserTypeOK
  <2>2. upc' = "release" /\ ringbuf_pos' = ringbuf_pos /\ upc # "release"
        /\ consumer_pos' = consumer_pos
    OBVIOUS
  <2>3. QED
    BY <2>1, <2>2 DEF SettledInv
<1>6. InHands' /\ res' \in Nat /\ got_new_data' \in BOOLEAN
  BY <1>1, TakeInHands
<1>7. QED
  BY <1>1, <1>2, <1>3, <1>4, <1>5, <1>6 DEF UserKeeps, UserDoes, UserActs, CallKeeps

LEMMA ReleaseKeeps ==
  ASSUME Inv, UserStep(Release)
  PROVE  UserKeeps /\ CallKeeps
<1> USE InvBase DEF Inv, UserStep, Release, StoreConsumerPos, At, Running,
                        Cursor, bss, sigVars, callVars
<1>1. ringbuf_pos \in Rings
  BY UserFacts DEF UserTypeOK
<1>2. GivesBack(ringbuf_pos)
  BY DEF GivesBack
<1>3. UserTypeOK' /\ UserFrame
  BY UserFacts DEF UserTypeOK, UserFrame, RingTypeOK
<1>4. SettledInv' /\ InHands'
  BY UserFacts DEF SettledInv, InHands, RingTypeOK
<1>5. UncountedIsThisCall'
  <2>1. TotalTaken' = TotalTaken /\ sig' = sig
    BY DEF TotalTaken, Places
  <2>2. QED
    BY <2>1 DEF UncountedIsThisCall
<1>6. QED
  BY <1>1, <1>2, <1>3, <1>4, <1>5 DEF UserKeeps, UserDoes, UserActs, CallKeeps

(* n_elaborated catches up with the records of the call.                   *)
LEMMA CountAllKeeps ==
  ASSUME Inv, UserStep(CountAll)
  PROVE  UserKeeps /\ CallKeeps
<1> USE InvBase
        DEF Inv, UserStep, CountAll, At, Running, ringVars, bss, sigVars
<1>1. n_elaborated \in Nat /\ n_elaborated' = n_elaborated + res
  BY UserFacts DEF UserTypeOK
<1>2. UserTypeOK' /\ UserFrame
  BY <1>1, UserFacts DEF UserTypeOK, UserFrame, RingTypeOK
<1>3. UncountedIsThisCall'
  <2>1. TotalTaken' = TotalTaken /\ TotalTaken = n_elaborated + res
    BY DEF UncountedIsThisCall, TotalTaken, Places
  <2>2. TotalTaken' = n_elaborated' + res'
    BY <1>1, <2>1
  <2>3. QED
    BY <2>2 DEF UncountedIsThisCall
<1>4. SettledInv' /\ InHands'
  BY DEF SettledInv, InHands, Cursor
<1>5. QED
  BY <1>2, <1>3, <1>4, StayActs DEF UserKeeps, UserDoes, CallKeeps

-----------------------------------------------------------------------------
LEMMA LoopKeeps ==
  ASSUME Inv, UserStep(Loop) \/ (UserStep(Handler) /\ UNCHANGED callVars)
  PROVE  UserKeeps /\ CallKeeps
<1> USE CaptureBase, CallStaysKeeps DEF UserStep, Loop, ConsumeStep
<1>1. CASE UserStep(start_capture) /\ UNCHANGED callVars
  <2>1. CallStays
    BY <1>1 DEF start_capture, ringVars, callVars, sigVars, CallStays, Inv
  <2>2. QED
    BY <1>1, <2>1, CommonKeeps DEF Inv
<1>2. CASE UserStep(BeginCall) \/ UserStep(EnterRing) \/ UserStep(Refresh)
           \/ UserStep(EndPass) \/ UserStep(BailOut)
  BY <1>2, BeginCallKeeps, EnterRingKeeps, RefreshKeeps, EndPassKeeps
<1>3. CASE UserStep(TakeRecord) \/ UserStep(Release) \/ UserStep(CountAll)
  BY <1>3, TakeRecordKeeps, ReleaseKeeps, CountAllKeeps
<1>4. CASE UserStep(Handler) /\ UNCHANGED callVars
  <2>1. CallStays
    BY <1>4 DEF Handler, signal_callback, PrintAndExit, ringVars, loopVars,
                callVars, CallStays, Inv
  <2>2. QED
    BY <1>4, <2>1, CommonKeeps DEF Inv
<1>5. QED
  BY <1>1, <1>2, <1>3, <1>4

(* The invariant is inductive, and every step is one of the channels and   *)
(* within the bounds.                                                      *)
LEMMA NextKeeps ==
  Inv /\ [Next]_allVars => /\ Inv' /\ [Channel!Next]_Channel!vars
                            /\ LateStep /\ UnchosenStep
<1> SUFFICES ASSUME Inv, [Next]_allVars
             PROVE  /\ Inv' /\ [Channel!Next]_Channel!vars
                    /\ LateStep /\ UnchosenStep
  OBVIOUS
<1>1. CaptureInv /\ (CallKeeps /\ CaptureInv' => Inv')
  BY DEF Inv, CallKeeps
<1>2. CASE BpfStep /\ UNCHANGED callVars
  <2>1. CallStays
    BY <1>2, BpfStepOutside
       DEF userVars, loopVars, sigVars, callVars, CallStays, Inv
  <2>2. QED
    BY <1>1, <1>2, <2>1, CallStaysKeeps, BpfStepKeeps, StepsBounded
<1>3. CASE UserStep(Loop) \/ (UserStep(Handler) /\ UNCHANGED callVars)
  BY <1>1, <1>3, LoopKeeps, UserStepKeeps, StepsBounded
<1>4. CASE UNCHANGED allVars
  <2>1. CallStays /\ UNCHANGED vars
    BY <1>4 DEF allVars, vars, bpfVars, ringVars, userVars, loopVars, sigVars,
                callVars, CallStays, Inv
  <2>2. QED
    BY <1>1, <2>1, CallStaysKeeps, CaptureBase, StutterBase, UserStepKeeps, StepsBounded
<1>5. QED
  BY <1>2, <1>3, <1>4 DEF Next

LEMMA InitInv == InitAll => Inv /\ Channel!Init
<1> SUFFICES ASSUME InitAll PROVE Inv /\ Channel!Init
  OBVIOUS
<1> USE DEF InitAll, CallInit
<1>1. CaptureInv /\ Channel!Init
  BY InitKeeps
<1>2. SettledInv /\ InHands
  BY DEF Init, BpfInit, RingInit, UserInit, SettledInv, InHands
<1>3. UncountedIsThisCall
  <2>1. /\ n_elaborated = 0 /\ sig = "none"
        /\ \A r \in Rings : taken[r] = <<>>
    BY DEF Init, UserInit
  <2>2. Places(taken) = {} /\ Cardinality({}) = 0
    BY <2>1, FS_EmptySet DEF Places
  <2>3. QED
    BY <2>1, <2>2 DEF UncountedIsThisCall, TotalTaken
<1>4. QED
  BY <1>1, <1>2, <1>3 DEF Inv

(***************************************************************************)
(* Inv holds in every state of a capture.                                  *)
(***************************************************************************)
THEOREM Invariant == Spec => []Inv
BY InitInv, NextKeeps, PTL DEF Spec

(***************************************************************************)
(* With libbpf's loop as well: no byte is reserved again before it was     *)
(* given back, headers stand, lengths agree, and records are handed out    *)
(* once, in order and finished.                                            *)
(***************************************************************************)
THEOREM RecordsSafe ==
  Spec => [](/\ NoOverrun /\ ConsumerBehind /\ HeadersIntact /\ LengthsAgree
             /\ ExactlyOnceInOrder /\ OnlyCommitted)
<1>1. Inv => /\ NoOverrun /\ ConsumerBehind /\ HeadersIntact /\ LengthsAgree
             /\ ExactlyOnceInOrder /\ OnlyCommitted
  BY CaptureInvPromises DEF Inv
<1>2. QED
  BY <1>1, Invariant, PTL

(***************************************************************************)
(* The callback reads bytes that no cpu has begun to reserve again.        *)
(***************************************************************************)
THEOREM SampleIntactHolds == Spec => []SampleIntact
<1>1. Inv => SampleIntact
  BY CaptureInvPromises DEF Inv
<1>2. QED
  BY <1>1, Invariant, PTL

(***************************************************************************)
(* What main has not counted is what the current call has handed over, and *)
(* the report lacks those records and no others.                           *)
(***************************************************************************)
THEOREM UncountedIsThisCallHolds == Spec => []UncountedIsThisCall
<1>1. Inv => UncountedIsThisCall
  BY DEF Inv
<1>2. QED
  BY <1>1, Invariant, PTL

(***************************************************************************)
(* The books of the program, next to this loop: increments of n_drops get  *)
(* lost, but none is invented and not all are lost; a query never wraps;   *)
(* and with one writer of n_skipped every call is a record, a drop or a    *)
(* skip.                                                                   *)
(***************************************************************************)
THEOREM BooksKept ==
  Spec => [](/\ DropsNotInvented /\ QueryNotNegative
             /\ OneSkips => EveryCallAccounted)
<1>1. Inv => /\ DropsNotInvented /\ QueryNotNegative
             /\ OneSkips => EveryCallAccounted
  BY CaptureInvSafety DEF Inv
<1>2. QED
  BY <1>1, Invariant, PTL

(***************************************************************************)
(* The drops a report can miss are those of programs that were already     *)
(* running when the handler switched capture off.                          *)
(***************************************************************************)
THEOREM LateDropsBoundedHolds == Spec => LateDropsBounded
<1>1. Inv /\ [Next]_allVars => [LateStep]_vars
  BY NextKeeps DEF allVars
<1>2. QED
  BY <1>1, Invariant, PTL DEF Spec, LateDropsBounded, LateStep

(***************************************************************************)
(* get_best_buffer turns no ring down unless userspace has given back more *)
(* than a ring between the two loads of the query.                         *)
(***************************************************************************)
THEOREM UnchosenOnlyIfOutrunHolds == Spec => UnchosenOnlyIfOutrun
<1>1. Inv /\ [Next]_allVars => [UnchosenStep]_vars
  BY NextKeeps DEF allVars
<1>2. QED
  BY <1>1, Invariant, PTL DEF Spec, UnchosenOnlyIfOutrun, UnchosenStep

(***************************************************************************)
(* A capture of case2 implements the channels of EventChannel, but for     *)
(* what these must do in the end.                                          *)
(***************************************************************************)
THEOREM ImplementsChannelSafely == Spec => Channel!SafeSpec
<1>1. InitAll => Channel!Init
  BY InitInv
<1>2. Inv /\ [Next]_allVars => [Channel!Next]_Channel!vars
  BY NextKeeps
<1>3. QED
  BY <1>1, <1>2, Invariant, PTL DEF Spec, Channel!SafeSpec
=============================================================================
