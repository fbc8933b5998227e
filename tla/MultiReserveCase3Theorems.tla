--------------------- MODULE MultiReserveCase3Theorems ---------------------
(***************************************************************************)
(* multi_ringbuf_reserve, case3 and case4, for any number of cpus and      *)
(* rings, any size of ring and of records, either program.                 *)
(***************************************************************************)
EXTENDS MultiReserveCase3, ReserveTheorems

(* The steps of the loop: what each does to the positions, and to the      *)
(* books of main.                                                          *)
LEMMA ReloadKeeps ==
  ASSUME BaseInv, UserStep(Reload)
  PROVE  UserKeeps /\ KeepsBooks
<1> USE BaseRings DEF UserStep, Reload, Running, Cursor, ringVars, bss, sigVars
<1>1. prod_pos' \in [Rings -> Positions] /\ ringbuf_pos \in Rings
  BY UserFacts DEF UserTypeOK, RingTypeOK
<1>2. UserTypeOK' /\ UserFrame
  BY <1>1, UserFacts DEF UserTypeOK, UserFrame, RingTypeOK
<1>3. Looks
  BY <1>1, UserFacts DEF Looks, UserTypeOK
<1>4. QED
  BY <1>2, <1>3 DEF UserKeeps, UserDoes, UserActs, KeepsBooks

(* case3 stores consumer_pos here; case4 does not.                         *)
LEMMA SwitchRingKeeps ==
  ASSUME Inv, UserStep(SwitchRing)
  PROVE  UserKeeps /\ KeepsBooks
<1> USE CaptureBase
        DEF Inv, UserStep, SwitchRing, StoreConsumerPos, Running, Cursor, bss, sigVars
<1>1. ringbuf_pos \in Rings /\ ringbuf_pos' \in Rings
  BY UserFacts, NextRingInRings DEF NextRing, UserTypeOK
<1>2. UserActs
  <2>1. CASE ReleaseEachRecord
    BY <2>1, StayActs DEF ringVars
  <2>2. CASE ~ReleaseEachRecord
    BY <1>1, <2>2 DEF UserActs, GivesBack
  <2>3. QED
    BY <2>1, <2>2
<1>3. UserTypeOK' /\ UserFrame
  BY <1>1, UserFacts DEF UserTypeOK, UserFrame, RingTypeOK, ringVars
<1>4. QED
  BY <1>2, <1>3 DEF UserKeeps, UserDoes, KeepsBooks

LEMMA SpinKeeps ==
  ASSUME BaseInv, UserStep(Spin)
  PROVE  UserKeeps /\ KeepsBooks
BY BaseRings, UserFacts, StayActs
   DEF UserStep, Spin, Running, UserKeeps, UserDoes, UserFrame, UserTypeOK, ringVars,
       bss, userVars, loopVars, sigVars, RingTypeOK, KeepsBooks

LEMMA TakeRecordKeeps ==
  ASSUME Inv, UserStep(TakeRecord)
  PROVE  /\ UserKeeps /\ TakesOne /\ InHands'
         /\ ~ReleaseEachRecord => upc' = "count"
<1> USE CaptureBase
        DEF Inv, UserStep, TakeRecord, Running, Cursor, ringVars, bss, sigVars
<1>1. ringbuf_pos \in Rings /\ Takes(ringbuf_pos) /\ sig' = sig
  BY UserFacts DEF Takes, UserTypeOK
<1>2. ~Discarded(ringbuf_pos) /\ InHands'
  BY <1>1, TakeTypes, TakeInHands
<1>3. upc' = IF ReleaseEachRecord THEN "release" ELSE "count"
  BY <1>2
<1>4. UserTypeOK'
  <2>1. /\ UserTypeOK /\ upc' \in {"release", "count"}
        /\ UNCHANGED <<prod_pos, ringbuf_pos, n_elaborated, sig, report>>
    BY <1>3, UserFacts
  <2>2. /\ cons_pos' \in [Rings -> Positions]
        /\ sample' \in [ring : Rings, pos : Positions]
        /\ taken' \in [Rings -> Seq(Positions)]
    BY <1>1, TakeTypes
  <2>3. QED
    BY ONLY <2>1, <2>2 DEF UserTypeOK
<1>5. UserFrame
  BY UserFacts DEF UserFrame, RingTypeOK
<1>6. QED
  BY <1>1, <1>2, <1>3, <1>4, <1>5 DEF UserKeeps, UserDoes, UserActs, TakesOne

LEMMA ReleaseKeeps ==
  ASSUME Inv, UserStep(Release)
  PROVE  UserKeeps /\ KeepsBooks
<1> USE CaptureBase DEF Inv, UserStep, Release, StoreConsumerPos, Running,
                        Cursor, bss, sigVars
<1>1. ringbuf_pos \in Rings
  BY UserFacts DEF UserTypeOK
<1>2. GivesBack(ringbuf_pos)
  BY DEF GivesBack
<1>3. UserTypeOK' /\ UserFrame
  BY UserFacts DEF UserTypeOK, UserFrame, RingTypeOK
<1>4. KeepsBooks
  BY DEF ElaboratedInv, KeepsBooks
<1>5. QED
  BY <1>1, <1>2, <1>3, <1>4 DEF UserKeeps, UserDoes, UserActs

-----------------------------------------------------------------------------
(* In case3, the space of a record in somebody's hands stays: when any is  *)
(* given back, there is none.                                              *)
HandsInv == ~ReleaseEachRecord => upc # "release" /\ InHands

LEMMA LoopKeeps ==
  ASSUME Inv, Same(UserStep(Loop)) \/ Same(UserStep(Handler))
  PROVE  UserKeeps /\ OneByOne /\ HandsInv'
<1> USE CaptureBase DEF Inv, Same, UserStep, Loop, ConsumeStep, OneByOne, HandsInv
<1>1. CASE UserStep(start_capture)
  <2>1. KeepsBooks /\ HandsInv'
    BY <1>1 DEF start_capture, sigVars, ringVars, KeepsBooks, InHands
  <2>2. QED
    BY <1>1, <2>1, CommonKeeps
<1>2. CASE UserStep(Reload)
  <2>1. HandsInv'
    BY <1>2 DEF Reload, ringVars, InHands
  <2>2. QED
    BY <1>2, <2>1, ReloadKeeps
<1>3. CASE UserStep(SwitchRing)
  <2>1. sample = NULL /\ sample' = NULL /\ upc' = "poll"
    BY <1>3 DEF SwitchRing, ElaboratedInv
  <2>2. HandsInv'
    BY <2>1 DEF InHands
  <2>3. QED
    BY <1>3, <2>2, SwitchRingKeeps
<1>4. CASE UserStep(Spin)
  <2>1. HandsInv'
    BY <1>4 DEF Spin, ringVars, userVars, loopVars, InHands
  <2>2. QED
    BY <1>4, <2>1, SpinKeeps
<1>5. CASE UserStep(TakeRecord)
  BY <1>5, TakeRecordKeeps
<1>6. CASE UserStep(Release)
  <2>1. ReleaseEachRecord /\ HandsInv'
    BY <1>6 DEF Release
  <2>2. QED
    BY <1>6, <2>1, ReleaseKeeps
<1>7. CASE UserStep(CountOne)
  <2>1. HandsInv'
    BY <1>7 DEF CountOne, InHands
  <2>2. QED
    BY <1>7, <2>1, CommonKeeps
<1>8. CASE UserStep(Handler)
  <2>1. HandsInv'
    BY <1>8 DEF Handler, signal_callback, PrintAndExit, ringVars, loopVars, InHands
  <2>2. QED
    BY <1>8, <2>1, CommonKeeps
<1>9. QED
  BY <1>1, <1>2, <1>3, <1>4, <1>5, <1>6, <1>7, <1>8

(* The invariant is inductive, and every step is one of the channels and   *)
(* within the bounds.                                                      *)
LEMMA NextKeeps ==
  Inv /\ [Next]_allVars => /\ Inv' /\ [Channel!Next]_Channel!vars
                            /\ LateStep /\ UnchosenStep
<1> SUFFICES ASSUME Inv, [Next]_allVars
             PROVE  /\ Inv' /\ [Channel!Next]_Channel!vars
                    /\ LateStep /\ UnchosenStep
  OBVIOUS
<1> USE CaptureBase DEF Inv, HandsInv
<1>1. IsFiniteSet(Places(taken)) /\ UNCHANGED ReleaseEachRecord
  BY DEF CaptureInv, ProgramInv, Next, Same, allVars
<1>2. CASE BpfStep
  <2>1. ElaboratedInv'
    BY <1>1, <1>2, BpfStepOutside, BooksKeep DEF OneByOne
  <2>2. HandsInv'
    BY <1>1, <1>2, BpfStepOutside DEF userVars, loopVars, InHands
  <2>3. QED
    BY <1>1, <1>2, <2>1, <2>2, BpfStepKeeps, StepsBounded
<1>3. CASE Same(UserStep(Loop)) \/ Same(UserStep(Handler))
  <2>1. UserKeeps /\ OneByOne /\ HandsInv'
    BY <1>3, LoopKeeps
  <2>2. QED
    BY <1>1, <2>1, BooksKeep, UserStepKeeps, StepsBounded
<1>4. CASE UNCHANGED vars
  <2>1. KeepsBooks /\ HandsInv'
    BY <1>1, <1>4 DEF vars, bpfVars, ringVars, userVars, loopVars, sigVars,
                      KeepsBooks, InHands
  <2>2. UserKeeps
    BY <1>4, StutterBase
  <2>3. QED
    BY <1>1, <2>1, <2>2, BooksKeep, UserStepKeeps, StepsBounded DEF OneByOne
<1>5. QED
  BY <1>2, <1>3, <1>4 DEF Next, Same, allVars

LEMMA InitInv == InitEither => Inv /\ Channel!Init
<1> SUFFICES ASSUME InitEither PROVE Inv /\ Channel!Init
  OBVIOUS
<1>1. upc = "start" /\ sample = NULL
  BY DEF InitEither, Init, UserInit
<1>2. QED
  BY <1>1, InitKeeps, InitBooks DEF InitEither, Inv, InHands

(***************************************************************************)
(* Inv holds in every state of a capture.                                  *)
(***************************************************************************)
THEOREM Invariant == Spec => []Inv
BY InitInv, NextKeeps, PTL DEF Spec

(***************************************************************************)
(* Whichever of the two programs runs: no byte is reserved again before it *)
(* was given back, headers stand, lengths agree, and records are handed    *)
(* out once, in order and finished.                                        *)
(***************************************************************************)
THEOREM RecordsSafe ==
  Spec => [](/\ NoOverrun /\ ConsumerBehind /\ HeadersIntact /\ LengthsAgree
             /\ ExactlyOnceInOrder /\ OnlyCommitted)
<1>1. Inv => /\ NoOverrun /\ ConsumerBehind /\ HeadersIntact /\ LengthsAgree
             /\ ExactlyOnceInOrder /\ OnlyCommitted
  BY CaptureInvPromises DEF Inv
<1>2. QED
  BY <1>1, Invariant, PTL

(***************************************************************************)
(* case3 keeps the bytes of the record in the caller's hands from being    *)
(* reserved again.                                                         *)
(***************************************************************************)
THEOREM SampleIntactHolds == Spec => []SampleIntactInCase3
<1>1. Inv => SampleIntactInCase3
  BY CaptureInvPromises DEF Inv, SampleIntactInCase3
<1>2. QED
  BY <1>1, Invariant, PTL

(***************************************************************************)
(* The handler reports every record handed out, but for one that the main  *)
(* thread had in its hands, wherever in the loop the signal came.          *)
(***************************************************************************)
THEOREM ReportedElaboratedHolds == Spec => []ReportedElaborated
<1>1. Inv => ReportedElaborated
  BY BooksReported DEF Inv
<1>2. QED
  BY <1>1, Invariant, PTL

(***************************************************************************)
(* The books of the program, next to this loop: increments of n_drops get  *)
(* lost, but none is invented and not all are lost; a query never wraps;   *)
(* and with one writer of n_skipped every call is a record, a drop or a    *)
(* skip.                                                                   *)
(***************************************************************************)
THEOREM BooksKept ==
  Spec => [](/\ DropsNotInvented /\ QueryNotNegative
             /\ OneSkips => EveryCallAccounted)
<1>1. Inv => /\ DropsNotInvented /\ QueryNotNegative
             /\ OneSkips => EveryCallAccounted
  BY CaptureInvSafety DEF Inv
<1>2. QED
  BY <1>1, Invariant, PTL

(***************************************************************************)
(* The drops a report can miss are those of programs that were already     *)
(* running when the handler switched capture off.                          *)
(***************************************************************************)
THEOREM LateDropsBoundedHolds == Spec => LateDropsBounded
<1>1. Inv /\ [Next]_allVars => [LateStep]_vars
  BY NextKeeps DEF allVars
<1>2. QED
  BY <1>1, Invariant, PTL DEF Spec, LateDropsBounded, LateStep

(***************************************************************************)
(* get_best_buffer turns no ring down unless userspace has given back more *)
(* than a ring between the two loads of the query.                         *)
(***************************************************************************)
THEOREM UnchosenOnlyIfOutrunHolds == Spec => UnchosenOnlyIfOutrun
<1>1. Inv /\ [Next]_allVars => [UnchosenStep]_vars
  BY NextKeeps DEF allVars
<1>2. QED
  BY <1>1, Invariant, PTL DEF Spec, UnchosenOnlyIfOutrun, UnchosenStep

(***************************************************************************)
(* A capture of case3 or case4 implements the channels of EventChannel,    *)
(* but for what these must do in the end.                                  *)
(***************************************************************************)
THEOREM ImplementsChannelSafely == Spec => Channel!SafeSpec
<1>1. InitEither => Channel!Init
  BY InitInv
<1>2. Inv /\ [Next]_allVars => [Channel!Next]_Channel!vars
  BY NextKeeps
<1>3. QED
  BY <1>1, <1>2, Invariant, PTL DEF Spec, Channel!SafeSpec
=============================================================================
