--------------------- MODULE SingleReserveCase1Theorems ---------------------
(***************************************************************************)
(* single_ringbuf_reserve, case1, for any number of cpus that share the    *)
(* ring, or do not, any size of the ring and of records.                   *)
(***************************************************************************)
EXTENDS SingleReserveCase1, ReserveTheorems

LEMMA RingIsRing == Ring \in Rings
BY RingAssumption DEF Ring, Rings

(* The steps of the loop: what each does to the positions, and to the      *)
(* books of main.                                                          *)
LEMMA LookAgainKeeps ==
  ASSUME BaseInv, UserStep(LookAgain)
  PROVE  UserKeeps /\ KeepsBooks
<1> USE BaseRings, RingIsRing DEF UserStep, LookAgain, Running, ringVars, bss, sigVars
<1>1. prod_pos' \in [Rings -> Positions]
  BY UserFacts DEF UserTypeOK, RingTypeOK
<1>2. UserTypeOK' /\ UserFrame
  BY <1>1, UserFacts DEF UserTypeOK, UserFrame, RingTypeOK
<1>3. Looks
  BY <1>1, UserFacts DEF Looks, UserTypeOK
<1>4. QED
  BY <1>2, <1>3 DEF UserKeeps, UserDoes, UserActs, KeepsBooks

LEMMA NotYetKeeps ==
  ASSUME BaseInv, UserStep(NotYet)
  PROVE  UserKeeps /\ KeepsBooks
BY BaseRings, UserFacts, StayActs
   DEF UserStep, NotYet, Running, UserKeeps, UserDoes, UserFrame, UserTypeOK, ringVars,
       bss, userVars, loopVars, sigVars, RingTypeOK, KeepsBooks

LEMMA TakeRecordKeeps ==
  ASSUME BaseInv, UserStep(TakeRecord)
  PROVE  UserKeeps /\ TakesOne
<1> USE BaseRings, RingIsRing DEF UserStep, TakeRecord, Running, ringVars, bss, sigVars
<1>1. Takes(Ring) /\ sig' = sig
  BY DEF Takes
<1>2. UserTypeOK'
  <2>1. /\ UserTypeOK /\ upc' = "release"
        /\ UNCHANGED <<prod_pos, ringbuf_pos, n_elaborated, sig, report>>
    BY UserFacts
  <2>2. /\ cons_pos' \in [Rings -> Positions]
        /\ sample' \in [ring : Rings, pos : Positions]
        /\ taken' \in [Rings -> Seq(Positions)]
    BY <1>1, TakeTypes
  <2>3. QED
    BY ONLY <2>1, <2>2 DEF UserTypeOK
<1>3. UserFrame
  BY UserFacts DEF UserFrame, RingTypeOK
<1>4. QED
  BY <1>1, <1>2, <1>3 DEF UserKeeps, UserDoes, UserActs, TakesOne

LEMMA ReleaseKeeps ==
  ASSUME Inv, UserStep(Release)
  PROVE  UserKeeps /\ KeepsBooks
<1> USE CaptureBase, RingIsRing
        DEF Inv, UserStep, Release, StoreConsumerPos, Running, bss, sigVars
<1>1. GivesBack(Ring)
  BY DEF GivesBack
<1>2. UserTypeOK' /\ UserFrame
  BY UserFacts DEF UserTypeOK, UserFrame, RingTypeOK
<1>3. KeepsBooks
  BY DEF ElaboratedInv, KeepsBooks
<1>4. QED
  BY <1>1, <1>2, <1>3 DEF UserKeeps, UserDoes, UserActs

-----------------------------------------------------------------------------
LEMMA LoopKeeps ==
  ASSUME Inv, UserStep(Loop) \/ UserStep(Handler)
  PROVE  UserKeeps /\ OneByOne
<1> USE CaptureBase DEF Inv, UserStep, Loop, ConsumeStep, OneByOne
<1>1. CASE UserStep(start_capture)
  <2>1. KeepsBooks
    BY <1>1 DEF start_capture, sigVars, KeepsBooks
  <2>2. QED
    BY <1>1, <2>1, CommonKeeps
<1>2. CASE UserStep(LookAgain) \/ UserStep(NotYet) \/ UserStep(Release)
  BY <1>2, LookAgainKeeps, NotYetKeeps, ReleaseKeeps
<1>3. CASE UserStep(TakeRecord)
  BY <1>3, TakeRecordKeeps
<1>4. CASE UserStep(CountOne) \/ UserStep(Handler)
  BY <1>4, CommonKeeps
<1>5. QED
  BY <1>1, <1>2, <1>3, <1>4

(* The invariant is inductive, and every step is one of the channel and    *)
(* within the bounds.                                                      *)
LEMMA NextKeeps ==
  Inv /\ [Next]_vars => /\ Inv' /\ [Channel!Next]_Channel!vars
                         /\ LateStep
<1> SUFFICES ASSUME Inv, [Next]_vars
             PROVE  /\ Inv' /\ [Channel!Next]_Channel!vars
                    /\ LateStep
  OBVIOUS
<1> USE CaptureBase DEF Inv
<1>1. IsFiniteSet(Places(taken))
  BY DEF CaptureInv, ProgramInv
<1>2. CASE BpfStep
  <2>1. ElaboratedInv'
    BY <1>1, <1>2, BpfStepOutside, BooksKeep DEF OneByOne
  <2>2. QED
    BY <1>2, <2>1, BpfStepKeeps, StepsBounded
<1>3. CASE UserStep(Loop) \/ UserStep(Handler)
  <2>1. UserKeeps /\ OneByOne
    BY <1>3, LoopKeeps
  <2>2. QED
    BY <1>1, <2>1, BooksKeep, UserStepKeeps, StepsBounded
<1>4. CASE UNCHANGED vars
  <2>1. KeepsBooks
    BY <1>4 DEF vars, userVars, loopVars, sigVars, KeepsBooks
  <2>2. UserKeeps
    BY <1>4, StutterBase
  <2>3. QED
    BY <1>1, <2>1, <2>2, BooksKeep, UserStepKeeps, StepsBounded DEF OneByOne
<1>5. QED
  BY <1>2, <1>3, <1>4 DEF Next

LEMMA InitInv == Init => Inv /\ Channel!Init
BY InitKeeps, InitBooks DEF Inv

(***************************************************************************)
(* Inv holds in every state of a capture.                                  *)
(***************************************************************************)
THEOREM Invariant == Spec => []Inv
BY InitInv, NextKeeps, PTL DEF Spec

(***************************************************************************)
(* All cpus contend for one ring, and yet: no byte is reserved again       *)
(* before it was given back, headers stand, lengths agree, and records are *)
(* handed out once, in order and finished.                                 *)
(***************************************************************************)
THEOREM RecordsSafe ==
  Spec => [](/\ NoOverrun /\ ConsumerBehind /\ HeadersIntact /\ LengthsAgree
             /\ ExactlyOnceInOrder /\ OnlyCommitted /\ ReportedElaborated)
<1>1. Inv => /\ NoOverrun /\ ConsumerBehind /\ HeadersIntact /\ LengthsAgree
             /\ ExactlyOnceInOrder /\ OnlyCommitted /\ ReportedElaborated
  BY CaptureInvPromises, BooksReported DEF Inv
<1>2. QED
  BY <1>1, Invariant, PTL

(***************************************************************************)
(* The books of the program, with all cpus at the one ring: increments of  *)
(* n_drops get lost, but none is invented and not all are lost; and every  *)
(* call is a record, a drop or a skip.                                     *)
(***************************************************************************)
THEOREM BooksKept ==
  ASSUME ~CUSTOMIZED, \A c \in Cpus : RingOf[c] # NULL
  PROVE  Spec => [](DropsNotInvented /\ EveryCallAccounted)
<1>1. OneSkips
  BY DEF OneSkips
<1>2. Inv => DropsNotInvented /\ EveryCallAccounted
  BY <1>1, CaptureInvSafety DEF Inv
<1>3. QED
  BY <1>2, Invariant, PTL

(***************************************************************************)
(* The drops a report can miss are those of programs that were already     *)
(* running when the handler switched capture off.                          *)
(***************************************************************************)
THEOREM LateDropsBoundedHolds == Spec => LateDropsBounded
<1>1. Inv /\ [Next]_vars => [LateStep]_vars
  BY NextKeeps
<1>2. QED
  BY <1>1, Invariant, PTL DEF Spec, LateDropsBounded, LateStep

(***************************************************************************)
(* The capture implements the one channel of EventChannel, but for what    *)
(* this must do in the end.                                                *)
(***************************************************************************)
THEOREM ImplementsChannelSafely == Spec => Channel!SafeSpec
<1>1. Init => Channel!Init
  BY InitInv
<1>2. Inv /\ [Next]_vars => [Channel!Next]_Channel!vars
  BY NextKeeps
<1>3. QED
  BY <1>1, <1>2, Invariant, PTL DEF Spec, Channel!SafeSpec
=============================================================================
