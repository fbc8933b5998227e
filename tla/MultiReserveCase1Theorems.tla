--------------------- MODULE MultiReserveCase1Theorems ---------------------
(***************************************************************************)
(* multi_ringbuf_reserve, case1, for any number of cpus and rings, any     *)
(* size of ring and of records, either program: what its capture promises  *)
(* of every ring, as far as it is safety.                                  *)
(***************************************************************************)
EXTENDS MultiReserveCase1, ReserveTheorems

(* The steps of the loop: what each does to the positions, and to the      *)
(* books of main.                                                          *)
LEMMA RefreshKeeps ==
  ASSUME BaseInv, UserStep(Refresh)
  PROVE  UserKeeps /\ KeepsBooks
<1> USE BaseRings DEF UserStep, Refresh, Running, Cursor, ringVars, bss, sigVars
<1>1. ringbuf_pos \in Rings /\ ringbuf_pos' \in Rings
  BY UserFacts, NextRingInRings DEF NextRing, UserTypeOK
<1>2. prod_pos' \in [Rings -> Positions]
  BY UserFacts DEF UserTypeOK, RingTypeOK
<1>3. UserTypeOK' /\ UserFrame
  BY <1>1, <1>2, UserFacts DEF UserTypeOK, UserFrame, RingTypeOK
<1>4. Looks
  BY <1>1, <1>2, UserFacts DEF Looks, UserTypeOK
<1>5. QED
  BY <1>3, <1>4 DEF UserKeeps, UserDoes, UserActs, KeepsBooks

LEMMA BailOutKeeps ==
  ASSUME BaseInv, UserStep(BailOut)
  PROVE  UserKeeps /\ KeepsBooks
<1>1. ringbuf_pos' \in Rings
  BY BaseRings, UserFacts, NextRingInRings DEF UserStep, BailOut, Cursor, NextRing, UserTypeOK
<1>2. QED
  BY <1>1, BaseRings, UserFacts, StayActs
     DEF UserStep, BailOut, Running, UserKeeps, UserDoes, UserFrame, UserTypeOK, ringVars,
         bss, sigVars, RingTypeOK, KeepsBooks

LEMMA TakeRecordKeeps ==
  ASSUME BaseInv, UserStep(TakeRecord)
  PROVE  UserKeeps /\ TakesOne
<1> USE BaseRings DEF UserStep, TakeRecord, Running, Cursor, ringVars, bss, sigVars
<1>1. ringbuf_pos \in Rings /\ Takes(ringbuf_pos) /\ sig' = sig
  BY UserFacts DEF Takes, UserTypeOK
<1>2. UserTypeOK'
  <2>1. /\ UserTypeOK /\ upc' = "release"
        /\ UNCHANGED <<prod_pos, ringbuf_pos, n_elaborated, sig, report>>
    BY UserFacts
  <2>2. /\ cons_pos' \in [Rings -> Positions]
        /\ sample' \in [ring : Rings, pos : Positions]
        /\ taken' \in [Rings -> Seq(Positions)]
    BY <1>1, TakeTypes
  <2>3. QED
    BY ONLY <2>1, <2>2 DEF UserTypeOK
<1>3. UserFrame
  BY UserFacts DEF UserFrame, RingTypeOK
<1>4. QED
  BY <1>1, <1>2, <1>3 DEF UserKeeps, UserDoes, UserActs, TakesOne

LEMMA ReleaseKeeps ==
  ASSUME Inv, UserStep(Release)
  PROVE  UserKeeps /\ KeepsBooks
<1> USE CaptureBase DEF Inv, UserStep, Release, StoreConsumerPos, Running,
                        Cursor, bss, sigVars
<1>1. ringbuf_pos \in Rings /\ ringbuf_pos' \in Rings
  BY UserFacts, NextRingInRings DEF NextRing, UserTypeOK
<1>2. GivesBack(ringbuf_pos) /\ sig' = sig
  BY DEF GivesBack
<1>3. UserTypeOK' /\ UserFrame
  BY <1>1, UserFacts DEF UserTypeOK, UserFrame, RingTypeOK
<1>4. KeepsBooks
  BY DEF ElaboratedInv, KeepsBooks
<1>5. QED
  BY <1>1, <1>2, <1>3, <1>4 DEF UserKeeps, UserDoes, UserActs

-----------------------------------------------------------------------------
LEMMA LoopKeeps ==
  ASSUME Inv, UserStep(Loop) \/ UserStep(Handler)
  PROVE  UserKeeps /\ OneByOne
<1> USE CaptureBase DEF Inv, UserStep, Loop, ConsumeStep, OneByOne
<1>1. CASE UserStep(start_capture)
  <2>1. KeepsBooks
    BY <1>1 DEF start_capture, sigVars, KeepsBooks
  <2>2. QED
    BY <1>1, <2>1, CommonKeeps
<1>2. CASE UserStep(Refresh) \/ UserStep(BailOut) \/ UserStep(Release)
  BY <1>2, RefreshKeeps, BailOutKeeps, ReleaseKeeps
<1>3. CASE UserStep(TakeRecord)
  BY <1>3, TakeRecordKeeps
<1>4. CASE UserStep(CountOne) \/ UserStep(Handler)
  BY <1>4, CommonKeeps
<1>5. QED
  BY <1>1, <1>2, <1>3, <1>4

(* The invariant is inductive, and every step is one of the channels and   *)
(* within the bounds.                                                      *)
LEMMA NextKeeps ==
  Inv /\ [Next]_vars => /\ Inv' /\ [Channel!Next]_Channel!vars
                        /\ LateStep /\ UnchosenStep
<1> SUFFICES ASSUME Inv, [Next]_vars
             PROVE  /\ Inv' /\ [Channel!Next]_Channel!vars
                    /\ LateStep /\ UnchosenStep
  OBVIOUS
<1> USE CaptureBase DEF Inv
<1>1. IsFiniteSet(Places(taken))
  BY DEF CaptureInv, ProgramInv
<1>2. CASE BpfStep
  <2>1. ElaboratedInv'
    BY <1>1, <1>2, BpfStepOutside, BooksKeep DEF OneByOne
  <2>2. QED
    BY <1>2, <2>1, BpfStepKeeps, StepsBounded
<1>3. CASE UserStep(Loop) \/ UserStep(Handler)
  <2>1. UserKeeps /\ OneByOne
    BY <1>3, LoopKeeps
  <2>2. QED
    BY <1>1, <2>1, BooksKeep, UserStepKeeps, StepsBounded
<1>4. CASE UNCHANGED vars
  <2>1. KeepsBooks
    BY <1>4 DEF vars, userVars, loopVars, sigVars, KeepsBooks
  <2>2. UserKeeps
    BY <1>4, StutterBase
  <2>3. QED
    BY <1>1, <2>1, <2>2, BooksKeep, UserStepKeeps, StepsBounded DEF OneByOne
<1>5. QED
  BY <1>2, <1>3, <1>4 DEF Next

LEMMA InitInv == Init => Inv /\ Channel!Init
BY InitKeeps, InitBooks DEF Inv

(***************************************************************************)
(* Inv holds in every state of a capture.                                  *)
(***************************************************************************)
THEOREM Invariant == Spec => []Inv
BY InitInv, NextKeeps, PTL DEF Spec

(***************************************************************************)
(* Every variable of the programs keeps its type: in particular positions  *)
(* stay multiples of 8 and every header read is one that was written.      *)
(***************************************************************************)
THEOREM TypeCorrect == Spec => []TypeOK
<1>1. Inv => TypeOK
  BY CaptureInvPromises DEF Inv
<1>2. QED
  BY <1>1, Invariant, PTL

(***************************************************************************)
(* No byte of a ring is reserved again before userspace has given it back, *)
(* although reserve looks for room with a consumer_pos loaded before it    *)
(* has the lock.                                                           *)
(***************************************************************************)
THEOREM NoOverrunHolds == Spec => []NoOverrun
<1>1. Inv => NoOverrun
  BY CaptureInvPromises DEF Inv
<1>2. QED
  BY <1>1, Invariant, PTL

(***************************************************************************)
(* Userspace stays behind what was published, and gives back no more than  *)
(* it has read.                                                            *)
(***************************************************************************)
THEOREM ConsumerBehindHolds == Spec => []ConsumerBehind
<1>1. Inv => ConsumerBehind
  BY CaptureInvPromises DEF Inv
<1>2. QED
  BY <1>1, Invariant, PTL

(***************************************************************************)
(* A record not given back lies under its own header: its length, and the  *)
(* busy bit as long as a cpu writes it.  No later record, however stale    *)
(* the consumer_pos its reserve has loaded, has been written over it.      *)
(***************************************************************************)
THEOREM HeadersIntactHolds == Spec => []HeadersIntact
<1>1. Inv => HeadersIntact
  BY CaptureInvPromises DEF Inv
<1>2. QED
  BY <1>1, Invariant, PTL

(***************************************************************************)
(* Userspace steps over a record by the bytes reserve took for it.         *)
(***************************************************************************)
THEOREM LengthsAgreeHolds == Spec => []LengthsAgree
<1>1. Inv => LengthsAgree
  BY CaptureInvPromises DEF Inv
<1>2. QED
  BY <1>1, Invariant, PTL

(***************************************************************************)
(* Every record is handed out at most once, in the order of its ring, with *)
(* none left out before it.                                                *)
(***************************************************************************)
THEOREM ExactlyOnceInOrderHolds == Spec => []ExactlyOnceInOrder
<1>1. Inv => ExactlyOnceInOrder
  BY CaptureInvPromises DEF Inv
<1>2. QED
  BY <1>1, Invariant, PTL

(***************************************************************************)
(* No record is handed out before it was submitted.                        *)
(***************************************************************************)
THEOREM OnlyCommittedHolds == Spec => []OnlyCommitted
<1>1. Inv => OnlyCommitted
  BY CaptureInvPromises DEF Inv
<1>2. QED
  BY <1>1, Invariant, PTL

(***************************************************************************)
(* The handler reports every record handed out, but for one that the main  *)
(* thread had in its hands, wherever in the loop the signal came.          *)
(***************************************************************************)
THEOREM ReportedElaboratedHolds == Spec => []ReportedElaborated
<1>1. Inv => ReportedElaborated
  BY BooksReported DEF Inv
<1>2. QED
  BY <1>1, Invariant, PTL

(***************************************************************************)
(* The fill level get_best_buffer computes from two loads never wraps      *)
(* below zero, whatever userspace gives back between them.                 *)
(***************************************************************************)
THEOREM QueryNotNegativeHolds == Spec => []QueryNotNegative
<1>1. Inv => QueryNotNegative
  BY CaptureInvSafety DEF Inv
<1>2. QED
  BY <1>1, Invariant, PTL

(***************************************************************************)
(* The increments of n_drops race, and lose drops: but they invent none,   *)
(* and never lose them all.                                                *)
(***************************************************************************)
THEOREM DropsNotInventedHolds == Spec => []DropsNotInvented
<1>1. Inv => DropsNotInvented
  BY CaptureInvSafety DEF Inv
<1>2. QED
  BY <1>1, Invariant, PTL

(***************************************************************************)
(* With rings written by the cpu of their own number, and no more than one *)
(* cpu without a ring (so that n_skipped has one writer), every call is a  *)
(* record, a drop or a skip once no cpu is inside the program.             *)
(***************************************************************************)
THEOREM EveryCallAccountedHolds ==
  ASSUME OneSkips
  PROVE  Spec => []EveryCallAccounted
<1>1. Inv => EveryCallAccounted
  BY OneSkips, CaptureInvSafety DEF Inv
<1>2. QED
  BY <1>1, Invariant, PTL

(***************************************************************************)
(* The drops a report can miss are those of programs that were already     *)
(* running when the handler switched capture off.                          *)
(***************************************************************************)
THEOREM LateDropsBoundedHolds == Spec => LateDropsBounded
<1>1. Inv /\ [Next]_vars => [LateStep]_vars
  BY NextKeeps
<1>2. QED
  BY <1>1, Invariant, PTL DEF Spec, LateDropsBounded, LateStep

(***************************************************************************)
(* get_best_buffer turns no ring down unless userspace has given back more *)
(* than a ring between the two loads of the query.                         *)
(***************************************************************************)
THEOREM UnchosenOnlyIfOutrunHolds == Spec => UnchosenOnlyIfOutrun
<1>1. Inv /\ [Next]_vars => [UnchosenStep]_vars
  BY NextKeeps
<1>2. QED
  BY <1>1, Invariant, PTL DEF Spec, UnchosenOnlyIfOutrun, UnchosenStep

(***************************************************************************)
(* A capture of case1 implements the channels of EventChannel, but for     *)
(* what these must do in the end: every step writes, finishes, hands out   *)
(* or gives back as a channel allows, or is not seen there.                *)
(***************************************************************************)
THEOREM ImplementsChannelSafely == Spec => Channel!SafeSpec
<1>1. Init => Channel!Init
  BY InitInv
<1>2. Inv /\ [Next]_vars => [Channel!Next]_Channel!vars
  BY NextKeeps
<1>3. QED
  BY <1>1, <1>2, Invariant, PTL DEF Spec, Channel!SafeSpec
=============================================================================
