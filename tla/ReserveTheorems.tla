-------------------------- MODULE ReserveTheorems --------------------------
(***************************************************************************)
(* What holds of a capture with the program of BpfReserve, whatever the    *)
(* userspace it runs next to: CaptureInv is kept, and every step is one of *)
(* the channels of EventChannel or is not seen there.                      *)
(***************************************************************************)
EXTENDS ReserveCapture, CaptureTheorems

(* The type of the locals of get_best_buffer.                              *)
ScanType == [j : 0 .. RING_CNT, min : Int, chosen : Rings \cup {NULL},
             cons : Positions]

-----------------------------------------------------------------------------
(* A step of cpu c outside the helpers, with what it does to the program's *)
(* own variables.                                                          *)
OutsideStep(c) == \E l, k :
  /\ ProgramMoves(c, l, k)
  /\ pc[c] # "submit"
  /\ calls' \in 0 .. MaxCalls
  /\ scan' \in [Cpus -> ScanType]
  /\ \A d \in Cpus \ {c} : scan'[d] = scan[d]
  /\ l = "compare" => /\ scan'[c].j \in Rings
                      /\ scan'[c].cons <= consumer_pos[scan'[c].j]
  /\ scan'[c].min >= 0
  /\ scan'[c].chosen = NULL => scan'[c].min = 2 * RING_BUF_DIM

(* The invariant but for the counters.                                     *)
BaseInv == SpaceInv /\ RecordInv /\ BpfTypeOK /\ QueryInv

LEMMA BaseRings == BaseInv => RingInv
BY DEF BaseInv, RingInv

LEMMA CaptureBase == CaptureInv => BaseInv /\ RingInv
BY DEF CaptureInv, ProgramInv, BaseInv, RingInv

(* Such a step keeps it, and no channel sees it.                           *)
LEMMA OutsideKeeps ==
  ASSUME BaseInv, NEW c \in Cpus, OutsideStep(c)
  PROVE  BaseInv' /\ UNCHANGED Channel!vars
<1> USE DEF BaseInv
<1>1. PICK l, k :
        /\ ProgramMoves(c, l, k)
        /\ pc[c] # "submit"
        /\ calls' \in 0 .. MaxCalls
        /\ scan' \in [Cpus -> ScanType]
        /\ \A d \in Cpus \ {c} : scan'[d] = scan[d]
        /\ l = "compare" => /\ scan'[c].j \in Rings
                            /\ scan'[c].cons <= consumer_pos[scan'[c].j]
        /\ scan'[c].min >= 0
        /\ scan'[c].chosen = NULL => scan'[c].min = 2 * RING_BUF_DIM
  BY DEF OutsideStep
<1>2. SpaceInv' /\ RecordInv' /\ UNCHANGED Channel!vars
  BY <1>1, ProgramRings DEF RingInv
<1>3. BpfTypeOK'
  BY <1>1, <1>2 DEF BpfTypeOK, ProgramTypeOK, SpaceInv, ScanType
<1>4. QueryInv'
  <2> SUFFICES ASSUME NEW d \in Cpus
      PROVE  /\ pc'[d] = "compare" =>
                  /\ scan'[d].j \in Rings
                  /\ scan'[d].cons <= consumer_pos'[scan'[d].j]
             /\ scan'[d].min >= 0
             /\ scan'[d].chosen = NULL => scan'[d].min = 2 * RING_BUF_DIM
    BY DEF QueryInv
  <2>1. UNCHANGED consumer_pos /\ pc'[c] = l
    BY <1>1 DEF ProgramMoves, ringVars, SpaceInv, RingTypeOK
  <2>2. CASE d = c
    BY <1>1, <2>1, <2>2
  <2>3. CASE d # c
    <3>1. scan'[d] = scan[d] /\ pc'[d] = pc[d]
      BY <1>1, <2>3 DEF ProgramMoves, SpaceInv, RingTypeOK
    <3>2. QED
      BY <2>1, <3>1 DEF QueryInv
  <2>4. QED
    BY <2>2, <2>3
<1>5. QED
  BY <1>2, <1>3, <1>4

(* The types, by name.                                                     *)
LEMMA ProgramTypes ==
  BaseInv => /\ RingTypeOK
             /\ call \in [Cpus -> CallType]
             /\ pc \in [Cpus -> Labels]
             /\ calls \in 0 .. MaxCalls
             /\ scan \in [Cpus -> ScanType]
             /\ \A c \in Cpus :
                  /\ scan[c].min >= 0
                  /\ scan[c].chosen = NULL => scan[c].min = 2 * RING_BUF_DIM
             /\ n_drops \in Nat /\ n_skipped \in Nat /\ dropped \in Nat
BY DEF BaseInv, BpfTypeOK, ProgramTypeOK, RingTypeOK, CallType, ScanType,
       QueryInv

LEMMA EnterOutside ==
  ASSUME BaseInv, NEW c \in Cpus, Enter(c), UNCHANGED userVars
  PROVE  OutsideStep(c)
<1> USE ProgramTypes DEF Enter, EnterProgram
<1>1. RingOf[c] \in Rings \cup {NULL} /\ pc[c] # "publish"
  BY ProgramAssumption
<1>2. \E l, k : ProgramMoves(c, l, k)
  <2>1. CASE CUSTOMIZED
    <3>1. call' = [call EXCEPT ![c] = call[c]] /\ call[c] \in CallType
      BY <2>1
    <3>2. ProgramMoves(c, "query", call[c])
      BY <2>1, <3>1 DEF ProgramMoves, CallType, Labels, Goto, bss
    <3>3. QED
      BY <3>2
  <2>2. CASE ~CUSTOMIZED
    BY <2>2, <1>1, UseRingMoves
  <2>3. QED
    BY <2>1, <2>2, ReserveAssumption
<1>3. calls' \in 0 .. MaxCalls /\ scan' = scan
  BY ProgramAssumption
<1>4. pc'[c] # "compare"
  BY DEF Goto, UseRing
<1>5. PICK l, k : ProgramMoves(c, l, k)
  BY <1>2
<1>6. l # "compare"
  BY <1>4, <1>5 DEF ProgramMoves
<1>7. QED
  BY <1>3, <1>5, <1>6 DEF OutsideStep

LEMMA QueryConsumerOutside ==
  ASSUME BaseInv, NEW c \in Cpus, QueryConsumer(c), UNCHANGED userVars
  PROVE  OutsideStep(c)
<1> USE ProgramTypes DEF QueryConsumer
<1>1. scan[c].j \in Rings
  BY RingAssumption DEF ScanType, Rings
<1>2. consumer_pos[scan[c].j] \in Positions
  BY <1>1 DEF RingTypeOK
<1>3. scan' \in [Cpus -> ScanType] /\ scan'[c].j = scan[c].j
  BY <1>2 DEF ScanType
<1>a. /\ scan'[c].cons = consumer_pos[scan[c].j] /\ scan'[c].min = scan[c].min
      /\ scan'[c].chosen = scan[c].chosen
      /\ consumer_pos[scan[c].j] <= consumer_pos[scan[c].j]
  BY <1>2 DEF ScanType, Positions
<1>4. call' = [call EXCEPT ![c] = call[c]] /\ call[c] \in CallType
  OBVIOUS
<1>5. ProgramMoves(c, "compare", call[c])
  BY <1>4 DEF ProgramMoves, CallType, Labels, Goto, bss
<1>6. QED
  BY <1>1, <1>3, <1>a, <1>5 DEF OutsideStep

LEMMA QueryProducerOutside ==
  ASSUME BaseInv, NEW c \in Cpus, QueryProducer(c), UNCHANGED userVars
  PROVE  OutsideStep(c)
<1> USE ProgramTypes DEF QueryProducer
<1> DEFINE s        == scan[c]
           remained == producer_pos[s.j] - s.cons
           next     == [s EXCEPT !.j = @ + 1, !.cons = 0]
<1>1. s \in ScanType /\ s.j \in Rings
  BY DEF BaseInv, QueryInv
<1>2. remained \in Int /\ remained >= 0
  <2>1. s.cons <= consumer_pos[s.j]
    BY DEF BaseInv, QueryInv
  <2>2. /\ consumer_pos[s.j] <= cons_pos[s.j]
        /\ cons_pos[s.j] <= producer_pos[s.j]
    BY <1>1 DEF BaseInv, RecordInv, ConsumerBehind
  <2>3. /\ consumer_pos[s.j] \in Nat /\ cons_pos[s.j] \in Nat
        /\ producer_pos[s.j] \in Nat /\ s.cons \in Nat
    BY <1>1, PositionTypes DEF BaseInv, ScanType, Positions
  <2>4. QED
    BY <2>1, <2>2, <2>3
<1>3. s.j + 1 \in 0 .. RING_CNT /\ 0 \in Positions
  BY <1>1, RingAssumption DEF Rings, Positions
<1>4. next \in ScanType
  BY <1>1, <1>3 DEF ScanType
<1>5. [next EXCEPT !.min = remained, !.chosen = s.j] \in ScanType
  BY <1>1, <1>2, <1>4 DEF ScanType
<1>6. scan' \in [Cpus -> ScanType] /\ scan'[c].min >= 0
  BY <1>1, <1>2, <1>4, <1>5 DEF ScanType
<1>a. scan'[c].chosen = NULL => scan'[c].min = 2 * RING_BUF_DIM
  <2>1. s.j # NULL
    BY <1>1, RingAssumption DEF Rings
  <2>2. \/ scan'[c].chosen = s.j
        \/ scan'[c].chosen = s.chosen /\ scan'[c].min = s.min
    BY <1>1 DEF ScanType
  <2>3. QED
    BY <2>1, <2>2
<1>7. call' = [call EXCEPT ![c] = call[c]] /\ call[c] \in CallType
  OBVIOUS
<1>8. ProgramMoves(c, "query", call[c])
  BY <1>7 DEF ProgramMoves, CallType, Labels, Goto, bss
<1>9. QED
  BY <1>6, <1>8, <1>a DEF OutsideStep

LEMMA ChooseBestOutside ==
  ASSUME BaseInv, NEW c \in Cpus, ChooseBest(c), UNCHANGED userVars
  PROVE  OutsideStep(c)
<1> USE ProgramTypes DEF ChooseBest
<1>1. scan[c].chosen \in Rings \cup {NULL} /\ pc[c] # "publish"
  BY DEF ScanType
<1>2. ScanStart \in ScanType
  BY RingAssumption DEF ScanStart, ScanType, Positions
<1>3. /\ scan' \in [Cpus -> ScanType] /\ scan'[c].min >= 0
      /\ scan'[c].min = 2 * RING_BUF_DIM
  BY <1>2, RingAssumption DEF ScanStart
<1>4. PICK l, k : ProgramMoves(c, l, k)
  BY <1>1, UseRingMoves
<1>5. l # "compare"
  BY <1>4 DEF ProgramMoves, Goto, UseRing
<1>6. QED
  BY <1>3, <1>4, <1>5 DEF OutsideStep

(* The increments of the counters.                                         *)
LEMMA CountOutside ==
  ASSUME BaseInv, NEW c \in Cpus, Count(c), UNCHANGED scan,
         UNCHANGED userVars
  PROVE  OutsideStep(c)
<1> USE ProgramTypes DEF Goto, bss
<1>1. ASSUME NEW counter \in Nat, NEW next \in {"store_drop", "store_skip"},
             pc[c] \notin {"publish", "submit"}, LoadCounter(c, counter, next)
      PROVE  OutsideStep(c)
  <2> DEFINE k == [call[c] EXCEPT !.old = counter]
  <2>1. k \in CallType /\ call' = [call EXCEPT ![c] = k]
    BY <1>1 DEF CallType, LoadCounter
  <2> HIDE DEF k
  <2>2. ProgramMoves(c, next, k)
    BY <1>1, <2>1 DEF ProgramMoves, LoadCounter, CallType, Labels
  <2>3. QED
    BY <1>1, <2>2 DEF LoadCounter, OutsideStep
<1>2. ASSUME StoreDrops(c) \/ StoreSkipped(c)
      PROVE  OutsideStep(c)
  <2>1. call[c].old + 1 \in Nat
    BY DEF CallType
  <2>2. ProgramMoves(c, "idle", NoCall)
    BY <1>2, <2>1, NoCallType
       DEF ProgramMoves, StoreDrops, StoreSkipped, CallType, Labels, ringVars
  <2>3. QED
    BY <1>2, <2>2 DEF StoreDrops, StoreSkipped, OutsideStep
<1>3. QED
  BY <1>1, <1>2 DEF Count, LoadDrops, LoadSkipped

(* The steps of the helpers.                                               *)
LEMMA HelperKeeps ==
  ASSUME BaseInv, NEW c \in Cpus, HelperStep(c), UNCHANGED progVars,
         UNCHANGED userVars
  PROVE  BaseInv' /\ [Channel!Next]_Channel!vars
<1> USE DEF BaseInv
<1>1. SpaceInv' /\ RecordInv' /\ [Channel!Next]_Channel!vars
  BY HelperRings DEF RingInv
<1>2. BpfTypeOK'
  BY <1>1 DEF BpfTypeOK, ProgramTypeOK, SpaceInv, progVars
<1>3. /\ pc \in [Cpus -> Labels]
      /\ \A d \in Cpus : pc'[d] = "compare" => pc[d] = "compare"
  BY ProgramTypes DEF HelperStep, ReserveLoad, ReserveFull, ReserveHeader,
     ReservePublish, Submit, Goto
<1>4. QueryInv'
  <2>1. UNCHANGED consumer_pos
    BY DEF HelperStep, ReserveLoad, ReserveFull, ReserveHeader,
       ReservePublish, Submit, ringVars
  <2>2. QED
    BY <1>3, <2>1 DEF QueryInv, progVars
<1>5. QED
  BY <1>1, <1>2, <1>4

-----------------------------------------------------------------------------
(* It holds of a capture that begins.                                      *)
LEMMA InitBase == Init => BaseInv /\ Channel!Init
<1> SUFFICES ASSUME Init PROVE BaseInv /\ Channel!Init
  OBVIOUS
<1> USE DEF Init, BpfInit
<1>1. SpaceInv /\ RecordInv /\ Channel!Init
  BY InitRings DEF RingInv
<1>2. calls \in 0 .. MaxCalls
  BY ProgramAssumption DEF CallsInit
<1>3. ScanStart \in ScanType
  BY RingAssumption DEF ScanStart, ScanType, Positions
<1>4. BpfTypeOK
  BY <1>1, <1>2, <1>3 DEF BpfTypeOK, ProgramTypeOK, SpaceInv, ScanType
<1>5. QueryInv
  <2>1. 2 * RING_BUF_DIM >= 0
    BY RingAssumption
  <2>2. \A c \in Cpus : pc[c] = "idle" /\ scan[c].min = 2 * RING_BUF_DIM
    BY DEF RingInit, ScanStart
  <2>3. QED
    BY <2>1, <2>2 DEF QueryInv
<1>6. QED
  BY <1>1, <1>4, <1>5 DEF BaseInv

(* Every step of the BPF side keeps it, and is one of the channels.        *)
LEMMA BpfStepBase ==
  ASSUME BaseInv, BpfStep
  PROVE  BaseInv' /\ [Channel!Next]_Channel!vars
<1>1. PICK c \in Cpus : (Enter(c) \/ Run(c)) /\ UNCHANGED userVars
  BY DEF BpfStep, BpfNext
<1>2. CASE HelperStep(c) /\ UNCHANGED progVars
  BY <1>1, <1>2, HelperKeeps
<1>3. CASE Enter(c) \/ Scan(c) \/ (Count(c) /\ UNCHANGED scan)
  <2>1. OutsideStep(c)
    BY <1>1, <1>3, EnterOutside, QueryConsumerOutside, QueryProducerOutside,
       ChooseBestOutside, CountOutside DEF Scan
  <2>2. QED
    BY <2>1, OutsideKeeps
<1>4. QED
  BY <1>1, <1>2, <1>3 DEF Run

-----------------------------------------------------------------------------
(* What each step of a userspace loop must show, and what follows.         *)
UserKeeps == UserDoes /\ UNCHANGED progVars

LEMMA UserStepBase ==
  ASSUME BaseInv, UserKeeps
  PROVE  BaseInv' /\ [Channel!Next]_Channel!vars
<1> USE DEF BaseInv, UserKeeps
<1>1. SpaceInv' /\ RecordInv' /\ [Channel!Next]_Channel!vars
  BY UserRings DEF RingInv
<1>2. BpfTypeOK'
  BY <1>1 DEF BpfTypeOK, ProgramTypeOK, SpaceInv, progVars
<1>3. QueryInv'
  <2> SUFFICES ASSUME NEW c \in Cpus, pc[c] = "compare"
               PROVE  scan[c].cons <= consumer_pos'[scan[c].j]
    BY DEF QueryInv, progVars, UserDoes, UserFrame, cpuVars
  <2>1. scan[c].j \in Rings /\ scan[c].cons <= consumer_pos[scan[c].j]
    BY DEF QueryInv
  <2>2. scan[c].cons \in Nat
    BY ProgramTypes DEF ScanType, Positions
  <2>3. /\ consumer_pos[scan[c].j] \in Nat /\ consumer_pos'[scan[c].j] \in Nat
        /\ consumer_pos[scan[c].j] <= consumer_pos'[scan[c].j]
    BY <2>1, UserActsMove, PositionTypes DEF RingInv, UserDoes, UserMoves, Positions
  <2>4. QED
    BY <2>1, <2>2, <2>3
<1>4. QED
  BY <1>1, <1>2, <1>3

(* The steps every loop has in common.                                     *)
LEMMA CommonKeeps ==
  ASSUME BaseInv,
         UserStep(start_capture) \/ UserStep(Handler) \/ UserStep(CountOne)
  PROVE  UserKeeps
BY BaseRings, CommonDoes DEF UserStep, UserKeeps

-----------------------------------------------------------------------------
(* The counters.                                                           *)

(* Where a step takes the program on cpu c, and what it adds to the        *)
(* counters and to the histories.                                          *)
Goes(c, a, b) == pc[c] = a /\ pc'[c] = b

CountersStay == UNCHANGED <<calls, reserved, dropped, n_drops, n_skipped>>

Walk(c) ==
  \/ /\ capture_enabled /\ pc[c] = "idle"
     /\ pc'[c] = IF CUSTOMIZED THEN "query"
                 ELSE IF RingOf[c] = NULL THEN "skip" ELSE "reserve"
     /\ calls' = calls + 1
     /\ UNCHANGED <<reserved, dropped, n_drops, n_skipped>>
  \/ pc[c] = "query" /\ pc'[c] \in {"compare", "reserve", "skip"} /\ CountersStay
  \/ Goes(c, "compare", "query") /\ CountersStay
  \/ Goes(c, "reserve", "lock") /\ CountersStay
  \/ Goes(c, "lock", "publish") /\ CountersStay
  \/ /\ Goes(c, "lock", "failed") /\ dropped' = dropped + 1
     /\ UNCHANGED <<calls, reserved, n_drops, n_skipped>>
  \/ /\ Goes(c, "publish", "submit") /\ ReservePublish(c)
     /\ UNCHANGED <<calls, dropped, n_drops, n_skipped>>
  \/ Goes(c, "submit", "idle") /\ CountersStay
  \/ /\ Goes(c, "failed", "store_drop") /\ CountersStay
     /\ call'[c].old = n_drops
  \/ /\ Goes(c, "store_drop", "idle") /\ n_drops' = call[c].old + 1
     /\ UNCHANGED <<calls, reserved, dropped, n_skipped>>
  \/ /\ Goes(c, "skip", "store_skip") /\ CountersStay
     /\ call'[c].old = n_skipped
  \/ /\ Goes(c, "store_skip", "idle") /\ n_skipped' = call[c].old + 1
     /\ UNCHANGED <<calls, reserved, dropped, n_drops>>

LEMMA RunWalks ==
  ASSUME BaseInv, NEW c \in Cpus, Enter(c) \/ Run(c)
  PROVE  /\ Walk(c)
         /\ \A d \in Cpus \ {c} : pc'[d] = pc[d] /\ call'[d] = call[d]
         /\ UNCHANGED capture_enabled
<1> USE ProgramTypes DEF Goto, bss, ringVars, progVars
<1>1. CASE Enter(c)
  BY <1>1 DEF Enter, EnterProgram, UseRing, Walk
<1>2. CASE Scan(c)
  BY <1>2 DEF Scan, QueryConsumer, QueryProducer, ChooseBest, UseRing, Walk,
              Goes, CountersStay
<1>3. CASE HelperStep(c) /\ UNCHANGED progVars
  <2>1. CASE ReserveLoad(c)
    BY <1>3, <2>1 DEF ReserveLoad, Walk, Goes, CountersStay
  <2>2. CASE ReserveFull(c)
    BY <1>3, <2>2 DEF ReserveFull, Walk, Goes
  <2>3. CASE ReserveHeader(c)
    BY <1>3, <2>3 DEF ReserveHeader, Walk, Goes, CountersStay
  <2>4. CASE ReservePublish(c)
    <3>1. /\ Goes(c, "publish", "submit")
          /\ UNCHANGED <<calls, dropped, n_drops, n_skipped, capture_enabled>>
          /\ \A d \in Cpus \ {c} : pc'[d] = pc[d] /\ call'[d] = call[d]
      BY <1>3, <2>4 DEF ReservePublish, Goes
    <3>2. QED
      BY <2>4, <3>1 DEF Walk
  <2>5. CASE Submit(c)
    BY <1>3, <2>5 DEF Submit, Walk, Goes, CountersStay
  <2>6. QED
    BY <1>3, <2>1, <2>2, <2>3, <2>4, <2>5 DEF HelperStep
<1>4. CASE Count(c) /\ UNCHANGED scan
  <2>1. CASE LoadDrops(c)
    BY <2>1 DEF LoadDrops, LoadCounter, Walk, Goes, CountersStay, CallType
  <2>2. CASE StoreDrops(c)
    BY <2>2 DEF StoreDrops, Walk, Goes
  <2>3. CASE LoadSkipped(c)
    BY <2>3 DEF LoadSkipped, LoadCounter, Walk, Goes, CountersStay, CallType
  <2>4. CASE StoreSkipped(c)
    BY <2>4 DEF StoreSkipped, Walk, Goes
  <2>5. QED
    BY <1>4, <2>1, <2>2, <2>3, <2>4 DEF Count
<1>5. QED
  BY <1>1, <1>2, <1>3, <1>4 DEF Run

(* A cpu whose event was dropped stands for what n_drops still lacks.      *)
LEMMA DropsKeep ==
  ASSUME BaseInv, DropsInv, NEW c \in Cpus, Walk(c),
         \A d \in Cpus \ {c} : pc'[d] = pc[d] /\ call'[d] = call[d]
  PROVE  DropsInv'
<1> DEFINE L == {"failed", "store_drop"}
           n == Cardinality(Dropping)
           m == Cardinality(AtLabels(pc', L))
<1>1. /\ n \in Nat /\ m \in Nat
      /\ m + (IF pc[c] \in L THEN 1 ELSE 0) = n + (IF pc'[c] \in L THEN 1 ELSE 0)
  <2>1. Dropping = AtLabels(pc, L)
    BY DEF Dropping, AtLabels
  <2> HIDE DEF L
  <2>2. QED
    BY <2>1, LabelCount
<1>2. /\ dropped \in Nat /\ n_drops \in Nat
      /\ \A d \in Cpus : call[d].old \in Nat
  BY ProgramTypes DEF CallType
<1>3. /\ n_drops + n <= dropped
      /\ \A d \in Cpus : pc[d] = "store_drop" => call[d].old + n <= dropped
      /\ dropped > 0 => n_drops > 0 \/ Dropping # {}
  BY DEF DropsInv
<1>4. Dropping' = AtLabels(pc', L)
  BY DEF Dropping, AtLabels
<1> HIDE DEF n, m
<1>5. SUFFICES
        /\ n_drops' + m <= dropped'
        /\ \A d \in Cpus : pc'[d] = "store_drop" => call'[d].old + m <= dropped'
        /\ dropped' > 0 => n_drops' > 0 \/ \E d \in Cpus : pc'[d] \in L
  BY <1>4 DEF DropsInv, AtLabels, m
<1>6. (\E d \in Cpus : pc[d] \in L) <=> Dropping # {}
  BY DEF Dropping
<1>7. CASE pc[c] \notin L /\ pc'[c] \notin L /\ UNCHANGED <<dropped, n_drops>>
  BY <1>1, <1>3, <1>6, <1>7
<1>8. CASE pc[c] \notin L /\ pc'[c] = "failed" /\ dropped' = dropped + 1
           /\ UNCHANGED n_drops
  BY <1>1, <1>2, <1>3, <1>8
<1>9. CASE /\ Goes(c, "failed", "store_drop") /\ CountersStay
           /\ call'[c].old = n_drops
  BY <1>1, <1>2, <1>3, <1>9 DEF Goes, CountersStay
<1>10. CASE /\ Goes(c, "store_drop", "idle") /\ n_drops' = call[c].old + 1
            /\ UNCHANGED <<calls, reserved, dropped, n_skipped>>
  BY <1>1, <1>2, <1>3, <1>10 DEF Goes
<1>11. QED
  BY <1>7, <1>8, <1>9, <1>10 DEF Walk, Goes, CountersStay

(* Every call is a record, a drop, a skip, or under way to one of them.    *)
LEMMA AccountKeeps ==
  ASSUME BaseInv, AccountInv, IsFiniteSet(Places(reserved)),
         NEW c \in Cpus, Walk(c),
         \A d \in Cpus \ {c} : pc'[d] = pc[d] /\ call'[d] = call[d]
  PROVE  AccountInv' /\ IsFiniteSet(Places(reserved))'
<1> DEFINE L == {"reserve", "lock", "publish", "skip", "store_skip"}
           n == Cardinality(Undecided)
           m == Cardinality(AtLabels(pc', L))
           k == Cardinality(Places(reserved))
<1>1. /\ n \in Nat /\ m \in Nat
      /\ m + (IF pc[c] \in L THEN 1 ELSE 0) = n + (IF pc'[c] \in L THEN 1 ELSE 0)
  <2>1. Undecided = AtLabels(pc, L)
    BY DEF Undecided, AtLabels
  <2> HIDE DEF L
  <2>2. QED
    BY <2>1, LabelCount
<1>2. /\ dropped \in Nat /\ n_skipped \in Nat /\ calls \in Nat /\ k \in Nat
      /\ \A d \in Cpus : call[d].old \in Nat
  BY ProgramTypes, FS_CardinalityType DEF CallType
<1>3. ASSUME ReservePublish(c)
      PROVE  /\ IsFiniteSet(Places(reserved))'
             /\ Cardinality(Places(reserved))' = k + 1
  <2> DEFINE r == call[c].rb
  <2>1. /\ r \in Rings /\ DOMAIN reserved'[r] = 1 .. Len(reserved[r]) + 1
        /\ \A q \in Rings \ {r} : reserved'[q] = reserved[q]
    BY <1>3, PublishFacts DEF BaseInv
  <2>2. Len(reserved[r]) \in Nat /\ DOMAIN reserved[r] = 1 .. Len(reserved[r])
    BY <2>1, RecordTypes DEF BaseInv
  <2> HIDE DEF r
  <2>3. /\ IsFiniteSet(Places(reserved'))
        /\ Cardinality(Places(reserved')) = Cardinality(Places(reserved)) + 1
    BY <2>1, <2>2, PlacesAppend
  <2>4. Places(reserved)' = Places(reserved')
    BY DEF Places
  <2>5. QED
    BY <2>3, <2>4
<1>4. reserved' = reserved => UNCHANGED Places(reserved)
  BY DEF Places
<1>5. IsFiniteSet(Places(reserved))'
  BY <1>3, <1>4 DEF Walk, CountersStay
<1>6. Undecided' = AtLabels(pc', L)
  BY DEF Undecided, AtLabels
<1> HIDE DEF n, m, k
<1>7. ASSUME OneSkips
      PROVE  /\ \A d \in Cpus :
                  /\ pc'[d] \notin {"query", "compare"}
                  /\ pc'[d] \in {"skip", "store_skip"} => RingOf[d] = NULL
                  /\ pc'[d] = "store_skip" => call'[d].old = n_skipped'
             /\ calls' = Cardinality(Places(reserved))' + dropped' + n_skipped' + m
  <2>1. /\ \A d \in Cpus :
             /\ pc[d] \notin {"query", "compare"}
             /\ pc[d] \in {"skip", "store_skip"} => RingOf[d] = NULL
             /\ pc[d] = "store_skip" => call[d].old = n_skipped
        /\ calls = k + dropped + n_skipped + n
        /\ ~CUSTOMIZED
    BY <1>7 DEF AccountInv, OneSkips, n, k
  <2>2. ASSUME NEW d \in Cpus, d # c, RingOf[c] = NULL
        PROVE  pc[d] # "store_skip"
    BY <2>1, <2>2, <1>7 DEF OneSkips
  <2> DEFINE k1 == Cardinality(Places(reserved))'
  <2>3. /\ reserved' = reserved => k1 = k
        /\ ReservePublish(c) => k1 = k + 1
    BY <1>3, <1>4 DEF k
  <2> HIDE DEF k1
  <2>4. calls' = k1 + dropped' + n_skipped' + m
    <3>1. CASE Goes(c, "publish", "submit") /\ ReservePublish(c)
               /\ UNCHANGED <<calls, dropped, n_skipped>>
      BY <3>1, <1>1, <1>2, <2>1, <2>3 DEF Goes
    <3>2. CASE ~(Goes(c, "publish", "submit") /\ ReservePublish(c)
                 /\ UNCHANGED <<calls, dropped, n_skipped>>)
      BY <3>2, <1>1, <1>2, <2>1, <2>3 DEF Walk, Goes, CountersStay
    <3>3. QED
      BY <3>1, <3>2
  <2>5. ASSUME NEW d \in Cpus
        PROVE  /\ pc'[d] \notin {"query", "compare"}
               /\ pc'[d] \in {"skip", "store_skip"} => RingOf[d] = NULL
               /\ pc'[d] = "store_skip" => call'[d].old = n_skipped'
    <3>1. CASE d = c
      BY <3>1, <2>1 DEF Walk, Goes, CountersStay
    <3>2. CASE d # c
      BY <3>2, <2>1, <2>2 DEF Walk, Goes, CountersStay
    <3>3. QED
      BY <3>1, <3>2
  <2>6. QED
    BY <2>4, <2>5 DEF k1
<1>8. OneSkips' <=> OneSkips
  BY DEF OneSkips
<1>9. AccountInv'
  BY <1>6, <1>7, <1>8 DEF AccountInv, m
<1>10. QED
  BY <1>5, <1>9

(* Without capture, no program begins: those that may drop get fewer by    *)
(* every drop.                                                             *)
LEMMA LateDropsStep ==
  ASSUME BaseInv, NEW c \in Cpus, Walk(c), ~capture_enabled,
         \A d \in Cpus \ {c} : pc'[d] = pc[d] /\ call'[d] = call[d]
  PROVE  dropped' + Cardinality(MayDrop') <= dropped + Cardinality(MayDrop)
<1> DEFINE L == {"query", "compare", "reserve", "lock"}
           n == Cardinality(MayDrop)
           m == Cardinality(AtLabels(pc', L))
<1>1. /\ n \in Nat /\ m \in Nat
      /\ m + (IF pc[c] \in L THEN 1 ELSE 0) = n + (IF pc'[c] \in L THEN 1 ELSE 0)
  <2>1. MayDrop = AtLabels(pc, L)
    BY DEF MayDrop, AtLabels
  <2> HIDE DEF L
  <2>2. QED
    BY <2>1, LabelCount
<1>2. dropped \in Nat
  BY ProgramTypes
<1>3. MayDrop' = AtLabels(pc', L)
  BY DEF MayDrop, AtLabels
<1> HIDE DEF n, m
<1>4. dropped' + m <= dropped + n
  BY <1>1, <1>2 DEF Walk, Goes, CountersStay
<1>5. QED
  BY <1>3, <1>4 DEF n, m

(* A query leaves its ring, and every one before it, only if userspace has *)
(* given back more than a ring since the first of its loads.               *)
UnchosenStep == \A c \in Cpus :
  (pc[c] = "compare" /\ pc'[c] = "query" /\ scan'[c].chosen = NULL) =>
    consumer_pos[scan[c].j] - scan[c].cons > RING_BUF_DIM

LEMMA BpfStepQueries ==
  ASSUME BaseInv, BpfStep
  PROVE  UnchosenStep
<1>1. PICK c \in Cpus : Enter(c) \/ Run(c)
  BY DEF BpfStep, BpfNext
<1>2. SUFFICES ASSUME NEW d \in Cpus, pc[d] = "compare", pc'[d] = "query",
                      scan'[d].chosen = NULL
               PROVE  consumer_pos[scan[d].j] - scan[d].cons > RING_BUF_DIM
  BY DEF UnchosenStep
<1>3. d = c
  BY <1>1, <1>2, RunWalks
<1>4. QueryProducer(d)
  BY <1>1, <1>2, <1>3
     DEF Enter, EnterProgram, Run, Scan, QueryConsumer, ChooseBest, HelperStep,
         ReserveLoad, ReserveFull, ReserveHeader, ReservePublish, Submit, Count,
         LoadDrops, StoreDrops, LoadSkipped, StoreSkipped, LoadCounter
<1> DEFINE s        == scan[d]
           remained == producer_pos[s.j] - s.cons
<1>5. s \in ScanType /\ s.j \in Rings /\ s.j # NULL
  BY <1>2, ProgramTypes, RingAssumption DEF BaseInv, QueryInv, Rings
<1>6. ~(remained <= s.min) /\ s.chosen = NULL
  BY <1>2, <1>4, <1>5, ProgramTypes DEF QueryProducer, ScanType
<1>7. s.min = 2 * RING_BUF_DIM
  BY <1>6, ProgramTypes
<1>8. producer_pos[s.j] - consumer_pos[s.j] <= RING_BUF_DIM - 1
  BY <1>5 DEF BaseInv, SpaceInv, BoundInv, mask
<1>9. /\ producer_pos[s.j] \in Nat /\ consumer_pos[s.j] \in Nat
      /\ s.cons \in Nat /\ RING_BUF_DIM \in Nat
  BY <1>5, PositionTypes, RingAssumption DEF BaseInv, ScanType, Positions
<1>10. QED
  BY ONLY <1>6, <1>7, <1>8, <1>9

(* Nothing happens.                                                        *)
LEMMA StutterBase ==
  ASSUME BaseInv, UNCHANGED vars
  PROVE  UserKeeps /\ UNCHANGED Channel!vars
BY BaseRings, NothingDoes DEF vars, bpfVars, progVars, UserKeeps

-----------------------------------------------------------------------------
(* Every step of userspace keeps the whole invariant.                      *)
LEMMA UserStepKeeps ==
  ASSUME CaptureInv, UserKeeps
  PROVE  CaptureInv' /\ [Channel!Next]_Channel!vars
<1> USE CaptureBase, BaseRings
<1>1. BaseInv' /\ [Channel!Next]_Channel!vars
  BY UserStepBase
<1>2. DropsInv' /\ AccountInv'
  BY DEF CaptureInv, ProgramInv, UserKeeps, UserDoes, UserFrame, cpuVars, progVars,
         DropsInv, Dropping, AccountInv, OneSkips, Undecided, Places
<1>3. StoppedInv'
  BY DEF CaptureInv, ProgramInv, UserKeeps, UserDoes, StoppedInv
<1>4. IsFiniteSet(Places(reserved))'
  BY DEF CaptureInv, ProgramInv, UserKeeps, UserDoes, UserFrame, Places
<1>5. IsFiniteSet(Places(taken))'
  <2>1. ASSUME NEW r \in Rings, Takes(r)
        PROVE  IsFiniteSet(Places(taken))'
    BY <2>1, TakeCounts DEF CaptureInv, ProgramInv
  <2>2. CASE UNCHANGED taken
    BY <2>2 DEF CaptureInv, ProgramInv, Places
  <2>3. QED
    BY <2>1, <2>2 DEF UserKeeps, UserDoes, UserActs, Looks, GivesBack
<1>6. QED
  BY <1>1, <1>2, <1>3, <1>4, <1>5 DEF CaptureInv, ProgramInv, BaseInv

(* So does every step of the BPF side; and those that come after capture   *)
(* went off drop no more than LateDropsBounded says.                       *)
LEMMA BpfStepKeeps ==
  ASSUME CaptureInv, BpfStep
  PROVE  /\ CaptureInv' /\ [Channel!Next]_Channel!vars
         /\ sig # "none" => dropped' + Cardinality(MayDrop')
                              <= dropped + Cardinality(MayDrop)
<1> USE CaptureBase, BaseRings
<1>1. BaseInv' /\ [Channel!Next]_Channel!vars
  BY BpfStepBase
<1>2. PICK c \in Cpus : (Enter(c) \/ Run(c)) /\ UNCHANGED userVars
  BY DEF BpfStep, BpfNext
<1>3. /\ Walk(c) /\ UNCHANGED capture_enabled
      /\ \A d \in Cpus \ {c} : pc'[d] = pc[d] /\ call'[d] = call[d]
  BY <1>2, RunWalks
<1>4. DropsInv'
  BY <1>3, DropsKeep DEF CaptureInv, ProgramInv
<1>5. AccountInv' /\ IsFiniteSet(Places(reserved))'
  BY <1>3, AccountKeeps DEF CaptureInv, ProgramInv
<1>6. UNCHANGED <<sig, taken>>
  BY <1>2 DEF userVars, sigVars, loopVars
<1>7. StoppedInv' /\ IsFiniteSet(Places(taken))'
  BY <1>3, <1>6 DEF CaptureInv, ProgramInv, StoppedInv, Places
<1>8. sig # "none" => ~capture_enabled
  BY DEF CaptureInv, ProgramInv, StoppedInv
<1>9. QED
  BY <1>1, <1>3, <1>4, <1>5, <1>7, <1>8, LateDropsStep
     DEF CaptureInv, ProgramInv, BaseInv

(* The invariant holds of a capture that begins.                           *)
LEMMA InitKeeps == Init => CaptureInv /\ Channel!Init
<1> SUFFICES ASSUME Init PROVE CaptureInv /\ Channel!Init
  OBVIOUS
<1>1. BaseInv /\ Channel!Init
  BY InitBase
<1>2. /\ \A c \in Cpus : pc[c] = "idle"
      /\ dropped = 0 /\ n_drops = 0 /\ n_skipped = 0 /\ calls = 0
      /\ sig = "none"
      /\ \A r \in Rings : reserved[r] = <<>> /\ taken[r] = <<>>
  BY DEF Init, BpfInit, RingInit, CallsInit, UserInit
<1>3. /\ Dropping = {} /\ Undecided = {}
      /\ Places(reserved) = {} /\ Places(taken) = {}
  BY <1>2 DEF Dropping, Undecided, Places
<1>4. IsFiniteSet({}) /\ Cardinality({}) = 0
  BY FS_EmptySet
<1>5. DropsInv /\ AccountInv /\ StoppedInv
  BY <1>2, <1>3, <1>4 DEF DropsInv, AccountInv, StoppedInv
<1>6. QED
  BY <1>1, <1>3, <1>4, <1>5 DEF CaptureInv, ProgramInv, BaseInv

(* What the invariant says of the counters.                                *)
LEMMA CaptureInvSafety ==
  CaptureInv => /\ QueryNotNegative
                /\ DropsNotInvented
                /\ OneSkips => EveryCallAccounted
<1> SUFFICES ASSUME CaptureInv
             PROVE  /\ QueryNotNegative
                    /\ DropsNotInvented
                    /\ OneSkips => EveryCallAccounted
  OBVIOUS
<1> USE CaptureBase, BaseRings
<1>1. QueryNotNegative
  <2> SUFFICES ASSUME NEW c \in Cpus, pc[c] = "compare"
               PROVE  scan[c].cons <= producer_pos[scan[c].j]
    BY ProgramTypes DEF QueryNotNegative
  <2> DEFINE r == scan[c].j
  <2>1. r \in Rings /\ scan[c].cons <= consumer_pos[r]
    BY DEF BaseInv, QueryInv
  <2>2. consumer_pos[r] <= cons_pos[r] /\ cons_pos[r] <= producer_pos[r]
    BY <2>1 DEF BaseInv, RecordInv, ConsumerBehind
  <2>3. scan[c].cons \in Nat
    BY ProgramTypes DEF ScanType, Positions
  <2>4. QED
    BY <2>1, <2>2, <2>3, PositionTypes DEF BaseInv
<1>2. DropsNotInvented
  <2>1. Dropping \subseteq Cpus
    BY DEF Dropping
  <2>2. Cardinality(Dropping) \in Nat
    BY <2>1, ProgramAssumption, FS_Subset, FS_CardinalityType
  <2>3. n_drops \in Nat /\ dropped \in Nat
    BY ProgramTypes
  <2>4. /\ n_drops + Cardinality(Dropping) <= dropped
        /\ dropped > 0 => n_drops > 0 \/ Dropping # {}
    BY DEF CaptureInv, ProgramInv, DropsInv
  <2>5. (\A c \in Cpus : pc[c] \notin {"failed", "store_drop"}) => Dropping = {}
    BY DEF Dropping
  <2>6. QED
    BY <2>2, <2>3, <2>4, <2>5 DEF DropsNotInvented
<1>3. OneSkips => EveryCallAccounted
  <2> SUFFICES ASSUME OneSkips, \A c \in Cpus : pc[c] = "idle"
               PROVE  calls = Cardinality(Places(reserved)) + dropped + n_skipped
    BY DEF EveryCallAccounted
  <2>1. Undecided = {} /\ Cardinality({}) = 0
    BY FS_EmptySet DEF Undecided
  <2>2. calls = Cardinality(Places(reserved)) + dropped + n_skipped
                  + Cardinality(Undecided)
    BY DEF CaptureInv, ProgramInv, AccountInv
  <2>3. /\ Cardinality(Places(reserved)) \in Nat
        /\ dropped \in Nat /\ n_skipped \in Nat
    BY ProgramTypes, FS_CardinalityType DEF CaptureInv, ProgramInv
  <2>4. QED
    BY <2>1, <2>2, <2>3
<1>4. QED
  BY <1>1, <1>2, <1>3

(* Userspace drops nothing.                                                *)
LEMMA UserDropsNothing ==
  ASSUME BaseInv, UserKeeps
  PROVE  dropped' + Cardinality(MayDrop') <= dropped + Cardinality(MayDrop)
<1>1. dropped' = dropped /\ MayDrop' = MayDrop
  BY DEF UserKeeps, UserDoes, UserFrame, cpuVars, progVars, MayDrop
<1>2. MayDrop \subseteq Cpus
  BY DEF MayDrop
<1>3. Cardinality(MayDrop) \in Nat /\ dropped \in Nat
  BY <1>2, ProgramAssumption, ProgramTypes, FS_Subset, FS_CardinalityType
<1> QED
  BY <1>1, <1>3

(* What no step of a capture may do: after the signal, to drop more than   *)
(* the programs that were running; at any time, to turn a ring down.       *)
LateStep == sig # "none" =>
  dropped' + Cardinality(MayDrop') <= dropped + Cardinality(MayDrop)

LEMMA StepsBounded ==
  ASSUME CaptureInv, BpfStep \/ UserKeeps
  PROVE  LateStep /\ UnchosenStep
<1>1. CASE BpfStep
  BY <1>1, CaptureBase, BpfStepKeeps, BpfStepQueries DEF LateStep
<1>2. CASE UserKeeps
  <2>1. LateStep
    BY <1>2, CaptureBase, UserDropsNothing DEF LateStep
  <2>2. UnchosenStep
    BY <1>2 DEF UserKeeps, UserDoes, UserFrame, cpuVars, UnchosenStep
  <2>3. QED
    BY <2>1, <2>2
<1>3. QED
  BY <1>1, <1>2

-----------------------------------------------------------------------------
(* What a step of a loop that takes one record per call does to the books  *)
(* of main: nothing, the taking of a record, the count of one, or the end. *)
KeepsBooks ==
  /\ UNCHANGED <<sample, n_elaborated, taken, sig, report>>
  /\ upc' \in {"release", "count"} <=> upc \in {"release", "count"}

TakesOne == \E r \in Rings :
  /\ Takes(r)
  /\ sig = "none" /\ upc = "poll" /\ upc' \in {"release", "count"}
  /\ UNCHANGED <<n_elaborated, sig>>

OneByOne ==
  KeepsBooks \/ TakesOne \/ UserStep(CountOne) \/ UserStep(Handler)

(* Such a step keeps what main has counted one record or none behind what  *)
(* it was handed.                                                          *)
LEMMA BooksKeep ==
  ASSUME BaseInv, IsFiniteSet(Places(taken)), ElaboratedInv, OneByOne
  PROVE  ElaboratedInv'
<1> USE BaseRings DEF ElaboratedInv
<1>1. n_elaborated \in Nat
  BY UserFacts DEF UserTypeOK
<1>2. UNCHANGED taken => UNCHANGED TotalTaken
  BY DEF TotalTaken, Places
<1>3. TotalTaken \in Nat
  BY FS_CardinalityType DEF TotalTaken
<1>4. CASE KeepsBooks
  BY <1>2, <1>4 DEF KeepsBooks
<1>5. ASSUME NEW r \in Rings, Takes(r), sig = "none", upc = "poll",
             upc' \in {"release", "count"}, UNCHANGED <<n_elaborated, sig>>
      PROVE  ElaboratedInv'
  <2>1. TotalTaken' = TotalTaken + 1
    BY <1>5, TakeCounts
  <2>2. sample' # NULL
    <3>1. sample' \in [ring : Rings, pos : Positions]
      BY <1>5, TakeTypes
    <3>2. Rings \subseteq Nat /\ Positions \subseteq Nat
      BY RingAssumption DEF Rings, Positions
    <3>3. sample' \in [ring : Nat, pos : Nat]
      BY <3>1, <3>2
    <3>4. QED
      BY <3>3, SampleAssumption
  <2>3. sample = NULL /\ n_elaborated = TotalTaken
    BY <1>1, <1>3, <1>5
  <2>4. QED
    BY <1>1, <1>5, <2>1, <2>2, <2>3
<1>6. CASE UserStep(CountOne)
  <2>1. UNCHANGED <<taken, sig, report>> /\ sig = "none"
    BY <1>6 DEF UserStep, CountOne, sigVars, Running
  <2>2. upc = "count" /\ upc' = "poll" /\ sample' = NULL
        /\ n_elaborated' = n_elaborated + 1
    BY <1>6 DEF UserStep, CountOne
  <2>3. QED
    BY <1>1, <1>2, <1>3, <2>1, <2>2
<1>7. CASE UserStep(Handler)
  BY <1>2, <1>7
     DEF UserStep, Handler, signal_callback, PrintAndExit, loopVars, Running
<1>8. QED
  BY <1>4, <1>5, <1>6, <1>7 DEF OneByOne, TakesOne

(* It holds of a capture that begins, and gives the number reported.       *)
LEMMA InitBooks == Init => ElaboratedInv
<1> SUFFICES ASSUME Init PROVE ElaboratedInv
  OBVIOUS
<1>1. /\ sample = NULL /\ upc = "start" /\ n_elaborated = 0 /\ sig = "none"
      /\ \A r \in Rings : taken[r] = <<>>
  BY DEF Init, UserInit
<1>2. Places(taken) = {} /\ Cardinality({}) = 0
  BY <1>1, FS_EmptySet DEF Places
<1>3. QED
  BY <1>1, <1>2 DEF ElaboratedInv, TotalTaken

LEMMA BooksReported ==
  CaptureInv /\ ElaboratedInv => ReportedElaborated
<1> SUFFICES ASSUME CaptureInv, ElaboratedInv, sig = "exited"
             PROVE  report.elaborated
                      = TotalTaken - (IF sample = NULL THEN 0 ELSE 1)
  BY DEF ReportedElaborated
<1>1. n_elaborated \in Nat
  BY CaptureBase, UserFacts DEF UserTypeOK
<1>2. TotalTaken \in Nat
  BY FS_CardinalityType DEF CaptureInv, ProgramInv, TotalTaken
<1>3. QED
  BY <1>1, <1>2 DEF ElaboratedInv

-----------------------------------------------------------------------------
(* The steps of the BPF side leave it there, and the books of main alone.  *)
LEMMA BpfStepOutside ==
  BpfStep => KeepsBooks /\ UNCHANGED <<userVars, consumer_pos>>
<1> SUFFICES ASSUME NEW c \in Cpus, Enter(c) \/ Run(c), UNCHANGED userVars
             PROVE  KeepsBooks /\ UNCHANGED <<userVars, consumer_pos>>
  BY DEF BpfStep, BpfNext
<1>1. KeepsBooks
  BY DEF userVars, loopVars, sigVars, KeepsBooks
<1>2. CASE Enter(c)
  BY <1>1, <1>2 DEF Enter, EnterProgram, UseRing, Goto, ringVars
<1>3. CASE Run(c)
  BY <1>1, <1>3 DEF Run, Scan, QueryConsumer, QueryProducer, ChooseBest, UseRing,
     HelperStep, ReserveLoad, ReserveFull, ReserveHeader, ReservePublish, Submit,
     Count, LoadDrops, StoreDrops, LoadSkipped, StoreSkipped, LoadCounter, ringVars
<1>4. QED
  BY <1>2, <1>3

-----------------------------------------------------------------------------
(* What the invariant promises of every capture.                           *)
LEMMA CaptureInvPromises ==
  CaptureInv => /\ TypeOK /\ NoOverrun /\ ConsumerBehind /\ HeadersIntact
                /\ LengthsAgree /\ ExactlyOnceInOrder /\ OnlyCommitted
                /\ InHands => SampleIntact
BY RingPromises DEF CaptureInv, SpaceInv, TypeOK, RingInv
=============================================================================
