---------------------- MODULE MultiOutputCase1Theorems ----------------------
(***************************************************************************)
(* multi_ringbuf_output, case1, for any number of cpus and rings, any size *)
(* of ring and of events: the BPF program with bpf_ringbuf_output, and     *)
(* libbpf's loop as this program calls it.                                 *)
(***************************************************************************)
EXTENDS MultiOutputCase1, CaptureTheorems

LEMMA InvRings == Inv => RingInv
BY DEF Inv, RingInv

(* What the invariant says of types.                                       *)
LEMMA InvTypes ==
  Inv => /\ RingTypeOK
         /\ call \in [Cpus -> CallType]
         /\ pc \in [Cpus -> Labels]
         /\ calls \in 0 .. MaxCalls
         /\ n_skipped \in Nat
BY DEF Inv, ProgramTypeOK, RingTypeOK, CallType

-----------------------------------------------------------------------------
(* The steps of the BPF program.                                           *)

(* A step outside the helpers: of the rings no channel sees it.            *)
Outside(c) ==
  /\ \E l, k : ProgramMoves(c, l, k)
  /\ pc[c] # "submit"
  /\ calls' \in 0 .. MaxCalls

LEMMA EnterOutside ==
  ASSUME Inv, NEW c \in Cpus, Enter(c), UNCHANGED userVars
  PROVE  Outside(c)
<1> USE InvTypes DEF Enter, EnterProgram
<1>1. RingOf[c] \in Rings \cup {NULL} /\ pc[c] = "idle"
  BY ProgramAssumption
<1>2. \E l, k : ProgramMoves(c, l, k)
  BY <1>1, UseRingMoves
<1>3. calls' \in 0 .. MaxCalls
  BY ProgramAssumption
<1>4. QED
  BY <1>1, <1>2, <1>3 DEF Outside

(* The increment of n_skipped.                                             *)
LEMMA CountOutside ==
  ASSUME Inv, NEW c \in Cpus, UNCHANGED userVars,
         OutputFailed(c) \/ LoadSkipped(c) \/ StoreSkipped(c)
  PROVE  Outside(c)
<1> USE InvTypes DEF Goto, bss
<1>1. CASE OutputFailed(c) \/ LoadSkipped(c)
  <2> DEFINE k == [call[c] EXCEPT !.old = n_skipped]
  <2>1. k \in CallType /\ call' = [call EXCEPT ![c] = k]
    BY <1>1 DEF CallType, OutputFailed, LoadSkipped, LoadCounter
  <2> HIDE DEF k
  <2>2. n_drops \in Nat
    BY DEF RingTypeOK
  <2>3. ProgramMoves(c, "store_skip", k)
    BY <1>1, <2>1, <2>2
       DEF ProgramMoves, OutputFailed, LoadSkipped, LoadCounter, CallType, Labels
  <2>4. QED
    BY <1>1, <2>3 DEF OutputFailed, LoadSkipped, LoadCounter, Outside
<1>2. CASE StoreSkipped(c)
  <2>1. call[c].old + 1 \in Nat /\ n_drops \in Nat
    BY DEF CallType, RingTypeOK
  <2>2. ProgramMoves(c, "idle", NoCall)
    BY <1>2, <2>1, NoCallType
       DEF ProgramMoves, StoreSkipped, CallType, Labels, ringVars
  <2>3. QED
    BY <1>2, <2>2 DEF StoreSkipped, Outside
<1>3. QED
  BY <1>1, <1>2

(* Every step of the program keeps what is said of the rings, and is one   *)
(* of the channels.                                                        *)
LEMMA BpfRings ==
  ASSUME Inv, NEW c \in Cpus, Enter(c) \/ Run(c), UNCHANGED userVars
  PROVE  RingInv' /\ ProgramTypeOK' /\ [Channel!Next]_Channel!vars
<1> USE InvRings
<1>1. CASE HelperStep(c) /\ UNCHANGED calls
  <2>1. RingInv' /\ [Channel!Next]_Channel!vars
    BY <1>1, HelperRings
  <2>2. QED
    BY <1>1, <2>1, InvTypes DEF RingInv, SpaceInv, ProgramTypeOK
<1>2. CASE Enter(c) \/ OutputFailed(c) \/ LoadSkipped(c) \/ StoreSkipped(c)
  <2>1. Outside(c)
    BY <1>2, EnterOutside, CountOutside
  <2>2. RingInv' /\ UNCHANGED Channel!vars
    BY <2>1, ProgramRings DEF Outside
  <2>3. QED
    BY <2>1, <2>2 DEF Outside, RingInv, SpaceInv, ProgramTypeOK
<1>3. QED
  BY <1>1, <1>2 DEF Run

-----------------------------------------------------------------------------
(* The counter.                                                            *)

(* Where a step takes the program on cpu c, and what it does to the books: *)
(* the calls, the records and n_skipped.                                   *)
Goes(c, a, b) == pc[c] = a /\ pc'[c] = b

BooksStay == UNCHANGED <<calls, reserved, n_skipped>>

Walk(c) ==
  \/ /\ pc[c] = "idle"
     /\ pc'[c] = IF RingOf[c] = NULL THEN "skip" ELSE "reserve"
     /\ calls' = calls + 1
     /\ UNCHANGED <<reserved, n_skipped>>
  \/ Goes(c, "reserve", "lock") /\ BooksStay
  \/ pc[c] = "lock" /\ pc'[c] \in {"publish", "failed"} /\ BooksStay
  \/ /\ Goes(c, "publish", "submit") /\ ReservePublish(c)
     /\ UNCHANGED <<calls, n_skipped>>
  \/ Goes(c, "submit", "idle") /\ BooksStay
  \/ /\ pc[c] \in {"failed", "skip"} /\ pc'[c] = "store_skip" /\ BooksStay
     /\ call'[c].old = n_skipped
  \/ /\ Goes(c, "store_skip", "idle") /\ n_skipped' = call[c].old + 1
     /\ UNCHANGED <<calls, reserved>>

LEMMA BpfWalks ==
  ASSUME Inv, NEW c \in Cpus, Enter(c) \/ Run(c)
  PROVE  /\ Walk(c)
         /\ \A d \in Cpus \ {c} : pc'[d] = pc[d] /\ call'[d] = call[d]
         /\ UNCHANGED consumer_pos
<1> USE InvTypes DEF Goto, bss, ringVars
<1>1. CASE Enter(c)
  BY <1>1 DEF Enter, EnterProgram, UseRing, Walk
<1>2. CASE HelperStep(c) /\ UNCHANGED calls
  <2>1. CASE ReserveLoad(c)
    BY <1>2, <2>1 DEF ReserveLoad, Walk, Goes, BooksStay
  <2>2. CASE ReserveFull(c)
    BY <1>2, <2>2 DEF ReserveFull, Walk, Goes, BooksStay
  <2>3. CASE ReserveHeader(c)
    BY <1>2, <2>3 DEF ReserveHeader, Walk, Goes, BooksStay
  <2>4. CASE ReservePublish(c)
    <3>1. /\ Goes(c, "publish", "submit")
          /\ UNCHANGED <<calls, n_skipped, consumer_pos>>
          /\ \A d \in Cpus \ {c} : pc'[d] = pc[d] /\ call'[d] = call[d]
      BY <1>2, <2>4 DEF ReservePublish, Goes
    <3>2. QED
      BY <2>4, <3>1 DEF Walk
  <2>5. CASE Submit(c)
    BY <1>2, <2>5 DEF Submit, Walk, Goes, BooksStay
  <2>6. QED
    BY <1>2, <2>1, <2>2, <2>3, <2>4, <2>5 DEF HelperStep
<1>3. CASE OutputFailed(c) \/ LoadSkipped(c)
  BY <1>3 DEF OutputFailed, LoadSkipped, LoadCounter, Walk, BooksStay, CallType
<1>4. CASE StoreSkipped(c)
  BY <1>4 DEF StoreSkipped, Walk, Goes
<1>5. QED
  BY <1>1, <1>2, <1>3, <1>4 DEF Run

(* A program that is to lose its event, or has lost it and not counted it, *)
(* stands for what n_skipped still lacks.                                  *)
LEMMA SkipsKeep ==
  ASSUME Inv, NEW c \in Cpus, Walk(c),
         \A d \in Cpus \ {c} : pc'[d] = pc[d] /\ call'[d] = call[d]
  PROVE  SkipsInv' /\ IsFiniteSet(Places(reserved))'
<1> DEFINE U == {"reserve", "lock", "publish"}
           S == {"failed", "skip", "store_skip"}
           u == Cardinality(Undecided)
           v == Cardinality(AtLabels(pc', U))
           n == Cardinality(Skipping)
           m == Cardinality(AtLabels(pc', S))
           k == Cardinality(Places(reserved))
<1>1. /\ u \in Nat /\ v \in Nat
      /\ v + (IF pc[c] \in U THEN 1 ELSE 0) = u + (IF pc'[c] \in U THEN 1 ELSE 0)
  <2>1. Undecided = AtLabels(pc, U)
    BY DEF Undecided, AtLabels
  <2> HIDE DEF U
  <2>2. \A d \in Cpus \ {c} : pc'[d] = pc[d]
    OBVIOUS
  <2>3. QED
    BY ONLY <2>1, <2>2, LabelCount DEF u, v
<1>2. /\ n \in Nat /\ m \in Nat
      /\ m + (IF pc[c] \in S THEN 1 ELSE 0) = n + (IF pc'[c] \in S THEN 1 ELSE 0)
  <2>1. Skipping = AtLabels(pc, S)
    BY DEF Skipping, AtLabels
  <2> HIDE DEF S
  <2>2. \A d \in Cpus \ {c} : pc'[d] = pc[d]
    OBVIOUS
  <2>3. QED
    BY ONLY <2>1, <2>2, LabelCount DEF n, m
<1>3. /\ n_skipped \in Nat /\ calls \in Nat /\ k \in Nat
      /\ \A d \in Cpus : call[d].old \in Nat
  BY InvTypes, FS_CardinalityType DEF CallType, Inv
<1>4. ASSUME ReservePublish(c)
      PROVE  /\ IsFiniteSet(Places(reserved))'
             /\ Cardinality(Places(reserved))' = k + 1
  <2> DEFINE r == call[c].rb
  <2>1. /\ r \in Rings /\ DOMAIN reserved'[r] = 1 .. Len(reserved[r]) + 1
        /\ \A q \in Rings \ {r} : reserved'[q] = reserved[q]
    BY <1>4, PublishFacts DEF Inv
  <2>2. Len(reserved[r]) \in Nat /\ DOMAIN reserved[r] = 1 .. Len(reserved[r])
    BY <2>1, RecordTypes DEF Inv
  <2> HIDE DEF r
  <2>3. /\ IsFiniteSet(Places(reserved'))
        /\ Cardinality(Places(reserved')) = Cardinality(Places(reserved)) + 1
    BY <2>1, <2>2, PlacesAppend DEF Inv
  <2>4. Places(reserved)' = Places(reserved')
    BY DEF Places
  <2>5. QED
    BY <2>3, <2>4
<1> DEFINE k1 == Cardinality(Places(reserved))'
<1>5. /\ reserved' = reserved => k1 = k
      /\ ReservePublish(c) => k1 = k + 1
  BY <1>4 DEF Places
<1>6. IsFiniteSet(Places(reserved))'
  <2>1. reserved' = reserved => UNCHANGED Places(reserved)
    BY DEF Places
  <2>2. QED
    BY <1>4, <2>1 DEF Walk, BooksStay, Inv
<1>7. /\ n_skipped + n <= calls - k - u
      /\ \A d \in Cpus : pc[d] = "store_skip" => call[d].old + n <= calls - k - u
      /\ calls - k - u > 0 => n_skipped > 0 \/ \E d \in Cpus : pc[d] \in S
  BY DEF Inv, SkipsInv, Lost, Skipping
<1>8. Undecided' = AtLabels(pc', U) /\ Skipping' = AtLabels(pc', S)
  BY DEF Undecided, Skipping, AtLabels
<1> HIDE DEF u, v, n, m, k
<1>9. SUFFICES
        /\ n_skipped' + m <= calls' - k1 - v
        /\ \A d \in Cpus : pc'[d] = "store_skip" =>
             call'[d].old + m <= calls' - k1 - v
        /\ calls' - k1 - v > 0 => n_skipped' > 0 \/ \E d \in Cpus : pc'[d] \in S
  BY <1>6, <1>8 DEF SkipsInv, Lost, AtLabels, m, v
<1> HIDE DEF k1
<1>10. CASE Goes(c, "publish", "submit") /\ ReservePublish(c)
            /\ UNCHANGED <<calls, n_skipped>>
  <2>1. k1 = k + 1 /\ v = u - 1 /\ m = n
    BY <1>1, <1>2, <1>5, <1>10 DEF Goes
  <2>2. calls' - k1 - v = calls - k - u
    BY <1>1, <1>3, <1>10, <2>1
  <2>3. QED
    BY <1>7, <1>10, <2>1, <2>2 DEF Goes
<1>11. CASE /\ pc[c] = "idle"
            /\ pc'[c] = IF RingOf[c] = NULL THEN "skip" ELSE "reserve"
            /\ calls' = calls + 1
            /\ UNCHANGED <<reserved, n_skipped>>
  BY <1>1, <1>2, <1>3, <1>5, <1>7, <1>11
<1>12. CASE \/ Goes(c, "reserve", "lock") /\ BooksStay
            \/ pc[c] = "lock" /\ pc'[c] \in {"publish", "failed"} /\ BooksStay
            \/ Goes(c, "submit", "idle") /\ BooksStay
  BY <1>1, <1>2, <1>3, <1>5, <1>7, <1>12 DEF Goes, BooksStay
<1>13. CASE /\ pc[c] \in {"failed", "skip"} /\ pc'[c] = "store_skip"
            /\ BooksStay /\ call'[c].old = n_skipped
  BY <1>1, <1>2, <1>3, <1>5, <1>7, <1>13 DEF BooksStay
<1>14. CASE /\ Goes(c, "store_skip", "idle") /\ n_skipped' = call[c].old + 1
            /\ UNCHANGED <<calls, reserved>>
  BY <1>1, <1>2, <1>3, <1>5, <1>7, <1>14 DEF Goes
<1>15. QED
  BY <1>10, <1>11, <1>12, <1>13, <1>14 DEF Walk

-----------------------------------------------------------------------------
(* What each step of the loop must show: what it does to the positions and *)
(* the rings, and to the records of the current call.                      *)
UserKeeps == UserDoes /\ UNCHANGED calls

CallKeeps == /\ SettledInv' /\ InHands' /\ UncountedIsThisCall'
             /\ IsFiniteSet(Places(taken))'
             /\ got_new_data' \in BOOLEAN /\ res' \in Nat

(* A step that hands over nothing, counts nothing and stays out of a       *)
(* record.                                                                 *)
CallStays ==
  /\ UNCHANGED <<cons_pos, consumer_pos, sample, taken, n_elaborated, res>>
  /\ upc = "release" => upc' = "release" /\ UNCHANGED ringbuf_pos
  /\ got_new_data' \in BOOLEAN
  /\ \/ sig' # "exited"
     \/ UNCHANGED <<sig, report>>
     \/ report'.elaborated = n_elaborated

LEMMA CallStaysKeeps ==
  ASSUME Inv, CallStays
  PROVE  CallKeeps
<1>1. UncountedIsThisCall' /\ IsFiniteSet(Places(taken))'
  <2>1. /\ Places(taken)' = Places(taken)
        /\ TotalTaken' = TotalTaken /\ n_elaborated' = n_elaborated /\ res' = res
    BY DEF CallStays, TotalTaken, Places
  <2>2. n_elaborated \in Nat /\ res \in Nat
    BY InvRings, UserFacts DEF Inv, UserTypeOK
  <2>3. TotalTaken - res = n_elaborated
    BY <2>2 DEF Inv, UncountedIsThisCall
  <2>4. sig' = "exited" => report'.elaborated = TotalTaken - res
    BY <2>3 DEF Inv, CallStays, UncountedIsThisCall
  <2>5. QED
    BY <2>1, <2>4 DEF Inv, UncountedIsThisCall
<1>2. SettledInv' /\ InHands'
  BY DEF Inv, CallStays, SettledInv, InHands, Cursor
<1>3. QED
  BY <1>1, <1>2 DEF Inv, CallStays, CallKeeps

(* Leaving a ring, for the next or for main.                               *)
LEMMA LeaveRingTypes ==
  ASSUME UserTypeOK, LeaveRing
  PROVE  ringbuf_pos' \in Rings /\ upc' \in {"count", "enter"}
BY RingAssumption DEF UserTypeOK, LeaveRing, Rings

(* The steps of the loop.                                                  *)
LEMMA BeginCallKeeps ==
  ASSUME Inv, UserStep(BeginCall)
  PROVE  UserKeeps /\ CallStays
<1> USE InvRings
        DEF UserStep, BeginCall, At, Running, ringVars, bss, sigVars, callVars
<1>1. 0 \in Rings
  BY RingAssumption DEF Rings
<1>2. UserTypeOK' /\ UserFrame
  BY <1>1, UserFacts DEF UserTypeOK, UserFrame, RingTypeOK
<1>3. QED
  BY <1>2, StayActs DEF UserKeeps, UserDoes, CallStays, Inv

(* The position a pass begins at is the one the last pass ended at.        *)
LEMMA EnterRingKeeps ==
  ASSUME Inv, UserStep(EnterRing)
  PROVE  UserKeeps /\ CallStays
<1> USE InvRings
        DEF UserStep, EnterRing, At, Running, Cursor, ringVars, bss, sigVars, callVars
<1>1. ringbuf_pos \in Rings /\ cons_pos \in [Rings -> Positions]
  BY UserFacts DEF UserTypeOK
<1>2. consumer_pos[ringbuf_pos] = cons_pos[ringbuf_pos]
  BY <1>1 DEF Inv, SettledInv
<1>3. cons_pos' = cons_pos
  BY <1>1, <1>2
<1>4. UserTypeOK' /\ UserFrame
  BY <1>1, <1>3, UserFacts DEF UserTypeOK, UserFrame, RingTypeOK
<1>5. QED
  BY <1>3, <1>4, StayActs DEF UserKeeps, UserDoes, CallStays, Inv

LEMMA RefreshKeeps ==
  ASSUME Inv, UserStep(Refresh)
  PROVE  UserKeeps /\ CallStays
<1> USE InvRings
        DEF UserStep, Refresh, At, Running, Cursor, ringVars, bss, sigVars
<1>1. prod_pos' \in [Rings -> Positions] /\ ringbuf_pos \in Rings
  BY UserFacts DEF UserTypeOK, RingTypeOK
<1>2. UserTypeOK' /\ UserFrame
  BY <1>1, UserFacts DEF UserTypeOK, UserFrame, RingTypeOK
<1>3. Looks
  BY <1>1, UserFacts DEF Looks, UserTypeOK
<1>4. QED
  BY <1>2, <1>3 DEF UserKeeps, UserDoes, UserActs, CallStays

LEMMA EndPassKeeps ==
  ASSUME Inv, UserStep(EndPass) \/ UserStep(BailOut)
  PROVE  UserKeeps /\ CallStays
<1> USE InvRings
        DEF UserStep, EndPass, BailOut, At, Running, ringVars, bss, sigVars, callVars
<1>1. ringbuf_pos' \in Rings /\ upc' \in {"refresh", "count", "enter"}
  BY LeaveRingTypes, UserFacts DEF UserTypeOK
<1>2. UserTypeOK' /\ UserFrame
  BY <1>1, UserFacts DEF UserTypeOK, UserFrame, RingTypeOK
<1>3. QED
  BY <1>2, StayActs DEF UserKeeps, UserDoes, CallStays, Inv

LEMMA TakeRecordKeeps ==
  ASSUME Inv, UserStep(TakeRecord)
  PROVE  UserKeeps /\ CallKeeps
<1> USE InvRings
        DEF Inv, UserStep, TakeRecord, At, Running, Cursor, ringVars, bss, sigVars
<1>1. ringbuf_pos \in Rings /\ Takes(ringbuf_pos) /\ sig' = sig
  BY UserFacts DEF Takes, UserTypeOK
<1>2. UserTypeOK'
  <2>1. /\ UserTypeOK /\ upc' = "release"
        /\ UNCHANGED <<prod_pos, ringbuf_pos, n_elaborated, sig, report>>
    BY UserFacts
  <2>2. /\ cons_pos' \in [Rings -> Positions]
        /\ sample' \in [ring : Rings, pos : Positions]
        /\ taken' \in [Rings -> Seq(Positions)]
    BY <1>1, TakeTypes
  <2>3. QED
    BY ONLY <2>1, <2>2 DEF UserTypeOK
<1>3. UserFrame
  BY UserFacts DEF UserFrame, RingTypeOK
<1>4. SettledInv'
  <2>1. \A r \in Rings : r # ringbuf_pos => cons_pos'[r] = cons_pos[r]
    BY UserFacts DEF StepOver, UserTypeOK
  <2>2. upc' = "release" /\ ringbuf_pos' = ringbuf_pos /\ upc # "release"
        /\ consumer_pos' = consumer_pos
    OBVIOUS
  <2>3. QED
    BY <2>1, <2>2 DEF SettledInv
<1>5. InHands' /\ res' \in Nat /\ got_new_data' \in BOOLEAN
  BY <1>1, TakeInHands
<1>6. UncountedIsThisCall' /\ IsFiniteSet(Places(taken))'
  <2>1. ~Discarded(ringbuf_pos)
    BY <1>1, TakeTypes
  <2>2. res' = res + 1 /\ n_elaborated' = n_elaborated
    BY <2>1
  <2>3. /\ TotalTaken \in Nat /\ TotalTaken' = TotalTaken + 1
        /\ IsFiniteSet(Places(taken))'
    BY <1>1, TakeCounts
  <2>4. n_elaborated \in Nat /\ res \in Nat /\ TotalTaken = n_elaborated + res
    BY UserFacts DEF UserTypeOK, UncountedIsThisCall
  <2>5. TotalTaken' = n_elaborated' + res'
    BY <2>2, <2>3, <2>4
  <2>6. QED
    BY <1>1, <2>3, <2>5 DEF UncountedIsThisCall
<1>7. QED
  BY <1>1, <1>2, <1>3, <1>4, <1>5, <1>6 DEF UserKeeps, UserDoes, UserActs, CallKeeps

LEMMA ReleaseKeeps ==
  ASSUME Inv, UserStep(Release)
  PROVE  UserKeeps /\ CallKeeps
<1> USE InvRings DEF Inv, UserStep, Release, StoreConsumerPos, At, Running,
                        Cursor, bss, sigVars, callVars
<1>1. ringbuf_pos \in Rings
  BY UserFacts DEF UserTypeOK
<1>2. GivesBack(ringbuf_pos)
  BY DEF GivesBack
<1>3. UserTypeOK' /\ UserFrame
  BY UserFacts DEF UserTypeOK, UserFrame, RingTypeOK
<1>4. SettledInv' /\ InHands'
  BY UserFacts DEF SettledInv, InHands, RingTypeOK
<1>5. UncountedIsThisCall' /\ IsFiniteSet(Places(taken))'
  <2>1. /\ TotalTaken' = TotalTaken /\ sig' = sig
        /\ Places(taken)' = Places(taken)
    BY DEF TotalTaken, Places
  <2>2. QED
    BY <2>1 DEF UncountedIsThisCall
<1>6. QED
  BY <1>1, <1>2, <1>3, <1>4, <1>5 DEF UserKeeps, UserDoes, UserActs, CallKeeps

(* n_elaborated catches up with the records of the call.                   *)
LEMMA CountAllKeeps ==
  ASSUME Inv, UserStep(CountAll)
  PROVE  UserKeeps /\ CallKeeps
<1> USE InvRings
        DEF Inv, UserStep, CountAll, At, Running, ringVars, bss, sigVars
<1>1. n_elaborated \in Nat /\ n_elaborated' = n_elaborated + res
  BY UserFacts DEF UserTypeOK
<1>2. UserTypeOK' /\ UserFrame
  BY <1>1, UserFacts DEF UserTypeOK, UserFrame, RingTypeOK
<1>3. SettledInv' /\ InHands'
  BY DEF SettledInv, InHands, Cursor
<1>4. UncountedIsThisCall' /\ IsFiniteSet(Places(taken))'
  <2>1. /\ TotalTaken' = TotalTaken /\ TotalTaken = n_elaborated + res
        /\ Places(taken)' = Places(taken)
    BY DEF UncountedIsThisCall, TotalTaken, Places
  <2>2. TotalTaken' = n_elaborated' + res'
    BY <1>1, <2>1
  <2>3. QED
    BY <2>1, <2>2 DEF UncountedIsThisCall
<1>5. QED
  BY <1>1, <1>2, <1>3, <1>4, StayActs DEF UserKeeps, UserDoes, CallKeeps

-----------------------------------------------------------------------------
LEMMA LoopKeeps ==
  ASSUME Inv, UserStep(Loop) \/ (UserStep(Handler) /\ UNCHANGED callVars)
  PROVE  UserKeeps /\ CallKeeps
<1> USE InvRings, CallStaysKeeps DEF UserStep, Loop, ConsumeStep
<1>1. CASE UserStep(start_capture) /\ UNCHANGED callVars
  <2>1. CallStays
    BY <1>1 DEF start_capture, ringVars, callVars, sigVars, CallStays, Inv
  <2>2. QED
    BY <1>1, <2>1, CommonDoes DEF UserKeeps
<1>2. CASE UserStep(BeginCall) \/ UserStep(EnterRing) \/ UserStep(Refresh)
           \/ UserStep(EndPass) \/ UserStep(BailOut)
  BY <1>2, BeginCallKeeps, EnterRingKeeps, RefreshKeeps, EndPassKeeps
<1>3. CASE UserStep(TakeRecord) \/ UserStep(Release) \/ UserStep(CountAll)
  BY <1>3, TakeRecordKeeps, ReleaseKeeps, CountAllKeeps
<1>4. CASE UserStep(Handler) /\ UNCHANGED callVars
  <2>1. CallStays
    BY <1>4 DEF Handler, signal_callback, PrintAndExit, ringVars, loopVars,
                callVars, CallStays, Inv
  <2>2. QED
    BY <1>4, <2>1, CommonDoes DEF UserKeeps
<1>5. QED
  BY <1>1, <1>2, <1>3, <1>4

(* No step of userspace touches the books of the program.                  *)
LEMMA UserStepKeeps ==
  ASSUME Inv, UserKeeps, CallKeeps
  PROVE  Inv' /\ [Channel!Next]_Channel!vars
<1>1. RingInv' /\ [Channel!Next]_Channel!vars
  BY InvRings, UserRings DEF UserKeeps
<1>2. ProgramTypeOK'
  BY <1>1, InvTypes DEF RingInv, SpaceInv, ProgramTypeOK, UserKeeps
<1>3. SkipsInv' /\ IsFiniteSet(Places(reserved))'
  BY DEF Inv, UserKeeps, UserDoes, UserFrame, cpuVars, SkipsInv, Lost, Undecided,
         Skipping, Places
<1>4. QED
  BY <1>1, <1>2, <1>3 DEF Inv, RingInv, CallKeeps

-----------------------------------------------------------------------------
(* The invariant is inductive, and every step is one of the channels.      *)
LEMMA NextKeeps ==
  Inv /\ [Next]_vars => Inv' /\ [Channel!Next]_Channel!vars
<1> SUFFICES ASSUME Inv, [Next]_vars
             PROVE  Inv' /\ [Channel!Next]_Channel!vars
  OBVIOUS
<1>1. CASE BpfNext /\ UNCHANGED <<userVars, callVars>>
  <2>1. PICK c \in Cpus : Enter(c) \/ Run(c)
    BY <1>1 DEF BpfNext
  <2>2. RingInv' /\ ProgramTypeOK' /\ [Channel!Next]_Channel!vars
    BY <1>1, <2>1, BpfRings
  <2>3. SkipsInv' /\ IsFiniteSet(Places(reserved))' /\ UNCHANGED consumer_pos
    BY <2>1, BpfWalks, SkipsKeep
  <2>4. CallKeeps
    BY <1>1, <2>3, CallStaysKeeps
       DEF CallStays, userVars, loopVars, sigVars, callVars, Inv
  <2>5. QED
    BY <2>2, <2>3, <2>4 DEF Inv, RingInv, CallKeeps
<1>2. CASE UserStep(Loop) \/ (UserStep(Handler) /\ UNCHANGED callVars)
  BY <1>2, LoopKeeps, UserStepKeeps
<1>3. CASE UNCHANGED vars
  <2>1. UserKeeps
    BY <1>3, InvRings, NothingDoes DEF vars, bpfVars, UserKeeps
  <2>2. CallStays
    BY <1>3 DEF vars, bpfVars, ringVars, userVars, loopVars, sigVars, callVars,
                CallStays, Inv
  <2>3. QED
    BY <2>1, <2>2, CallStaysKeeps, UserStepKeeps
<1>4. QED
  BY <1>1, <1>2, <1>3 DEF Next

LEMMA InitInv == Init => Inv /\ Channel!Init
<1> SUFFICES ASSUME Init PROVE Inv /\ Channel!Init
  OBVIOUS
<1> USE DEF Init, BpfInit, CallInit
<1>1. RingInv /\ Channel!Init
  BY InitRings
<1>2. ProgramTypeOK
  BY <1>1, ProgramAssumption DEF RingInv, SpaceInv, ProgramTypeOK, CallsInit
<1>3. SettledInv /\ InHands
  BY DEF RingInit, UserInit, SettledInv, InHands
<1>4. SkipsInv /\ IsFiniteSet(Places(reserved))
  <2>1. /\ \A c \in Cpus : pc[c] = "idle"
        /\ \A r \in Rings : reserved[r] = <<>>
        /\ n_skipped = 0 /\ calls = 0
    BY DEF RingInit, CallsInit
  <2>2. Undecided = {} /\ Skipping = {} /\ Places(reserved) = {}
    BY <2>1 DEF Undecided, Skipping, Places
  <2>3. IsFiniteSet({}) /\ Cardinality({}) = 0
    BY FS_EmptySet
  <2>4. QED
    BY <2>1, <2>2, <2>3 DEF SkipsInv, Lost
<1>5. UncountedIsThisCall /\ IsFiniteSet(Places(taken))
  <2>1. /\ n_elaborated = 0 /\ sig = "none"
        /\ \A r \in Rings : taken[r] = <<>>
    BY DEF UserInit
  <2>2. Places(taken) = {} /\ Cardinality({}) = 0 /\ IsFiniteSet({})
    BY <2>1, FS_EmptySet DEF Places
  <2>3. QED
    BY <2>1, <2>2 DEF UncountedIsThisCall, TotalTaken
<1>6. QED
  BY <1>1, <1>2, <1>3, <1>4, <1>5 DEF Inv, RingInv

(***************************************************************************)
(* Inv holds in every state of a capture.                                  *)
(***************************************************************************)
THEOREM Invariant == Spec => []Inv
BY InitInv, NextKeeps, PTL DEF Spec

(***************************************************************************)
(* With no cpu inside the program, n_skipped is at most the number of      *)
(* events that reached no ring, and zero only if none was lost, however    *)
(* the cpus race for the counter.                                          *)
(***************************************************************************)
THEOREM SkippedNotInventedHolds == Spec => []SkippedNotInvented
<1>1. Inv => SkippedNotInvented
  <2> SUFFICES ASSUME Inv, \A c \in Cpus : pc[c] = "idle"
               PROVE  n_skipped <= Lost /\ (Lost > 0 => n_skipped > 0)
    BY DEF SkippedNotInvented
  <2>1. Undecided = {} /\ Skipping = {} /\ Cardinality({}) = 0
    BY FS_EmptySet DEF Undecided, Skipping
  <2>2. calls \in Nat /\ n_skipped \in Nat /\ Cardinality(Places(reserved)) \in Nat
    BY InvTypes, FS_CardinalityType DEF Inv
  <2>3. Lost \in Int
    BY <2>2 DEF Lost
  <2>4. QED
    BY <2>1, <2>2, <2>3 DEF Inv, SkipsInv
<1>2. QED
  BY <1>1, Invariant, PTL

(***************************************************************************)
(* With bpf_ringbuf_output as well: no byte is reserved again before it    *)
(* was given back, headers stand, lengths agree, and records are handed    *)
(* out once, in order and finished, their bytes intact in the callback.    *)
(***************************************************************************)
THEOREM RecordsSafe ==
  Spec => [](/\ NoOverrun /\ ConsumerBehind /\ HeadersIntact /\ LengthsAgree
             /\ ExactlyOnceInOrder /\ OnlyCommitted /\ SampleIntact)
<1>1. Inv => /\ NoOverrun /\ ConsumerBehind /\ HeadersIntact /\ LengthsAgree
             /\ ExactlyOnceInOrder /\ OnlyCommitted /\ SampleIntact
  BY InvRings, RingPromises DEF Inv
<1>2. QED
  BY <1>1, Invariant, PTL

(***************************************************************************)
(* What main has not counted is what the current call has handed over, and *)
(* the report lacks those records and no others.                           *)
(***************************************************************************)
THEOREM UncountedIsThisCallHolds == Spec => []UncountedIsThisCall
<1>1. Inv => UncountedIsThisCall
  BY DEF Inv
<1>2. QED
  BY <1>1, Invariant, PTL

(***************************************************************************)
(* A capture with the output API implements the channels of EventChannel,  *)
(* but for what these must do in the end.                                  *)
(***************************************************************************)
THEOREM ImplementsChannelSafely == Spec => Channel!SafeSpec
<1>1. Init => Channel!Init
  BY InitInv
<1>2. Inv /\ [Next]_vars => [Channel!Next]_Channel!vars
  BY NextKeeps
<1>3. QED
  BY <1>1, <1>2, Invariant, PTL DEF Spec, Channel!SafeSpec
=============================================================================
