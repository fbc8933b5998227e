-------------------------- MODULE ProcessTheorems --------------------------
(***************************************************************************)
(* What goes on around a capture.  First the life of a userspace program   *)
(* (Loader), for any number of entries MAX_CPUS of the array of rings and  *)
(* any number of possible cpus up to one more.  Then the scripts that      *)
(* start programs and add up what they report (Harness), for any number of *)
(* repetitions and of stress processes.                                    *)
(***************************************************************************)
EXTENDS Loader, Reports, FiniteSetTheorems, SequenceTheorems,
        WellFoundedInduction, TLAPS

Held == [skel : {"null", "live", "freed"}, ringbuf : {"null", "live", "freed"},
         fds : SUBSET Descriptors, fd : [Descriptors -> 0 .. 5],
         arrays : BOOLEAN, entries : 0 .. MAX_CPUS, managed : 0 .. MAX_CPUS,
         attached : BOOLEAN, capture_enabled : BOOLEAN]

(* The stages of the setup and the loop.                                   *)
Ending == {"cleanup", "destroy", "return"}

(* The lowest free number, where it is known.                              *)
LEMMA LowestIs ==
  ASSUME NEW h, NEW k \in 1 .. 6,
         \A d \in h.fds : h.fd[d] # k,
         \A m \in 1 .. k - 1 : \E d \in h.fds : h.fd[d] = m
  PROVE  Lowest(h) = k
<1> DEFINE P(n) == /\ \A d \in h.fds : h.fd[d] # n
                   /\ \A m \in 1 .. n - 1 : \E d \in h.fds : h.fd[d] = m
<1>1. P(k)
  OBVIOUS
<1>2. ASSUME NEW n \in 1 .. 6, P(n)
      PROVE  n = k
  <2>1. ~(n < k)
    BY <1>2
  <2>2. ~(k < n)
    BY <1>2
  <2>3. QED
    BY <2>1, <2>2
<1>3. Lowest(h) = CHOOSE n \in 1 .. 6 : P(n)
  BY DEF Lowest
<1> HIDE DEF P
<1>4. QED
  BY <1>1, <1>2, <1>3

(* Descriptors have no number but their own.                               *)
NumbersOK(h) == \A d \in Descriptors :
  /\ h.fd[d] \in {0, NumberOf(d)}
  /\ d \in h.fds => h.fd[d] # 0
  /\ single /\ d \notin {"epoll", "link"} => h.fd[d] = 0

(* A descriptor that is opened gets its number.                            *)
LEMMA OpenNumber ==
  ASSUME has \in Held, NumbersInv, NEW d \in Descriptors,
         Lowest(has) = NumberOf(d), single => d \in {"epoll", "link"}
  PROVE  /\ Open(has, d) \in Held
         /\ Open(has, d).fds = has.fds \cup {d}
         /\ NumbersOK(Open(has, d))
<1>1. NumberOf(d) \in 1 .. 3
  BY DEF NumberOf, Descriptors
<1>2. /\ Open(has, d) \in Held
      /\ Open(has, d).fds = has.fds \cup {d}
      /\ Open(has, d).fd = [has.fd EXCEPT ![d] = NumberOf(d)]
  <2> DEFINE f == [has.fd EXCEPT ![d] = NumberOf(d)]
             F == has.fds \cup {d}
  <2>1. f \in [Descriptors -> 0 .. 5] /\ F \subseteq Descriptors
    BY <1>1 DEF Held
  <2>2. Open(has, d) = [has EXCEPT !.fds = F, !.fd = f]
    BY DEF Open, Held
  <2> HIDE DEF f, F
  <2>3. Open(has, d) \in Held /\ Open(has, d).fds = F /\ Open(has, d).fd = f
    BY <2>1, <2>2 DEF Held
  <2>4. QED
    BY <2>3 DEF f, F
<1>3. ASSUME NEW e \in Descriptors
      PROVE  /\ Open(has, d).fd[e] \in {0, NumberOf(e)}
             /\ e \in Open(has, d).fds => Open(has, d).fd[e] # 0
             /\ single /\ e \notin {"epoll", "link"} => Open(has, d).fd[e] = 0
  <2>1. Open(has, d).fd[e] = IF e = d THEN NumberOf(d) ELSE has.fd[e]
    BY <1>2 DEF Held
  <2>2. QED
    BY <1>1, <1>2, <2>1 DEF NumbersInv
<1>4. QED
  BY <1>2, <1>3 DEF NumbersOK

(* Closing by number a descriptor that is open.                            *)
LEMMA CloseNumber ==
  ASSUME has \in Held, NumbersInv, NEW d \in has.fds
  PROVE  /\ Close(has, has.fd[d]) \in Held
         /\ Close(has, has.fd[d]).fds
              = {e \in has.fds : NumberOf(e) # NumberOf(d)}
         /\ NumbersOK(Close(has, has.fd[d]))
<1> DEFINE F == {e \in has.fds : NumberOf(e) # NumberOf(d)}
<1>0. \A e \in has.fds : e \in Descriptors /\ has.fd[e] = NumberOf(e)
  BY DEF Held, NumbersInv
<1>1. {e \in has.fds : has.fd[e] # has.fd[d]} = F
  BY <1>0
<1>2. Close(has, has.fd[d]) = [has EXCEPT !.fds = F]
  BY <1>1 DEF Close, Held
<1>3. F \subseteq has.fds /\ F \subseteq Descriptors
  BY DEF Held
<1> HIDE DEF F
<1>4. [has EXCEPT !.fds = F] \in Held
  BY <1>3 DEF Held
<1>5. [has EXCEPT !.fds = F].fds = F /\ [has EXCEPT !.fds = F].fd = has.fd
  BY DEF Held
<1>6. NumbersOK([has EXCEPT !.fds = F])
  BY <1>3, <1>5 DEF NumbersOK, NumbersInv
<1>7. QED
  BY <1>2, <1>4, <1>5, <1>6 DEF F

(* Opening and closing change nothing else.                                *)
LEMMA OpenCloseElse ==
  ASSUME has \in Held, NEW h, NEW d, NEW n,
         h = Open(has, d) \/ h = Close(has, n)
  PROVE  /\ h.skel = has.skel /\ h.ringbuf = has.ringbuf
         /\ h.entries = has.entries /\ h.managed = has.managed
         /\ h.attached = has.attached
         /\ h.capture_enabled = has.capture_enabled
BY DEF Held, Open, Close

-----------------------------------------------------------------------------
(* A step of the setup: what is left to show of it.                        *)
LEMMA AdvanceKeeps ==
  ASSUME Inv, NEW s, NEW t, NEW h \in Held, Advance(s, t, h), s \notin Ending,
         t \notin Ending, NumbersOK(h), n_cpus' \in 0 .. MAX_CPUS + 1,
         i' \in 0 .. MAX_CPUS, SetupInv'
  PROVE  Inv'
<1> USE DEF Inv, Advance, At, Ending
<1>1. ReleaseInv'
  <2>1. /\ has'.fds = Opened'
        /\ has'.skel = IF t \in {"init", "open"} THEN "null" ELSE "live"
        /\ has'.ringbuf = IF Managed' = 0 THEN "null" ELSE "live"
        /\ has'.capture_enabled <=> t = "loop"
    BY DEF SetupInv
  <2>2. ~({"inner", "ring"} \subseteq has'.fds)
    BY <2>1 DEF Opened, Looping
  <2>3. QED
    BY <2>1, <2>2 DEF ReleaseInv
<1>2. MisuseWindow'
  BY DEF MisuseWindow, ReleaseInv
<1>3. TypeOK'
  BY DEF TypeOK, Held
<1>4. NumbersInv'
  BY DEF NumbersOK, NumbersInv, NumberOf
<1>5. QED
  BY <1>1, <1>2, <1>3, <1>4

(* A failure after the skeleton was opened.                                *)
LEMMA FailKeeps ==
  ASSUME Inv, NEW s, At(s), s \notin Ending \cup {"init", "open", "loop"},
         stage' = "cleanup", err' \in BOOLEAN,
         UNCHANGED <<single, n_cpus, i, has, handler, misuse, exit>>
  PROVE  Inv'
<1> USE DEF Inv, At, Ending
<1>1. TypeOK' /\ MisuseWindow' /\ SetupInv'
  BY DEF TypeOK, MisuseWindow, ReleaseInv, SetupInv
<1>2. NumbersInv'
  BY DEF NumbersInv, NumberOf
<1>3. ReleaseInv'
  BY DEF ReleaseInv, SetupInv
<1>4. QED
  BY <1>1, <1>2, <1>3

(* A step that opens nothing keeps the numbers.                            *)
LEMMA NumbersStay ==
  ASSUME NumbersInv, has'.fd = has.fd, has'.fds \subseteq has.fds,
         UNCHANGED single
  PROVE  NumbersInv'
BY DEF NumbersInv, NumberOf

(* What main holds before a call of the setup.                             *)
LEMMA AtFacts ==
  ASSUME Inv, NEW s, At(s), s \notin Ending
  PROVE  /\ has \in Held /\ has.fds = Opened
         /\ NumbersInv /\ NumbersOK(has)
         /\ has.entries = Entries /\ has.managed = Managed
         /\ has.skel = IF s \in {"init", "open"} THEN "null" ELSE "live"
         /\ has.ringbuf = IF Managed = 0 THEN "null" ELSE "live"
         /\ has.attached <=> s \in {"start", "loop"}
         /\ has.capture_enabled <=> s = "loop"
         /\ single \in BOOLEAN /\ i \in 0 .. MAX_CPUS
         /\ n_cpus \in 0 .. MAX_CPUS + 1 /\ MAX_CPUS \in Nat /\ MAX_CPUS > 0
         /\ single => s \in {"init", "open", "load", "ring_add"} \cup SetUp
         /\ ~single =>
              /\ s \in Looping => i < n_cpus
              /\ s \in {"ring_add", "ring_close"} => i < MAX_CPUS
              /\ s \in {"load", "inner_close"} => i = 0 /\ n_cpus > 0
              /\ s \in {"init", "open", "inner_create", "inner_set", "cpus"} => i = 0
              /\ s \in SetUp \cup {"outer_close"} => n_cpus \in 1 .. MAX_CPUS
<1> USE DEF Inv, At, Ending
<1>1. has \in Held
  BY DEF TypeOK, Held
<1>2. NumbersOK(has)
  BY DEF NumbersInv, NumbersOK
<1>3. QED
  BY <1>1, <1>2, LoaderAssumption DEF SetupInv, TypeOK

LEMMA ReturnFailureKeeps ==
  ASSUME Inv, NEW s \in {"init", "open"}, ReturnFailure(s)
  PROVE  Inv'
<1> USE DEF Inv, ReturnFailure
<1>1. At(s) /\ ~has.capture_enabled
  BY AtFacts DEF Ending
<1>2. NumbersInv'
  BY NumbersStay
<1>3. TypeOK' /\ SetupInv' /\ ReleaseInv' /\ MisuseWindow'
  BY <1>1 DEF TypeOK, SetupInv, ReleaseInv, MisuseWindow, At
<1>4. QED
  BY <1>2, <1>3

-----------------------------------------------------------------------------
(* The calls that open and close nothing.                                  *)
LEMMA PlainStages ==
  ASSUME Inv, \/ Advance("init", "open", has) /\ Same
              \/ /\ Advance("open", IF single THEN "load" ELSE "inner_create",
                            [has EXCEPT !.skel = "live"])
                 /\ Same
              \/ Advance("inner_set", "cpus", has) /\ Same
              \/ /\ Advance("cpus", "load", [has EXCEPT !.arrays = TRUE])
                 /\ n_cpus' \in 1 .. MAX_CPUS + 1
                 /\ UNCHANGED i
              \/ start_capture
  PROVE  Inv'
<1> USE DEF Same, Ending, start_capture, SetUp
<1> DEFINE opened == [has EXCEPT !.skel = "live"]
           counted == [has EXCEPT !.arrays = TRUE]
           started == [has EXCEPT !.capture_enabled = TRUE]
<1>1. PICK s \in {"init", "open", "inner_set", "cpus", "start"} : At(s)
  BY DEF Advance
<1>2. has \in Held /\ NumbersOK(has)
  BY <1>1, AtFacts
<1>3. /\ opened \in Held /\ counted \in Held /\ started \in Held
      /\ NumbersOK(opened) /\ NumbersOK(counted) /\ NumbersOK(started)
  BY <1>2 DEF Held, NumbersOK
<1>4. /\ n_cpus' \in 0 .. MAX_CPUS + 1 /\ i' \in 0 .. MAX_CPUS
  BY <1>1, AtFacts
<1>5. SetupInv'
  BY <1>1, <1>2, AtFacts
     DEF At, Advance, SetupInv, Opened, Entries, Managed, Looping, Held
<1>6. QED
  BY <1>2, <1>3, <1>4, <1>5, AdvanceKeeps

(* The calls that open a descriptor, and what is open before.              *)
LEMMA OpeningStages ==
  ASSUME Inv, Same,
         \/ Advance("inner_create", "inner_set", Open(has, "inner"))
         \/ ~single /\ Advance("load", "inner_close", Open(has, "outer"))
         \/ Advance("ring_create", "ring_update", Open(has, "ring"))
  PROVE  Inv'
<1> USE DEF Same, Ending, SetUp, Looping, Opened, Entries, Managed
<1>1. PICK s \in {"inner_create", "load", "ring_create"},
           d \in {"inner", "outer", "ring"} : 
        /\ At(s) /\ ~single
        /\ s = "inner_create" => d = "inner"
        /\ s = "load" => d = "outer"
        /\ s = "ring_create" => d = "ring"
        /\ Advance(s, stage', Open(has, d))
        /\ stage' \notin Ending
        /\ s = "inner_create" => stage' = "inner_set"
        /\ s = "load" => stage' = "inner_close"
        /\ s = "ring_create" => stage' = "ring_update"
  BY AtFacts DEF Advance, At
<1>2. d \in Descriptors
  BY DEF Descriptors
<1>3. has.fds = CASE s = "inner_create" -> {}
                  [] s = "load" -> {"inner"}
                  [] s = "ring_create" -> {"outer"} \cup (IF i > 0 THEN {"epoll"} ELSE {})
  BY <1>1, AtFacts DEF At
<1>4. Lowest(has) = NumberOf(d)
  <2>1. \A e \in has.fds : has.fd[e] = NumberOf(e)
    BY <1>1, AtFacts DEF NumbersInv, Held
  <2>2. CASE s \in {"inner_create", "ring_create"}
    <3>1. \A e \in has.fds : has.fd[e] # 1
      BY <1>1, <1>3, <2>1, <2>2 DEF NumberOf
    <3>2. QED
      BY <1>1, <2>2, <3>1, LowestIs DEF NumberOf
  <2>3. CASE s = "load"
    <3>1. has.fds = {"inner"} /\ has.fd["inner"] = 1
      BY <1>3, <2>1, <2>3 DEF NumberOf
    <3>2. QED
      BY <1>1, <2>3, <3>1, LowestIs DEF NumberOf
  <2>4. QED
    BY <2>2, <2>3
<1> DEFINE h == Open(has, d)
<1>5. h \in Held /\ h.fds = has.fds \cup {d} /\ NumbersOK(h)
  BY <1>1, <1>2, <1>4, AtFacts, OpenNumber
<1>6. /\ h.skel = has.skel /\ h.ringbuf = has.ringbuf
      /\ h.entries = has.entries /\ h.managed = has.managed
      /\ h.attached = has.attached
      /\ h.capture_enabled = has.capture_enabled
  BY <1>1, AtFacts, OpenCloseElse
<1>7. has' = h
  BY <1>1 DEF Advance
<1> HIDE DEF h
<1>8. SetupInv'
  BY <1>1, <1>3, <1>5, <1>6, <1>7, AtFacts DEF At, Advance, SetupInv
<1>9. n_cpus' \in 0 .. MAX_CPUS + 1 /\ i' \in 0 .. MAX_CPUS
  BY <1>1, AtFacts
<1>10. QED
  BY <1>1, <1>5, <1>8, <1>9, AdvanceKeeps DEF h

(* The calls that close a descriptor.                                      *)
LEMMA ClosingStages ==
  ASSUME Inv, CloseInnerMap \/ CloseRing \/ CloseOuterMap
  PROVE  Inv'
<1> USE DEF Same, Ending, SetUp, Looping, Opened, Entries, Managed
<1>1. PICK s \in {"inner_close", "ring_close", "outer_close"},
           d \in {"inner", "ring", "outer"} :
        /\ At(s) /\ ~single
        /\ s = "inner_close" => d = "inner" /\ stage' = "ring_create" /\ Same
        /\ s = "ring_close" =>
             /\ d = "ring" /\ i' = i + 1 /\ UNCHANGED n_cpus
             /\ stage' = IF i + 1 < n_cpus THEN "ring_create" ELSE "outer_close"
        /\ s = "outer_close" => d = "outer" /\ stage' = "attach" /\ Same
        /\ Advance(s, stage', Close(has, has.fd[d]))
  BY AtFacts DEF Advance, At, CloseInnerMap, CloseRing, CloseOuterMap
<1> DEFINE h == Close(has, has.fd[d])
<1>2. has.fds = CASE s = "inner_close" -> {"inner", "outer"}
                  [] s = "ring_close"  -> {"ring", "outer", "epoll"}
                  [] s = "outer_close" -> {"outer", "epoll"}
  <2>1. /\ has.fds = Opened /\ stage = s /\ ~single
        /\ i \in 0 .. MAX_CPUS /\ MAX_CPUS \in Nat
        /\ s = "inner_close" => i = 0
        /\ s = "outer_close" => n_cpus \in 1 .. MAX_CPUS
    BY <1>1, AtFacts DEF At
  <2>2. Managed = CASE s = "inner_close" -> 0
                    [] s = "ring_close"  -> i + 1
                    [] s = "outer_close" -> n_cpus
    BY <1>1, <2>1
  <2>3. Managed > 0 <=> s # "inner_close"
    BY <1>1, <2>1, <2>2
  <2> HIDE DEF Managed
  <2>4. QED
    BY <1>1, <2>1, <2>3
<1>3. d \in has.fds
  BY <1>1, <1>2
<1>4. /\ h \in Held /\ NumbersOK(h)
      /\ h.fds = {e \in has.fds : NumberOf(e) # NumberOf(d)}
  BY <1>1, <1>3, AtFacts, CloseNumber
<1>5. h.fds = has.fds \ {d}
  BY <1>1, <1>2, <1>4 DEF NumberOf
<1>6. /\ h.skel = has.skel /\ h.ringbuf = has.ringbuf
      /\ h.entries = has.entries /\ h.managed = has.managed
      /\ h.attached = has.attached
      /\ h.capture_enabled = has.capture_enabled
  BY <1>1, AtFacts, OpenCloseElse
<1>7. has' = h
  BY <1>1 DEF Advance
<1> HIDE DEF h
<1>8. SetupInv'
  <2> USE DEF At, Advance, SetupInv
  <2>1. CASE s = "inner_close"
    BY <1>1, <1>2, <1>5, <1>6, <1>7, <2>1, AtFacts
  <2>2. CASE s = "ring_close"
    BY <1>1, <1>2, <1>5, <1>6, <1>7, <2>2, AtFacts
  <2>3. CASE s = "outer_close"
    BY <1>1, <1>2, <1>5, <1>6, <1>7, <2>3, AtFacts
  <2>4. QED
    BY <2>1, <2>2, <2>3
<1>9. n_cpus' \in 0 .. MAX_CPUS + 1 /\ i' \in 0 .. MAX_CPUS
  BY <1>1, AtFacts
<1>10. QED
  BY <1>1, <1>4, <1>8, <1>9, AdvanceKeeps DEF h

(* A ring goes into the array: one entry more.                             *)
LEMMA UpdateStage ==
  ASSUME Inv, i < MAX_CPUS, Same,
         Advance("ring_update", "ring_add", [has EXCEPT !.entries = @ + 1])
  PROVE  Inv'
<1> USE DEF Same, Ending, SetUp, Looping, Opened, Entries, Managed
<1> DEFINE h == [has EXCEPT !.entries = @ + 1]
<1>1. At("ring_update") /\ ~single
  BY AtFacts DEF Advance
<1>2. has \in Held /\ has.entries = i /\ i \in 0 .. MAX_CPUS /\ NumbersOK(has)
  BY <1>1, AtFacts DEF At
<1>3. h \in Held /\ NumbersOK(h)
  BY <1>2, LoaderAssumption DEF Held, NumbersOK
<1>4. SetupInv'
  BY <1>1, <1>2, AtFacts DEF At, Advance, SetupInv, Held
<1>5. n_cpus' \in 0 .. MAX_CPUS + 1 /\ i' \in 0 .. MAX_CPUS
  BY <1>1, AtFacts
<1>6. QED
  BY <1>3, <1>4, <1>5, AdvanceKeeps

(* The manager is created for the first ring, and knows one ring more.     *)
LEMMA AddStage ==
  ASSUME Inv, Same,
         Advance("ring_add", IF single THEN "attach" ELSE "ring_close", RingAdded)
  PROVE  Inv'
<1> USE DEF Same, Ending, SetUp, Looping, Opened, Entries, Managed
<1> DEFINE h == IF has.ringbuf = "null" THEN Open(has, "epoll") ELSE has
           g == [h EXCEPT !.ringbuf = "live", !.managed = @ + 1]
<1>1. At("ring_add") /\ has' = g
  BY DEF Advance, RingAdded
<1>2. /\ has \in Held /\ NumbersInv /\ NumbersOK(has)
      /\ has.managed + 1 \in 0 .. MAX_CPUS
  <2>1. /\ has \in Held /\ NumbersInv /\ NumbersOK(has)
        /\ has.managed = Managed /\ stage = "ring_add"
        /\ MAX_CPUS \in Nat /\ MAX_CPUS > 0 /\ i \in 0 .. MAX_CPUS
        /\ ~single => i < MAX_CPUS
    BY <1>1, AtFacts DEF At
  <2>2. Managed = IF single THEN 0 ELSE i
    BY <2>1
  <2>3. QED
    BY <2>1, <2>2
<1>3. has.fds = (IF single THEN {} ELSE {"ring", "outer"})
                  \cup (IF has.ringbuf = "live" THEN {"epoll"} ELSE {})
  BY <1>1, AtFacts DEF At
<1>4. has.ringbuf = "null" => Lowest(has) = NumberOf("epoll")
  <2> SUFFICES ASSUME has.ringbuf = "null"
               PROVE  Lowest(has) = NumberOf("epoll")
    OBVIOUS
  <2>1. \A e \in has.fds : has.fd[e] = NumberOf(e)
    BY <1>2 DEF NumbersInv, Held
  <2>2. CASE single
    BY <1>3, <2>2, LowestIs DEF NumberOf
  <2>3. CASE ~single
    <3>1. has.fds = {"ring", "outer"} /\ has.fd["ring"] = 1 /\ has.fd["outer"] = 2
      BY <1>3, <2>1, <2>3 DEF NumberOf
    <3>2. \A m \in 1 .. 2 : \E d \in has.fds : has.fd[d] = m
      BY <3>1
    <3>3. QED
      BY <2>3, <3>1, <3>2, LowestIs DEF NumberOf
  <2>4. QED
    BY <2>2, <2>3
<1>5. /\ h \in Held /\ NumbersOK(h)
      /\ h.fds = has.fds \cup {"epoll"}
      /\ h.skel = has.skel /\ h.entries = has.entries /\ h.managed = has.managed
      /\ h.attached = has.attached
      /\ h.capture_enabled = has.capture_enabled
  <2>1. CASE has.ringbuf = "null"
    <3>1. "epoll" \in Descriptors
      BY DEF Descriptors
    <3>2. Open(has, "epoll") \in Held /\ NumbersOK(Open(has, "epoll"))
          /\ Open(has, "epoll").fds = has.fds \cup {"epoll"}
      BY <1>2, <1>4, <2>1, <3>1, OpenNumber
    <3>3. QED
      BY <1>2, <2>1, <3>2, OpenCloseElse
  <2>2. CASE has.ringbuf = "live"
    BY <1>2, <1>3, <2>2
  <2>3. has.ringbuf \in {"null", "live"}
    BY <1>1, AtFacts
  <2>4. QED
    BY <2>1, <2>2, <2>3
<1> HIDE DEF h
<1>6. /\ g \in Held /\ NumbersOK(g)
      /\ g.fds = has.fds \cup {"epoll"} /\ g.skel = has.skel
      /\ g.entries = has.entries /\ g.managed = has.managed + 1
      /\ g.ringbuf = "live" /\ g.attached = has.attached
      /\ g.capture_enabled = has.capture_enabled
  <2> DEFINE m == h.managed + 1
  <2>1. m \in 0 .. MAX_CPUS /\ m = has.managed + 1
    BY <1>2, <1>5
  <2>2. g = [h EXCEPT !.ringbuf = "live", !.managed = m]
    BY <1>5 DEF Held
  <2> HIDE DEF m, g
  <2>3. g \in Held /\ g.fds = h.fds /\ g.fd = h.fd /\ g.managed = m
        /\ g.skel = h.skel /\ g.entries = h.entries /\ g.ringbuf = "live"
        /\ g.attached = h.attached /\ g.capture_enabled = h.capture_enabled
    BY <1>5, <2>1, <2>2 DEF Held
  <2>4. QED
    BY <1>5, <2>1, <2>3 DEF NumbersOK
<1> HIDE DEF g
<1>7. SetupInv'
  <2>1. /\ At("ring_add") /\ stage' = IF single THEN "attach" ELSE "ring_close"
        /\ UNCHANGED <<single, n_cpus, i, handler, exit>> /\ single \in BOOLEAN
        /\ ~single => i < n_cpus /\ i < MAX_CPUS
        /\ has.managed = Managed /\ has.entries = Entries /\ has.skel = "live"
        /\ i \in 0 .. MAX_CPUS
        /\ ~has.attached /\ ~has.capture_enabled
    BY <1>1, AtFacts DEF At, Advance
  <2>2. CASE single
    BY <1>1, <1>3, <1>6, <2>1, <2>2 DEF SetupInv, At
  <2>3. CASE ~single
    <3>1. stage' = "ring_close" /\ Managed = i /\ Entries = i + 1
      BY <2>1, <2>3 DEF At
    <3>2. Managed' = i + 1 /\ Entries' = i + 1
      BY <2>1, <2>3, <3>1
    <3>3. Opened' = {"epoll", "outer", "ring"}
      BY <2>1, <2>3, <3>1, <3>2
    <3>4. has'.fds = Opened'
      BY <1>1, <1>3, <1>6, <2>3, <3>3
    <3> HIDE DEF Opened, Managed, Entries
    <3>5. QED
      BY <1>1, <1>6, <2>1, <2>3, <3>1, <3>2, <3>4 DEF SetupInv, At
  <2>4. QED
    BY <2>2, <2>3
<1>8. n_cpus' \in 0 .. MAX_CPUS + 1 /\ i' \in 0 .. MAX_CPUS
  BY <1>1, AtFacts
<1>9. Advance("ring_add", IF single THEN "attach" ELSE "ring_close", g)
  BY DEF g, h, RingAdded
<1>10. QED
  BY <1>6, <1>7, <1>8, <1>9, AdvanceKeeps

(* The program is attached.                                                *)
LEMMA AttachStage ==
  ASSUME Inv, Same,
         Advance("attach", "start", [Open(has, "link") EXCEPT !.attached = TRUE])
  PROVE  Inv'
<1> USE DEF Same, Ending, SetUp, Looping, Opened, Entries, Managed
<1> DEFINE h == Open(has, "link")
           g == [h EXCEPT !.attached = TRUE]
<1>1. At("attach") /\ has' = g
  BY DEF Advance
<1>2. has \in Held /\ NumbersInv /\ has.fds = {"epoll"}
  BY <1>1, AtFacts DEF At
<1>3. Lowest(has) = NumberOf("link") /\ "link" \in Descriptors
  <2>1. has.fd["epoll"] = NumberOf("epoll")
    BY <1>2 DEF NumbersInv, Held
  <2>2. CASE single
    <3>1. has.fd["epoll"] = 1
      BY <2>1, <2>2 DEF NumberOf
    <3>2. \A m \in 1 .. 1 : \E d \in has.fds : has.fd[d] = m
      BY <1>2, <3>1
    <3>3. QED
      BY <1>2, <2>2, <3>1, <3>2, LowestIs DEF NumberOf, Descriptors
  <2>3. CASE ~single
    BY <1>2, <2>1, <2>3, LowestIs DEF NumberOf, Descriptors
  <2>4. QED
    BY <2>2, <2>3
<1>4. /\ h \in Held /\ NumbersOK(h) /\ h.fds = {"epoll", "link"}
      /\ h.skel = has.skel /\ h.ringbuf = has.ringbuf
      /\ h.entries = has.entries /\ h.managed = has.managed
      /\ h.capture_enabled = has.capture_enabled
  BY <1>2, <1>3, OpenNumber, OpenCloseElse
<1> HIDE DEF h
<1>5. /\ g \in Held /\ NumbersOK(g) /\ g.fds = {"epoll", "link"}
      /\ g.skel = has.skel /\ g.ringbuf = has.ringbuf
      /\ g.entries = has.entries /\ g.managed = has.managed /\ g.attached
      /\ g.capture_enabled = has.capture_enabled
  BY <1>4 DEF Held, NumbersOK
<1> HIDE DEF g
<1>6. SetupInv'
  <2>1. /\ At("attach") /\ stage' = "start" /\ has.skel = "live"
        /\ UNCHANGED <<single, n_cpus, i, handler, exit>> /\ single \in BOOLEAN
        /\ has.managed = Managed /\ has.entries = Entries
        /\ has.ringbuf = IF Managed = 0 THEN "null" ELSE "live"
        /\ ~single => n_cpus \in 1 .. MAX_CPUS
        /\ MAX_CPUS \in Nat /\ ~has.capture_enabled
    BY <1>1, AtFacts DEF At, Advance
  <2>2. Managed = IF single THEN 1 ELSE n_cpus
    BY <2>1 DEF At
  <2>3. Managed' = Managed /\ Entries' = Entries /\ Managed > 0
    BY <2>1, <2>2 DEF At
  <2>4. Opened' = {"epoll", "link"}
    BY <2>1, <2>3
  <2> HIDE DEF Opened, Managed, Entries
  <2>5. QED
    BY <1>1, <1>5, <2>1, <2>3, <2>4 DEF SetupInv, At
<1>7. n_cpus' \in 0 .. MAX_CPUS + 1 /\ i' \in 0 .. MAX_CPUS
  BY <1>1, AtFacts
<1>8. Advance("attach", "start", g)
  BY DEF g, h
<1>9. QED
  BY <1>5, <1>6, <1>7, <1>8, AdvanceKeeps

(* The single programs need no array: a loaded one goes on with its ring.  *)
LEMMA LoadSingleStage ==
  ASSUME Inv, single, Same, Advance("load", "ring_add", has)
  PROVE  Inv'
<1> USE DEF Same, Ending, SetUp, Looping, Opened, Entries, Managed
<1>1. At("load") /\ has \in Held /\ NumbersOK(has)
  BY AtFacts DEF Advance
<1>2. SetupInv'
  BY <1>1, AtFacts DEF At, Advance, SetupInv
<1>3. n_cpus' \in 0 .. MAX_CPUS + 1 /\ i' \in 0 .. MAX_CPUS
  BY <1>1, AtFacts
<1>4. QED
  BY <1>1, <1>2, <1>3, AdvanceKeeps

(* Every step of the setup, one that fails included.                       *)
LEMMA SetupKeeps ==
  ASSUME Inv, Setup
  PROVE  Inv'
<1>1. ASSUME NEW s, Fail(s), s \notin Ending \cup {"init", "open", "loop"}
      PROVE  Inv'
  BY <1>1, FailKeeps DEF Fail
<1>2. CASE initialize_resources
  BY <1>2, PlainStages, ReturnFailureKeeps DEF initialize_resources
<1>3. CASE open_skeleton
  BY <1>3, PlainStages, ReturnFailureKeeps DEF open_skeleton
<1>4. CASE CreateInnerMap
  BY <1>1, <1>4, OpeningStages DEF CreateInnerMap, Ending
<1>5. CASE SetInnerMap
  BY <1>1, <1>5, PlainStages DEF SetInnerMap, Ending
<1>6. CASE set_cpus_number
  BY <1>1, <1>6, PlainStages DEF set_cpus_number, Ending
<1>7. CASE load_skeleton
  <2>1. single \in BOOLEAN
    BY DEF Inv, TypeOK
  <2>2. QED
    BY <1>1, <1>7, <2>1, OpeningStages, LoadSingleStage DEF load_skeleton, Ending
<1>8. CASE CloseInnerMap \/ CloseRing \/ CloseOuterMap
  BY <1>8, ClosingStages
<1>9. CASE CreateRing
  BY <1>1, <1>9, OpeningStages DEF CreateRing, Ending
<1>10. CASE UpdateArray
  BY <1>1, <1>10, UpdateStage DEF UpdateArray, Ending
<1>11. CASE AddRing
  BY <1>1, <1>11, AddStage DEF AddRing, Ending
<1>12. CASE NewRingFails
  <2>1. /\ At("ring_add") /\ stage' = "cleanup" /\ err' \in BOOLEAN
        /\ UNCHANGED <<single, n_cpus, i, has, handler, misuse, exit>>
    BY <1>12 DEF NewRingFails, Advance, Same, Inv, TypeOK
  <2>2. QED
    BY <2>1, FailKeeps DEF Ending
<1>13. CASE attach_skeleton
  BY <1>1, <1>13, AttachStage DEF attach_skeleton, Ending
<1>14. CASE start_capture
  BY <1>14, PlainStages
<1>15. QED
  BY <1>2, <1>3, <1>4, <1>5, <1>6, <1>7, <1>8, <1>9, <1>10, <1>11, <1>12,
     <1>13, <1>14 DEF Setup

-----------------------------------------------------------------------------
(* clean(): what it gives back, whoever calls it.                          *)
LEMMA FreeRingsGives ==
  ASSUME TypeOK, NumbersInv, FreeRings, UNCHANGED single
  PROVE  /\ has' \in Held /\ NumbersInv'
         /\ has'.fds \subseteq has.fds /\ has'.skel = has.skel
         /\ has'.ringbuf = IF has.ringbuf = "null" THEN "null" ELSE "freed"
         /\ has'.capture_enabled = has.capture_enabled
<1> DEFINE F == {d \in has.fds : has.fd[d] # has.fd["epoll"]}
<1>1. has \in Held
  BY DEF TypeOK, Held
<1>2. has' = IF has.ringbuf = "live"
             THEN [has EXCEPT !.fds = F, !.ringbuf = "freed"] ELSE has
  BY <1>1 DEF FreeRings, Close, Held
<1>3. F \subseteq has.fds /\ F \subseteq Descriptors
  BY <1>1 DEF Held
<1> HIDE DEF F
<1>4. /\ has' \in Held /\ has'.fd = has.fd
      /\ has'.fds \subseteq has.fds /\ has'.skel = has.skel
      /\ has'.ringbuf = IF has.ringbuf = "null" THEN "null" ELSE "freed"
      /\ has'.capture_enabled = has.capture_enabled
  BY <1>1, <1>2, <1>3 DEF Held
<1>5. QED
  BY <1>4, NumbersStay

LEMMA DestroySkeletonGives ==
  ASSUME TypeOK, NumbersInv, DestroySkeleton, UNCHANGED single
  PROVE  /\ has' \in Held /\ NumbersInv'
         /\ has'.fds \subseteq has.fds /\ has'.skel = "freed"
         /\ has'.ringbuf = has.ringbuf /\ ~has'.capture_enabled
<1> DEFINE F == {d \in has.fds \ {"link"} : has.fd[d] # has.fd["outer"]}
<1>1. has \in Held
  BY DEF TypeOK, Held
<1>2. has' = [has EXCEPT !.fds = F, !.skel = "freed", !.attached = FALSE,
                         !.capture_enabled = FALSE]
  BY <1>1 DEF DestroySkeleton, Close, Held
<1>3. F \subseteq has.fds /\ F \subseteq Descriptors
  BY <1>1 DEF Held
<1> HIDE DEF F
<1>4. /\ has' \in Held /\ has'.fd = has.fd
      /\ has'.fds \subseteq has.fds /\ has'.skel = "freed"
      /\ has'.ringbuf = has.ringbuf /\ ~has'.capture_enabled
  BY <1>1, <1>2, <1>3 DEF Held
<1>5. QED
  BY <1>4, NumbersStay

LEMMA CleanupKeeps ==
  ASSUME Inv, Cleanup
  PROVE  Inv'
<1> USE DEF Inv
<1>1. CASE CleanRings
  <2> USE <1>1 DEF CleanRings, At
  <2>1. /\ has' \in Held /\ NumbersInv' /\ has'.fds \subseteq has.fds
        /\ has'.skel = has.skel /\ has'.capture_enabled = has.capture_enabled
        /\ misuse' = misuse
    <3>1. CASE single
      BY <3>1, NumbersStay DEF TypeOK, Held
    <3>2. CASE ~single
      <4>1. FreeRings /\ misuse' = misuse \cup MisusedRings
        BY <3>2 DEF Survives
      <4>2. MisusedRings = {}
        BY DEF MisusedRings, ReleaseInv
      <4>3. QED
        BY <4>1, <4>2, FreeRingsGives
    <3>3. QED
      BY <3>1, <3>2
  <2>2. TypeOK' /\ SetupInv'
    BY <2>1 DEF TypeOK, Held, SetupInv
  <2>3. ReleaseInv' /\ MisuseWindow'
    BY <2>1 DEF ReleaseInv, MisuseWindow
  <2>4. QED
    BY <2>1, <2>2, <2>3
<1>2. CASE CleanSkeleton
  <2> USE <1>2 DEF CleanSkeleton, At
  <2>1. /\ has' \in Held /\ NumbersInv' /\ has'.fds \subseteq has.fds
        /\ has'.skel = "freed" /\ has'.ringbuf = has.ringbuf
        /\ ~has'.capture_enabled
    BY DestroySkeletonGives
  <2>2. MisusedSkeleton \subseteq {"outer"} /\ misuse' \subseteq {"outer"}
    BY DEF MisusedSkeleton, Survives, ReleaseInv, TypeOK
  <2>3. TypeOK' /\ SetupInv'
    BY <2>1, <2>2 DEF TypeOK, Held, SetupInv
  <2>4. ReleaseInv' /\ MisuseWindow'
    BY <2>1, <2>2 DEF ReleaseInv, MisuseWindow
  <2>5. QED
    BY <2>1, <2>3, <2>4
<1>3. CASE Return
  <2> USE <1>3 DEF Return, At
  <2>1. TypeOK' /\ SetupInv' /\ ReleaseInv' /\ MisuseWindow'
    BY DEF TypeOK, SetupInv, ReleaseInv, MisuseWindow
  <2>2. QED
    BY <2>1, NumbersStay
<1>4. QED
  BY <1>1, <1>2, <1>3 DEF Cleanup

(* The signal, and the calls the handler makes; an undefined use included. *)
LEMMA SignalKeeps ==
  ASSUME Inv, Signal
  PROVE  Inv'
<1> USE DEF Inv
<1>0. has \in Held
  BY DEF TypeOK, Held
<1>1. CASE signal_callback
  <2> USE <1>1 DEF signal_callback
  <2> DEFINE h == [has EXCEPT !.capture_enabled = FALSE]
  <2>1. /\ h \in Held /\ h.fd = has.fd /\ h.fds = has.fds /\ h.skel = has.skel
        /\ h.ringbuf = has.ringbuf /\ ~h.capture_enabled
    BY <1>0 DEF Held
  <2>2. \/ has.skel = "live" /\ has' = h /\ misuse' = misuse
        \/ /\ has.skel # "live" /\ has' = has
           /\ misuse' = misuse \cup {"skel"} /\ stage = "return"
    BY <1>0 DEF Survives, ReleaseInv, Held
  <2> HIDE DEF h
  <2>3. has' \in Held /\ NumbersInv'
    BY <1>0, <2>1, <2>2, NumbersStay
  <2>4. TypeOK' /\ SetupInv'
    BY <2>2, <2>3 DEF TypeOK, Held, SetupInv
  <2>5. ReleaseInv' /\ MisuseWindow'
    BY <2>1, <2>2 DEF ReleaseInv, MisuseWindow
  <2>6. QED
    BY <2>3, <2>4, <2>5
<1>2. CASE SignalCrashes
  <2> USE <1>2 DEF SignalCrashes, Crash
  <2>1. stage \in {"open", "return"} /\ ~has.capture_enabled
    BY <1>0 DEF ReleaseInv, Held
  <2>2. TypeOK' /\ SetupInv' /\ ReleaseInv' /\ MisuseWindow'
    BY <2>1 DEF TypeOK, SetupInv, ReleaseInv, MisuseWindow
  <2>3. QED
    BY <2>2, NumbersStay
<1>3. CASE HandlerRings
  <2> USE <1>3 DEF HandlerRings
  <2>1. /\ has' \in Held /\ NumbersInv' /\ has'.fds \subseteq has.fds
        /\ has'.skel = has.skel /\ has'.capture_enabled = has.capture_enabled
        /\ misuse' \subseteq misuse \cup {"ringbuf"}
        /\ misuse' # misuse => stage \in {"destroy", "return"}
    <3>1. CASE single
      BY <1>0, <3>1, NumbersStay
    <3>2. CASE ~single
      <4>1. FreeRings /\ misuse' = misuse \cup MisusedRings
        BY <3>2 DEF Survives
      <4>2. MisusedRings \subseteq {"ringbuf"}
            /\ (MisusedRings # {} => stage \in {"destroy", "return"})
        BY DEF MisusedRings, ReleaseInv
      <4>3. QED
        BY <4>1, <4>2, FreeRingsGives
    <3>3. QED
      BY <3>1, <3>2
  <2>2. TypeOK' /\ SetupInv'
    BY <2>1 DEF TypeOK, Held, SetupInv
  <2>3. ReleaseInv' /\ MisuseWindow'
    BY <2>1 DEF ReleaseInv, MisuseWindow
  <2>4. QED
    BY <2>1, <2>2, <2>3
<1>4. CASE HandlerSkeleton
  <2> USE <1>4 DEF HandlerSkeleton
  <2>1. /\ has' \in Held /\ NumbersInv' /\ has'.fds \subseteq has.fds
        /\ has'.skel = "freed" /\ ~has'.capture_enabled
    BY DestroySkeletonGives
  <2>2. /\ misuse' \subseteq misuse \cup {"skel", "outer"}
        /\ "skel" \in misuse' \ misuse => stage = "return"
    BY <1>0 DEF MisusedSkeleton, Survives, ReleaseInv, Held
  <2>3. TypeOK' /\ SetupInv'
    BY <2>1, <2>2 DEF TypeOK, Held, SetupInv
  <2>4. ReleaseInv' /\ MisuseWindow'
    BY <2>1, <2>2 DEF ReleaseInv, MisuseWindow
  <2>5. QED
    BY <2>1, <2>3, <2>4
<1>5. CASE HandlerCrashes
  <2> USE <1>5 DEF HandlerCrashes, Crash
  <2>1. /\ stage \in {"destroy", "return"}
        /\ misuse' \subseteq {"skel", "ringbuf", "outer"} /\ exit' = "crashed"
        /\ UNCHANGED <<single, stage, n_cpus, i, has, err, handler>>
    BY <1>0 DEF ReleaseInv, Held, MisusedRings, MisusedSkeleton, TypeOK
  <2>2. TypeOK' /\ SetupInv' /\ ReleaseInv' /\ MisuseWindow'
    BY <2>1 DEF TypeOK, SetupInv, ReleaseInv, MisuseWindow
  <2>3. QED
    BY <2>1, <2>2, NumbersStay
<1>6. QED
  BY <1>1, <1>2, <1>3, <1>4, <1>5 DEF Signal

-----------------------------------------------------------------------------
LEMMA InitInv == Init => Inv
<1> SUFFICES ASSUME Init
             PROVE  Inv
  OBVIOUS
<1> USE DEF Init, Nothing
<1>1. has \in Held
  BY LoaderAssumption DEF Held, Descriptors
<1>2. TypeOK /\ NumbersInv
  <2>1. \A d \in Descriptors : has.fd[d] = 0 /\ d \notin has.fds
    BY DEF Descriptors
  <2>2. TypeOK
    <3> HIDE DEF Nothing, Init
    <3>1. /\ single \in BOOLEAN /\ n_cpus = 0 /\ i = 0 /\ err = FALSE
          /\ handler = "off" /\ misuse = {} /\ exit = "no"
      BY DEF Init
    <3>2. n_cpus \in 0 .. MAX_CPUS + 1 /\ i \in 0 .. MAX_CPUS
      BY <3>1, LoaderAssumption
    <3>3. /\ err \in BOOLEAN /\ handler \in {"off", "rings", "skeleton"}
          /\ misuse \subseteq {"skel", "ringbuf", "outer"}
          /\ exit \in {"no", "success", "failure", "crashed"}
      BY <3>1
    <3>4. QED
      BY ONLY <1>1, <3>1, <3>2, <3>3 DEF Held, TypeOK
  <2>3. QED
    BY <2>1, <2>2 DEF NumbersInv
<1>3. ReleaseInv /\ MisuseWindow
  BY DEF ReleaseInv, MisuseWindow
<1>4. SetupInv
  BY DEF SetupInv, Opened, Entries, Managed, Looping, SetUp
<1>5. QED
  BY <1>2, <1>3, <1>4 DEF Inv

LEMMA NextInv == Inv /\ [Next]_vars => Inv'
<1> SUFFICES ASSUME Inv, [Next]_vars
             PROVE  Inv'
  OBVIOUS
<1>1. CASE Next
  BY <1>1, SetupKeeps, CleanupKeeps, SignalKeeps DEF Next
<1>2. CASE UNCHANGED vars
  <2>1. NumbersInv'
    BY <1>2, NumbersStay DEF vars, Inv
  <2>2. SetupInv'
    BY <1>2 DEF vars, Inv, SetupInv, Opened, Entries, Managed
  <2>3. TypeOK' /\ ReleaseInv' /\ MisuseWindow'
    BY <1>2 DEF vars, Inv, TypeOK, ReleaseInv, MisuseWindow
  <2>4. QED
    BY <2>1, <2>2, <2>3 DEF Inv
<1>3. QED
  BY <1>1, <1>2

(* Whatever fails in the setup and whenever the signal comes, main holds   *)
(* what its stage says, the descriptors keep their numbers, and what is    *)
(* released is known.                                                      *)
THEOREM Invariant == Spec => []Inv
BY InitInv, NextInv, PTL DEF Spec

(* The loop of a userspace program never starts half set up: the programs  *)
(* attached, a ring for every possible cpu in the array and in the manager,*)
(* and of the descriptors only the link's and the manager's open.          *)
THEOREM CaptureReadyHolds == Spec => []CaptureReady
<1>1. Inv => CaptureReady
  <2> SUFFICES ASSUME Inv, has.capture_enabled
               PROVE  CaptureReady
    BY DEF CaptureReady
  <2>1. stage = "loop" /\ At("loop")
    BY DEF Inv, ReleaseInv, At
  <2>2. QED
    BY <2>1, AtFacts
       DEF CaptureReady, Ending, Opened, Managed, Entries, SetUp, Looping
<1>2. QED
  BY <1>1, Invariant, PTL

(* clean() and signal_callback use what is null or released only when the  *)
(* signal finds main before the skeleton is open, or already cleaning up.  *)
THEOREM MisuseWindowHolds == Spec => []MisuseWindow
<1>1. Inv => MisuseWindow
  BY DEF Inv
<1>2. QED
  BY <1>1, Invariant, PTL

(* A program that ended leaves at most one of the two descriptors main     *)
(* opens for itself, whichever call failed.                                *)
THEOREM OneDescriptorAtMostHolds == Spec => []OneDescriptorAtMost
<1>1. Inv => OneDescriptorAtMost
  BY DEF Inv, ReleaseInv, OneDescriptorAtMost
<1>2. QED
  BY <1>1, Invariant, PTL

(* The number of the outer map, which main closes and the skeleton closes  *)
(* again, is given to no other descriptor in between.                      *)
THEOREM OuterNumberUnusedHolds == Spec => []OuterNumberUnused
<1>1. Inv => OuterNumberUnused
  <2> SUFFICES ASSUME Inv, NEW d \in has.fds \ {"outer"}
               PROVE  has.fd[d] # has.fd["outer"]
    BY DEF OuterNumberUnused
  <2>1. d \in Descriptors /\ "outer" \in Descriptors /\ single \in BOOLEAN
    BY DEF Inv, TypeOK, Descriptors
  <2>2. has.fd[d] = NumberOf(d) /\ has.fd["outer"] \in {0, 2}
        /\ (single => has.fd["outer"] = 0) /\ has.fd[d] # 0
    BY <2>1 DEF Inv, NumbersInv, NumberOf
  <2>3. QED
    BY <2>1, <2>2 DEF NumberOf, Descriptors
<1>2. QED
  BY <1>1, Invariant, PTL

-----------------------------------------------------------------------------
(* The scripts.  Reports has their state, and Sh their actions.            *)
Sh == INSTANCE Harness

(* The states of a process, and the lines of the file.                     *)
States == {"none", "loading", "armed", "running", "stopping", "gone", "failed"}

Lines == [rep : Sh!Repetitions, what : {"drops", "elaborated"}]

(* Reports have two lines: what follows an odd line of a file of whole     *)
(* reports, and what one report more adds.                                 *)
LEMMA Parity ==
  ASSUME NEW n \in Nat, n % 2 = 0
  PROVE  /\ (n + 2) % 2 = 0
         /\ \A k \in 1 .. n : k % 2 = 1 => k + 1 \in 1 .. n
         /\ \A k \in 1 .. n + 2 : k % 2 = 1 => k \in 1 .. n \/ k = n + 1
OBVIOUS

(* The other line of the report, by the parity of a line.                  *)
LEMMA HalfOf ==
  ASSUME NEW n \in Nat, NEW k \in 1 .. n
  PROVE  /\ k % 2 = 0 \/ k % 2 = 1
         /\ k % 2 = 0 => k - 1 \in 1 .. n /\ (k - 1) % 2 = 1 /\ (k - 1) + 1 = k
         /\ k % 2 = 1 => (k + 1) % 2 = 0
OBVIOUS

(* The program of a repetition is one of its processes, and of no other.   *)
LEMMA ProgramIsProcess ==
  ASSUME NEW r \in Sh!Repetitions
  PROVE  /\ Sh!Program(r) \in Sh!Processes /\ Sh!IsProgram(Sh!Program(r))
         /\ Sh!Program(r)[1] = r
         /\ \A p \in Sh!Processes :
              Sh!IsProgram(p) /\ p[1] = r => p = Sh!Program(r)
BY HarnessAssumption DEF Sh!Program, Sh!Processes, Sh!IsProgram

(* A process belongs to a repetition.                                      *)
LEMMA ProcessTypes ==
  ASSUME NEW p \in Sh!Processes
  PROVE  /\ p[1] \in Sh!Repetitions /\ p[1] \in Int
         /\ Sh!IsProgram(p) => p = Sh!Program(p[1])
BY HarnessAssumption DEF Sh!Program, Sh!Processes, Sh!IsProgram, Sh!Repetitions

(* What the invariant says of types.                                       *)
LEMMA Types ==
  ASSUME Sh!ScriptsInv
  PROVE  /\ proc \in [Sh!Processes -> States]
         /\ file \in Seq(Lines) /\ Len(file) \in Nat
         /\ rep \in Sh!Repetitions /\ rep \in Int /\ Repeat \in Int /\ rep <= Repeat
         /\ cnt \in Nat /\ cnt <= Len(file)
<1>1. /\ proc \in [Sh!Processes -> States]
      /\ file \in Seq(Lines) /\ rep \in Sh!Repetitions /\ cnt \in 0 .. Len(file)
  BY DEF Sh!ScriptsInv, Sh!TypeInv, States, Lines
<1>2. Len(file) \in Nat
  BY <1>1, LenProperties
<1>3. QED
  BY <1>1, <1>2, HarnessAssumption DEF Sh!Repetitions

(* A step that writes nothing and reads nothing keeps the books, if nobody *)
(* comes to be gone by it, or was.                                         *)
LEMMA BooksStay ==
  ASSUME Sh!ScriptsInv, UNCHANGED <<file, cnt, drops, elaborated>>,
         proc' \in [Sh!Processes -> States], rep' \in Sh!Repetitions,
         \A r \in Sh!Repetitions :
           proc'[Sh!Program(r)] = "gone" <=> proc[Sh!Program(r)] = "gone"
  PROVE  Sh!TypeInv' /\ Sh!FileInv' /\ Sh!ReadInv'
BY Types DEF Sh!ScriptsInv, Sh!TypeInv, Sh!FileInv, Sh!ReadInv, States

-----------------------------------------------------------------------------
(* The steps of a process.  One that is started and gets on is still       *)
(* started; and one that was interrupted, when sleeps are long enough, can *)
(* only end.                                                               *)
LEMMA LiveStarts ==
  ASSUME Sh!ScriptsInv, NEW p \in Sh!Processes, NEW s \in States,
         proc[p] \notin {"none", "gone", "failed"}, s # "none",
         Sh!Becomes(p, s),
         proc[p] = "stopping" => s = "gone",
         UNCHANGED Sh!scriptVars, Len(file') \in Nat,
         UNCHANGED file \/ proc[p] = "stopping"
  PROVE  proc' \in [Sh!Processes -> States] /\ Sh!StartInv' /\ Sh!TimelyInv'
<1> USE Types DEF Sh!Becomes, Sh!scriptVars
<1>1. /\ proc' \in [Sh!Processes -> States]
      /\ \A q \in Sh!Processes : q # p => proc'[q] = proc[q]
      /\ proc'[p] = s
  OBVIOUS
<1>2. Sh!Program(rep) \in Sh!Processes
  BY ProgramIsProcess
<1>3. Sh!StartInv'
  BY <1>1, <1>2 DEF Sh!ScriptsInv, Sh!StartInv
<1>4. ASSUME timely
      PROVE  /\ \A q \in Sh!Processes : q[1] < rep \/ spc = "sleep 2"
                  => proc'[q] \in {"stopping", "gone", "failed"}
             /\ spc = "sleep 1" => proc'[Sh!Program(rep)] # "none"
             /\ spc = "sleep 3" =>
                  \A q \in Sh!Processes : q[1] = rep => proc'[q] # "none"
             /\ spc \notin {"parse", "done"}
  BY <1>1, <1>2, <1>4 DEF Sh!ScriptsInv, Sh!TimelyInv
<1>5. Sh!TimelyInv'
  BY <1>4 DEF Sh!TimelyInv
<1>6. QED
  BY <1>1, <1>3, <1>5

(* Its setup.                                                              *)
LEMMA GetsOnKeeps ==
  ASSUME Sh!ScriptsInv, NEW p \in Sh!Processes,
         Sh!InstallHandler(p) \/ Sh!FinishSetup(p)
  PROVE  Sh!ScriptsInv'
<1>1. PICK s \in States :
        /\ Sh!Becomes(p, s) /\ s \notin {"none", "gone"}
        /\ proc[p] \in {"loading", "armed"} /\ UNCHANGED <<file, Sh!scriptVars>>
  BY DEF Sh!InstallHandler, Sh!FinishSetup, States
<1>2. proc' \in [Sh!Processes -> States] /\ Sh!StartInv' /\ Sh!TimelyInv'
  BY <1>1, Types, LiveStarts
<1>3. \A r \in Sh!Repetitions :
        proc'[Sh!Program(r)] = "gone" <=> proc[Sh!Program(r)] = "gone"
  BY <1>1, Types, ProgramIsProcess DEF Sh!Becomes
<1>4. Sh!TypeInv' /\ Sh!FileInv' /\ Sh!ReadInv'
  BY <1>1, <1>2, <1>3, BooksStay, Types DEF Sh!scriptVars
<1>5. QED
  BY <1>2, <1>4 DEF Sh!ScriptsInv

(* A report is appended whole.                                             *)
LEMMA Appended ==
  ASSUME Sh!ScriptsInv, NEW r \in Sh!Repetitions,
         file' = file \o Sh!Report(Sh!Program(r))
  PROVE  /\ file' \in Seq(Lines) /\ Len(file') = Len(file) + 2
         /\ \A k \in 1 .. Len(file) : file'[k] = file[k]
         /\ file'[Len(file) + 1] = [rep |-> r, what |-> "drops"]
         /\ file'[Len(file) + 2] = [rep |-> r, what |-> "elaborated"]
<1>1. Sh!Program(r)[1] = r
  BY ProgramIsProcess
<1>2. Sh!Report(Sh!Program(r)) =
        <<[rep |-> r, what |-> "drops"], [rep |-> r, what |-> "elaborated"]>>
  BY <1>1 DEF Sh!Report, Sh!Line
<1>3. /\ Sh!Report(Sh!Program(r)) \in Seq(Lines)
      /\ Len(Sh!Report(Sh!Program(r))) = 2
  BY <1>2 DEF Lines
<1>4. file \in Seq(Lines)
  BY Types
<1>5. QED
  BY <1>2, <1>3, <1>4, ConcatProperties

(* A program that ends adds its report to those in the file, after the     *)
(* lines that were read.                                                   *)
LEMMA ExitKeeps ==
  ASSUME Sh!ScriptsInv, NEW p \in Sh!Processes, Sh!Exit(p)
  PROVE  Sh!ScriptsInv'
<1> USE Types DEF Sh!Exit
<1>1. CASE ~Sh!IsProgram(p)
  <2>1. UNCHANGED file
    BY <1>1
  <2>2. proc' \in [Sh!Processes -> States] /\ Sh!StartInv' /\ Sh!TimelyInv'
    BY <2>1, LiveStarts DEF States
  <2>3. \A r \in Sh!Repetitions : p # Sh!Program(r)
    BY <1>1, ProgramIsProcess
  <2>4. \A r \in Sh!Repetitions :
          proc'[Sh!Program(r)] = "gone" <=> proc[Sh!Program(r)] = "gone"
    BY <2>3, ProgramIsProcess DEF Sh!Becomes
  <2>5. Sh!TypeInv' /\ Sh!FileInv' /\ Sh!ReadInv'
    BY <2>1, <2>2, <2>4, BooksStay DEF Sh!scriptVars
  <2>6. QED
    BY <2>2, <2>5 DEF Sh!ScriptsInv
<1>2. CASE Sh!IsProgram(p)
  <2> DEFINE r == p[1]
             n == Len(file)
  <2>1. r \in Sh!Repetitions /\ p = Sh!Program(r)
    BY <1>2, ProcessTypes
  <2> HIDE DEF r
  <2>2. /\ file' \in Seq(Lines) /\ Len(file') = n + 2
        /\ \A k \in 1 .. n : file'[k] = file[k]
        /\ file'[n + 1] = [rep |-> r, what |-> "drops"]
        /\ file'[n + 2] = [rep |-> r, what |-> "elaborated"]
    BY <1>2, <2>1, Appended
  <2>3. n \in Nat
    OBVIOUS
  <2> HIDE DEF n
  <2>4. proc' \in [Sh!Processes -> States] /\ Sh!StartInv' /\ Sh!TimelyInv'
    BY <2>2, <2>3, LiveStarts DEF States
  <2>5. Sh!TypeInv'
    BY <2>2, <2>3, <2>4 DEF Sh!TypeInv, States, Lines, Sh!scriptVars, n
  <2>6. Sh!FileInv'
    <3>1. /\ n % 2 = 0
          /\ \A k \in 1 .. n : k % 2 = 1 =>
               /\ file[k].what = "drops" /\ file[k + 1].what = "elaborated"
               /\ file[k].rep = file[k + 1].rep
          /\ \A q \in Sh!Repetitions : proc[Sh!Program(q)] = "gone" <=>
               \E k \in 1 .. n : file[k].rep = q
      BY DEF Sh!ScriptsInv, Sh!FileInv, n
    <3>2. Len(file') % 2 = 0
      <4>1. (n + 2) % 2 = 0
        BY ONLY <2>3, <3>1, Parity
      <4>2. QED
        BY <2>2, <4>1
    <3>3. ASSUME NEW k \in 1 .. n + 2, k % 2 = 1
          PROVE  /\ file'[k].what = "drops" /\ file'[k + 1].what = "elaborated"
                 /\ file'[k].rep = file'[k + 1].rep
      <4>1. CASE k \in 1 .. n
        <5>1. k + 1 \in 1 .. n
          BY ONLY <2>3, <3>1, <3>3, <4>1, Parity
        <5>2. file'[k] = file[k] /\ file'[k + 1] = file[k + 1]
          BY <2>2, <4>1, <5>1
        <5>3. QED
          BY ONLY <3>1, <3>3, <4>1, <5>2
      <4>2. CASE k = n + 1
        <5>1. k + 1 = n + 2
          BY ONLY <2>3, <4>2
        <5>2. file'[k] = [rep |-> r, what |-> "drops"]
              /\ file'[k + 1] = [rep |-> r, what |-> "elaborated"]
          BY <2>2, <4>2, <5>1
        <5>3. QED
          BY ONLY <5>2
      <4>3. QED
        BY ONLY <2>3, <3>1, <3>3, <4>1, <4>2, Parity
    <3>4. ASSUME NEW q \in Sh!Repetitions
          PROVE  proc'[Sh!Program(q)] = "gone" <=>
                   \E k \in 1 .. n + 2 : file'[k].rep = q
      <4>1. (\E k \in 1 .. n + 2 : file'[k].rep = q)
              <=> (\E k \in 1 .. n : file[k].rep = q) \/ q = r
        <5>1. \A k \in 1 .. n + 2 : k \in 1 .. n \/ k = n + 1 \/ k = n + 2
          BY ONLY <2>3
        <5>2. n + 1 \in 1 .. n + 2 /\ \A k \in 1 .. n : k \in 1 .. n + 2
          BY ONLY <2>3
        <5>3. file'[n + 1].rep = r /\ file'[n + 2].rep = r
          <6>1. /\ file'[n + 1] = [rep |-> r, what |-> "drops"]
                /\ file'[n + 2] = [rep |-> r, what |-> "elaborated"]
            BY <2>2
          <6>2. QED
            BY ONLY <6>1
        <5>4. \A k \in 1 .. n : file'[k].rep = file[k].rep
          BY <2>2
        <5>5. \A k \in 1 .. n + 2 : file'[k].rep = r \/ k \in 1 .. n
          BY ONLY <2>3, <5>1, <5>3
        <5>6. QED
          BY ONLY <5>2, <5>3, <5>4, <5>5
      <4>2. proc'[Sh!Program(q)] = "gone"
              <=> proc[Sh!Program(q)] = "gone" \/ q = r
        <5>1. Sh!Program(q) \in Sh!Processes /\ Sh!Program(r) \in Sh!Processes
              /\ (Sh!Program(q) = Sh!Program(r) => q = r)
          BY <2>1, ProgramIsProcess
        <5>2. QED
          BY <2>1, <5>1 DEF Sh!Becomes
      <4>3. QED
        BY <3>1, <4>1, <4>2
    <3>5. Len(file') = n + 2
      BY <2>2
    <3>6. QED
      BY ONLY <3>2, <3>3, <3>4, <3>5 DEF Sh!FileInv
  <2>7. Sh!ReadInv'
    <3>1. cnt <= n /\ UNCHANGED <<cnt, drops, elaborated>>
      BY DEF n, Sh!scriptVars
    <3>2. \A k \in 1 .. cnt : file'[k] = file[k]
      BY <2>2, <2>3, <3>1
    <3>3. QED
      BY <3>1, <3>2 DEF Sh!ScriptsInv, Sh!ReadInv
  <2>8. QED
    BY <2>4, <2>5, <2>6, <2>7 DEF Sh!ScriptsInv
<1>3. QED
  BY <1>1, <1>2

-----------------------------------------------------------------------------
(* The steps of the scripts.  Only the program of this repetition starts.  *)
LEMMA LaunchProgramKeeps ==
  ASSUME Sh!ScriptsInv, Sh!LaunchProgram
  PROVE  Sh!ScriptsInv'
<1> USE Types DEF Sh!LaunchProgram, Sh!Becomes
<1>1. Sh!Program(rep) \in Sh!Processes /\ Sh!Program(rep)[1] = rep
  BY ProgramIsProcess
<1>2. /\ proc' \in [Sh!Processes -> States]
      /\ proc'[Sh!Program(rep)] = "loading" /\ proc[Sh!Program(rep)] = "none"
      /\ \A p \in Sh!Processes : p # Sh!Program(rep) => proc'[p] = proc[p]
  BY <1>1 DEF States, Sh!ScriptsInv, Sh!StartInv
<1>3. Sh!TypeInv' /\ Sh!FileInv' /\ Sh!ReadInv'
  <2>1. \A r \in Sh!Repetitions :
          proc'[Sh!Program(r)] = "gone" <=> proc[Sh!Program(r)] = "gone"
    BY <1>2, ProgramIsProcess
  <2>2. QED
    BY <1>2, <2>1, BooksStay
<1>4. Sh!StartInv'
  <2>1. ASSUME NEW p \in Sh!Processes, p[1] > rep
        PROVE  proc'[p] = "none"
    <3>1. rep \in Int
      OBVIOUS
    <3>2. p # Sh!Program(rep)
      BY ONLY <1>1, <2>1, <3>1
    <3>3. QED
      BY <1>2, <2>1, <3>2 DEF Sh!ScriptsInv, Sh!StartInv
  <2>2. QED
    BY <2>1 DEF Sh!StartInv
<1>5. Sh!TimelyInv'
  BY <1>1, <1>2, ProcessTypes DEF Sh!ScriptsInv, Sh!TimelyInv
<1>6. QED
  BY <1>3, <1>4, <1>5 DEF Sh!ScriptsInv

(* The stress processes of this repetition start.                          *)
LEMMA LaunchStressKeeps ==
  ASSUME Sh!ScriptsInv, Sh!LaunchStress
  PROVE  Sh!ScriptsInv'
<1>1. /\ proc' \in [Sh!Processes -> States]
      /\ \A p \in Sh!Processes : p[1] # rep => proc'[p] = proc[p]
      /\ \A p \in Sh!Processes :
           p[1] = rep /\ ~Sh!IsProgram(p) => proc'[p] = "loading"
      /\ \A p \in Sh!Processes : Sh!IsProgram(p) => proc'[p] = proc[p]
  BY Types DEF Sh!LaunchStress, States
<1>2. /\ spc = "sleep 1" /\ spc' = "sleep 3"
      /\ UNCHANGED <<file, rep, cnt, drops, elaborated, timely>>
  BY DEF Sh!LaunchStress
<1>3. \A p \in Sh!Processes : p[1] \in Int
  BY ProcessTypes
<1>4. rep \in Int
  BY Types
<1>5. Sh!TypeInv' /\ Sh!FileInv' /\ Sh!ReadInv'
  <2>1. \A r \in Sh!Repetitions : proc'[Sh!Program(r)] = proc[Sh!Program(r)]
    BY <1>1, ProgramIsProcess
  <2>2. QED
    BY <1>1, <1>2, <2>1, BooksStay, Types
<1>6. Sh!StartInv'
  <2>1. \A p \in Sh!Processes : p[1] > rep => p[1] # rep
    BY ONLY <1>3, <1>4
  <2>2. QED
    BY <1>1, <1>2, <2>1 DEF Sh!ScriptsInv, Sh!StartInv
<1>7. Sh!TimelyInv'
  <2> SUFFICES ASSUME timely PROVE Sh!TimelyInv'
    BY <1>2 DEF Sh!TimelyInv
  <2>1. \A p \in Sh!Processes : p[1] < rep => p[1] # rep
    BY ONLY <1>3, <1>4
  <2>2. \A p \in Sh!Processes :
          p[1] < rep => proc'[p] \in {"stopping", "gone", "failed"}
    BY <1>1, <1>2, <2>1 DEF Sh!ScriptsInv, Sh!TimelyInv
  <2>3. ASSUME NEW p \in Sh!Processes, p[1] = rep
        PROVE  proc'[p] # "none"
    <3>1. CASE Sh!IsProgram(p)
      <4>1. p = Sh!Program(rep)
        BY <2>3, <3>1, ProcessTypes
      <4>2. QED
        BY <1>1, <1>2, <3>1, <4>1 DEF Sh!ScriptsInv, Sh!TimelyInv
    <3>2. QED
      BY <1>1, <2>3, <3>1
  <2>4. QED
    BY <1>2, <2>2, <2>3 DEF Sh!TimelyInv
<1>8. QED
  BY <1>5, <1>6, <1>7 DEF Sh!ScriptsInv

(* Nobody ends by the interrupt itself; and if all had settled, everything *)
(* that was started is now ending or has ended.                            *)
LEMMA InterruptAllKeeps ==
  ASSUME Sh!ScriptsInv, Sh!InterruptAll
  PROVE  Sh!ScriptsInv'
<1>1. PICK crashed \in SUBSET {p \in Sh!Processes : proc[p] = "armed"} :
        proc' = [p \in Sh!Processes |-> Sh!Stops(crashed, p)]
  BY DEF Sh!InterruptAll, Sh!Interrupt
<1>2. ASSUME NEW p \in Sh!Processes
      PROVE  proc'[p] = IF p \in crashed THEN "failed"
                        ELSE IF proc[p] \in {"armed", "running"} THEN "stopping"
                        ELSE proc[p]
  BY <1>1 DEF Sh!Stops
<1>3. /\ proc' \in [Sh!Processes -> States]
      /\ \A p \in Sh!Processes :
           /\ proc'[p] = "gone" <=> proc[p] = "gone"
           /\ proc'[p] = "none" <=> proc[p] = "none"
      /\ timely => \A p \in Sh!Processes : proc[p] # "none" =>
                     proc'[p] \in {"stopping", "gone", "failed"}
  <2>1. \A p \in Sh!Processes : proc'[p] \in States
    BY <1>2, Types DEF States
  <2>2. \A p \in Sh!Processes :
          /\ proc'[p] = "gone" <=> proc[p] = "gone"
          /\ proc'[p] = "none" <=> proc[p] = "none"
    BY <1>1, <1>2
  <2>3. ASSUME timely, NEW p \in Sh!Processes, proc[p] # "none"
        PROVE  proc'[p] \in {"stopping", "gone", "failed"}
    <3>1. Sh!Settled(p) /\ proc[p] \in States
      BY <2>3, Types DEF Sh!InterruptAll, Sh!EndRepetition
    <3>2. QED
      BY <1>2, <2>3, <3>1 DEF Sh!Settled, States
  <2>4. QED
    BY <1>1, <2>1, <2>2, <2>3
<1>4. /\ spc = "sleep 3" /\ UNCHANGED <<file, cnt, drops, elaborated, timely>>
      /\ \/ rep < Repeat /\ spc' = "launch" /\ rep' = rep + 1
         \/ ~(rep < Repeat) /\ spc' = "sleep 2" /\ rep' = rep
  BY DEF Sh!InterruptAll, Sh!EndRepetition
<1>5. rep \in 1 .. Repeat /\ Repeat \in Nat
  BY Types, HarnessAssumption DEF Sh!Repetitions
<1>6. \A p \in Sh!Processes : p[1] \in Int /\ p[1] <= Repeat
  BY <1>5, ProcessTypes DEF Sh!Repetitions
<1>7. /\ rep' \in Sh!Repetitions
      /\ spc' = "launch" => rep' > rep
      /\ spc' = "sleep 2" => rep' = Repeat /\ rep = Repeat
      /\ \A p \in Sh!Processes : p[1] > rep' => p[1] > rep
      /\ \A p \in Sh!Processes :
           p[1] < rep' \/ spc' = "sleep 2" => p[1] <= rep
      /\ spc' \in {"launch", "sleep 2"}
  <2>1. CASE rep < Repeat /\ spc' = "launch" /\ rep' = rep + 1
    <3>1. rep + 1 \in Sh!Repetitions /\ rep + 1 > rep
      BY <1>5, <2>1 DEF Sh!Repetitions
    <3>2. \A p \in Sh!Processes :
            /\ p[1] > rep + 1 => p[1] > rep
            /\ p[1] < rep + 1 => p[1] <= rep
      BY ONLY <1>5, <1>6
    <3>3. rep' = rep + 1 /\ spc' = "launch" /\ ~(spc' = "sleep 2")
      BY <2>1
    <3>4. \A p \in Sh!Processes : p[1] > rep' => p[1] > rep
      BY ONLY <1>5, <1>6, <3>3
    <3>5. \A p \in Sh!Processes :
            p[1] < rep' \/ spc' = "sleep 2" => p[1] <= rep
      BY ONLY <1>5, <1>6, <3>3
    <3>6. QED
      BY ONLY <3>1, <3>3, <3>4, <3>5
  <2>2. CASE ~(rep < Repeat) /\ spc' = "sleep 2" /\ rep' = rep
    <3>1. rep = Repeat
      <4>1. ~(rep < Repeat)
        BY <2>2
      <4>2. QED
        BY ONLY <1>5, <4>1
    <3>2. rep \in Sh!Repetitions
      BY Types
    <3>3. QED
      BY <1>6, <2>2, <3>1, <3>2
  <2>3. QED
    BY ONLY <1>4, <2>1, <2>2
<1>8. Sh!TypeInv' /\ Sh!FileInv' /\ Sh!ReadInv'
  <2>1. UNCHANGED <<file, cnt, drops, elaborated>>
    BY <1>4
  <2>2. \A r \in Sh!Repetitions :
          proc'[Sh!Program(r)] = "gone" <=> proc[Sh!Program(r)] = "gone"
    <3>1. \A p \in Sh!Processes : proc'[p] = "gone" <=> proc[p] = "gone"
      BY <1>3
    <3>2. ASSUME NEW r \in Sh!Repetitions
          PROVE  proc'[Sh!Program(r)] = "gone"
                   <=> proc[Sh!Program(r)] = "gone"
      <4>1. Sh!Program(r) \in Sh!Processes
        BY ProgramIsProcess
      <4>2. QED
        BY ONLY <3>1, <4>1
    <3>3. QED
      BY ONLY <3>2
  <2>3. proc' \in [Sh!Processes -> States] /\ rep' \in Sh!Repetitions
    BY <1>3, <1>7
  <2>4. QED
    BY <2>1, <2>2, <2>3, BooksStay
<1>9. Sh!StartInv'
  <2>1. \A p \in Sh!Processes : p[1] > rep => proc'[p] = "none"
    BY <1>3 DEF Sh!ScriptsInv, Sh!StartInv
  <2>2. Sh!Program(rep') \in Sh!Processes /\ Sh!Program(rep')[1] = rep'
    BY <1>7, ProgramIsProcess
  <2>3. QED
    BY <1>7, <2>1, <2>2 DEF Sh!StartInv
<1>10. Sh!TimelyInv'
  <2> SUFFICES ASSUME timely PROVE Sh!TimelyInv'
    BY <1>4 DEF Sh!TimelyInv
  <2>1. \A p \in Sh!Processes : p[1] <= rep => p[1] < rep \/ p[1] = rep
    BY ONLY <1>5, <1>6
  <2>2. \A p \in Sh!Processes : p[1] <= rep => proc[p] # "none"
    BY <1>4, <2>1 DEF Sh!ScriptsInv, Sh!TimelyInv
  <2>3. \A p \in Sh!Processes :
          p[1] <= rep => proc'[p] \in {"stopping", "gone", "failed"}
    BY <1>3, <2>2
  <2>4. QED
    BY <1>7, <2>3 DEF Sh!TimelyInv
<1>11. QED
  BY <1>8, <1>9, <1>10 DEF Sh!ScriptsInv

(* A line read goes to the sum its place tells.                            *)
LEMMA ParseLineKeeps ==
  ASSUME Sh!ScriptsInv, Sh!ParseLine
  PROVE  Sh!ScriptsInv'
<1>1. /\ spc = "parse" /\ cnt' = cnt + 1
      /\ UNCHANGED <<proc, file, spc, rep, timely>>
      /\ cnt \in Nat /\ Len(file) \in Nat /\ cnt < Len(file)
  BY Types DEF Sh!ParseLine
<1>2. cnt' \in 0 .. Len(file)
  BY ONLY <1>1
<1>3. Sh!TypeInv' /\ Sh!FileInv' /\ Sh!StartInv' /\ Sh!TimelyInv'
  BY <1>1, <1>2 DEF Sh!ScriptsInv, Sh!TypeInv, Sh!FileInv, Sh!StartInv,
                    Sh!TimelyInv
<1>4. Sh!ReadInv'
  <2> DEFINE Read(c, b) == {n \in 1 .. c : n % 2 = b}
             Sum(c, b) == {file[k] : k \in Read(c, b)}
  <2>1. drops = Sum(cnt, 1) /\ elaborated = Sum(cnt, 0)
    BY DEF Sh!ScriptsInv, Sh!ReadInv
  <2>2. cnt % 2 = 0 => Read(cnt + 1, 1) = Read(cnt, 1) \cup {cnt + 1}
                       /\ Read(cnt + 1, 0) = Read(cnt, 0)
    BY ONLY <1>1
  <2>3. cnt % 2 # 0 => Read(cnt + 1, 0) = Read(cnt, 0) \cup {cnt + 1}
                       /\ Read(cnt + 1, 1) = Read(cnt, 1)
    BY ONLY <1>1
  <2> HIDE DEF Read
  <2>4. cnt % 2 = 0 => /\ drops' = drops \cup {file[cnt + 1]}
                       /\ elaborated' = elaborated
    BY DEF Sh!ParseLine
  <2>5. cnt % 2 # 0 => /\ elaborated' = elaborated \cup {file[cnt + 1]}
                       /\ drops' = drops
    BY DEF Sh!ParseLine
  <2>6. drops' = Sum(cnt + 1, 1) /\ elaborated' = Sum(cnt + 1, 0)
    <3>1. CASE cnt % 2 = 0
      BY ONLY <2>1, <2>2, <2>4, <3>1
    <3>2. CASE cnt % 2 # 0
      BY ONLY <2>1, <2>3, <2>5, <3>2
    <3>3. QED
      BY ONLY <3>1, <3>2
  <2>7. QED
    BY <1>1, <2>6 DEF Sh!ReadInv, Read
<1>5. QED
  BY <1>3, <1>4 DEF Sh!ScriptsInv

(* The steps that only go on: the last sleep, and the end.                 *)
LEMMA GoesOnKeeps ==
  ASSUME Sh!ScriptsInv, Sh!BeginParse \/ Sh!PrintResult
  PROVE  Sh!ScriptsInv'
<1>1. UNCHANGED <<proc, file, rep, cnt, drops, elaborated, timely>>
  BY DEF Sh!BeginParse, Sh!PrintResult
<1>2. Sh!TypeInv' /\ Sh!FileInv' /\ Sh!ReadInv'
  BY <1>1 DEF Sh!ScriptsInv, Sh!TypeInv, Sh!FileInv, Sh!ReadInv
<1>3. Sh!StartInv'
  BY <1>1 DEF Sh!ScriptsInv, Sh!StartInv, Sh!BeginParse, Sh!PrintResult
<1>4. Sh!TimelyInv'
  <2>1. CASE Sh!BeginParse
    <3>1. timely => \A p \in Sh!Processes :
             proc[p] \in {"stopping", "gone", "failed"} /\ Sh!Settled(p)
      BY <2>1 DEF Sh!BeginParse, Sh!ScriptsInv, Sh!TimelyInv
    <3>2. timely => \A p \in Sh!Processes : proc[p] \in {"gone", "failed"}
      BY <3>1 DEF Sh!Settled
    <3>3. spc = "sleep 2" /\ spc' = "parse"
      BY <2>1 DEF Sh!BeginParse
    <3>4. QED
      BY <1>1, <3>2, <3>3 DEF Sh!ScriptsInv, Sh!TimelyInv
  <2>2. CASE Sh!PrintResult
    BY <1>1, <2>2 DEF Sh!PrintResult, Sh!ScriptsInv, Sh!TimelyInv
  <2>3. QED
    BY <2>1, <2>2
<1>5. QED
  BY <1>2, <1>3, <1>4 DEF Sh!ScriptsInv

-----------------------------------------------------------------------------
(* The invariant is inductive.                                             *)
LEMMA InvKept == Sh!ScriptsInv /\ [Sh!Next]_Sh!vars => Sh!ScriptsInv'
<1> SUFFICES ASSUME Sh!ScriptsInv, [Sh!Next]_Sh!vars
             PROVE  Sh!ScriptsInv'
  OBVIOUS
<1>1. CASE Sh!Script
  BY <1>1, LaunchProgramKeeps, LaunchStressKeeps, InterruptAllKeeps,
     ParseLineKeeps, GoesOnKeeps DEF Sh!Script
<1>2. CASE \E p \in Sh!Processes : Sh!Live(p)
  BY <1>2, GetsOnKeeps, ExitKeeps DEF Sh!Live
<1>3. CASE UNCHANGED Sh!vars
  <2>1. Sh!TypeInv' /\ Sh!FileInv' /\ Sh!ReadInv'
    BY <1>3 DEF Sh!vars, Sh!scriptVars, Sh!ScriptsInv, Sh!TypeInv, Sh!FileInv,
                Sh!ReadInv
  <2>2. Sh!StartInv' /\ Sh!TimelyInv'
    BY <1>3 DEF Sh!vars, Sh!scriptVars, Sh!ScriptsInv, Sh!StartInv, Sh!TimelyInv
  <2>3. QED
    BY <2>1, <2>2 DEF Sh!ScriptsInv
<1>4. QED
  BY <1>1, <1>2, <1>3 DEF Sh!Next

(* It holds before anything is started.                                    *)
LEMMA InvStarts == Sh!Init => Sh!ScriptsInv
<1> SUFFICES ASSUME Sh!Init PROVE Sh!ScriptsInv
  OBVIOUS
<1> USE DEF Sh!Init
<1>1. 1 \in Sh!Repetitions /\ file \in Seq(Lines) /\ Len(file) = 0
  BY HarnessAssumption DEF Sh!Repetitions
<1>2. Sh!TypeInv
  BY <1>1 DEF Sh!TypeInv, Lines
<1>3. \A r \in Sh!Repetitions : Sh!Program(r) \in Sh!Processes
  BY ProgramIsProcess
<1>4. Sh!FileInv /\ Sh!ReadInv
  BY <1>1, <1>3 DEF Sh!FileInv, Sh!ReadInv
<1>5. Sh!StartInv /\ Sh!TimelyInv
  BY <1>1, <1>3, ProcessTypes DEF Sh!StartInv, Sh!TimelyInv, Sh!Repetitions
<1>6. QED
  BY <1>2, <1>4, <1>5 DEF Sh!ScriptsInv

(* The repetitions whose lines are added to the two sums are the same when *)
(* as many lines of both were.                                             *)
LEMMA ReadPairs ==
  ASSUME Sh!ScriptsInv
  PROVE  /\ \A l \in drops : l.what = "drops"
         /\ \A l \in elaborated : l.what = "elaborated"
         /\ cnt % 2 = 0 => {l.rep : l \in drops} = {l.rep : l \in elaborated}
<1>1. cnt \in Nat /\ Len(file) \in Nat /\ cnt <= Len(file)
  BY Types
<1>2. \A k \in 1 .. Len(file) : k % 2 = 1 =>
        /\ file[k].what = "drops" /\ file[k + 1].what = "elaborated"
        /\ file[k].rep = file[k + 1].rep
  BY DEF Sh!ScriptsInv, Sh!FileInv
<1>3. ASSUME NEW k \in 1 .. cnt, k % 2 = 0
      PROVE  /\ k - 1 \in 1 .. cnt /\ (k - 1) % 2 = 1
             /\ file[k].what = "elaborated" /\ file[k - 1].rep = file[k].rep
  <2>1. k - 1 \in 1 .. cnt /\ (k - 1) % 2 = 1 /\ (k - 1) + 1 = k
    BY ONLY <1>1, <1>3, HalfOf
  <2>2. k - 1 \in 1 .. Len(file)
    BY ONLY <1>1, <2>1
  <2>3. QED
    BY ONLY <1>2, <2>1, <2>2
<1>4. ASSUME NEW k \in 1 .. cnt, k % 2 = 1
      PROVE  /\ file[k].what = "drops" /\ file[k + 1].rep = file[k].rep
             /\ cnt % 2 = 0 => k + 1 \in 1 .. cnt /\ (k + 1) % 2 = 0
  <2>1. k \in 1 .. Len(file)
    BY ONLY <1>1
  <2>2. (k + 1) % 2 = 0 /\ (cnt % 2 = 0 => k + 1 \in 1 .. cnt)
    BY ONLY <1>1, <1>4, HalfOf, Parity
  <2>3. QED
    BY ONLY <1>2, <1>4, <2>1, <2>2
<1>5. /\ drops = {file[k] : k \in {n \in 1 .. cnt : n % 2 = 1}}
      /\ elaborated = {file[k] : k \in {n \in 1 .. cnt : n % 2 = 0}}
  BY DEF Sh!ScriptsInv, Sh!ReadInv
<1>6. ASSUME cnt % 2 = 0, NEW l \in drops
      PROVE  \E m \in elaborated : m.rep = l.rep
  <2>1. PICK k \in 1 .. cnt : k % 2 = 1 /\ l = file[k]
    BY <1>5
  <2>2. file[k + 1] \in elaborated /\ file[k + 1].rep = l.rep
    BY <1>4, <1>5, <1>6, <2>1
  <2>3. QED
    BY <2>2
<1>7. ASSUME NEW l \in elaborated
      PROVE  \E m \in drops : m.rep = l.rep
  <2>1. PICK k \in 1 .. cnt : k % 2 = 0 /\ l = file[k]
    BY <1>5
  <2>2. file[k - 1] \in drops /\ file[k - 1].rep = l.rep
    BY <1>3, <1>5, <2>1
  <2>3. QED
    BY <2>2
<1>8. /\ \A l \in drops : l.what = "drops"
      /\ \A l \in elaborated : l.what = "elaborated"
  BY <1>3, <1>4, <1>5
<1>9. cnt % 2 = 0 => {l.rep : l \in drops} = {l.rep : l \in elaborated}
  BY <1>6, <1>7
<1>10. QED
  BY <1>8, <1>9

-----------------------------------------------------------------------------
(* The instance says of the state what Reports says.                       *)
LEMMA SameStatement ==
  /\ Sh!ScriptsInv <=> ScriptsInv
  /\ Sh!SumsPaired <=> SumsPaired
  /\ Sh!AverageComplete <=> AverageComplete
<1> USE DEF Repetitions, Sh!Repetitions, Processes, Sh!Processes,
            Program, Sh!Program
<1>1. Sh!SumsPaired <=> SumsPaired
  BY DEF SumsPaired, Sh!SumsPaired
<1>2. Sh!AverageComplete <=> AverageComplete
  BY DEF AverageComplete, Sh!AverageComplete
<1>3. /\ Sh!TypeInv <=> TypeInv
      /\ Sh!FileInv <=> FileInv
      /\ Sh!ReadInv <=> ReadInv
      /\ Sh!StartInv <=> StartInv
      /\ Sh!TimelyInv <=> TimelyInv
  BY DEF TypeInv, Sh!TypeInv, FileInv, Sh!FileInv, ReadInv, Sh!ReadInv,
         StartInv, Sh!StartInv, TimelyInv, Sh!TimelyInv
<1>4. QED
  BY <1>1, <1>2, <1>3 DEF ScriptsInv, Sh!ScriptsInv

(* The file holds whole reports, each of a program that is gone; the sums  *)
(* are what was read of it so far, in turn; nothing runs that the script   *)
(* has not started; and if sleeps are long enough, the file is read when   *)
(* everything has ended.                                                   *)
THEOREM ScriptsInvariant == Sh!Spec => []ScriptsInv
<1>1. Sh!ScriptsInv /\ [Sh!Next]_Sh!vars => Sh!ScriptsInv'
  BY InvKept
<1>2. Sh!Init => Sh!ScriptsInv
  BY InvStarts
<1>3. Sh!ScriptsInv => ScriptsInv
  BY SameStatement
<1>4. QED
  BY <1>1, <1>2, <1>3, PTL DEF Sh!Spec

(* However many programs report and however late, drops are added to the   *)
(* drops, elaborated records to the elaborated, and both sums are of the   *)
(* same programs.                                                          *)
THEOREM SumsPairedHolds == Sh!Spec => []SumsPaired
<1>1. ScriptsInv => SumsPaired
  BY ReadPairs, SameStatement DEF Sh!SumsPaired
<1>2. QED
  BY <1>1, ScriptsInvariant, PTL

(* If sleeps are long enough, the average has every program that was set   *)
(* up: the scripts wait for no process, and need not.                      *)
THEOREM AverageCompleteHolds == Sh!Spec => []AverageComplete
<1>1. Sh!ScriptsInv => Sh!AverageComplete
  <2> SUFFICES ASSUME Sh!ScriptsInv, timely, spc = "done"
               PROVE  {l.rep : l \in elaborated}
                        = {r \in Sh!Repetitions : proc[Sh!Program(r)] # "failed"}
    BY DEF Sh!AverageComplete
  <2>1. cnt = Len(file) /\ Len(file) % 2 = 0
    BY DEF Sh!ScriptsInv, Sh!TimelyInv, Sh!FileInv
  <2>2. \A r \in Sh!Repetitions :
          proc[Sh!Program(r)] # "failed" <=> proc[Sh!Program(r)] = "gone"
    BY ProgramIsProcess DEF Sh!ScriptsInv, Sh!TimelyInv
  <2>3. \A r \in Sh!Repetitions : proc[Sh!Program(r)] = "gone" <=>
          \E k \in 1 .. cnt : file[k].rep = r
    BY <2>1 DEF Sh!ScriptsInv, Sh!FileInv
  <2>4. \A k \in 1 .. cnt : file[k].rep \in {l.rep : l \in elaborated}
    <3>1. \A k \in 1 .. cnt : k % 2 = 0 \/ k % 2 = 1
      BY Types, HalfOf
    <3>2. \A k \in 1 .. cnt :
            /\ k % 2 = 0 => file[k] \in elaborated
            /\ k % 2 = 1 => file[k] \in drops
      BY DEF Sh!ScriptsInv, Sh!ReadInv
    <3>3. {l.rep : l \in drops} = {l.rep : l \in elaborated}
      BY <2>1, ReadPairs
    <3>4. QED
      BY ONLY <3>1, <3>2, <3>3
  <2>5. \A l \in elaborated : \E k \in 1 .. cnt : l = file[k]
    BY DEF Sh!ScriptsInv, Sh!ReadInv
  <2>6. \A k \in 1 .. cnt : file[k].rep \in Sh!Repetitions
    <3>1. file \in Seq(Lines)
      BY Types
    <3>2. \A k \in 1 .. Len(file) : file[k] \in Lines
      BY ONLY <3>1, ElementOfSeq
    <3>3. QED
      BY <2>1, <3>2 DEF Lines
  <2>7. QED
    BY ONLY <2>2, <2>3, <2>4, <2>5, <2>6
<1>2. ScriptsInv => AverageComplete
  BY <1>1, SameStatement
<1>3. QED
  BY <1>2, ScriptsInvariant, PTL

-----------------------------------------------------------------------------
(* The cpus of a dedicated run, for any number of stress processes.        *)

(* Induction, of a set: the least number that is not in it is not 0, and  *)
(* the one before it is.                                                   *)
LEMMA SetInduction ==
  ASSUME NEW S, 0 \in S, \A n \in Nat : n \in S => n + 1 \in S
  PROVE  Nat \subseteq S
<1> DEFINE T == Nat \ S
           R == OpToRel(<, Nat)
<1>1. \A x, y \in Nat : y < x => <<y, x>> \in R
  BY DEF OpToRel
<1>2. IsWellFoundedOn(R, Nat)
  BY NatLessThanWellFounded
<1> HIDE DEF R
<1>3. SUFFICES ASSUME T # {} PROVE FALSE
  OBVIOUS
<1>4. PICK x \in T : \A y \in T : ~(<<y, x>> \in R)
  BY <1>2, <1>3, WFMin
<1>5. x \in Nat /\ x # 0 
  BY <1>4
<1>6. x - 1 \in Nat /\ x - 1 < x /\ (x - 1) + 1 = x
  BY <1>5
<1>7. x - 1 \notin T
  BY <1>1, <1>4, <1>5, <1>6
<1>8. QED
  BY <1>4, <1>5, <1>6, <1>7

(* A set of one more element has twice as many subsets: those without the *)
(* element, and those with it.                                             *)
LEMMA PowerDoubles ==
  ASSUME NEW n \in Nat
  PROVE  2 ^ (n + 1) = 2 * 2 ^ n /\ 2 ^ n \in Nat
<1> DEFINE A == 1 .. n
           x == n + 1
           With == {s \cup {x} : s \in SUBSET A}
<1>1. IsFiniteSet(A) /\ Cardinality(A) = n /\ x \notin A
  BY FS_Interval
<1>2. IsFiniteSet(SUBSET A) /\ Cardinality(SUBSET A) = 2 ^ n
  BY <1>1, FS_SUBSET
<1>3. Cardinality(SUBSET (A \cup {x})) = 2 ^ (n + 1)
  <2>1. IsFiniteSet(A \cup {x}) /\ Cardinality(A \cup {x}) = n + 1
    BY <1>1, FS_AddElement
  <2>2. QED
    BY <2>1, FS_SUBSET
<1>4. IsFiniteSet(With) /\ Cardinality(With) = Cardinality(SUBSET A)
  <2> DEFINE f == [s \in SUBSET A |-> s \cup {x}]
  <2>1. f \in Bijection(SUBSET A, With)
    <3>1. f \in [SUBSET A -> With]
      OBVIOUS
    <3>2. \A s, t \in SUBSET A : f[s] = f[t] => s = t
      BY <1>1
    <3>3. \A y \in With : \E s \in SUBSET A : f[s] = y
      OBVIOUS
    <3>4. QED
      BY <3>1, <3>2, <3>3 DEF Bijection, Injection, Surjection, IsInjective
  <2>2. QED
    BY <1>2, <2>1, FS_Bijection DEF ExistsBijection
<1>5. /\ SUBSET (A \cup {x}) = (SUBSET A) \cup With
      /\ (SUBSET A) \cap With = {}
  <2>1. ASSUME NEW s \in SUBSET (A \cup {x})
        PROVE  s \in (SUBSET A) \cup With
    <3>1. CASE x \in s
      <4>1. s \ {x} \in SUBSET A
        BY <1>1
      <4>2. s = (s \ {x}) \cup {x}
        BY <3>1
      <4>3. QED
        BY <4>1, <4>2
    <3>2. CASE x \notin s
      BY <3>2
    <3>3. QED
      BY <3>1, <3>2
  <2>2. \A s \in (SUBSET A) \cup With : s \in SUBSET (A \cup {x})
    OBVIOUS
  <2>3. \A s \in With : x \in s
    OBVIOUS
  <2>4. \A s \in SUBSET A : x \notin s
    BY <1>1
  <2>5. (SUBSET A) \cap With = {}
    BY <2>3, <2>4
  <2>6. SUBSET (A \cup {x}) = (SUBSET A) \cup With
    BY <2>1, <2>2
  <2>7. QED
    BY <2>5, <2>6
<1> DEFINE P == SUBSET A
<1>6. Cardinality(P \cup With) = Cardinality(P) + Cardinality(P)
  <2>1. P \cap With = {} /\ IsFiniteSet(P) /\ IsFiniteSet(With)
    BY <1>2, <1>4, <1>5
  <2>2. Cardinality(With) = Cardinality(P)
    BY <1>4
  <2>3. Cardinality({}) = 0
    BY FS_EmptySet
  <2> HIDE DEF P, With
  <2>4. Cardinality(P) \in Nat
    BY <2>1, FS_CardinalityType
  <2>5. Cardinality(P \cup With)
          = Cardinality(P) + Cardinality(With) - Cardinality(P \cap With)
    BY <2>1, FS_Union
  <2>6. Cardinality(P \cap With) = 0
    BY <2>1, <2>3
  <2>7. QED
    BY ONLY <2>2, <2>4, <2>5, <2>6
<1>7. Cardinality(P) = 2 ^ n /\ Cardinality(P) \in Nat
  BY <1>2, FS_CardinalityType
<1>8. Cardinality(P \cup With) = 2 ^ (n + 1)
  BY <1>3, <1>5
<1>9. QED
  BY ONLY <1>6, <1>7, <1>8

(* The laws of exponents that bits need.                                   *)
LEMMA PowerSum ==
  ASSUME NEW c \in Nat, NEW k \in Nat
  PROVE  2 ^ (c + k) = 2 ^ c * 2 ^ k
<1> DEFINE S == {m \in Nat : 2 ^ (c + m) = 2 ^ c * 2 ^ m}
<1>1. 0 \in S
  <2>1. 2 ^ 0 = 1 /\ c + 0 = c /\ 2 ^ c \in Nat
    BY PowerDoubles
  <2>2. QED
    BY <2>1
<1>2. ASSUME NEW m \in Nat, m \in S PROVE m + 1 \in S
  <2>1. 2 ^ (c + m) = 2 ^ c * 2 ^ m /\ m + 1 \in Nat /\ c + m \in Nat
    BY <1>2
  <2>2. 2 ^ (m + 1) = 2 * 2 ^ m /\ 2 ^ ((c + m) + 1) = 2 * 2 ^ (c + m)
        /\ 2 ^ c \in Nat /\ 2 ^ m \in Nat
    BY <2>1, PowerDoubles
  <2>3. (c + m) + 1 = c + (m + 1)
    OBVIOUS
  <2>4. \A a, b \in Nat : 2 * (a * b) = a * (2 * b)
    OBVIOUS
  <2>5. QED
    BY <2>1, <2>2, <2>3, <2>4
<1> HIDE DEF S
<1>3. Nat \subseteq S
  BY <1>1, <1>2, SetInduction
<1>4. QED
  BY <1>3 DEF S

(* A bit lies below the number it is set in.                               *)
LEMMA PowerGrows ==
  ASSUME NEW n \in Nat
  PROVE  n < 2 ^ n
<1> DEFINE S == {m \in Nat : m < 2 ^ m}
<1>1. 0 \in S
  <2>1. 2 ^ 0 = 1
    OBVIOUS
  <2>2. QED
    BY <2>1
<1>2. ASSUME NEW m \in Nat, m \in S PROVE m + 1 \in S
  <2>1. 2 ^ (m + 1) = 2 * 2 ^ m /\ 2 ^ m \in Nat
    BY PowerDoubles
  <2>2. QED
    BY <1>2, <2>1
<1> HIDE DEF S
<1>3. Nat \subseteq S
  BY <1>1, <1>2, SetInduction
<1>4. QED
  BY <1>3 DEF S

(* A longer word has room for the bit.                                     *)
LEMMA PowerLess ==
  ASSUME NEW n \in Nat, NEW b \in Nat, n < b
  PROVE  2 ^ n < 2 ^ b
<1>1. b - n \in Nat /\ n + (b - n) = b /\ b - n >= 1
  OBVIOUS
<1>2. 2 ^ b = 2 ^ n * 2 ^ (b - n)
  BY <1>1, PowerSum
<1>3. 2 ^ n \in Nat /\ 2 ^ (b - n) \in Nat /\ 2 ^ (b - n) > 1 /\ 2 ^ n > 0
  BY <1>1, PowerDoubles, PowerGrows
<1>4. \A x, y \in Nat : x > 0 /\ y > 1 => x < x * y
  OBVIOUS
<1>5. QED
  BY <1>2, <1>3, <1>4

(* A power of two has one bit.                                             *)
LEMMA OneBit ==
  ASSUME NEW n \in Nat, NEW c \in Nat
  PROVE  (2 ^ n \div 2 ^ c) % 2 = 1 <=> c = n
<1>1. \A m \in Nat : 2 ^ m \in Nat /\ 2 ^ m > 0
  BY PowerDoubles, PowerGrows
<1>2. \A x, y \in Nat : x > 0 => (x * y) \div x = y
  OBVIOUS
<1>3. CASE c = n
  <2>1. 2 ^ n * 1 = 2 ^ n
    BY <1>1
  <2>2. 2 ^ n \div 2 ^ c = 1
    BY <1>1, <1>2, <1>3, <2>1
  <2>3. 1 % 2 = 1
    OBVIOUS
  <2>4. QED
    BY ONLY <1>3, <2>2, <2>3
<1>4. CASE c < n
  <2>1. n - c - 1 \in Nat /\ (n - c - 1) + 1 = n - c /\ c + (n - c) = n /\ n - c \in Nat
    BY <1>4
  <2>2. 2 ^ n = 2 ^ c * 2 ^ (n - c)
    BY <2>1, PowerSum
  <2>3. 2 ^ (n - c) = 2 * 2 ^ (n - c - 1) /\ 2 ^ (n - c - 1) \in Nat
    BY <2>1, PowerDoubles
  <2>4. 2 ^ n \div 2 ^ c = 2 ^ (n - c)
    BY <1>1, <1>2, <2>1, <2>2
  <2>5. \A x \in Nat : (2 * x) % 2 = 0
    OBVIOUS
  <2>6. (2 ^ n \div 2 ^ c) % 2 = 0
    BY ONLY <2>3, <2>4, <2>5
  <2>7. QED
    BY ONLY <1>4, <2>6, n \in Nat, c \in Nat
<1>5. CASE c > n
  <2>1. 2 ^ n < 2 ^ c
    BY <1>5, PowerLess
  <2>2. \A x, y \in Nat : x < y => x \div y = 0
    OBVIOUS
  <2>3. 2 ^ n \div 2 ^ c = 0
    BY <1>1, <2>1, <2>2
  <2>4. 0 % 2 = 0
    OBVIOUS
  <2>5. (2 ^ n \div 2 ^ c) % 2 = 0
    BY <2>3, <2>4
  <2>6. c # n /\ 0 # 1
    BY <1>5
  <2>7. QED
    BY ONLY <2>5, <2>6
<1>6. c = n \/ c < n \/ c > n
  OBVIOUS
<1>7. QED
  BY ONLY <1>3, <1>4, <1>5, <1>6

(* The bit of a process.                                                   *)
Bit(p) == IF IsProgram(p) THEN 2 ELSE IF p[2] > 2 THEN p[2] ELSE p[2] - 1

(* A mask is one bit, or none where the shell's powers have wrapped.       *)
LEMMA MaskIsBit ==
  ASSUME NEW p \in Processes
  PROVE  /\ Bit(p) \in Nat
         /\ \/ TasksetMask(p) = 2 ^ Bit(p)
            \/ TasksetMask(p) = 0 /\ p[2] >= INTMAX_BITS
<1>1. p[2] \in Nat /\ INTMAX_BITS \in Nat
  BY HarnessAssumption DEF Processes
<1>2. Bit(p) \in Nat
  BY <1>1 DEF Bit, IsProgram
<1>3. 2 ^ 0 = 1 /\ 2 ^ 1 = 2 /\ 2 ^ 2 = 4
  <2>1. 2 ^ 0 = 1 /\ 0 + 1 = 1 /\ 1 + 1 = 2
    OBVIOUS
  <2>2. 2 ^ (0 + 1) = 2 * 2 ^ 0 /\ 2 ^ (1 + 1) = 2 * 2 ^ 1
    BY PowerDoubles
  <2>3. QED
    BY <2>1, <2>2
<1>4. CASE p[2] \in {0, 1, 2}
  <2>1. \/ Bit(p) = 2 /\ TasksetMask(p) = 4
        \/ Bit(p) = 0 /\ TasksetMask(p) = 1
        \/ Bit(p) = 1 /\ TasksetMask(p) = 2
    BY <1>4 DEF Bit, IsProgram, TasksetMask, mask
  <2>2. TasksetMask(p) = 2 ^ Bit(p)
    BY ONLY <1>3, <2>1
  <2>3. QED
    BY <1>2, <2>2
<1>5. CASE p[2] > 2
  <2>1. Bit(p) = p[2] /\ TasksetMask(p) = 2 ^ p[2] % 2 ^ INTMAX_BITS
    BY <1>1, <1>5 DEF Bit, IsProgram, TasksetMask, mask
  <2>2. 2 ^ p[2] \in Nat /\ 2 ^ INTMAX_BITS \in Nat /\ 2 ^ INTMAX_BITS > 0
    BY <1>1, PowerDoubles, PowerGrows
  <2>3. CASE p[2] < INTMAX_BITS
    <3>1. 2 ^ p[2] < 2 ^ INTMAX_BITS
      BY <1>1, <2>3, PowerLess
    <3>2. \A x, y \in Nat : x < y => x % y = x
      OBVIOUS
    <3>3. 2 ^ p[2] % 2 ^ INTMAX_BITS = 2 ^ p[2]
      BY ONLY <2>2, <3>1, <3>2
    <3>4. QED
      BY <1>2, <2>1, <3>3
  <2>4. CASE p[2] >= INTMAX_BITS
    <3>1. p[2] - INTMAX_BITS \in Nat
          /\ INTMAX_BITS + (p[2] - INTMAX_BITS) = p[2]
      BY <1>1, <2>4
    <3>2. 2 ^ p[2] = 2 ^ INTMAX_BITS * 2 ^ (p[2] - INTMAX_BITS)
      BY <1>1, <3>1, PowerSum
    <3>3. 2 ^ (p[2] - INTMAX_BITS) \in Nat
      BY <3>1, PowerDoubles
    <3>4. \A x, y \in Nat : x > 0 => (x * y) % x = 0
      OBVIOUS
    <3>5. 2 ^ p[2] % 2 ^ INTMAX_BITS = 0
      BY ONLY <2>2, <3>2, <3>3, <3>4
    <3>6. QED
      BY <1>2, <2>1, <2>4, <3>5
  <2>5. QED
    BY <1>1, <2>3, <2>4
<1>6. p[2] \in {0, 1, 2} \/ p[2] > 2
  BY ONLY <1>1
<1>7. QED
  BY ONLY <1>4, <1>5, <1>6

(* The cpus a process may run on: that of its bit, if it has one.          *)
LEMMA CpusOfBit ==
  ASSUME NEW p \in Processes
  PROVE  \/ CpusOf(p) = {Bit(p)}
         \/ CpusOf(p) = {} /\ p[2] >= INTMAX_BITS
<1>1. Bit(p) \in Nat
  BY MaskIsBit
<1>2. CASE TasksetMask(p) = 2 ^ Bit(p)
  <2>1. 2 ^ Bit(p) \in Nat /\ Bit(p) < 2 ^ Bit(p)
    BY <1>1, PowerDoubles, PowerGrows
  <2>2. \A c \in 0 .. 2 ^ Bit(p) : (2 ^ Bit(p) \div 2 ^ c) % 2 = 1 <=> c = Bit(p)
    <3>1. \A c \in 0 .. 2 ^ Bit(p) : c \in Nat
      BY <2>1
    <3>2. QED
      BY <1>1, <3>1, OneBit
  <2>3. Bit(p) \in 0 .. 2 ^ Bit(p)
    BY <1>1, <2>1
  <2>4. CpusOf(p)
          = {c \in 0 .. 2 ^ Bit(p) : (2 ^ Bit(p) \div 2 ^ c) % 2 = 1}
    BY <1>2 DEF CpusOf
  <2>5. CpusOf(p) = {Bit(p)}
    BY ONLY <2>2, <2>3, <2>4
  <2>6. QED
    BY <2>5
<1>3. CASE TasksetMask(p) = 0 /\ p[2] >= INTMAX_BITS
  <2>1. CpusOf(p) = {c \in 0 .. 0 : (0 \div 2 ^ c) % 2 = 1}
    BY <1>3 DEF CpusOf
  <2>2. \A c \in 0 .. 0 : (0 \div 2 ^ c) % 2 = 0
    <3>1. 2 ^ 0 = 1 /\ 0 \div 1 = 0 /\ 0 % 2 = 0
      OBVIOUS
    <3>2. QED
      BY <3>1
  <2>3. \A c \in 0 .. 0 : ~((0 \div 2 ^ c) % 2 = 1)
    <3>1. 0 # 1
      OBVIOUS
    <3>2. QED
      BY ONLY <2>2, <3>1
  <2>4. CpusOf(p) = {}
    BY ONLY <2>1, <2>3
  <2>5. QED
    BY <1>3, <2>4
<1>4. QED
  BY <1>2, <1>3, MaskIsBit

(* No two processes of a repetition have the same bit.                     *)
LEMMA BitsDiffer ==
  ASSUME NEW p \in Processes, NEW q \in Processes, p[1] = q[1], p # q
  PROVE  Bit(p) # Bit(q)
<1>1. p[2] \in Nat /\ q[2] \in Nat
  BY HarnessAssumption DEF Processes
<1>2. p[2] # q[2]
  <2>1. p = <<p[1], p[2]>> /\ q = <<q[1], q[2]>>
    BY DEF Processes
  <2>2. QED
    BY <2>1
<1>3. QED
  BY <1>1, <1>2 DEF Bit, IsProgram

(* With dedicated cpus no process shares one, however many there are, and  *)
(* as many have one as the shell's powers reach.                           *)
THEOREM DedicatedCpusHolds == Sh!Spec => []DedicatedCpus
<1>1. ASSUME NEW p \in Processes, NEW q \in Processes, p[1] = q[1], p # q
      PROVE  /\ CpusOf(p) \cap CpusOf(q) = {}
             /\ p[2] < INTMAX_BITS => CpusOf(p) # {}
  <2>1. Bit(p) # Bit(q)
    BY <1>1, BitsDiffer
  <2>2. p[2] < INTMAX_BITS => ~(p[2] >= INTMAX_BITS)
    BY HarnessAssumption DEF Processes
  <2>3. QED
    BY <2>1, <2>2, CpusOfBit
<1>2. DedicatedCpus
  BY <1>1 DEF DedicatedCpus
<1>3. QED
  BY <1>2, PTL
=============================================================================
