------------------------------- MODULE Loader -------------------------------
(***************************************************************************)
(* The life of a userspace program, from main to exit: what it acquires,   *)
(* stage by stage, until the loop runs; what it gives back when a stage    *)
(* fails; and the SIGINT handler, which may interrupt main between any two *)
(* library calls and does not return to it.  shared_code.h is the same     *)
(* text for both multi programs; the single programs set up one ring.      *)
(***************************************************************************)
EXTENDS Integers

CONSTANT MAX_CPUS  \* entries of ringbuf_arr

ASSUME LoaderAssumption == MAX_CPUS \in Nat \ {0}

VARIABLES
  single,   \* one of the single programs was started, not a multi program
  stage,    \* the call of main that comes next
  n_cpus,   \* what libbpf_num_possible_cpus said
  i,        \* loop index of instaciate_ring_buffers
  has,      \* what the process holds
  err,      \* the error code main returns, in the single programs
  handler,  \* "off", or the call of signal_callback that comes next
  misuse,   \* history: objects used or released after their end
  exit      \* "no", "success", "failure" or "crashed"

vars == <<single, stage, n_cpus, i, has, err, handler, misuse, exit>>

(* The descriptors: inner and ring are opened by main for itself, outer is *)
(* that of the array of rings and link that of the attached program, which *)
(* both belong to skel, and epoll belongs to ringbuf.                      *)
Descriptors == {"inner", "ring", "outer", "link", "epoll"}

(* skel and ringbuf are pointers ("null" until they are assigned); fds are *)
(* the descriptors open, fd the number each has or had last; entries counts*)
(* the array's rings, managed those the ring_buffer manager knows.         *)
Nothing == [skel |-> "null", ringbuf |-> "null",
            fds |-> {}, fd |-> [d \in Descriptors |-> 0],
            arrays |-> FALSE, entries |-> 0, managed |-> 0,
            attached |-> FALSE, capture_enabled |-> FALSE]

(* The kernel gives the lowest number that is free.                        *)
Lowest(h) == CHOOSE n \in 1 .. 6 :
  /\ \A d \in h.fds : h.fd[d] # n
  /\ \A m \in 1 .. n - 1 : \E d \in h.fds : h.fd[d] = m

Open(h, d) == [h EXCEPT !.fds = @ \cup {d}, !.fd[d] = Lowest(h)]

(* A close goes by the number: whatever has it now is closed.              *)
Close(h, n) == [h EXCEPT !.fds = {d \in @ : h.fd[d] # n}]

Init ==
  /\ single \in BOOLEAN
  /\ stage = "init" /\ n_cpus = 0 /\ i = 0
  /\ has = Nothing
  /\ err = FALSE
  /\ handler = "off" /\ misuse = {} /\ exit = "no"

-----------------------------------------------------------------------------
(* main is about to make call s, and no handler has taken over.            *)
At(s) == stage = s /\ handler = "off" /\ exit = "no"

(* The call succeeds: main goes on to call t, holding h.                   *)
Advance(s, t, h) ==
  /\ At(s)
  /\ stage' = t
  /\ has' = h
  /\ UNCHANGED <<single, err, handler, misuse, exit>>

(* The call fails with an error code: goto cleanup.                        *)
Fail(s) ==
  /\ At(s)
  /\ stage' = "cleanup"
  /\ err' = TRUE
  /\ UNCHANGED <<single, n_cpus, i, has, handler, misuse, exit>>

(* The first calls return EXIT_FAILURE at once when they fail.             *)
ReturnFailure(s) ==
  /\ At(s)
  /\ exit' = "failure"
  /\ UNCHANGED <<single, stage, n_cpus, i, has, err, handler, misuse>>

Same == UNCHANGED <<n_cpus, i>>

initialize_resources ==
  (Advance("init", "open", has) /\ Same) \/ ReturnFailure("init")

open_skeleton ==
  \/ /\ Advance("open", IF single THEN "load" ELSE "inner_create",
                [has EXCEPT !.skel = "live"])
     /\ Same
  \/ ReturnFailure("open")

(* load_inner_map: the first descriptor main owns.                         *)
CreateInnerMap ==
  \/ Advance("inner_create", "inner_set", Open(has, "inner")) /\ Same
  \/ Fail("inner_create")

SetInnerMap == (Advance("inner_set", "cpus", has) /\ Same) \/ Fail("inner_set")

(* The number of possible cpus is not compared with MAX_CPUS.              *)
set_cpus_number ==
  \/ /\ Advance("cpus", "load", [has EXCEPT !.arrays = TRUE])
     /\ n_cpus' \in 1 .. MAX_CPUS + 1
     /\ UNCHANGED i
  \/ Fail("cpus")

load_skeleton ==
  \/ /\ Advance("load", IF single THEN "ring_add" ELSE "inner_close",
                IF single THEN has ELSE Open(has, "outer"))
     /\ Same
  \/ Fail("load")

(* Bug: the descriptor of the inner map is kept.                           *)
CloseInnerMapForgotten == Advance("inner_close", "ring_create", has) /\ Same

CloseInnerMap ==
  Advance("inner_close", "ring_create", Close(has, has.fd["inner"])) /\ Same

-----------------------------------------------------------------------------
(* instaciate_ring_buffers, for ring i: create it, put it in the array,    *)
(* hand it to the manager, close its descriptor.                           *)
CreateRing ==
  \/ Advance("ring_create", "ring_update", Open(has, "ring")) /\ Same
  \/ Fail("ring_create")

(* Bug: the result of the update is not looked at.                         *)
UpdateArrayUnchecked ==
  /\ Advance("ring_update", "ring_add",
             [has EXCEPT !.entries = IF i < MAX_CPUS THEN @ + 1 ELSE @])
  /\ Same

(* The array has no entry MAX_CPUS: the update of one fails.               *)
UpdateArray ==
  \/ /\ i < MAX_CPUS
     /\ Advance("ring_update", "ring_add", [has EXCEPT !.entries = @ + 1])
     /\ Same
  \/ Fail("ring_update")

RingAdded ==
  LET h == IF has.ringbuf = "null" THEN Open(has, "epoll") ELSE has
  IN  [h EXCEPT !.ringbuf = "live", !.managed = @ + 1]

(* Bug: where a ring cannot be added, the manager is freed before clean(). *)
AddRingFreeing ==
  \/ /\ Advance("ring_add", IF single THEN "attach" ELSE "ring_close", RingAdded)
     /\ Same
  \/ /\ ~single
     /\ Advance("ring_add", "cleanup",
                [has EXCEPT !.ringbuf = IF @ = "live" THEN "freed" ELSE @])
     /\ Same

(* ring_buffer__new for the first ring, ring_buffer__add for the others.   *)
AddRing ==
  \/ /\ Advance("ring_add", IF single THEN "attach" ELSE "ring_close", RingAdded)
     /\ Same
  \/ ~single /\ Fail("ring_add")

(* The single programs leave err at 0 when ring_buffer__new fails.         *)
NewRingFails ==
  /\ single
  /\ Advance("ring_add", "cleanup", has)
  /\ Same

(* Bug: the loop ends one ring early.                                      *)
CloseRingEarly ==
  /\ Advance("ring_close",
             IF i + 2 < n_cpus THEN "ring_create" ELSE "outer_close",
             Close(has, has.fd["ring"]))
  /\ i' = i + 1
  /\ UNCHANGED n_cpus

CloseRing ==
  /\ Advance("ring_close",
             IF i + 1 < n_cpus THEN "ring_create" ELSE "outer_close",
             Close(has, has.fd["ring"]))
  /\ i' = i + 1
  /\ UNCHANGED n_cpus

(* close(outer_map_fd), although the descriptor belongs to the skeleton.   *)
CloseOuterMap ==
  Advance("outer_close", "attach", Close(has, has.fd["outer"])) /\ Same

attach_skeleton ==
  \/ /\ Advance("attach", "start", [Open(has, "link") EXCEPT !.attached = TRUE])
     /\ Same
  \/ Fail("attach")

(* From here on the loop runs, and only the handler ends it.               *)
start_capture ==
  Advance("start", "loop", [has EXCEPT !.capture_enabled = TRUE]) /\ Same

Setup ==
  \/ initialize_resources \/ open_skeleton \/ CreateInnerMap \/ SetInnerMap
  \/ set_cpus_number \/ load_skeleton \/ CloseInnerMap
  \/ CreateRing \/ UpdateArray \/ AddRing \/ NewRingFails \/ CloseRing
  \/ CloseOuterMap \/ attach_skeleton \/ start_capture

-----------------------------------------------------------------------------
(* clean(), in main at the label cleanup and in the handler.  The arrays   *)
(* stay: free_consumer_producer frees pointers that are NULL.  A pointer   *)
(* is not reset when what it points to is released; releasing it again is  *)
(* undefined, and the process may crash or survive.                        *)
FreeRings ==
  has' = IF has.ringbuf = "live"
         THEN [Close(has, has.fd["epoll"]) EXCEPT !.ringbuf = "freed"]
         ELSE has

(* The links are detached, then the descriptors of the maps are closed,    *)
(* the one main has closed already among them.                             *)
DestroySkeleton ==
  LET detached == [has EXCEPT !.fds = @ \ {"link"}]
  IN  has' = [Close(detached, has.fd["outer"]) EXCEPT
                !.skel = "freed", !.attached = FALSE, !.capture_enabled = FALSE]

MisusedRings == IF has.ringbuf = "freed" THEN {"ringbuf"} ELSE {}

OuterClosed == has.fd["outer"] # 0 /\ "outer" \notin has.fds

MisusedSkeleton ==
  (IF has.skel = "live" THEN {} ELSE {"skel"})
    \cup (IF OuterClosed THEN {"outer"} ELSE {})

Survives(used) == misuse' = misuse \cup used

(* Using a freed object, or a null pointer, can end the process.           *)
Crash(used) ==
  /\ used \ {"outer"} # {}
  /\ exit' = "crashed"
  /\ misuse' = misuse \cup used
  /\ UNCHANGED <<single, stage, n_cpus, i, has, err, handler>>

(* main, after a failure: the calls of clean, and the return.              *)
CleanRings ==
  /\ At("cleanup")
  /\ stage' = "destroy"
  /\ IF single
     THEN UNCHANGED <<has, misuse>>
     ELSE FreeRings /\ Survives(MisusedRings)
  /\ UNCHANGED <<single, n_cpus, i, err, handler, exit>>

CleanSkeleton ==
  /\ At("destroy")
  /\ DestroySkeleton
  /\ Survives(MisusedSkeleton)
  /\ stage' = "return"
  /\ UNCHANGED <<single, n_cpus, i, err, handler, exit>>

(* Bug: after a failure the program starts again.                          *)
ReturnToOpen ==
  /\ At("return")
  /\ stage' = "open" /\ n_cpus' = 0 /\ i' = 0
  /\ has' = Nothing
  /\ UNCHANGED <<single, err, handler, misuse, exit>>

(* The multi programs return EXIT_FAILURE, the single ones -err.           *)
Return ==
  /\ At("return")
  /\ exit' = IF single /\ ~err THEN "success" ELSE "failure"
  /\ UNCHANGED <<single, stage, n_cpus, i, has, err, handler, misuse>>

(* signal_callback, once it is installed: skel is used first.              *)
signal_callback ==
  /\ handler = "off" /\ exit = "no" /\ stage # "init"
  /\ has.skel # "null"
  /\ handler' = "rings"
  /\ IF has.skel = "live"
     THEN has' = [has EXCEPT !.capture_enabled = FALSE] /\ UNCHANGED misuse
     ELSE Survives({"skel"}) /\ UNCHANGED has
  /\ UNCHANGED <<single, stage, n_cpus, i, err, exit>>

SignalCrashes ==
  /\ handler = "off" /\ exit = "no" /\ stage # "init"
  /\ has.skel # "live"
  /\ Crash({"skel"})

HandlerRings ==
  /\ handler = "rings" /\ exit = "no"
  /\ IF single
     THEN UNCHANGED <<has, misuse>>
     ELSE FreeRings /\ Survives(MisusedRings)
  /\ handler' = "skeleton"
  /\ UNCHANGED <<single, stage, n_cpus, i, err, exit>>

(* Then exit(EXIT_SUCCESS).                                                *)
HandlerSkeleton ==
  /\ handler = "skeleton" /\ exit = "no"
  /\ DestroySkeleton
  /\ Survives(MisusedSkeleton)
  /\ exit' = "success"
  /\ UNCHANGED <<single, stage, n_cpus, i, err, handler>>

HandlerCrashes ==
  /\ exit = "no"
  /\ \/ handler = "rings" /\ ~single /\ Crash(MisusedRings)
     \/ handler = "skeleton" /\ Crash(MisusedSkeleton)

Cleanup == CleanRings \/ CleanSkeleton \/ Return

Signal ==
  \/ signal_callback \/ SignalCrashes
  \/ HandlerRings \/ HandlerSkeleton \/ HandlerCrashes

Next == Setup \/ Cleanup \/ Signal

(* main and the handler run; the signal may never come.                    *)
Fairness == WF_vars(Setup) /\ WF_vars(Cleanup)
            /\ WF_vars(HandlerRings \/ HandlerSkeleton \/ HandlerCrashes)

Spec == Init /\ [][Next]_vars /\ Fairness

-----------------------------------------------------------------------------
TypeOK ==
  /\ single \in BOOLEAN
  /\ n_cpus \in 0 .. MAX_CPUS + 1
  /\ i \in 0 .. MAX_CPUS
  /\ has \in [skel : {"null", "live", "freed"},
              ringbuf : {"null", "live", "freed"},
              fds : SUBSET Descriptors, fd : [Descriptors -> 0 .. 5],
              arrays : BOOLEAN, entries : 0 .. MAX_CPUS,
              managed : 0 .. MAX_CPUS, attached : BOOLEAN,
              capture_enabled : BOOLEAN]
  /\ err \in BOOLEAN
  /\ handler \in {"off", "rings", "skeleton"}
  /\ misuse \subseteq {"skel", "ringbuf", "outer"}
  /\ exit \in {"no", "success", "failure", "crashed"}

(***************************************************************************)
(* A capture that is on is complete: the programs are attached, every      *)
(* possible cpu has its ring in the array and the manager reads as many;   *)
(* the descriptors main opened "to avoid memory leakage" are closed.       *)
(***************************************************************************)
CaptureReady == has.capture_enabled =>
  /\ has.skel = "live" /\ has.attached
  /\ has.fds = {"epoll", "link"}
  /\ IF single THEN has.managed = 1
     ELSE n_cpus > 0 /\ has.entries = n_cpus /\ has.managed = n_cpus

(***************************************************************************)
(* The handler touches what does not exist only if the signal came before  *)
(* the skeleton was open, or after main had begun to clean up.             *)
(***************************************************************************)
MisuseWindow == misuse \ {"outer"} # {} => stage \in {"open", "destroy", "return"}

(***************************************************************************)
(* A setup that fails leaves at most one of main's descriptors open.       *)
(***************************************************************************)
OneDescriptorAtMost == exit # "no" => ~({"inner", "ring"} \subseteq has.fds)

(***************************************************************************)
(* close(outer_map_fd) in instaciate_ring_buffers leaves the skeleton with *)
(* a number it closes again: until it does, no other descriptor gets that  *)
(* number -- the ones opened in between take a lower one, free since       *)
(* main closed the inner map's.                                            *)
(***************************************************************************)
OuterNumberUnused ==
  \A d \in has.fds \ {"outer"} : has.fd[d] # has.fd["outer"]

(***************************************************************************)
(* A program that was started runs its loop or ends: no failure and no     *)
(* signal leaves it stuck.                                                 *)
(***************************************************************************)
LoopsOrEnds == <>(stage = "loop" \/ exit # "no")

(***************************************************************************)
(* single_ringbuf_reserve/case1.c prints "failed to create ring buffer"    *)
(* and goes to cleanup.  A program that failed would not exit with 0.      *)
(***************************************************************************)
FailureReported == exit = "success" => handler # "off"

-----------------------------------------------------------------------------
(* The inductive invariant behind these four.                              *)

(* The number a descriptor gets whenever it is opened: the lowest one that *)
(* is free at that stage, for as many rings as there are.                  *)
NumberOf(d) ==
  CASE d \in {"inner", "ring"} -> 1
    [] d = "outer"             -> 2
    [] d = "epoll"             -> IF single THEN 1 ELSE 3
    [] d = "link"              -> IF single THEN 2 ELSE 1

NumbersInv == \A d \in Descriptors :
  /\ has.fd[d] \in {0, NumberOf(d)}
  /\ d \in has.fds => has.fd[d] # 0
  /\ single /\ d \notin {"epoll", "link"} => has.fd[d] = 0

Looping == {"ring_create", "ring_update", "ring_add", "ring_close"}

SetUp == {"attach", "start", "loop"}

(* The rings in the array, and those the manager knows, at each stage.     *)
Entries ==
  IF single THEN 0 ELSE
  CASE stage \in {"ring_create", "ring_update"} -> i
    [] stage \in {"ring_add", "ring_close"}    -> i + 1
    [] stage \in SetUp \cup {"outer_close"}    -> n_cpus
    [] OTHER                                   -> 0

Managed ==
  IF single THEN IF stage \in SetUp THEN 1 ELSE 0
  ELSE IF stage = "ring_add" THEN i ELSE Entries

(* The descriptors open at each stage.                                     *)
Opened ==
  (IF Managed > 0 THEN {"epoll"} ELSE {})
    \cup (IF stage \in {"start", "loop"} THEN {"link"} ELSE {})
    \cup (IF ~single /\ stage \in {"inner_set", "cpus", "load", "inner_close"}
          THEN {"inner"} ELSE {})
    \cup (IF ~single /\ stage \in Looping \cup {"inner_close", "outer_close"}
          THEN {"outer"} ELSE {})
    \cup (IF ~single /\ stage \in Looping \ {"ring_create"}
          THEN {"ring"} ELSE {})

(* As long as nothing has failed and no signal has come, main holds what   *)
(* its stage says.                                                         *)
SetupInv ==
  handler = "off" /\ exit = "no" /\ stage \notin {"cleanup", "destroy", "return"} =>
    /\ has.fds = Opened
    /\ has.entries = Entries /\ has.managed = Managed
    /\ has.skel = IF stage \in {"init", "open"} THEN "null" ELSE "live"
    /\ has.ringbuf = IF Managed = 0 THEN "null" ELSE "live"
    /\ has.attached <=> stage \in {"start", "loop"}
    /\ has.capture_enabled <=> stage = "loop"
    /\ single => stage \in {"init", "open", "load", "ring_add"} \cup SetUp
    /\ ~single =>
         /\ stage \in Looping => i < n_cpus
         /\ stage \in {"ring_add", "ring_close"} => i < MAX_CPUS
         /\ stage \in {"load", "inner_close"} => i = 0 /\ n_cpus > 0
         /\ stage \in {"init", "open", "inner_create", "inner_set", "cpus"} => i = 0
         /\ stage \in SetUp \cup {"outer_close"} => n_cpus \in 1 .. MAX_CPUS

(* Afterwards: what is released is not held, and what main or the handler  *)
(* may find released is told by how far main has cleaned up.               *)
ReleaseInv ==
  /\ has.skel = "null" => stage \in {"init", "open"}
  /\ exit = "no" =>
       /\ has.skel = "freed" => stage = "return"
       /\ has.ringbuf = "freed" =>
            stage \in {"destroy", "return"} \/ handler = "skeleton"
       /\ IF handler = "off" THEN misuse \subseteq {"outer"} ELSE has.skel # "null"
  /\ has.capture_enabled => stage = "loop" /\ handler = "off" /\ exit = "no"
  /\ ~({"inner", "ring"} \subseteq has.fds)

(***************************************************************************)
(* The inductive invariant of the process: every descriptor has the number *)
(* it always gets, main holds what its stage says until a failure or a     *)
(* signal, and what was released is known from there on.                   *)
(***************************************************************************)
Inv == TypeOK /\ NumbersInv /\ SetupInv /\ ReleaseInv /\ MisuseWindow
=============================================================================
