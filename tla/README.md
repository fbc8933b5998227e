# BPF_ringbuf, specified

A TLA+ development of this repository: the BPF programs that send events
through ring buffers, the userspace programs that read them, and what a capture
promises -- checked by TLC on small instances, and proved by TLAPS, as far as
this document says, for every number of cpus, rings, records and sizes.

## 1. Inventory

| component | state | operations | modelled in |
|---|---|---|---|
| BPF program with the reserve API (`multi_ringbuf_reserve.bpf.c`, `single_ringbuf_reserve.bpf.c`) | `.bss`: `capture_enabled`, `n_drops`, `n_skipped`; locals per cpu | `catch_fentry`, `get_best_buffer` | `BpfProgram`, `BpfReserve` |
| BPF program with the output API (`multi_ringbuf_output.bpf.c`) | the same | `catch_fentry` | `BpfProgram`, `BpfOutput` |
| kernel ring buffer (external) | `consumer_pos`, `producer_pos`, data pages, spinlock | reserve, submit, query, output | `Ringbuf` |
| userspace loop, one record per call (`multi_ringbuf_reserve/case1.c`) | `cons_pos[]`, `prod_pos[]`, `ringbuf_pos`, `n_elaborated` | `ringbuf_process_one_from_ring`, `ring_buffer__consume_one`, `main` | `Userspace`, `ConsumeOne` |
| userspace loop over snapshots (`case3.c`, `case4.c`) | the same | the same | `Userspace`, `ConsumeSnapshot` |
| userspace loop, one ring (`single_ringbuf_reserve/case1.c`) | scalars instead of arrays | the same | `Userspace`, `ConsumeSingle` |
| userspace loop on libbpf (`multi_ringbuf_reserve/case2.c`, `single_ringbuf_reserve/case2.c`, `multi_ringbuf_output/case1.c`) | `n_elaborated`; libbpf keeps the rest (external) | `ring_buffer__consume`, `handle_event`, `main` | `Userspace`, `ConsumeAll` |
| SIGINT handler (`shared_code.h`, and one of its own in `single_ringbuf_reserve`) | what it prints; what it releases | `signal_callback` | `Userspace`, `Loader` |
| life of the process (`shared_code.h`, `main`) | descriptors, skeleton, arrays | open, inner map, cpus, load, rings, attach, clean | `Loader` |
| length of a record (`roundup_len`) | -- | header word to bytes | `roundup_len` of `Userspace`, against `RecordLen` of `Ringbuf` |
| stress processes, `case.sh`, `average.sh` | the report file, the sums | start, kill, add up | `Reports`, `Harness` |
| Makefiles, `vmlinux.h`, `bpftool` | -- | -- | no behaviour |

How they interact. A BPF program runs on every cpu at once, inside the system
calls of the stress processes. It shares with the one userspace thread, without
a lock, the pages of a ring: `producer_pos` and the headers are written by the
BPF side, `consumer_pos` by userspace. It shares the two counters with the
programs on the other cpus, without atomic instructions, and with the handler,
which reads one of them. A ring's spinlock orders the cpus that reserve in it.
The handler interrupts the userspace thread anywhere and never returns to it.
The scripts start programs and stress processes, interrupt them, and read a file
the handlers append to; they wait for nothing but time.

What is hard here, and where:

* the helper loads `consumer_pos` before it takes the lock and looks for room
  with it afterwards;
* a record becomes visible (`producer_pos`) before it is complete (busy bit),
  and its header must be there before either;
* userspace works on two private positions per ring, one of which is as old as
  the last visit, and recomputes the length of each record from its header;
* `case3` holds space back until it has drained a snapshot, and both `case3` and
  `case4` wait on a ring for a record that is not committed;
* `n_drops++` and `n_skipped++` are a load and a store on a shared word;
* the number userspace reports is added up after the records were handed out,
  and the signal may fall between the two;
* `get_best_buffer` compares fill levels that are two loads each;
* the handler may also come while `main` sets things up or cleans up, and `clean()`
  resets no pointer; every call of the setup can fail on its own, and one
  descriptor is closed twice;
* the handler prints `n_drops` while programs it cannot wait for still run;
* the scripts sleep where they would have to wait, and signal processes that may
  not listen yet.

What makes each part correct: no byte is reserved again before it was given
back (ring); headers belong to their records (ring, several cpus); records are
handed out once each, in order, committed, and all of them at last (loops); a
record in the caller's hands keeps its bytes (where the loop gives space back
after use); every system call ends up in exactly one place (programs); the
report is off by at most the record in hand (handler); a capture that is on has a
ring for every cpu, and the program runs or ends (life of the process); sums are
added up of what belongs together (scripts).

`PROJECT.json` lists these hazards with their lines.

## 2. Modules

```
Ringbuf            the rings, and the kernel helpers step by step
  BpfProgram       entry, choice of the ring by cpu, counters
    BpfReserve     the program with reserve/submit, and get_best_buffer
    BpfOutput      the program with bpf_ringbuf_output
  Userspace        thread state, start_capture, the SIGINT handler
    ConsumeOne     loop of multi_ringbuf_reserve/case1.c
    ConsumeSnapshot  loop of case3.c (ReleaseEachRecord FALSE) and case4.c (TRUE)
    ConsumeSingle  loop of single_ringbuf_reserve/case1.c
  EventChannel     the abstract specification: what a capture amounts to
  Capture          what is promised, whatever the program and the loop
    ConsumeAll     loop on libbpf's ring_buffer__consume, and what it promises
    ReserveCapture program of BpfReserve + Userspace, loop left open

Loader             the life of the process, both kinds of main, with the handler
Reports            the processes of a test, their cpus, report file and sums
  Harness          average.sh, case.sh and what becomes of the processes

systems: MultiReserveCase1, MultiReserveCase2, MultiReserveCase3 (case3, case4),
         SingleReserveCase1, MultiOutputCase1; MC<system> for TLC
theorems: CaptureTheorems                       any program, any loop
          ReserveTheorems                       the program of BpfReserve
          MultiReserveCase1Theorems, MultiReserveCase2Theorems,
          MultiReserveCase3Theorems, SingleReserveCase1Theorems
          MultiOutputCase1Theorems
          ProcessTheorems                       Loader and Harness
```

Correspondence. `pc[c]` is where the program stands on cpu `c`, `call[c]` its
locals and those of the helper it is in, `scan[c]` the locals of
`get_best_buffer`. A step of the model is one access to shared memory:
`ReserveLoad` (load of `consumer_pos`), `ReserveFull`/`ReserveHeader` (under the
lock: test, header), `ReservePublish` (`producer_pos`, unlock), `Submit` (the
exchange that clears the busy bit), and one step each for the load and the store
of a counter increment. In userspace `upc` is where the thread stands and
`cons_pos`, `prod_pos`, `ringbuf_pos` are the program's variables; the load of
`producer_pos`, the read of a header and the store of `consumer_pos` are steps
of their own, and the handler can come between any two. `reserved`, `dropped`
and `taken` are history variables: nothing in the model reads them but the
properties.

The three systems with one `main` in several directories share a module:
`MultiReserveCase2` also stands for `single_ringbuf_reserve/case2.c` (with one
ring), and the loop of `multi_ringbuf_output/case1.c` is the text of
`multi_ringbuf_reserve/case2.c`.

`Loader` stands by itself: it says how a process gets to the loop and out of it,
where the other modules begin with the rings in place (`Init` of the captures is
the state after its `CloseOuterMap` and `attach_skeleton`). `stage` is the call of
`main` that comes next, `handler` the call of the handler, `has` what the process
holds, and `misuse` a history of what was used or released after its end. Each
library call succeeds or fails by choice; using a pointer that is NULL or freed is
undefined and modelled as a choice between a crash and going on.

`Loader` also numbers descriptors as the kernel does, lowest first, for the sake of
the one that is closed twice (`OuterNumberUnused`).

`Harness` (with its state in `Reports`) looks at programs from outside: a process is loading (and deaf to SIGINT,
which a script's background processes ignore until they call `signal`), armed,
running, stopping, gone or failed. `spc` is where the script stands; `timely`,
fixed at the start, says whether every sleep outlasts what it is there for, and
the guard of the step after a sleep is where it matters. A program's two lines are
one append: its output is a file, so that `exit` writes both from the buffer.

**The abstract specification.** `EventChannel` has a log of records per channel, each
written where the one before it ends, as far as the capacity goes beyond what was
given back; finished in any order; handed out in the order of the log, once
finished; and given back by whole records that were handed out. Its fairness says
that no channel is left out. `Capture` maps the rings on it: `log` is `reserved` with
`ready` for records no cpu holds any more, `handed` is `taken`, `freed` is
`consumer_pos`, `stopped` is a SIGINT that has come. A store of `producer_pos` is a
`Write`, a `Submit` a `Finish`, the step of the cursor a `Hand`, a store of
`consumer_pos` that moves it a `GiveBack`, the handler's first step the `Stop`;
everything else -- locks, headers, loads, counters, the order of the rings -- is a
stutter. `ImplementsChannel` is checked of all five systems.

What is abstracted. The payload bytes are left out, and what happens to them is stated on positions
(`NoOverrun`, `SampleIntact`). A header is a word whose two upper bits are the flags,
with `BPF_RINGBUF_DISCARD_BIT`, 2^30 in the code, as a parameter; `roundup_len` shifts
it left and right within its width. A size is picked from `Payloads` at random in the
code and by `\E` here; the equal branches of the `switch` are one. A submit
passes `BPF_RB_NO_WAKEUP`, so no notification exists. Memory is sequentially
consistent: the code orders its accesses with acquire loads, release stores, an
exchange and a spinlock, and the model keeps those accesses separate and in
program order. Events discarded by the BPF side are handled by the loops as in
the code, though no program of this repository discards.

A definition whose comment begins with "Bug:" is a wrong version of the one that
follows it; no specification uses it. For each property of each passing run there
is one (listed under `mutants`) that makes TLC report the property violated.

## 3. Runs

| run | what it instantiates | states | shows |
|---|---|---|---|
| `case1` | case1, own rings, a third cpu without one | 343k | the inductive invariant, the protection of space, the report, the drops it can miss; the rings implement the channels |
| `case1_best` | case1 with `CUSTOMIZED` | 3.6M | the same rings written by several cpus: headers and order survive contention; a query never wraps, and one that chooses no ring was outrun by userspace |
| `case2` | case2 on libbpf | 141k | the inductive invariant; the callback's record keeps its bytes; what is not counted is exactly the current call, and the report lacks exactly that; the channels |
| `case3` | case3 and case4, chosen at the start | 156k | the inductive invariant, positions; in case3 the record in hand keeps its bytes; the report; the channels |
| `single` | one ring for all cpus | 167k | the inductive invariant with all cpus at one lock; lengths, order and commit of the records; the channel |
| `output` | the output program | 158k | the inductive invariant; the channels, and `n_skipped` against the events lost, with full rings and a cpu without a ring |
| `loader` | `Loader` | 929 | the inductive invariant of the setup; a capture that is on is complete; which descriptors a failure leaves; that the second close of the outer map's descriptor hits nothing; when the handler meets what does not exist; the program runs or ends |
| `harness` | two repetitions, three stress processes | 642k | the inductive invariant of the scripts; the sums pair up whatever the timing; with long enough sleeps they are complete and nothing is left behind; no cpu is shared in a dedicated run |
| `drops_race` | case1 | violation | two drops at once count one (`n_drops++`) |
| `elaborated_lost` | case2 | violation | SIGINT inside `ring_buffer__consume` loses the count of the call |
| `output_drops` | output program | violation | full rings are printed as no drops |
| `exit_status` | `Loader` | violation | a failed `ring_buffer__new` ends with exit status 0 |

Deadlock is not checked: the userspace program exits on SIGINT and the system
stops there.

**Bounds.** Two rings and two cpus are enough for every pair of actors to meet: two
programs on one ring (`single`, `case1_best`), two on a counter, one against the
reader, a ring with data next to one without. A ring has 64 bytes and records take
16 or 32 bytes with their header (payloads of 8 and 20 bytes: one is a multiple
of 8, the other is not), so two to three records fill a ring, and a ring with
four or five records has wrapped around. `MaxCalls`, the only bound on
a counter, is the number of system calls in all: three to five, so that one cpu
can fill its ring while the other meets it at any point. In `case2` (three calls) a
ring of two records is full; in `case3` records take 16 bytes, three fill a ring
and the fifth lies beyond its end, so that a snapshot has several records. In
`case1_best` payloads are 8 and 36 bytes, records 16 and 48, and there are five
calls: room for userspace to read and give back more than a ring between two loads
of one query, so that a query does end without a ring.

`loader` has `MAX_CPUS = 3` array entries (64 in the code) and one to four possible
cpus: the first ring, which has code of its own, the loop, and a cpu too many.

`harness` has two repetitions, for a program can only meet the next one, and three
stress processes, for the rule of the masks changes at the third. `INTMAX_BITS`, the
width of the integers of the shell (64), is 4: the third process has the last bit.

**Fairness.** Weak fairness of the program on each cpu once it was entered: the
kernel runs a BPF program to its end. No fairness of `Enter`: nothing obliges a
process to make a system call. Weak fairness of the userspace loop: it never
blocks, it polls. None of the handler: the signal may never come. The fairness of
`EventChannel` (no record stays unfinished, no finished record unread, no space
read through unreturned, for ever, on any ring, until the signal) follows from
these. It is checked with finitely many system calls; a loop that stays on a ring
as long as it brings new records (libbpf's does) leaves the others waiting for
as long as producers keep up with it, and the runs do not deny it. In `Harness`
sleeps end and processes get on. In `Loader`, `main` and
a handler that was entered make their calls (weak fairness); the library calls
return. The signal may never come.

## 4. Findings

1. `n_drops` can be smaller than the number of events dropped
   (`multi_ringbuf_reserve.bpf.c:130`). It is never larger, and with the cpus
   done never zero when events were dropped (`DropsNotInvented`). README.md:174
   calls it "number of events dropped".
2. With libbpf's `ring_buffer__consume`, `Elaborated` misses all the records of
   the call the signal interrupts (`case2.c:73`); with one record per call it
   misses at most the one in hand (`ReportedElaborated`). README.md:175 calls it
   "number of events correctly sent to userspace".
3. `multi_ringbuf_output` counts full rings in `n_skipped`
   (`multi_ringbuf_output.bpf.c:76`) and prints `n_drops`, which it never
   increases. README.md:174 says the number is that of events dropped because
   the ring buffer is full.

4. The single programs do not set `err` when `ring_buffer__new` fails
   (`single_ringbuf_reserve/case1.c:158`, `case2.c:75`): they print "failed to
   create ring buffer" and exit with `-err`, which is 0.

Facts to know of the life of the process, which `loader` bounds and does not call
wrong: a signal before the skeleton is open uses a NULL pointer, and one during the
cleanup after a failure releases things twice (`MisuseWindow`: at no other time);
a failure leaves at most one descriptor of `main` open (`OneDescriptorAtMost`);
`free_consumer_producer` never frees (`shared_code.h:96`); `close(outer_map_fd)`
closes a descriptor of the skeleton, which closes it again.

Another fact to know: `SampleIntact` fails in `case1`, `case4` and
`single_ringbuf_reserve/case1`, which give the space of a record back before
they return it. Nothing reads the record there; a program built on them would
have to copy it first.

## 5. Proofs

Everything in this section holds for every `Cpus` (finite), `RING_CNT`,
`RING_BUF_DIM`, `BYTE`, `KB`, `RingOf`, `MaxCalls`, both values of `CUSTOMIZED`, and
every `MAX_CPUS`, and of the scripts for every number of repetitions and of stress
processes and every `INTMAX_BITS`, that meet the named assumptions.

| module | theorems |
|---|---|
| `MultiReserveCase1Theorems` | `Invariant`, `TypeCorrect`, `NoOverrunHolds`, `ConsumerBehindHolds`, `HeadersIntactHolds`, `LengthsAgreeHolds`, `ExactlyOnceInOrderHolds`, `OnlyCommittedHolds`, `ReportedElaboratedHolds`, `QueryNotNegativeHolds`, `DropsNotInventedHolds`, `EveryCallAccountedHolds`, `LateDropsBoundedHolds`, `UnchosenOnlyIfOutrunHolds`, `ImplementsChannelSafely` |
| `MultiReserveCase2Theorems` | `Invariant`, `RecordsSafe`, `SampleIntactHolds`, `UncountedIsThisCallHolds`, `BooksKept`, `LateDropsBoundedHolds`, `UnchosenOnlyIfOutrunHolds`, `ImplementsChannelSafely` |
| `MultiReserveCase3Theorems` | `Invariant`, `RecordsSafe`, `SampleIntactHolds` (case3), `ReportedElaboratedHolds`, `BooksKept`, `LateDropsBoundedHolds`, `UnchosenOnlyIfOutrunHolds`, `ImplementsChannelSafely` |
| `SingleReserveCase1Theorems` | `Invariant`, `RecordsSafe`, `BooksKept`, `LateDropsBoundedHolds`, `ImplementsChannelSafely` |
| `MultiOutputCase1Theorems` | `Invariant`, `SkippedNotInventedHolds`, `UncountedIsThisCallHolds`, `RecordsSafe`, `ImplementsChannelSafely` |
| `ProcessTheorems` | `Invariant`, `CaptureReadyHolds`, `MisuseWindowHolds`, `OneDescriptorAtMostHolds`, `OuterNumberUnusedHolds` (of `Loader`); `ScriptsInvariant`, `SumsPairedHolds`, `AverageCompleteHolds`, `DedicatedCpusHolds` (of `Harness`) |
| `CaptureTheorems` | `RoundupAgrees` |

`RecordsSafe` is the conjunction of `NoOverrun`, `ConsumerBehind`, `HeadersIntact`,
`LengthsAgree`, `ExactlyOnceInOrder` and `OnlyCommitted` (of the output program
`SampleIntact` as well). `BooksKept` is that of `DropsNotInvented`, `QueryNotNegative`
and, given `OneSkips`, `EveryCallAccounted` (in the single program, where every cpu
has the one ring and nothing is queried, of the first and the last).
`LateDropsBoundedHolds` and `UnchosenOnlyIfOutrunHolds` are of action properties,
`ImplementsChannelSafely` of a refinement:
`Spec => Channel!SafeSpec`, every step of the detailed system is a step of
`EventChannel` under the mapping of `Capture`, or leaves it alone.

**The invariant of a capture.** `CaptureInv` (in `ReserveCapture`) is the conjunction of

* `SpaceInv`, about positions. `NoOverrun` says that the distance from
  `consumer_pos` to the last byte written stays below the size of the ring; it is
  not inductive, since a reserve in progress uses a position loaded earlier. So:
  the position a helper has loaded is never ahead of `consumer_pos` (which only
  grows), and once the lock is held the room found against it is still there
  (`RoomInv`); the lock is held by exactly the cpu that publishes (`LockInv`), so
  that nobody else moves `producer_pos` in between; a cpu inside a helper has a ring
  and a size (`CallInv`); `consumer_pos` stays behind what userspace has read
  (`BoundInv`).
* `RecordInv`, about what lies in the rings. `ExactlyOnceInOrder` says of the
  records handed out that they are a prefix of those reserved; it holds only
  because the cursor of userspace, which it advances by a length it computes from
  a header, always stands at the start of a record. So: records lie end to end from
  position 0 to `producer_pos` (`LayoutInv`); the header of each one not given back
  is the word its helper wrote, with the busy bit exactly while a cpu holds the
  record (`WrittenInv`, `HeldInv`), which needs that no two live records share an
  offset, which is `NoOverrun` with `OffsetsDiffer`; and the cursor stands where the next
  record to be handed out begins, or at the end.
* `BpfTypeOK`, and `ProgramInv`, about the books of the program. Increments of
  `n_drops` get lost, so no equation relates it to the events dropped; what does
  hold is that `n_drops`, and whatever a cpu has loaded of it, stays at least as far
  below the number of drops as there are programs about to count one (`DropsInv`).
  Every call entered is a record, a drop, a skip, or under way (`AccountInv`); a
  query under way has loaded a `consumer_pos` that is not ahead, and as long as no
  ring is chosen its minimum is still the one it began with (`QueryInv`); capture is
  off once the handler runs (`StoppedInv`). `UnchosenOnlyIfOutrun` follows: the
  minimum begins at twice the ring, and a ring never holds more than its size, so
  only a difference of loads between which more than a ring was given back can
  reach it. An event is never skipped because rings are full.

Each system adds what its loop needs, in its `Inv`: `ElaboratedInv` where a call
takes one record (what `main` has counted is one record behind what it was handed
exactly while it holds one); for libbpf, `SettledInv` (a pass begins at the position
the last one ended at, which is why re-reading `consumer_pos` loses and repeats
nothing) and `UncountedIsThisCall` (handed out is what `main` has counted plus what
the call in progress has handed over, and a report that was printed lacks the latter
and no more); `InHands` where the caller's record keeps its
bytes (libbpf's loop and case3: `consumer_pos` is not past it).

The output program has `SpaceInv` and `RecordInv` in common with the others, and of
the counters only `n_skipped`. An event counts as lost from the moment it cannot
reach a ring any more: `SkipsInv` says that `n_skipped`, and whatever a cpu has loaded
of it, stays at least as far below the number of lost events as there are programs
about to count one, where the events lost are the calls without the records and
without the programs that may still write one.

The steps are shared. `CaptureTheorems` shows that the helpers keep `SpaceInv` and
`RecordInv` and are `Write` or `Finish` of a channel, or stutters, whatever the rest of
the program; `ReserveTheorems` and `MultiOutputCase1Theorems` add the programs and
their counters. A step of userspace owes only that it looks, takes a record at the
cursor, or gives back what was read (`UserActs`): from this the invariant and the
channel's step follow, and each loop shows it for its own actions.

**Lemmas about the operators.** The space of a record is a multiple of 8 that covers
header and payload; offsets of positions are slots; two positions less than a ring
apart have different offsets (`OffsetsDiffer`), which is why distance between
positions is all that protects bytes; clearing the busy bit gives the length back
(`FlipBack`). `RoundupAgrees` is about two computations that must agree although
they are made on the two sides of the ring: for every length below the discard bit
and every setting of the two flags, `roundup_len` of the header is the number of
bytes reserve took. It rests on `ModMultiple`: the flags, shifted left by two, are
multiples of the size of a word and fall out of it. Counting is on finite sets
(`LabelCount`: of the programs at some labels, one moves; `PlacesAppend`: one
record more).

**The life of a process.** `Loader`'s `Inv`: every descriptor has the number it
always gets, or none yet (`NumbersInv`): the kernel gives the lowest free number, and at
each stage the invariant says which are taken. Until something fails or the signal
comes, main holds what its stage says -- descriptors, entries of the array, rings
of the manager, skeleton (`SetupInv`, from which `CaptureReady` is read off at the
stage "loop"). Afterwards: a skeleton is freed only when main has cleaned up, a
manager freed only when main or the handler has, and the handler entered only with a
skeleton (`ReleaseInv`), so that misuse needs the windows of `MisuseWindow`.
`OneDescriptorAtMost` holds since main closes the inner map's before it opens a
ring's, whatever fails.

**The scripts.** `average.sh` tells drops from elaborated records by the parity of the
line, although programs of several repetitions append to the file and some append
nothing. `ScriptsInv` says why this works: a program appends its two lines in one
write when it ends, so the file is one whole report after the other, of exactly the
programs that are gone (`FileInv`); the two sums are the odd and the even lines of
what was read so far (`ReadInv`), which later reports leave alone. `AverageComplete`
also needs that nothing runs which the script has not started (`StartInv`, so that
the processes of this repetition are the last) and that sleeps which are long enough
order the rest (`TimelyInv`): everything of the repetitions before was interrupted
after its setup, and has ended when the file is read.

**The cpus of a dedicated run.** `DedicatedCpus` depends on no invariant of the
scripts: it is arithmetic, that each mask `case.sh` computes has one bit and no two
have the same. `2 ^ n` is defined by recursion and the induction theorems of the
library cannot be used, but a well-founded set has a minimal element
(`WFMin`), which gives induction over a set of naturals (`SetInduction`), and
`2 ^ n` is the number of subsets of a set of `n` elements (`FS_SUBSET`), which gives its
equations (`PowerDoubles`, `PowerSum`, `PowerLess`). From these: in `2 ^ n` bit `n` is
set and no other (`OneBit`). The masks of the first two processes are their
numbers 1 and 2, bits 0 and 1; the program has 4, bit 2; the others `2 ^ n` from 3 on.
Where `n` reaches the width of the integers of the shell the power wraps to 0 and
names no cpu, which is why the property promises a cpu only below that.

**Assumptions.** `RingAssumption` (positive sizes, the ring a multiple of 8 -- the
code's is a power of two --, payloads below the flag bits, and `NULL` no cpu),
`ProgramAssumption` (finitely many cpus, each with a ring or none),
`ReserveAssumption`, `SampleAssumption` (`NULL` is no record), `LoaderAssumption`, and
`HarnessAssumption` (at least one repetition; `INTMAX_BITS` a number). TLC evaluates them in the runs. `EveryCallAccountedHolds` has the hypothesis `OneSkips`:
own rings, and at most one cpu without one. It is needed: the increments of
`n_skipped` race between two such cpus.

**Model-checked only.** Liveness, for which the prover has no means (`ENABLED`,
fairness): the second half of `ImplementsChannel`, `LoopsOrEnds`,
`NothingLeftBehind`. Every other property of the passing runs is a theorem.

## 6. Plan

1. (done) rings, programs, the four loops, the handler, their runs.
2. (done) Header words, `roundup_len` and `RoundupAgrees`.
3. (done) `EventChannel`, implemented by all five systems.
4. (done) `Loader` with descriptor numbers; `Harness`.
5. (done) Theorems: the safety of all captures, reserve and output, in all their
   loops, their books, the safety half of the refinement, the life of a process, and
   the sums and the cpus of the scripts.
6. (done) What `get_best_buffer` can promise under racing queries: a ring, unless it
   is outrun (`UnchosenOnlyIfOutrun`).

## 7. Not modelled

* In the life of the process: a signal in the middle of a library call, and
  what `printf` and `free` do when a handler interrupts them.
* In the scripts: the checks of the parameters, and the trap that answers Ctrl-C,
  whose effect depends on the version of the shell.
* Balance of `get_best_buffer`: the levels it compares are of different times, and
  that the ring it chooses is the emptiest is a promise of no line of the code.
* `epoll` and wakeups: every submit passes `BPF_RB_NO_WAKEUP` and every loop polls.
* Build files, the generated `vmlinux.h` (133431 lines of type declarations, next to
  some 1800 of code and scripts), the `bpftool` binary.
