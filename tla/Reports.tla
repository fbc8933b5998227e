------------------------------ MODULE Reports ------------------------------
(***************************************************************************)
(* What a test script starts, what its programs append to one file when    *)
(* they end, and what average.sh makes of it: the state of Harness, and    *)
(* what is promised of the sums and of the cpus.                           *)
(***************************************************************************)
EXTENDS Integers, Sequences

CONSTANTS
  Repeat,      \* $5, repetitions
  Stress,      \* $2, stress_test processes of a repetition
  INTMAX_BITS  \* the width of the shell's arithmetic, 64

ASSUME HarnessAssumption ==
  Repeat \in Nat \ {0} /\ Stress \in Nat /\ INTMAX_BITS \in Nat

Repetitions == 1 .. Repeat

(* The program of a repetition is its process 0.                           *)
Processes == Repetitions \X (0 .. Stress)
Program(r) == <<r, 0>>
IsProgram(p) == p[2] = 0

VARIABLES
  proc,       \* [process -> how far it is in its life]
  file,       \* the lines of "$1.txt"
  spc,        \* where the script stands
  rep,        \* the repetition: i of average.sh
  cnt,        \* lines read back
  drops,      \* the lines added to the sum of drops
  elaborated, \* the lines added to the sum of elaborated
  timely      \* every sleep outlasts what the script sleeps for

(* The two lines a program prints at its end.                              *)
Line(p, what) == [rep |-> p[1], what |-> what]
Report(p) == <<Line(p, "drops"), Line(p, "elaborated")>>

-----------------------------------------------------------------------------
(* The cpus of a dedicated run: taskset takes a mask.  The shell's powers  *)
(* wrap around, and the masks are printed without a sign.                  *)

(* Bug: the mask of the third process names two cpus.                      *)
mask_from_4(n) == IF n > 3 THEN 2 ^ n % 2 ^ INTMAX_BITS ELSE n

mask(n) == IF n > 2 THEN 2 ^ n % 2 ^ INTMAX_BITS ELSE n

TasksetMask(p) == IF IsProgram(p) THEN 4 ELSE mask(p[2])

CpusOf(p) == {c \in 0 .. TasksetMask(p) : (TasksetMask(p) \div 2 ^ c) % 2 = 1}

(***************************************************************************)
(* With dedicated cpus no stress process is on the cpu of another one or   *)
(* of the program, and each has one, as far as the masks reach (case.sh:   *)
(* "cpu 2 is left for the userspace program, cpu 0, cpu 1, cpu 3, ... are  *)
(* used for the stress test").                                             *)
(***************************************************************************)
DedicatedCpus == \A p, q \in Processes :
  (p[1] = q[1] /\ p # q /\ proc[p] # "none" /\ proc[q] # "none") =>
    /\ CpusOf(p) \cap CpusOf(q) = {}
    /\ p[2] < INTMAX_BITS => CpusOf(p) # {}

-----------------------------------------------------------------------------
(***************************************************************************)
(* However the programs and the parser overlap, a number of drops is added *)
(* to the drops and a number of elaborated records to the elaborated, and  *)
(* what has been added of both comes from the same programs -- although    *)
(* nothing in the file says which line is which.                           *)
(***************************************************************************)
SumsPaired ==
  /\ \A l \in drops : l.what = "drops"
  /\ \A l \in elaborated : l.what = "elaborated"
  /\ cnt % 2 = 0 => {l.rep : l \in drops} = {l.rep : l \in elaborated}

(***************************************************************************)
(* If the sleeps are long enough, the result counts every repetition whose *)
(* program was set up, late or not (average.sh: "wait for the file to be   *)
(* written by last data").                                                 *)
(***************************************************************************)
AverageComplete == timely /\ spc = "done" =>
  {l.rep : l \in elaborated} = {r \in Repetitions : proc[Program(r)] # "failed"}

-----------------------------------------------------------------------------
(* The inductive invariant behind SumsPaired and AverageComplete.          *)

TypeInv ==
  /\ proc \in [Processes -> {"none", "loading", "armed", "running", "stopping",
                             "gone", "failed"}]
  /\ file \in Seq([rep : Repetitions, what : {"drops", "elaborated"}])
  /\ rep \in Repetitions
  /\ cnt \in 0 .. Len(file)

(* The file holds the reports of the programs that are gone, one after the *)
(* other and none of them torn.                                            *)
FileInv ==
  /\ Len(file) % 2 = 0
  /\ \A k \in 1 .. Len(file) : k % 2 = 1 =>
       /\ file[k].what = "drops" /\ file[k + 1].what = "elaborated"
       /\ file[k].rep = file[k + 1].rep
  /\ \A r \in Repetitions : proc[Program(r)] = "gone" <=>
       \E k \in 1 .. Len(file) : file[k].rep = r

(* The sums have the lines read so far, in turn.                           *)
ReadInv ==
  /\ drops = {file[k] : k \in {n \in 1 .. cnt : n % 2 = 1}}
  /\ elaborated = {file[k] : k \in {n \in 1 .. cnt : n % 2 = 0}}

(* What the script has not started is not there.                           *)
StartInv ==
  /\ \A p \in Processes : p[1] > rep => proc[p] = "none"
  /\ spc = "launch" => proc[Program(rep)] = "none"
  /\ spc \in {"sleep 2", "parse", "done"} => rep = Repeat

(* If sleeps are long enough: what repetitions before this one have started*)
(* was interrupted, this one's are all started before they are, and nothing*)
(* is left to write when the file is read.                                 *)
TimelyInv == timely =>
  /\ \A p \in Processes :
       p[1] < rep \/ spc = "sleep 2" => proc[p] \in {"stopping", "gone", "failed"}
  /\ spc = "sleep 1" => proc[Program(rep)] # "none"
  /\ spc = "sleep 3" => \A p \in Processes : p[1] = rep => proc[p] # "none"
  /\ spc \in {"parse", "done"} =>
       \A p \in Processes : proc[p] \in {"gone", "failed"}
  /\ spc = "done" => cnt = Len(file)

ScriptsInv == TypeInv /\ FileInv /\ ReadInv /\ StartInv /\ TimelyInv
=============================================================================
