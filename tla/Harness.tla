------------------------------ MODULE Harness ------------------------------
(***************************************************************************)
(* The test scripts: average.sh repeats case.sh, which starts a program    *)
(* and a number of stress_test processes, lets them run and interrupts its *)
(* children; at last average.sh adds up the lines the programs have        *)
(* appended to one file.  Nothing waits for a process to end: the scripts  *)
(* sleep, and whether the sleeps were long enough is part of the state.    *)
(* The script stopped by Ctrl-C is not modelled.                           *)
(***************************************************************************)
EXTENDS Reports

scriptVars == <<spc, rep, cnt, drops, elaborated, timely>>
vars == <<proc, file, scriptVars>>

Init ==
  /\ proc = [p \in Processes |-> "none"]
  /\ file = <<>>
  /\ spc = "launch"
  /\ rep = 1
  /\ cnt = 0
  /\ drops = {} /\ elaborated = {}
  /\ timely \in BOOLEAN

-----------------------------------------------------------------------------
(* The life of a process.  Started in the background by a script, it       *)
(* ignores SIGINT until it has called signal().                            *)
Becomes(p, state) == proc' = [proc EXCEPT ![p] = state]

InstallHandler(p) ==
  /\ proc[p] = "loading"
  /\ Becomes(p, IF IsProgram(p) THEN "armed" ELSE "running")
  /\ UNCHANGED <<file, scriptVars>>

(* The setup of a program is over: its capture is on, or it has failed.    *)
FinishSetup(p) ==
  /\ proc[p] = "armed"
  /\ \E state \in {"running", "failed"} : Becomes(p, state)
  /\ UNCHANGED <<file, scriptVars>>

(* Bug: each line is written on its own.                                   *)
ExitUnbuffered(p) ==
  LET written == Report(p)[1] \in {file[k] : k \in DOMAIN file}
  IN  /\ proc[p] = "stopping"
      /\ file' = IF IsProgram(p)
                 THEN Append(file, Report(p)[IF written THEN 2 ELSE 1])
                 ELSE file
      /\ IF IsProgram(p) /\ ~written THEN UNCHANGED proc ELSE Becomes(p, "gone")
      /\ UNCHANGED scriptVars

(* The handler ends the process.  The two lines a program prints are in a  *)
(* buffer, for its output is a file; exit() appends them in one write.     *)
Exit(p) ==
  /\ proc[p] = "stopping"
  /\ Becomes(p, "gone")
  /\ file' = IF IsProgram(p) THEN file \o Report(p) ELSE file
  /\ UNCHANGED scriptVars

Live(p) == InstallHandler(p) \/ FinishSetup(p) \/ Exit(p)

-----------------------------------------------------------------------------
(* case.sh                                                                 *)
LaunchProgram ==
  /\ spc = "launch"
  /\ Becomes(Program(rep), "loading")
  /\ spc' = "sleep 1"
  /\ UNCHANGED <<file, rep, cnt, drops, elaborated, timely>>

Settled(p) == proc[p] \notin {"loading", "armed", "stopping"}

(* The first sleep is for the program to be set up.                        *)
LaunchStress ==
  /\ spc = "sleep 1"
  /\ timely => Settled(Program(rep))
  /\ proc' = [p \in Processes |->
                IF p[1] = rep /\ ~IsProgram(p) THEN "loading" ELSE proc[p]]
  /\ spc' = "sleep 3"
  /\ UNCHANGED <<file, rep, cnt, drops, elaborated, timely>>

(* A child that handles SIGINT stops wherever it is; one that does not yet *)
(* goes on; a program can also die of it in its setup, with no report.     *)
Stops(crashed, p) ==
  IF p \in crashed THEN "failed"
  ELSE IF proc[p] \in {"armed", "running"} THEN "stopping" ELSE proc[p]

Interrupt(children) ==
  \E crashed \in SUBSET {p \in children : proc[p] = "armed"} :
    proc' = [p \in Processes |-> IF p \in children THEN Stops(crashed, p)
                                                   ELSE proc[p]]

(* The second sleep is for everything to run, for what is left of the      *)
(* repetition before to end, and for the load itself.                      *)
EndRepetition ==
  /\ spc = "sleep 3"
  /\ timely => \A p \in Processes : Settled(p)
  /\ IF rep < Repeat THEN spc' = "launch" /\ rep' = rep + 1
                     ELSE spc' = "sleep 2" /\ UNCHANGED rep
  /\ UNCHANGED <<file, cnt, drops, elaborated, timely>>

(* Bug: only the program is interrupted.                                   *)
InterruptProgram == EndRepetition /\ Interrupt({Program(rep)})

(* pkill -2 -P $$ reaches all children of the shell: case.sh is sourced,   *)
(* and those of former repetitions are children like the others.           *)
InterruptAll == EndRepetition /\ Interrupt(Processes)

-----------------------------------------------------------------------------
(* average.sh, after the repetitions                                       *)

(* Bug: the file is read at once.                                          *)
BeginParseAtOnce ==
  /\ spc = "sleep 2"
  /\ spc' = "parse"
  /\ UNCHANGED <<proc, file, rep, cnt, drops, elaborated, timely>>

(* The last sleep is for the last report.                                  *)
BeginParse ==
  /\ spc = "sleep 2"
  /\ timely => \A p \in Processes : Settled(p)
  /\ spc' = "parse"
  /\ UNCHANGED <<proc, file, rep, cnt, drops, elaborated, timely>>

(* Lines go to the two sums in turn.                                       *)
ParseLine ==
  /\ spc = "parse" /\ cnt < Len(file)
  /\ IF cnt % 2 = 0
     THEN drops' = drops \cup {file[cnt + 1]} /\ UNCHANGED elaborated
     ELSE elaborated' = elaborated \cup {file[cnt + 1]} /\ UNCHANGED drops
  /\ cnt' = cnt + 1
  /\ UNCHANGED <<proc, file, spc, rep, timely>>

PrintResult ==
  /\ spc = "parse" /\ cnt = Len(file)
  /\ spc' = "done"
  /\ UNCHANGED <<proc, file, rep, cnt, drops, elaborated, timely>>

Script ==
  \/ LaunchProgram \/ LaunchStress \/ InterruptAll
  \/ BeginParse \/ ParseLine \/ PrintResult

Next == Script \/ \E p \in Processes : Live(p)

(* Sleeps end, and processes that are started get on.                      *)
Fairness == WF_vars(Script) /\ \A p \in Processes : WF_vars(Live(p))

Spec == Init /\ [][Next]_vars /\ Fairness

-----------------------------------------------------------------------------
(***************************************************************************)
(* The scripts come to an end; and if the sleeps are long enough, they     *)
(* leave no process behind, although they wait for none.                   *)
(***************************************************************************)
NothingLeftBehind ==
  <>(spc = "done" /\ (timely => \A p \in Processes : proc[p] \in {"gone", "failed"}))
=============================================================================
