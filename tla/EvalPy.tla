------------------------------- MODULE EvalPy -------------------------------
(***************************************************************************)
(* The SpectreGuard evaluation, eval.py: it builds a program for each mode  *)
(* and configuration, starts all simulations at once, each with a pipe as   *)
(* its stdout, and reads one pipe after the other to its end.  What the     *)
(* programs print is that of specBench.c: some lines, the total time, and   *)
(* the exit message of the BSP.                                             *)
(***************************************************************************)
EXTENDS Integers, Sequences, Functions

CONSTANTS
  MODES,     (* the modes, the baseline first                               *)
  CONFIGS,   (* the configurations, in order                                *)
  PipeSize   (* lines a pipe holds                                          *)

(* The lists name each mode and each configuration once.                     *)
ASSUME EvalAssumption ==
  /\ MODES \in Seq(STRING) /\ MODES # <<>> /\ IsInjective(MODES)
  /\ CONFIGS \in Seq(STRING) /\ CONFIGS # <<>> /\ IsInjective(CONFIGS)
  /\ PipeSize \in Nat \ {0}

(* processes: a row of configurations for each mode                          *)
Count == Len(MODES) * Len(CONFIGS)

Proc == 1 .. Count

mode(p) == MODES[(p - 1) \div Len(CONFIGS) + 1]

config(p) == CONFIGS[((p - 1) % Len(CONFIGS)) + 1]

Mode == Range(MODES)

Config == Range(CONFIGS)

VARIABLES
  phase,     (* of the script: create, start, drain, print, done, error     *)
  current,   (* the process the script is at                                *)
  bin,       (* the program file of each process                            *)
  running,   (* the simulations that run                                    *)
  todo,      (* what each has still to print                                *)
  pipe,      (* what it has printed and the script has not read             *)
  results,   (* by mode and configuration; <<>> is the 0 of the script      *)
  printed    (* history: the total each has printed, <<>> for none          *)

vars == <<phase, current, bin, running, todo, pipe, results, printed>>

(* A line is the total in it, which a line of another kind has not.          *)
Output(p) ==
  IF bin[p] = "none" THEN <<>>
  ELSE <<<<>>, <<mode(p), config(p), bin[p]>>, <<>>>>

Init ==
  /\ phase = "create"
  /\ current = 1
  /\ bin \in [Proc -> {"old", "none"}]
  /\ running = {}
  /\ todo = [p \in Proc |-> <<>>]
  /\ pipe = [p \in Proc |-> <<>>]
  /\ results = [m \in Mode |-> [c \in Config |-> <<>>]]
  /\ printed = [p \in Proc |-> <<>>]

-----------------------------------------------------------------------------
(* The script goes to the next process, or behind the last to what follows.  *)
NextProc(following) ==
  /\ current' = IF current = Count THEN 1 ELSE current + 1
  /\ phase' = IF current = Count THEN following ELSE phase

(* os.system's result is not looked at: a failed make leaves what was there. *)
create_simulation ==
  /\ phase = "create"
  /\ \E made \in BOOLEAN : bin' = IF made THEN [bin EXCEPT ![current] = "new"] ELSE bin
  /\ NextProc("start")
  /\ UNCHANGED <<running, todo, pipe, results, printed>>

(* A simulation without a program file ends in an assertion.                 *)
run_simulation ==
  /\ phase = "start"
  /\ running' = running \cup {current}
  /\ todo' = [todo EXCEPT ![current] = Output(current)]
  /\ NextProc("drain")
  /\ UNCHANGED <<bin, pipe, results, printed>>

LineAfterWait(p) == pipe[p] # <<>> /\ p \notin running

LineToRead(p) == pipe[p] # <<>>

readline ==
  /\ phase = "drain"
  /\ LineToRead(current)
  /\ pipe' = [pipe EXCEPT ![current] = Tail(@)]
  /\ results' = IF Head(pipe[current]) = <<>> THEN results
                ELSE [results EXCEPT ![mode(current)][config(current)] = Head(pipe[current])]
  /\ UNCHANGED <<phase, current, bin, running, todo, printed>>

EndOfProcess(p) == p \notin running

(* readline returns the empty string that ends the loop when the pipe is     *)
(* empty and nobody has its other end open.                                  *)
EndOfFile(p) == p \notin running /\ pipe[p] = <<>>

StopReading ==
  /\ phase = "drain"
  /\ EndOfFile(current)
  /\ NextProc("print")
  /\ UNCHANGED <<bin, running, todo, pipe, results, printed>>

IsZero(m, c) == results[m][c] = <<>>

ZeroOfMode(m, c) == IsZero(m, c)

(* round(results[mode][config] / results['0'][config] * 100): the divisor.   *)
ZeroDivision(m, c) == IsZero(MODES[1], c)

PrintTable ==
  /\ phase = "print"
  /\ phase' = IF \E m \in Mode, c \in Config : ZeroDivision(m, c)
              THEN "error" ELSE "done"
  /\ UNCHANGED <<current, bin, running, todo, pipe, results, printed>>

Script ==
  \/ create_simulation
  \/ run_simulation
  \/ readline
  \/ StopReading
  \/ PrintTable

-----------------------------------------------------------------------------
(* stdbuf -o0: a line is in the pipe as soon as it is printed; a simulation  *)
(* whose pipe is full waits.                                                 *)
PrintLine(p) ==
  /\ p \in running
  /\ todo[p] # <<>>
  /\ Len(pipe[p]) < PipeSize
  /\ pipe' = [pipe EXCEPT ![p] = Append(@, Head(todo[p]))]
  /\ todo' = [todo EXCEPT ![p] = Tail(@)]
  /\ printed' = IF Head(todo[p]) = <<>> THEN printed
                ELSE [printed EXCEPT ![p] = Head(todo[p])]
  /\ UNCHANGED <<phase, current, bin, running, results>>

End(p) ==
  /\ p \in running
  /\ todo[p] = <<>>
  /\ running' = running \ {p}
  /\ UNCHANGED <<phase, current, bin, todo, pipe, results, printed>>

(* The cycle limit, SIGINT or a crash; the exit code is not looked at.       *)
Break(p) ==
  /\ p \in running
  /\ todo[p] # <<>>
  /\ todo' = [todo EXCEPT ![p] = <<>>]
  /\ UNCHANGED <<phase, current, bin, running, pipe, results, printed>>

Next == Script \/ \E p \in Proc : PrintLine(p) \/ End(p) \/ Break(p)

Spec == Init /\ [][Next]_vars

(* Script and simulations go on when they can; none need break.              *)
FairSpec ==
  /\ Spec
  /\ WF_vars(Script)
  /\ \A p \in Proc : WF_vars(PrintLine(p)) /\ WF_vars(End(p))

-----------------------------------------------------------------------------
Ended == phase \in {"done", "error"}

(* Reading one pipe to its end while the others fill up loses and mixes up   *)
(* nothing: behind the loop each entry of the table is the total its own     *)
(* simulation has printed, 0 if it has printed none.                         *)
ResultsAreOwn ==
  Ended \/ phase = "print" => \A p \in Proc : results[mode(p)][config(p)] = printed[p]

(* Of the runs that broke, were never built or are of an old program, only a *)
(* baseline without a total stops the script; any other shows as a result.   *)
OnlyBaselineFailuresShow ==
  Ended => (phase = "error" <=> \E p \in 1 .. Len(CONFIGS) : printed[p] = <<>>)

(* Simulations that wait for room in their pipe and the script that reads    *)
(* another do not wait for each other: everything ends.                      *)
EveryoneEnds == <>(Ended /\ running = {})
=============================================================================
