------------------------------- MODULE SimLoop -------------------------------
(***************************************************************************)
(* The main loop of the testbench (main of simulation/main.cpp) with        *)
(* CharDev and TestDev, the two devices that end it.  One turn of the loop  *)
(* is one nanosecond; the clock toggles every half period, and everything   *)
(* else happens on its rising edge.  isDone is the one thing shared with    *)
(* the SIGINT handler, and is read between turns only.                      *)
(***************************************************************************)
EXTENDS Integers, Sequences

CONSTANTS
  CLOCK_PERIOD,  (* turns of a clock period, 10 in the code                 *)
  RESET_PERIODS, (* periods before reset is released, 5 in the code         *)
  MAX_CYCLES,    (* the limit of the simulation, 10^9 in the code           *)
  RESULT_BITS,   (* width of TestDev's payload, 32 in the code              *)
  TIME_BITS,     (* width of mainTime and cycle, 64 in the code             *)
  Char,          (* the characters other than EOT                           *)
  EOT            (* the end-of-test byte, 4 in the code                     *)

ASSUME LoopAssumption ==
  /\ {RESET_PERIODS, RESULT_BITS, TIME_BITS} \subseteq Nat \ {0}
  /\ CLOCK_PERIOD \in Nat /\ CLOCK_PERIOD >= 2 /\ CLOCK_PERIOD % 2 = 0
  /\ MAX_CYCLES \in Nat /\ MAX_CYCLES >= RESET_PERIODS
  /\ (MAX_CYCLES + 1) * CLOCK_PERIOD < 2^TIME_BITS
  /\ EOT \notin Char

VARIABLES
  mainTime, cycle,
  clk, reset,
  gotEot_,     (* CharDev: was the last character the end-of-test byte?     *)
  cout,        (* what CharDev has printed                                  *)
  result_,     (* TestDev: the last result, as an int; -1: none             *)
  isDone,
  result,      (* what main will return                                     *)
  exited,
  reports      (* history: the payloads the core gave TestDev               *)

endVars == <<gotEot_, cout, result_, isDone, result, reports>>
vars == <<mainTime, cycle, clk, reset, endVars, exited>>

Payload == 0 .. 2^RESULT_BITS - 1

Init ==
  /\ mainTime = 0
  /\ cycle = 0
  /\ clk = TRUE
  /\ reset = TRUE
  /\ gotEot_ = FALSE
  /\ cout = <<>>
  /\ result_ = -1
  /\ isDone = FALSE
  /\ result = 0
  /\ exited = FALSE
  /\ reports = {}

-----------------------------------------------------------------------------
clockEdge == mainTime % (CLOCK_PERIOD \div 2) = 0

risingEdge == clockEdge /\ ~clk

ResetTime == mainTime >= RESET_PERIODS * CLOCK_PERIOD

LimitReached == mainTime >= MAX_CYCLES * CLOCK_PERIOD

(* A turn that is skipped between the edges, its last statement too.         *)
AdvanceAtEdges ==
  /\ ~isDone
  /\ clockEdge
  /\ clk' = ~clk
  /\ reset' = IF ResetTime THEN FALSE ELSE reset
  /\ mainTime' = (mainTime + 1) % 2^TIME_BITS
  /\ UNCHANGED exited

(* What every turn does.                                                     *)
Advance ==
  /\ ~isDone
  /\ clk' = IF clockEdge THEN ~clk ELSE clk
  /\ reset' = IF ResetTime THEN FALSE ELSE reset
  /\ mainTime' = (mainTime + 1) % 2^TIME_BITS
  /\ UNCHANGED exited

QuietTurn ==
  /\ ~risingEdge
  /\ Advance
  /\ UNCHANGED <<cycle, endVars>>

(* TestDev keeps the unsigned payload in an int, and -1 stands for no result *)
Signed(payload) ==
  IF payload < 2^(RESULT_BITS - 1) THEN payload ELSE payload - 2^RESULT_BITS

gotResult(r) == r >= 0

FailedOrNone(r) == r # 0

hasFailed(r) == gotResult(r) /\ r # 0

(* charOut and testDev are what the core puts on the two ports, <<>> when    *)
(* valid is low.                                                             *)
CharDevEval(charOut) ==
  /\ gotEot_' = IF charOut = <<>> THEN gotEot_ ELSE charOut = <<EOT>>
  /\ cout' = IF charOut = <<EOT>> THEN cout ELSE cout \o charOut

TestDevEval(testDev) ==
  /\ result_' = IF testDev = <<>> THEN result_ ELSE Signed(testDev[1])
  /\ reports' = IF testDev = <<>> THEN reports ELSE reports \cup {testDev[1]}

(* In reset the core puts nothing on its ports.                              *)
CycleTurn(charOut, testDev) ==
  /\ risingEdge
  /\ Advance
  /\ reset' => charOut = <<>> /\ testDev = <<>>
  /\ cycle' = (cycle + 1) % 2^TIME_BITS
  /\ CharDevEval(charOut)
  /\ TestDevEval(testDev)
  /\ isDone' = (gotEot_' \/ gotResult(result_') \/ LimitReached)
  /\ result' = IF hasFailed(result_') \/ LimitReached THEN 1 ELSE result

handle_sigint ==
  /\ ~exited
  /\ isDone' = TRUE
  /\ UNCHANGED <<mainTime, cycle, clk, reset, gotEot_, cout, result_, result,
                 exited, reports>>

Exit ==
  /\ isDone
  /\ ~exited
  /\ exited' = TRUE
  /\ UNCHANGED <<mainTime, cycle, clk, reset, endVars>>

-----------------------------------------------------------------------------
(* Every variable has its type.                                              *)
TypeOK ==
  /\ {mainTime, cycle} \subseteq 0 .. 2^TIME_BITS - 1
  /\ {clk, reset, gotEot_, isDone, exited} \subseteq BOOLEAN
  /\ cout \in Seq(Char)
  /\ result_ \in -(2^(RESULT_BITS - 1)) .. 2^(RESULT_BITS - 1) - 1
  /\ result \in {0, 1}
  /\ reports \subseteq Payload

Positive == 1 .. 2^(RESULT_BITS - 1) - 1

(* The exit code is 1 exactly when the core has reported a failure or the    *)
(* limit was reached; a payload with its top bit set is no report.  EOT and  *)
(* SIGINT do not undo a failure of the same cycle.                           *)
ExitStatus ==
  exited => (result = 1 <=> reports \cap Positive # {} \/ cycle > MAX_CYCLES)
=============================================================================
