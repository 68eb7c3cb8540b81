----------------------------- MODULE PerfCounter -----------------------------
(***************************************************************************)
(* performance.c: rdcycle reads the 64-bit cycle counter, which counts on,  *)
(* at once on RV64 and in two halves on RV32, and sleep polls it.  Half is  *)
(* the number of values of a 32-bit register.  Every instruction takes one  *)
(* to MaxDelay cycles, an interrupt in between included.  rdinstret is      *)
(* rdcycle with another counter, which goes on by one to MaxDelay, too.     *)
(***************************************************************************)
EXTENDS Integers

CONSTANTS
  Half,      (* values of a 32-bit register                                 *)
  MaxDelay,  (* bound: cycles between two instructions                      *)
  MaxStart,  (* bound: the last cycle at which the program calls            *)
  SleepTime  (* the arguments of sleep                                      *)

ASSUME PerfAssumption ==
  /\ Half \in Nat \ {0}
  /\ MaxDelay \in Nat \ {0}
  /\ MaxStart \in Nat
  /\ SleepTime \subseteq Nat

VARIABLES
  xlen,                                 (* of the build, 32 or 64           *)
  cycle,                                (* the hart's counter               *)
  label,
  caller,                               (* who called rdcycle               *)
  rdcycleh, rdcycle, rdcycleh_check,    (* the locals of rdcycle            *)
  cycles,                               (* what rdcycle returned            *)
  sleep_time, end_time,                 (* the argument and local of sleep  *)
  called,                               (* history: cycle at rdcycle's call *)
  slept                                 (* history: cycle at sleep's call   *)

localVars == <<rdcycleh, rdcycle, rdcycleh_check>>
sleepVars == <<sleep_time, end_time, slept>>
perfVars == <<xlen, cycle, label, caller, rdcycleh, rdcycle, rdcycleh_check, cycles,
          sleep_time, end_time, called, slept>>

HighOf(c) == c \div Half

LowOf(c) == c % Half

(* The counter goes on while an instruction executes.                        *)
Advance ==
  /\ cycle' \in cycle + 1 .. cycle + MaxDelay
  /\ cycle' < Half * Half
  /\ UNCHANGED xlen

PerfInit ==
  /\ xlen \in {32, 64}
  /\ cycle = 0
  /\ label = "main"
  /\ caller = "main"
  /\ rdcycleh = 0
  /\ rdcycle = 0
  /\ rdcycleh_check = 0
  /\ cycles = 0
  /\ sleep_time = 0
  /\ end_time = 0
  /\ called = 0
  /\ slept = 0

-----------------------------------------------------------------------------
CallRdcycle(from) ==
  /\ label' = "rdcycleh"
  /\ caller' = from
  /\ called' = cycle
  /\ UNCHANGED <<localVars, cycles>>

(* rdcycle of RV64.                                                          *)
ReadCounter ==
  /\ label = "rdcycleh"
  /\ xlen = 64
  /\ Advance
  /\ cycles' = cycle
  /\ label' = caller
  /\ UNCHANGED <<caller, localVars, sleepVars, called>>

(* rdcycle of RV32: high half, low half, high half again, until they agree.  *)
ReadHigh ==
  /\ label = "rdcycleh"
  /\ xlen = 32
  /\ Advance
  /\ rdcycleh' = HighOf(cycle)
  /\ label' = "rdcycle"
  /\ UNCHANGED <<caller, rdcycle, rdcycleh_check, cycles, sleepVars, called>>

ReadLow ==
  /\ label = "rdcycle"
  /\ Advance
  /\ rdcycle' = LowOf(cycle)
  /\ label' = "rdcycleh_check"
  /\ UNCHANGED <<caller, rdcycleh, rdcycleh_check, cycles, sleepVars, called>>

ReadHighAgain ==
  /\ label = "rdcycleh_check"
  /\ Advance
  /\ rdcycleh_check' = HighOf(cycle)
  /\ label' = "while"
  /\ UNCHANGED <<caller, rdcycleh, rdcycle, cycles, sleepVars, called>>

Retry ==
  /\ label = "while"
  /\ rdcycleh # rdcycleh_check
  /\ Advance
  /\ label' = "rdcycleh"
  /\ UNCHANGED <<caller, localVars, cycles, sleepVars, called>>

ReturnUnchecked ==
  /\ label = "while"
  /\ Advance
  /\ cycles' = rdcycleh * Half + rdcycle
  /\ label' = caller
  /\ UNCHANGED <<caller, localVars, sleepVars, called>>

Return ==
  /\ label = "while"
  /\ rdcycleh = rdcycleh_check
  /\ Advance
  /\ cycles' = rdcycleh * Half + rdcycle
  /\ label' = caller
  /\ UNCHANGED <<caller, localVars, sleepVars, called>>

-----------------------------------------------------------------------------
(* The program calls rdcycle, or sleep.                                      *)
ProgramCallsRdcycle ==
  /\ label = "main"
  /\ cycle <= MaxStart
  /\ Advance
  /\ CallRdcycle("main")
  /\ UNCHANGED sleepVars

sleep(n) ==
  /\ label = "main"
  /\ cycle <= MaxStart
  /\ Advance
  /\ CallRdcycle("end_time")
  /\ sleep_time' = n
  /\ slept' = cycle
  /\ UNCHANGED end_time

(* end_time is a uint64_t.                                                   *)
SetEndTime ==
  /\ label = "end_time"
  /\ Advance
  /\ end_time' = (cycles + sleep_time) % (Half * Half)
  /\ CallRdcycle("current_time")
  /\ UNCHANGED <<sleep_time, slept>>

PollsStaleTime ==
  /\ label = "current_time"
  /\ cycles < end_time
  /\ Advance
  /\ UNCHANGED <<label, caller, localVars, cycles, sleepVars, called>>

Poll ==
  /\ label = "current_time"
  /\ cycles < end_time
  /\ Advance
  /\ CallRdcycle("current_time")
  /\ UNCHANGED sleepVars

SleepReturnsAnyTime ==
  /\ label = "current_time"
  /\ Advance
  /\ label' = "main"
  /\ UNCHANGED <<caller, localVars, cycles, sleepVars, called>>

SleepReturns ==
  /\ label = "current_time"
  /\ cycles >= end_time
  /\ Advance
  /\ label' = "main"
  /\ UNCHANGED <<caller, localVars, cycles, sleepVars, called>>

-----------------------------------------------------------------------------
Rdcycle == ReadCounter \/ ReadHigh \/ ReadLow \/ ReadHighAgain \/ Retry \/ Return

Sleep ==
  \/ \E n \in SleepTime : sleep(n)
  \/ SetEndTime \/ Poll \/ SleepReturns

PerfNext == Rdcycle \/ ProgramCallsRdcycle \/ Sleep

PerfSpec == PerfInit /\ [][PerfNext]_perfVars

(* The hart executes what it has begun.                                      *)
PerfFairness == WF_perfVars(Rdcycle \/ SetEndTime \/ Poll \/ SleepReturns)

-----------------------------------------------------------------------------
(* Every variable has its type: the registers hold a half each, the uint64_t *)
(* both.                                                                     *)
PerfTypeOK ==
  /\ xlen \in {32, 64}
  /\ {rdcycle, rdcycleh, rdcycleh_check} \subseteq 0 .. Half - 1
  /\ {cycle, end_time, cycles} \subseteq 0 .. Half * Half - 1
  /\ {sleep_time, called, slept} \subseteq Nat
  /\ label \in {"main", "rdcycleh", "rdcycle", "rdcycleh_check", "while",
             "end_time", "current_time"}
  /\ caller \in {"main", "end_time", "current_time"}

(* rdcycle returns a value the 64-bit counter had during the call, although  *)
(* its halves are read at different times and the low one may wrap between.  *)
RdcycleIsAtomic ==
  label = caller => called <= cycles /\ cycles <= cycle

(* sleep(n) does not return earlier than n cycles after its call, unless     *)
(* end_time wraps around in its 64 bits.                                     *)
SleepsLongEnough ==
  [][label = "current_time" /\ label' = "main" /\ end_time >= sleep_time
       => cycle >= slept + sleep_time]_perfVars

(* The cycles of a poll: two turns of rdcycle's loop, call and test.         *)
PollTime == 10 * MaxDelay

(* sleep ends if the counter gets past its end_time and the poll after it.   *)
SleepEnds ==
  (label = "end_time" /\ cycles + sleep_time + 2 * PollTime < Half * Half)
    ~> (label = "main")
=============================================================================
