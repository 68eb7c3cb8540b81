------------------------------ MODULE Waveform ------------------------------
(***************************************************************************)
(* The waveform-analysis package: class CPUWaveform of signal_extractor.py  *)
(* reads what the testbench has traced, compare_signals compares two runs   *)
(* for check_correctness.py and check_security.py, get_high_rate serves     *)
(* profile.py.  Two runs of a core are traced here cycle by cycle, as the   *)
(* main loop of simulation/main.cpp does: the core's signals change with    *)
(* the rising edge, and the trace holds the changes alone.                  *)
(***************************************************************************)
EXTENDS Integers, Sequences, FiniteSets, SequencesExt

CONSTANTS
  CLOCK_PERIOD,  (* of the traced clock, 10 in the testbench                *)
  Value,         (* values of the signals other than active, 0 included     *)
  MaxCycles      (* bound: cycles of a run                                  *)

ASSUME WaveformAssumption ==
  /\ CLOCK_PERIOD \in Nat /\ CLOCK_PERIOD >= 2 /\ CLOCK_PERIOD % 2 = 0
  /\ 0 \in Value
  /\ MaxCycles \in Nat

(* The signals of the interface that matter here: does an instruction        *)
(* retire, and one that stands for what is known of it.                      *)
active == "arbitration_isDone"
pc == "in_PC"
Signal == {active, pc}

Run == {"first", "second"}

VARIABLES
  cycles,  (* history: the signals before the first edge and in each cycle  *)
  changes  (* the trace: for each signal the times and values of changes    *)

vars == <<cycles, changes>>

State == {s \in [Signal -> Value \cup {0, 1}] :
            s[active] \in {0, 1} /\ s[pc] \in Value}

(* What the trace shows before the first edge is arbitrary, and sampled like *)
(* a cycle of its own.                                                       *)
Init ==
  \E start \in [Run -> State] :
    /\ cycles = [run \in Run |-> <<start[run]>>]
    /\ changes = [run \in Run |-> [s \in Signal |-> <<[t |-> 0, v |-> start[run][s]]>>]]

(* The rising edges are in the middle of a period, see SimLoop.              *)
EdgeTime(n) == CLOCK_PERIOD * (n - 1) + CLOCK_PERIOD \div 2

Edges(run) == Len(cycles[run]) - 1

Cycle(run, state) ==
  /\ Edges(run) < MaxCycles
  /\ cycles' = [cycles EXCEPT ![run] = Append(@, state)]
  /\ changes' = [changes EXCEPT ![run] =
       [s \in Signal |->
         IF state[s] = Last(@[s]).v THEN @[s]
         ELSE Append(@[s], [t |-> EdgeTime(Edges(run) + 1), v |-> state[s]])]]

Next == \E run \in Run, state \in State : Cycle(run, state)

Spec == Init /\ [][Next]_vars

-----------------------------------------------------------------------------
(* CPUWaveform, for a trace of at least two rising edges: the constructor    *)
(* takes the period from the first two.                                      *)
Readable(run) == Edges(run) >= 2

max_clock(run) == EdgeTime(Edges(run))

clock_count(run) == max_clock(run) \div CLOCK_PERIOD

value_at_time(run, s, t) ==
  LET all == changes[run][s]
      before == {k \in DOMAIN all : all[k].t <= t}
  IN  all[CHOOSE k \in before : \A j \in before : j <= k].v

(* range(0, max_clock + clock_period, clock_period)                          *)
SampleTimesToLastEdge(run) ==
  [k \in 1 .. (max_clock(run) \div CLOCK_PERIOD) + 1 |-> CLOCK_PERIOD * (k - 1)]

SampleTimes(run) ==
  LET stop == max_clock(run) + CLOCK_PERIOD
  IN  [k \in 1 .. (stop + CLOCK_PERIOD - 1) \div CLOCK_PERIOD |-> CLOCK_PERIOD * (k - 1)]

StateAt(run, signals, t) == [s \in signals |-> value_at_time(run, s, t)]

get_signals_per_clk(run, signals) ==
  [k \in DOMAIN SampleTimes(run) |-> StateAt(run, signals, SampleTimes(run)[k])]

(* A state is kept if an instruction retires and it differs from the last.   *)
KeepAnyActive(run, signals, seq, t) ==
  IF value_at_time(run, active, t) = 0 THEN seq
  ELSE Append(seq, StateAt(run, signals, t))

KeepIdle(run, signals, seq, t) ==
  LET new_state == StateAt(run, signals, t)
  IN  IF seq # <<>> /\ new_state = Last(seq) THEN seq ELSE Append(seq, new_state)

Keep(run, signals, seq, t) ==
  LET new_state == StateAt(run, signals, t)
  IN  IF value_at_time(run, active, t) = 0 \/ (seq # <<>> /\ new_state = Last(seq))
      THEN seq
      ELSE Append(seq, new_state)

get_signals_per_change(run, signals) ==
  LET times == SampleTimes(run)
      seq[k \in 0 .. Len(times)] ==
        IF k = 0 THEN <<>> ELSE Keep(run, signals, seq[k - 1], times[k])
  IN  seq[Len(times)]

get_last_value(run, s) == value_at_time(run, s, max_clock(run))

(* An interval is counted when the signal falls, and not if the change       *)
(* before was at time 0.                                                     *)
CountsAnyFall(previous, change) == change.v = 0

CountsAsHigh(previous, change) == change.v = 0 /\ previous.t # 0

HighCount(run, s) ==
  LET all == changes[run][s]
      count[k \in 0 .. Len(all)] ==
        IF k = 0 THEN 0
        ELSE IF k > 1 /\ CountsAsHigh(all[k - 1], all[k])
        THEN count[k - 1] + (all[k].t - all[k - 1].t) \div CLOCK_PERIOD
        ELSE count[k - 1]
  IN  count[Len(all)]

-----------------------------------------------------------------------------
(* compare_signals                                                           *)
Extracted(run, signals, timing_sensitive) ==
  IF timing_sensitive THEN get_signals_per_clk(run, signals)
                      ELSE get_signals_per_change(run, signals)

compare_signals(signals, timing_sensitive) ==
  Extracted("first", signals, timing_sensitive)
    = Extracted("second", signals, timing_sensitive)

(* With display_diff the first list is walked, and the second indexed.       *)
ForgetsMismatch(mine, other, early_out) ==
  LET differ == {k \in DOMAIN mine : k \in DOMAIN other /\ mine[k] # other[k]}
  IN  IF early_out /\ differ # {} THEN "False"
      ELSE IF Len(mine) > Len(other) THEN "IndexError"
      ELSE "True"

Walk(mine, other, early_out) ==
  LET differ == {k \in DOMAIN mine : k \in DOMAIN other /\ mine[k] # other[k]}
  IN  IF early_out /\ differ # {} THEN "False"
      ELSE IF Len(mine) > Len(other) THEN "IndexError"
      ELSE IF differ # {} THEN "False" ELSE "True"

compare_display_diff(signals, timing_sensitive, early_out) ==
  Walk(Extracted("first", signals, timing_sensitive),
       Extracted("second", signals, timing_sensitive), early_out)

(* check_security.py compares the signals of its policy, without timing.     *)
secure_for_all_inputs(policy_signals) == compare_signals(policy_signals, FALSE)

-----------------------------------------------------------------------------
BothReadable == Readable("first") /\ Readable("second")

(* Sampling once a period from time 0 sees every cycle exactly once, the     *)
(* last one included, although the edges are in the middle of the period.    *)
SamplesAreCycles ==
  \A run \in Run : Readable(run) =>
    /\ get_signals_per_clk(run, Signal) = cycles[run]
    /\ \A s \in Signal : get_last_value(run, s) = Last(cycles[run])[s]

Retires(run, k) == cycles[run][k][active] = 1

(* The cycles whose instruction differs from the one retired before it.      *)
Shown(run) ==
  {k \in DOMAIN cycles[run] :
     /\ Retires(run, k)
     /\ \A j \in 1 .. k - 1 :
          Retires(run, j) /\ (\A n \in j + 1 .. k - 1 : ~Retires(run, n))
            => cycles[run][j] # cycles[run][k]}

(* "every time any of them changes": what get_signals_per_change returns is  *)
(* the sequence of retired instructions, except that equal neighbours are    *)
(* one, however many cycles without retirement lie between them: `at' gives  *)
(* the cycle of each element.                                                *)
ChangesAreRetirements ==
  \A run \in Run : Readable(run) =>
    LET seq == get_signals_per_change(run, Signal)
    IN  \E at \in [DOMAIN seq -> Shown(run)] :
          /\ \A m, n \in DOMAIN seq : m < n => at[m] < at[n]
          /\ \A k \in Shown(run) : \E n \in DOMAIN seq : at[n] = k
          /\ \A n \in DOMAIN seq : seq[n] = cycles[run][at[n]]

Retired(run) ==
  LET retired[k \in 0 .. Len(cycles[run])] ==
        IF k = 0 THEN <<>>
        ELSE IF Retires(run, k) THEN Append(retired[k - 1], cycles[run][k])
        ELSE retired[k - 1]
  IN  retired[Len(cycles[run])]

(* What check_correctness.py says of two runs.  They match if they retire    *)
(* the same instructions, however long each of them waits in between; with   *)
(* --timing, if and only if they are the same in every cycle.  Of runs that  *)
(* match --diff says so too, and of lists of one length that do not match it *)
(* reports a mismatch, with and without --full_diff.                         *)
ComparisonVerdict ==
  BothReadable =>
    /\ Retired("first") = Retired("second") => compare_signals(Signal, FALSE)
    /\ compare_signals(Signal, TRUE) <=> cycles["first"] = cycles["second"]
    /\ \A timing \in BOOLEAN, early_out \in BOOLEAN :
         LET mine == Extracted("first", Signal, timing)
             other == Extracted("second", Signal, timing)
             match == compare_signals(Signal, timing)
             verdict == compare_display_diff(Signal, timing, early_out)
         IN  /\ match => verdict = "True"
             /\ ~ match /\ Len(mine) = Len(other) => verdict = "False"

(* get_high_rate counts the cycles in which the signal is high, except those *)
(* before its first and after its last low cycle if the trace starts or ends *)
(* there, so the rate is at most 1 and too low at both ends.                 *)
HighRate ==
  \A run \in Run : Readable(run) =>
    LET low == {k \in DOMAIN cycles[run] : cycles[run][k][active] = 0}
        inside == {k \in DOMAIN cycles[run] :
                     /\ k \notin low
                     /\ \E j \in low : j < k
                     /\ \E j \in low : j > k}
    IN  /\ HighCount(run, active) = Cardinality(inside)
        /\ HighCount(run, active) <= clock_count(run)

(* noninterference-testing/README.md:5: "observable microarchitectural       *)
(* components (e.g. execution time, ...) remain identical across two runs".  *)
(* Two runs of one program, which retire the same instructions and end with  *)
(* one, pass the check of check_security.py only if they take the same time. *)
EqualSignalsEqualTime ==
  /\ BothReadable
  /\ Retired("first") = Retired("second")
  /\ \A run \in Run : Last(cycles[run])[active] = 1
  /\ secure_for_all_inputs(Signal)
  => max_clock("first") = max_clock("second")

(* waveform-analysis/README.md:8: waveform-correctness is to "check the      *)
(* equivalence of architectural signals between two waveforms", and --diff   *)
(* to "Display diverging signals" (check_correctness.py:28): it says that    *)
(* two runs match if and only if the comparison without it does.             *)
DiffIsEquivalence ==
  BothReadable =>
    \A timing \in BOOLEAN, early_out \in BOOLEAN :
      compare_display_diff(Signal, timing, early_out) = "True"
        <=> compare_signals(Signal, timing)
=============================================================================
