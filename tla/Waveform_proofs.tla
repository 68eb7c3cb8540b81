--------------------------- MODULE Waveform_proofs ---------------------------
(***************************************************************************)
(* Proofs about Waveform and StrippedWaveform, for every clock period, any  *)
(* values and runs of any length, any header and interface.  Everything     *)
(* follows from what a trace has recorded of the cycles of its run; the     *)
(* loops of the scripts are inductions over their passes.                   *)
(***************************************************************************)
EXTENDS StrippedWaveform, SequenceTheorems, FiniteSetTheorems, Induction, TLAPS

(* The time of cycle k's changes; cycle 1 is what is before the first edge.  *)
TimeOfCycle(k) == IF k = 1 THEN 0 ELSE EdgeTime(k - 1)

Bit == Value \cup {0, 1}

Record == [t : Nat, v : Bit]

(* all lists the changes of signal s in the cycles c: at[j] is the cycle of  *)
(* its j-th change, and the signal keeps its value up to the next one.       *)
Placed(c, all, s, at) ==
  /\ at[1] = 1
  /\ \A j \in 1 .. Len(all) : all[j] = [t |-> TimeOfCycle(at[j]), v |-> c[at[j]][s]]
  /\ \A j \in 1 .. Len(all) - 1 :
       /\ at[j] < at[j + 1]
       /\ all[j].v # all[j + 1].v
       /\ \A k \in at[j] .. at[j + 1] - 1 : c[k][s] = all[j].v
  /\ \A k \in at[Len(all)] .. Len(c) : c[k][s] = all[Len(all)].v

Records(c, all, s) ==
  /\ c \in Seq(State) /\ c # <<>>
  /\ all \in Seq(Record) /\ all # <<>>
  /\ \E at \in [1 .. Len(all) -> 1 .. Len(c)] : Placed(c, all, s, at)

WInv ==
  /\ cycles \in [Run -> Seq(State)]
  /\ changes \in [Run -> [Signal -> Seq(Record)]]
  /\ \A run \in Run, s \in Signal : Records(cycles[run], changes[run][s], s)

-----------------------------------------------------------------------------
(* Times of edges and samples.                                               *)
LEMMA Multiples ==
  ASSUME NEW m \in Int, NEW n \in Int, m < n
  PROVE  /\ CLOCK_PERIOD * m \in Int
         /\ CLOCK_PERIOD * n \in Int
         /\ CLOCK_PERIOD * m + CLOCK_PERIOD <= CLOCK_PERIOD * n
<1>1. CLOCK_PERIOD \in Nat
  BY WaveformAssumption
<1>2. CLOCK_PERIOD * (n - m - 1) >= 0
  <2>1. n - m - 1 \in Nat
    OBVIOUS
  <2> QED
    BY <1>1, <2>1
<1> QED
  BY <1>1, <1>2

LEMMA Quotient ==
  ASSUME NEW q \in Nat, NEW r \in 0 .. CLOCK_PERIOD - 1
  PROVE  (CLOCK_PERIOD * q + r) \div CLOCK_PERIOD = q
<1>1. CLOCK_PERIOD \in Nat /\ CLOCK_PERIOD > 0
  BY WaveformAssumption
<1>2. PICK x : x = CLOCK_PERIOD * q + r
  OBVIOUS
<1>3. x \in Int /\ x \div CLOCK_PERIOD \in Int
  BY <1>1, <1>2
<1>4. PICK p \in Int : p = x \div CLOCK_PERIOD
  BY <1>3
<1>5. CLOCK_PERIOD * p <= x /\ x < CLOCK_PERIOD * p + CLOCK_PERIOD
  BY <1>1, <1>3, <1>4, Z3
<1>6. ~(p < q)
  BY <1>1, <1>2, <1>3, <1>5, Multiples
<1>7. ~(q < p)
  BY <1>1, <1>2, <1>3, <1>5, Multiples
<1> QED
  BY <1>2, <1>4, <1>6, <1>7

LEMMA HalfPeriod ==
  /\ CLOCK_PERIOD \div 2 \in 1 .. CLOCK_PERIOD - 1
  /\ CLOCK_PERIOD = 2 * (CLOCK_PERIOD \div 2)
BY WaveformAssumption

LEMMA EdgeTimes ==
  ASSUME NEW n \in Nat \ {0}
  PROVE  /\ EdgeTime(n) \in Nat \ {0}
         /\ EdgeTime(n) \div CLOCK_PERIOD = n - 1
<1>1. CLOCK_PERIOD * (n - 1) \in Nat
  BY WaveformAssumption
<1> QED
  BY <1>1, HalfPeriod, Quotient DEF EdgeTime

(* The changes a reader sees at sample k are those of cycle k and before,    *)
(* and at the last edge those of all cycles.                                 *)
LEMMA SeenAtSample ==
  ASSUME NEW j \in Nat \ {0}, NEW k \in Nat \ {0}
  PROVE  /\ TimeOfCycle(j) \in Nat
         /\ TimeOfCycle(j) <= CLOCK_PERIOD * (k - 1) <=> j <= k
         /\ k > 1 => (TimeOfCycle(j) <= EdgeTime(k - 1) <=> j <= k)
<1>1. CLOCK_PERIOD * (k - 1) \in Nat /\ CLOCK_PERIOD * (k - 2) \in Int
  BY WaveformAssumption
<1>2. CASE j = 1
  BY <1>1, <1>2, EdgeTimes DEF TimeOfCycle
<1>3. CASE j > 1
  <2>1. /\ TimeOfCycle(j) = CLOCK_PERIOD * (j - 2) + CLOCK_PERIOD \div 2
        /\ TimeOfCycle(j) \in Nat
        /\ CLOCK_PERIOD * (j - 2) \in Nat
    BY <1>3, EdgeTimes, WaveformAssumption DEF TimeOfCycle, EdgeTime
  <2>2. EdgeTime(k - 1) = CLOCK_PERIOD * (k - 2) + CLOCK_PERIOD \div 2
    BY DEF EdgeTime
  <2>3. j <= k => CLOCK_PERIOD * (j - 2) + CLOCK_PERIOD <= CLOCK_PERIOD * (k - 1)
    BY Multiples
  <2>4. k < j => CLOCK_PERIOD * (k - 1) <= CLOCK_PERIOD * (j - 2)
    <3>1. k - 1 = j - 2 \/ k < j => k - 1 = j - 2 \/ k - 1 < j - 2
      OBVIOUS
    <3> QED
      BY <3>1, Multiples, <1>1, <2>1, WaveformAssumption
  <2>5. j < k => CLOCK_PERIOD * (j - 2) + CLOCK_PERIOD <= CLOCK_PERIOD * (k - 2)
    BY Multiples
  <2>6. k < j => CLOCK_PERIOD * (k - 2) + CLOCK_PERIOD <= CLOCK_PERIOD * (j - 2)
    BY Multiples
  <2> QED
    BY <1>1, <2>1, <2>2, <2>3, <2>4, <2>5, <2>6, HalfPeriod, WaveformAssumption
<1> QED
  BY <1>2, <1>3

-----------------------------------------------------------------------------
LEMMA Between ==
  ASSUME NEW last \in Nat, NEW m \in 1 .. last, NEW n \in 1 .. last
  PROVE  \A k \in m .. n - 1 : k \in 1 .. last
OBVIOUS

LEMMA SignalTypes ==
  ASSUME NEW state \in State, NEW s \in Signal
  PROVE  state[s] \in Bit
BY DEF State, Signal, Bit

(* A trace begins with one change of each signal.                            *)
LEMMA FirstChange ==
  ASSUME NEW state \in State, NEW s \in Signal
  PROVE  /\ <<[t |-> 0, v |-> state[s]]>> \in Seq(Record)
         /\ Records(<<state>>, <<[t |-> 0, v |-> state[s]]>>, s)
<1>1. PICK c, all : c = <<state>> /\ all = <<[t |-> 0, v |-> state[s]]>>
  OBVIOUS
<1>2. /\ c \in Seq(State) /\ Len(c) = 1 /\ c[1] = state
      /\ all \in Seq(Record) /\ Len(all) = 1 /\ all[1] = [t |-> 0, v |-> state[s]]
  BY <1>1, SignalTypes DEF Record
<1>3. PICK at : at = [j \in 1 .. 1 |-> 1]
  OBVIOUS
<1>4. at \in [1 .. Len(all) -> 1 .. Len(c)] /\ at[1] = 1
  BY <1>2, <1>3
<1>5. \A j \in 1 .. Len(all) : all[j] = [t |-> TimeOfCycle(at[j]), v |-> c[at[j]][s]]
  BY <1>2, <1>4 DEF TimeOfCycle
<1>6. \A k \in at[Len(all)] .. Len(c) : c[k][s] = all[Len(all)].v
  BY <1>2, <1>4
<1>7. Placed(c, all, s, at)
  <2>1. \A j \in 1 .. Len(all) - 1 : FALSE
    BY <1>2
  <2> QED
    BY <1>4, <1>5, <1>6, <2>1, Zenon DEF Placed
<1>8. c # <<>> /\ all # <<>>
  BY <1>2, SMTT(20)
<1>9. Records(c, all, s)
  BY <1>2, <1>4, <1>7, <1>8, Zenon DEF Records
<1> QED
  BY <1>1, <1>2, <1>9

(* A cycle adds a change for a signal whose value is another one.            *)
LEMMA NextChange ==
  ASSUME NEW c, NEW all, NEW s \in Signal, NEW state \in State, Records(c, all, s),
         NEW more, more = IF state[s] = Last(all).v THEN all
                          ELSE Append(all, [t |-> EdgeTime(Len(c)), v |-> state[s]])
  PROVE  more \in Seq(Record) /\ Records(Append(c, state), more, s)
<1>1. PICK at \in [1 .. Len(all) -> 1 .. Len(c)] : Placed(c, all, s, at)
  BY Zenon DEF Records
<1>2. /\ c \in Seq(State) /\ Len(c) \in Nat \ {0}
      /\ all \in Seq(Record) /\ Len(all) \in Nat \ {0}
  BY DEF Records
<1>3. PICK d : d = Append(c, state)
  OBVIOUS
<1>4. /\ d \in Seq(State) /\ Len(d) = Len(c) + 1 /\ d[Len(d)] = state
      /\ \A k \in 1 .. Len(c) : d[k] = c[k]
  BY <1>2, <1>3
<1>5. CASE state[s] = Last(all).v
  <2>1. more = all
    BY <1>5
  <2>2. at \in [1 .. Len(all) -> 1 .. Len(d)]
    BY <1>2, <1>4
  <2>3. \A j \in 1 .. Len(all) : all[j] = [t |-> TimeOfCycle(at[j]), v |-> d[at[j]][s]]
    BY <1>1, <1>2, <1>4 DEF Placed
  <2>4. \A j \in 1 .. Len(all) - 1 :
          /\ at[j] < at[j + 1]
          /\ all[j].v # all[j + 1].v
          /\ \A k \in at[j] .. at[j + 1] - 1 : d[k][s] = all[j].v
    <3> TAKE j \in 1 .. Len(all) - 1
    <3>1. j \in 1 .. Len(all) /\ j + 1 \in 1 .. Len(all)
      BY <1>2
    <3>2. at[j] \in 1 .. Len(c) /\ at[j + 1] \in 1 .. Len(c)
      BY <3>1
    <3>3. \A k \in at[j] .. at[j + 1] - 1 : d[k] = c[k]
      BY <3>2, <1>2, <1>4, Between
    <3>4. /\ at[j] < at[j + 1] /\ all[j].v # all[j + 1].v
          /\ \A k \in at[j] .. at[j + 1] - 1 : c[k][s] = all[j].v
      BY <1>1 DEF Placed
    <3> QED
      BY <3>3, <3>4
  <2>5. \A k \in at[Len(all)] .. Len(d) : d[k][s] = all[Len(all)].v
    <3> TAKE k \in at[Len(all)] .. Len(d)
    <3>1. at[Len(all)] \in 1 .. Len(c)
      BY <1>2
    <3>2. CASE k = Len(d)
      BY <3>2, <1>4, <1>5 DEF Last
    <3>3. CASE k \in at[Len(all)] .. Len(c)
      <4>1. k \in 1 .. Len(c)
        BY <3>1, <3>3, <1>2
      <4>2. c[k][s] = all[Len(all)].v
        BY <3>3, <1>1 DEF Placed
      <4> QED
        BY <4>1, <4>2, <1>4
    <3> QED
      BY <3>1, <3>2, <3>3, <1>2, <1>4
  <2>6. Placed(d, all, s, at)
    BY <1>1, <2>3, <2>4, <2>5, Zenon DEF Placed
  <2>7. d # <<>> /\ all # <<>>
    BY <1>2, <1>4
  <2>8. Records(d, all, s)
    BY <1>2, <1>4, <2>2, <2>6, <2>7, Zenon DEF Records
  <2> QED
    BY <1>2, <1>3, <2>1, <2>8
<1>6. CASE state[s] # Last(all).v
  <2>1. PICK new : new = [t |-> EdgeTime(Len(c)), v |-> state[s]]
    OBVIOUS
  <2>2. new = [t |-> TimeOfCycle(Len(d)), v |-> d[Len(d)][s]] /\ new \in Record
    BY <1>2, <1>4, <2>1, EdgeTimes, SignalTypes DEF TimeOfCycle, Record
  <2>3. /\ more \in Seq(Record) /\ Len(more) = Len(all) + 1 /\ more[Len(more)] = new
        /\ \A j \in 1 .. Len(all) : more[j] = all[j]
    BY <1>2, <1>6, <2>1, <2>2
  <2>4. PICK place : place = [j \in 1 .. Len(more) |-> IF j <= Len(all) THEN at[j] ELSE Len(d)]
    OBVIOUS
  <2>5. /\ place \in [1 .. Len(more) -> 1 .. Len(d)]
        /\ \A j \in 1 .. Len(all) : place[j] = at[j]
        /\ place[Len(more)] = Len(d)
    BY <1>2, <1>4, <2>3, <2>4
  <2>6. place[1] = 1
    BY <1>1, <1>2, <2>5 DEF Placed
  <2>7. \A j \in 1 .. Len(more) : more[j] = [t |-> TimeOfCycle(place[j]), v |-> d[place[j]][s]]
    <3> TAKE j \in 1 .. Len(more)
    <3>1. CASE j = Len(more)
      BY <3>1, <2>2, <2>3, <2>5
    <3>2. CASE j \in 1 .. Len(all)
      <4>1. /\ all[j] = [t |-> TimeOfCycle(at[j]), v |-> c[at[j]][s]]
            /\ more[j] = all[j] /\ place[j] = at[j] /\ d[at[j]] = c[at[j]]
        BY <3>2, <1>1, <1>4, <2>3, <2>5 DEF Placed
      <4> QED
        BY <4>1
    <3> QED
      BY <3>1, <3>2, <1>2, <2>3
  <2>8. \A j \in 1 .. Len(more) - 1 :
          /\ place[j] < place[j + 1]
          /\ more[j].v # more[j + 1].v
          /\ \A k \in place[j] .. place[j + 1] - 1 : d[k][s] = more[j].v
    <3> TAKE j \in 1 .. Len(more) - 1
    <3>1. CASE j = Len(all)
      <4>1. /\ place[j] = at[j] /\ place[j + 1] = Len(d) /\ at[j] \in 1 .. Len(c)
            /\ more[j] = all[j] /\ more[j + 1] = new
        BY <3>1, <1>1, <1>2, <2>3, <2>5 DEF Placed
      <4>2. new.v = state[s] /\ all[j].v = Last(all).v
        BY <3>1, <2>1 DEF Last
      <4>3. \A k \in at[j] .. Len(c) : d[k][s] = all[j].v
        <5> TAKE k \in at[j] .. Len(c)
        <5>1. k \in 1 .. Len(c)
          BY <4>1, <1>2
        <5>2. c[k][s] = all[j].v
          BY <3>1, <1>1 DEF Placed
        <5> QED
          BY <5>1, <5>2, <1>4
      <4>4. place[j] < place[j + 1] /\ place[j + 1] - 1 = Len(c)
        BY <4>1, <1>2, <1>4
      <4>5. more[j].v # more[j + 1].v
        BY <4>1, <4>2, <1>6
      <4> QED
        BY <4>1, <4>3, <4>4, <4>5
    <3>2. CASE j \in 1 .. Len(all) - 1
      <4>1. /\ place[j] = at[j] /\ place[j + 1] = at[j + 1]
            /\ more[j] = all[j] /\ more[j + 1] = all[j + 1]
            /\ at[j] \in 1 .. Len(c) /\ at[j + 1] \in 1 .. Len(c)
        <5>1. j \in 1 .. Len(all) /\ j + 1 \in 1 .. Len(all)
          BY <3>2, <1>2
        <5> QED
          BY <5>1, <2>3, <2>5
      <4>2. /\ at[j] < at[j + 1] /\ all[j].v # all[j + 1].v
            /\ \A k \in at[j] .. at[j + 1] - 1 : c[k][s] = all[j].v
        BY <3>2, <1>1 DEF Placed
      <4>3. \A k \in at[j] .. at[j + 1] - 1 : d[k] = c[k]
        BY <4>1, <1>2, <1>4, Between
      <4> QED
        BY <4>1, <4>2, <4>3
    <3> QED
      BY <3>1, <3>2, <1>2, <2>3
  <2>9. \A k \in place[Len(more)] .. Len(d) : d[k][s] = more[Len(more)].v
    BY <1>2, <1>4, <2>2, <2>3, <2>5
  <2>10. Placed(d, more, s, place)
    <3> HIDE DEF Placed
    <3> QED
      BY <2>6, <2>7, <2>8, <2>9 DEF Placed
  <2>11. d # <<>> /\ more # <<>>
    <3>1. Len(d) # 0 /\ Len(more) # 0
      BY <1>2, <1>4, <2>3
    <3> QED
      BY <3>1, EmptySeq
  <2>12. Records(d, more, s)
    BY <1>4, <2>3, <2>5, <2>10, <2>11, Zenon DEF Records
  <2> QED
    BY <1>3, <2>3, <2>12
<1> QED
  BY <1>5, <1>6

LEMMA InitWInv == Init => WInv
<1> SUFFICES ASSUME Init PROVE WInv
  OBVIOUS
<1>1. PICK start \in [Run -> State] :
        /\ cycles = [run \in Run |-> <<start[run]>>]
        /\ changes = [run \in Run |-> [s \in Signal |-> <<[t |-> 0, v |-> start[run][s]]>>]]
  BY DEF Init
<1>2. \A run \in Run : start[run] \in State /\ cycles[run] \in Seq(State)
  BY <1>1
<1>3. \A run \in Run, s \in Signal :
        changes[run][s] \in Seq(Record) /\ Records(cycles[run], changes[run][s], s)
  BY <1>1, <1>2, FirstChange
<1>4. changes \in [Run -> [Signal -> Seq(Record)]]
  <2>1. \A run \in Run : changes[run] = [s \in Signal |-> <<[t |-> 0, v |-> start[run][s]]>>]
    BY <1>1
  <2>2. \A run \in Run : changes[run] \in [Signal -> Seq(Record)]
    BY <2>1, <1>3
  <2> QED
    BY <2>2, <1>1
<1> QED
  BY <1>1, <1>2, <1>3, <1>4 DEF WInv

LEMMA StepWInv == WInv /\ [Next]_vars => WInv'
<1> SUFFICES ASSUME WInv, [Next]_vars PROVE WInv'
  OBVIOUS
<1>1. CASE UNCHANGED vars
  BY <1>1 DEF WInv, vars
<1>2. ASSUME NEW run \in Run, NEW state \in State, Cycle(run, state) PROVE WInv'
  <2>1. PICK c, all : c = cycles[run] /\ all = changes[run]
    OBVIOUS
  <2>2. /\ c \in Seq(State) /\ all \in [Signal -> Seq(Record)]
        /\ \A s \in Signal : Records(c, all[s], s)
    BY <2>1 DEF WInv
  <2>3. PICK more : more = [s \in Signal |-> IF state[s] = Last(all[s]).v THEN all[s]
                              ELSE Append(all[s], [t |-> EdgeTime(Len(c)), v |-> state[s]])]
    OBVIOUS
  <2>4. /\ cycles' = [cycles EXCEPT ![run] = Append(c, state)]
        /\ changes' = [changes EXCEPT ![run] = more]
    BY <1>2, <2>1, <2>2, <2>3 DEF Cycle, Edges
  <2>5. \A s \in Signal : more[s] \in Seq(Record) /\ Records(Append(c, state), more[s], s)
    BY <2>2, <2>3, NextChange
  <2>6. Append(c, state) \in Seq(State) /\ more \in [Signal -> Seq(Record)]
    <3>1. Append(c, state) \in Seq(State)
      BY <2>2
    <3>2. more \in [Signal -> Seq(Record)]
      BY <2>3, <2>5
    <3> QED
      BY <3>1, <3>2
  <2>7. cycles' \in [Run -> Seq(State)] /\ changes' \in [Run -> [Signal -> Seq(Record)]]
    BY <2>4, <2>6 DEF WInv
  <2>8. \A other \in Run, s \in Signal : Records(cycles'[other], changes'[other][s], s)
    BY <2>4, <2>5 DEF WInv
  <2> QED
    BY <2>7, <2>8 DEF WInv
<1> QED
  BY <1>1, <1>2 DEF Next

LEMMA AlwaysWInv == Spec => []WInv
BY InitWInv, StepWInv, PTL DEF Spec

-----------------------------------------------------------------------------
(* What CPUWaveform reads.                                                   *)
LEMMA TwoPeriods ==
  ASSUME NEW n \in Nat
  PROVE  /\ CLOCK_PERIOD \in Nat
         /\ CLOCK_PERIOD * (n - 2) + 2 * CLOCK_PERIOD = CLOCK_PERIOD * n
<1>1. PICK p \in Nat : p = CLOCK_PERIOD
  BY WaveformAssumption
<1>2. p * (n - 2) + 2 * p = p * n
  OBVIOUS
<1> QED
  BY <1>1, <1>2

LEMMA TimesApart ==
  ASSUME NEW m \in Nat, NEW n \in Nat, 1 < m, m < n
  PROVE  (TimeOfCycle(n) - TimeOfCycle(m)) \div CLOCK_PERIOD = n - m
<1>1. PICK p \in Nat, half \in Int : p = CLOCK_PERIOD /\ half = CLOCK_PERIOD \div 2 /\ p > 0
  BY WaveformAssumption
<1>2. /\ TimeOfCycle(m) = p * (m - 1 - 1) + half
      /\ TimeOfCycle(n) = p * (n - 1 - 1) + half
  <2>1. m # 1 /\ n # 1
    OBVIOUS
  <2> QED
    BY <1>1, <2>1, Zenon DEF TimeOfCycle, EdgeTime
<1>3. p * (n - 1 - 1) - p * (m - 1 - 1) = p * (n - m)
  OBVIOUS
<1>4. p * (n - 1 - 1) \in Int /\ p * (m - 1 - 1) \in Int /\ p * (n - m) \in Int
  OBVIOUS
<1>5. TimeOfCycle(n) - TimeOfCycle(m) = p * (n - m) + 0
  BY <1>2, <1>3, <1>4
<1>6. (p * (n - m) + 0) \div p = n - m
  <2>1. n - m \in Nat /\ 0 \in 0 .. CLOCK_PERIOD - 1
    BY <1>1
  <2> QED
    BY <1>1, <2>1, Quotient
<1> QED
  BY <1>1, <1>5, <1>6

LEMMA NextInRange ==
  ASSUME NEW last \in Nat, NEW x \in 1 .. last, x # last
  PROVE  x + 1 \in 1 .. last /\ x \in 1 .. last - 1 /\ ~(x + 1 <= x)
OBVIOUS

LEMMA Samples ==
  ASSUME WInv, NEW run \in Run, Readable(run)
  PROVE  /\ Len(cycles[run]) \in Nat /\ Len(cycles[run]) >= 3
         /\ SampleTimes(run) =
              [k \in 1 .. Len(cycles[run]) |-> CLOCK_PERIOD * (k - 1)]
         /\ clock_count(run) = Len(cycles[run]) - 2
<1>1. PICK n \in Nat : n = Len(cycles[run]) /\ n >= 3 /\ Edges(run) = n - 1
  BY DEF WInv, Readable, Edges
<1>2. max_clock(run) = CLOCK_PERIOD * (n - 2) + CLOCK_PERIOD \div 2
  <2>1. (n - 1) - 1 = n - 2
    BY <1>1
  <2> QED
    BY <1>1, <2>1, Zenon DEF max_clock, EdgeTime
<1>3. CLOCK_PERIOD \in Nat /\ CLOCK_PERIOD * (n - 2) + 2 * CLOCK_PERIOD = CLOCK_PERIOD * n
  BY <1>1, TwoPeriods
<1>4. PICK half \in 1 .. CLOCK_PERIOD - 1 : half = CLOCK_PERIOD \div 2
  BY HalfPeriod, Zenon
<1>5. (CLOCK_PERIOD * n + (half - 1)) \div CLOCK_PERIOD = n
  <2>1. half - 1 \in 0 .. CLOCK_PERIOD - 1
    BY <1>4, WaveformAssumption
  <2> QED
    BY <1>1, <2>1, Quotient
<1>6. max_clock(run) + CLOCK_PERIOD + CLOCK_PERIOD - 1 = CLOCK_PERIOD * n + (half - 1)
  <2>1. CLOCK_PERIOD * (n - 2) \in Int /\ CLOCK_PERIOD * n \in Int
    BY <1>1, <1>3
  <2>2. CLOCK_PERIOD = 2 * half
    BY <1>4, HalfPeriod
  <2>3. max_clock(run) = CLOCK_PERIOD * (n - 2) + half
    BY <1>2, <1>4
  <2> QED
    BY <1>3, <1>4, <2>1, <2>2, <2>3
<1>7. clock_count(run) = n - 2
  BY <1>1, EdgeTimes DEF clock_count, max_clock
<1> QED
  BY <1>1, <1>5, <1>6, <1>7, Zenon DEF SampleTimes

(* A reader who looks up a time between the changes of cycle k and the next  *)
(* one finds the value of cycle k.                                           *)
LEMMA ValueAt ==
  ASSUME WInv, NEW run \in Run, NEW s \in Signal, NEW k \in 1 .. Len(cycles[run]), NEW t,
         \A j \in 1 .. Len(cycles[run]) : TimeOfCycle(j) <= t <=> j <= k
  PROVE  value_at_time(run, s, t) = cycles[run][k][s]
<1>1. PICK c, all : c = cycles[run] /\ all = changes[run][s]
  OBVIOUS
<1>2. /\ c \in Seq(State) /\ Len(c) \in Nat
      /\ all \in Seq(Record) /\ all # <<>> /\ Records(c, all, s)
  BY <1>1, Zenon, LenProperties DEF WInv, Records
<1>3. PICK at \in [1 .. Len(all) -> 1 .. Len(c)] : Placed(c, all, s, at)
  BY <1>2, Zenon DEF Records
<1>4. Len(all) \in Nat \ {0} /\ DOMAIN all = 1 .. Len(all)
  BY <1>2
<1> DEFINE before == {j \in DOMAIN all : all[j].t <= t}
<1>5. \A j \in 1 .. Len(all) : j \in before <=> at[j] <= k
  <2> TAKE j \in 1 .. Len(all)
  <2>1. at[j] \in 1 .. Len(c) /\ all[j].t = TimeOfCycle(at[j])
    <3>1. all[j] = [t |-> TimeOfCycle(at[j]), v |-> c[at[j]][s]]
      BY <1>3, Zenon DEF Placed
    <3> QED
      BY <3>1
  <2> QED
    BY <1>1, <1>4, <2>1
<1>6. 1 \in before /\ before \subseteq 0 .. Len(all)
  <2>1. at[1] <= k /\ 1 \in 1 .. Len(all)
    BY <1>1, <1>2, <1>3, <1>4 DEF Placed
  <2> QED
    BY <1>4, <1>5, <2>1
<1>7. before \subseteq 1 .. Len(all)
  BY <1>4
<1> HIDE DEF before
<1>8. PICK x \in before : \A y \in before : y <= x
  BY <1>4, <1>6, LargestNumber
<1>9. x = CHOOSE n \in before : \A y \in before : y <= n
  <2>1. \A n \in before : (\A y \in before : y <= n) => n = x
    BY <1>7, <1>8
  <2> QED
    BY <1>8, <2>1
<1>10. value_at_time(run, s, t) = all[x].v
  BY <1>1, <1>9 DEF value_at_time, before
<1>11. at[x] <= k /\ x \in 1 .. Len(all)
  BY <1>5, <1>7, <1>8
<1>12. CASE x = Len(all)
  BY <1>1, <1>2, <1>3, <1>10, <1>11, <1>12 DEF Placed
<1>13. CASE x # Len(all)
  <2>1. x + 1 \in 1 .. Len(all) /\ x \in 1 .. Len(all) - 1 /\ x + 1 \notin before
    <3>1. x + 1 \in 1 .. Len(all) /\ x \in 1 .. Len(all) - 1 /\ ~(x + 1 <= x)
      BY <1>4, <1>11, <1>13, NextInRange
    <3> QED
      BY <1>8, <3>1
  <2>2. at[x] \in 1 .. Len(c) /\ at[x + 1] \in 1 .. Len(c) /\ ~(at[x + 1] <= k)
    BY <1>5, <1>11, <2>1
  <2>3. k \in at[x] .. at[x + 1] - 1
    BY <1>1, <1>2, <1>11, <2>2
  <2> QED
    BY <1>1, <1>3, <1>10, <2>1, <2>3 DEF Placed
<1> QED
  BY <1>12, <1>13

LEMMA SampleOfCycle ==
  ASSUME WInv, NEW run \in Run, NEW k \in 1 .. Len(cycles[run])
  PROVE  /\ \A s \in Signal : value_at_time(run, s, CLOCK_PERIOD * (k - 1)) = cycles[run][k][s]
         /\ StateAt(run, Signal, CLOCK_PERIOD * (k - 1)) = cycles[run][k]
         /\ cycles[run][k] \in State
<1>1. cycles[run] \in Seq(State) /\ Len(cycles[run]) \in Nat
  BY DEF WInv
<1>2. \A j \in 1 .. Len(cycles[run]) : TimeOfCycle(j) <= CLOCK_PERIOD * (k - 1) <=> j <= k
  BY <1>1, SeenAtSample
<1>3. \A s \in Signal : value_at_time(run, s, CLOCK_PERIOD * (k - 1)) = cycles[run][k][s]
  BY <1>2, ValueAt
<1>4. cycles[run][k] \in State
  BY <1>1
<1>5. cycles[run][k] = [s \in Signal |-> cycles[run][k][s]]
  BY <1>4 DEF State
<1> QED
  BY <1>3, <1>4, <1>5 DEF StateAt

LEMMA ReadsCycles == WInv => SamplesAreCycles
<1> SUFFICES ASSUME WInv, NEW run \in Run, Readable(run)
             PROVE  /\ get_signals_per_clk(run, Signal) = cycles[run]
                    /\ \A s \in Signal : get_last_value(run, s) = Last(cycles[run])[s]
  BY DEF SamplesAreCycles
<1>1. PICK n \in Nat : n = Len(cycles[run]) /\ n >= 3
  BY Samples
<1>2. SampleTimes(run) = [k \in 1 .. n |-> CLOCK_PERIOD * (k - 1)]
  BY <1>1, Samples
<1>3. DOMAIN SampleTimes(run) = 1 .. n
      /\ \A k \in 1 .. n : SampleTimes(run)[k] = CLOCK_PERIOD * (k - 1)
  BY <1>2
<1>4. \A k \in 1 .. n : StateAt(run, Signal, SampleTimes(run)[k]) = cycles[run][k]
  BY <1>1, <1>3, SampleOfCycle
<1>5. get_signals_per_clk(run, Signal) = [k \in 1 .. n |-> cycles[run][k]]
  BY <1>3, <1>4 DEF get_signals_per_clk
<1>6. cycles[run] = [k \in 1 .. n |-> cycles[run][k]]
  BY <1>1 DEF WInv
<1>7. ASSUME NEW s \in Signal PROVE get_last_value(run, s) = Last(cycles[run])[s]
  <2>1. max_clock(run) = EdgeTime(n - 1) /\ n \in 1 .. Len(cycles[run])
    BY <1>1 DEF max_clock, Edges
  <2>2. \A j \in 1 .. Len(cycles[run]) : TimeOfCycle(j) <= EdgeTime(n - 1) <=> j <= n
    BY <1>1, SeenAtSample
  <2>3. value_at_time(run, s, EdgeTime(n - 1)) = cycles[run][n][s]
    BY <2>1, <2>2, ValueAt
  <2> QED
    BY <1>1, <2>1, <2>3 DEF get_last_value, Last
<1> QED
  BY <1>5, <1>6, <1>7

(* One sample per cycle, and the last value is that of the last cycle.       *)
THEOREM SamplesCorrect == Spec => []SamplesAreCycles
BY ReadsCycles, AlwaysWInv, PTL

-----------------------------------------------------------------------------
(* get_signals_per_change as a loop: seq[k] is its list after k samples.     *)
Lists(run, n, seq) ==
  /\ seq \in [0 .. n -> Seq(State)]
  /\ seq[0] = <<>>
  /\ \A k \in 1 .. n : seq[k] = Keep(run, Signal, seq[k - 1], CLOCK_PERIOD * (k - 1))

LEMMA KeepSample ==
  ASSUME WInv, NEW run \in Run, NEW k \in 1 .. Len(cycles[run]), NEW list \in Seq(State)
  PROVE  /\ Keep(run, Signal, list, CLOCK_PERIOD * (k - 1)) =
              IF ~Retires(run, k) \/ (list # <<>> /\ cycles[run][k] = Last(list))
              THEN list ELSE Append(list, cycles[run][k])
         /\ Keep(run, Signal, list, CLOCK_PERIOD * (k - 1)) \in Seq(State)
<1>1. cycles[run][k][active] \in {0, 1} /\ active \in Signal
  BY SampleOfCycle DEF State, Signal
<1>2. Retires(run, k) <=> value_at_time(run, active, CLOCK_PERIOD * (k - 1)) # 0
  BY <1>1, SampleOfCycle DEF Retires
<1>3. StateAt(run, Signal, CLOCK_PERIOD * (k - 1)) = cycles[run][k] /\ cycles[run][k] \in State
  BY SampleOfCycle
<1> QED
  BY <1>2, <1>3 DEF Keep

LEMMA Passes ==
  ASSUME WInv, NEW run \in Run, Readable(run)
  PROVE  \E seq : /\ Lists(run, Len(cycles[run]), seq)
                  /\ get_signals_per_change(run, Signal) = seq[Len(cycles[run])]
<1>1. PICK n \in Nat : n = Len(cycles[run])
  BY Samples
<1>2. PICK times : times = SampleTimes(run)
  OBVIOUS
<1>3. Len(times) = n /\ \A k \in 1 .. n : times[k] = CLOCK_PERIOD * (k - 1)
  BY <1>1, <1>2, Samples
<1> DEFINE Step(k) == [list \in Seq(State) |->
                         Keep(run, Signal, list, CLOCK_PERIOD * (k - 1))]
<1>4. \A k \in 1 .. n : Step(k) \in [Seq(State) -> Seq(State)]
  BY <1>1, KeepSample
<1>5. <<>> \in Seq(State)
  OBVIOUS
<1>6. \E f \in [0 .. n -> Seq(State)] :
        f[0] = <<>> /\ \A k \in 1 .. n : f[k] = Step(k)[f[k - 1]]
  <2>1. PICK step : step = [k \in 1 .. n |-> Step(k)]
    OBVIOUS
  <2> HIDE DEF Step
  <2>2. step \in [1 .. n -> [Seq(State) -> Seq(State)]]
    BY <1>4, <2>1
  <2>3. PICK f \in [0 .. n -> Seq(State)] :
          f[0] = <<>> /\ \A k \in 1 .. n : f[k] = step[k][f[k - 1]]
    <3>1. \E f : Iterates(f, n, Seq(State), <<>>, step)
      BY <1>5, <2>2, Recursion
    <3> QED
      BY <3>1 DEF Iterates
  <2>4. \A k \in 1 .. n : step[k] = Step(k)
    BY <2>1
  <2> QED
    BY <2>3, <2>4
<1>7. PICK f \in [0 .. n -> Seq(State)] :
        f[0] = <<>> /\ \A k \in 1 .. n : f[k] = Step(k)[f[k - 1]]
  BY <1>6, Zenon
<1>8. Lists(run, n, f)
  <2>1. ASSUME NEW k \in 1 .. n
        PROVE  f[k] = Keep(run, Signal, f[k - 1], CLOCK_PERIOD * (k - 1))
    <3>1. f[k - 1] \in Seq(State)
      BY <1>7
    <3> QED
      BY <3>1, <1>7
  <2> QED
    BY <1>7, <2>1 DEF Lists
<1> DEFINE Loop(seq) ==
      seq = [k \in 0 .. Len(times) |->
               IF k = 0 THEN <<>> ELSE Keep(run, Signal, seq[k - 1], times[k])]
<1>9. Loop(f)
  BY <1>3, <1>7, <1>8 DEF Lists
<1>10. get_signals_per_change(run, Signal) = (CHOOSE seq : Loop(seq))[n]
  BY <1>2, <1>3, Zenon DEF get_signals_per_change
<1>11. PICK seq : seq = CHOOSE g : Loop(g)
  OBVIOUS
<1>12. Loop(seq)
  BY <1>9, <1>11, Zenon
<1>13. Lists(run, n, seq)
  <2>1. /\ seq = [k \in 0 .. n |-> seq[k]]
        /\ seq[0] = <<>>
        /\ \A k \in 1 .. n : seq[k] = Keep(run, Signal, seq[k - 1], CLOCK_PERIOD * (k - 1))
    BY <1>3, <1>12
  <2> HIDE DEF Loop
  <2>2. PICK T : T = {k \in 0 .. n : seq[k] \in Seq(State)}
    OBVIOUS
  <2>3. 0 \in T
    <3>1. 0 \in 0 .. n /\ seq[0] \in Seq(State)
      <4>1. 0 \in 0 .. n
        OBVIOUS
      <4> QED
        BY <1>5, <2>1, <4>1, Zenon
    <3> QED
      BY <2>2, <3>1
  <2>4. ASSUME NEW k \in 0 .. n - 1, k \in T PROVE k + 1 \in T
    <3>1. k + 1 \in 1 .. n /\ (k + 1) - 1 = k /\ seq[k] \in Seq(State)
      BY <2>2, <2>4
    <3>2. seq[k + 1] = Keep(run, Signal, seq[k], CLOCK_PERIOD * ((k + 1) - 1))
      BY <2>1, <3>1
    <3>3. seq[k + 1] \in Seq(State)
      BY <1>1, <3>1, <3>2, KeepSample
    <3> QED
      BY <2>2, <3>1, <3>3
  <2>5. \A k \in 0 .. n : seq[k] \in Seq(State)
    <3>1. \A k \in 0 .. n : k \in T
      BY <2>3, <2>4, RangeInduction
    <3> QED
      BY <2>2, <3>1
  <2> QED
    BY <2>1, <2>5 DEF Lists
<1> QED
  BY <1>1, <1>10, <1>11, <1>13

-----------------------------------------------------------------------------
(* f merges what r lists: after each pass both are as before, or r has one   *)
(* more state, which f adds unless it ends with it.                          *)
Merge(list, state) ==
  IF list # <<>> /\ state = Last(list) THEN list ELSE Append(list, state)

MergeStep(f, r, k) ==
  \/ f[k] = f[k - 1] /\ r[k] = r[k - 1]
  \/ \E state \in State : f[k] = Merge(f[k - 1], state) /\ r[k] = Append(r[k - 1], state)

Merges(f, r, n) ==
  /\ r \in [0 .. n -> Seq(State)]
  /\ f[0] = <<>> /\ r[0] = <<>>
  /\ \A k \in 1 .. n : MergeStep(f, r, k)

LEMMA AppendsAreSame ==
  ASSUME NEW p \in Seq(State), NEW q \in Seq(State), NEW s \in State, NEW t \in State,
         Append(p, s) = Append(q, t)
  PROVE  p = q /\ s = t
<1>1. /\ Len(p) \in Nat /\ Len(q) \in Nat
      /\ Len(Append(p, s)) = Len(p) + 1 /\ Len(Append(q, t)) = Len(q) + 1
      /\ \A i \in 1 .. Len(p) : Append(p, s)[i] = p[i]
      /\ \A i \in 1 .. Len(q) : Append(q, t)[i] = q[i]
      /\ Append(p, s)[Len(p) + 1] = s /\ Append(q, t)[Len(q) + 1] = t
  BY AppendProperties, LenProperties
<1>2. Len(p) = Len(q) /\ s = t
  BY <1>1
<1>3. \A i \in 1 .. Len(p) : p[i] = q[i]
  BY <1>1, <1>2
<1> QED
  BY <1>2, <1>3, SeqEqual

(* Merging equal lists gives equal lists, in however many passes each is     *)
(* gone through.                                                             *)
LEMMA MergedAlike ==
  ASSUME NEW m \in Nat, NEW n \in Nat, NEW f, NEW r, NEW g, NEW q,
         Merges(f, r, m), Merges(g, q, n)
  PROVE  \A k \in 0 .. m, j \in 0 .. n : r[k] = q[j] => f[k] = g[j]
<1>1. PICK T : T = {k \in 0 .. m : \A j \in 0 .. n : r[k] = q[j] => f[k] = g[j]}
  OBVIOUS
<1>2. 0 \in T
  <2>1. PICK J : J = {j \in 0 .. n : q[j] = <<>> => g[j] = <<>>}
    OBVIOUS
  <2>2. 0 \in J
    BY <2>1 DEF Merges
  <2>3. ASSUME NEW j \in 0 .. n - 1, j \in J PROVE j + 1 \in J
    <3>1. j + 1 \in 1 .. n /\ j + 1 \in 0 .. n /\ (j + 1) - 1 = j /\ q[j] \in Seq(State)
      BY DEF Merges
    <3>2. MergeStep(g, q, j + 1)
      BY <3>1 DEF Merges
    <3>3. CASE g[j + 1] = g[j] /\ q[j + 1] = q[j]
      BY <2>1, <2>3, <3>1, <3>3
    <3>4. ASSUME NEW state \in State, q[j + 1] = Append(q[j], state)
          PROVE  j + 1 \in J
      <4>1. q[j + 1] # <<>>
        BY <3>1, <3>4, AppendProperties
      <4> QED
        BY <2>1, <3>1, <4>1
    <3> QED
      BY <3>1, <3>2, <3>3, <3>4 DEF MergeStep
  <2>4. \A j \in 0 .. n : j \in J
    BY <2>2, <2>3, RangeInduction
  <2> QED
    BY <1>1, <2>1, <2>4 DEF Merges
<1>3. ASSUME NEW k \in 0 .. m - 1, k \in T PROVE k + 1 \in T
  <2>1. k + 1 \in 1 .. m /\ k + 1 \in 0 .. m /\ (k + 1) - 1 = k /\ r[k] \in Seq(State)
    BY DEF Merges
  <2>2. \A j \in 0 .. n : r[k] = q[j] => f[k] = g[j]
    BY <1>1, <1>3
  <2>3. MergeStep(f, r, k + 1)
    BY <2>1 DEF Merges
  <2>4. CASE f[k + 1] = f[k] /\ r[k + 1] = r[k]
    BY <1>1, <2>1, <2>2, <2>4
  <2>5. ASSUME NEW state \in State, f[k + 1] = Merge(f[k], state),
               r[k + 1] = Append(r[k], state)
        PROVE  k + 1 \in T
    <3>1. PICK J : J = {j \in 0 .. n : r[k + 1] = q[j] => f[k + 1] = g[j]}
      OBVIOUS
    <3>2. 0 \in J
      <4>1. r[k + 1] # <<>>
        BY <2>1, <2>5, AppendProperties
      <4> QED
        BY <3>1, <4>1 DEF Merges
    <3>3. ASSUME NEW j \in 0 .. n - 1, j \in J PROVE j + 1 \in J
      <4>1. /\ j + 1 \in 1 .. n /\ j + 1 \in 0 .. n /\ j \in 0 .. n
            /\ (j + 1) - 1 = j /\ q[j] \in Seq(State)
        BY DEF Merges
      <4>2. MergeStep(g, q, j + 1)
        BY <4>1 DEF Merges
      <4>3. CASE g[j + 1] = g[j] /\ q[j + 1] = q[j]
        BY <3>1, <3>3, <4>1, <4>3
      <4>4. ASSUME NEW other \in State, g[j + 1] = Merge(g[j], other),
                   q[j + 1] = Append(q[j], other)
            PROVE  j + 1 \in J
        <5>1. ASSUME r[k + 1] = q[j + 1] PROVE f[k + 1] = g[j + 1]
          <6>1. Append(r[k], state) = Append(q[j], other)
            BY <2>5, <4>4, <5>1
          <6>2. r[k] = q[j] /\ state = other
            <7>1. PICK p \in Seq(State), b \in Seq(State) : p = r[k] /\ b = q[j]
              BY <2>1, <4>1
            <7>2. Append(p, state) = Append(b, other)
              BY <6>1, <7>1
            <7>3. p = b /\ state = other
              BY <2>5, <4>4, <7>2, AppendsAreSame
            <7> QED
              BY <7>1, <7>3
          <6>3. f[k] = g[j]
            BY <2>2, <4>1, <6>2
          <6> QED
            BY <2>5, <4>4, <6>2, <6>3
        <5> QED
          BY <3>1, <4>1, <5>1
      <4> QED
        BY <4>1, <4>2, <4>3, <4>4 DEF MergeStep
    <3>4. \A j \in 0 .. n : j \in J
      BY <3>2, <3>3, RangeInduction
    <3> QED
      BY <1>1, <2>1, <3>1, <3>4
  <2> QED
    BY <2>1, <2>3, <2>4, <2>5 DEF MergeStep
<1>4. \A k \in 0 .. m : k \in T
  BY <1>2, <1>3, RangeInduction
<1> QED
  BY <1>1, <1>4

(* The instructions retired by each cycle, as a loop.                        *)
RetirePasses(run, n, r) ==
  /\ r[0] = <<>>
  /\ \A k \in 1 .. n :
       r[k] = IF Retires(run, k) THEN Append(r[k - 1], cycles[run][k]) ELSE r[k - 1]

LEMMA RetiredLoop ==
  ASSUME WInv, NEW run \in Run
  PROVE  \E r \in [0 .. Len(cycles[run]) -> Seq(State)] :
           RetirePasses(run, Len(cycles[run]), r) /\ Retired(run) = r[Len(cycles[run])]
<1>1. PICK n \in Nat : n = Len(cycles[run])
  BY LenProperties DEF WInv
<1>2. \A k \in 1 .. n : cycles[run][k] \in State
  BY <1>1, ElementOfSeq DEF WInv
<1> DEFINE Step(k) == [list \in Seq(State) |->
                         IF Retires(run, k) THEN Append(list, cycles[run][k]) ELSE list]
<1>3. PICK step : step = [k \in 1 .. n |-> Step(k)]
  OBVIOUS
<1>4. step \in [1 .. n -> [Seq(State) -> Seq(State)]]
  <2>1. ASSUME NEW k \in 1 .. n PROVE Step(k) \in [Seq(State) -> Seq(State)]
    BY <1>2, AppendProperties
  <2> HIDE DEF Step
  <2> QED
    BY <1>3, <2>1
<1>5. PICK r \in [0 .. n -> Seq(State)] :
        r[0] = <<>> /\ \A k \in 1 .. n : r[k] = step[k][r[k - 1]]
  <2>1. <<>> \in Seq(State)
    OBVIOUS
  <2>2. \E r : Iterates(r, n, Seq(State), <<>>, step)
    BY <1>4, <2>1, Recursion
  <2> QED
    BY <2>2 DEF Iterates
<1>6. RetirePasses(run, n, r)
  <2>1. ASSUME NEW k \in 1 .. n
        PROVE  r[k] = IF Retires(run, k) THEN Append(r[k - 1], cycles[run][k]) ELSE r[k - 1]
    <3>1. r[k - 1] \in Seq(State) /\ step[k] = Step(k)
      BY <1>3, <1>5
    <3> QED
      BY <1>5, <3>1
  <2> QED
    BY <1>5, <2>1 DEF RetirePasses
<1> DEFINE Loop(seq) ==
      seq = [k \in 0 .. Len(cycles[run]) |->
               IF k = 0 THEN <<>>
               ELSE IF Retires(run, k) THEN Append(seq[k - 1], cycles[run][k])
               ELSE seq[k - 1]]
<1>7. Loop(r)
  <2>1. r = [k \in 0 .. n |-> r[k]]
    BY <1>5
  <2>2. \A k \in 0 .. n :
          r[k] = IF k = 0 THEN <<>>
                 ELSE IF Retires(run, k) THEN Append(r[k - 1], cycles[run][k])
                 ELSE r[k - 1]
    <3>1. \A k \in 0 .. n : k = 0 \/ k \in 1 .. n
      OBVIOUS
    <3>2. \A k \in 1 .. n : k # 0
      OBVIOUS
    <3> QED
      BY <1>6, <3>1, <3>2, Zenon DEF RetirePasses
  <2> QED
    BY <1>1, <2>1, <2>2, Zenon
<1>8. Retired(run) = (CHOOSE seq : Loop(seq))[n]
  BY <1>1, Zenon DEF Retired
<1>9. PICK seq : seq = CHOOSE g : Loop(g)
  OBVIOUS
<1>10. Loop(seq)
  BY <1>7, <1>9, Zenon
<1>11. RetirePasses(run, n, seq)
  <2>1. 0 \in 0 .. n /\ \A k \in 1 .. n : k \in 0 .. n /\ k # 0
    OBVIOUS
  <2>2. seq[0] = <<>>
    BY <1>1, <1>10, <2>1, Zenon
  <2>3. ASSUME NEW k \in 1 .. n
        PROVE  seq[k] = IF Retires(run, k) THEN Append(seq[k - 1], cycles[run][k])
                        ELSE seq[k - 1]
    BY <1>1, <1>10, <2>1, <2>3, Zenon
  <2> QED
    BY <2>2, <2>3, Zenon DEF RetirePasses
<1> HIDE DEF Loop
<1>12. Alike(seq, r, n)
  BY <1>6, <1>11 DEF Alike, RetirePasses
<1>13. n \in 0 .. n /\ seq[n] = r[n]
  BY <1>12, SameSteps
<1> QED
  BY <1>1, <1>6, <1>8, <1>9, <1>13

(* get_signals_per_change merges the instructions retired.                   *)
LEMMA ChangesMerge ==
  ASSUME WInv, NEW run \in Run, Readable(run)
  PROVE  \E f, r : /\ Merges(f, r, Len(cycles[run]))
                   /\ get_signals_per_change(run, Signal) = f[Len(cycles[run])]
                   /\ Retired(run) = r[Len(cycles[run])]
<1>1. PICK n \in Nat : n = Len(cycles[run])
  BY Samples
<1>2. PICK f : Lists(run, n, f) /\ get_signals_per_change(run, Signal) = f[n]
  BY <1>1, Passes, Zenon
<1>3. PICK r \in [0 .. n -> Seq(State)] : RetirePasses(run, n, r) /\ Retired(run) = r[n]
  BY <1>1, RetiredLoop
<1>4. ASSUME NEW k \in 1 .. n PROVE MergeStep(f, r, k)
  <2>1. f[k - 1] \in Seq(State) /\ cycles[run][k] \in State
    <3>1. k \in 1 .. Len(cycles[run]) /\ k - 1 \in 0 .. n
      BY <1>1
    <3>2. f[k - 1] \in Seq(State)
      BY <1>2, <3>1 DEF Lists
    <3>3. cycles[run][k] \in State
      BY <3>1, ElementOfSeq DEF WInv
    <3> QED
      BY <3>2, <3>3
  <2>2. f[k] = IF ~Retires(run, k) \/ (f[k - 1] # <<>> /\ cycles[run][k] = Last(f[k - 1]))
               THEN f[k - 1] ELSE Append(f[k - 1], cycles[run][k])
    <3>1. f[k] = Keep(run, Signal, f[k - 1], CLOCK_PERIOD * (k - 1))
      BY <1>2 DEF Lists
    <3> QED
      BY <1>1, <2>1, <3>1, KeepSample
  <2>3. r[k] = IF Retires(run, k) THEN Append(r[k - 1], cycles[run][k]) ELSE r[k - 1]
    BY <1>3, Zenon DEF RetirePasses
  <2>4. CASE Retires(run, k)
    <3>1. f[k] = Merge(f[k - 1], cycles[run][k]) /\ r[k] = Append(r[k - 1], cycles[run][k])
      BY <2>2, <2>3, <2>4, Zenon DEF Merge
    <3> QED
      BY <2>1, <3>1, Zenon DEF MergeStep
  <2>5. CASE ~Retires(run, k)
    BY <2>2, <2>3, <2>5 DEF MergeStep
  <2> QED
    BY <2>4, <2>5
<1>5. Merges(f, r, n)
  BY <1>2, <1>3, <1>4 DEF Merges, Lists, RetirePasses
<1> QED
  BY <1>1, <1>2, <1>3, <1>5, Zenon

LEMMA EqualRunsMatch ==
  ASSUME WInv, BothReadable, Retired("first") = Retired("second")
  PROVE  compare_signals(Signal, FALSE)
<1>1. /\ "first" \in Run /\ "second" \in Run
      /\ Readable("first") /\ Readable("second")
  BY DEF Run, BothReadable
<1>2. PICK m \in Nat, n \in Nat : m = Len(cycles["first"]) /\ n = Len(cycles["second"])
  BY <1>1, Samples
<1>3. PICK f, r : /\ Merges(f, r, m)
                  /\ get_signals_per_change("first", Signal) = f[m]
                  /\ Retired("first") = r[m]
  BY <1>1, <1>2, ChangesMerge, Zenon
<1>4. PICK g, q : /\ Merges(g, q, n)
                  /\ get_signals_per_change("second", Signal) = g[n]
                  /\ Retired("second") = q[n]
  BY <1>1, <1>2, ChangesMerge, Zenon
<1>5. m \in 0 .. m /\ n \in 0 .. n /\ r[m] = q[n]
  BY <1>3, <1>4
<1>6. f[m] = g[n]
  BY <1>3, <1>4, <1>5, MergedAlike
<1> QED
  BY <1>3, <1>4, <1>6 DEF compare_signals, Extracted

(* What --diff says compares lists of states, however they come about.       *)
LEMMA Verdict ==
  ASSUME NEW mine \in Seq(State), NEW other \in Seq(State), NEW early_out \in BOOLEAN
  PROVE  /\ mine = other => Walk(mine, other, early_out) = "True"
         /\ mine # other /\ Len(mine) = Len(other) => Walk(mine, other, early_out) = "False"
<1>1. PICK differ : differ = {k \in DOMAIN mine : k \in DOMAIN other /\ mine[k] # other[k]}
  OBVIOUS
<1>2. Len(mine) \in Nat /\ Len(other) \in Nat
  BY LenProperties
<1>3. mine = other => differ = {}
  BY <1>1
<1>4. ASSUME mine # other, Len(mine) = Len(other) PROVE differ # {}
  <2>1. PICK k \in 1 .. Len(mine) : mine[k] # other[k]
    BY <1>4, SeqEqual
  <2>2. k \in DOMAIN mine /\ k \in DOMAIN other
    BY <1>4, <2>1
  <2> QED
    BY <1>1, <2>1, <2>2
<1> QED
  BY <1>1, <1>2, <1>3, <1>4 DEF Walk

LEMMA ListTypes ==
  ASSUME WInv, NEW run \in Run, Readable(run)
  PROVE  /\ get_signals_per_clk(run, Signal) \in Seq(State)
         /\ get_signals_per_change(run, Signal) \in Seq(State)
<1>1. get_signals_per_clk(run, Signal) = cycles[run]
  BY ReadsCycles DEF SamplesAreCycles
<1>2. PICK seq : /\ Lists(run, Len(cycles[run]), seq)
                 /\ get_signals_per_change(run, Signal) = seq[Len(cycles[run])]
  BY Passes, Zenon
<1>3. Len(cycles[run]) \in 0 .. Len(cycles[run])
  BY Samples
<1> QED
  BY <1>1, <1>2, <1>3 DEF WInv, Lists

(* Equal runs match and others do not, with and without --timing and --diff, *)
(* as far as the lists have one length.                                      *)
THEOREM ComparisonCorrect == Spec => []ComparisonVerdict
<1>1. ASSUME WInv, BothReadable,
             NEW timing \in BOOLEAN, NEW early_out \in BOOLEAN
      PROVE  LET mine == Extracted("first", Signal, timing)
                 other == Extracted("second", Signal, timing)
                 match == compare_signals(Signal, timing)
                 verdict == compare_display_diff(Signal, timing, early_out)
             IN  /\ match => verdict = "True"
                 /\ ~ match /\ Len(mine) = Len(other) => verdict = "False"
  <2>1. /\ "first" \in Run /\ "second" \in Run
        /\ Readable("first") /\ Readable("second")
    BY <1>1 DEF Run, BothReadable
  <2>2. PICK mine \in Seq(State), other \in Seq(State) :
          /\ mine = Extracted("first", Signal, timing)
          /\ other = Extracted("second", Signal, timing)
    BY <1>1, <2>1, ListTypes DEF Extracted
  <2>3. compare_signals(Signal, timing) <=> mine = other
    BY <2>2 DEF compare_signals
  <2>4. compare_display_diff(Signal, timing, early_out) = Walk(mine, other, early_out)
    BY <2>2 DEF compare_display_diff
  <2> QED
    BY <2>2, <2>3, <2>4, Verdict
<1>2. ASSUME WInv, BothReadable
      PROVE  compare_signals(Signal, TRUE) <=> cycles["first"] = cycles["second"]
  <2>1. "first" \in Run /\ "second" \in Run /\ Readable("first") /\ Readable("second")
    BY <1>2 DEF Run, BothReadable
  <2>2. \A run \in {"first", "second"} : get_signals_per_clk(run, Signal) = cycles[run]
    BY <1>2, <2>1, ReadsCycles DEF SamplesAreCycles
  <2> QED
    BY <2>2 DEF compare_signals, Extracted
<1>3. WInv => ComparisonVerdict
  BY <1>1, <1>2, EqualRunsMatch DEF ComparisonVerdict
<1> QED
  BY <1>3, AlwaysWInv, PTL

-----------------------------------------------------------------------------
(* After k samples the list holds the cycles of Shown up to k, and its last  *)
(* element is the last instruction retired up to k.                          *)
ShownUpTo(run, k) == {j \in Shown(run) : j <= k}

Represents(list, run, k, at) ==
  /\ at \in [1 .. Len(list) -> ShownUpTo(run, k)]
  /\ \A m, n \in 1 .. Len(list) : m < n => at[m] < at[n]
  /\ \A j \in ShownUpTo(run, k) : \E n \in 1 .. Len(list) : at[n] = j
  /\ \A n \in 1 .. Len(list) : list[n] = cycles[run][at[n]]

EndsWith(list, run, k) ==
  \/ list = <<>> /\ \A j \in 1 .. k : ~Retires(run, j)
  \/ /\ list # <<>>
     /\ \E j \in 1 .. k : /\ Retires(run, j) /\ \A m \in j + 1 .. k : ~Retires(run, m)
                          /\ Last(list) = cycles[run][j]

Covers(list, run, k) ==
  EndsWith(list, run, k) /\ \E at : Represents(list, run, k, at)

LEMMA CoversNothing ==
  ASSUME WInv, NEW run \in Run
  PROVE  Covers(<<>>, run, 0)
<1>1. Shown(run) \subseteq Nat \ {0}
  BY DEF Shown, WInv
<1>2. ShownUpTo(run, 0) = {}
  BY <1>1 DEF ShownUpTo
<1>3. EndsWith(<<>>, run, 0)
  BY DEF EndsWith
<1>4. Represents(<<>>, run, 0, [n \in 1 .. 0 |-> 0])
  <2>1. Len(<<>>) = 0 /\ \A n \in 1 .. 0 : FALSE
    OBVIOUS
  <2> QED
    BY <1>2, <2>1 DEF Represents
<1> QED
  BY <1>3, <1>4, Zenon DEF Covers

(* A cycle that is not shown leaves the list as it is.                       *)
LEMMA CoversSkipped ==
  ASSUME WInv, NEW run \in Run, NEW k \in 1 .. Len(cycles[run]), NEW list \in Seq(State),
         Covers(list, run, k - 1), k \notin Shown(run), EndsWith(list, run, k)
  PROVE  Covers(list, run, k)
<1>1. k \in Nat /\ Shown(run) \subseteq Nat
  BY DEF Shown, WInv
<1>2. ShownUpTo(run, k) = ShownUpTo(run, k - 1)
  BY <1>1 DEF ShownUpTo
<1> QED
  BY <1>2, Zenon DEF Covers, Represents

LEMMA CoversAppended ==
  ASSUME WInv, NEW run \in Run, NEW k \in 1 .. Len(cycles[run]), NEW list \in Seq(State),
         Covers(list, run, k - 1), k \in Shown(run)
  PROVE  Covers(Append(list, cycles[run][k]), run, k)
<1>1. k \in Nat /\ Shown(run) \subseteq Nat /\ cycles[run][k] \in State
  BY SampleOfCycle DEF Shown, WInv
<1>2. ShownUpTo(run, k) = ShownUpTo(run, k - 1) \cup {k}
  BY <1>1 DEF ShownUpTo
<1>3. PICK at : Represents(list, run, k - 1, at)
  BY Zenon DEF Covers
<1>4. PICK more : more = Append(list, cycles[run][k])
  OBVIOUS
<1>5. PICK n \in Nat : n = Len(list)
  BY LenProperties
<1>6. /\ more \in Seq(State) /\ Len(more) = n + 1 /\ more # <<>>
      /\ more[n + 1] = cycles[run][k] /\ \A m \in 1 .. n : more[m] = list[m]
  BY <1>1, <1>4, <1>5
<1>7. PICK place : place = [m \in 1 .. n + 1 |-> IF m <= n THEN at[m] ELSE k]
  OBVIOUS
<1>8. /\ \A m \in 1 .. n : place[m] = at[m] /\ at[m] \in ShownUpTo(run, k - 1)
      /\ place[n + 1] = k
  BY <1>3, <1>5, <1>7 DEF Represents
<1>9. \A m \in 1 .. n + 1 : m \in 1 .. n \/ m = n + 1
  BY <1>5
<1>10. place \in [1 .. n + 1 -> ShownUpTo(run, k)]
  BY <1>2, <1>7, <1>8, <1>9
<1>11. ASSUME NEW m \in 1 .. n + 1, NEW j \in 1 .. n + 1, m < j PROVE place[m] < place[j]
  <2>1. CASE j = n + 1
    <3>1. m \in 1 .. n
      BY <1>5, <1>11, <2>1
    <3>2. place[m] \in ShownUpTo(run, k - 1) /\ place[j] = k
      BY <1>8, <2>1, <3>1
    <3> QED
      BY <1>1, <3>2 DEF ShownUpTo
  <2>2. CASE j \in 1 .. n
    <3>1. m \in 1 .. n
      BY <1>5, <1>11, <2>2
    <3>2. at[m] < at[j]
      BY <1>3, <1>5, <1>11, <2>2, <3>1 DEF Represents
    <3> QED
      BY <1>8, <2>2, <3>1, <3>2
  <2> QED
    BY <1>9, <2>1, <2>2
<1>12. ASSUME NEW j \in ShownUpTo(run, k) PROVE \E m \in 1 .. n + 1 : place[m] = j
  <2>1. CASE j = k
    <3>1. n + 1 \in 1 .. n + 1
      BY <1>5
    <3> QED
      BY <1>8, <2>1, <3>1
  <2>2. CASE j \in ShownUpTo(run, k - 1)
    <3>1. PICK m \in 1 .. n : at[m] = j
      BY <1>3, <1>5, <2>2 DEF Represents
    <3>2. m \in 1 .. n + 1 /\ place[m] = j
      BY <1>5, <1>8, <3>1
    <3> QED
      BY <3>2
  <2> QED
    BY <1>2, <2>1, <2>2
<1>13. ASSUME NEW m \in 1 .. n + 1 PROVE more[m] = cycles[run][place[m]]
  <2>1. CASE m = n + 1
    BY <1>6, <1>8, <2>1
  <2>2. CASE m \in 1 .. n
    BY <1>3, <1>5, <1>6, <1>8, <2>2 DEF Represents
  <2> QED
    BY <1>9, <2>1, <2>2
<1>14. Represents(more, run, k, place)
  BY <1>6, <1>10, <1>11, <1>12, <1>13, Zenon DEF Represents
<1>15. EndsWith(more, run, k)
  <2>1. Last(more) = cycles[run][k] /\ Retires(run, k) /\ k \in 1 .. k
    BY <1>5, <1>6 DEF Last, Shown
  <2>2. \A m \in k + 1 .. k : FALSE
    BY <1>1
  <2> QED
    BY <1>6, <2>1, <2>2, Zenon DEF EndsWith
<1> QED
  BY <1>4, <1>14, <1>15, Zenon DEF Covers

(* The pass for cycle k.                                                     *)
LEMMA CoversStep ==
  ASSUME WInv, NEW run \in Run, NEW k \in 1 .. Len(cycles[run]), NEW list \in Seq(State),
         Covers(list, run, k - 1)
  PROVE  Covers(Keep(run, Signal, list, CLOCK_PERIOD * (k - 1)), run, k)
<1>1. k \in Nat \ {0} /\ k \in DOMAIN cycles[run]
  BY DEF WInv
<1>2. CASE ~Retires(run, k)
  <2>1. k \notin Shown(run)
    BY <1>2 DEF Shown
  <2>2. EndsWith(list, run, k)
    <3>1. EndsWith(list, run, k - 1)
      BY DEF Covers
    <3>2. CASE list = <<>> /\ \A j \in 1 .. k - 1 : ~Retires(run, j)
      <4>1. \A j \in 1 .. k : j = k \/ j \in 1 .. k - 1
        BY <1>1
      <4> QED
        BY <1>2, <3>2, <4>1 DEF EndsWith
    <3>3. ASSUME list # <<>>, NEW j \in 1 .. k - 1, Retires(run, j),
                 \A m \in j + 1 .. k - 1 : ~Retires(run, m), Last(list) = cycles[run][j]
          PROVE  EndsWith(list, run, k)
      <4>1. j \in 1 .. k /\ \A m \in j + 1 .. k : m = k \/ m \in j + 1 .. k - 1
        BY <1>1
      <4> QED
        BY <1>2, <3>3, <4>1 DEF EndsWith
    <3> QED
      BY <3>1, <3>2, <3>3, Zenon DEF EndsWith
  <2> QED
    BY <1>2, <2>1, <2>2, CoversSkipped, KeepSample
<1>3. CASE Retires(run, k) /\ list # <<>> /\ cycles[run][k] = Last(list)
  <2>1. PICK j \in 1 .. k - 1 : /\ Retires(run, j)
                                /\ \A m \in j + 1 .. k - 1 : ~Retires(run, m)
                                /\ Last(list) = cycles[run][j]
    BY <1>3 DEF Covers, EndsWith
  <2>2. k \notin Shown(run)
    BY <1>3, <2>1 DEF Shown
  <2>3. k \in 1 .. k /\ \A m \in k + 1 .. k : FALSE
    BY <1>1
  <2>4. EndsWith(list, run, k)
    BY <1>3, <2>3 DEF EndsWith
  <2> QED
    BY <1>3, <2>2, <2>4, CoversSkipped, KeepSample
<1>4. CASE Retires(run, k) /\ ~(list # <<>> /\ cycles[run][k] = Last(list))
  <2>1. ASSUME NEW j \in 1 .. k - 1, Retires(run, j), \A n \in j + 1 .. k - 1 : ~Retires(run, n)
        PROVE  cycles[run][j] # cycles[run][k]
    <3>1. PICK i \in 1 .. k - 1 : /\ Retires(run, i) /\ list # <<>>
                                  /\ \A m \in i + 1 .. k - 1 : ~Retires(run, m)
                                  /\ Last(list) = cycles[run][i]
      BY <2>1, Zenon DEF Covers, EndsWith
    <3>2. ~(i < j) /\ ~(j < i)
      BY <1>1, <2>1, <3>1
    <3>3. i = j
      BY <1>1, <3>2
    <3> QED
      BY <1>4, <3>1, <3>3
  <2>2. k \in Shown(run)
    BY <1>1, <1>4, <2>1 DEF Shown
  <2> QED
    BY <1>4, <2>2, CoversAppended, KeepSample
<1> QED
  BY <1>2, <1>3, <1>4

LEMMA CoversAll ==
  ASSUME WInv, NEW run \in Run, Readable(run)
  PROVE  Covers(get_signals_per_change(run, Signal), run, Len(cycles[run]))
<1>1. PICK n \in Nat : n = Len(cycles[run])
  BY Samples
<1>2. PICK seq : Lists(run, n, seq) /\ get_signals_per_change(run, Signal) = seq[n]
  BY <1>1, Passes, Zenon
<1>3. PICK T : T = {k \in 0 .. n : Covers(seq[k], run, k)}
  OBVIOUS
<1>4. 0 \in T
  <2>1. 0 \in 0 .. n /\ seq[0] = <<>>
    BY <1>2 DEF Lists
  <2> QED
    BY <1>3, <2>1, CoversNothing
<1>5. ASSUME NEW k \in 0 .. n - 1, k \in T PROVE k + 1 \in T
  <2>1. k + 1 \in 1 .. n /\ k + 1 \in 0 .. n /\ (k + 1) - 1 = k /\ k \in 0 .. n
    OBVIOUS
  <2>2. /\ seq[k + 1] = Keep(run, Signal, seq[k], CLOCK_PERIOD * ((k + 1) - 1))
        /\ seq[k] \in Seq(State)
    BY <1>2, <2>1 DEF Lists
  <2>3. Covers(seq[k], run, (k + 1) - 1)
    BY <1>3, <1>5, <2>1
  <2>4. Covers(seq[k + 1], run, k + 1)
    BY <1>1, <2>1, <2>2, <2>3, CoversStep
  <2> QED
    BY <1>3, <2>1, <2>4
<1>6. \A k \in 0 .. n : k \in T
  BY <1>4, <1>5, RangeInduction
<1>7. n \in T
  BY <1>6
<1> QED
  BY <1>1, <1>2, <1>3, <1>7

(* The list without timing is the shown retirements, each once and in order. *)
THEOREM ChangesCorrect == Spec => []ChangesAreRetirements
<1>1. WInv => ChangesAreRetirements
  <2> SUFFICES ASSUME WInv, NEW run \in Run, Readable(run)
               PROVE  LET seq == get_signals_per_change(run, Signal)
                      IN  \E at \in [DOMAIN seq -> Shown(run)] :
                            /\ \A m, n \in DOMAIN seq : m < n => at[m] < at[n]
                            /\ \A k \in Shown(run) : \E n \in DOMAIN seq : at[n] = k
                            /\ \A n \in DOMAIN seq : seq[n] = cycles[run][at[n]]
    BY DEF ChangesAreRetirements
  <2> DEFINE seq == get_signals_per_change(run, Signal)
  <2> HIDE DEF seq
  <2>1. seq \in Seq(State) /\ DOMAIN seq = 1 .. Len(seq)
    BY ListTypes DEF seq
  <2>2. ShownUpTo(run, Len(cycles[run])) = Shown(run)
    BY DEF ShownUpTo, Shown, WInv
  <2>3. PICK at : Represents(seq, run, Len(cycles[run]), at)
    BY CoversAll, Zenon DEF Covers, seq
  <2>4. /\ at \in [DOMAIN seq -> Shown(run)]
        /\ \A m, n \in DOMAIN seq : m < n => at[m] < at[n]
        /\ \A k \in Shown(run) : \E n \in DOMAIN seq : at[n] = k
        /\ \A n \in DOMAIN seq : seq[n] = cycles[run][at[n]]
    BY <2>1, <2>2, <2>3 DEF Represents
  <2> QED
    BY <2>4, Zenon DEF seq
<1> QED
  BY <1>1, AlwaysWInv, PTL

-----------------------------------------------------------------------------
(* get_high_rate: count[k] is the sum over the first k changes.              *)
Low(c) == {k \in DOMAIN c : c[k][active] = 0}

Inside(c) ==
  {k \in DOMAIN c : /\ k \notin Low(c)
                    /\ \E j \in Low(c) : j < k
                    /\ \E j \in Low(c) : j > k}

Counts(all, n, count) ==
  /\ count \in [0 .. n -> Int]
  /\ count[0] = 0
  /\ \A k \in 1 .. n :
       count[k] = IF k > 1 /\ CountsAsHigh(all[k - 1], all[k])
                  THEN count[k - 1] + (all[k].t - all[k - 1].t) \div CLOCK_PERIOD
                  ELSE count[k - 1]

LEMMA Sums ==
  ASSUME WInv, NEW run \in Run
  PROVE  \E count : /\ Counts(changes[run][active], Len(changes[run][active]), count)
                    /\ HighCount(run, active) = count[Len(changes[run][active])]
<1>1. PICK all : all = changes[run][active]
  OBVIOUS
<1>2. all \in Seq(Record) /\ active \in Signal
  BY <1>1 DEF WInv, Signal
<1>3. PICK n \in Nat : n = Len(all)
  BY <1>2, LenProperties
<1>4. \A k \in 1 .. n : all[k].t \in Nat
  <2>1. \A k \in 1 .. n : all[k] \in Record
    BY <1>2, <1>3
  <2> QED
    BY <2>1 DEF Record
<1>5. \A k \in 1 .. n : k > 1 => (all[k].t - all[k - 1].t) \div CLOCK_PERIOD \in Int
  <2> TAKE k \in 1 .. n
  <2> HAVE k > 1
  <2>1. k - 1 \in 1 .. n
    OBVIOUS
  <2>2. all[k].t \in Nat /\ all[k - 1].t \in Nat
    BY <1>4, <2>1
  <2>3. PICK d \in Int : d = all[k].t - all[k - 1].t
    BY <2>2
  <2>4. d \div CLOCK_PERIOD \in Int
    BY WaveformAssumption
  <2> QED
    BY <2>3, <2>4
<1> DEFINE Sum(k, sum) ==
      IF k > 1 /\ CountsAsHigh(all[k - 1], all[k])
      THEN sum + (all[k].t - all[k - 1].t) \div CLOCK_PERIOD
      ELSE sum
<1>6. \A k \in 1 .. n, sum \in Int : Sum(k, sum) \in Int
  BY <1>5
<1> DEFINE Loop(count) ==
      count = [k \in 0 .. Len(all) |-> IF k = 0 THEN 0 ELSE Sum(k, count[k - 1])]
<1>7. HighCount(run, active) = (CHOOSE count : Loop(count))[n]
  BY <1>1, <1>3, Zenon DEF HighCount
<1>8. \E f \in [0 .. n -> Int] : f[0] = 0 /\ \A k \in 1 .. n : f[k] = Sum(k, f[k - 1])
  <2> HIDE DEF Sum
  <2>1. PICK step : step = [k \in 1 .. n |-> [sum \in Int |-> Sum(k, sum)]]
    OBVIOUS
  <2>2. step \in [1 .. n -> [Int -> Int]]
    BY <1>6, <2>1
  <2>3. PICK f \in [0 .. n -> Int] : f[0] = 0 /\ \A k \in 1 .. n : f[k] = step[k][f[k - 1]]
    <3>1. 0 \in Int
      OBVIOUS
    <3>2. \E f : Iterates(f, n, Int, 0, step)
      BY <2>2, <3>1, Recursion, Zenon
    <3> QED
      BY <3>2 DEF Iterates
  <2>4. \A k \in 1 .. n : f[k - 1] \in Int /\ step[k] = [sum \in Int |-> Sum(k, sum)]
    BY <2>1
  <2>5. \A k \in 1 .. n : f[k] = Sum(k, f[k - 1])
    BY <2>3, <2>4, ZenonT(20)
  <2> QED
    BY <2>3, <2>5
<1> HIDE DEF Sum
<1>9. PICK f \in [0 .. n -> Int] : f[0] = 0 /\ \A k \in 1 .. n : f[k] = Sum(k, f[k - 1])
  BY <1>8, Zenon
<1>10. Loop(f)
  BY <1>3, <1>9
<1>11. PICK count : count = CHOOSE g : Loop(g)
  OBVIOUS
<1>12. Loop(count)
  BY <1>10, <1>11, Zenon
<1>13. /\ count = [k \in 0 .. n |-> count[k]]
       /\ count[0] = 0
       /\ \A k \in 1 .. n : count[k] = Sum(k, count[k - 1])
  BY <1>3, <1>12
<1> HIDE DEF Loop
<1>14. PICK T : T = {k \in 0 .. n : count[k] \in Int}
  OBVIOUS
<1>15. 0 \in T
  BY <1>13, <1>14
<1>16. ASSUME NEW k \in 0 .. n - 1, k \in T PROVE k + 1 \in T
  <2>1. k + 1 \in 1 .. n /\ (k + 1) - 1 = k /\ count[k] \in Int
    BY <1>14, <1>16
  <2>2. count[k + 1] \in Int
    BY <1>6, <1>13, <2>1
  <2> QED
    BY <1>14, <2>1, <2>2
<1>17. \A k \in 0 .. n : k \in T
  BY <1>15, <1>16, RangeInduction
<1>18. \A k \in 0 .. n : count[k] \in Int
  BY <1>14, <1>17
<1>19. Counts(all, n, count)
  BY <1>13, <1>18 DEF Counts, Sum
<1> QED
  BY <1>1, <1>3, <1>7, <1>11, <1>19

(* What lies between two changes of the signal counts if it is high and not  *)
(* from the start on.                                                        *)
LEMMA Interval ==
  ASSUME NEW c, NEW all, Records(c, all, active),
         NEW at \in [1 .. Len(all) -> 1 .. Len(c)], Placed(c, all, active, at),
         NEW k \in 1 .. Len(all) - 1
  PROVE  /\ at[k] \in 1 .. Len(c) /\ at[k + 1] \in 1 .. Len(c) /\ at[k] < at[k + 1]
         /\ CountsAsHigh(all[k], all[k + 1]) =>
              /\ at[k] .. at[k + 1] - 1 \subseteq Inside(c)
              /\ (all[k + 1].t - all[k].t) \div CLOCK_PERIOD = at[k + 1] - at[k]
         /\ ~CountsAsHigh(all[k], all[k + 1]) =>
              (at[k] .. at[k + 1] - 1) \cap Inside(c) = {}
<1>1. /\ c \in Seq(State) /\ Len(c) \in Nat /\ DOMAIN c = 1 .. Len(c)
      /\ Len(all) \in Nat
  BY DEF Records
<1>2. k \in 1 .. Len(all) /\ k + 1 \in 1 .. Len(all)
  BY <1>1
<1>3. /\ at[k] \in 1 .. Len(c) /\ at[k + 1] \in 1 .. Len(c) /\ at[k] < at[k + 1]
      /\ all[k].v # all[k + 1].v
      /\ \A m \in at[k] .. at[k + 1] - 1 : c[m][active] = all[k].v
  BY <1>2 DEF Placed
<1>4. \A j \in 1 .. Len(all) : /\ all[j].t = TimeOfCycle(at[j])
                               /\ all[j].v = c[at[j]][active]
                               /\ all[j].v \in {0, 1}
  <2> TAKE j \in 1 .. Len(all)
  <2>1. at[j] \in 1 .. Len(c) /\ all[j] = [t |-> TimeOfCycle(at[j]), v |-> c[at[j]][active]]
    BY DEF Placed
  <2>2. c[at[j]] \in State
    BY <1>1, <2>1
  <2> QED
    BY <2>1, <2>2 DEF State
<1>5. all[k].v = 1 <=> all[k + 1].v = 0
  BY <1>2, <1>3, <1>4
<1>6. TimeOfCycle(at[k]) = 0 <=> at[k] = 1
  BY <1>3, EdgeTimes DEF TimeOfCycle
<1>7. \A m \in at[k] .. at[k + 1] - 1 : m \in DOMAIN c
  BY <1>1, <1>3, Between
<1>8. CASE CountsAsHigh(all[k], all[k + 1])
  <2>1. all[k].v = 1 /\ at[k] > 1 /\ all[k + 1].v = 0
    BY <1>2, <1>3, <1>4, <1>5, <1>6, <1>8 DEF CountsAsHigh
  <2>2. k - 1 \in 1 .. Len(all) - 1 /\ k - 1 \in 1 .. Len(all) /\ (k - 1) + 1 = k
    <3>1. k # 1
      BY <2>1 DEF Placed
    <3> QED
      BY <1>1, <3>1
  <2>3. /\ at[k - 1] \in 1 .. Len(c) /\ at[k - 1] < at[k]
        /\ all[k - 1].v # all[k].v
    BY <2>2 DEF Placed
  <2>4. at[k - 1] \in Low(c) /\ at[k + 1] \in Low(c)
    BY <1>1, <1>2, <1>3, <1>4, <2>1, <2>2, <2>3 DEF Low
  <2>5. ASSUME NEW m \in at[k] .. at[k + 1] - 1 PROVE m \in Inside(c)
    <3>1. m \notin Low(c) /\ m \in DOMAIN c
      BY <1>3, <1>7, <2>1 DEF Low
    <3>2. at[k - 1] < m /\ at[k + 1] > m
      BY <1>3, <2>3
    <3> QED
      BY <2>4, <3>1, <3>2 DEF Inside
  <2>6. (all[k + 1].t - all[k].t) \div CLOCK_PERIOD = at[k + 1] - at[k]
    <3>1. PICK m \in Nat, n \in Nat : m = at[k] /\ n = at[k + 1] /\ 1 < m /\ m < n
      BY <1>3, <2>1
    <3>2. all[k].t = TimeOfCycle(m) /\ all[k + 1].t = TimeOfCycle(n)
      BY <1>2, <1>4, <3>1
    <3> QED
      BY <3>1, <3>2, TimesApart
  <2> QED
    BY <1>3, <1>8, <2>5, <2>6
<1>9. CASE ~CountsAsHigh(all[k], all[k + 1])
  <2>1. all[k].v = 0 \/ (all[k].v = 1 /\ at[k] = 1)
    BY <1>2, <1>4, <1>5, <1>6, <1>9 DEF CountsAsHigh
  <2>2. ASSUME NEW m \in at[k] .. at[k + 1] - 1, m \in Inside(c) PROVE FALSE
    <3>1. CASE all[k].v = 0
      BY <1>3, <1>7, <2>2, <3>1 DEF Inside, Low
    <3>2. CASE all[k].v = 1 /\ at[k] = 1
      <4>1. PICK j \in Low(c) : j < m
        BY <2>2 DEF Inside
      <4>2. j \in at[k] .. at[k + 1] - 1
        BY <1>1, <1>3, <3>2, <4>1 DEF Low
      <4> QED
        BY <1>3, <3>2, <4>1, <4>2 DEF Low
    <3> QED
      BY <2>1, <3>1, <3>2
  <2> QED
    BY <1>3, <1>9, <2>2
<1> QED
  BY <1>8, <1>9

(* The cycles inside before the k-th change.                                 *)
InsideBefore(c, at, k) == {m \in Inside(c) : m < at[k]}

LEMMA Span ==
  ASSUME NEW m \in Int, NEW n \in Int, m <= n
  PROVE  IsFiniteSet(m .. n - 1) /\ Cardinality(m .. n - 1) = n - m
<1>1. PICK b \in Int : b = n - 1
  OBVIOUS
<1>2. IsFiniteSet(m .. b) /\ Cardinality(m .. b) = IF m > b THEN 0 ELSE b - m + 1
  BY FS_Interval
<1> QED
  BY <1>1, <1>2

LEMMA DisjointUnion ==
  ASSUME NEW S, IsFiniteSet(S), NEW T, IsFiniteSet(T), S \cap T = {}
  PROVE  Cardinality(S \cup T) = Cardinality(S) + Cardinality(T)
<1>1. Cardinality(S \cap T) = 0
  BY FS_EmptySet
<1>2. Cardinality(S) \in Nat /\ Cardinality(T) \in Nat
  BY FS_CardinalityType
<1>3. Cardinality(S \cup T) = Cardinality(S) + Cardinality(T) - Cardinality(S \cap T)
  BY FS_Union, Zenon
<1> QED
  BY <1>1, <1>2, <1>3

LEMMA InsideFinite ==
  ASSUME NEW c \in Seq(State)
  PROVE  IsFiniteSet(Inside(c)) /\ Inside(c) \subseteq 2 .. Len(c) - 1
<1>1. Inside(c) \subseteq 2 .. Len(c) - 1
  <2>1. Len(c) \in Nat /\ DOMAIN c = 1 .. Len(c)
    OBVIOUS
  <2> QED
    BY <2>1 DEF Inside, Low
<1>2. IsFiniteSet(2 .. Len(c) - 1)
  <2>1. PICK b \in Int : b = Len(c) - 1
    OBVIOUS
  <2> QED
    BY <2>1, FS_Interval
<1> QED
  BY <1>1, <1>2, FS_Subset

LEMMA CountStep ==
  ASSUME NEW c, NEW all, Records(c, all, active),
         NEW at \in [1 .. Len(all) -> 1 .. Len(c)], Placed(c, all, active, at),
         NEW count, Counts(all, Len(all), count),
         NEW k \in 1 .. Len(all) - 1,
         count[k] = Cardinality(InsideBefore(c, at, k))
  PROVE  count[k + 1] = Cardinality(InsideBefore(c, at, k + 1))
<1>1. c \in Seq(State) /\ Len(c) \in Nat /\ Len(all) \in Nat
  BY DEF Records
<1>2. k + 1 \in 1 .. Len(all) /\ k + 1 > 1 /\ (k + 1) - 1 = k
  BY <1>1
<1>3. at[k] \in Nat /\ at[k + 1] \in Nat /\ at[k] < at[k + 1]
  BY Interval
<1>4. PICK between : between = at[k] .. at[k + 1] - 1
  OBVIOUS
<1>5. /\ InsideBefore(c, at, k + 1) = InsideBefore(c, at, k) \cup (between \cap Inside(c))
      /\ InsideBefore(c, at, k) \cap between = {}
  <2>1. Inside(c) \subseteq Int
    <3>1. Inside(c) \subseteq 2 .. Len(c) - 1
      BY <1>1, InsideFinite
    <3> QED
      BY <3>1
  <2> QED
    BY <1>3, <1>4, <2>1 DEF InsideBefore
<1>6. IsFiniteSet(InsideBefore(c, at, k)) /\ Cardinality(InsideBefore(c, at, k)) \in Nat
  <2>1. IsFiniteSet(Inside(c)) /\ InsideBefore(c, at, k) \subseteq Inside(c)
    BY <1>1, InsideFinite DEF InsideBefore
  <2> QED
    BY <2>1, FS_Subset, FS_CardinalityType
<1>7. count[k + 1] = IF CountsAsHigh(all[k], all[k + 1])
                     THEN count[k] + (all[k + 1].t - all[k].t) \div CLOCK_PERIOD
                     ELSE count[k]
  BY <1>2 DEF Counts
<1>8. CASE CountsAsHigh(all[k], all[k + 1])
  <2>1. /\ between \cap Inside(c) = between
        /\ (all[k + 1].t - all[k].t) \div CLOCK_PERIOD = at[k + 1] - at[k]
    BY <1>4, <1>8, Interval
  <2>2. IsFiniteSet(between) /\ Cardinality(between) = at[k + 1] - at[k]
    BY <1>3, <1>4, Span
  <2>3. Cardinality(InsideBefore(c, at, k + 1))
          = Cardinality(InsideBefore(c, at, k)) + Cardinality(between)
    BY <1>5, <1>6, <2>1, <2>2, DisjointUnion
  <2> QED
    BY <1>7, <1>8, <2>1, <2>2, <2>3
<1>9. CASE ~CountsAsHigh(all[k], all[k + 1])
  <2>1. between \cap Inside(c) = {}
    BY <1>4, <1>9, Interval
  <2> QED
    BY <1>5, <1>7, <1>9, <2>1
<1> QED
  BY <1>8, <1>9

LEMMA CountAll ==
  ASSUME WInv, NEW run \in Run
  PROVE  HighCount(run, active) = Cardinality(Inside(cycles[run]))
<1>1. PICK c, all : c = cycles[run] /\ all = changes[run][active]
  OBVIOUS
<1>2. Records(c, all, active)
  BY <1>1 DEF WInv, Signal
<1>3. PICK at \in [1 .. Len(all) -> 1 .. Len(c)] : Placed(c, all, active, at)
  BY <1>2, Zenon DEF Records
<1>4. PICK n \in Nat \ {0} : n = Len(all)
  BY <1>2 DEF Records
<1>5. PICK count : Counts(all, n, count) /\ HighCount(run, active) = count[n]
  BY <1>1, <1>4, Sums, Zenon
<1>6. /\ c \in Seq(State) /\ Len(c) \in Nat /\ DOMAIN c = 1 .. Len(c)
      /\ Inside(c) \subseteq 2 .. Len(c) - 1
  <2>1. c \in Seq(State)
    BY <1>2 DEF Records
  <2> QED
    BY <2>1, InsideFinite
<1>7. PICK T : T = {k \in 1 .. n : count[k] = Cardinality(InsideBefore(c, at, k))}
  OBVIOUS
<1>8. 1 \in T
  <2>1. count[1] = 0
    <3>1. 1 \in 1 .. n /\ ~(1 > 1) /\ 1 - 1 = 0
      BY <1>4
    <3> QED
      BY <1>5, <3>1, Zenon DEF Counts
  <2>2. InsideBefore(c, at, 1) = {}
    BY <1>3, <1>6 DEF InsideBefore, Placed
  <2> QED
    <3>1. Cardinality(InsideBefore(c, at, 1)) = 0 /\ 1 \in 1 .. n
      BY <1>4, <2>2, FS_EmptySet
    <3> QED
      BY <1>7, <2>1, <3>1
<1>9. ASSUME NEW k \in 1 .. n - 1, k \in T PROVE k + 1 \in T
  <2>1. count[k] = Cardinality(InsideBefore(c, at, k)) /\ k + 1 \in 1 .. n
    BY <1>4, <1>7, <1>9
  <2>2. count[k + 1] = Cardinality(InsideBefore(c, at, k + 1))
    BY <1>2, <1>3, <1>4, <1>5, <2>1, CountStep
  <2> QED
    BY <1>7, <2>1, <2>2
<1>10. \A k \in 1 .. n : k \in T
  BY <1>8, <1>9, RangeInduction
<1>11. count[n] = Cardinality(InsideBefore(c, at, n))
  BY <1>7, <1>10
<1>12. InsideBefore(c, at, n) = Inside(c)
  <2>1. ASSUME NEW m \in Inside(c), ~(m < at[n]) PROVE FALSE
    <3>1. n \in 1 .. Len(all) /\ at[n] \in 1 .. Len(c)
      BY <1>3, <1>4
    <3>2. PICK j \in Low(c) : j > m
      BY <2>1 DEF Inside
    <3>3. m \in at[n] .. Len(c) /\ j \in at[n] .. Len(c)
      BY <1>6, <2>1, <3>1, <3>2 DEF Low
    <3>4. c[m][active] = c[j][active]
      BY <1>3, <1>4, <3>3 DEF Placed
    <3> QED
      BY <1>6, <2>1, <3>2, <3>4 DEF Inside, Low
  <2> QED
    BY <2>1 DEF InsideBefore
<1> QED
  BY <1>1, <1>5, <1>11, <1>12

(* The high cycles counted, and a rate of at most 1.                         *)
THEOREM RateCorrect == Spec => []HighRate
<1>1. WInv => HighRate
  <2> SUFFICES ASSUME WInv, NEW run \in Run, Readable(run)
               PROVE  /\ HighCount(run, active) = Cardinality(Inside(cycles[run]))
                      /\ HighCount(run, active) <= clock_count(run)
    BY Zenon DEF HighRate, Inside, Low
  <2>1. PICK n \in Nat : n = Len(cycles[run]) /\ n >= 3 /\ clock_count(run) = n - 2
    BY Samples
  <2>2. Inside(cycles[run]) \subseteq 2 .. n - 1
    BY <2>1, InsideFinite DEF WInv
  <2>3. IsFiniteSet(2 .. n - 1) /\ Cardinality(2 .. n - 1) = n - 2
    <3>1. IsFiniteSet(2 .. n - 1) /\ Cardinality(2 .. n - 1) = n - 2
      BY <2>1, Span
    <3> QED
      BY <3>1
  <2>4. Cardinality(Inside(cycles[run])) <= n - 2
    BY <2>2, <2>3, FS_Subset
  <2> QED
    BY <2>1, <2>4, CountAll
<1> QED
  BY <1>1, AlwaysWInv, PTL

-----------------------------------------------------------------------------
(* The loops over the lines of a file: what each has after one line more.    *)
Loops(f, V, start, step, lines) ==
  /\ f \in [0 .. Len(lines) -> V]
  /\ f[0] = start
  /\ \A n \in 1 .. Len(lines) : f[n] = step[<<f[n - 1], lines[n]>>]

LEMMA LoopExists ==
  ASSUME NEW V, NEW L, NEW start \in V, NEW step \in [V \X L -> V], NEW lines \in Seq(L)
  PROVE  \E f : Loops(f, V, start, step, lines)
<1>1. Len(lines) \in Nat /\ \A n \in 1 .. Len(lines) : lines[n] \in L
  OBVIOUS
<1>2. PICK last \in Nat : last = Len(lines)
  BY <1>1
<1>3. PICK pass : pass = [n \in 1 .. last |-> [x \in V |-> step[<<x, lines[n]>>]]]
  OBVIOUS
<1>4. ASSUME NEW n \in 1 .. last PROVE [x \in V |-> step[<<x, lines[n]>>]] \in [V -> V]
  BY <1>1, <1>2
<1>5. pass \in [1 .. last -> [V -> V]]
  BY <1>3, <1>4
<1>6. PICK f : Iterates(f, last, V, start, pass)
  BY <1>5, Recursion, Zenon
<1>7. f \in [0 .. last -> V] /\ f[0] = start
  BY <1>6 DEF Iterates
<1>8. ASSUME NEW n \in 1 .. last PROVE f[n] = step[<<f[n - 1], lines[n]>>]
  <2>1. f[n] = pass[n][f[n - 1]] /\ n - 1 \in 0 .. last
    BY <1>6 DEF Iterates
  <2>2. f[n - 1] \in V
    BY <1>7, <2>1
  <2> QED
    BY <1>3, <2>1, <2>2
<1> QED
  BY <1>2, <1>7, <1>8 DEF Loops

LEMMA Longer ==
  ASSUME NEW L, NEW lines \in Seq(L), NEW line \in L
  PROVE  /\ Append(lines, line) \in Seq(L)
         /\ Len(lines) \in Nat /\ Len(Append(lines, line)) = Len(lines) + 1
         /\ Append(lines, line)[Len(lines) + 1] = line
         /\ \A n \in 1 .. Len(lines) : Append(lines, line)[n] = lines[n]
OBVIOUS

-----------------------------------------------------------------------------
(* What is in the lines of a set.                                            *)
Names(L) == {line.name : line \in L}
Ids(L) == {line.id : line \in L}
Times(L) == {0} \cup {line.t : line \in L}
Values(L) == {line.v : line \in L}

-----------------------------------------------------------------------------
(* The reader of the declarations.                                           *)
DeclareStart == [path |-> <<>>, vars |-> {}]

Declared(lines) == ForLines(Declare, DeclareStart, lines)

DeclarePasses(f, lines) ==
  f = [n \in 0 .. Len(lines) |-> IF n = 0 THEN DeclareStart ELSE Declare(f[n - 1], lines[n])]

LEMMA VariablesAre == \A lines : Variables(lines) = Declared(lines).vars
BY DEF Variables, Declared, DeclareStart

Declaring(L) ==
  [path : Seq(Names(L)), vars : SUBSET (Seq(Names(L)) \X Ids(L))]

LEMMA DeclareTyped ==
  ASSUME NEW L, NEW r \in Declaring(L), NEW line \in L
  PROVE  Declare(r, line) \in Declaring(L)
<1>1. PICK N : N = Names(L)
  OBVIOUS
<1>2. PICK I : I = Ids(L)
  OBVIOUS
<1>3. PICK V : V = Declaring(L) /\ V = [path : Seq(N), vars : SUBSET (Seq(N) \X I)]
  BY <1>1, <1>2 DEF Declaring
<1> r \in V
  BY <1>3
<1>4. r.path \in Seq(N) /\ r.vars \in SUBSET (Seq(N) \X I) /\ line.name \in N /\ line.id \in I
  BY <1>1, <1>2, <1>3 DEF Names, Ids
<1>5. Append(r.path, line.name) \in Seq(N) /\ Front(r.path) \in Seq(N)
  BY <1>4 DEF Front
<1>6. CASE line.kind = "scope"
  BY <1>3, <1>4, <1>5, <1>6 DEF Declare
<1>7. CASE line.kind = "upscope"
  BY <1>3, <1>4, <1>5, <1>7 DEF Declare
<1>8. CASE line.kind = "var"
  <2>1. PICK S : S = Seq(N) \X I
    OBVIOUS
  <2>2. PICK x \in S : x = <<Append(r.path, line.name), line.id>>
    BY <1>4, <1>5, <2>1
  <2>3. PICK more \in SUBSET S : more = r.vars \cup {<<Append(r.path, line.name), line.id>>}
    BY <1>4, <2>1, <2>2
  <2>4. Declare(r, line) = [r EXCEPT !.vars = more]
    BY <1>8, <2>3 DEF Declare
  <2> QED
    BY <1>3, <2>1, <2>3, <2>4
<1>9. CASE line.kind \notin {"scope", "upscope", "var"}
  BY <1>3, <1>4, <1>9 DEF Declare
<1> QED
  BY <1>6, <1>7, <1>8, <1>9

LEMMA DeclareLoop ==
  ASSUME NEW L, NEW lines \in Seq(L)
  PROVE  \E f : DeclarePasses(f, lines) /\ Declared(lines) = f[Len(lines)]
<1>1. PICK V : V = Declaring(L)
  OBVIOUS
<1>2. DeclareStart \in V
  BY <1>1 DEF DeclareStart, Declaring
<1>3. \A r \in V, line \in L : Declare(r, line) \in V
  BY <1>1, DeclareTyped
<1>4. PICK step : step = [x \in V \X L |-> Declare(x[1], x[2])]
  OBVIOUS
<1>5. step \in [V \X L -> V]
  BY <1>3, <1>4
<1>6. PICK f : Loops(f, V, DeclareStart, step, lines)
  BY <1>2, <1>5, LoopExists
<1>7. ASSUME NEW n \in 1 .. Len(lines) PROVE f[n] = Declare(f[n - 1], lines[n])
  <2>1. f[n - 1] \in V /\ lines[n] \in L
    BY <1>6 DEF Loops
  <2> QED
    BY <1>4, <1>6, <2>1 DEF Loops
<1>8. DeclarePasses(f, lines)
  BY <1>6, <1>7 DEF DeclarePasses, Loops
<1>9. PICK after : after = CHOOSE g : DeclarePasses(g, lines)
  OBVIOUS
<1>10. DeclarePasses(after, lines)
  BY <1>8, <1>9, Zenon
<1>11. Declared(lines) = after[Len(lines)]
  BY <1>9, Zenon DEF Declared, ForLines, DeclarePasses
<1> QED
  BY <1>10, <1>11

LEMMA DeclareNothing == Declared(<<>>) = DeclareStart
<1>1. <<>> \in Seq({})
  OBVIOUS
<1>2. PICK f : DeclarePasses(f, <<>>) /\ Declared(<<>>) = f[Len(<<>>)]
  BY <1>1, DeclareLoop
<1> QED
  BY <1>2 DEF DeclarePasses

LEMMA DeclareOne ==
  ASSUME NEW L, NEW lines \in Seq(L), NEW line \in L
  PROVE  Declared(Append(lines, line)) = Declare(Declared(lines), line)
<1>1. PICK more \in Seq(L) : more = Append(lines, line)
  BY Longer
<1>2. PICK f : DeclarePasses(f, lines) /\ Declared(lines) = f[Len(lines)]
  BY DeclareLoop
<1>3. PICK g : DeclarePasses(g, more) /\ Declared(more) = g[Len(more)]
  BY DeclareLoop
<1>4. PICK last \in Nat : last = Len(lines) /\ Len(more) = last + 1 /\ more[last + 1] = line
  BY <1>1, Longer
<1>5. f[0] = g[0]
  BY <1>2, <1>3, <1>4 DEF DeclarePasses
<1>6. ASSUME NEW n \in 1 .. last, f[n - 1] = g[n - 1] PROVE f[n] = g[n]
  <2>1. n # 0 /\ n \in 0 .. last /\ n \in 0 .. last + 1 /\ more[n] = lines[n]
    BY <1>1, <1>4, Longer
  <2>2. f[n] = Declare(f[n - 1], lines[n])
    BY <1>2, <1>4, <2>1 DEF DeclarePasses
  <2>3. g[n] = Declare(g[n - 1], more[n])
    BY <1>3, <1>4, <2>1 DEF DeclarePasses
  <2> QED
    BY <1>6, <2>1, <2>2, <2>3
<1>7. f[last] = g[last]
  <2>1. Alike(f, g, last)
    BY <1>5, <1>6 DEF Alike
  <2> QED
    BY <2>1, SameSteps
<1>8. g[last + 1] = Declare(g[last], line)
  <2>1. last + 1 \in 0 .. last + 1 /\ last + 1 # 0 /\ (last + 1) - 1 = last
    OBVIOUS
  <2> QED
    BY <1>3, <1>4, <2>1 DEF DeclarePasses
<1> QED
  BY <1>1, <1>2, <1>3, <1>4, <1>7, <1>8

-----------------------------------------------------------------------------
(* The reader of one id's values.                                            *)
ValueStart == [t |-> 0, seq |-> <<>>]

Valued(id, lines) == ForLines(LAMBDA r, line : ReadValue(id, r, line), ValueStart, lines)

ValuePasses(id, f, lines) ==
  f = [n \in 0 .. Len(lines) |-> IF n = 0 THEN ValueStart ELSE ReadValue(id, f[n - 1], lines[n])]

LEMMA ChangesAre == \A lines, id : ChangesOf(lines, id) = Valued(id, lines).seq
BY DEF ChangesOf, Valued, ValueStart

Reading(L) == [t : Times(L), seq : Seq([t : Times(L), v : Values(L)])]

LEMMA ValueTyped ==
  ASSUME NEW id, NEW L, NEW r \in Reading(L), NEW line \in L
  PROVE  ReadValue(id, r, line) \in Reading(L)
<1>1. PICK T : T = Times(L)
  OBVIOUS
<1>2. PICK X : X = [t : T, v : Values(L)]
  OBVIOUS
<1>3. PICK V : V = Reading(L) /\ V = [t : T, seq : Seq(X)]
  BY <1>1, <1>2 DEF Reading
<1> r \in V
  BY <1>3
<1>4. r.t \in T /\ r.seq \in Seq(X) /\ line.t \in T
  BY <1>1, <1>3 DEF Times
<1>5. CASE line.kind = "time"
  BY <1>3, <1>4, <1>5 DEF ReadValue
<1>6. CASE line.kind = "value" /\ line.id = id
  <2>1. PICK x \in X : x = [t |-> r.t, v |-> line.v]
    BY <1>2, <1>4 DEF Values
  <2>2. PICK more \in Seq(X) : more = Append(r.seq, x)
    <3>1. Append(r.seq, x) \in Seq(X)
      BY <1>4, <2>1
    <3> QED
      BY <3>1
  <2>3. ReadValue(id, r, line) = [r EXCEPT !.seq = more]
    BY <1>6, <2>1, <2>2 DEF ReadValue
  <2>4. [r EXCEPT !.seq = more] \in V
    BY <1>3, <2>2
  <2> QED
    BY <1>3, <2>3, <2>4
<1>7. CASE line.kind # "time" /\ ~ (line.kind = "value" /\ line.id = id)
  BY <1>3, <1>7 DEF ReadValue
<1> QED
  BY <1>5, <1>6, <1>7

LEMMA ValueLoop ==
  ASSUME NEW id, NEW L, NEW lines \in Seq(L)
  PROVE  \E f : ValuePasses(id, f, lines) /\ Valued(id, lines) = f[Len(lines)]
<1>1. PICK V : V = Reading(L)
  OBVIOUS
<1>2. ValueStart \in V
  BY <1>1 DEF ValueStart, Reading, Times
<1>3. \A r \in V, line \in L : ReadValue(id, r, line) \in V
  BY <1>1, ValueTyped
<1>4. PICK step : step = [x \in V \X L |-> ReadValue(id, x[1], x[2])]
  OBVIOUS
<1>5. step \in [V \X L -> V]
  BY <1>3, <1>4
<1>6. PICK f : Loops(f, V, ValueStart, step, lines)
  BY <1>2, <1>5, LoopExists
<1>7. ASSUME NEW n \in 1 .. Len(lines) PROVE f[n] = ReadValue(id, f[n - 1], lines[n])
  <2>1. f[n - 1] \in V /\ lines[n] \in L
    BY <1>6 DEF Loops
  <2> QED
    BY <1>4, <1>6, <2>1 DEF Loops
<1>8. ValuePasses(id, f, lines)
  BY <1>6, <1>7 DEF ValuePasses, Loops
<1>9. PICK after : after = CHOOSE g : ValuePasses(id, g, lines)
  OBVIOUS
<1>10. ValuePasses(id, after, lines)
  BY <1>8, <1>9, Zenon
<1>11. Valued(id, lines) = after[Len(lines)]
  BY <1>9, Zenon DEF Valued, ForLines, ValuePasses
<1> QED
  BY <1>10, <1>11

LEMMA ValueNothing == \A id : Valued(id, <<>>) = ValueStart
<1> SUFFICES ASSUME NEW id PROVE Valued(id, <<>>) = ValueStart
  OBVIOUS
<1>1. <<>> \in Seq({})
  OBVIOUS
<1>2. PICK f : ValuePasses(id, f, <<>>) /\ Valued(id, <<>>) = f[Len(<<>>)]
  BY <1>1, ValueLoop
<1> QED
  BY <1>2 DEF ValuePasses

LEMMA ValueOne ==
  ASSUME NEW id, NEW L, NEW lines \in Seq(L), NEW line \in L
  PROVE  Valued(id, Append(lines, line)) = ReadValue(id, Valued(id, lines), line)
<1>1. PICK more \in Seq(L) : more = Append(lines, line)
  BY Longer
<1>2. PICK f : ValuePasses(id, f, lines) /\ Valued(id, lines) = f[Len(lines)]
  BY ValueLoop
<1>3. PICK g : ValuePasses(id, g, more) /\ Valued(id, more) = g[Len(more)]
  BY ValueLoop
<1>4. PICK last \in Nat : last = Len(lines) /\ Len(more) = last + 1 /\ more[last + 1] = line
  BY <1>1, Longer
<1>5. f[0] = g[0]
  BY <1>2, <1>3, <1>4 DEF ValuePasses
<1>6. ASSUME NEW n \in 1 .. last, f[n - 1] = g[n - 1] PROVE f[n] = g[n]
  <2>1. n # 0 /\ n \in 0 .. last /\ n \in 0 .. last + 1 /\ more[n] = lines[n]
    BY <1>1, <1>4, Longer
  <2>2. f[n] = ReadValue(id, f[n - 1], lines[n])
    BY <1>2, <1>4, <2>1 DEF ValuePasses
  <2>3. g[n] = ReadValue(id, g[n - 1], more[n])
    BY <1>3, <1>4, <2>1 DEF ValuePasses
  <2> QED
    BY <1>6, <2>1, <2>2, <2>3
<1>7. f[last] = g[last]
  <2>1. Alike(f, g, last)
    BY <1>5, <1>6 DEF Alike
  <2> QED
    BY <2>1, SameSteps
<1>8. g[last + 1] = ReadValue(id, g[last], line)
  <2>1. last + 1 \in 0 .. last + 1 /\ last + 1 # 0 /\ (last + 1) - 1 = last
    OBVIOUS
  <2> QED
    BY <1>3, <1>4, <2>1 DEF ValuePasses
<1> QED
  BY <1>1, <1>2, <1>3, <1>4, <1>7, <1>8

-----------------------------------------------------------------------------
(* strip.py.                                                                 *)
Stripped(signals, lines) ==
  ForLines(LAMBDA h, line : StripLine(signals, h, line), NothingRead, lines)

StripPasses(signals, f, lines) ==
  f = [n \in 0 .. Len(lines) |-> IF n = 0 THEN NothingRead ELSE StripLine(signals, f[n - 1], lines[n])]

LEMMA StripIs == \A lines, signals : strip_vcd(lines, signals) = Stripped(signals, lines).of
BY DEF strip_vcd, Stripped

Stripping(L) ==
  [of : Seq(L), scopes : Seq(Names(L)), ids : SUBSET Ids(L),
   timescale_on_next : BOOLEAN, in_header : BOOLEAN]

LEMMA StripTyped ==
  ASSUME NEW signals, NEW L, NEW r \in Stripping(L), NEW line \in L
  PROVE  StripLine(signals, r, line) \in Stripping(L)
<1>1. PICK N : N = Names(L)
  OBVIOUS
<1>2. PICK I : I = Ids(L)
  OBVIOUS
<1>3. PICK V : V = Stripping(L) /\
               V = [of : Seq(L), scopes : Seq(N), ids : SUBSET I,
                    timescale_on_next : BOOLEAN, in_header : BOOLEAN]
  BY <1>1, <1>2 DEF Stripping
<1> r \in V
  BY <1>3
<1>4. /\ r.of \in Seq(L) /\ r.scopes \in Seq(N)
      /\ line.name \in N /\ line.id \in I
  BY <1>1, <1>2, <1>3 DEF Names, Ids
<1>5. PICK more \in Seq(L) : more = Append(r.of, line)
  <2>1. Append(r.of, line) \in Seq(L)
    BY <1>4
  <2> QED
    BY <2>1
<1>6. PICK deeper \in Seq(N) : deeper = Append(r.scopes, line.name)
  <2>1. Append(r.scopes, line.name) \in Seq(N)
    BY <1>4
  <2> QED
    BY <2>1
<1>7. PICK outside \in Seq(N) : outside = Outside(r.scopes)
  <2>1. Outside(r.scopes) \in Seq(N)
    BY <1>4 DEF Outside, Front
  <2> QED
    BY <2>1
<1>8. PICK ids \in SUBSET I : ids = r.ids \cup {line.id}
  BY <1>3, <1>4
<1>9. PICK w \in V : w = Write(r, line) /\ w.scopes = r.scopes /\ w.ids = r.ids
  <2>1. Write(r, line) = [r EXCEPT !.of = more]
    BY <1>5 DEF Write
  <2>2. [r EXCEPT !.of = more] \in V
    BY <1>3, <1>5
  <2>3. [r EXCEPT !.of = more].scopes = r.scopes /\ [r EXCEPT !.of = more].ids = r.ids
    BY <1>3
  <2> QED
    BY <2>1, <2>2, <2>3
<1>10. KeywordLine(r, line) \in V
  <2>1. [w EXCEPT !.timescale_on_next = FALSE] \in V
    BY <1>3, <1>9
  <2>2. [w EXCEPT !.timescale_on_next = TRUE] \in V
    BY <1>3, <1>9
  <2>3. [w EXCEPT !.in_header = FALSE] \in V
    BY <1>3, <1>9
  <2> QED
    BY <1>9, <2>1, <2>2, <2>3 DEF KeywordLine
<1>11. set_ids(signals, r, line) \in V
  <2>1. [w EXCEPT !.ids = ids] \in V
    BY <1>3, <1>9, <1>8
  <2>2. [w EXCEPT !.scopes = deeper] \in V
    BY <1>3, <1>9, <1>6
  <2>3. [w EXCEPT !.scopes = outside] \in V
    BY <1>3, <1>9, <1>7
  <2>4. CASE line.kind = "var"
    BY <1>8, <1>9, <2>1, <2>4 DEF set_ids
  <2>5. CASE line.kind = "scope"
    BY <1>6, <1>9, <2>2, <2>5 DEF set_ids
  <2>6. CASE line.kind = "upscope"
    BY <1>7, <1>9, <2>3, <2>6 DEF set_ids
  <2>7. CASE line.kind \notin {"var", "scope", "upscope"}
    BY <1>10, <2>7 DEF set_ids
  <2> QED
    BY <2>4, <2>5, <2>6, <2>7
<1>12. load_values(r, line) \in V
  BY <1>9 DEF load_values
<1> QED
  BY <1>3, <1>11, <1>12 DEF StripLine

LEMMA StripLoop ==
  ASSUME NEW signals, NEW L, NEW lines \in Seq(L)
  PROVE  \E f : StripPasses(signals, f, lines) /\ Stripped(signals, lines) = f[Len(lines)]
<1>1. PICK V : V = Stripping(L)
  OBVIOUS
<1>2. NothingRead \in V
  BY <1>1 DEF NothingRead, Stripping
<1>3. \A r \in V, line \in L : StripLine(signals, r, line) \in V
  BY <1>1, StripTyped
<1>4. PICK step : step = [x \in V \X L |-> StripLine(signals, x[1], x[2])]
  OBVIOUS
<1>5. step \in [V \X L -> V]
  BY <1>3, <1>4
<1>6. PICK f : Loops(f, V, NothingRead, step, lines)
  BY <1>2, <1>5, LoopExists
<1>7. ASSUME NEW n \in 1 .. Len(lines) PROVE f[n] = StripLine(signals, f[n - 1], lines[n])
  <2>1. f[n - 1] \in V /\ lines[n] \in L
    BY <1>6 DEF Loops
  <2> QED
    BY <1>4, <1>6, <2>1 DEF Loops
<1>8. StripPasses(signals, f, lines)
  BY <1>6, <1>7 DEF StripPasses, Loops
<1>9. PICK after : after = CHOOSE g : StripPasses(signals, g, lines)
  OBVIOUS
<1>10. StripPasses(signals, after, lines)
  BY <1>8, <1>9, Zenon
<1>11. Stripped(signals, lines) = after[Len(lines)]
  BY <1>9, Zenon DEF Stripped, ForLines, StripPasses
<1> QED
  BY <1>10, <1>11

LEMMA StripNothing == \A signals : Stripped(signals, <<>>) = NothingRead
<1> SUFFICES ASSUME NEW signals PROVE Stripped(signals, <<>>) = NothingRead
  OBVIOUS
<1>1. <<>> \in Seq({})
  OBVIOUS
<1>2. PICK f : StripPasses(signals, f, <<>>) /\ Stripped(signals, <<>>) = f[Len(<<>>)]
  BY <1>1, StripLoop
<1> QED
  BY <1>2 DEF StripPasses

LEMMA StripOne ==
  ASSUME NEW signals, NEW L, NEW lines \in Seq(L), NEW line \in L
  PROVE  Stripped(signals, Append(lines, line)) = StripLine(signals, Stripped(signals, lines), line)
<1>1. PICK more \in Seq(L) : more = Append(lines, line)
  BY Longer
<1>2. PICK f : StripPasses(signals, f, lines) /\ Stripped(signals, lines) = f[Len(lines)]
  BY StripLoop
<1>3. PICK g : StripPasses(signals, g, more) /\ Stripped(signals, more) = g[Len(more)]
  BY StripLoop
<1>4. PICK last \in Nat : last = Len(lines) /\ Len(more) = last + 1 /\ more[last + 1] = line
  BY <1>1, Longer
<1>5. f[0] = g[0]
  BY <1>2, <1>3, <1>4 DEF StripPasses
<1>6. ASSUME NEW n \in 1 .. last, f[n - 1] = g[n - 1] PROVE f[n] = g[n]
  <2>1. n # 0 /\ n \in 0 .. last /\ n \in 0 .. last + 1 /\ more[n] = lines[n]
    BY <1>1, <1>4, Longer
  <2>2. f[n] = StripLine(signals, f[n - 1], lines[n])
    BY <1>2, <1>4, <2>1 DEF StripPasses
  <2>3. g[n] = StripLine(signals, g[n - 1], more[n])
    BY <1>3, <1>4, <2>1 DEF StripPasses
  <2> QED
    BY <1>6, <2>1, <2>2, <2>3
<1>7. f[last] = g[last]
  <2>1. Alike(f, g, last)
    BY <1>5, <1>6 DEF Alike
  <2> QED
    BY <2>1, SameSteps
<1>8. g[last + 1] = StripLine(signals, g[last], line)
  <2>1. last + 1 \in 0 .. last + 1 /\ last + 1 # 0 /\ (last + 1) - 1 = last
    OBVIOUS
  <2> QED
    BY <1>3, <1>4, <2>1 DEF StripPasses
<1> QED
  BY <1>1, <1>2, <1>3, <1>4, <1>7, <1>8

-----------------------------------------------------------------------------
(* One line of the header.                                                   *)
InHeader(h, D) ==
  h.in_header /\ D.path = h.scopes /\ Declared(h.of).path = h.scopes

Selected(signals, h, D) ==
  /\ Declared(h.of).vars = {x \in D.vars : x[1] \in signals}
  /\ h.ids = {x[2] : x \in Declared(h.of).vars}

LEMMA FrontOutside == \A L : \A s \in Seq(L) : Front(s) = Outside(s)
<1> SUFFICES ASSUME NEW L, NEW s \in Seq(L), s = <<>> PROVE SubSeq(s, 1, Len(s) - 1) = <<>>
  BY DEF Front, Outside
<1>1. Len(s) = 0
  OBVIOUS
<1>2. SubSeq(s, 1, Len(s) - 1) \in Seq(L) /\ Len(SubSeq(s, 1, Len(s) - 1)) = 0
  BY <1>1
<1> QED
  BY <1>2

(* What a line of the header does to what strip.py carries.                  *)
Effect(signals, h, line, g) ==
  /\ line.kind = "var" =>
       IF Append(h.scopes, line.name) \in signals
       THEN g.of = Append(h.of, line) /\ g.ids = h.ids \cup {line.id}
       ELSE g.of = h.of /\ g.ids = h.ids
  /\ line.kind = "scope" =>
       g.of = Append(h.of, line) /\ g.scopes = Append(h.scopes, line.name)
  /\ line.kind = "upscope" =>
       g.of = Append(h.of, line) /\ g.scopes = Outside(h.scopes)
  /\ line.kind \notin {"var", "scope", "upscope"} =>
       g.of \in {h.of, Append(h.of, line)}
  /\ line.kind \notin {"scope", "upscope"} => g.scopes = h.scopes
  /\ line.kind # "var" => g.ids = h.ids
  /\ g.in_header
  /\ g.timescale_on_next => line.kind = "timescale"

LEMMA HeaderEffect ==
  ASSUME NEW signals, NEW L, NEW h \in Stripping(L), NEW line \in L, h.in_header,
         line.kind \notin {"enddefinitions", "time", "value"},
         h.timescale_on_next => line.kind = "text",
         NEW g, g = StripLine(signals, h, line)
  PROVE  Effect(signals, h, line, g)
<1>1. g = set_ids(signals, h, line)
  BY DEF StripLine
<1>2. PICK w : /\ w = Write(h, line) /\ w \in Stripping(L)
               /\ w.of = Append(h.of, line) /\ w.scopes = h.scopes /\ w.ids = h.ids
               /\ w.timescale_on_next = h.timescale_on_next /\ w.in_header = h.in_header
  <2>1. PICK more \in Seq(L) : more = Append(h.of, line)
    <3>1. Append(h.of, line) \in Seq(L)
      BY DEF Stripping
    <3> QED
      BY <3>1
  <2>2. PICK w : w = [h EXCEPT !.of = more]
    OBVIOUS
  <2>3. w \in Stripping(L)
    BY <2>1, <2>2 DEF Stripping
  <2>4. /\ w.of = more /\ w.scopes = h.scopes /\ w.ids = h.ids
        /\ w.timescale_on_next = h.timescale_on_next /\ w.in_header = h.in_header
    BY <2>2 DEF Stripping
  <2>5. w = Write(h, line)
    BY <2>1, <2>2 DEF Write
  <2> QED
    BY <2>1, <2>3, <2>4, <2>5
<1>3. CASE line.kind = "var"
  <2>1. ~ h.timescale_on_next
    BY <1>3
  <2> QED
    BY <1>1, <1>2, <1>3, <2>1 DEF set_ids, Stripping, Effect
<1>4. CASE line.kind = "scope"
  <2>1. ~ h.timescale_on_next
    BY <1>4
  <2> QED
    BY <1>1, <1>2, <1>4, <2>1 DEF set_ids, Stripping, Effect
<1>5. CASE line.kind = "upscope"
  <2>1. ~ h.timescale_on_next
    BY <1>5
  <2> QED
    BY <1>1, <1>2, <1>5, <2>1 DEF set_ids, Stripping, Effect
<1>6. CASE line.kind \notin {"var", "scope", "upscope"}
  <2>1. g = KeywordLine(h, line)
    BY <1>1, <1>6 DEF set_ids
  <2> QED
    BY <1>2, <1>6, <2>1 DEF KeywordLine, Stripping, Effect
<1> QED
  BY <1>3, <1>4, <1>5, <1>6

-----------------------------------------------------------------------------
(* A file is read line by line.                                              *)
LEMMA PrefixFacts ==
  ASSUME NEW L, NEW lines \in Seq(L)
  PROVE  /\ SubSeq(lines, 1, 0) = <<>> /\ SubSeq(lines, 1, Len(lines)) = lines
         /\ \A n \in 0 .. Len(lines) : SubSeq(lines, 1, n) \in Seq(L)
         /\ \A n \in 0 .. Len(lines) - 1 :
              /\ lines[n + 1] \in L
              /\ SubSeq(lines, 1, n + 1) = Append(SubSeq(lines, 1, n), lines[n + 1])
<1>1. Len(lines) \in Nat
  OBVIOUS
<1>2. ASSUME NEW n \in 0 .. Len(lines) PROVE SubSeq(lines, 1, n) \in Seq(L)
  <2>1. \A k \in 1 .. n : lines[k] \in L
    BY <1>1
  <2> QED
    BY <1>1, <2>1
<1>3. ASSUME NEW n \in 0 .. Len(lines) - 1
      PROVE  SubSeq(lines, 1, n + 1) = Append(SubSeq(lines, 1, n), lines[n + 1])
  BY <1>1
<1>4. SubSeq(lines, 1, 0) = <<>>
  OBVIOUS
<1>5. SubSeq(lines, 1, Len(lines)) = lines
  BY <1>1
<1> QED
  BY <1>1, <1>2, <1>3, <1>4, <1>5

LEMMA PrefixInduction ==
  ASSUME NEW L, NEW lines \in Seq(L), NEW T,
         <<>> \in T,
         \A n \in 0 .. Len(lines) - 1 :
           SubSeq(lines, 1, n) \in T => Append(SubSeq(lines, 1, n), lines[n + 1]) \in T
  PROVE  lines \in T
<1>1. PICK N : N = {n \in 0 .. Len(lines) : SubSeq(lines, 1, n) \in T}
  OBVIOUS
<1>2. Len(lines) \in Nat /\ 0 \in N
  <2>1. Len(lines) \in Nat /\ SubSeq(lines, 1, 0) = <<>>
    BY PrefixFacts
  <2>2. 0 \in 0 .. Len(lines)
    BY <2>1
  <2> QED
    BY <1>1, <2>1, <2>2, Zenon
<1>3. ASSUME NEW n \in 0 .. Len(lines) - 1, n \in N PROVE n + 1 \in N
  <2>1. SubSeq(lines, 1, n + 1) = Append(SubSeq(lines, 1, n), lines[n + 1])
    BY PrefixFacts
  <2>2. n + 1 \in 0 .. Len(lines)
    BY <1>2
  <2> QED
    BY <1>1, <1>3, <2>1, <2>2
<1>4. \A n \in 0 .. Len(lines) : n \in N
  BY <1>2, <1>3, RangeInduction
<1>5. SubSeq(lines, 1, Len(lines)) = lines /\ Len(lines) \in N
  <2>1. SubSeq(lines, 1, Len(lines)) = lines
    BY PrefixFacts
  <2>2. Len(lines) \in 0 .. Len(lines)
    BY <1>2
  <2> QED
    BY <1>4, <2>1, <2>2
<1> QED
  BY <1>1, <1>5, Zenon

LEMMA DeclaredIn == \A L : \A lines \in Seq(L) : Declared(lines) \in Declaring(L)
<1> SUFFICES ASSUME NEW L, NEW lines \in Seq(L) PROVE Declared(lines) \in Declaring(L)
  OBVIOUS
<1>1. PICK T : T = {l \in Seq(L) : Declared(l) \in Declaring(L)}
  OBVIOUS
<1>2. <<>> \in T
  <2>1. DeclareStart \in Declaring(L) /\ <<>> \in Seq(L)
    BY DEF DeclareStart, Declaring
  <2> QED
    BY <1>1, <2>1, DeclareNothing
<1>3. ASSUME NEW n \in 0 .. Len(lines) - 1, SubSeq(lines, 1, n) \in T
      PROVE  Append(SubSeq(lines, 1, n), lines[n + 1]) \in T
  <2>1. PICK l \in Seq(L) : l = SubSeq(lines, 1, n) /\ Declared(l) \in Declaring(L)
    BY <1>1, <1>3
  <2>2. PICK line \in L : line = lines[n + 1]
    BY PrefixFacts
  <2>3. Append(l, line) \in Seq(L)
    BY Longer
  <2>4. Declared(Append(l, line)) \in Declaring(L)
    BY <2>1, DeclareOne, DeclareTyped
  <2> QED
    BY <1>1, <2>1, <2>2, <2>3, <2>4
<1>4. lines \in T
  BY <1>2, <1>3, PrefixInduction
<1> QED
  BY <1>1, <1>4

LEMMA ValuedIn == \A id, L : \A lines \in Seq(L) : Valued(id, lines) \in Reading(L)
<1> SUFFICES ASSUME NEW id, NEW L, NEW lines \in Seq(L) PROVE Valued(id, lines) \in Reading(L)
  OBVIOUS
<1>1. PICK T : T = {l \in Seq(L) : Valued(id, l) \in Reading(L)}
  OBVIOUS
<1>2. <<>> \in T
  <2>1. ValueStart \in Reading(L) /\ <<>> \in Seq(L)
    BY DEF ValueStart, Reading, Times
  <2> QED
    BY <1>1, <2>1, ValueNothing
<1>3. ASSUME NEW n \in 0 .. Len(lines) - 1, SubSeq(lines, 1, n) \in T
      PROVE  Append(SubSeq(lines, 1, n), lines[n + 1]) \in T
  <2>1. PICK l \in Seq(L) : l = SubSeq(lines, 1, n) /\ Valued(id, l) \in Reading(L)
    BY <1>1, <1>3
  <2>2. PICK line \in L : line = lines[n + 1]
    BY PrefixFacts
  <2>3. Append(l, line) \in Seq(L)
    BY Longer
  <2>4. Valued(id, Append(l, line)) \in Reading(L)
    <3>1. Valued(id, Append(l, line)) = ReadValue(id, Valued(id, l), line)
      BY ValueOne
    <3> QED
      BY <2>1, <3>1, ValueTyped
  <2> QED
    BY <1>1, <2>1, <2>2, <2>3, <2>4
<1>4. lines \in T
  BY <1>2, <1>3, PrefixInduction
<1> QED
  BY <1>1, <1>4

(* One line of the header declares what it should in the stripped file.      *)
LEMMA HeaderStep ==
  ASSUME NEW signals, NEW L, NEW h \in Stripping(L), NEW line \in L, NEW D \in Declaring(L),
         InHeader(h, D), Selected(signals, h, D),
         line.kind \notin {"enddefinitions", "time", "value"},
         h.timescale_on_next => line.kind = "text",
         NEW g, g = StripLine(signals, h, line)
  PROVE  InHeader(g, Declare(D, line)) /\ Selected(signals, g, Declare(D, line))
<1>1. PICK E \in Declaring(L) : E = Declared(h.of)
  BY DeclaredIn DEF Stripping
<1>2. Declared(Append(h.of, line)) = Declare(E, line)
  BY <1>1, DeclareOne DEF Stripping
<1>3. /\ D.path = h.scopes /\ E.path = h.scopes
      /\ E.vars = {x \in D.vars : x[1] \in signals} /\ h.ids = {x[2] : x \in E.vars}
  BY <1>1 DEF InHeader, Selected
<1>4. h.in_header
  BY DEF InHeader
<1>5. g.in_header /\ Effect(signals, h, line, g)
  <2>1. Effect(signals, h, line, g)
    BY <1>4, HeaderEffect
  <2> QED
    BY <2>1 DEF Effect
<1>6. CASE line.kind = "var"
  <2>1. PICK x : x = <<Append(h.scopes, line.name), line.id>>
    OBVIOUS
  <2>2. Declare(D, line).path = h.scopes /\ Declare(D, line).vars = D.vars \cup {x}
    BY <1>3, <1>6, <2>1 DEF Declare, Declaring
  <2>3. Declare(E, line).path = h.scopes /\ Declare(E, line).vars = E.vars \cup {x}
    BY <1>3, <1>6, <2>1 DEF Declare, Declaring
  <2>4. g.scopes = h.scopes
    BY <1>5, <1>6 DEF Effect
  <2>5. CASE x[1] \in signals
    <3>1. g.of = Append(h.of, line) /\ g.ids = h.ids \cup {x[2]}
      BY <1>5, <1>6, <2>1, <2>5 DEF Effect
    <3>2. Declared(g.of).path = h.scopes /\ Declared(g.of).vars = E.vars \cup {x}
      BY <1>2, <2>3, <3>1
    <3> QED
      BY <1>3, <1>5, <2>2, <2>4, <2>5, <3>1, <3>2 DEF InHeader, Selected
  <2>6. CASE x[1] \notin signals
    <3>1. g.of = h.of /\ g.ids = h.ids
      BY <1>5, <1>6, <2>1, <2>6 DEF Effect
    <3> QED
      BY <1>1, <1>3, <1>5, <2>2, <2>4, <2>6, <3>1 DEF InHeader, Selected
  <2> QED
    BY <2>5, <2>6
<1>7. CASE line.kind = "scope"
  <2>1. /\ g.of = Append(h.of, line) /\ g.scopes = Append(h.scopes, line.name)
        /\ g.ids = h.ids
    BY <1>5, <1>7 DEF Effect
  <2>2. /\ Declare(D, line).path = g.scopes /\ Declare(D, line).vars = D.vars
        /\ Declare(E, line).path = g.scopes /\ Declare(E, line).vars = E.vars
    BY <1>3, <1>7, <2>1 DEF Declare, Declaring
  <2> QED
    BY <1>1, <1>2, <1>3, <1>5, <2>1, <2>2 DEF InHeader, Selected
<1>8. CASE line.kind = "upscope"
  <2>1. /\ g.of = Append(h.of, line) /\ g.scopes = Outside(h.scopes)
        /\ g.ids = h.ids
    BY <1>5, <1>8 DEF Effect
  <2>2. Front(h.scopes) = g.scopes
    BY <2>1, FrontOutside DEF Stripping
  <2>3. /\ Declare(D, line).path = g.scopes /\ Declare(D, line).vars = D.vars
        /\ Declare(E, line).path = g.scopes /\ Declare(E, line).vars = E.vars
    BY <1>3, <1>8, <2>2 DEF Declare, Declaring
  <2> QED
    BY <1>1, <1>2, <1>3, <1>5, <2>1, <2>3 DEF InHeader, Selected
<1>9. CASE line.kind \notin {"var", "scope", "upscope"}
  <2>1. g.of \in {h.of, Append(h.of, line)} /\ g.scopes = h.scopes /\ g.ids = h.ids
    BY <1>5, <1>9 DEF Effect
  <2>2. Declare(D, line) = D /\ Declare(E, line) = E
    BY <1>9 DEF Declare
  <2> QED
    BY <1>1, <1>2, <1>3, <1>5, <2>1, <2>2 DEF InHeader, Selected
<1> QED
  BY <1>6, <1>7, <1>8, <1>9

-----------------------------------------------------------------------------
(* The line that ends the header, and the lines behind it.                   *)
NothingYet(id, h, R) == Valued(id, h.of) = ValueStart /\ R = ValueStart

SameValues(id, h, R) ==
  /\ Valued(id, h.of).t = R.t
  /\ id \in h.ids => Valued(id, h.of).seq = R.seq

LEMMA HeaderValues ==
  ASSUME NEW id, NEW signals, NEW L, NEW h \in Stripping(L), NEW line \in L, NEW R,
         h.in_header, NothingYet(id, h, R),
         line.kind \notin {"enddefinitions", "time", "value"},
         h.timescale_on_next => line.kind = "text",
         NEW g, g = StripLine(signals, h, line)
  PROVE  NothingYet(id, g, ReadValue(id, R, line))
<1>1. Effect(signals, h, line, g)
  BY HeaderEffect
<1>2. g.of \in {h.of, Append(h.of, line)}
  BY <1>1 DEF Effect
<1>3. ReadValue(id, ValueStart, line) = ValueStart
  BY DEF ReadValue
<1>4. Valued(id, Append(h.of, line)) = ReadValue(id, Valued(id, h.of), line)
  BY ValueOne DEF Stripping
<1> QED
  BY <1>2, <1>3, <1>4 DEF NothingYet

LEMMA EndStep ==
  ASSUME NEW id, NEW signals, NEW L, NEW h \in Stripping(L), NEW line \in L,
         NEW D \in Declaring(L), NEW R,
         h.in_header, ~ h.timescale_on_next, line.kind = "enddefinitions",
         Selected(signals, h, D), NothingYet(id, h, R),
         NEW g, g = StripLine(signals, h, line)
  PROVE  /\ ~ g.in_header
         /\ Selected(signals, g, Declare(D, line))
         /\ SameValues(id, g, ReadValue(id, R, line))
<1>1. PICK more \in Seq(L) : more = Append(h.of, line)
  BY Longer DEF Stripping
<1>2. g = [[h EXCEPT !.of = more] EXCEPT !.in_header = FALSE]
  BY <1>1 DEF StripLine, set_ids, KeywordLine, Write
<1>3. g.of = more /\ g.ids = h.ids /\ ~ g.in_header
  BY <1>2 DEF Stripping
<1>4. Declared(more) = Declare(Declared(h.of), line)
  BY <1>1, DeclareOne DEF Stripping
<1>5. Declare(D, line) = D /\ Declare(Declared(h.of), line) = Declared(h.of)
  BY DEF Declare
<1>6. Valued(id, more) = ReadValue(id, Valued(id, h.of), line)
  BY <1>1, ValueOne DEF Stripping
<1>7. ReadValue(id, ValueStart, line) = ValueStart
  BY DEF ReadValue
<1>8. Valued(id, more) = ValueStart /\ ReadValue(id, R, line) = ValueStart
  BY <1>6, <1>7 DEF NothingYet
<1> QED
  BY <1>3, <1>4, <1>5, <1>8 DEF Selected, SameValues

LEMMA BodyStep ==
  ASSUME NEW id, NEW signals, NEW L, NEW h \in Stripping(L), NEW line \in L,
         NEW D \in Declaring(L), NEW R \in Reading(L),
         ~ h.in_header, line.kind # "var",
         Selected(signals, h, D), SameValues(id, h, R),
         NEW g, g = StripLine(signals, h, line)
  PROVE  /\ ~ g.in_header
         /\ Selected(signals, g, Declare(D, line))
         /\ SameValues(id, g, ReadValue(id, R, line))
<1>1. PICK more \in Seq(L) : more = Append(h.of, line)
  BY Longer DEF Stripping
<1>2. PICK w : w = [h EXCEPT !.of = more]
  OBVIOUS
<1>3. w.of = more /\ w.ids = h.ids /\ ~ w.in_header
  BY <1>2 DEF Stripping
<1>4. g = IF line.kind = "time" \/ (line.kind = "value" /\ line.id \in h.ids) THEN w ELSE h
  BY <1>1, <1>2 DEF StripLine, load_values, Write
<1>5. Declare(D, line).vars = D.vars
  BY DEF Declare, Declaring
<1>6. PICK Q \in Reading(L) : Q = Valued(id, h.of)
  BY ValuedIn DEF Stripping
<1>7. CASE line.kind = "time" \/ (line.kind = "value" /\ line.id \in h.ids)
  <2>1. g = w
    BY <1>4, <1>7
  <2>2. Declared(more) = Declared(h.of)
    <3>1. Declared(more) = Declare(Declared(h.of), line)
      BY <1>1, DeclareOne DEF Stripping
    <3> QED
      BY <1>7, <3>1 DEF Declare
  <2>3. Selected(signals, g, Declare(D, line))
    BY <1>3, <1>5, <2>1, <2>2 DEF Selected
  <2>4. Valued(id, more) = ReadValue(id, Q, line)
    BY <1>1, <1>6, ValueOne DEF Stripping
  <2>5. CASE line.kind = "time"
    <3>1. /\ ReadValue(id, Q, line).t = line.t /\ ReadValue(id, Q, line).seq = Q.seq
          /\ ReadValue(id, R, line).t = line.t /\ ReadValue(id, R, line).seq = R.seq
      BY <2>5 DEF ReadValue, Reading
    <3> QED
      BY <1>3, <1>6, <2>1, <2>3, <2>4, <3>1 DEF SameValues
  <2>6. CASE line.kind = "value" /\ line.id = id
    <3>1. /\ ReadValue(id, Q, line).t = Q.t
          /\ ReadValue(id, Q, line).seq = Append(Q.seq, [t |-> Q.t, v |-> line.v])
          /\ ReadValue(id, R, line).t = R.t
          /\ ReadValue(id, R, line).seq = Append(R.seq, [t |-> R.t, v |-> line.v])
      BY <2>6 DEF ReadValue, Reading
    <3> QED
      BY <1>3, <1>6, <2>1, <2>3, <2>4, <3>1 DEF SameValues
  <2>7. CASE line.kind = "value" /\ line.id # id
    <3>1. ReadValue(id, Q, line) = Q /\ ReadValue(id, R, line) = R
      BY <2>7 DEF ReadValue
    <3> QED
      BY <1>3, <1>6, <2>1, <2>3, <2>4, <3>1 DEF SameValues
  <2> QED
    BY <1>7, <2>5, <2>6, <2>7
<1>8. CASE ~ (line.kind = "time" \/ (line.kind = "value" /\ line.id \in h.ids))
  <2>1. g = h
    BY <1>4, <1>8
  <2>2. Selected(signals, g, Declare(D, line))
    BY <1>5, <2>1 DEF Selected
  <2>3. ReadValue(id, R, line).t = R.t
    BY <1>8 DEF ReadValue, Reading
  <2>4. id \in h.ids => ReadValue(id, R, line).seq = R.seq
    BY <1>8 DEF ReadValue
  <2> QED
    BY <2>1, <2>2, <2>3, <2>4 DEF SameValues
<1> QED
  BY <1>7, <1>8

-----------------------------------------------------------------------------
(* The first n lines of a file whose header ends at line end.                *)
StripInv(id, signals, L, file, end, n) ==
  LET l == SubSeq(file, 1, n)
      h == Stripped(signals, l)
      D == Declared(l)
      R == Valued(id, l)
  IN  /\ h \in Stripping(L)
      /\ Selected(signals, h, D)
      /\ n < end => /\ InHeader(h, D) /\ NothingYet(id, h, R)
                    /\ h.timescale_on_next => file[n + 1].kind = "text"
      /\ n >= end => ~ h.in_header /\ SameValues(id, h, R)

LEMMA StripInvInit ==
  ASSUME NEW id, NEW signals, NEW L, NEW file \in Seq(L), NEW end, HeaderEnds(file, end)
  PROVE  StripInv(id, signals, L, file, end, 0)
<1>1. SubSeq(file, 1, 0) = <<>>
  BY PrefixFacts
<1>2. /\ Stripped(signals, <<>>) = NothingRead /\ Declared(<<>>) = DeclareStart
      /\ Valued(id, <<>>) = ValueStart
  BY StripNothing, DeclareNothing, ValueNothing
<1>3. NothingRead \in Stripping(L)
  BY DEF NothingRead, Stripping
<1>4. end \in Nat /\ 0 < end
  BY DEF HeaderEnds
<1>5. Selected(signals, NothingRead, DeclareStart)
  BY <1>2 DEF Selected, NothingRead, DeclareStart
<1>6. InHeader(NothingRead, DeclareStart) /\ NothingYet(id, NothingRead, ValueStart)
  BY <1>2 DEF InHeader, NothingYet, NothingRead, DeclareStart
<1>7. ~ NothingRead.timescale_on_next
  BY DEF NothingRead
<1>8. ~ (0 >= end)
  BY <1>4
<1> QED
  BY <1>1, <1>2, <1>3, <1>5, <1>6, <1>7, <1>8 DEF StripInv

LEMMA StripInvStep ==
  ASSUME NEW id, NEW signals, NEW L, NEW file \in Seq(L), NEW end, HeaderEnds(file, end),
         NEW n \in 0 .. Len(file) - 1, StripInv(id, signals, L, file, end, n)
  PROVE  StripInv(id, signals, L, file, end, n + 1)
<1>1. PICK l \in Seq(L) : l = SubSeq(file, 1, n)
  <2>1. SubSeq(file, 1, n) \in Seq(L)
    <3>1. n \in 0 .. Len(file)
      OBVIOUS
    <3> QED
      BY <3>1, PrefixFacts
  <2> QED
    BY <2>1
<1>2. PICK line \in L : line = file[n + 1]
  BY PrefixFacts
<1>3. PICK more : more = SubSeq(file, 1, n + 1) /\ more = Append(l, line)
  BY <1>1, <1>2, PrefixFacts
<1>4. PICK h \in Stripping(L) : h = Stripped(signals, l)
  BY <1>1 DEF StripInv
<1>5. PICK D \in Declaring(L) : D = Declared(l)
  BY DeclaredIn
<1>6. PICK R \in Reading(L) : R = Valued(id, l)
  BY ValuedIn
<1>7. PICK g : g = Stripped(signals, more) /\ g = StripLine(signals, h, line)
  BY <1>3, <1>4, StripOne
<1>8. Declared(more) = Declare(D, line)
  BY <1>3, <1>5, DeclareOne
<1>9. Valued(id, more) = ReadValue(id, R, line)
  BY <1>3, <1>6, ValueOne
<1>10. g \in Stripping(L)
  BY <1>7, StripTyped
<1>11. /\ Selected(signals, h, D)
       /\ n < end => /\ InHeader(h, D) /\ NothingYet(id, h, R)
                     /\ h.timescale_on_next => line.kind = "text"
       /\ n >= end => ~ h.in_header /\ SameValues(id, h, R)
  BY <1>1, <1>2, <1>4, <1>5, <1>6 DEF StripInv
<1>12. end \in 1 .. Len(file) /\ Len(file) \in Nat
  BY DEF HeaderEnds
<1>13. CASE n + 1 < end
  <2>1. /\ line.kind \notin {"enddefinitions", "time", "value"}
        /\ line.kind = "timescale" => file[(n + 1) + 1].kind = "text"
    <3>1. n + 1 \in 1 .. end - 1
      BY <1>12, <1>13
    <3> QED
      BY <1>2, <3>1 DEF HeaderEnds
  <2>2. /\ InHeader(h, D) /\ NothingYet(id, h, R) /\ Selected(signals, h, D)
        /\ h.timescale_on_next => line.kind = "text"
    BY <1>11, <1>12, <1>13
  <2>3. h.in_header
    BY <2>2 DEF InHeader
  <2>4. InHeader(g, Declare(D, line)) /\ Selected(signals, g, Declare(D, line))
    BY <1>7, <2>1, <2>2, HeaderStep
  <2>5. NothingYet(id, g, ReadValue(id, R, line))
    BY <1>7, <2>1, <2>2, <2>3, HeaderValues
  <2>6. g.timescale_on_next => file[(n + 1) + 1].kind = "text"
    <3>1. Effect(signals, h, line, g)
      BY <1>7, <2>1, <2>2, <2>3, HeaderEffect
    <3> QED
      BY <2>1, <3>1 DEF Effect
  <2>7. ~ (n + 1 >= end)
    BY <1>12, <1>13
  <2> QED
    BY <1>3, <1>7, <1>8, <1>9, <1>10, <2>4, <2>5, <2>6, <2>7 DEF StripInv
<1>14. CASE n + 1 = end
  <2>1. line.kind = "enddefinitions"
    BY <1>2, <1>14 DEF HeaderEnds
  <2>2. /\ InHeader(h, D) /\ NothingYet(id, h, R) /\ Selected(signals, h, D)
        /\ h.timescale_on_next => line.kind = "text"
    BY <1>11, <1>12, <1>14
  <2>3. h.in_header /\ ~ h.timescale_on_next
    BY <2>1, <2>2 DEF InHeader
  <2>4. /\ ~ g.in_header /\ Selected(signals, g, Declare(D, line))
        /\ SameValues(id, g, ReadValue(id, R, line))
    BY <1>7, <2>1, <2>2, <2>3, EndStep
  <2>5. ~ (n + 1 < end)
    BY <1>12, <1>14
  <2> QED
    BY <1>3, <1>7, <1>8, <1>9, <1>10, <2>4, <2>5 DEF StripInv
<1>15. CASE n + 1 > end
  <2>1. line.kind # "var"
    <3>1. n + 1 \in DOMAIN file /\ end < n + 1
      BY <1>12, <1>15
    <3> QED
      BY <1>2, <3>1 DEF HeaderEnds
  <2>2. ~ h.in_header /\ SameValues(id, h, R) /\ Selected(signals, h, D)
    BY <1>11, <1>12, <1>15
  <2>3. /\ ~ g.in_header /\ Selected(signals, g, Declare(D, line))
        /\ SameValues(id, g, ReadValue(id, R, line))
    BY <1>7, <2>1, <2>2, BodyStep
  <2>4. ~ (n + 1 < end)
    BY <1>12, <1>15
  <2> QED
    BY <1>3, <1>7, <1>8, <1>9, <1>10, <2>3, <2>4 DEF StripInv
<1> QED
  BY <1>12, <1>13, <1>14, <1>15

(* The stripped file declares the variables of the signals, no others, and   *)
(* has the changes of each: for any file with one header, any signals.       *)
LEMMA StripSelects ==
  ASSUME NEW signals, NEW L, NEW file \in Seq(L), NEW end, HeaderEnds(file, end)
  PROVE  LET stripped == strip_vcd(file, signals)
         IN  /\ Variables(stripped) = {x \in Variables(file) : x[1] \in signals}
             /\ \A x \in Variables(stripped) :
                  ChangesOf(stripped, x[2]) = ChangesOf(file, x[2])
<1>1. Len(file) \in Nat /\ end \in 1 .. Len(file) /\ SubSeq(file, 1, Len(file)) = file
  BY PrefixFacts DEF HeaderEnds
<1>2. ASSUME NEW id PROVE StripInv(id, signals, L, file, end, Len(file))
  <2>1. PICK N : N = {n \in 0 .. Len(file) : StripInv(id, signals, L, file, end, n)}
    OBVIOUS
  <2>2. 0 \in N
    BY <1>1, <2>1, StripInvInit
  <2>3. ASSUME NEW n \in 0 .. Len(file) - 1, n \in N PROVE n + 1 \in N
    <3>1. StripInv(id, signals, L, file, end, n + 1)
      BY <2>1, <2>3, StripInvStep
    <3>2. n + 1 \in 0 .. Len(file)
      BY <1>1
    <3> QED
      BY <2>1, <3>1, <3>2
  <2>4. \A n \in 0 .. Len(file) : n \in N
    BY <1>1, <2>2, <2>3, RangeInduction
  <2> QED
    BY <1>1, <2>1, <2>4
<1>3. PICK stripped : stripped = strip_vcd(file, signals)
  OBVIOUS
<1>4. PICK h : h = Stripped(signals, file) /\ stripped = h.of
  BY <1>3, StripIs
<1>5. Selected(signals, h, Declared(file))
  BY <1>1, <1>2, <1>4 DEF StripInv
<1>6. ASSUME NEW id PROVE SameValues(id, h, Valued(id, file))
  <2>1. Len(file) >= end
    BY <1>1
  <2> QED
    BY <1>1, <1>2, <1>4, <2>1 DEF StripInv
<1>7. Variables(stripped) = {x \in Variables(file) : x[1] \in signals}
  BY <1>4, <1>5, VariablesAre DEF Selected
<1>8. ASSUME NEW x \in Variables(stripped)
      PROVE  ChangesOf(stripped, x[2]) = ChangesOf(file, x[2])
  <2>1. x[2] \in h.ids
    BY <1>4, <1>5, VariablesAre DEF Selected
  <2> QED
    BY <1>4, <1>6, <2>1, ChangesAre DEF SameValues
<1> QED
  BY <1>3, <1>7, <1>8

-----------------------------------------------------------------------------
(* A file that grows by a list of lines.                                     *)
LEMMA Extend ==
  ASSUME NEW L, NEW f \in Seq(L), NEW g \in Seq(L)
  PROVE  /\ f \o SubSeq(g, 1, 0) = f /\ f \o SubSeq(g, 1, Len(g)) = f \o g
         /\ \A j \in 0 .. Len(g) : f \o SubSeq(g, 1, j) \in Seq(L)
         /\ \A j \in 0 .. Len(g) - 1 :
              /\ g[j + 1] \in L
              /\ f \o SubSeq(g, 1, j + 1) = Append(f \o SubSeq(g, 1, j), g[j + 1])
<1>1. /\ SubSeq(g, 1, 0) = <<>> /\ SubSeq(g, 1, Len(g)) = g
      /\ \A j \in 0 .. Len(g) : SubSeq(g, 1, j) \in Seq(L)
      /\ \A j \in 0 .. Len(g) - 1 :
           /\ g[j + 1] \in L
           /\ SubSeq(g, 1, j + 1) = Append(SubSeq(g, 1, j), g[j + 1])
  BY PrefixFacts
<1>2. f \o <<>> = f
  BY ConcatEmptySeq
<1>3. ASSUME NEW a \in Seq(L), NEW e \in L PROVE f \o Append(a, e) = Append(f \o a, e)
  OBVIOUS
<1>4. ASSUME NEW j \in 0 .. Len(g) - 1
      PROVE  /\ g[j + 1] \in L
             /\ f \o SubSeq(g, 1, j + 1) = Append(f \o SubSeq(g, 1, j), g[j + 1])
  <2>1. j \in 0 .. Len(g) /\ SubSeq(g, 1, j) \in Seq(L) /\ g[j + 1] \in L
    BY <1>1
  <2> QED
    BY <1>1, <1>3, <2>1
<1>5. \A j \in 0 .. Len(g) : f \o SubSeq(g, 1, j) \in Seq(L)
  BY <1>1, ConcatProperties
<1> QED
  BY <1>1, <1>2, <1>4, <1>5

LEMMA ExtendInduction ==
  ASSUME NEW L, NEW f \in Seq(L), NEW g \in Seq(L), NEW T,
         f \in T,
         \A j \in 0 .. Len(g) - 1 :
           f \o SubSeq(g, 1, j) \in T => Append(f \o SubSeq(g, 1, j), g[j + 1]) \in T
  PROVE  f \o g \in T
<1>1. PICK N : N = {j \in 0 .. Len(g) : f \o SubSeq(g, 1, j) \in T}
  OBVIOUS
<1>2. PICK last \in Nat : last = Len(g)
  OBVIOUS
<1>3. 0 \in N
  <2>1. f \o SubSeq(g, 1, 0) = f /\ 0 \in 0 .. Len(g)
    BY <1>2, Extend
  <2> QED
    BY <1>1, <2>1, Zenon
<1>4. ASSUME NEW j \in 0 .. last - 1, j \in N PROVE j + 1 \in N
  <2>1. f \o SubSeq(g, 1, j + 1) = Append(f \o SubSeq(g, 1, j), g[j + 1])
    BY <1>2, Extend
  <2>2. j + 1 \in 0 .. Len(g) /\ f \o SubSeq(g, 1, j) \in T
    BY <1>1, <1>2, <1>4
  <2>3. Append(f \o SubSeq(g, 1, j), g[j + 1]) \in T
    BY <1>2, <2>2
  <2> QED
    BY <1>1, <2>1, <2>2, <2>3, Zenon
<1>5. \A j \in 0 .. last : j \in N
  BY <1>3, <1>4, RangeInduction
<1>6. f \o SubSeq(g, 1, Len(g)) = f \o g /\ last \in N
  <2>1. last \in 0 .. last
    OBVIOUS
  <2> QED
    BY <1>5, <2>1, Extend
<1> QED
  BY <1>1, <1>2, <1>6, Zenon

(* Times and values declare nothing.                                         *)
LEMMA DeclaresNoMore ==
  ASSUME NEW L, NEW f \in Seq(L), NEW g \in Seq(L),
         \A k \in 1 .. Len(g) : g[k].kind \in {"time", "value"}
  PROVE  Declared(f \o g) = Declared(f)
<1>1. PICK T : T = {l \in Seq(L) : Declared(l) = Declared(f)}
  OBVIOUS
<1>2. f \in T
  BY <1>1
<1>3. ASSUME NEW j \in 0 .. Len(g) - 1, f \o SubSeq(g, 1, j) \in T
      PROVE  Append(f \o SubSeq(g, 1, j), g[j + 1]) \in T
  <2>1. PICK l \in Seq(L) : l = f \o SubSeq(g, 1, j) /\ Declared(l) = Declared(f)
    BY <1>1, <1>3
  <2>2. PICK line \in L : line = g[j + 1]
    BY Extend
  <2>3. line.kind \in {"time", "value"}
    BY <2>2
  <2>4. Declared(Append(l, line)) = Declare(Declared(l), line)
    BY DeclareOne
  <2>5. Declare(Declared(l), line) = Declared(l)
    BY <2>3 DEF Declare
  <2>6. Append(l, line) \in Seq(L)
    BY Longer
  <2> QED
    BY <1>1, <2>1, <2>2, <2>4, <2>5, <2>6
<1>4. f \o g \in T
  BY <1>2, <1>3, ExtendInduction
<1> QED
  BY <1>1, <1>4

(* A file whose lines are read with no time and no value has no changes.     *)
LEMMA ReadsNothing ==
  ASSUME NEW id, NEW L, NEW lines \in Seq(L),
         \A k \in 1 .. Len(lines) : lines[k].kind \notin {"time", "value"}
  PROVE  Valued(id, lines) = ValueStart
<1>1. PICK T : T = {l \in Seq(L) : Valued(id, l) = ValueStart}
  OBVIOUS
<1>2. <<>> \in T
  <2>1. <<>> \in Seq(L)
    OBVIOUS
  <2> QED
    BY <1>1, <2>1, ValueNothing
<1>3. ASSUME NEW n \in 0 .. Len(lines) - 1, SubSeq(lines, 1, n) \in T
      PROVE  Append(SubSeq(lines, 1, n), lines[n + 1]) \in T
  <2>1. PICK l \in Seq(L) : l = SubSeq(lines, 1, n) /\ Valued(id, l) = ValueStart
    BY <1>1, <1>3
  <2>2. PICK line \in L : line = lines[n + 1]
    BY PrefixFacts
  <2>3. Append(l, line) \in Seq(L)
    BY Longer
  <2>4. Valued(id, Append(l, line)) = ReadValue(id, Valued(id, l), line)
    BY ValueOne
  <2>5. line.kind \notin {"time", "value"}
    BY <2>2
  <2>6. ReadValue(id, ValueStart, line) = ValueStart
    BY <2>5 DEF ReadValue
  <2> QED
    BY <1>1, <2>1, <2>2, <2>3, <2>4, <2>6
<1>4. lines \in T
  BY <1>2, <1>3, PrefixInduction
<1> QED
  BY <1>1, <1>4

-----------------------------------------------------------------------------
(* A finite set as a list.                                                   *)
LEMMA ListOfSet ==
  ASSUME NEW S, IsFiniteSet(S)
  PROVE  /\ SetToSeq(S) \in Seq(S)
         /\ \A j, k \in 1 .. Len(SetToSeq(S)) : SetToSeq(S)[j] = SetToSeq(S)[k] => j = k
         /\ \A x \in S : \E j \in 1 .. Len(SetToSeq(S)) : SetToSeq(S)[j] = x
<1>1. PICK n \in Nat : n = Cardinality(S)
  BY FS_CardinalityType
<1>2. PICK b : b \in [1 .. n -> S] /\ IsInjective(b)
  <2>1. ExistsBijection(1 .. n, S)
    BY <1>1, FS_CardinalityType
  <2> QED
    BY <2>1 DEF ExistsBijection, Bijection, Injection
<1>3. PICK list : list = SetToSeq(S)
  OBVIOUS
<1>4. list \in [1 .. n -> S] /\ IsInjective(list)
  BY <1>1, <1>2, <1>3, Zenon DEF SetToSeq
<1>5. list \in Injection(1 .. n, S) /\ IsFiniteSet(1 .. n) /\ Cardinality(1 .. n) = n
  <2>1. IsFiniteSet(1 .. n) /\ Cardinality(1 .. n) = n
    BY FS_Interval
  <2> QED
    BY <1>4, <2>1, Zenon DEF Injection
<1>6. list \in Surjection(1 .. n, S)
  BY <1>1, <1>5, FS_Injection
<1>7. list \in Seq(S) /\ Len(list) = n
  BY <1>4
<1>8. \A x \in S : \E j \in 1 .. n : list[j] = x
  BY <1>6, Zenon DEF Surjection
<1>9. \A j, k \in 1 .. n : list[j] = list[k] => j = k
  BY <1>4 DEF IsInjective
<1> QED
  BY <1>3, <1>7, <1>8, <1>9

-----------------------------------------------------------------------------
(* What is read of the value changes of one cycle.                           *)
LEMMA ReadsChange ==
  ASSUME NEW id, NEW L, NEW r \in Reading(L), NEW w
  PROVE  ReadValue(id, r, Change(id, w)) = [r EXCEPT !.seq = Append(r.seq, [t |-> r.t, v |-> w])]
<1>1. PICK line : line = Change(id, w)
  OBVIOUS
<1>2. line.kind = "value" /\ line.kind # "time" /\ line.id = id /\ line.v = w
  BY <1>1 DEF Change
<1>3. ReadValue(id, r, line) = [r EXCEPT !.seq = Append(r.seq, [t |-> r.t, v |-> w])]
  BY <1>2 DEF ReadValue
<1> QED
  BY <1>1, <1>3

LEMMA ReadsOther ==
  ASSUME NEW id, NEW r, NEW w, NEW other, other # id
  PROVE  ReadValue(id, r, Change(other, w)) = r
<1>1. PICK line : line = Change(other, w)
  OBVIOUS
<1>2. line.kind = "value" /\ line.kind # "time" /\ line.id = other
  BY <1>1 DEF Change
<1>3. ReadValue(id, r, line) = r
  BY <1>2 DEF ReadValue
<1> QED
  BY <1>1, <1>3

ListsOnce(list, S) ==
  /\ list \in Seq(S)
  /\ \A j, k \in 1 .. Len(list) : list[j] = list[k] => j = k

ListsAll(list, S) == \A s \in Signal : s \in S <=> \E k \in 1 .. Len(list) : list[k] = s

(* One reading of s more if s is listed.                                     *)
ReadsOne(list, r, x, s, w) ==
  /\ (\E k \in 1 .. Len(list) : list[k] = s) =>
       r = [x EXCEPT !.seq = Append(x.seq, [t |-> x.t, v |-> w])]
  /\ (\A k \in 1 .. Len(list) : list[k] # s) => r = x

ReadsSome(list, j, r, x, s, w) ==
  /\ (\E k \in 1 .. j : list[k] = s) =>
       r = [x EXCEPT !.seq = Append(x.seq, [t |-> x.t, v |-> w])]
  /\ (\A k \in 1 .. j : list[k] # s) => r = x

LEMMA ReadsBlock ==
  ASSUME NEW L, NEW f \in Seq(L), NEW list, ListsOnce(list, Signal), NEW state, NEW block \in Seq(L),
         block = [k \in DOMAIN list |-> Change(IdOf[list[k]], state[list[k]])],
         NEW s \in Signal
  PROVE  ReadsOne(list, Valued(IdOf[s], f \o block), Valued(IdOf[s], f), s, state[s])
<1>1. PICK last \in Nat : /\ last = Len(list) /\ DOMAIN list = 1 .. last
                          /\ \A k \in 1 .. last : list[k] \in Signal
  BY DEF ListsOnce
<1>2. Len(block) = last
  BY <1>1
<1>3. PICK x \in Reading(L) : x = Valued(IdOf[s], f)
  BY ValuedIn
<1>4. PICK N : N = {j \in 0 .. last :
          ReadsSome(list, j, Valued(IdOf[s], f \o SubSeq(block, 1, j)), x, s, state[s])}
  OBVIOUS
<1>5. 0 \in N
  <2>1. f \o SubSeq(block, 1, 0) = f
    BY Extend
  <2>2. ReadsSome(list, 0, x, x, s, state[s])
    BY DEF ReadsSome
  <2>3. 0 \in 0 .. last
    OBVIOUS
  <2> QED
    BY <1>3, <1>4, <2>1, <2>2, <2>3
<1>6. ASSUME NEW j \in 0 .. last - 1, j \in N PROVE j + 1 \in N
  <2>1. PICK l \in Seq(L) : l = f \o SubSeq(block, 1, j)
    <3>1. j \in 0 .. Len(block)
      BY <1>2
    <3>2. f \o SubSeq(block, 1, j) \in Seq(L)
      BY <3>1, Extend
    <3> QED
      BY <3>2
  <2>2. PICK line \in L : line = block[j + 1] /\ f \o SubSeq(block, 1, j + 1) = Append(l, line)
    <3>1. j \in 0 .. Len(block) - 1
      BY <1>2
    <3>2. /\ block[j + 1] \in L
          /\ f \o SubSeq(block, 1, j + 1) = Append(f \o SubSeq(block, 1, j), block[j + 1])
      BY <3>1, Extend, SMTT(20)
    <3> QED
      BY <2>1, <3>2
  <2>3. PICK u \in Signal : u = list[j + 1] /\ line = Change(IdOf[u], state[u])
    <3>1. j + 1 \in 1 .. last
      OBVIOUS
    <3> QED
      BY <1>1, <2>2, <3>1
  <2>4. PICK r \in Reading(L) : r = Valued(IdOf[s], l)
    BY ValuedIn
  <2>5. Valued(IdOf[s], Append(l, line)) = ReadValue(IdOf[s], r, line)
    BY <2>4, ValueOne
  <2>6. ReadsSome(list, j, r, x, s, state[s])
    BY <1>4, <1>6, <2>1, <2>4
  <2>7. \A k \in 1 .. j + 1 : k \in 1 .. j \/ k = j + 1
    OBVIOUS
  <2>8. ReadsSome(list, j + 1, ReadValue(IdOf[s], r, line), x, s, state[s])
    <3>1. CASE u = s
      <4>1. \A k \in 1 .. j : list[k] # s
        <5> TAKE k \in 1 .. j
        <5>1. k \in 1 .. Len(list) /\ j + 1 \in 1 .. Len(list) /\ k # j + 1
          BY <1>1
        <5> QED
          BY <2>3, <3>1, <5>1 DEF ListsOnce
      <4>2. r = x
        BY <2>6, <4>1 DEF ReadsSome
      <4>3. ReadValue(IdOf[s], r, line) = [x EXCEPT !.seq = Append(x.seq, [t |-> x.t, v |-> state[s]])]
        <5>1. ReadValue(IdOf[s], x, Change(IdOf[s], state[s]))
                = [x EXCEPT !.seq = Append(x.seq, [t |-> x.t, v |-> state[s]])]
          BY ReadsChange
        <5> QED
          BY <2>3, <3>1, <4>2, <5>1
      <4>4. j + 1 \in 1 .. j + 1
        OBVIOUS
      <4> QED
        BY <2>3, <3>1, <4>3, <4>4 DEF ReadsSome
    <3>2. CASE u # s
      <4>1. IdOf[u] # IdOf[s]
        BY <3>2, HeaderAssumption
      <4>2. ReadValue(IdOf[s], r, line) = r
        <5>1. ReadValue(IdOf[s], r, Change(IdOf[u], state[u])) = r
          BY <4>1, ReadsOther
        <5> QED
          BY <2>3, <5>1
      <4>3. \A k \in 1 .. j : k \in 1 .. j + 1
        OBVIOUS
      <4> QED
        BY <2>3, <2>6, <2>7, <3>2, <4>2, <4>3 DEF ReadsSome
    <3> QED
      BY <3>1, <3>2
  <2>9. j + 1 \in 0 .. last
    OBVIOUS
  <2> QED
    BY <1>4, <2>2, <2>5, <2>8, <2>9
<1>7. \A j \in 0 .. last : j \in N
  BY <1>5, <1>6, RangeInduction
<1>8. f \o SubSeq(block, 1, last) = f \o block /\ last \in N
  <2>1. last \in 0 .. last
    OBVIOUS
  <2> QED
    BY <1>2, <1>7, <2>1, Extend
<1> QED
  BY <1>1, <1>3, <1>4, <1>8 DEF ReadsSome, ReadsOne

-----------------------------------------------------------------------------
(* The file of a run.                                                        *)
SignalChanges == UNION {{Change(IdOf[s], v) : v \in Bit} : s \in Signal}

FileLines == Range(Header) \cup {Time(t) : t \in Nat} \cup {Change(ClockId, 1)} \cup SignalChanges

Block(run, n) == <<Time(TimeOf(n - 1)), Change(ClockId, 1)>> \o ChangesAt(run, n - 1)

FilePasses(f, run) ==
  f = [n \in 0 .. Edges(run) + 1 |->
        IF n = 0 THEN Header
        ELSE f[n - 1] \o <<Time(TimeOf(n - 1)), Change(ClockId, 1)>> \o ChangesAt(run, n - 1)]

Grows(f, run) ==
  /\ f \in [0 .. Len(cycles[run]) -> Seq(FileLines)]
  /\ f[0] = Header
  /\ \A n \in 1 .. Len(cycles[run]) : f[n] = f[n - 1] \o Block(run, n)

Changed(run, n) ==
  {s \in Signal : \E j \in DOMAIN changes[run][s] : changes[run][s][j].t = TimeOf(n - 1)}

LEMMA FiniteSignals == \A S : S \subseteq Signal => IsFiniteSet(S)
<1>1. IsFiniteSet(Signal)
  <2>1. IsFiniteSet({active}) /\ IsFiniteSet({active} \cup {pc})
    BY FS_Singleton, FS_AddElement
  <2>2. Signal = {active} \cup {pc}
    BY DEF Signal
  <2> QED
    BY <2>1, <2>2
<1> QED
  BY <1>1, FS_Subset

LEMMA BlockIs ==
  ASSUME WInv, NEW run \in Run, NEW n \in 1 .. Len(cycles[run]),
         NEW list, list = SetToSeq(Changed(run, n))
  PROVE  /\ ListsOnce(list, Signal)
         /\ ListsAll(list, Changed(run, n))
         /\ ChangesAt(run, n - 1) =
              [k \in DOMAIN list |-> Change(IdOf[list[k]], cycles[run][n][list[k]])]
         /\ Time(TimeOf(n - 1)) \in FileLines /\ Change(ClockId, 1) \in FileLines
         /\ <<Time(TimeOf(n - 1)), Change(ClockId, 1)>> \in Seq(FileLines)
         /\ ChangesAt(run, n - 1) \in Seq(FileLines)
         /\ Block(run, n) \in Seq(FileLines)
<1>1. PICK S : S = Changed(run, n)
  OBVIOUS
<1>2. S \subseteq Signal /\ IsFiniteSet(S)
  BY <1>1, FiniteSignals DEF Changed
<1>3. /\ list \in Seq(S)
      /\ \A j, k \in 1 .. Len(list) : list[j] = list[k] => j = k
      /\ \A x \in S : \E j \in 1 .. Len(list) : list[j] = x
  BY <1>1, <1>2, ListOfSet
<1>4. PICK last \in Nat : last = Len(list) /\ DOMAIN list = 1 .. last /\ \A k \in 1 .. last : list[k] \in S
  BY <1>3
<1>5. list \in Seq(Signal)
  BY <1>2, <1>3
<1>6. (n - 1) + 1 = n /\ n \in Nat
  BY DEF WInv
<1>7. PICK block : block = ChangesAt(run, n - 1)
  OBVIOUS
<1>8. block = [k \in DOMAIN list |-> Change(IdOf[list[k]], cycles[run][n][list[k]])]
  BY <1>6, <1>7, Zenon DEF ChangesAt, Changed
<1>10. \A k \in 1 .. last : Change(IdOf[list[k]], cycles[run][n][list[k]]) \in SignalChanges
  <2> TAKE k \in 1 .. last
  <2>1. list[k] \in Signal /\ cycles[run][n] \in State
    BY <1>2, <1>4 DEF WInv
  <2>2. cycles[run][n][list[k]] \in Bit
    BY <2>1, SignalTypes
  <2> QED
    BY <2>1, <2>2 DEF SignalChanges
<1>11. block \in Seq(SignalChanges)
  BY <1>4, <1>8, <1>10
<1>12. block \in Seq(FileLines)
  <2>1. SignalChanges \subseteq FileLines
    BY DEF FileLines
  <2> QED
    BY <1>11, <2>1
<1>15. /\ Time(TimeOf(n - 1)) \in FileLines /\ Change(ClockId, 1) \in FileLines
       /\ <<Time(TimeOf(n - 1)), Change(ClockId, 1)>> \in Seq(FileLines)
  <2>1. TimeOf(n - 1) \in Nat
    <3>1. CASE n = 1
      BY <3>1 DEF TimeOf
    <3>2. CASE n # 1
      <4>1. n - 1 \in Nat \ {0}
        BY <1>6, <3>2
      <4> QED
        BY <4>1, EdgeTimes DEF TimeOf
    <3> QED
      BY <3>1, <3>2
  <2>2. Time(TimeOf(n - 1)) \in FileLines /\ Change(ClockId, 1) \in FileLines
    BY <2>1 DEF FileLines
  <2> QED
    BY <2>2
<1>16. Block(run, n) \in Seq(FileLines)
  BY <1>7, <1>12, <1>15, ConcatProperties DEF Block
<1>13. ListsAll(list, Changed(run, n))
  BY <1>1, <1>3, <1>4 DEF ListsAll
<1>14. ListsOnce(list, Signal)
  BY <1>3, <1>5, Zenon DEF ListsOnce
<1> QED
  BY <1>7, <1>8, <1>12, <1>13, <1>14, <1>15, <1>16, Zenon

LEMMA FileGrows ==
  ASSUME WInv, NEW run \in Run
  PROVE  \E f : Grows(f, run) /\ VcdFile(run) = f[Len(cycles[run])]
<1>1. PICK last \in Nat : last = Len(cycles[run]) /\ Edges(run) + 1 = last
  BY DEF WInv, Edges
<1>2. PICK V : V = Seq(FileLines)
  OBVIOUS
<1>3. Header \in V
  <2>1. Range(Header) \subseteq FileLines
    BY DEF FileLines
  <2> QED
    BY <1>2, <2>1, HeaderAssumption
<1>4. PICK step : step = [n \in 1 .. last |-> [x \in V |-> x \o Block(run, n)]]
  OBVIOUS
<1>5. step \in [1 .. last -> [V -> V]]
  <2>1. ASSUME NEW n \in 1 .. last, NEW x \in V PROVE x \o Block(run, n) \in V
    <3>1. Block(run, n) \in Seq(FileLines)
      <4>1. n \in 1 .. Len(cycles[run])
        BY <1>1
      <4>2. PICK list : list = SetToSeq(Changed(run, n))
        OBVIOUS
      <4> QED
        BY <4>1, <4>2, BlockIs
    <3> QED
      BY <1>2, <3>1, ConcatProperties
  <2> QED
    BY <1>4, <2>1
<1>6. PICK f : Iterates(f, last, V, Header, step)
  BY <1>3, <1>5, Recursion, Zenon
<1>7. ASSUME NEW n \in 1 .. last PROVE f[n] = f[n - 1] \o Block(run, n)
  <2>1. f[n] = step[n][f[n - 1]] /\ n - 1 \in 0 .. last
    BY <1>6 DEF Iterates
  <2>2. f[n - 1] \in V
    BY <1>6, <2>1 DEF Iterates
  <2> QED
    BY <1>4, <2>1, <2>2
<1>8. f \in [0 .. last -> V] /\ f[0] = Header
  BY <1>6 DEF Iterates
<1>9. Grows(f, run)
  BY <1>1, <1>2, <1>7, <1>8, Zenon DEF Grows
<1>10. ASSUME NEW n \in 1 .. last
       PROVE  f[n] = f[n - 1] \o <<Time(TimeOf(n - 1)), Change(ClockId, 1)>> \o ChangesAt(run, n - 1)
  <2>1. PICK a, b, e : /\ a = f[n - 1] /\ b = <<Time(TimeOf(n - 1)), Change(ClockId, 1)>>
                       /\ e = ChangesAt(run, n - 1)
    OBVIOUS
  <2>2. f[n] = a \o (b \o e)
    BY <1>7, <2>1, Zenon DEF Block
  <2>3. a \in Seq(FileLines) /\ b \in Seq(FileLines) /\ e \in Seq(FileLines)
    <3>1. n \in 1 .. Len(cycles[run]) /\ n - 1 \in 0 .. last
      BY <1>1
    <3>2. a \in Seq(FileLines)
      BY <1>2, <1>8, <2>1, <3>1
    <3>3. PICK list : list = SetToSeq(Changed(run, n))
      OBVIOUS
    <3> QED
      BY <2>1, <3>1, <3>2, <3>3, BlockIs
  <2>4. a \o (b \o e) = (a \o b) \o e
    BY <2>3, ConcatAssociative
  <2> QED
    BY <2>1, <2>2, <2>4
<1>11. FilePasses(f, run)
  <2>1. f = [n \in 0 .. last |-> f[n]]
    BY <1>8
  <2>2. \A n \in 0 .. last : n # 0 => n \in 1 .. last
    OBVIOUS
  <2>3. \A n \in 0 .. last : f[n] = IF n = 0 THEN Header
          ELSE f[n - 1] \o <<Time(TimeOf(n - 1)), Change(ClockId, 1)>> \o ChangesAt(run, n - 1)
    BY <1>8, <1>10, <2>2, Zenon
  <2> QED
    BY <1>1, <2>1, <2>3, Zenon DEF FilePasses
<1>12. PICK g : g = CHOOSE file : FilePasses(file, run)
  OBVIOUS
<1>13. FilePasses(g, run)
  BY <1>11, <1>12, Zenon
<1>14. VcdFile(run) = g[last]
  BY <1>1, <1>12, Zenon DEF VcdFile, FilePasses
<1>15. /\ \A n \in 0 .. last : g[n] = IF n = 0 THEN Header
             ELSE g[n - 1] \o <<Time(TimeOf(n - 1)), Change(ClockId, 1)>> \o ChangesAt(run, n - 1)
  BY <1>1, <1>13, Zenon DEF FilePasses
<1>16. ASSUME NEW n \in 1 .. last, f[n - 1] = g[n - 1] PROVE f[n] = g[n]
  <2>1. n \in 0 .. last /\ n # 0
    OBVIOUS
  <2> QED
    BY <1>10, <1>15, <1>16, <2>1, Zenon
<1>17. f[0] = g[0]
  <2>1. 0 \in 0 .. last
    OBVIOUS
  <2> QED
    BY <1>8, <1>15, <2>1, Zenon
<1>18. f[last] = g[last]
  <2>1. Alike(f, g, last)
    BY <1>16, <1>17 DEF Alike
  <2> QED
    BY <2>1, SameSteps
<1> QED
  BY <1>1, <1>9, <1>14, <1>18

-----------------------------------------------------------------------------
(* The file has the declarations of its header, and one end of them.         *)
IsBody(lines) == \A k \in 1 .. Len(lines) : lines[k].kind \in {"time", "value"}

LEMMA BlockIsBody ==
  ASSUME WInv, NEW run \in Run, NEW n \in 1 .. Len(cycles[run])
  PROVE  IsBody(Block(run, n))
<1>1. PICK list : list = SetToSeq(Changed(run, n))
  OBVIOUS
<1>2. PICK e \in Seq(FileLines) :
        /\ e = ChangesAt(run, n - 1)
        /\ e = [k \in DOMAIN list |-> Change(IdOf[list[k]], cycles[run][n][list[k]])]
  <2>1. /\ ChangesAt(run, n - 1) \in Seq(FileLines)
        /\ ChangesAt(run, n - 1) =
             [k \in DOMAIN list |-> Change(IdOf[list[k]], cycles[run][n][list[k]])]
    BY <1>1, BlockIs
  <2> QED
    BY <2>1
<1>3. PICK a \in Seq(FileLines) : a = <<Time(TimeOf(n - 1)), Change(ClockId, 1)>>
  BY <1>1, BlockIs
<1>4. ASSUME NEW k \in 1 .. Len(e) PROVE e[k].kind = "value"
  <2>1. e[k] = Change(IdOf[list[k]], cycles[run][n][list[k]])
    BY <1>2
  <2> QED
    BY <2>1 DEF Change
<1>5. Len(a) = 2 /\ a[1].kind = "time" /\ a[2].kind = "value"
  BY <1>3 DEF Time, Change
<1>6. Block(run, n) = a \o e
  BY <1>2, <1>3, Zenon DEF Block
<1>7. \A k \in 1 .. Len(a \o e) : (a \o e)[k].kind \in {"time", "value"}
  <2> TAKE k \in 1 .. Len(a \o e)
  <2>1. /\ k \in 1 .. 2 + Len(e) /\ Len(e) \in Nat
        /\ (a \o e)[k] = IF k <= 2 THEN a[k] ELSE e[k - 2]
    <3>1. ASSUME NEW L, NEW x \in Seq(L), NEW y \in Seq(L)
          PROVE  /\ Len(x \o y) = Len(x) + Len(y) /\ Len(y) \in Nat
                 /\ \A i \in 1 .. Len(x) + Len(y) :
                      (x \o y)[i] = IF i <= Len(x) THEN x[i] ELSE y[i - Len(x)]
      BY ConcatProperties
    <3>2. /\ Len(a \o e) = Len(a) + Len(e) /\ Len(e) \in Nat
          /\ \A i \in 1 .. Len(a) + Len(e) :
               (a \o e)[i] = IF i <= Len(a) THEN a[i] ELSE e[i - Len(a)]
      BY <3>1, Zenon
    <3> QED
      BY <1>5, <3>2
  <2>2. k > 2 => k - 2 \in 1 .. Len(e)
    BY <2>1
  <2>3. k = 1 \/ k = 2 \/ k > 2
    BY <2>1
  <2> QED
    BY <1>4, <1>5, <2>1, <2>2, <2>3
<1> QED
  BY <1>6, <1>7 DEF IsBody

HeaderFirst(lines) ==
  /\ Len(Header) <= Len(lines)
  /\ \A k \in 1 .. Len(Header) : lines[k] = Header[k]
  /\ \A k \in Len(Header) + 1 .. Len(lines) : lines[k].kind \in {"time", "value"}
  /\ Declared(lines) = Declared(Header)

LEMMA HeaderStaysFirst ==
  ASSUME NEW L, NEW f \in Seq(L), NEW g \in Seq(L), HeaderFirst(f), IsBody(g), Header \in Seq(L)
  PROVE  HeaderFirst(f \o g)
<1>1. /\ f \o g \in Seq(L) /\ Len(f \o g) = Len(f) + Len(g)
      /\ Len(f) \in Nat /\ Len(g) \in Nat /\ Len(Header) \in Nat
      /\ \A k \in 1 .. Len(f) + Len(g) : (f \o g)[k] = IF k <= Len(f) THEN f[k] ELSE g[k - Len(f)]
  BY ConcatProperties
<1>2. Declared(f \o g) = Declared(f)
  BY DeclaresNoMore DEF IsBody
<1>3. \A k \in 1 .. Len(Header) : (f \o g)[k] = Header[k]
  BY <1>1 DEF HeaderFirst
<1>4. ASSUME NEW k \in Len(Header) + 1 .. Len(f \o g) PROVE (f \o g)[k].kind \in {"time", "value"}
  <2>1. CASE k <= Len(f)
    <3>1. k \in Len(Header) + 1 .. Len(f) /\ (f \o g)[k] = f[k]
      BY <1>1, <2>1
    <3> QED
      BY <3>1 DEF HeaderFirst
  <2>2. CASE ~ (k <= Len(f))
    <3>1. k - Len(f) \in 1 .. Len(g) /\ (f \o g)[k] = g[k - Len(f)]
      BY <1>1, <2>2
    <3> QED
      BY <3>1 DEF IsBody
  <2> QED
    BY <2>1, <2>2
<1> QED
  BY <1>1, <1>2, <1>3, <1>4 DEF HeaderFirst

LEMMA HeaderInFile ==
  ASSUME WInv, NEW run \in Run, NEW f, Grows(f, run)
  PROVE  \A n \in 0 .. Len(cycles[run]) : HeaderFirst(f[n])
<1>1. PICK last \in Nat : last = Len(cycles[run])
  BY DEF WInv
<1>2. PICK N : N = {n \in 0 .. last : HeaderFirst(f[n])}
  OBVIOUS
<1>3. Header \in Seq(FileLines)
  BY <1>1 DEF Grows
<1>4. 0 \in N
  <2>1. \A k \in Len(Header) + 1 .. Len(Header) : FALSE
    BY <1>3
  <2>2. HeaderFirst(Header)
    BY <1>3, <2>1 DEF HeaderFirst
  <2> QED
    BY <1>1, <1>2, <2>2 DEF Grows
<1>5. ASSUME NEW n \in 0 .. last - 1, n \in N PROVE n + 1 \in N
  <2>1. n + 1 \in 1 .. last /\ n \in 0 .. last /\ (n + 1) - 1 = n
    BY <1>1
  <2>2. f[n] \in Seq(FileLines) /\ f[n + 1] = f[n] \o Block(run, n + 1)
    BY <1>1, <2>1 DEF Grows
  <2>3. IsBody(Block(run, n + 1)) /\ Block(run, n + 1) \in Seq(FileLines)
    <3>1. PICK list : list = SetToSeq(Changed(run, n + 1))
      OBVIOUS
    <3> QED
      BY <1>1, <2>1, <3>1, BlockIs, BlockIsBody
  <2>4. HeaderFirst(f[n])
    BY <1>2, <1>5
  <2>5. HeaderFirst(f[n + 1])
    BY <1>3, <2>2, <2>3, <2>4, HeaderStaysFirst
  <2> QED
    BY <1>2, <2>1, <2>5
<1>6. \A n \in 0 .. last : n \in N
  BY <1>4, <1>5, RangeInduction
<1> QED
  BY <1>1, <1>2, <1>6

LEMMA FileHasHeader ==
  ASSUME NEW L, NEW file \in Seq(L), Header \in Seq(L), HeaderFirst(file)
  PROVE  /\ \E end : HeaderEnds(file, end)
         /\ Variables(file) = Variables(Header)
<1>1. PICK end : end \in DOMAIN Header /\ HeaderEnds(Header, end)
  BY HeaderAssumption
<1>2. PICK last \in Nat : last = Len(Header) /\ DOMAIN Header = 1 .. last
  OBVIOUS
<1>3. PICK all \in Nat : all = Len(file) /\ DOMAIN file = 1 .. all
  OBVIOUS
<1>4. /\ last <= all /\ end \in 1 .. last
      /\ \A k \in 1 .. last : file[k] = Header[k]
      /\ \A k \in last + 1 .. all : file[k].kind \in {"time", "value"}
  BY <1>1, <1>2, <1>3 DEF HeaderFirst
<1>5. end \in DOMAIN file /\ file[end].kind = "enddefinitions"
  BY <1>1, <1>3, <1>4 DEF HeaderEnds
<1>6. ASSUME NEW k \in 1 .. end - 1
      PROVE  /\ file[k].kind \notin {"enddefinitions", "time", "value"}
             /\ file[k].kind = "timescale" => file[k + 1].kind = "text"
  <2>1. k \in 1 .. last /\ k + 1 \in 1 .. last
    BY <1>4
  <2>2. file[k] = Header[k] /\ file[k + 1] = Header[k + 1]
    BY <1>4, <2>1
  <2> QED
    BY <1>1, <2>2 DEF HeaderEnds
<1>7. ASSUME NEW k \in DOMAIN file, end < k PROVE file[k].kind # "var"
  <2>1. CASE k \in 1 .. last
    BY <1>1, <1>2, <1>4, <1>7, <2>1 DEF HeaderEnds
  <2>2. CASE k \in last + 1 .. all
    BY <1>4, <2>2
  <2> QED
    BY <1>2, <1>3, <2>1, <2>2
<1>8. HeaderEnds(file, end)
  BY <1>5, <1>6, <1>7 DEF HeaderEnds
<1>9. Variables(file) = Variables(Header)
  BY VariablesAre DEF HeaderFirst
<1> QED
  BY <1>8, <1>9

-----------------------------------------------------------------------------
(* The changes of a signal are read back one cycle after the other.          *)
LEMMA TimesDiffer ==
  ASSUME NEW j \in Nat \ {0}, NEW k \in Nat \ {0}, TimeOfCycle(j) = TimeOfCycle(k)
  PROVE  j = k
<1>1. CLOCK_PERIOD * (j - 1) \in Int /\ CLOCK_PERIOD * (k - 1) \in Int
  BY WaveformAssumption
<1>2. /\ TimeOfCycle(j) <= CLOCK_PERIOD * (j - 1)
      /\ TimeOfCycle(k) <= CLOCK_PERIOD * (j - 1) <=> k <= j
  BY SeenAtSample
<1>3. /\ TimeOfCycle(k) <= CLOCK_PERIOD * (k - 1)
      /\ TimeOfCycle(j) <= CLOCK_PERIOD * (k - 1) <=> j <= k
  BY SeenAtSample
<1> QED
  BY <1>2, <1>3

LEMMA InOrder ==
  ASSUME NEW last \in Nat, NEW at \in [1 .. last -> Int],
         \A j \in 1 .. last - 1 : at[j] < at[j + 1]
  PROVE  \A j, k \in 1 .. last : j < k => at[j] < at[k]
<1> SUFFICES ASSUME NEW j \in 1 .. last, NEW k \in 1 .. last, j < k PROVE at[j] < at[k]
  OBVIOUS
<1>1. PICK N : N = {n \in j + 1 .. last : at[j] < at[n]}
  OBVIOUS
<1>2. j + 1 \in N /\ j + 1 \in Nat
  BY <1>1
<1>3. ASSUME NEW n \in j + 1 .. last - 1, n \in N PROVE n + 1 \in N
  <2>1. n \in 1 .. last - 1 /\ n \in 1 .. last /\ n + 1 \in 1 .. last /\ n + 1 \in j + 1 .. last
    OBVIOUS
  <2>2. at[j] < at[n] /\ at[n] < at[n + 1]
    BY <1>1, <1>3, <2>1
  <2>3. at[j] \in Int /\ at[n] \in Int /\ at[n + 1] \in Int
    BY <2>1
  <2> QED
    BY <1>1, <2>1, <2>2, <2>3
<1>4. \A n \in j + 1 .. last : n \in N
  BY <1>2, <1>3, RangeInduction
<1> QED
  BY <1>1, <1>4

(* The first m changes of all are those of the first n cycles.               *)
ReadUpTo(all, at, seq, n) ==
  \E m \in 0 .. Len(all) :
    /\ seq = SubSeq(all, 1, m)
    /\ \A j \in 1 .. Len(all) : j <= m <=> at[j] <= n

(* What a cycle whose changes have time t and value v adds.                  *)
Adds(all, old, new, t, v) ==
  /\ (\E j \in 1 .. Len(all) : all[j].t = t) => new = Append(old, [t |-> t, v |-> v])
  /\ (\A j \in 1 .. Len(all) : all[j].t # t) => new = old

LEMMA ReadsTwo ==
  ASSUME NEW id, id # ClockId, NEW L, NEW f \in Seq(L), NEW t, Time(t) \in L, Change(ClockId, 1) \in L
  PROVE  /\ f \o <<Time(t), Change(ClockId, 1)>> \in Seq(L)
         /\ Valued(id, f \o <<Time(t), Change(ClockId, 1)>>) = [Valued(id, f) EXCEPT !.t = t]
<1>1. PICK a \in L : a = Time(t)
  OBVIOUS
<1>2. PICK b \in L : b = Change(ClockId, 1)
  OBVIOUS
<1>3. PICK fa \in Seq(L) : fa = Append(f, a)
  BY Longer
<1>4. PICK fb \in Seq(L) : fb = Append(fa, b)
  BY Longer
<1>5. f \o <<a, b>> = fb
  BY <1>3, <1>4
<1>6. Valued(id, fa) = ReadValue(id, Valued(id, f), a)
  BY <1>3, ValueOne
<1>7. Valued(id, fb) = ReadValue(id, Valued(id, fa), b)
  BY <1>4, ValueOne
<1>8. ReadValue(id, Valued(id, f), a) = [Valued(id, f) EXCEPT !.t = t]
  BY <1>1 DEF ReadValue, Time
<1>9. ReadValue(id, Valued(id, fa), b) = Valued(id, fa)
  BY <1>2, ReadsOther
<1> QED
  BY <1>1, <1>2, <1>4, <1>5, <1>6, <1>7, <1>8, <1>9

(* What the lines of a cycle add to what has been read of a signal.          *)
LEMMA ReadsCycle ==
  ASSUME WInv, NEW run \in Run, NEW s \in Signal, NEW n \in 1 .. Len(cycles[run]),
         NEW f \in Seq(FileLines),
         NEW old, old = Valued(IdOf[s], f).seq,
         NEW new, new = Valued(IdOf[s], f \o Block(run, n)).seq
  PROVE  /\ s \in Changed(run, n) =>
              new = Append(old, [t |-> TimeOf(n - 1), v |-> cycles[run][n][s]])
         /\ s \notin Changed(run, n) => new = old
<1>1. PICK list : list = SetToSeq(Changed(run, n))
  OBVIOUS
<1>2. PICK state : state = cycles[run][n]
  OBVIOUS
<1>3. PICK block \in Seq(FileLines) :
        /\ block = ChangesAt(run, n - 1)
        /\ block = [k \in DOMAIN list |-> Change(IdOf[list[k]], state[list[k]])]
  <2>1. ChangesAt(run, n - 1) \in Seq(FileLines)
    BY <1>1, BlockIs
  <2>2. ChangesAt(run, n - 1) =
          [k \in DOMAIN list |-> Change(IdOf[list[k]], cycles[run][n][list[k]])]
    BY <1>1, BlockIs
  <2> QED
    BY <1>2, <2>1, <2>2
<1>4. /\ ListsOnce(list, Signal)
      /\ s \in Changed(run, n) <=> \E k \in 1 .. Len(list) : list[k] = s
      /\ Time(TimeOf(n - 1)) \in FileLines /\ Change(ClockId, 1) \in FileLines
      /\ <<Time(TimeOf(n - 1)), Change(ClockId, 1)>> \in Seq(FileLines)
  <2>1. ListsOnce(list, Signal)
    BY <1>1, BlockIs
  <2>2. s \in Changed(run, n) <=> \E k \in 1 .. Len(list) : list[k] = s
    <3>1. ListsAll(list, Changed(run, n))
      BY <1>1, BlockIs
    <3> QED
      BY <3>1 DEF ListsAll
  <2>3. /\ Time(TimeOf(n - 1)) \in FileLines /\ Change(ClockId, 1) \in FileLines
        /\ <<Time(TimeOf(n - 1)), Change(ClockId, 1)>> \in Seq(FileLines)
    BY <1>1, BlockIs
  <2> QED
    BY <2>1, <2>2, <2>3
<1>5. PICK timed \in Seq(FileLines) :
        /\ timed = f \o <<Time(TimeOf(n - 1)), Change(ClockId, 1)>>
        /\ Valued(IdOf[s], timed) = [Valued(IdOf[s], f) EXCEPT !.t = TimeOf(n - 1)]
  <2>2. IdOf[s] # ClockId
    BY HeaderAssumption
  <2>3. /\ f \o <<Time(TimeOf(n - 1)), Change(ClockId, 1)>> \in Seq(FileLines)
        /\ Valued(IdOf[s], f \o <<Time(TimeOf(n - 1)), Change(ClockId, 1)>>)
             = [Valued(IdOf[s], f) EXCEPT !.t = TimeOf(n - 1)]
    BY <1>4, <2>2, ReadsTwo
  <2> QED
    BY <2>3
<1>6. f \o Block(run, n) = timed \o block
  <2>1. PICK a \in Seq(FileLines) : a = <<Time(TimeOf(n - 1)), Change(ClockId, 1)>>
    BY <1>4
  <2>2. f \o (a \o block) = (f \o a) \o block
    BY ConcatAssociative, SMTT(20)
  <2>3. Block(run, n) = a \o block
    BY <1>3, <2>1, Zenon DEF Block
  <2> QED
    BY <1>5, <2>1, <2>2, <2>3
<1>7. ReadsOne(list, Valued(IdOf[s], timed \o block), Valued(IdOf[s], timed), s, state[s])
  BY <1>3, <1>4, ReadsBlock
<1>8. PICK r \in Reading(FileLines) : r = Valued(IdOf[s], f)
  BY ValuedIn
<1>9. PICK x \in Reading(FileLines) : x = Valued(IdOf[s], timed)
  BY ValuedIn
<1>10. x = [r EXCEPT !.t = TimeOf(n - 1)]
  BY <1>5, <1>8, <1>9
<1>11. x.t = TimeOf(n - 1) /\ x.seq = old
  BY <1>8, <1>10 DEF Reading
<1>12. CASE s \in Changed(run, n)
  <2>1. Valued(IdOf[s], timed \o block) = [x EXCEPT !.seq = Append(x.seq, [t |-> x.t, v |-> state[s]])]
    BY <1>4, <1>7, <1>9, <1>12 DEF ReadsOne
  <2>2. [x EXCEPT !.seq = Append(x.seq, [t |-> x.t, v |-> state[s]])].seq
          = Append(x.seq, [t |-> x.t, v |-> state[s]])
    BY <1>9 DEF Reading
  <2> QED
    BY <1>2, <1>6, <1>11, <1>12, <2>1, <2>2
<1>13. CASE s \notin Changed(run, n)
  BY <1>4, <1>6, <1>7, <1>9, <1>11, <1>13 DEF ReadsOne
<1> QED
  BY <1>12, <1>13

(* One cycle more.                                                           *)
LEMMA ReadsNext ==
  ASSUME NEW c \in Seq(State), NEW all \in Seq(Record), NEW s \in Signal,
         NEW at \in [1 .. Len(all) -> 1 .. Len(c)], Placed(c, all, s, at),
         NEW n \in 0 .. Len(c) - 1,
         NEW old, ReadUpTo(all, at, old, n),
         NEW new, Adds(all, old, new, TimeOfCycle(n + 1), c[n + 1][s])
  PROVE  ReadUpTo(all, at, new, n + 1)
<1>0. PICK m \in 0 .. Len(all) :
        /\ old = SubSeq(all, 1, m)
        /\ \A j \in 1 .. Len(all) : j <= m <=> at[j] <= n
  BY DEF ReadUpTo
<1>1. PICK last \in Nat : last = Len(all)
  OBVIOUS
<1>2. PICK cs \in Nat : cs = Len(c)
  OBVIOUS
<1>3. /\ at \in [1 .. last -> 1 .. cs] /\ at \in [1 .. last -> Int]
      /\ \A j \in 1 .. last - 1 : at[j] < at[j + 1]
  BY <1>1, <1>2 DEF Placed
<1>4. \A j, k \in 1 .. last : j < k => at[j] < at[k]
  BY <1>3, InOrder
<1>5. \A j \in 1 .. last : all[j] = [t |-> TimeOfCycle(at[j]), v |-> c[at[j]][s]]
  BY <1>1, Zenon DEF Placed
<1>6. \A j \in 1 .. last : all[j].t = TimeOfCycle(n + 1) <=> at[j] = n + 1
  <2> TAKE j \in 1 .. last
  <2>1. all[j].t = TimeOfCycle(at[j])
    <3>1. all[j] = [t |-> TimeOfCycle(at[j]), v |-> c[at[j]][s]]
      BY <1>5, Zenon
    <3> QED
      BY <3>1
  <2>2. at[j] \in Nat \ {0} /\ n + 1 \in Nat \ {0}
    BY <1>2, <1>3
  <2> QED
    BY <2>1, <2>2, TimesDiffer
<1>7. CASE \E j \in 1 .. last : at[j] = n + 1
  <2>1. PICK j \in 1 .. last : at[j] = n + 1
    BY <1>7
  <2>2. m < j
    BY <1>0, <1>1, <2>1
  <2>3. m + 1 \in 1 .. last
    BY <1>1, <2>2
  <2>4. n < at[m + 1] /\ at[m + 1] \in Int
    BY <1>0, <1>1, <1>3, <2>3, SMTT(20)
  <2>5. m + 1 = j
    <3>1. m + 1 < j => at[m + 1] < at[j]
      BY <1>4, <2>3
    <3> QED
      BY <2>1, <2>2, <2>4, <3>1
  <2>6. all[m + 1] = [t |-> TimeOfCycle(n + 1), v |-> c[n + 1][s]]
    BY <1>5, <2>1, <2>5
  <2>7. new = Append(SubSeq(all, 1, m), all[m + 1])
    <3>1. all[j].t = TimeOfCycle(n + 1)
      BY <1>6, <2>1
    <3> QED
      BY <1>0, <1>1, <2>6, <3>1 DEF Adds
  <2>8. new = SubSeq(all, 1, m + 1)
    <3>1. m \in 0 .. Len(all) - 1
      BY <1>1, <2>3
    <3> QED
      BY <2>7, <3>1, PrefixFacts
  <2>9. \A k \in 1 .. last : k <= m + 1 <=> at[k] <= n + 1
    <3> TAKE k \in 1 .. last
    <3>1. at[k] \in Int
      BY <1>3
    <3>2. CASE k <= m
      BY <1>0, <1>1, <3>1, <3>2
    <3>3. CASE k = m + 1
      BY <2>1, <2>5, <3>3
    <3>4. CASE k > m + 1
      <4>1. at[j] < at[k]
        BY <1>4, <2>5, <3>4
      <4> QED
        BY <2>1, <3>1, <3>4, <4>1
    <3> QED
      BY <3>2, <3>3, <3>4
  <2> QED
    BY <1>1, <2>3, <2>8, <2>9 DEF ReadUpTo
<1>8. CASE \A j \in 1 .. last : at[j] # n + 1
  <2>1. new = SubSeq(all, 1, m)
    BY <1>0, <1>1, <1>6, <1>8 DEF Adds
  <2>2. \A j \in 1 .. last : j <= m <=> at[j] <= n + 1
    <3> TAKE j \in 1 .. last
    <3>1. at[j] \in Int /\ at[j] # n + 1 /\ (j <= m <=> at[j] <= n)
      BY <1>0, <1>1, <1>3, <1>8
    <3> QED
      BY <3>1
  <2> QED
    BY <1>1, <2>1, <2>2 DEF ReadUpTo
<1> QED
  BY <1>7, <1>8

LEMMA ReadsBack ==
  ASSUME WInv, NEW run \in Run, NEW s \in Signal, NEW f, Grows(f, run)
  PROVE  Valued(IdOf[s], f[Len(cycles[run])]).seq = changes[run][s]
<1>1. PICK c : c = cycles[run]
  OBVIOUS
<1>2. PICK all : all = changes[run][s]
  OBVIOUS
<1>3. /\ c \in Seq(State) /\ all \in Seq(Record) /\ Records(c, all, s)
  BY <1>1, <1>2, Zenon DEF WInv, Records
<1>4. PICK at \in [1 .. Len(all) -> 1 .. Len(c)] : Placed(c, all, s, at)
  BY <1>3, Zenon DEF Records
<1>5. PICK last \in Nat : last = Len(c) /\ last = Len(cycles[run])
  BY <1>1, <1>3
<1>6. PICK N : N = {n \in 0 .. last : ReadUpTo(all, at, Valued(IdOf[s], f[n]).seq, n)}
  OBVIOUS
<1>7. 0 \in N
  <2>1. Header \in Seq(FileLines) /\ f[0] = Header
    BY <1>5 DEF Grows
  <2>2. Valued(IdOf[s], Header) = ValueStart
    <3>1. \A k \in 1 .. Len(Header) : Header[k].kind \notin {"time", "value"}
      BY <2>1, HeaderAssumption
    <3> QED
      BY <2>1, <3>1, ReadsNothing
  <2>3. ValueStart.seq = SubSeq(all, 1, 0)
    BY <1>3, PrefixFacts DEF ValueStart
  <2>4. 0 \in 0 .. Len(all) /\ \A j \in 1 .. Len(all) : ~ (j <= 0) /\ ~ (at[j] <= 0)
    BY <1>3
  <2>5. ReadUpTo(all, at, ValueStart.seq, 0)
    BY <2>3, <2>4 DEF ReadUpTo
  <2>6. 0 \in 0 .. last
    OBVIOUS
  <2> QED
    BY <1>6, <2>1, <2>2, <2>5, <2>6
<1>8. ASSUME NEW n \in 0 .. last - 1, n \in N PROVE n + 1 \in N
  <2>1. n + 1 \in 1 .. last /\ n \in 0 .. last /\ (n + 1) - 1 = n /\ n \in 0 .. Len(c) - 1
    BY <1>5
  <2>2. PICK lines \in Seq(FileLines) : lines = f[n] /\ f[n + 1] = lines \o Block(run, n + 1)
    BY <1>5, <2>1 DEF Grows
  <2>3. PICK old : old = Valued(IdOf[s], lines).seq
    OBVIOUS
  <2>4. PICK new : new = Valued(IdOf[s], f[n + 1]).seq
    OBVIOUS
  <2>5. ReadUpTo(all, at, old, n)
    BY <1>6, <1>8, <2>2, <2>3
  <2>6. TimeOf(n) = TimeOfCycle(n + 1)
    BY <2>1 DEF TimeOf, TimeOfCycle
  <2>7. /\ s \in Changed(run, n + 1) =>
             new = Append(old, [t |-> TimeOf(n), v |-> c[n + 1][s]])
        /\ s \notin Changed(run, n + 1) => new = old
    BY <1>1, <1>5, <2>1, <2>2, <2>3, <2>4, ReadsCycle
  <2>8. s \in Changed(run, n + 1) <=> \E j \in 1 .. Len(all) : all[j].t = TimeOfCycle(n + 1)
    <3>1. DOMAIN all = 1 .. Len(all)
      BY <1>3
    <3> QED
      BY <1>2, <2>1, <2>6, <3>1 DEF Changed
  <2>9. Adds(all, old, new, TimeOfCycle(n + 1), c[n + 1][s])
    BY <2>6, <2>7, <2>8 DEF Adds
  <2>10. ReadUpTo(all, at, Valued(IdOf[s], f[n + 1]).seq, n + 1)
    BY <1>3, <1>4, <2>1, <2>4, <2>5, <2>9, ReadsNext
  <2> QED
    BY <1>6, <2>1, <2>10
<1>9. \A n \in 0 .. last : n \in N
  BY <1>7, <1>8, RangeInduction
<1>10. PICK m \in 0 .. Len(all) :
         /\ Valued(IdOf[s], f[last]).seq = SubSeq(all, 1, m)
         /\ \A j \in 1 .. Len(all) : j <= m <=> at[j] <= last
  <2>1. last \in 0 .. last
    OBVIOUS
  <2> QED
    BY <1>6, <1>9, <2>1 DEF ReadUpTo
<1>11. m = Len(all)
  <2>1. \A j \in 1 .. Len(all) : j <= m
    BY <1>5, <1>10
  <2>2. Len(all) \in Nat
    BY <1>3
  <2>3. Len(all) > 0 => Len(all) \in 1 .. Len(all)
    BY <2>2
  <2> QED
    BY <2>1, <2>2, <2>3
<1> QED
  BY <1>2, <1>3, <1>5, <1>10, <1>11, PrefixFacts

LEMMA StripsRun == WInv => StripKeepsSignals
<1> SUFFICES ASSUME WInv, NEW run \in Run
             PROVE  LET file == VcdFile(run)
                        stripped == strip_vcd(file, Interface)
                    IN  /\ Variables(stripped) = {x \in Variables(file) : x[1] \in Interface}
                        /\ \A x \in Variables(stripped) :
                             ChangesOf(stripped, x[2]) = ChangesOf(file, x[2])
                        /\ \A s \in Signal : ChangesOf(stripped, IdOf[s]) = changes[run][s]
  BY DEF StripKeepsSignals
<1>1. PICK f : Grows(f, run) /\ VcdFile(run) = f[Len(cycles[run])]
  BY FileGrows
<1>2. PICK last \in Nat : last = Len(cycles[run])
  BY DEF WInv
<1>3. PICK file \in Seq(FileLines) : file = VcdFile(run) /\ file = f[last]
  <2>1. last \in 0 .. last
    OBVIOUS
  <2> QED
    BY <1>1, <1>2, <2>1 DEF Grows
<1>4. HeaderFirst(file) /\ Header \in Seq(FileLines)
  <2>1. last \in 0 .. last /\ 0 \in 0 .. last
    OBVIOUS
  <2> QED
    BY <1>1, <1>2, <1>3, <2>1, HeaderInFile DEF Grows
<1>5. PICK end : HeaderEnds(file, end)
  BY <1>4, FileHasHeader
<1>6. Variables(file) = Variables(Header)
  BY <1>4, FileHasHeader
<1>7. PICK stripped : stripped = strip_vcd(file, Interface)
  OBVIOUS
<1>8. /\ Variables(stripped) = {x \in Variables(file) : x[1] \in Interface}
      /\ \A x \in Variables(stripped) : ChangesOf(stripped, x[2]) = ChangesOf(file, x[2])
  BY <1>5, <1>7, StripSelects
<1>9. ASSUME NEW s \in Signal PROVE ChangesOf(stripped, IdOf[s]) = changes[run][s]
  <2>1. PICK x \in Variables(Header) : x[1] \in Interface /\ x[2] = IdOf[s]
    BY HeaderAssumption
  <2>2. ChangesOf(stripped, IdOf[s]) = ChangesOf(file, IdOf[s])
    BY <1>6, <1>8, <2>1
  <2>3. ChangesOf(file, IdOf[s]) = Valued(IdOf[s], file).seq
    BY ChangesAre
  <2>4. Valued(IdOf[s], file).seq = changes[run][s]
    BY <1>1, <1>2, <1>3, ReadsBack
  <2> QED
    BY <2>2, <2>3, <2>4
<1> QED
  BY <1>3, <1>7, <1>8, <1>9

(* strip.py keeps what is declared and recorded of the signals, and no more. *)
THEOREM StripCorrect == Spec => []StripKeepsSignals
BY StripsRun, AlwaysWInv, PTL
=============================================================================
