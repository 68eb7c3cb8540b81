--------------------------- MODULE Testbench_proofs ---------------------------
(***************************************************************************)
(* Proofs about Testbench for any clock, limit, program and command line:   *)
(* the heap of the program, the exit code, the output and the files.        *)
(***************************************************************************)
EXTENDS Testbench, SequenceTheorems, Induction, TLAPS

(* What a step of the testbench does to the program, the loop and the files. *)
LEMMA StepOfProgram ==
  ASSUME [TestbenchNext]_testbenchVars
  PROVE  UNCHANGED bspVars \/ \E charOut : BspStep(charOut)
BY DEF TestbenchNext, testbenchVars, Abort, Help, Begin, LoopTurn, Sigint, Finish

-----------------------------------------------------------------------------
(* The heap reaches from the end of the stack to newlib's end of the heap,   *)
(* which is the break; what sbrk has given lies in it.                       *)
HeapInv ==
  /\ sys_brk_init \in BOOLEAN
  /\ IF sys_brk_init
     THEN /\ heap_end = brk
          /\ brk \in heap_pointer .. WORD - 1
     ELSE heap_end = 0 /\ brk = 0 /\ given = <<>>
  /\ given \in Seq(SUBSET Int)
  /\ \A n \in DOMAIN given : given[n] \subseteq heap_pointer .. heap_end - 1
  /\ \A m, n \in DOMAIN given : m # n => given[m] \cap given[n] = {}

LEMMA HeapConstants ==
  /\ heap_pointer \in Nat \ {0} /\ WORD \in Nat \ {0} /\ heap_pointer < WORD
  /\ \A incr \in Increment :
       incr \in Int /\ incr < heap_pointer /\ -incr <= heap_pointer /\ WORD <= heap_pointer + heap_pointer
                    /\ heap_pointer + incr < WORD + heap_pointer
  /\ \A e \in heap_pointer .. WORD - 1, incr \in Increment : e + incr - WORD < heap_pointer
<1>1. PICK half \in Int : WORD \div 2 = half /\ WORD = 2 * half
  BY CallsAssumption, Z3
<1>2. heap_pointer \in Int
  BY CallsAssumption, Z3 DEF heap_pointer
<1> QED
  BY <1>1, <1>2, CallsAssumption

LEMMA SpanIs ==
  ASSUME NEW from \in Nat, NEW n \in Nat, from + n <= WORD
  PROVE  Span(from, n) = from .. from + n - 1
<1>1. \A x \in 0 .. WORD - 1 : x % WORD = x
  BY HeapConstants, Z3
<1>2. \A k \in 0 .. n - 1 : (from + k) % WORD = from + k
  BY <1>1, HeapConstants
<1>3. Span(from, n) = {from + k : k \in 0 .. n - 1}
  BY <1>2 DEF Span
<1>4. ASSUME NEW x \in from .. from + n - 1 PROVE x - from \in 0 .. n - 1 /\ x = from + (x - from)
  OBVIOUS
<1> QED
  BY <1>3, <1>4

(* sbrk grants what leaves the end of the heap above the stack and below the *)
(* last address; any other sum has wrapped around, or is below the stack.    *)
LEMMA SbrkGrants ==
  ASSUME HeapInv, NEW incr \in Increment
  PROVE  /\ HeapEnd \in heap_pointer .. WORD - 1 /\ Brk = HeapEnd
         /\ BrkReturns((HeapEnd + incr) % WORD) = (HeapEnd + incr) % WORD
              => /\ (HeapEnd + incr) % WORD = HeapEnd + incr
                 /\ HeapEnd + incr \in heap_pointer .. WORD - 1
<1>1. HeapEnd \in heap_pointer .. WORD - 1 /\ Brk = HeapEnd
  BY HeapConstants DEF HeapInv, HeapEnd, BrkReturns, Brk
<1>2. PICK e, asked : e = HeapEnd /\ asked = (e + incr) % WORD
  OBVIOUS
<1>3. asked \in 0 .. WORD - 1
  BY <1>1, <1>2, HeapConstants, Z3
<1>4. ASSUME BrkReturns(asked) = asked PROVE asked >= heap_pointer
  BY <1>1, <1>2, <1>3, <1>4, HeapConstants DEF BrkReturns, AboveStack
<1>5. ASSUME e + incr >= WORD PROVE asked < heap_pointer
  <2>1. e + incr - WORD \in 0 .. WORD - 1 /\ e + incr - WORD < heap_pointer
    BY <1>1, <1>2, <1>5, HeapConstants
  <2>2. \A x \in 0 .. WORD - 1 : (x + WORD) % WORD = x
    BY HeapConstants, Z3
  <2>3. (e + incr - WORD) + WORD = e + incr
    BY <1>1, <1>2, HeapConstants
  <2>4. asked = e + incr - WORD
    BY <1>2, <2>1, <2>2, <2>3
  <2> QED
    BY <2>1, <2>4
<1>6. e + incr >= 0
  BY <1>1, <1>2, HeapConstants
<1>7. ASSUME e + incr < WORD PROVE asked = e + incr
  <2>1. \A x \in 0 .. WORD - 1 : x % WORD = x
    BY HeapConstants, Z3
  <2>2. e + incr \in 0 .. WORD - 1
    BY <1>1, <1>2, <1>6, <1>7, HeapConstants
  <2> QED
    BY <1>2, <2>1, <2>2
<1>8. ASSUME BrkReturns(asked) = asked
      PROVE  asked = e + incr /\ e + incr \in heap_pointer .. WORD - 1
  <2>1. e + incr < WORD
    BY <1>1, <1>2, <1>3, <1>4, <1>5, <1>8, HeapConstants
  <2> QED
    BY <1>3, <1>4, <1>7, <1>8, <2>1, HeapConstants
<1> QED
  BY <1>1, <1>2, <1>8

LEMMA SbrkStep ==
  ASSUME HeapInv, NEW incr \in Increment, sbrk(incr)
  PROVE  HeapInv'
<1>1. PICK e, asked : e = HeapEnd /\ asked = (e + incr) % WORD
  OBVIOUS
<1>2. /\ e \in heap_pointer .. WORD - 1 /\ Brk = e
      /\ sys_brk_init' = TRUE
      /\ incr \in Int
  BY <1>1, SbrkGrants, HeapConstants DEF sbrk, sys_brk
<1>3. /\ given \in Seq(SUBSET Int)
      /\ \A n \in DOMAIN given : given[n] \subseteq heap_pointer .. e - 1
      /\ \A m, n \in DOMAIN given : m # n => given[m] \cap given[n] = {}
  <2>1. CASE sys_brk_init
    <3>1. heap_end = e
      BY <1>1, <2>1, HeapConstants DEF HeapInv, HeapEnd
    <3> QED
      BY <2>1, <3>1 DEF HeapInv
  <2>2. CASE ~sys_brk_init
    <3>1. given = <<>> /\ given \in Seq(SUBSET Int) /\ DOMAIN given = {}
      BY <2>2 DEF HeapInv
    <3> QED
      BY <3>1, Zenon
  <2> QED
    BY <2>1, <2>2
<1>4. CASE BrkReturns(asked) # asked
  <2>1. heap_end' = e /\ given' = given
    BY <1>1, <1>4 DEF sbrk
  <2>2. brk' = e
    BY <1>1, <1>2, <1>4 DEF sbrk, sys_brk, BrkReturns
  <2> QED
    BY <1>2, <1>3, <2>1, <2>2 DEF HeapInv
<1>5. CASE BrkReturns(asked) = asked
  <2>1. asked = e + incr /\ asked \in heap_pointer .. WORD - 1
    BY <1>1, <1>5, SbrkGrants
  <2>2. heap_end' = asked
    BY <1>1, <1>5 DEF sbrk
  <2>3. brk' = asked
    <3>1. asked # 0 /\ AboveStack(asked)
      BY <2>1, HeapConstants DEF AboveStack
    <3>2. sys_brk(asked)
      BY <1>1 DEF sbrk
    <3> QED
      BY <3>1, <3>2 DEF sys_brk
  <2>4. CASE incr > 0
    <3>1. PICK piece : piece = Span(e, incr)
      OBVIOUS
    <3>2. piece = e .. asked - 1
      BY <1>2, <2>1, <2>4, <3>1, HeapConstants, SpanIs
    <3>3. given' = Append(given, piece) /\ piece \in SUBSET Int
      BY <1>1, <1>5, <2>4, <3>1, <3>2 DEF sbrk
    <3>4. /\ given' \in Seq(SUBSET Int)
          /\ DOMAIN given = 1 .. Len(given) /\ Len(given) \in Nat
          /\ DOMAIN given' = 1 .. Len(given) + 1
          /\ \A n \in 1 .. Len(given) : given'[n] = given[n]
          /\ given'[Len(given) + 1] = piece
      BY <1>3, <3>3, AppendProperties, LenProperties
    <3>5. \A n \in DOMAIN given' : given'[n] \subseteq heap_pointer .. asked - 1
      <4>1. heap_pointer .. e - 1 \subseteq heap_pointer .. asked - 1
        BY <1>2, <2>1, <2>4, HeapConstants
      <4>2. piece \subseteq heap_pointer .. asked - 1
        BY <1>2, <3>2, HeapConstants
      <4> QED
        BY <1>3, <3>4, <4>1, <4>2
    <3>6. \A n \in 1 .. Len(given) : given[n] \cap piece = {}
      <4>1. (heap_pointer .. e - 1) \cap piece = {}
        BY <1>2, <3>2, HeapConstants
      <4> QED
        BY <1>3, <3>4, <4>1
    <3>7. \A m, n \in DOMAIN given' : m # n => given'[m] \cap given'[n] = {}
      BY <1>3, <3>4, <3>6
    <3> QED
      BY <1>2, <2>1, <2>2, <2>3, <3>4, <3>5, <3>7 DEF HeapInv
  <2>5. CASE ~(incr > 0)
    <3>1. PICK piece : piece = Span(asked, -incr)
      OBVIOUS
    <3>2. piece = asked .. e - 1
      <4>1. asked \in Nat /\ -incr \in Nat /\ asked + (-incr) = e
        BY <1>2, <2>1, <2>5, HeapConstants
      <4> QED
        BY <1>2, <3>1, <4>1, HeapConstants, SpanIs
    <3>3. given' = [n \in DOMAIN given |-> given[n] \ piece]
      BY <1>1, <1>5, <2>5, <3>1 DEF sbrk
    <3>4. given' \in Seq(SUBSET Int)
      BY <1>3, <3>3
    <3>5. (heap_pointer .. e - 1) \ piece \subseteq heap_pointer .. asked - 1
      BY <1>2, <2>1, <3>2, HeapConstants
    <3>6. \A n \in DOMAIN given' : given'[n] \subseteq heap_pointer .. asked - 1
      BY <1>3, <3>3, <3>5
    <3>7. \A m, n \in DOMAIN given' : m # n => given'[m] \cap given'[n] = {}
      BY <1>3, <3>3
    <3> QED
      BY <1>2, <2>1, <2>2, <2>3, <3>4, <3>6, <3>7 DEF HeapInv
  <2> QED
    BY <2>4, <2>5
<1> QED
  BY <1>4, <1>5

LEMMA AlwaysHeapInv == TestbenchSpec => []HeapInv
<1>1. TestbenchInit => HeapInv
  <2> SUFFICES ASSUME TestbenchInit PROVE HeapInv
    OBVIOUS
  <2>1. sys_brk_init = FALSE /\ heap_end = 0 /\ brk = 0 /\ given = <<>>
    BY DEF TestbenchInit, BspInit
  <2>2. given \in Seq(SUBSET Int) /\ DOMAIN given = {}
    BY <2>1
  <2> QED
    BY <2>1, <2>2, Zenon DEF HeapInv
<1>2. ASSUME HeapInv, UNCHANGED heapVars PROVE HeapInv'
  BY <1>2 DEF heapVars, HeapInv
<1>3. ASSUME HeapInv, NEW charOut, BspStep(charOut) PROVE HeapInv'
  <2>1. Allocate \/ UNCHANGED heapVars
    BY <1>3 DEF BspStep, StoreByte, _halt, PrintText, PrintError, exit, _exit, sys_exit, bspVars
  <2> QED
    BY <1>2, <1>3, <2>1, SbrkStep DEF Allocate
<1>4. HeapInv /\ [TestbenchNext]_testbenchVars => HeapInv'
  BY <1>2, <1>3, StepOfProgram DEF bspVars
<1> QED
  BY <1>1, <1>4, PTL DEF TestbenchSpec

(* What sbrk gives the program is its own, for any word size, any requests   *)
(* and any sequence of them: a sum that wraps around is never granted.       *)
THEOREM PiecesAreOwn == TestbenchSpec => []HeapIsOwn
<1>1. HeapInv => HeapIsOwn
  <2> SUFFICES ASSUME HeapInv PROVE HeapIsOwn
    OBVIOUS
  <2>1. heap_end - 1 <= WORD - 1 /\ heap_end \in Int
    BY HeapConstants DEF HeapInv
  <2>2. heap_pointer .. heap_end - 1 \subseteq heap_pointer .. WORD - 1
    BY <2>1, HeapConstants
  <2> QED
    BY <2>2 DEF HeapInv, HeapIsOwn
<1> QED
  BY AlwaysHeapInv, <1>1, PTL

-----------------------------------------------------------------------------
(* Time.  The edges of the clock seen so far, of which every second rises.   *)
Half == CLOCK_PERIOD \div 2

Edges == IF clk THEN 2 * cycle ELSE 2 * cycle + 1

LoopInv ==
  /\ {mainTime, cycle} \subseteq Nat
  /\ clk \in BOOLEAN
  /\ (Edges - 1) * Half < mainTime /\ mainTime <= Edges * Half
  /\ ~isDone => cycle <= MAX_CYCLES
  /\ result \in {0, 1}
  /\ result_ \in Int
  /\ result_ > 0 => reports \cap Positive # {}
  /\ result = 1 <=> (reports \cap Positive # {} \/ cycle > MAX_CYCLES)

LEMMA LoopConstants ==
  /\ Half \in Nat \ {0} /\ CLOCK_PERIOD = 2 * Half
  /\ MAX_CYCLES \in Nat
  /\ 2^TIME_BITS \in Int /\ (MAX_CYCLES + 1) * (2 * Half) < 2^TIME_BITS
<1>1. Half \in Nat \ {0} /\ CLOCK_PERIOD = 2 * Half
  BY LoopAssumption, Z3 DEF Half
<1>2. 2^TIME_BITS \in Int
  BY LoopAssumption
<1>3. (MAX_CYCLES + 1) * CLOCK_PERIOD < 2^TIME_BITS
  BY LoopAssumption
<1> QED
  BY <1>1, <1>2, <1>3, LoopAssumption

(* The next edge is at the next multiple of half a period.                   *)
LEMMA NextEdge ==
  ASSUME NEW h \in Nat \ {0}, NEW e \in Nat, NEW t \in Nat,
         (e - 1) * h < t, t <= e * h
  PROVE  /\ t % h = 0 <=> t = e * h
         /\ t % h = 0 => ((e + 1) - 1) * h < t + 1 /\ t + 1 <= (e + 1) * h
         /\ t % h # 0 => (e - 1) * h < t + 1 /\ t + 1 <= e * h
<1>1. /\ (e - 1) * h = e * h - h /\ (e + 1) * h = e * h + h /\ ((e + 1) - 1) * h = e * h
      /\ e * h \in Nat
  OBVIOUS
<1>2. PICK q \in Nat, r \in 0 .. h - 1 : t = h * q + r /\ t % h = r
  BY Z3
<1>3. h * q \in Nat /\ h * q = q * h
  OBVIOUS
<1>4. ASSUME t = e * h PROVE r = 0
  <2>1. q <= e
    <3> SUFFICES ASSUME q >= e + 1 PROVE FALSE
      OBVIOUS
    <3>1. q * h >= (e + 1) * h
      OBVIOUS
    <3> QED
      BY <1>1, <1>2, <1>3, <1>4, <3>1
  <2>2. q >= e
    <3> SUFFICES ASSUME q + 1 <= e PROVE FALSE
      OBVIOUS
    <3>1. (q + 1) * h <= e * h /\ (q + 1) * h = q * h + h
      OBVIOUS
    <3> QED
      BY <1>2, <1>3, <1>4, <3>1
  <2> QED
    BY <1>2, <1>3, <1>4, <2>1, <2>2
<1>5. ASSUME r = 0 PROVE t = e * h
  <2>1. t = q * h
    BY <1>2, <1>3, <1>5
  <2>2. q <= e
    <3> SUFFICES ASSUME q >= e + 1 PROVE FALSE
      OBVIOUS
    <3>1. q * h >= (e + 1) * h
      OBVIOUS
    <3> QED
      BY <1>1, <2>1, <3>1
  <2>3. q > e - 1
    <3> SUFFICES ASSUME q <= e - 1 PROVE FALSE
      OBVIOUS
    <3>1. q * h <= (e - 1) * h
      OBVIOUS
    <3> QED
      BY <2>1, <3>1
  <2>4. q = e
    BY <2>2, <2>3
  <2> QED
    BY <2>1, <2>4
<1> QED
  BY <1>1, <1>2, <1>4, <1>5

(* Neither counter wraps around while the loop runs.                         *)
LEMMA NoOverflow ==
  ASSUME LoopInv, ~isDone
  PROVE  /\ (mainTime + 1) % 2^TIME_BITS = mainTime + 1
         /\ (cycle + 1) % 2^TIME_BITS = cycle + 1
<1>1. PICK m, h, max : m = 2^TIME_BITS /\ h = Half /\ max = MAX_CYCLES
  OBVIOUS
<1>2. m \in Int /\ h \in Nat \ {0} /\ max \in Nat /\ (max + 1) * (2 * h) < m
  BY <1>1, LoopConstants
<1>3. /\ mainTime \in Nat /\ cycle \in Nat /\ cycle <= max
      /\ mainTime <= Edges * h /\ Edges \in Nat /\ Edges <= 2 * max + 1
  BY <1>1, LoopConstants DEF LoopInv, Edges
<1>4. Edges * h <= (2 * max + 1) * h
  BY <1>2, <1>3
<1>5. (max + 1) * (2 * h) = (2 * max + 1) * h + h
  BY <1>2
<1>6. mainTime + 1 < m
  BY <1>2, <1>3, <1>4, <1>5
<1>7. cycle + 1 < m
  <2>1. (max + 1) * (2 * h) >= max + 1
    BY <1>2
  <2> QED
    BY <1>2, <1>3, <2>1
<1>8. \A x \in Nat : x < m => x % m = x
  BY <1>2, Z3
<1> QED
  BY <1>1, <1>3, <1>6, <1>7, <1>8

LEMMA TurnOfClock ==
  ASSUME LoopInv, Advance,
         IF risingEdge THEN cycle' = (cycle + 1) % 2^TIME_BITS ELSE UNCHANGED cycle
  PROVE  /\ {mainTime, cycle}' \subseteq Nat
         /\ clk' \in BOOLEAN
         /\ (Edges' - 1) * Half < mainTime' /\ mainTime' <= Edges' * Half
         /\ ~risingEdge => cycle' = cycle
         /\ risingEdge => cycle' = cycle + 1 /\ (LimitReached <=> cycle' > MAX_CYCLES)
<1>1. /\ mainTime \in Nat /\ cycle \in Nat /\ clk \in BOOLEAN
      /\ Half \in Nat \ {0} /\ MAX_CYCLES \in Nat
      /\ Edges \in Nat
      /\ (Edges - 1) * Half < mainTime /\ mainTime <= Edges * Half
  BY LoopConstants DEF LoopInv, Edges
<1>2. /\ mainTime' = mainTime + 1
      /\ clk' = IF clockEdge THEN ~clk ELSE clk
      /\ risingEdge => cycle' = cycle + 1
      /\ ~risingEdge => cycle' = cycle
  BY NoOverflow DEF Advance
<1>3. /\ clockEdge <=> mainTime = Edges * Half
      /\ clockEdge => (Edges + 1 - 1) * Half < mainTime + 1 /\ mainTime + 1 <= (Edges + 1) * Half
      /\ ~clockEdge => (Edges - 1) * Half < mainTime + 1 /\ mainTime + 1 <= Edges * Half
  BY <1>1, NextEdge DEF clockEdge, Half
<1>4. clockEdge => Edges' = Edges + 1
  <2> SUFFICES ASSUME clockEdge PROVE Edges' = Edges + 1
    OBVIOUS
  <2>1. CASE clk = TRUE
    <3>1. clk' = FALSE /\ cycle' = cycle
      BY <1>2, <2>1, Zenon DEF risingEdge
    <3> QED
      BY <2>1, <3>1 DEF Edges
  <2>2. CASE clk = FALSE
    <3>1. clk' = TRUE /\ cycle' = cycle + 1
      BY <1>2, <2>2, Zenon DEF risingEdge
    <3> QED
      BY <1>1, <2>2, <3>1 DEF Edges
  <2> QED
    BY <1>1, <2>1, <2>2, Zenon
<1>5. ~clockEdge => Edges' = Edges
  BY <1>1, <1>2 DEF Edges, risingEdge
<1>6. clk' \in BOOLEAN
  BY <1>1, <1>2, Zenon
<1>7. ASSUME risingEdge PROVE LimitReached <=> cycle' > MAX_CYCLES
  <2>1. PICK h, max : h = Half /\ max = MAX_CYCLES
    OBVIOUS
  <2>2. mainTime = (2 * cycle + 1) * h
    BY <1>3, <1>7, <2>1 DEF risingEdge, Edges
  <2>3. LimitReached <=> mainTime >= max * (2 * h)
    BY <2>1, LoopConstants DEF LimitReached
  <2>4. ASSUME cycle >= max PROVE mainTime >= max * (2 * h)
    <3>1. cycle * (2 * h) >= max * (2 * h)
      BY <1>1, <2>1, <2>4
    <3>2. (2 * cycle + 1) * h = cycle * (2 * h) + h
      BY <1>1, <2>1
    <3> QED
      BY <1>1, <2>1, <2>2, <3>1, <3>2
  <2>5. ASSUME cycle < max PROVE mainTime < max * (2 * h)
    <3>1. (cycle + 1) * (2 * h) <= max * (2 * h)
      BY <1>1, <2>1, <2>5
    <3>2. (cycle + 1) * (2 * h) = (2 * cycle + 1) * h + h
      BY <1>1, <2>1
    <3> QED
      BY <1>1, <2>1, <2>2, <3>1, <3>2
  <2> QED
    BY <1>1, <1>2, <1>7, <2>1, <2>3, <2>4, <2>5
<1>8. (Edges' - 1) * Half < mainTime' /\ mainTime' <= Edges' * Half
  <2>1. CASE clockEdge
    <3>1. mainTime' = mainTime + 1 /\ Edges' = Edges + 1
      BY <1>2, <1>4, <2>1
    <3> QED
      BY <1>1, <1>3, <2>1, <3>1
  <2>2. CASE ~clockEdge
    <3>1. mainTime' = mainTime + 1 /\ Edges' = Edges
      BY <1>2, <1>5, <2>2
    <3> QED
      BY <1>3, <2>2, <3>1
  <2> QED
    BY <2>1, <2>2
<1>9. {mainTime, cycle}' \subseteq Nat
  BY <1>1, <1>2
<1> QED
  BY <1>2, <1>6, <1>7, <1>8, <1>9

-----------------------------------------------------------------------------
(* A payload is a failure exactly when its int is positive.                  *)
LEMMA SignedPositive ==
  ASSUME NEW payload \in Payload
  PROVE  /\ Signed(payload) \in Int
         /\ Signed(payload) > 0 <=> payload \in Positive
<1>1. PICK half, all : half = 2^(RESULT_BITS - 1) /\ all = 2^RESULT_BITS
  OBVIOUS
<1>2. half \in Int /\ all \in Int
  <2>1. RESULT_BITS \in Nat /\ RESULT_BITS - 1 \in Nat
    BY LoopAssumption
  <2> QED
    BY <1>1, <2>1
<1>3. payload \in 0 .. all - 1
  BY <1>1 DEF Payload
<1> QED
  BY <1>1, <1>2, <1>3 DEF Signed, Positive

LEMMA CycleStep ==
  ASSUME LoopInv, NEW charOut,
         NEW testDev \in {<<>>} \cup {<<payload>> : payload \in Payload},
         CycleTurn(charOut, testDev)
  PROVE  LoopInv'
<1>1. /\ risingEdge /\ Advance /\ cycle' = (cycle + 1) % 2^TIME_BITS
      /\ result_' = IF testDev = <<>> THEN result_ ELSE Signed(testDev[1])
      /\ reports' = IF testDev = <<>> THEN reports ELSE reports \cup {testDev[1]}
      /\ result' = IF hasFailed(result_') \/ LimitReached THEN 1 ELSE result
      /\ LimitReached => isDone'
  BY DEF CycleTurn, TestDevEval
<1>2. /\ {mainTime, cycle}' \subseteq Nat
      /\ clk' \in BOOLEAN
      /\ (Edges' - 1) * Half < mainTime' /\ mainTime' <= Edges' * Half
      /\ cycle' = cycle + 1 /\ (LimitReached <=> cycle' > MAX_CYCLES)
  BY <1>1, TurnOfClock
<1>3. /\ result_' \in Int
      /\ result_' > 0 => reports' \cap Positive # {}
      /\ reports \subseteq reports'
      /\ reports' \cap Positive # {} => reports \cap Positive # {} \/ result_' > 0
  <2>1. CASE testDev = <<>>
    BY <1>1, <2>1 DEF LoopInv
  <2>2. ASSUME NEW payload \in Payload, testDev = <<payload>>
        PROVE  /\ result_' \in Int
               /\ result_' > 0 => reports' \cap Positive # {}
               /\ reports \subseteq reports'
               /\ reports' \cap Positive # {} => reports \cap Positive # {} \/ result_' > 0
    <3>1. result_' = Signed(payload) /\ reports' = reports \cup {payload}
      BY <1>1, <2>2
    <3> QED
      BY <3>1, SignedPositive
  <2> QED
    BY <2>1, <2>2
<1>4. hasFailed(result_') <=> result_' > 0
  BY <1>3 DEF hasFailed, gotResult
<1>5. cycle \in Nat /\ MAX_CYCLES \in Nat /\ result \in {0, 1}
      /\ (result = 1 <=> (reports \cap Positive # {} \/ cycle > MAX_CYCLES))
  BY LoopConstants DEF LoopInv
<1>6. ~isDone' => cycle' <= MAX_CYCLES
  BY <1>1, <1>2, <1>5
<1>7. result' \in {0, 1} /\ (result' = 1 <=> (reports' \cap Positive # {} \/ cycle' > MAX_CYCLES))
  BY <1>1, <1>2, <1>3, <1>4, <1>5
<1> QED
  BY <1>2, <1>3, <1>6, <1>7 DEF LoopInv

LEMMA AlwaysLoopInv == TestbenchSpec => []LoopInv
<1>1. TestbenchInit => LoopInv
  <2> SUFFICES ASSUME TestbenchInit PROVE LoopInv
    OBVIOUS
  <2>1. /\ mainTime = 0 /\ cycle = 0 /\ clk = TRUE /\ result_ = -1 /\ result = 0
        /\ isDone = FALSE /\ reports = {}
    BY DEF TestbenchInit, Init
  <2>2. Half \in Nat \ {0} /\ MAX_CYCLES \in Nat
    BY LoopConstants
  <2>3. Edges = 0
    BY <2>1 DEF Edges
  <2> QED
    BY <2>1, <2>2, <2>3 DEF LoopInv
<1>2. ASSUME LoopInv, UNCHANGED <<mainTime, cycle, clk, result_, result, reports>>,
             isDone' = isDone \/ isDone' = TRUE
      PROVE  LoopInv'
  BY <1>2 DEF LoopInv, Edges
<1>3. ASSUME LoopInv, QuietTurn PROVE LoopInv'
  <2>1. /\ {mainTime, cycle}' \subseteq Nat
        /\ clk' \in BOOLEAN
        /\ (Edges' - 1) * Half < mainTime' /\ mainTime' <= Edges' * Half
    BY <1>3, TurnOfClock DEF QuietTurn
  <2>2. UNCHANGED <<cycle, isDone, result_, result, reports>>
    BY <1>3 DEF QuietTurn, endVars
  <2> QED
    BY <1>3, <2>1, <2>2 DEF LoopInv
<1>4. ASSUME LoopInv, [TestbenchNext]_testbenchVars PROVE LoopInv'
  <2>1. CASE LoopTurn
    BY <1>3, <1>4, <2>1, CycleStep DEF LoopTurn
  <2>2. CASE ~LoopTurn
    <3>1. /\ UNCHANGED <<mainTime, cycle, clk, result_, result, reports>>
          /\ isDone' = isDone \/ isDone' = TRUE
      BY <1>4, <2>2 DEF TestbenchNext, testbenchVars, vars, endVars, Abort, Help, Begin,
                        Sigint, handle_sigint, Finish, Exit
    <3> QED
      BY <1>2, <1>4, <3>1
  <2> QED
    BY <2>1, <2>2
<1> QED
  BY <1>1, <1>4, PTL DEF TestbenchSpec

(* For any clock, limit and widths: the exit code is 1 exactly when the core *)
(* has reported a failure or the limit was reached, and no counter wraps.    *)
THEOREM ExitCodeIsRight == TestbenchSpec => []ExitStatus
<1>1. LoopInv => ExitStatus
  BY DEF LoopInv, ExitStatus
<1> QED
  BY AlwaysLoopInv, <1>1, PTL

-----------------------------------------------------------------------------
(* The output.  Byte 4 is not printed, and nothing is stored behind it.      *)
CharOrEot == Char \cup {EOT}

Unprinted == unwritten \o outbuf

OutInv ==
  /\ cout \in Seq(Char)
  /\ {unwritten, outbuf, said} \subseteq Seq(CharOrEot)
  /\ gotEot_ \in BOOLEAN /\ halted \in BOOLEAN
  /\ ending \in {"no", "exit", "halt"}
  /\ ending = "halt" => outbuf = <<>>
  /\ gotEot_ => isDone
  /\ ~gotEot_ => ~halted /\ said = cout \o Unprinted
  /\ gotEot_ /\ ~halted => said = cout \o (<<EOT>> \o Unprinted)
  /\ gotEot_ /\ halted => ending = "halt" /\ said = cout

(* What is said before the first byte 4.                                     *)
LEMMA BeforeFirstEot ==
  ASSUME NEW seq \in Seq(CharOrEot)
  PROVE  /\ ~Contains(seq, EOT) => BeforeEot(seq) = seq
         /\ Contains(seq, EOT) =>
              \E k \in 1 .. Len(seq) :
                /\ seq[k] = EOT /\ \A j \in 1 .. k - 1 : seq[j] # EOT
                /\ BeforeEot(seq) = SubSeq(seq, 1, k - 1)
<1>1. ~Contains(seq, EOT) => BeforeEot(seq) = seq
  BY DEF BeforeEot
<1>2. ASSUME Contains(seq, EOT)
      PROVE  \E k \in 1 .. Len(seq) :
                /\ seq[k] = EOT /\ \A j \in 1 .. k - 1 : seq[j] # EOT
                /\ BeforeEot(seq) = SubSeq(seq, 1, k - 1)
  <2> DEFINE First(k) == seq[k] = EOT /\ \A j \in 1 .. k - 1 : seq[j] # EOT
  <2>1. Len(seq) \in Nat /\ DOMAIN seq = 1 .. Len(seq)
    BY LenProperties
  <2>2. PICK T : T = {k \in 1 .. Len(seq) : seq[k] = EOT}
    OBVIOUS
  <2>3. T \subseteq Nat /\ T # {}
    BY <1>2, <2>1, <2>2 DEF Contains
  <2>4. PICK least \in T : \A y \in T : least <= y
    BY <2>3, LeastNumber
  <2>5. least \in DOMAIN seq /\ First(least)
    BY <2>1, <2>2, <2>4
  <2>6. PICK k : k = CHOOSE n \in DOMAIN seq : First(n)
    OBVIOUS
  <2>7. k \in DOMAIN seq /\ First(k)
    BY <2>5, <2>6, Zenon
  <2>8. BeforeEot(seq) = SubSeq(seq, 1, k - 1)
    BY <1>2, <2>6, Zenon DEF BeforeEot
  <2> QED
    BY <2>1, <2>7, <2>8
<1> QED
  BY <1>1, <1>2

LEMMA CharSequences ==
  /\ Seq(Char) \subseteq Seq(CharOrEot)
  /\ EOT \in CharOrEot /\ EOT \notin Char
  /\ \A seq \in Seq(Char) : ~Contains(seq, EOT)
<1>1. Char \subseteq CharOrEot /\ EOT \in CharOrEot /\ EOT \notin Char
  BY LoopAssumption DEF CharOrEot
<1>2. ASSUME NEW seq \in Seq(Char) PROVE ~Contains(seq, EOT) /\ seq \in Seq(CharOrEot)
  BY <1>1, ElementOfSeq, SeqMonotonic DEF Contains
<1> QED
  BY <1>1, <1>2

(* What was printed without a byte 4 is a prefix of what goes before it, and *)
(* all of it if nothing or the byte 4 follows.                               *)
LEMMA PrintedIsPrefix ==
  ASSUME NEW printed \in Seq(Char), NEW rest \in Seq(CharOrEot)
  PROVE  /\ IsPrefix(printed, BeforeEot(printed \o rest))
         /\ rest # <<>> /\ Head(rest) = EOT => Contains(printed \o rest, EOT)
<1>1. PICK all : all = printed \o rest
  OBVIOUS
<1>2. /\ all \in Seq(CharOrEot)
      /\ Len(all) = Len(printed) + Len(rest) /\ Len(printed) \in Nat /\ Len(rest) \in Nat
      /\ \A k \in 1 .. Len(printed) : all[k] = printed[k] /\ printed[k] # EOT
      /\ \A k \in Len(printed) + 1 .. Len(all) : all[k] = rest[k - Len(printed)]
      /\ printed \in Seq(CharOrEot)
  <2>1. printed \in Seq(CharOrEot)
    BY CharSequences
  <2>2. /\ all \in Seq(CharOrEot)
        /\ Len(all) = Len(printed) + Len(rest) /\ Len(printed) \in Nat /\ Len(rest) \in Nat
        /\ \A k \in 1 .. Len(all) : all[k] = IF k <= Len(printed) THEN printed[k]
                                               ELSE rest[k - Len(printed)]
    BY <1>1, <2>1, ConcatProperties, LenProperties
  <2>3. \A k \in 1 .. Len(printed) : printed[k] # EOT
    BY CharSequences DEF Contains
  <2> QED
    BY <2>1, <2>2, <2>3
<1>3. ASSUME NEW n \in Len(printed) .. Len(all) PROVE IsPrefix(printed, SubSeq(all, 1, n))
  <2>1. PICK front : front = SubSeq(all, 1, n)
    OBVIOUS
  <2>2. /\ n \in Nat /\ Len(printed) <= n /\ n <= Len(all)
        /\ \A k \in 1 .. Len(all) : all[k] \in CharOrEot
    BY <1>2, ElementOfSeq
  <2>3. /\ front \in Seq(CharOrEot) /\ Len(front) = n
        /\ \A k \in 1 .. n : front[k] = all[k]
    <3>1. \A k \in 1 .. n : all[k] \in CharOrEot
      BY <2>2
    <3>2. /\ front \in Seq(CharOrEot)
          /\ Len(front) = IF 1 <= n THEN n - 1 + 1 ELSE 0
          /\ \A k \in 1 .. n - 1 + 1 : front[k] = all[1 + k - 1]
      BY <2>1, <2>2, <3>1, SubSeqProperties
    <3> QED
      BY <2>2, <3>2
  <2>4. PICK start : start = SubSeq(front, 1, Len(printed))
    OBVIOUS
  <2>5. /\ start \in Seq(CharOrEot) /\ Len(start) = Len(printed)
        /\ \A k \in 1 .. Len(printed) : start[k] = printed[k]
    <3>1. \A k \in 1 .. Len(printed) : front[k] \in CharOrEot
      BY <2>2, <2>3
    <3>2. /\ start \in Seq(CharOrEot)
          /\ Len(start) = IF 1 <= Len(printed) THEN Len(printed) - 1 + 1 ELSE 0
          /\ \A k \in 1 .. Len(printed) - 1 + 1 : start[k] = front[1 + k - 1]
      BY <1>2, <2>4, <3>1, SubSeqProperties
    <3> QED
      BY <1>2, <2>2, <2>3, <3>2
  <2>6. start = printed
    BY <1>2, <2>5, SeqEqual
  <2>7. SubSeq(printed, 1, Len(printed)) = printed
    BY SubSeqFull
  <2> QED
    BY <2>1, <2>2, <2>3, <2>4, <2>6, <2>7 DEF IsPrefix
<1>4. ASSUME ~Contains(all, EOT) PROVE IsPrefix(printed, BeforeEot(all))
  <2>1. BeforeEot(all) = SubSeq(all, 1, Len(all))
    BY <1>2, <1>4, BeforeFirstEot, SubSeqFull
  <2>2. Len(all) \in Len(printed) .. Len(all)
    BY <1>2
  <2> QED
    BY <1>1, <1>3, <2>1, <2>2
<1>5. ASSUME Contains(all, EOT) PROVE IsPrefix(printed, BeforeEot(all))
  <2>1. PICK k \in 1 .. Len(all) :
          /\ all[k] = EOT /\ \A j \in 1 .. k - 1 : all[j] # EOT
          /\ BeforeEot(all) = SubSeq(all, 1, k - 1)
    BY <1>2, <1>5, BeforeFirstEot
  <2>2. k > Len(printed)
    <3> SUFFICES ASSUME k <= Len(printed) PROVE FALSE
      BY <1>2
    <3>1. k \in 1 .. Len(printed)
      BY <1>2
    <3> QED
      BY <1>2, <2>1, <3>1
  <2>3. k - 1 \in Len(printed) .. Len(all)
    BY <1>2, <2>2
  <2> QED
    BY <1>1, <1>3, <2>1, <2>3
<1>6. ASSUME rest # <<>>, Head(rest) = EOT PROVE Contains(all, EOT)
  <2>1. Len(rest) \in Nat \ {0} /\ rest[1] = EOT
    BY <1>6, EmptySeq
  <2>2. Len(printed) + 1 \in 1 .. Len(all) /\ all[Len(printed) + 1] = EOT
    BY <1>2, <2>1
  <2> QED
    BY <2>2 DEF Contains
<1> QED
  BY <1>1, <1>4, <1>5, <1>6

(* A first byte goes from what is not yet printed to what is.                *)
LEMMA HeadAndTail ==
  ASSUME NEW S, NEW seq \in Seq(S), seq # <<>>
  PROVE  Head(seq) \in S /\ Tail(seq) \in Seq(S) /\ seq = <<Head(seq)>> \o Tail(seq)
<1>1. PICK h, t : h = Head(seq) /\ t = Tail(seq)
  OBVIOUS
<1>2. /\ h \in S /\ t \in Seq(S) /\ h = seq[1]
      /\ Len(t) = Len(seq) - 1 /\ Len(seq) \in Nat \ {0}
      /\ \A i \in 1 .. Len(t) : t[i] = seq[i + 1]
  BY <1>1, HeadTailProperties, EmptySeq
<1>3. /\ <<h>> \in Seq(S) /\ Len(<<h>>) = 1 /\ <<h>>[1] = h
  BY <1>2
<1>4. PICK first : first = <<h>>
  OBVIOUS
<1>5. PICK both : both = first \o t
  OBVIOUS
<1>6. /\ both \in Seq(S) /\ Len(both) = Len(seq)
      /\ \A i \in 1 .. Len(seq) : both[i] = IF i <= 1 THEN first[i] ELSE t[i - 1]
  BY <1>2, <1>3, <1>4, <1>5, ConcatProperties
<1>7. \A i \in 1 .. Len(seq) : both[i] = seq[i]
  BY <1>2, <1>3, <1>4, <1>6
<1>8. both = seq
  BY <1>6, <1>7, SeqEqual
<1> QED
  BY <1>1, <1>2, <1>4, <1>5, <1>8

(* A text goes behind what is not yet printed; a line leaves newlib's buffer *)
(* empty.                                                                    *)
LEMMA PrintfStep ==
  ASSUME OutInv, NEW text \in Seq(CharOrEot), printf(text), unwritten = <<>>
  PROVE  /\ {unwritten, outbuf, said}' \subseteq Seq(CharOrEot)
         /\ Unprinted' = Unprinted \o text
         /\ said' = said \o text
         /\ Last(text) = NL => outbuf' = <<>>
<1>1. isatty(STDOUT_FILENO) = TRUE
  BY DEF isatty, sys_fstat, STDOUT_FILENO
<1>2. PICK line : line = outbuf \o text
  OBVIOUS
<1>3. /\ outbuf \in Seq(CharOrEot) /\ said \in Seq(CharOrEot)
      /\ line \in Seq(CharOrEot) /\ said \o text \in Seq(CharOrEot)
  BY <1>2, ConcatProperties DEF OutInv
<1>4. /\ said' = said \o text
      /\ \/ unwritten' = line /\ outbuf' = <<>>
         \/ unwritten' = <<>> /\ outbuf' = line /\ Last(text) # NL
  BY <1>1, <1>2 DEF printf, sys_write
<1>5. Unprinted = outbuf /\ Unprinted' = line
  BY <1>3, <1>4, ConcatEmptySeq DEF Unprinted
<1>6. <<>> \in Seq(CharOrEot)
  BY EmptySeq
<1> QED
  BY <1>2, <1>3, <1>4, <1>5, <1>6

(* The steps of the program that store nothing.                              *)
LEMMA SilentStep ==
  ASSUME OutInv, ~gotEot_, UNCHANGED <<cout, gotEot_>>,
         PrintText \/ PrintError \/ Allocate \/ exit \/ _exit \/ sys_exit \/ UNCHANGED bspVars
  PROVE  OutInv'
<1>1. /\ cout \in Seq(Char) /\ cout \in Seq(CharOrEot)
      /\ {unwritten, outbuf, said} \subseteq Seq(CharOrEot)
      /\ halted = FALSE /\ gotEot_ = FALSE /\ said = cout \o Unprinted
      /\ ending \in {"no", "exit", "halt"}
      /\ ending = "halt" => outbuf = <<>>
  BY CharSequences DEF OutInv
<1>2. Unprinted \in Seq(CharOrEot)
  BY <1>1, ConcatProperties DEF Unprinted
<1>3. ASSUME NEW text \in Seq(CharOrEot), printf(text), unwritten = <<>>, UNCHANGED halted,
             ending' \in {"no", "exit", "halt"}, ending' = "halt" => outbuf' = <<>>
      PROVE  OutInv'
  <2>1. /\ {unwritten, outbuf, said}' \subseteq Seq(CharOrEot)
        /\ Unprinted' = Unprinted \o text
        /\ said' = said \o text
    BY <1>3, PrintfStep
  <2>2. said \o text = cout \o (Unprinted \o text)
    BY <1>1, <1>2, <1>3, ConcatAssociative, SMTT(20)
  <2>3. said' = cout \o Unprinted'
    BY <2>1, <2>2
  <2> QED
    BY <1>1, <1>3, <2>1, <2>3 DEF OutInv
<1>4. ASSUME UNCHANGED <<halted, said>>, Unprinted' = Unprinted,
             {unwritten, outbuf}' \subseteq Seq(CharOrEot),
             ending' \in {"no", "exit", "halt"}, ending' = "halt" => outbuf' = <<>>
      PROVE  OutInv'
  BY <1>1, <1>4 DEF OutInv
<1>5. CASE PrintText
  <2>1. PICK text \in Text : printf(text)
    BY <1>5 DEF PrintText
  <2>2. text \in Seq(CharOrEot)
    BY TestbenchAssumption DEF CharOrEot
  <2>3. unwritten = <<>> /\ ending = "no" /\ UNCHANGED <<ending, halted>>
    BY <1>5 DEF PrintText, Call
  <2> QED
    BY <1>3, <2>1, <2>2, <2>3
<1>6. CASE sys_exit
  <2>1. /\ Message \in Seq(CharOrEot) /\ Last(Message) = NL
    BY TestbenchAssumption, CallsAssumption DEF CharOrEot
  <2>2. printf(Message) /\ unwritten = <<>> /\ UNCHANGED halted /\ ending' = "halt"
    BY <1>6 DEF sys_exit
  <2>3. outbuf' = <<>>
    BY <2>1, <2>2, PrintfStep
  <2> QED
    BY <1>3, <2>1, <2>2, <2>3
<1>7. CASE exit
  <2>1. /\ unwritten = <<>> /\ unwritten' = outbuf /\ outbuf' = <<>>
        /\ ending' = "exit" /\ UNCHANGED <<halted, said>>
    BY <1>7 DEF exit, Call, sys_write
  <2>2. Unprinted' = Unprinted
    BY <1>1, <2>1, ConcatEmptySeq DEF Unprinted
  <2>3. <<>> \in Seq(CharOrEot)
    BY EmptySeq
  <2> QED
    BY <1>1, <1>4, <2>1, <2>2, <2>3
<1>8. CASE PrintError \/ Allocate \/ _exit \/ UNCHANGED bspVars
  <2>1. unwritten' = unwritten /\ UNCHANGED <<outbuf, halted, said>>
    BY <1>8 DEF PrintError, Allocate, _exit, Call, sys_write, STDOUT_FILENO, STDERR_FILENO,
                bspVars, outVars
  <2>2. ending' = ending \/ ending' = "exit"
    BY <1>8 DEF PrintError, Allocate, _exit, bspVars, outVars
  <2>3. Unprinted' = Unprinted
    BY <2>1 DEF Unprinted
  <2> QED
    BY <1>1, <1>4, <2>1, <2>2, <2>3
<1> QED
  BY <1>5, <1>6, <1>7, <1>8

(* A byte leaves through the character device.                               *)
LEMMA StoreStep ==
  ASSUME OutInv, ~gotEot_, NEW c, StoreByte(<<c>>), CharDevEval(<<c>>), gotEot_' => isDone'
  PROVE  OutInv'
<1>1. /\ cout \in Seq(Char) /\ cout \in Seq(CharOrEot)
      /\ {unwritten, outbuf, said} \subseteq Seq(CharOrEot)
      /\ halted = FALSE /\ said = cout \o Unprinted
      /\ ending \in {"no", "exit", "halt"}
      /\ ending = "halt" => outbuf = <<>>
  BY CharSequences DEF OutInv
<1>2. /\ unwritten # <<>> /\ c = Head(unwritten) /\ unwritten' = Tail(unwritten)
      /\ UNCHANGED <<outbuf, ending, halted, said>>
  BY DEF StoreByte
<1>3. c \in CharOrEot /\ unwritten' \in Seq(CharOrEot) /\ unwritten = <<c>> \o unwritten'
  BY <1>1, <1>2, HeadAndTail
<1>4. PICK one : one = <<c>>
  OBVIOUS
<1>5. one \in Seq(CharOrEot)
  BY <1>3, <1>4
<1>6. Unprinted' \in Seq(CharOrEot) /\ Unprinted = one \o Unprinted'
  BY <1>1, <1>2, <1>3, <1>4, <1>5, ConcatAssociative, ConcatProperties DEF Unprinted
<1>7. said = cout \o (one \o Unprinted')
  BY <1>1, <1>6
<1>8. CASE c = EOT
  <2>1. gotEot_' = TRUE /\ cout' = cout
    BY <1>8 DEF CharDevEval
  <2> QED
    BY <1>1, <1>2, <1>3, <1>4, <1>7, <1>8, <2>1 DEF OutInv
<1>9. CASE c # EOT
  <2>1. gotEot_' = FALSE /\ cout' = cout \o one
    BY <1>4, <1>9 DEF CharDevEval
  <2>2. one \in Seq(Char)
    BY <1>3, <1>4, <1>9 DEF CharOrEot
  <2>3. cout' \in Seq(Char)
    BY <1>1, <2>1, <2>2, ConcatProperties
  <2>4. said' = cout' \o Unprinted'
    <3>1. PICK u \in Seq(CharOrEot) : u = Unprinted'
      BY <1>6
    <3>2. (cout \o one) \o u = cout \o (one \o u)
      <4>1. cout \in Seq(CharOrEot)
        BY <1>1
      <4> QED
        BY <1>5, <4>1, ConcatAssociative
    <3> QED
      BY <1>2, <1>7, <2>1, <3>1, <3>2
  <2> QED
    BY <1>1, <1>2, <1>3, <2>1, <2>3, <2>4 DEF OutInv
<1> QED
  BY <1>8, <1>9

(* The end-of-test byte leaves behind everything else.                       *)
LEMMA HaltStep ==
  ASSUME OutInv, ~gotEot_, NEW charOut, _halt(charOut), CharDevEval(charOut), gotEot_' => isDone'
  PROVE  OutInv'
<1>1. /\ ending = "halt" /\ unwritten = <<>> /\ outbuf = <<>> /\ charOut = <<EOT>> /\ halted' = TRUE
      /\ UNCHANGED <<outbuf, unwritten, ending, said>>
  BY TestbenchAssumption DEF _halt, OutInv
<1>2. gotEot_' = TRUE /\ cout' = cout
  BY <1>1 DEF CharDevEval
<1>3. said = cout
  <2>1. cout \in Seq(Char) /\ said = cout \o (<<>> \o <<>>)
    BY <1>1 DEF OutInv, Unprinted
  <2>2. <<>> \o <<>> = <<>> /\ cout \o <<>> = cout
    BY <2>1, ConcatEmptySeq, EmptySeq
  <2> QED
    BY <2>1, <2>2
<1> QED
  BY <1>1, <1>2, <1>3 DEF OutInv

LEMMA AlwaysOutInv == TestbenchSpec => []OutInv
<1>1. TestbenchInit => OutInv
  <2> SUFFICES ASSUME TestbenchInit PROVE OutInv
    OBVIOUS
  <2>1. /\ cout = <<>> /\ unwritten = <<>> /\ outbuf = <<>> /\ said = <<>>
        /\ gotEot_ = FALSE /\ halted = FALSE /\ ending = "no"
    BY DEF TestbenchInit, Init, BspInit
  <2>2. <<>> \in Seq(Char) /\ <<>> \in Seq(CharOrEot) /\ <<>> \o (<<>> \o <<>>) = <<>>
    BY EmptySeq, ConcatEmptySeq
  <2> QED
    BY <2>1, <2>2 DEF OutInv, Unprinted
<1>2. ASSUME OutInv, UNCHANGED <<cout, gotEot_>>, isDone => isDone', UNCHANGED outVars
      PROVE  OutInv'
  BY <1>2 DEF OutInv, Unprinted, outVars
<1>3. ASSUME OutInv, NEW charOut, NEW testDev, CycleTurn(charOut, testDev),
             IF reset' THEN UNCHANGED bspVars ELSE BspStep(charOut)
      PROVE  OutInv'
  <2>1. /\ ~gotEot_ /\ ~isDone /\ CharDevEval(charOut)
        /\ gotEot_' => isDone'
        /\ reset' => charOut = <<>>
    BY <1>3, Zenon DEF CycleTurn, Advance, OutInv
  <2>2. CASE charOut = <<>>
    <3>1. UNCHANGED <<cout, gotEot_>>
      <4>1. cout \in Seq(Char)
        BY <1>3 DEF OutInv
      <4>2. cout \o <<>> = cout /\ <<>> # <<EOT>>
        BY <4>1, ConcatEmptySeq
      <4> QED
        BY <2>1, <2>2, <4>2 DEF CharDevEval
    <3>2. \/ PrintText \/ PrintError \/ Allocate \/ exit \/ _exit \/ sys_exit
          \/ UNCHANGED bspVars
      BY <1>3, <2>2 DEF BspStep, StoreByte, _halt
    <3> QED
      BY <1>3, <2>1, <3>1, <3>2, SilentStep
  <2>3. CASE charOut # <<>>
    <3>1. StoreByte(charOut) \/ _halt(charOut)
      BY <1>3, <2>1, <2>3 DEF BspStep
    <3>2. ASSUME StoreByte(charOut) PROVE OutInv'
      <4>1. PICK c : charOut = <<c>>
        BY <3>2 DEF StoreByte
      <4> QED
        BY <1>3, <2>1, <3>2, <4>1, StoreStep
    <3> QED
      BY <1>3, <2>1, <3>1, <3>2, HaltStep
  <2> QED
    BY <2>2, <2>3
<1>4. ASSUME OutInv, [TestbenchNext]_testbenchVars PROVE OutInv'
  <2>1. CASE LoopTurn
    <3>1. CASE QuietTurn /\ UNCHANGED bspVars
      BY <1>2, <1>4, <3>1 DEF QuietTurn, endVars, bspVars
    <3> QED
      BY <1>3, <1>4, <2>1, <3>1 DEF LoopTurn
  <2>2. CASE ~LoopTurn
    <3>1. UNCHANGED <<cout, gotEot_>> /\ (isDone => isDone') /\ UNCHANGED outVars
      BY <1>4, <2>2 DEF TestbenchNext, testbenchVars, vars, endVars, bspVars, Abort, Help, Begin,
                        Sigint, handle_sigint, Finish, Exit
    <3> QED
      BY <1>2, <1>4, <3>1
  <2> QED
    BY <2>1, <2>2
<1> QED
  BY <1>1, <1>4, PTL DEF TestbenchSpec

(* For any texts, message and moment of SIGINT or of the limit: the host     *)
(* prints what the program has printed up to its first byte 4, all of it     *)
(* when the program has ended by itself.                                     *)
THEOREM NothingIsLost == TestbenchSpec => []OutputIsComplete
<1>1. OutInv => OutputIsComplete
  <2> SUFFICES ASSUME OutInv PROVE OutputIsComplete
    OBVIOUS
  <2>1. /\ cout \in Seq(Char) /\ Unprinted \in Seq(CharOrEot) /\ <<EOT>> \in Seq(CharOrEot)
        /\ gotEot_ \in BOOLEAN /\ halted \in BOOLEAN
    BY ConcatProperties, CharSequences DEF OutInv, Unprinted
  <2>2. PICK rest : rest = IF ~gotEot_ THEN Unprinted
                           ELSE IF halted THEN <<>> ELSE <<EOT>> \o Unprinted
    OBVIOUS
  <2>3. rest \in Seq(CharOrEot)
    BY <2>1, <2>2, ConcatProperties, EmptySeq
  <2>4. said = cout \o rest
    <3>1. cout \o <<>> = cout
      BY <2>1, ConcatEmptySeq
    <3> QED
      BY <2>1, <2>2, <3>1 DEF OutInv
  <2>5. IsPrefix(cout, BeforeEot(said))
    BY <2>1, <2>3, <2>4, PrintedIsPrefix
  <2>6. ASSUME halted PROVE cout = BeforeEot(said)
    <3>1. said = cout
      BY <2>6 DEF OutInv
    <3> QED
      BY <2>1, <3>1, CharSequences, BeforeFirstEot
  <2>7. ASSUME gotEot_, ~halted PROVE Contains(said, EOT)
    <3>1. PICK eot : eot = <<EOT>>
      OBVIOUS
    <3>2. /\ rest = eot \o Unprinted /\ eot \in Seq(CharOrEot)
          /\ Len(eot) = 1 /\ eot[1] = EOT
      BY <2>1, <2>2, <2>7, <3>1
    <3>3. Len(rest) >= 1 /\ rest[1] = EOT
      BY <2>1, <3>2, ConcatProperties, LenProperties
    <3>4. rest # <<>> /\ Head(rest) = EOT
      BY <2>3, <3>3, HeadTailProperties, EmptySeq
    <3> QED
      BY <2>1, <2>3, <2>4, <3>4, PrintedIsPrefix
  <2> QED
    BY <2>5, <2>6, <2>7 DEF OutputIsComplete
<1> QED
  BY AlwaysOutInv, <1>1, PTL

-----------------------------------------------------------------------------
(* The files.                                                                *)
Opened ==
  [f \in DOMAIN InitialFiles |->
     IF getArg("--dump-fst") = <<f>> THEN "trace"
     ELSE IF getArg("--log-stores") = <<f>> THEN "log" ELSE InitialFiles[f]]

Dumped ==
  [f \in DOMAIN InitialFiles |->
     IF getArg("--dump-mem") = <<f>> THEN "memory" ELSE Opened[f]]

Runs ==
  /\ Len(argv) >= 2
  /\ InitialFiles[Last(argv)] = "image"
  /\ getArg("--help") = <<>>

FilesInv ==
  /\ argv \in Argv
  /\ phase = "start" => files = InitialFiles
  /\ phase = "loop" => files = Opened /\ memDumpFile = getArg("--dump-mem")
  /\ phase = "ended" => (files = InitialFiles /\ ~Runs) \/ (files = Dumped /\ exited)

LEMMA AlwaysFilesInv == TestbenchSpec => []FilesInv
<1>1. TestbenchInit => FilesInv
  BY DEF TestbenchInit, FilesInv
<1>2. ASSUME FilesInv, [TestbenchNext]_testbenchVars PROVE FilesInv'
  <2>1. argv' = argv
    BY <1>2 DEF TestbenchNext, testbenchVars, mainVars, Abort, Help, Begin, LoopTurn, Sigint,
                Finish
  <2>2. /\ \A arg : getArg(arg)' = getArg(arg)
        /\ Opened' = Opened /\ Dumped' = Dumped /\ Runs' = Runs
    BY <2>1 DEF getArg, Opened, Dumped, Runs
  <2>3. CASE Abort
    BY <1>2, <2>1, <2>2, <2>3 DEF Abort, FilesInv, Loads, memoryFile, Runs, mainVars
  <2>4. CASE Help
    BY <1>2, <2>1, <2>2, <2>4 DEF Help, FilesInv, Runs, mainVars
  <2>5. CASE Begin
    <3>1. files' = Opened /\ phase' = "loop" /\ memDumpFile' = getArg("--dump-mem")
      BY <1>2, <2>5 DEF Begin, FilesInv, Opened
    <3> QED
      BY <1>2, <2>1, <2>2, <3>1 DEF FilesInv
  <2>6. CASE LoopTurn \/ Sigint \/ UNCHANGED testbenchVars
    <3>1. UNCHANGED <<phase, files, memDumpFile>>
      BY <2>6 DEF LoopTurn, Sigint, testbenchVars, mainVars
    <3>2. phase = "ended" => exited' = exited
      BY <2>6 DEF LoopTurn, Sigint, testbenchVars, vars
    <3> QED
      BY <1>2, <2>1, <2>2, <3>1, <3>2 DEF FilesInv
  <2>7. CASE Finish
    <3>1. files' = Dumped /\ phase' = "ended" /\ exited'
      BY <1>2, <2>7 DEF Finish, Exit, FilesInv, Opened, Dumped
    <3> QED
      BY <1>2, <2>1, <2>2, <3>1 DEF FilesInv
  <2> QED
    BY <1>2, <2>3, <2>4, <2>5, <2>6, <2>7 DEF TestbenchNext
<1> QED
  BY <1>1, <1>2, PTL DEF TestbenchSpec

(* The value of an option follows one of its occurrences.                    *)
LEMMA ValueOfOption ==
  ASSUME argv \in Argv, NEW arg
  PROVE  IF \E k \in 2 .. Len(argv) - 1 : argv[k] = arg
         THEN \E k \in 2 .. Len(argv) - 1 : argv[k] = arg /\ getArg(arg) = <<argv[k + 1]>>
         ELSE getArg(arg) = <<>>
<1>1. PICK found : found = {k \in 2 .. Len(argv) - 1 : argv[k] = arg}
  OBVIOUS
<1>2. found = {} => getArg(arg) = <<>>
  BY <1>1, Zenon DEF getArg
<1>3. ASSUME found # {} PROVE \E k \in found : getArg(arg) = <<argv[k + 1]>>
  <2>1. found \subseteq Nat
    BY <1>1
  <2>2. \E k \in found : \A j \in found : k <= j
    BY <1>3, <2>1, LeastNumber
  <2>3. PICK k : k = CHOOSE n \in found : \A j \in found : n <= j
    OBVIOUS
  <2>4. k \in found
    BY <2>2, <2>3, Zenon
  <2>5. getArg(arg) = <<argv[k + 1]>>
    BY <1>1, <1>3, <2>3, Zenon DEF getArg
  <2> QED
    BY <2>4, <2>5
<1> QED
  BY <1>1, <1>2, <1>3

LEMMA Options ==
  /\ DOMAIN OptionKind = {"--dump-fst", "--log-stores", "--dump-mem"}
  /\ OptionKind["--dump-fst"] = "trace"
  /\ OptionKind["--log-stores"] = "log"
  /\ OptionKind["--dump-mem"] = "memory"
BY DEF OptionKind

(* Without two equal arguments there is one value.                           *)
LEMMA OnlyValue ==
  ASSUME argv \in Argv, IsInjective(argv), NEW k \in 2 .. Len(argv) - 1
  PROVE  /\ getArg(argv[k]) = <<argv[k + 1]>>
         /\ \A arg : getArg(arg) = <<argv[k + 1]>> => arg = argv[k]
<1>1. argv \in Seq(DOMAIN InitialFiles) /\ Len(argv) \in Nat
      /\ DOMAIN argv = 1 .. Len(argv)
  BY TestbenchAssumption, LenProperties
<1>2. \A i, j \in 1 .. Len(argv) : argv[i] = argv[j] => i = j
  BY <1>1 DEF IsInjective
<1>3. getArg(argv[k]) = <<argv[k + 1]>>
  <2>1. PICK j \in 2 .. Len(argv) - 1 :
          argv[j] = argv[k] /\ getArg(argv[k]) = <<argv[j + 1]>>
    BY ValueOfOption
  <2>2. j = k
    BY <1>1, <1>2, <2>1
  <2> QED
    BY <2>1, <2>2
<1>4. ASSUME NEW arg, getArg(arg) = <<argv[k + 1]>> PROVE arg = argv[k]
  <2>1. PICK j \in 2 .. Len(argv) - 1 : argv[j] = arg /\ getArg(arg) = <<argv[j + 1]>>
    <3>1. getArg(arg) # <<>>
      BY <1>4
    <3>2. \E j \in 2 .. Len(argv) - 1 : argv[j] = arg
      BY <3>1, ValueOfOption, Zenon
    <3> QED
      BY <3>2, ValueOfOption, Zenon
  <2>2. argv[j + 1] = argv[k + 1]
    BY <1>4, <2>1
  <2>3. j + 1 = k + 1
    BY <1>1, <1>2, <2>2
  <2> QED
    BY <2>1, <2>3
<1> QED
  BY <1>3, <1>4

(* For any command line: a run changes a file only if its name follows an    *)
(* option, and a command line as documented leaves every file it asks for.   *)
THEOREM FilesAreThoseAsked == TestbenchSpec => []FilesAreAsAsked
<1>1. FilesInv => FilesAreAsAsked
  <2> SUFFICES ASSUME FilesInv, phase = "ended"
               PROVE  /\ \A f \in DOMAIN files : files[f] # InitialFiles[f] =>
                           \E k \in 2 .. Len(argv) - 1 :
                             argv[k] \in DOMAIN OptionKind /\ argv[k + 1] = f
                      /\ DocumentedUse =>
                           /\ exited
                           /\ \A k \in 2 .. Len(argv) - 1 :
                                k % 2 = 0 => files[argv[k + 1]] = OptionKind[argv[k]]
    BY DEF FilesAreAsAsked
  <2>1. argv \in Argv
    BY DEF FilesInv
  <2>2. ASSUME NEW f \in DOMAIN files, files[f] # InitialFiles[f]
        PROVE  \E k \in 2 .. Len(argv) - 1 : argv[k] \in DOMAIN OptionKind /\ argv[k + 1] = f
    <3>1. files = Dumped /\ f \in DOMAIN InitialFiles
      BY <2>2 DEF FilesInv, Dumped
    <3>2. PICK arg \in DOMAIN OptionKind : getArg(arg) = <<f>>
      BY <2>2, <3>1, Options DEF Dumped, Opened
    <3>3. PICK k \in 2 .. Len(argv) - 1 : argv[k] = arg /\ getArg(arg) = <<argv[k + 1]>>
      BY <2>1, <3>2, ValueOfOption
    <3> QED
      BY <3>2, <3>3
  <2>3. ASSUME DocumentedUse PROVE Runs
    <3>1. Len(argv) \in Nat \ {0} /\ Len(argv) % 2 = 0
      BY <2>1, <2>3, TestbenchAssumption, EmptySeq DEF DocumentedUse
    <3>2. Len(argv) >= 2
      BY <3>1, Z3
    <3>3. getArg("--help") = <<>>
      <4>1. \A k \in 2 .. Len(argv) - 1 : argv[k] # "--help"
        BY <2>3, <3>1 DEF DocumentedUse, Contains
      <4> QED
        BY <2>1, <4>1, ValueOfOption
    <3> QED
      BY <2>3, <3>2, <3>3 DEF DocumentedUse, Runs
  <2>4. ASSUME DocumentedUse, NEW k \in 2 .. Len(argv) - 1, k % 2 = 0
        PROVE  files[argv[k + 1]] = OptionKind[argv[k]]
    <3>1. /\ Len(argv) \in Nat /\ DOMAIN argv = 1 .. Len(argv)
          /\ argv[k + 1] \in DOMAIN InitialFiles
      BY <2>1, TestbenchAssumption, LenProperties, ElementOfSeq
    <3>2. argv[k] \in DOMAIN OptionKind
      BY <2>4, <3>1 DEF DocumentedUse
    <3>3. PICK option, file : option = argv[k] /\ file = argv[k + 1]
      OBVIOUS
    <3>4. /\ getArg(option) = <<file>>
          /\ \A arg : getArg(arg) = <<file>> => arg = option
      BY <2>1, <2>4, <3>3, OnlyValue DEF DocumentedUse
    <3>5. files = Dumped /\ file \in DOMAIN InitialFiles
      BY <2>3, <2>4, <3>1, <3>3 DEF FilesInv
    <3> QED
      BY <3>2, <3>3, <3>4, <3>5, Options DEF Dumped, Opened
  <2> QED
    BY <2>2, <2>3, <2>4 DEF FilesInv
<1> QED
  BY AlwaysFilesInv, <1>1, PTL
=============================================================================
