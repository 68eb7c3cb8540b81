----------------------------- MODULE Bus_proofs -----------------------------
(***************************************************************************)
(* Proofs about what is on the core's buses: the testbench's memory behind  *)
(* the AXI port (SimMemory), for every line, word and image, and the bus that*)
(* the assumptions of wrapper.sv admit (FormalBus), for every deadline that *)
(* fits the registers, for both buses and any number of reads.              *)
(***************************************************************************)
EXTENDS SimMemory, FormalBus, TLAPS

(* The lines of the addresses in use are numbers.                            *)
LEMMA LineType == \A address \in Addresses : LineOf(address) \in Nat
BY MemoryAssumption, Z3 DEF LineOf

(* Word w of line l is in the vector's range of l and of no other line.      *)
LEMMA LinesDisjoint ==
  ASSUME NEW l \in Nat, NEW m \in Nat, NEW w \in Word
  PROVE  /\ l * MEMBUS_WORDS + w \in Nat
         /\ (l + 1) * MEMBUS_WORDS = l * MEMBUS_WORDS + MEMBUS_WORDS
         /\ m * MEMBUS_WORDS \in Nat
         /\ l * MEMBUS_WORDS + w \in m * MEMBUS_WORDS ..
                                       m * MEMBUS_WORDS + MEMBUS_WORDS - 1
              => l = m
<1> DEFINE W == MEMBUS_WORDS
<1>0. /\ W \in Nat \ {0}
      /\ w \in 0 .. W - 1
  BY MemoryAssumption DEF Word
<1> HIDE DEF W
<1>1. /\ l * W \in Nat
      /\ m * W \in Nat
      /\ (l + 1) * W = l * W + W
      /\ (m + 1) * W = m * W + W
  BY <1>0
<1>2. ASSUME l < m PROVE l * W + W <= m * W
  <2>1. (l + 1) * W <= m * W
    BY <1>0, <1>2
  <2> QED
    BY <1>1, <2>1
<1>3. ASSUME m < l PROVE m * W + W <= l * W
  <2>1. (m + 1) * W <= l * W
    BY <1>0, <1>3
  <2> QED
    BY <1>1, <2>1
<1>4. l * W + w \in m * W .. m * W + W - 1 => l = m
  BY <1>0, <1>1, <1>2, <1>3
<1> QED
  BY <1>0, <1>1, <1>4 DEF W

LEMMA InitTypeOK == Init => TypeOK
<1> SUFFICES ASSUME Init PROVE TypeOK
  OBVIOUS
<1>1. Len(Image) \div WORD_BYTES \in Nat \ {0}
  <2>1. Len(Image) = WORD_BYTES * (Len(Image) \div WORD_BYTES)
    BY MemoryAssumption
  <2> QED
    BY <2>1, MemoryAssumption
<1>2. DOMAIN memory = 0 .. size - 1
  BY DEF Init, Load
<1>3. \A i \in DOMAIN memory : DOMAIN memory[i] = BytesOfWord
  BY DEF Init, Load
<1>4. b_valid \in BOOLEAN
  BY Zenon DEF Init
<1> QED
  BY <1>1, <1>2, <1>3, <1>4, MemoryAssumption DEF Init, TypeOK

(* What a step does to the vector: it may grow, and keeps or updates words.  *)
LEMMA GrowthType ==
  ASSUME TypeOK, NEW address \in Addresses
  PROVE  /\ GrownSize(address) \in Nat \ {0}
         /\ size <= GrownSize(address)
         /\ (LineOf(address) + 1) * MEMBUS_WORDS < GrownSize(address)
<1> DEFINE base == (LineOf(address) + 1) * MEMBUS_WORDS
<1>1. base \in Nat
  BY LineType, MemoryAssumption
<1>2. size \in Nat \ {0}
  BY DEF TypeOK
<1>3. GrownSize(address) = IF base >= size THEN base + 1 ELSE size
  BY DEF GrownSize
<1> HIDE DEF base
<1>4. /\ GrownSize(address) \in Nat \ {0}
      /\ size <= GrownSize(address)
      /\ base < GrownSize(address)
  BY <1>1, <1>2, <1>3
<1> QED
  BY <1>4 DEF base

(* Growing is invisible: what is added holds FILL, as it did before.         *)
LEMMA GrowthInvisible ==
  ASSUME TypeOK, NEW address \in Addresses, NEW i \in Nat
  PROVE  (IF i < GrownSize(address) THEN Grown(address)[i] ELSE FILL)
           = (IF i < size THEN memory[i] ELSE FILL)
<1>1. /\ GrownSize(address) \in Nat /\ size \in Nat
      /\ size <= GrownSize(address)
  BY GrowthType DEF TypeOK
<1>2. CASE i < GrownSize(address)
  BY <1>1, <1>2 DEF Grown
<1>3. CASE ~ (i < GrownSize(address))
  BY <1>1, <1>3
<1> QED
  BY <1>2, <1>3

LEMMA NextTypeOK == TypeOK /\ [Next]_vars => TypeOK'
<1> SUFFICES ASSUME TypeOK, [Next]_vars PROVE TypeOK'
  OBVIOUS
<1>0. ASSUME Tick
      PROVE  cycle' \in 0 .. MaxCycle /\ cycle' = cycle + 1 /\ cycle \in Nat
  BY <1>0, MemoryAssumption DEF Tick, TypeOK
<1>1. CASE evalIdle
  <2>1. nextReadCycle' \in 0 .. cycle' + 1
    BY <1>0, <1>1 DEF evalIdle, ResetNextRead, TypeOK
  <2>2. b_valid' \in BOOLEAN
    BY <1>1, Zenon DEF evalIdle
  <2> QED
    BY <1>0, <1>1, <2>1, <2>2 DEF evalIdle, TypeOK
<1>2. ASSUME NEW id \in Id, NEW address \in Addresses, evalRead(id, address)
      PROVE  TypeOK'
  <2>1. /\ size' \in Nat \ {0}
        /\ size' = GrownSize(address)
        /\ memory' = Grown(address)
    BY <1>2, GrowthType DEF evalRead
  <2>2. nextReadCycle' \in 0 .. cycle' + 1
    BY <1>0, <1>2 DEF evalRead
  <2>3. b_valid' \in BOOLEAN
    BY <1>2, Zenon DEF evalRead
  <2>4. /\ DOMAIN memory' = 0 .. size' - 1
        /\ \A i \in DOMAIN memory' : DOMAIN memory'[i] = BytesOfWord
    BY <2>1, MemoryAssumption DEF Grown, TypeOK
  <2> QED
    BY <1>0, <1>2, <2>1, <2>2, <2>3, <2>4 DEF evalRead, TypeOK
<1>3. ASSUME NEW address \in Addresses, NEW strobe \in Strobe, NEW data \in Data,
             evalWrite(address, strobe, data)
      PROVE  TypeOK'
  <2>1. size' \in Nat \ {0} /\ size' = GrownSize(address)
    BY <1>3, GrowthType DEF evalWrite
  <2>2. nextReadCycle' \in 0 .. cycle' + 1
    BY <1>0, <1>3 DEF evalWrite, ResetNextRead, TypeOK
  <2>3. b_valid' \in BOOLEAN
    BY <1>3, Zenon DEF evalWrite
  <2>4. \A i \in 0 .. size' - 1 : DOMAIN Grown(address)[i] = BytesOfWord
    BY <2>1, MemoryAssumption DEF Grown, TypeOK
  <2>5. /\ DOMAIN memory' = 0 .. size' - 1
        /\ \A i \in DOMAIN memory' : DOMAIN memory'[i] = BytesOfWord
    BY <1>3, <2>1, <2>4 DEF evalWrite, Masked
  <2> QED
    BY <1>0, <1>3, <2>1, <2>2, <2>3, <2>5 DEF evalWrite, TypeOK
<1>4. CASE UNCHANGED vars
  BY <1>4 DEF vars, TypeOK
<1> QED
  BY <1>1, <1>2, <1>3, <1>4 DEF Next, eval

(* The vector has its type, for every image and every sequence of requests.  *)
THEOREM MemoryTypeOK == Spec => []TypeOK
BY InitTypeOK, NextTypeOK, PTL DEF Spec

-----------------------------------------------------------------------------
(* The mapping to LineMemory.                                                *)
Store == [line \in LinesUsed |-> LineAt(line)]

Asked == IF nextReadCycle = cycle + 1
         THEN <<[id |-> nextReadId, data |-> nextReadData]>> ELSE <<>>

(* Growing the vector changes no line.                                       *)
LEMMA StoreUnchanged ==
  ASSUME TypeOK, NEW address \in Addresses,
         size' = GrownSize(address), memory' = Grown(address)
  PROVE  Store' = Store
<1> SUFFICES ASSUME NEW line \in LinesUsed PROVE LineAt(line)' = LineAt(line)
  BY DEF Store
<1>1. line \in Nat
  BY LineType DEF LinesUsed
<1>2. ASSUME NEW w \in Word
      PROVE  (IF line * MEMBUS_WORDS + w < size'
              THEN memory'[line * MEMBUS_WORDS + w] ELSE FILL)
               = (IF line * MEMBUS_WORDS + w < size
                  THEN memory[line * MEMBUS_WORDS + w] ELSE FILL)
  <2>1. line * MEMBUS_WORDS + w \in Nat
    BY <1>1, LinesDisjoint
  <2> QED
    BY <2>1, GrowthInvisible
<1> QED
  BY <1>2 DEF LineAt

(* What evalRead fetches is the line of its address.                         *)
LEMMA ReadFetchesLine ==
  ASSUME TypeOK, NEW address \in Addresses,
         size' = GrownSize(address), memory' = Grown(address)
  PROVE  [i \in Word |-> memory'[BaseAddress(address) + i]]
           = Store[LineOf(address)]
<1> DEFINE line == LineOf(address)
<1>1. line \in Nat /\ line \in LinesUsed
  BY LineType DEF LinesUsed
<1>2. ASSUME NEW w \in Word
      PROVE  memory'[BaseAddress(address) + w]
               = IF line * MEMBUS_WORDS + w < size
                 THEN memory[line * MEMBUS_WORDS + w] ELSE FILL
  <2>1. /\ line * MEMBUS_WORDS + w \in Nat
        /\ (line + 1) * MEMBUS_WORDS = line * MEMBUS_WORDS + MEMBUS_WORDS
        /\ line * MEMBUS_WORDS \in Nat
    BY <1>1, LinesDisjoint
  <2>2. /\ (line + 1) * MEMBUS_WORDS < GrownSize(address)
        /\ GrownSize(address) \in Nat
    BY GrowthType
  <2>3. line * MEMBUS_WORDS + w < GrownSize(address)
    BY <2>1, <2>2, MemoryAssumption DEF Word
  <2> QED
    BY <2>1, <2>3, GrowthInvisible DEF BaseAddress
<1> QED
  BY <1>1, <1>2 DEF Store, LineAt

(* evalWrite updates the strobed bytes of its line and nothing else.         *)
LEMMA WriteUpdatesLine ==
  ASSUME TypeOK, NEW address \in Addresses, NEW strobe, NEW data,
         evalWrite(address, strobe, data)
  PROVE  Store' = [Store EXCEPT ![LineOf(address)] =
                     [w \in Word |-> [b \in BytesOfWord |->
                        IF strobe[w][b] THEN data[w][b]
                        ELSE Store[LineOf(address)][w][b]]]]
<1> DEFINE line == LineOf(address)
           base == line * MEMBUS_WORDS
           old(i) == IF i < size THEN memory[i] ELSE FILL
<1>1. line \in Nat /\ line \in LinesUsed
  BY LineType DEF LinesUsed
<1>2. /\ size' = GrownSize(address) /\ size' \in Nat
      /\ base + MEMBUS_WORDS < size'
      /\ base \in Nat
  <2>1. 0 \in Word
    BY MemoryAssumption DEF Word
  <2>2. /\ (line + 1) * MEMBUS_WORDS = line * MEMBUS_WORDS + MEMBUS_WORDS
        /\ base \in Nat
    BY <1>1, <2>1, LinesDisjoint
  <2> QED
    BY <2>2, GrowthType DEF evalWrite
<1>3. memory' = [i \in 0 .. size' - 1 |->
                   IF i \in base .. base + MEMBUS_WORDS - 1
                   THEN Masked(Grown(address)[i], data[i - base], strobe[i - base])
                   ELSE Grown(address)[i]]
  BY <1>2 DEF evalWrite, BaseAddress
<1>4. ASSUME NEW l \in LinesUsed, NEW w \in Word
      PROVE  LineAt(l)'[w] = IF l = line
                             THEN Masked(old(l * MEMBUS_WORDS + w), data[w], strobe[w])
                             ELSE old(l * MEMBUS_WORDS + w)
  <2> DEFINE i == l * MEMBUS_WORDS + w
  <2>1. l \in Nat
    BY LineType DEF LinesUsed
  <2>2. /\ i \in Nat
        /\ i \in base .. base + MEMBUS_WORDS - 1 => l = line
    BY <1>1, <2>1, LinesDisjoint
  <2>3. LineAt(l)'[w] = IF i < size' THEN memory'[i] ELSE FILL
    BY DEF LineAt
  <2>4. (IF i < size' THEN Grown(address)[i] ELSE FILL) = old(i)
    BY <1>2, <2>2, GrowthInvisible
  <2>5. CASE l = line
    <3>1. /\ i \in base .. base + MEMBUS_WORDS - 1
          /\ i - base = w /\ i < size' /\ i \in 0 .. size' - 1
      BY <1>2, <2>5, MemoryAssumption DEF Word
    <3> HIDE DEF i, base, old
    <3>2. memory'[i] = Masked(Grown(address)[i], data[w], strobe[w])
      BY <1>3, <3>1
    <3>3. Grown(address)[i] = old(i)
      BY <2>4, <3>1
    <3> QED
      BY <2>3, <2>5, <3>1, <3>2, <3>3 DEF i
  <2>6. CASE l # line
    <3> HIDE DEF i, base, old
    <3>1. ~ (i \in base .. base + MEMBUS_WORDS - 1)
      BY <2>2, <2>6
    <3>2. ASSUME i < size' PROVE memory'[i] = Grown(address)[i]
      BY <1>2, <1>3, <2>2, <3>1, <3>2
    <3> QED
      BY <2>3, <2>4, <2>6, <3>2 DEF i
  <2> HIDE DEF line
  <2> QED
    BY <2>5, <2>6
<1>5. \A l \in LinesUsed : LineAt(l)' =
        IF l = line
        THEN [w \in Word |-> [b \in BytesOfWord |->
                IF strobe[w][b] THEN data[w][b] ELSE LineAt(line)[w][b]]]
        ELSE LineAt(l)
  <2>1. \A l \in LinesUsed : \A w \in Word :
          LineAt(l)[w] = old(l * MEMBUS_WORDS + w)
    BY DEF LineAt
  <2>2. \A l \in LinesUsed : /\ LineAt(l)' = [w \in Word |-> LineAt(l)'[w]]
                            /\ LineAt(l) = [w \in Word |-> LineAt(l)[w]]
    BY DEF LineAt
  <2> SUFFICES ASSUME NEW l \in LinesUsed
               PROVE  LineAt(l)' =
                        IF l = line
                        THEN [w \in Word |-> [b \in BytesOfWord |->
                                IF strobe[w][b] THEN data[w][b]
                                ELSE LineAt(line)[w][b]]]
                        ELSE LineAt(l)
    OBVIOUS
  <2> HIDE DEF line, old
  <2>3. CASE l = line
    <3>1. \A w \in Word : LineAt(l)'[w] =
            [b \in BytesOfWord |->
               IF strobe[w][b] THEN data[w][b] ELSE LineAt(line)[w][b]]
      BY <1>4, <2>1, <2>3 DEF Masked
    <3> QED
      BY <2>2, <2>3, <3>1
  <2>4. CASE l # line
    <3>1. \A w \in Word : LineAt(l)'[w] = LineAt(l)[w]
      BY <1>4, <2>1, <2>4
    <3> QED
      BY <2>2, <2>4, <3>1
  <2> QED
    BY <2>3, <2>4
<1>6. Store[LineOf(address)] = LineAt(LineOf(address))
  BY <1>1 DEF Store
<1> HIDE DEF old, base
<1> QED
  BY <1>1, <1>5, <1>6 DEF Store

-----------------------------------------------------------------------------
LEMMA InitLines == Init => Lines!Init
BY DEF Init, Lines!Init

LEMMA NextLines == TypeOK /\ [Next]_vars => [Lines!Next]_Lines!vars
<1> SUFFICES ASSUME TypeOK, [Next]_vars PROVE [Lines!Next]_Lines!vars
  OBVIOUS
<1>0. /\ cycle \in Nat
      /\ nextReadCycle \in 0 .. cycle + 1
  BY DEF TypeOK
<1>1. ASSUME ResetNextRead, cycle' = cycle + 1 PROVE Asked' = <<>>
  BY <1>0, <1>1 DEF ResetNextRead, Asked
<1>2. ASSUME Respond PROVE r' = Asked
  BY <1>2 DEF Respond, Asked
<1>3. CASE evalIdle
  <2>1. Store' = Store
    BY <1>3 DEF evalIdle, Store, LineAt
  <2>2. r' = Asked /\ Asked' = <<>> /\ b_valid' = FALSE
    BY <1>1, <1>2, <1>3 DEF evalIdle, Tick
  <2>3. Lines!Idle
    BY <2>1, <2>2 DEF Lines!Idle, Store, Asked
  <2> QED
    BY <2>3 DEF Lines!Next
<1>4. ASSUME NEW id \in Id, NEW address \in Addresses, evalRead(id, address)
      PROVE  Lines!Next
  <2>1. size' = GrownSize(address) /\ memory' = Grown(address)
    BY <1>4 DEF evalRead
  <2>2. Store' = Store
    BY <2>1, StoreUnchanged
  <2>3. nextReadData' = Store[LineOf(address)]
    BY <1>4, <2>1, ReadFetchesLine DEF evalRead
  <2>4. Asked' = <<[id |-> id, data |-> Store[LineOf(address)]]>>
    BY <1>0, <1>4, <2>3 DEF evalRead, Tick, Asked
  <2>5. r' = Asked /\ b_valid' = FALSE
    BY <1>2, <1>4 DEF evalRead
  <2>6. Lines!Read(id, LineOf(address))
    BY <2>2, <2>4, <2>5 DEF Lines!Read, Store, Asked
  <2> QED
    BY <2>6 DEF Lines!Next, LinesUsed
<1>5. ASSUME NEW address \in Addresses, NEW strobe \in Strobe, NEW data \in Data,
             evalWrite(address, strobe, data)
      PROVE  Lines!Next
  <2>1. r' = Asked /\ Asked' = <<>> /\ b_valid' = TRUE
    BY <1>1, <1>2, <1>5 DEF evalWrite, Tick
  <2>2. Store' = [Store EXCEPT ![LineOf(address)] =
                    [w \in Word |-> [b \in BytesOfWord |->
                       IF strobe[w][b] THEN data[w][b]
                       ELSE Store[LineOf(address)][w][b]]]]
    BY <1>5, WriteUpdatesLine
  <2>3. Lines!Write(LineOf(address), strobe, data)
    BY <2>1, <2>2 DEF Lines!Write, Store, Asked
  <2> QED
    BY <2>3 DEF Lines!Next, LinesUsed
<1>6. CASE UNCHANGED vars
  BY <1>6 DEF vars, Lines!vars, LineAt
<1> QED
  BY <1>3, <1>4, <1>5, <1>6 DEF Next, eval

(* The growing vector with its single read slot implements a memory of lines *)
(* that answers every read once, a cycle later, with the line as accepted.   *)
THEOREM MemoryImplementsLines == Spec => ImplementsLines
BY InitTypeOK, NextTypeOK, InitLines, NextLines, PTL
   DEF Spec, ImplementsLines, Lines!Spec
-----------------------------------------------------------------------------
(* The vector holds words, which are nothing but their bytes.                *)
Words == memory = [i \in 0 .. size - 1 |-> [k \in BytesOfWord |-> memory[i][k]]]

LEMMA InitWords == Init => Words
<1> SUFFICES ASSUME Init PROVE Words
  OBVIOUS
<1>1. memory = [i \in 0 .. size - 1 |->
                 [k \in BytesOfWord |-> Image[WORD_BYTES * i + k + 1]]]
  BY DEF Init, Load
<1>2. \A i \in 0 .. size - 1 :
        memory[i] = [k \in BytesOfWord |-> memory[i][k]]
  BY <1>1
<1> QED
  BY <1>1, <1>2 DEF Words

(* Growing adds whole words.                                                 *)
LEMMA GrownWords ==
  ASSUME TypeOK, Words, NEW address \in Addresses,
         NEW i \in 0 .. GrownSize(address) - 1
  PROVE  Grown(address)[i] = [k \in BytesOfWord |-> Grown(address)[i][k]]
<1>1. /\ size \in Nat
      /\ GrownSize(address) \in Nat
      /\ FILL = [k \in BytesOfWord |-> FILL[k]]
  BY GrowthType, MemoryAssumption DEF TypeOK
<1>2. Grown(address)[i] = IF i < size THEN memory[i] ELSE FILL
  BY DEF Grown
<1>3. CASE i < size
  <2>1. i \in 0 .. size - 1
    BY <1>1, <1>3
  <2>2. memory[i] = [k \in BytesOfWord |-> memory[i][k]]
    BY <2>1 DEF Words
  <2> QED
    BY <1>2, <1>3, <2>2
<1>4. CASE ~ (i < size)
  BY <1>1, <1>2, <1>4
<1> QED
  BY <1>3, <1>4

LEMMA NextWords == TypeOK /\ Words /\ [Next]_vars => Words'
<1> SUFFICES ASSUME TypeOK, Words, [Next]_vars PROVE Words'
  OBVIOUS
<1>1. CASE evalIdle
  BY <1>1 DEF evalIdle, Words
<1>2. ASSUME NEW id \in Id, NEW address \in Addresses, evalRead(id, address)
      PROVE  Words'
  <2>1. size' = GrownSize(address) /\ memory' = Grown(address)
    BY <1>2 DEF evalRead
  <2>2. memory' = [i \in 0 .. size' - 1 |-> memory'[i]]
    BY <2>1 DEF Grown
  <2>3. \A i \in 0 .. size' - 1 :
          memory'[i] = [k \in BytesOfWord |-> memory'[i][k]]
    BY <2>1, GrownWords
  <2> QED
    BY <2>2, <2>3 DEF Words
<1>3. ASSUME NEW address \in Addresses, NEW strobe \in Strobe, NEW data \in Data,
             evalWrite(address, strobe, data)
      PROVE  Words'
  <2> DEFINE base == BaseAddress(address)
  <2>1. /\ size' = GrownSize(address)
        /\ memory' = [i \in 0 .. size' - 1 |->
                       IF i \in base .. base + MEMBUS_WORDS - 1
                       THEN Masked(Grown(address)[i], data[i - base], strobe[i - base])
                       ELSE Grown(address)[i]]
    BY <1>3 DEF evalWrite
  <2> HIDE DEF base
  <2>2. ASSUME NEW i \in 0 .. size' - 1
        PROVE  memory'[i] = [k \in BytesOfWord |-> memory'[i][k]]
    <3>1. Grown(address)[i] = [k \in BytesOfWord |-> Grown(address)[i][k]]
      BY <2>1, GrownWords
    <3>2. CASE i \in base .. base + MEMBUS_WORDS - 1
      BY <2>1, <3>2 DEF Masked
    <3>3. CASE ~ (i \in base .. base + MEMBUS_WORDS - 1)
      BY <2>1, <3>1, <3>3
    <3> QED
      BY <3>2, <3>3
  <2>3. memory' = [i \in 0 .. size' - 1 |-> memory'[i]]
    BY <2>1
  <2> QED
    BY <2>2, <2>3 DEF Words
<1>4. CASE UNCHANGED vars
  BY <1>4 DEF vars, Words
<1> QED
  BY <1>1, <1>2, <1>3, <1>4 DEF Next, eval

(* Byte k of word i is byte W * i + k of a file of n words.                  *)
LEMMA PlaceInFile ==
  ASSUME NEW n \in Nat, NEW i \in 0 .. n - 1, NEW k \in BytesOfWord
  PROVE  /\ WORD_BYTES * i + k + 1 \in 1 .. n * WORD_BYTES
         /\ ((WORD_BYTES * i + k + 1) - 1) \div WORD_BYTES = i
         /\ ((WORD_BYTES * i + k + 1) - 1) % WORD_BYTES = k
<1> DEFINE W == WORD_BYTES
           m == W * i + k
<1>1. W \in Nat \ {0} /\ k \in 0 .. W - 1 /\ i \in Nat
  BY MemoryAssumption DEF BytesOfWord
<1> HIDE DEF W
<1>2. m \in Nat
  BY <1>1
<1>3. m \div W = i /\ m % W = k
  <2>1. PICK q \in Nat, d \in 0 .. W - 1 :
          m = W * q + d /\ q = m \div W /\ d = m % W
    BY <1>1, <1>2, Z3
  <2>2. ASSUME q < i PROVE FALSE
    <3>1. W * (q + 1) <= W * i
      BY <1>1, <2>2
    <3>2. W * (q + 1) = W * q + W
      BY <1>1
    <3> QED
      BY <1>1, <2>1, <3>1, <3>2
  <2>3. ASSUME i < q PROVE FALSE
    <3>1. W * (i + 1) <= W * q
      BY <1>1, <2>3
    <3>2. W * (i + 1) = W * i + W
      BY <1>1
    <3> QED
      BY <1>1, <2>1, <3>1, <3>2
  <2>4. q = i
    BY <1>1, <2>1, <2>2, <2>3
  <2> QED
    BY <1>1, <2>1, <2>4
<1>4. m + 1 \in 1 .. n * W
  <2>1. W * (i + 1) <= W * n
    BY <1>1
  <2>2. W * (i + 1) = W * i + W /\ W * n = n * W /\ W * n \in Nat
    BY <1>1
  <2> QED
    BY <1>1, <2>1, <2>2
<1>5. (m + 1) - 1 = m
  BY <1>2
<1> QED
  BY <1>3, <1>4, <1>5 DEF W

LEMMA WordsRestored == TypeOK /\ Words => DumpRestores
<1> SUFFICES ASSUME TypeOK, Words PROVE Load(dump) = memory
  BY DEF DumpRestores
<1>1. size \in Nat \ {0} /\ WORD_BYTES \in Nat \ {0}
  BY MemoryAssumption DEF TypeOK
<1>2. size * WORD_BYTES \in Nat
  BY <1>1
<1>3. Len(dump) = size * WORD_BYTES
  BY <1>2 DEF dump
<1>4. Len(dump) \div WORD_BYTES = size
  <2>1. PICK q \in Nat, d \in 0 .. WORD_BYTES - 1 :
          /\ size * WORD_BYTES = WORD_BYTES * q + d
          /\ q = (size * WORD_BYTES) \div WORD_BYTES
    BY <1>1, <1>2, Z3
  <2>2. q = size
    BY <1>1, <2>1, Z3
  <2> QED
    BY <1>3, <2>1, <2>2
<1>5. ASSUME NEW i \in 0 .. size - 1, NEW k \in BytesOfWord
      PROVE  dump[WORD_BYTES * i + k + 1] = memory[i][k]
  BY <1>1, PlaceInFile DEF dump
<1>6. Load(dump) = [i \in 0 .. size - 1 |->
                     [k \in BytesOfWord |-> dump[WORD_BYTES * i + k + 1]]]
  BY <1>4 DEF Load
<1>7. Load(dump) = [i \in 0 .. size - 1 |-> [k \in BytesOfWord |-> memory[i][k]]]
  BY <1>5, <1>6
<1> QED
  BY <1>7 DEF Words

(* A memory dumped to a file (--dump-mem) and given to a testbench as its    *)
(* program is the same memory: dump and the constructor of Memory agree on   *)
(* the order of words and bytes, also after growth and partial writes.       *)
THEOREM DumpIsRestored == Spec => []DumpRestores
BY InitTypeOK, NextTypeOK, InitWords, NextWords, WordsRestored, PTL DEF Spec

-----------------------------------------------------------------------------
(* FormalBus.  Everything follows from what the flag and its counter say of  *)
(* the reads without a response.                                             *)

(* The flag is up only for a read without a response.  Its counter is zero   *)
(* while it is down, never ahead of the oldest wait, and exactly that as     *)
(* long as no read has been forgotten.                                       *)
FlagCounts ==
  /\ rsp_pending_valid => owed > 0
  /\ ~rsp_pending_valid => rsp_pending_cycles = 0
  /\ rsp_pending_cycles <= age
  /\ forgotten = 0 => age = rsp_pending_cycles

BusInv == BusTypeOK /\ Assumed /\ FlagCounts

LEMMA InitBusInv == BusInit => BusInv
<1> SUFFICES ASSUME BusInit PROVE BusInv
  OBVIOUS
<1>1. BusTypeOK
  <2>1. Signals /\ rsp_pending_valid \in BOOLEAN
    BY Zenon DEF BusInit
  <2>2. /\ {cmd_pending_cycles, rsp_pending_cycles} \subseteq 0 .. DEADLINE - 1
        /\ owed \in Nat /\ age \in 0 .. DEADLINE + 1
    BY BusAssumption DEF BusInit
  <2> QED
    BY <2>1, <2>2, Zenon DEF BusTypeOK
<1>2. FlagCounts
  BY DEF BusInit, FlagCounts, forgotten
<1> QED
  BY <1>1, <1>2 DEF BusInit, BusInv

(* The assumption on a response, read as a bound of what it takes away.      *)
LEMMA ResponseIsOwed ==
  ASSUME BusInv
  PROVE  rsp_valid => owed > 0 \/ ReadAccepted
BY DEF BusInv, FlagCounts, Assumed, Assume, rsp_needed, ReadAccepted

(* The flag after a clock edge.                                              *)
LEMMA Flag ==
  ASSUME Clock
  PROVE  /\ rsp_pending_valid' \in BOOLEAN
         /\ rsp_pending_valid' <=> ~rsp_valid /\ (ReadAccepted \/ rsp_pending_valid)
BY Zenon DEF Clock, NextRspPending, Needed, rsp_needed, ReadAccepted

(* What a clock edge does to the reads the flag has lost.                    *)
LEMMA Loses ==
  ASSUME BusInv, Clock
  PROVE  /\ forgotten \in Nat
         /\ forgotten' = forgotten + (IF Overtakes THEN 1 ELSE 0)
                                   + (IF Missed THEN 1 ELSE 0)
<1>1. /\ owed \in Nat
      /\ owed' = owed + (IF ReadAccepted THEN 1 ELSE 0) - (IF ResponseTaken THEN 1 ELSE 0)
      /\ rsp_pending_valid => owed > 0
      /\ rsp_valid => rsp_pending_valid \/ ReadAccepted
  BY DEF BusInv, BusTypeOK, FlagCounts, Clock, rsp_needed, ReadAccepted, Assumed, Assume
<1>2. rsp_pending_valid' <=> ~rsp_valid /\ (ReadAccepted \/ rsp_pending_valid)
  BY Flag DEF BusInv
<1> QED
  BY <1>1, <1>2 DEF forgotten, Overtakes, Missed, ResponseTaken

LEMMA StepBusInv == BusInv /\ [BusNext]_busVars => BusInv'
<1> SUFFICES ASSUME BusInv, Clock PROVE BusInv'
  BY DEF BusNext, BusInv, BusTypeOK, Assumed, FlagCounts, Signals, forgotten, busVars, signals, registers
<1>1. Assumed'
  BY DEF Clock
<1>2. BusTypeOK'
  <2>1. Signals' /\ rsp_pending_valid' \in BOOLEAN
    BY Flag, Zenon DEF Clock, Signals
  <2>2. {cmd_pending_cycles, rsp_pending_cycles}' \subseteq 0 .. DEADLINE - 1
    BY <1>1, BusAssumption
       DEF Clock, BusInv, BusTypeOK, NextCmdCycles, NextRspCycles, Assumed, Assume
  <2>3. owed' \in Nat
    BY ResponseIsOwed DEF Clock, BusInv, BusTypeOK, ReadAccepted, ResponseTaken
  <2>4. age' \in 0 .. DEADLINE + 1
    BY BusAssumption DEF Clock, BusInv, BusTypeOK
  <2> QED
    BY <2>1, <2>2, <2>3, <2>4 DEF BusTypeOK
<1>3. FlagCounts'
  <2>1. (rsp_pending_valid => owed > 0)'
    BY Flag DEF BusInv, BusTypeOK, FlagCounts, Clock, ResponseTaken
  <2>2. (~rsp_pending_valid => rsp_pending_cycles = 0)'
    BY Flag DEF BusInv, BusTypeOK, FlagCounts, Clock, NextRspCycles
  <2>3. (rsp_pending_cycles <= age)'
    BY BusAssumption DEF BusInv, BusTypeOK, FlagCounts, Clock, NextRspCycles
  <2>4. (forgotten = 0 => age = rsp_pending_cycles)'
    <3> SUFFICES ASSUME forgotten' = 0 PROVE age' = rsp_pending_cycles'
      OBVIOUS
    <3>1. forgotten = 0
      BY Loses
    <3>2. age = rsp_pending_cycles /\ (rsp_pending_valid <=> owed > 0)
      BY <3>1 DEF BusInv, BusTypeOK, FlagCounts, forgotten
    <3> QED
      BY <3>2, BusAssumption DEF BusInv, BusTypeOK, FlagCounts, Clock, NextRspCycles
  <2> QED
    BY <2>1, <2>2, <2>3, <2>4 DEF FlagCounts
<1> QED
  BY <1>1, <1>2, <1>3 DEF BusInv

LEMMA AlwaysBusInv == BusSpec => []BusInv
BY InitBusInv, StepBusInv, PTL DEF BusSpec

-----------------------------------------------------------------------------
(* The registers of three bits hold their counts.                            *)
THEOREM BusTypeCorrect == BusSpec => []BusTypeOK
<1>1. BusInv => BusTypeOK
  BY DEF BusInv
<1> QED
  BY AlwaysBusInv, <1>1, PTL

(* The assumptions allow no response that no read has asked for.             *)
THEOREM NothingUnasked == BusSpec => []NoUnaskedResponse
<1>1. BusInv => NoUnaskedResponse
  BY ResponseIsOwed DEF NoUnaskedResponse
<1> QED
  BY AlwaysBusInv, <1>1, PTL

(* They bound the time of a response as long as the core's reads do not      *)
(* overlap and it takes every response.                                      *)
THEOREM InTime == BusSpec => []AnswersInTime
<1>1. BusInv => AnswersInTime
  BY BusAssumption DEF BusInv, BusTypeOK, FlagCounts, AnswersInTime
<1> QED
  BY AlwaysBusInv, <1>1, PTL

(* They leave the bus a way to go on whatever the core does.                 *)
THEOREM CoreIsFree == BusSpec => []EveryCoreIsChecked
<1>1. BusInv => EveryCoreIsChecked
  <2> SUFFICES ASSUME BusInv, ~LateCommand, ~LateResponse,
                      NEW valid \in BOOLEAN, NEW write \in Write
               PROVE  Assume(valid, write, FALSE, FALSE,
                             NextCmdCycles, NextRspCycles, NextRspPending)
    BY DEF EveryCoreIsChecked
  <2>1. NextCmdCycles < DEADLINE
    BY BusAssumption DEF BusInv, BusTypeOK, NextCmdCycles, LateCommand
  <2>2. NextRspCycles < DEADLINE
    BY BusAssumption DEF BusInv, BusTypeOK, FlagCounts, NextRspCycles, LateResponse
  <2> QED
    BY <2>1, <2>2 DEF Assume
<1> QED
  BY AlwaysBusInv, <1>1, PTL

(* A read is lost by the flag when it overtakes another, or its response     *)
(* finds the core not ready, and stays lost.                                 *)
THEOREM LostForGood == BusSpec => ForgottenForGood
<1>1. BusInv /\ [BusNext]_busVars =>
        [/\ forgotten' >= forgotten
         /\ forgotten' > forgotten <=> Overtakes \/ Missed]_busVars
  BY Loses DEF BusNext
<1> QED
  BY AlwaysBusInv, <1>1, PTL DEF BusSpec, ForgottenForGood
=============================================================================
