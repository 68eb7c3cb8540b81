------------------------------ MODULE SimMemory ------------------------------
(***************************************************************************)
(* The memory of the testbench, class Memory of simulation/main.cpp: a      *)
(* vector of words that grows on demand behind the core's AXI port.  eval   *)
(* runs once per rising clock edge, after the core has set its request.     *)
(* A word is the sequence of its bytes, lowest first; the vector is counted *)
(* from 0.  The core answers r_valid with r_ready (the assertion in eval)   *)
(* and drives the write data together with the address.                     *)
(***************************************************************************)
EXTENDS Integers, Sequences

CONSTANTS
  MEMBUS_WORDS,  (* words of a bus line, 4 in the code                      *)
  WORD_BYTES,    (* bytes of a word, 4 in the code                          *)
  Image,         (* the bytes of the memory file                            *)
  FILL,          (* the word new memory holds, 0xcafebabe in the code       *)
  Addresses,     (* byte addresses the core uses                            *)
  Id,            (* transaction ids                                         *)
  Data, Strobe,  (* write data and byte strobes of a line                   *)
  MaxCycle       (* bound: cycles simulated                                 *)

Word  == 0 .. MEMBUS_WORDS - 1
BytesOfWord == 0 .. WORD_BYTES - 1

ASSUME MemoryAssumption ==
  /\ MEMBUS_WORDS \in Nat \ {0}
  /\ WORD_BYTES \in Nat \ {0}
  /\ Addresses \subseteq Nat
  /\ MaxCycle \in Nat
  /\ Image \in Seq(Nat)
  /\ Len(Image) > 0
  /\ Len(Image) % WORD_BYTES = 0
  /\ FILL \in [BytesOfWord -> Nat]

VARIABLES
  cycle,
  memory,           (* memory_: word index to word                          *)
  size,             (* memory_.size()                                       *)
  nextReadCycle, nextReadData, nextReadId,
  r,                (* the r channel: the response of this cycle, if any    *)
  b_valid,
  storesLog         (* the lines logged in this cycle                       *)

vars == <<cycle, memory, size, nextReadCycle, nextReadData, nextReadId, r,
          b_valid, storesLog>>

(* The constructor assembles words from the file's bytes, lowest first, and  *)
(* dump writes them back.                                                    *)
Load(bytes) ==
  [i \in 0 .. (Len(bytes) \div WORD_BYTES) - 1 |->
    [k \in BytesOfWord |-> bytes[WORD_BYTES * i + k + 1]]]

DumpHighestFirst ==
  [n \in 1 .. size * WORD_BYTES |->
    memory[(n - 1) \div WORD_BYTES][(WORD_BYTES - 1) - ((n - 1) % WORD_BYTES)]]

dump ==
  [n \in 1 .. size * WORD_BYTES |->
    memory[(n - 1) \div WORD_BYTES][(n - 1) % WORD_BYTES]]

(* address >> MEMBUS_OFFSET                                                  *)
LineOf(address) == address \div (MEMBUS_WORDS * WORD_BYTES)

BaseAddress(address) == LineOf(address) * MEMBUS_WORDS

Init ==
  /\ cycle = 0
  /\ memory = Load(Image)
  /\ size = Len(Image) \div WORD_BYTES
  /\ nextReadCycle = 0
  /\ nextReadData = <<>>
  /\ nextReadId = <<>>
  /\ r = <<>>
  /\ b_valid = FALSE
  /\ storesLog = {}

-----------------------------------------------------------------------------
(* The vector grows to the first word of the line after address.             *)
GrownSize(address) ==
  LET base == (LineOf(address) + 1) * MEMBUS_WORDS
  IN  IF base >= size THEN base + 1 ELSE size

Grown(address) ==
  [i \in 0 .. GrownSize(address) - 1 |-> IF i < size THEN memory[i] ELSE FILL]

(* The answer to a read of the cycle before, looked at before the request.   *)
Respond ==
  r' = IF nextReadCycle = cycle + 1
       THEN <<[id |-> nextReadId, data |-> nextReadData]>>
       ELSE <<>>

Tick ==
  /\ cycle < MaxCycle
  /\ cycle' = cycle + 1

(* nextReadCycle_ is reset to 0, a cycle that never comes, when it is used.  *)
ResetNextRead ==
  nextReadCycle' = IF nextReadCycle = cycle + 1 THEN 0 ELSE nextReadCycle

evalIdle ==
  /\ Tick
  /\ Respond
  /\ ResetNextRead
  /\ b_valid' = FALSE
  /\ storesLog' = {}
  /\ UNCHANGED <<memory, size, nextReadData, nextReadId>>

(* The request is taken first: a read in flight is overwritten.              *)
ReadBeforeRespond(id, address) ==
  /\ Tick
  /\ r' = <<>>
  /\ size' = GrownSize(address)
  /\ memory' = Grown(address)
  /\ nextReadData' = [i \in Word |-> memory'[BaseAddress(address) + i]]
  /\ nextReadCycle' = cycle + 2
  /\ nextReadId' = id
  /\ b_valid' = FALSE
  /\ storesLog' = {}

evalRead(id, address) ==
  /\ Tick
  /\ Respond
  /\ size' = GrownSize(address)
  /\ memory' = Grown(address)
  /\ nextReadData' = [i \in Word |-> memory'[BaseAddress(address) + i]]
  /\ nextReadCycle' = cycle + 2
  /\ nextReadId' = id
  /\ b_valid' = FALSE
  /\ storesLog' = {}

Masked(old, new, strobe) ==
  [k \in BytesOfWord |-> IF strobe[k] THEN new[k] ELSE old[k]]

(* Each word with a strobe is updated, and logged with the line's address    *)
(* and the whole data word.                                                  *)
evalWrite(address, strobe, data) ==
  LET base == BaseAddress(address)
  IN  /\ Tick
      /\ Respond
      /\ ResetNextRead
      /\ size' = GrownSize(address)
      /\ memory' = [i \in 0 .. GrownSize(address) - 1 |->
                     IF i \in base .. base + MEMBUS_WORDS - 1
                     THEN Masked(Grown(address)[i], data[i - base], strobe[i - base])
                     ELSE Grown(address)[i]]
      /\ b_valid' = TRUE
      /\ storesLog' = {[at |-> base, value |-> data[i]] :
                        i \in {w \in Word : \E k \in BytesOfWord : strobe[w][k]}}
      /\ UNCHANGED <<nextReadData, nextReadId>>

eval ==
  \/ evalIdle
  \/ \E id \in Id, address \in Addresses : evalRead(id, address)
  \/ \E address \in Addresses, strobe \in Strobe, data \in Data :
       evalWrite(address, strobe, data)

Next == eval

Spec == Init /\ [][Next]_vars

-----------------------------------------------------------------------------
(* Every variable has its type, and the vector holds whole words only.       *)
TypeOK ==
  /\ cycle \in 0 .. MaxCycle
  /\ size \in Nat \ {0}
  /\ DOMAIN memory = 0 .. size - 1
  /\ \A i \in DOMAIN memory : DOMAIN memory[i] = BytesOfWord
  /\ nextReadCycle \in 0 .. cycle + 1
  /\ b_valid \in BOOLEAN

(* The line at address as the core sees it: memory that has not grown there  *)
(* yet holds FILL.                                                           *)
LineAt(line) ==
  [w \in Word |->
    IF line * MEMBUS_WORDS + w < size THEN memory[line * MEMBUS_WORDS + w]
                                      ELSE FILL]

LinesUsed == {LineOf(a) : a \in Addresses}

Lines == INSTANCE LineMemory WITH
  Lines <- LinesUsed,
  Words <- Word,
  Bytes <- BytesOfWord,
  store <- [line \in LinesUsed |-> LineAt(line)],
  asked <- IF nextReadCycle = cycle + 1
           THEN <<[id |-> nextReadId, data |-> nextReadData]>> ELSE <<>>,
  answer <- r,
  ack <- b_valid

(* Growing on demand and the one slot for a read in flight are invisible to  *)
(* the core: each read is answered once, in the next cycle, with the line as *)
(* it was when accepted, also when requests follow each other every cycle.   *)
ImplementsLines == Lines!Spec

(* A memory dumped to a file and loaded from it again is the same memory.    *)
DumpRestores == Load(dump) = memory

=============================================================================
