-------------------------- MODULE StdinPath_proofs --------------------------
(***************************************************************************)
(* Proofs about the whole path of standard input, for every ring, library   *)
(* buffer, set of bytes and bound.  What BspStdin_proofs shows of a device  *)
(* that presents any byte at any time holds behind ByteDev, since ByteDev   *)
(* is such a device.                                                        *)
(***************************************************************************)
EXTENDS StdinPath, SequenceTheorems, TLAPS

(* The theorems about BspStdin, with ByteDev for its device.                 *)
BspProofs == INSTANCE BspStdin_proofs WITH
               dev <- Device!Held,
               sent <- delivered \o Device!Held,
               MaxSent <- MaxBytes

(* What the theorems about BspStdin assume of its constants holds here.      *)
LEMMA BspAssumes == BspProofs!StdinAssumption
BY PathAssumption DEF BspProofs!StdinAssumption

LEMMA SameInit == Bsp!Init <=> BspProofs!Init
BY Zenon DEF Bsp!Init, BspProofs!Init, Bsp!Slot, BspProofs!Slot

(* Both instances of BspStdin are the same specification.                    *)
LEMMA SameNext == [Bsp!Next]_Bsp!vars <=> [BspProofs!Next]_BspProofs!vars
BY DEF Bsp!stdin_buf_next_pos, BspProofs!stdin_buf_next_pos,
  Bsp!stdin_buf_is_empty, BspProofs!stdin_buf_is_empty,
  Bsp!stdin_buf_is_full, BspProofs!stdin_buf_is_full,
  Bsp!STDIN_FILENO, BspProofs!STDIN_FILENO,
  Bsp!STDOUT_FILENO, BspProofs!STDOUT_FILENO,
  Bsp!EBADF, BspProofs!EBADF, Bsp!EAGAIN, BspProofs!EAGAIN,
  Bsp!devVars, BspProofs!devVars, Bsp!ringVars, BspProofs!ringVars,
  Bsp!csrVars, BspProofs!csrVars, Bsp!readVars, BspProofs!readVars,
  Bsp!vars, BspProofs!vars, Bsp!DevPresent, BspProofs!DevPresent,
  Bsp!InterruptPending, BspProofs!InterruptPending,
  Bsp!EnterTrap, BspProofs!EnterTrap,
  Bsp!TakeInterrupt, BspProofs!TakeInterrupt,
  Bsp!TrapReturn, BspProofs!TrapReturn, Bsp!IsrCheck, BspProofs!IsrCheck,
  Bsp!IsrLoad, BspProofs!IsrLoad, Bsp!IsrStore, BspProofs!IsrStore,
  Bsp!ProgramRuns, BspProofs!ProgramRuns,
  Bsp!init_stdin, BspProofs!init_stdin,
  Bsp!enable_interrupts, BspProofs!enable_interrupts,
  Bsp!disable_interrupts, BspProofs!disable_interrupts,
  Bsp!EcallRead, BspProofs!EcallRead, Bsp!ReadByte, BspProofs!ReadByte,
  Bsp!ReadDone, BspProofs!ReadDone, Bsp!Isr, BspProofs!Isr,
  Bsp!SysRead, BspProofs!SysRead, Bsp!Program, BspProofs!Program,
  Bsp!Next, BspProofs!Next

LEMMA SameSpec == Bsp!Spec <=> BspProofs!Spec
BY SameInit, SameNext, PTL DEF Bsp!Spec, BspProofs!Spec

LEMMA SameRing == Bsp!RingContents = BspProofs!RingContents
BY DEF Bsp!RingContents, BspProofs!RingContents, Bsp!Count, BspProofs!Count,
       Bsp!Wrap, BspProofs!Wrap

LEMMA BspInvariant ==
  BspProofs!IInv /\ [BspProofs!Next]_BspProofs!vars => BspProofs!IInv'
BY BspAssumes, BspProofs!TypeStep, BspProofs!ControlStep, BspProofs!DataStep
   DEF BspProofs!IInv

-----------------------------------------------------------------------------
(* The testbench's side: the bytes behind the core are those written by the  *)
(* host that are in the register, in the library's buffer and in the pipe.   *)
DeviceTypeOK ==
  /\ pipe \in Seq(Byte)
  /\ buffer \in Seq(Byte)
  /\ written \in Seq(Byte)
  /\ Len(written) <= MaxBytes
  /\ delivered \in Seq(Byte)
  /\ hasStdinByte \in BOOLEAN
  /\ hasStdinByte => currentStdinByte \in Byte

InOrder == written = (delivered \o Device!Held) \o (buffer \o pipe)

DeviceInv == DeviceTypeOK /\ InOrder

(* No byte or one.                                                           *)
AtMostAByte == {<<>>} \cup {<<b>> : b \in Byte}

LEMMA BytesAreSeqs == AtMostAByte \subseteq Seq(Byte)
<1>1. \A b \in Byte : <<b>> \in Seq(Byte)
  OBVIOUS
<1>2. <<>> \in Seq(Byte)
  OBVIOUS
<1> QED
  BY <1>1, <1>2, Zenon DEF AtMostAByte

(* Sequences of bytes, put together.                                         *)
LEMMA Concat ==
  \A s, t \in Seq(Byte) :
    /\ s \o t \in Seq(Byte)
    /\ Len(s \o t) = Len(s) + Len(t)
    /\ \A i \in 1 .. Len(s) + Len(t) :
         (s \o t)[i] = IF i <= Len(s) THEN s[i] ELSE t[i - Len(s)]
BY ConcatProperties

LEMMA Associative ==
  \A s, t, u \in Seq(Byte) : (s \o t) \o u = s \o (t \o u)
BY ConcatAssociative

LEMMA OneByte ==
  \A s \in Seq(Byte) : \A n \in 1 .. Len(s) : SubSeq(s, n, n) = <<s[n]>>
<1> SUFFICES ASSUME NEW s \in Seq(Byte), NEW n \in 1 .. Len(s)
             PROVE  SubSeq(s, n, n) = <<s[n]>>
  OBVIOUS
<1>1. n \in Int /\ s[n] \in Byte
  BY ElementOfSeq
<1> DEFINE t == SubSeq(s, n, n)
           u == <<s[n]>>
<1>2. t \in Seq(Byte) /\ Len(t) = 1 /\ t[1] = s[n]
  BY <1>1
<1>3. u \in Seq(Byte) /\ Len(u) = 1 /\ u[1] = s[n]
  BY <1>1
<1> HIDE DEF t, u
<1>4. \A i \in 1 .. Len(t) : t[i] = u[i]
  BY <1>2, <1>3
<1>5. t = u
  BY <1>2, <1>3, <1>4, SeqEqual
<1> QED
  BY <1>5 DEF t, u

LEMMA HeldIsAByte == DeviceTypeOK => Device!Held \in AtMostAByte
BY DEF DeviceTypeOK, Device!Held, AtMostAByte

LEMMA InitDevice == Device!Init => DeviceInv /\ Device!Held = <<>>
<1> SUFFICES ASSUME Device!Init PROVE DeviceInv /\ Device!Held = <<>>
  OBVIOUS
<1>1. Device!Held = <<>>
  BY DEF Device!Init, Device!Held
<1>2. hasStdinByte \in BOOLEAN /\ ~hasStdinByte
  BY Zenon DEF Device!Init
<1>3. /\ pipe = <<>> /\ buffer = <<>> /\ written = <<>> /\ delivered = <<>>
      /\ <<>> \in Seq(Byte) /\ Len(<<>>) = 0
  BY DEF Device!Init
<1>4. DeviceTypeOK
  BY <1>2, <1>3, PathAssumption DEF DeviceTypeOK
<1>5. <<>> \o <<>> = <<>>
  BY <1>3, ConcatEmptySeq
<1> QED
  BY <1>1, <1>3, <1>4, <1>5 DEF DeviceInv, InOrder

(* Filling the library's buffer moves bytes and changes none, and only an    *)
(* empty pipe leaves an empty buffer empty.                                  *)
LEMMA RefillKeeps ==
  ASSUME DeviceTypeOK
  PROVE  /\ Device!Refilled[1] \in Seq(Byte)
         /\ Device!Refilled[2] \in Seq(Byte)
         /\ Device!Refilled[1] \o Device!Refilled[2] = buffer \o pipe
         /\ Device!Refilled[1] = <<>> => Device!Refilled[2] = <<>>
<1>1. CASE buffer # <<>>
  BY <1>1 DEF DeviceTypeOK, Device!Refilled
<1>2. CASE buffer = <<>>
  <2> DEFINE n == IF Len(pipe) < BUFSIZ THEN Len(pipe) ELSE BUFSIZ
  <2>1. /\ pipe \in Seq(Byte) /\ Len(pipe) \in Nat
        /\ n \in 0 .. Len(pipe)
        /\ n = 0 => Len(pipe) = 0
    BY PathAssumption DEF DeviceTypeOK
  <2>2. /\ Device!Refilled[1] = SubSeq(pipe, 1, n)
        /\ Device!Refilled[2] = SubSeq(pipe, n + 1, Len(pipe))
    BY <1>2 DEF Device!Refilled
  <2> HIDE DEF n
  <2>3. /\ SubSeq(pipe, 1, n) \in Seq(Byte)
        /\ Len(SubSeq(pipe, 1, n)) = n
        /\ SubSeq(pipe, n + 1, Len(pipe)) \in Seq(Byte)
        /\ Len(SubSeq(pipe, n + 1, Len(pipe))) = Len(pipe) - n
    BY <2>1
  <2>4. SubSeq(pipe, 1, n) \o SubSeq(pipe, n + 1, Len(pipe)) = pipe
    <3>1. SubSeq(pipe, 1, n) \o SubSeq(pipe, n + 1, Len(pipe))
            = SubSeq(pipe, 1, Len(pipe))
      <4>1. /\ 1 \in 1 .. Len(pipe) + 1
            /\ n \in 1 - 1 .. Len(pipe)
            /\ Len(pipe) \in n .. Len(pipe)
        BY <2>1
      <4> QED
        BY <4>1, <2>1, ConcatAdjacentSubSeq
    <3> QED
      BY <3>1, <2>1, SubSeqFull
  <2>5. buffer \o pipe = pipe
    BY <1>2, <2>1, ConcatEmptySeq
  <2>6. ASSUME SubSeq(pipe, 1, n) = <<>>
        PROVE  SubSeq(pipe, n + 1, Len(pipe)) = <<>>
    <3>1. n = 0
      BY <2>3, <2>6, EmptySeq
    <3>2. Len(SubSeq(pipe, n + 1, Len(pipe))) = 0
      BY <3>1, <2>1, <2>3
    <3> QED
      BY <3>2, <2>3, EmptySeq
  <2> QED
    BY <2>2, <2>3, <2>4, <2>5, <2>6
<1> QED
  BY <1>1, <1>2

(* cin.get() takes the first of the bytes the core has not seen, or finds    *)
(* the end of the file when there is none.                                   *)
LEMMA GetTakesFirst ==
  ASSUME DeviceTypeOK, NEW got, Device!Get(got)
  PROVE  /\ got \in AtMostAByte
         /\ pipe' \in Seq(Byte) /\ buffer' \in Seq(Byte)
         /\ got \o (buffer' \o pipe') = buffer \o pipe
<1> DEFINE r1 == Device!Refilled[1]
           r2 == Device!Refilled[2]
<1>1. /\ r1 \in Seq(Byte) /\ r2 \in Seq(Byte)
      /\ r1 \o r2 = buffer \o pipe
      /\ r1 = <<>> => r2 = <<>>
  BY RefillKeeps
<1>2. /\ pipe' = r2
      /\ buffer' = IF r1 = <<>> THEN <<>> ELSE Tail(r1)
      /\ got = IF r1 = <<>> THEN <<>> ELSE <<Head(r1)>>
  BY DEF Device!Get
<1> HIDE DEF r1, r2
<1>3. CASE r1 = <<>>
  <2>1. /\ pipe' = <<>> /\ buffer' = <<>> /\ got = <<>>
        /\ buffer \o pipe = <<>> \o <<>>
        /\ <<>> \in Seq(Byte)
    BY <1>1, <1>2, <1>3
  <2>2. <<>> \o <<>> = <<>>
    BY <2>1, ConcatEmptySeq
  <2> QED
    BY <2>1, <2>2 DEF AtMostAByte
<1>4. CASE r1 # <<>>
  <2>1. /\ Head(r1) \in Byte
        /\ Tail(r1) \in Seq(Byte)
        /\ <<Head(r1)>> \in Seq(Byte)
    BY <1>1, <1>4, HeadTailProperties
  <2>2. r1 = <<Head(r1)>> \o Tail(r1)
    <3>1. /\ Len(r1) \in Nat \ {0}
          /\ Len(Tail(r1)) = Len(r1) - 1
          /\ \A i \in 1 .. Len(Tail(r1)) : Tail(r1)[i] = r1[i + 1]
          /\ Head(r1) = r1[1]
      BY <1>1, <1>4, EmptySeq, HeadTailProperties
    <3> DEFINE h == <<Head(r1)>>
               t == Tail(r1)
    <3>2. h \in Seq(Byte) /\ Len(h) = 1 /\ h[1] = r1[1] /\ t \in Seq(Byte)
      BY <2>1, <3>1
    <3> HIDE DEF h, t
    <3>3. /\ h \o t \in Seq(Byte)
          /\ Len(h \o t) = 1 + Len(t)
          /\ \A i \in 1 .. 1 + Len(t) :
               (h \o t)[i] = IF i <= 1 THEN h[i] ELSE t[i - 1]
      <4>1. /\ h \o t \in Seq(Byte)
            /\ Len(h \o t) = Len(h) + Len(t)
            /\ \A i \in 1 .. Len(h) + Len(t) :
                 (h \o t)[i] = IF i <= Len(h) THEN h[i] ELSE t[i - Len(h)]
        BY <3>2, Concat, Zenon
      <4> QED
        BY <3>2, <4>1, Zenon
    <3>4. /\ Len(t) = Len(r1) - 1
          /\ \A i \in 1 .. Len(t) : t[i] = r1[i + 1]
      BY <3>1 DEF t
    <3>5. ASSUME NEW i \in 1 .. Len(r1)
          PROVE  r1[i] = (h \o t)[i]
      <4>1. CASE i = 1
        BY <4>1, <3>1, <3>2, <3>3, <3>4
      <4>2. CASE i # 1
        <5>1. i - 1 \in 1 .. Len(t) /\ i \in 1 .. 1 + Len(t) /\ ~(i <= 1)
              /\ (i - 1) + 1 = i
          BY <4>2, <3>1, <3>4
        <5> QED
          BY <5>1, <3>3, <3>4
      <4> QED
        BY <4>1, <4>2
    <3>6. Len(r1) = Len(h \o t)
      BY <3>1, <3>3, <3>4
    <3>7. r1 = h \o t
      BY <1>1, <3>3, <3>5, <3>6, SeqEqual
    <3> QED
      BY <3>7 DEF h, t
  <2>3. (<<Head(r1)>> \o Tail(r1)) \o r2 = <<Head(r1)>> \o (Tail(r1) \o r2)
    BY <1>1, <2>1, Associative, Zenon
  <2> QED
    BY <1>1, <1>2, <1>4, <2>1, <2>2, <2>3 DEF AtMostAByte
<1> QED
  BY <1>3, <1>4

(* The core takes the byte it is shown, or the device holds it.              *)
LEMMA ShownIsTakenOrHeld ==
  ASSUME delivered \in Seq(Byte), NEW shown \in AtMostAByte,
         NEW ready \in BOOLEAN, Device!Show(shown, ready)
  PROVE  /\ delivered' = IF ready THEN delivered \o shown ELSE delivered
         /\ Device!Held' = IF ready THEN <<>> ELSE shown
         /\ delivered' \o Device!Held' = delivered \o shown
         /\ delivered' \in Seq(Byte)
         /\ hasStdinByte' \in BOOLEAN
         /\ hasStdinByte' => currentStdinByte' \in Byte
<1>1. /\ shown \in Seq(Byte)
      /\ shown = <<>> \/ \E b \in Byte : shown = <<b>>
  BY BytesAreSeqs DEF AtMostAByte
<1>2. /\ hasStdinByte' = (shown # <<>> /\ ~ready)
      /\ currentStdinByte' = IF shown # <<>> THEN Head(shown) ELSE EOF
      /\ delivered' = IF ready THEN delivered \o shown ELSE delivered
  BY Zenon DEF Device!Show
<1>3. hasStdinByte' \in BOOLEAN
  BY <1>2, Zenon
<1>4. hasStdinByte' => currentStdinByte' \in Byte
  <2>1. \A b \in Byte : <<b>> # <<>> /\ Head(<<b>>) = b
    OBVIOUS
  <2>2. shown # <<>> => Head(shown) \in Byte
    BY <1>1, <2>1, Zenon
  <2> QED
    BY <1>2, <2>2, Zenon
<1>5. Device!Held' = IF ready THEN <<>> ELSE shown
  <2>1. Device!Held' = IF hasStdinByte' THEN <<currentStdinByte'>> ELSE <<>>
    BY DEF Device!Held
  <2>2. shown # <<>> => <<Head(shown)>> = shown
    BY <1>1
  <2>3. CASE ready
    BY <1>2, <2>1, <2>3
  <2>4. CASE ~ready
    BY <1>2, <2>1, <2>2, <2>4
  <2> QED
    BY <2>3, <2>4
<1>6. delivered \o shown \in Seq(Byte)
  BY <1>1, ConcatProperties
<1>7. (delivered \o shown) \o <<>> = delivered \o shown
  BY <1>6, ConcatEmptySeq
<1> QED
  BY <1>2, <1>3, <1>4, <1>5, <1>6, <1>7

(* In a cycle the device shows what it holds, or else what cin.get() gives   *)
(* it; in both cases the byte that comes next.                               *)
LEMMA EvalShowsNext ==
  ASSUME DeviceInv, NEW ready \in BOOLEAN, Device!eval(ready)
  PROVE  \E shown \in AtMostAByte :
           /\ Device!Show(shown, ready)
           /\ pipe' \in Seq(Byte) /\ buffer' \in Seq(Byte)
           /\ shown \o (buffer' \o pipe') = Device!Held \o (buffer \o pipe)
           /\ Device!Held = <<>> \/ Device!Held = shown
<1>1. DeviceTypeOK
  BY DEF DeviceInv
<1>2. CASE /\ Device!Show(Device!Held, ready)
           /\ UNCHANGED <<pipe, buffer, eof>>
  <2>1. Device!Held \in AtMostAByte
    BY <1>1, HeldIsAByte
  <2> QED
    BY <1>1, <1>2, <2>1 DEF DeviceTypeOK
<1>3. ASSUME ~hasStdinByte, NEW got, Device!Get(got), Device!Show(got, ready)
      PROVE  \E shown \in AtMostAByte :
               /\ Device!Show(shown, ready)
               /\ pipe' \in Seq(Byte) /\ buffer' \in Seq(Byte)
               /\ shown \o (buffer' \o pipe') = Device!Held \o (buffer \o pipe)
               /\ Device!Held = <<>> \/ Device!Held = shown
  <2>1. /\ got \in AtMostAByte
        /\ pipe' \in Seq(Byte) /\ buffer' \in Seq(Byte)
        /\ got \o (buffer' \o pipe') = buffer \o pipe
    BY <1>1, <1>3, GetTakesFirst
  <2>2. Device!Held = <<>>
    BY <1>3 DEF Device!Held
  <2>3. buffer \o pipe \in Seq(Byte)
    BY <1>1, ConcatProperties DEF DeviceTypeOK
  <2>4. <<>> \o (buffer \o pipe) = buffer \o pipe
    BY <2>3, ConcatEmptySeq
  <2> QED
    BY <1>3, <2>1, <2>2, <2>4
<1> QED
  BY <1>2, <1>3 DEF Device!eval

LEMMA EvalKeepsInv ==
  ASSUME DeviceInv, NEW ready \in BOOLEAN, Device!eval(ready)
  PROVE  DeviceInv'
<1>1. DeviceTypeOK /\ InOrder
  BY DEF DeviceInv
<1>2. PICK shown \in AtMostAByte :
        /\ Device!Show(shown, ready)
        /\ pipe' \in Seq(Byte) /\ buffer' \in Seq(Byte)
        /\ shown \o (buffer' \o pipe') = Device!Held \o (buffer \o pipe)
  BY EvalShowsNext
<1>3. /\ delivered' \o Device!Held' = delivered \o shown
      /\ delivered' \in Seq(Byte)
      /\ hasStdinByte' \in BOOLEAN
      /\ hasStdinByte' => currentStdinByte' \in Byte
  BY <1>1, <1>2, ShownIsTakenOrHeld DEF DeviceTypeOK
<1>4. written' = written
  BY DEF Device!eval
<1>5. DeviceTypeOK'
  BY <1>1, <1>2, <1>3, <1>4 DEF DeviceTypeOK
<1>6. /\ delivered \in Seq(Byte) /\ shown \in Seq(Byte)
      /\ Device!Held \in Seq(Byte)
      /\ buffer \o pipe \in Seq(Byte) /\ buffer' \o pipe' \in Seq(Byte)
  BY <1>1, <1>2, BytesAreSeqs, HeldIsAByte, ConcatProperties DEF DeviceTypeOK
<1>7. (delivered \o shown) \o (buffer' \o pipe')
        = delivered \o (shown \o (buffer' \o pipe'))
  BY <1>6, Associative, ZenonT(20)
<1>8. (delivered \o Device!Held) \o (buffer \o pipe)
        = delivered \o (Device!Held \o (buffer \o pipe))
  BY <1>6, Associative, ZenonT(20)
<1>9. InOrder'
  BY <1>1, <1>2, <1>3, <1>4, <1>7, <1>8 DEF InOrder
<1> QED
  BY <1>5, <1>9 DEF DeviceInv

LEMMA WriteKeepsInv ==
  ASSUME DeviceInv, NEW b \in Byte, Device!HostWrites(b)
  PROVE  DeviceInv'
<1>1. /\ DeviceTypeOK /\ InOrder
      /\ pipe' = Append(pipe, b) /\ written' = Append(written, b)
      /\ Len(written) < MaxBytes
      /\ UNCHANGED <<buffer, hasStdinByte, currentStdinByte, delivered>>
  BY DEF DeviceInv, Device!HostWrites, Device!devVars
<1>2. Device!Held' = Device!Held
  BY <1>1 DEF Device!Held
<1> DEFINE seen == delivered \o Device!Held
<1>3. /\ pipe \in Seq(Byte) /\ buffer \in Seq(Byte) /\ written \in Seq(Byte)
      /\ <<b>> \in Seq(Byte)
      /\ seen \in Seq(Byte)
      /\ buffer \o pipe \in Seq(Byte)
  BY <1>1, HeldIsAByte, BytesAreSeqs, ConcatProperties DEF DeviceTypeOK
<1>4. /\ pipe' = pipe \o <<b>> /\ written' = written \o <<b>>
      /\ pipe' \in Seq(Byte) /\ written' \in Seq(Byte)
      /\ Len(written') = Len(written) + 1
  BY <1>1, <1>3, AppendIsConcat, AppendProperties
<1>5. DeviceTypeOK'
  <2>1. Len(written) \in Nat /\ MaxBytes \in Nat
    BY <1>3, PathAssumption, LenProperties
  <2>2. Len(written') <= MaxBytes
    BY <1>1, <1>4, <2>1
  <2>3. /\ hasStdinByte' \in BOOLEAN
        /\ hasStdinByte' => currentStdinByte' \in Byte
    BY <1>1, Zenon DEF DeviceTypeOK
  <2> QED
    BY <1>1, <1>4, <2>2, <2>3 DEF DeviceTypeOK
<1> HIDE DEF seen
<1>6. (seen \o (buffer \o pipe)) \o <<b>> = seen \o (buffer \o (pipe \o <<b>>))
  <2>1. (seen \o (buffer \o pipe)) \o <<b>> = seen \o ((buffer \o pipe) \o <<b>>)
    BY <1>3, Associative, SMTT(20)
  <2>2. (buffer \o pipe) \o <<b>> = buffer \o (pipe \o <<b>>)
    BY <1>3, Associative, SMTT(20)
  <2> QED
    BY <2>1, <2>2
<1>7. written = seen \o (buffer \o pipe)
  BY <1>1 DEF InOrder, seen
<1>8. seen' = seen
  BY <1>1, <1>2 DEF seen
<1>9. InOrder'
  BY <1>1, <1>4, <1>6, <1>7, <1>8 DEF InOrder, seen
<1> QED
  BY <1>5, <1>9 DEF DeviceInv

-----------------------------------------------------------------------------
(* A cycle in which the core does not load is a byte presented, or nothing.  *)
LEMMA EvalPresents ==
  ASSUME DeviceInv, Eval
  PROVE  Bsp!Next \/ UNCHANGED Bsp!vars
<1>1. /\ DeviceTypeOK /\ InOrder
      /\ Device!eval(FALSE) /\ UNCHANGED bspVars
  BY DEF DeviceInv, Eval
<1>2. PICK shown \in AtMostAByte :
        /\ Device!Show(shown, FALSE)
        /\ shown \o (buffer' \o pipe') = Device!Held \o (buffer \o pipe)
        /\ pipe' \in Seq(Byte) /\ buffer' \in Seq(Byte)
        /\ Device!Held = <<>> \/ Device!Held = shown
  BY <1>1, EvalShowsNext
<1>3. delivered' = delivered /\ Device!Held' = shown
  BY <1>1, <1>2, ShownIsTakenOrHeld DEF DeviceTypeOK
<1>4. CASE Device!Held = shown
  BY <1>1, <1>3, <1>4 DEF Bsp!vars, bspVars
<1>5. CASE Device!Held = <<>> /\ shown # <<>>
  <2>1. PICK b \in Byte : shown = <<b>>
    BY <1>5 DEF AtMostAByte
  <2>2. delivered \in Seq(Byte) /\ b \in Byte /\ shown \in Seq(Byte)
    BY <1>1, BytesAreSeqs DEF DeviceTypeOK
  <2>3. delivered \o <<>> = delivered
    BY <2>2, ConcatEmptySeq
  <2>4. delivered' \o Device!Held' = Append(delivered \o Device!Held, b)
    BY <1>3, <1>5, <2>1, <2>2, <2>3, AppendIsConcat
  <2>5. Len(delivered \o Device!Held) < MaxBytes
    <3>1. /\ written = delivered \o (shown \o (buffer' \o pipe'))
          /\ buffer' \o pipe' \in Seq(Byte)
      <4>1. /\ Device!Held \in Seq(Byte) /\ buffer \o pipe \in Seq(Byte)
        BY <1>1, HeldIsAByte, BytesAreSeqs, Concat DEF DeviceTypeOK
      <4>2. (delivered \o Device!Held) \o (buffer \o pipe)
              = delivered \o (Device!Held \o (buffer \o pipe))
        BY <2>2, <4>1, Associative, Zenon
      <4>3. buffer' \o pipe' \in Seq(Byte)
        BY <1>2, Concat, Zenon
      <4> QED
        BY <1>1, <1>2, <4>2, <4>3 DEF InOrder
    <3> DEFINE rest == buffer' \o pipe'
    <3>2. rest \in Seq(Byte) /\ written = delivered \o (shown \o rest)
      BY <3>1
    <3> HIDE DEF rest
    <3>3. shown \o rest \in Seq(Byte) /\ Len(shown \o rest) = Len(shown) + Len(rest)
      BY <2>2, <3>2, Concat, Zenon
    <3>4. Len(written) = Len(delivered) + Len(shown \o rest)
      BY <2>2, <3>2, <3>3, Concat, Zenon
    <3>5. Len(shown) = 1 /\ Len(rest) \in Nat /\ Len(delivered) \in Nat
      BY <2>1, <2>2, <3>2
    <3>6. Len(written) <= MaxBytes /\ MaxBytes \in Nat
      BY <1>1, PathAssumption DEF DeviceTypeOK
    <3> QED
      BY <1>5, <2>3, <3>3, <3>4, <3>5, <3>6
  <2>6. Bsp!DevPresent(b)
    BY <1>1, <1>3, <1>5, <2>1, <2>4, <2>5
       DEF Bsp!DevPresent, Bsp!ringVars, Bsp!csrVars, bspVars
  <2> QED
    BY <2>6 DEF Bsp!Next
<1> QED
  BY <1>2, <1>4, <1>5

(* The load takes what the device holds, and the device holds a byte as long *)
(* as the ISR has seen the interrupt and not loaded yet.                     *)
LEMMA LoadTakes ==
  ASSUME DeviceInv, BspProofs!IInv, IsrLoad
  PROVE  Bsp!IsrLoad
<1>1. /\ DeviceTypeOK /\ InOrder
      /\ pc = "isr_load"
      /\ Device!eval(TRUE)
      /\ byte' = SubSeq(delivered', Len(delivered) + 1, Len(delivered'))
      /\ pc' = "isr_store"
      /\ UNCHANGED <<received, stdin_buf, stdin_buf_rpos, stdin_buf_wpos, meie,
                     MIE, MPIE, mepc, frames, count, num_read, a0>>
  BY DEF DeviceInv, IsrLoad
<1>2. Device!Held # <<>> /\ ~MIE
  BY <1>1 DEF BspProofs!IInv, BspProofs!NoNestedTrap, BspProofs!HandlerState
<1>3. PICK shown \in AtMostAByte :
        Device!Show(shown, TRUE) /\ (Device!Held = <<>> \/ Device!Held = shown)
  BY <1>1, EvalShowsNext
<1>4. Device!Held = shown
  BY <1>2, <1>3
<1>5. /\ delivered' = delivered \o shown
      /\ Device!Held' = <<>>
      /\ delivered' \in Seq(Byte)
  BY <1>1, <1>3, ShownIsTakenOrHeld DEF DeviceTypeOK
<1>6. delivered \in Seq(Byte) /\ shown \in Seq(Byte)
  BY <1>1, BytesAreSeqs DEF DeviceTypeOK
<1>7. byte' = shown
  <2>1. PICK b \in Byte : shown = <<b>>
    BY <1>2, <1>4 DEF AtMostAByte
  <2>2. /\ Len(delivered) \in Nat
        /\ Len(delivered') = Len(delivered) + 1
        /\ delivered'[Len(delivered) + 1] = b
    BY <1>5, <1>6, <2>1, AppendIsConcat, AppendProperties
  <2> DEFINE n == Len(delivered) + 1
  <2>3. /\ byte' = SubSeq(delivered', n, n)
        /\ n \in 1 .. Len(delivered')
        /\ delivered'[n] = b
    BY <1>1, <2>2
  <2> HIDE DEF n
  <2>4. SubSeq(delivered', n, n) = <<delivered'[n]>>
    BY <1>5, <2>3, OneByte, Zenon
  <2> QED
    BY <2>1, <2>3, <2>4
<1>8. delivered' \o Device!Held' = delivered \o Device!Held
  BY <1>4, <1>5, <1>6, ConcatEmptySeq
<1> QED
  BY <1>1, <1>2, <1>4, <1>5, <1>7, <1>8
     DEF Bsp!IsrLoad, Bsp!InterruptPending, Bsp!ringVars, Bsp!csrVars,
         Bsp!readVars

(* Every step of the path is one of BspStdin or none.                        *)
LEMMA NextBsp ==
  DeviceInv /\ BspProofs!IInv /\ [Next]_vars => [Bsp!Next]_Bsp!vars
<1> SUFFICES ASSUME DeviceInv, BspProofs!IInv, [Next]_vars
             PROVE  Bsp!Next \/ UNCHANGED Bsp!vars
  OBVIOUS
<1>1. ASSUME UNCHANGED <<bspVars, hasStdinByte, currentStdinByte, delivered>>
      PROVE  UNCHANGED Bsp!vars
  BY <1>1 DEF Bsp!vars, bspVars, Device!Held
<1>2. CASE Host \/ ReleaseReset \/ UNCHANGED vars
  <2>1. UNCHANGED <<bspVars, hasStdinByte, currentStdinByte, delivered>>
    BY <1>2 DEF Host, ReleaseReset, vars, deviceVars, Device!HostWrites,
                Device!HostCloses, Device!ReleaseReset, Device!devVars
  <2> QED
    BY <1>1, <2>1
<1>3. CASE Eval
  BY <1>3, EvalPresents
<1>4. CASE IsrLoad
  BY <1>4, LoadTakes DEF Bsp!Next, Bsp!Isr
<1>5. CASE Core
  BY <1>5 DEF Core, Bsp!Next, Bsp!Isr
<1> QED
  BY <1>2, <1>3, <1>4, <1>5 DEF Next

LEMMA NextDevice == DeviceInv /\ [Next]_vars => DeviceInv'
<1> SUFFICES ASSUME DeviceInv, [Next]_vars PROVE DeviceInv'
  OBVIOUS
<1>1. ASSUME NEW b \in Byte, Device!HostWrites(b) PROVE DeviceInv'
  BY <1>1, WriteKeepsInv
<1>2. CASE Device!HostCloses \/ Device!ReleaseReset \/ UNCHANGED deviceVars
  <2>1. UNCHANGED <<pipe, buffer, written, delivered, hasStdinByte,
                    currentStdinByte>>
    BY <1>2 DEF Device!HostCloses, Device!ReleaseReset, Device!devVars,
                Device!hostVars, deviceVars
  <2>2. Device!Held' = Device!Held
    BY <2>1 DEF Device!Held
  <2>3. InOrder'
    BY <2>1, <2>2 DEF DeviceInv, InOrder
  <2>4. DeviceTypeOK'
    BY <2>1, Zenon DEF DeviceInv, DeviceTypeOK
  <2> QED
    BY <2>3, <2>4 DEF DeviceInv
<1>3. ASSUME NEW ready \in BOOLEAN, Device!eval(ready) PROVE DeviceInv'
  BY <1>3, EvalKeepsInv
<1> QED
  BY <1>1, <1>2, <1>3
     DEF Next, Host, ReleaseReset, Eval, IsrLoad, Core, vars

LEMMA InitBsp == Init => DeviceInv /\ BspProofs!IInv /\ Bsp!Init
<1> SUFFICES ASSUME Init PROVE DeviceInv /\ BspProofs!IInv /\ Bsp!Init
  OBVIOUS
<1>1. Device!Init /\ Bsp!Init
  BY DEF Init
<1> QED
  BY <1>1, InitDevice, SameInit, BspAssumes, BspProofs!InitIInv

LEMMA PathInvariant == Spec => [](DeviceInv /\ BspProofs!IInv)
<1>1. DeviceInv /\ BspProofs!IInv /\ [Next]_vars
        => (DeviceInv /\ BspProofs!IInv)'
  BY NextBsp, SameNext, BspInvariant, NextDevice
<1> QED
  BY InitBsp, <1>1, PTL DEF Spec

(* ByteDev is a device as BspStdin takes its to be: however select, the      *)
(* library's buffer, the end of the file and the core's loads interleave, a  *)
(* byte of the host is presented, stays up until the ISR's load, and is gone *)
(* then.  So every theorem about BspStdin holds of the whole path.           *)
THEOREM DeviceIsAsAssumed == Spec => BspImplements
BY InitBsp, NextBsp, PathInvariant, PTL DEF Spec, BspImplements, Bsp!Spec

(* Behind the real device, too, ring, ISR and device are a queue.            *)
THEOREM RingBehindDevice == Spec => BspProofs!ImplementsFifo
BY DeviceIsAsAssumed, SameSpec, BspAssumes, BspProofs!StdinIsFifo, PTL
   DEF BspImplements

-----------------------------------------------------------------------------
(* Between the host's write and the program's read.                          *)
UnderWay == BspProofs!Queue \o buffer \o pipe

Accounted ==
  /\ received \in Seq(Byte)
  /\ written \in Seq(Byte)
  /\ UnderWay \in Seq(Byte)
  /\ written = received \o UnderWay

(* What the host has written is what the program has read and, behind it,    *)
(* what is under way.                                                        *)
LEMMA AllAccounted == DeviceInv /\ BspProofs!IInv => Accounted
<1> SUFFICES ASSUME DeviceInv, BspProofs!IInv PROVE Accounted
  OBVIOUS
<1> DEFINE q == BspProofs!Queue
           sent == delivered \o Device!Held
<1>1. /\ BspProofs!TypeOK /\ BspProofs!NoLossNoReorder
      /\ DeviceTypeOK /\ InOrder
  BY DEF BspProofs!IInv, DeviceInv
<1>2. /\ buffer \in Seq(Byte) /\ pipe \in Seq(Byte) /\ written \in Seq(Byte)
      /\ received \in Seq(Byte) /\ sent \in Seq(Byte)
  BY <1>1 DEF DeviceTypeOK, BspProofs!TypeOK
<1>3. /\ q \in Seq(Byte)
      /\ Len(sent) = Len(received) + Len(q)
      /\ \A i \in 1 .. Len(q) : q[i] = sent[Len(received) + i]
      /\ \A i \in 1 .. Len(received) : received[i] = sent[i]
  BY <1>1, BspAssumes, BspProofs!UnderWay
     DEF BspProofs!QueueIsRest, BspProofs!NoLossNoReorder
<1> HIDE DEF q, sent
<1>4. sent = received \o q
  <2> DEFINE s == received \o q
  <2>1. /\ s \in Seq(Byte)
        /\ Len(s) = Len(received) + Len(q)
        /\ \A i \in 1 .. Len(received) + Len(q) :
             s[i] = IF i <= Len(received) THEN received[i]
                                          ELSE q[i - Len(received)]
    BY <1>2, <1>3, Concat, Zenon
  <2>2. Len(received) \in Nat /\ Len(q) \in Nat
    BY <1>2, <1>3, LenProperties
  <2> HIDE DEF s
  <2>3. ASSUME NEW i \in 1 .. Len(sent)
        PROVE  sent[i] = s[i]
    <3>1. CASE i <= Len(received)
      BY <1>3, <2>1, <2>2, <3>1
    <3>2. CASE ~(i <= Len(received))
      <4>1. /\ i - Len(received) \in 1 .. Len(q)
            /\ Len(received) + (i - Len(received)) = i
        BY <1>3, <2>2, <3>2
      <4> QED
        BY <1>3, <2>1, <3>2, <4>1
    <3> QED
      BY <3>1, <3>2
  <2>4. sent = s
    BY <1>2, <1>3, <2>1, <2>3, SeqEqual
  <2> QED
    BY <2>4 DEF s
<1>5. /\ buffer \o pipe \in Seq(Byte)
      /\ q \o buffer \in Seq(Byte)
      /\ (q \o buffer) \o pipe \in Seq(Byte)
  BY <1>2, <1>3, Concat, Zenon
<1>6. (received \o q) \o (buffer \o pipe) = received \o ((q \o buffer) \o pipe)
  <2>1. (received \o q) \o (buffer \o pipe)
          = received \o (q \o (buffer \o pipe))
    <3>1. received \in Seq(Byte)
      BY <1>2
    <3>2. q \in Seq(Byte)
      BY <1>3
    <3>3. buffer \o pipe \in Seq(Byte)
      BY <1>5
    <3> QED
      BY <3>1, <3>2, <3>3, Associative, Zenon
  <2>2. (q \o buffer) \o pipe = q \o (buffer \o pipe)
    <3>1. q \in Seq(Byte)
      BY <1>3
    <3>2. buffer \in Seq(Byte) /\ pipe \in Seq(Byte)
      BY <1>2
    <3> QED
      BY <3>1, <3>2, Associative, Zenon
  <2> QED
    BY <2>1, <2>2
<1>7. written = sent \o (buffer \o pipe)
  BY <1>1 DEF InOrder, sent
<1> QED
  BY <1>2, <1>4, <1>5, <1>6, <1>7 DEF Accounted, UnderWay, q

LEMMA AllAccountedNext == (DeviceInv /\ BspProofs!IInv)' => Accounted'
BY AllAccounted, PTL

(* A prefix of a sequence determines the rest.                               *)
LEMMA Cancel ==
  \A s, t, u \in Seq(Byte) : s \o t = s \o u => t = u
<1> SUFFICES ASSUME NEW s \in Seq(Byte), NEW t \in Seq(Byte),
                    NEW u \in Seq(Byte), s \o t = s \o u
             PROVE  t = u
  OBVIOUS
<1>1. /\ Len(s \o t) = Len(s) + Len(t)
      /\ \A i \in 1 .. Len(s) + Len(t) :
           (s \o t)[i] = IF i <= Len(s) THEN s[i] ELSE t[i - Len(s)]
      /\ Len(s \o u) = Len(s) + Len(u)
      /\ \A i \in 1 .. Len(s) + Len(u) :
           (s \o u)[i] = IF i <= Len(s) THEN s[i] ELSE u[i - Len(s)]
  BY Concat, Zenon
<1>2. Len(s) \in Nat /\ Len(t) \in Nat /\ Len(u) \in Nat
  BY LenProperties
<1> DEFINE v == s \o t
<1>3. /\ Len(v) = Len(s) + Len(t) /\ Len(v) = Len(s) + Len(u)
      /\ \A i \in 1 .. Len(s) + Len(t) :
           v[i] = IF i <= Len(s) THEN s[i] ELSE t[i - Len(s)]
      /\ \A i \in 1 .. Len(s) + Len(u) :
           v[i] = IF i <= Len(s) THEN s[i] ELSE u[i - Len(s)]
  BY <1>1
<1> HIDE DEF v
<1>4. Len(t) = Len(u)
  BY <1>2, <1>3
<1>5. ASSUME NEW i \in 1 .. Len(t) PROVE t[i] = u[i]
  <2>1. /\ Len(s) + i \in 1 .. Len(s) + Len(t)
        /\ ~(Len(s) + i <= Len(s))
        /\ (Len(s) + i) - Len(s) = i
    BY <1>2
  <2>2. v[Len(s) + i] = t[(Len(s) + i) - Len(s)]
    BY <1>3, <2>1
  <2>3. v[Len(s) + i] = u[(Len(s) + i) - Len(s)]
    BY <1>3, <1>4, <2>1
  <2> QED
    BY <2>1, <2>2, <2>3
<1> QED
  BY <1>4, <1>5, SeqEqual

(* The mapping of StdinPath to the queue.                                    *)
Path == Bsp!RingContents \o byte \o Device!Held \o buffer \o pipe

LEMMA PathIsUnderWay == Path = UnderWay
BY SameRing DEF Path, UnderWay, BspProofs!Queue

LEMMA PathIsUnderWayNext == (Path = UnderWay)'
BY PathIsUnderWay, PTL

LEMMA InitEndToEnd == Init => Fifo!Init
<1> SUFFICES ASSUME Init PROVE Fifo!Init
  OBVIOUS
<1>1. /\ DeviceInv /\ BspProofs!IInv
      /\ received = <<>> /\ written = <<>>
  BY InitBsp DEF Init, Bsp!Init, Device!Init
<1>2. UnderWay \in Seq(Byte) /\ <<>> = <<>> \o UnderWay
  BY <1>1, AllAccounted DEF Accounted
<1>3. UnderWay = <<>>
  BY <1>2, ConcatEmptySeq
<1> QED
  BY <1>1, <1>3, PathIsUnderWay DEF Fifo!Init, Path

LEMMA HeadFirst ==
  \A x \in Byte, s \in Seq(Byte) :
    /\ <<x>> \o s # <<>>
    /\ Head(<<x>> \o s) = x
    /\ Tail(<<x>> \o s) = s
<1> SUFFICES ASSUME NEW x \in Byte, NEW s \in Seq(Byte)
             PROVE  /\ <<x>> \o s # <<>>
                    /\ Head(<<x>> \o s) = x
                    /\ Tail(<<x>> \o s) = s
  OBVIOUS
<1> DEFINE h == <<x>>
           v == h \o s
<1>1. h \in Seq(Byte) /\ Len(h) = 1 /\ h[1] = x
  OBVIOUS
<1> HIDE DEF h
<1>2. /\ v \in Seq(Byte)
      /\ Len(v) = Len(h) + Len(s)
      /\ \A i \in 1 .. Len(h) + Len(s) :
           v[i] = IF i <= Len(h) THEN h[i] ELSE s[i - Len(h)]
  BY <1>1, Concat, Zenon
<1> HIDE DEF v
<1>3. Len(s) \in Nat /\ Len(v) = Len(s) + 1
  BY <1>1, <1>2, LenProperties
<1>4. v # <<>> /\ v[1] = x
  BY <1>1, <1>2, <1>3, EmptySeq
<1>5. /\ Tail(v) \in Seq(Byte)
      /\ Len(Tail(v)) = Len(s)
      /\ \A i \in 1 .. Len(s) : Tail(v)[i] = v[i + 1]
      /\ Head(v) = v[1]
  BY <1>2, <1>3, <1>4, HeadTailProperties
<1>6. ASSUME NEW i \in 1 .. Len(s) PROVE Tail(v)[i] = s[i]
  <2>1. i + 1 \in 1 .. Len(h) + Len(s) /\ ~(i + 1 <= Len(h)) /\ (i + 1) - Len(h) = i
    BY <1>1, <1>3
  <2> QED
    BY <1>2, <1>5, <2>1
<1>7. Tail(v) = s
  BY <1>5, <1>6, SeqEqual
<1> QED
  BY <1>4, <1>5, <1>7 DEF v, h

(* What a step does to the two ends decides what it does between them.       *)
LEMMA NextEndToEnd ==
  /\ DeviceInv /\ BspProofs!IInv /\ (DeviceInv /\ BspProofs!IInv)'
  /\ [Next]_vars
  => [Fifo!Next]_Fifo!vars
<1> SUFFICES ASSUME DeviceInv, BspProofs!IInv, (DeviceInv /\ BspProofs!IInv)',
                    [Next]_vars
             PROVE  Fifo!Next \/ UNCHANGED Fifo!vars
  OBVIOUS
<1>1. /\ received \in Seq(Byte) /\ written \in Seq(Byte)
      /\ UnderWay \in Seq(Byte)
      /\ written = received \o UnderWay
  BY AllAccounted DEF Accounted
<1>2. /\ received' \in Seq(Byte) /\ written' \in Seq(Byte)
      /\ UnderWay' \in Seq(Byte)
      /\ written' = received' \o UnderWay'
  BY AllAccountedNext DEF Accounted
<1>3. Path = UnderWay /\ Path' = UnderWay'
  BY PathIsUnderWay, PathIsUnderWayNext
<1>4. ASSUME UNCHANGED <<received, written>>
      PROVE  UNCHANGED Fifo!vars
  <2>1. UnderWay' = UnderWay
    BY <1>1, <1>2, <1>4, Cancel, Zenon
  <2> QED
    BY <1>3, <1>4, <2>1 DEF Fifo!vars, Path
<1>5. ASSUME NEW b \in Byte, Device!HostWrites(b), UNCHANGED bspVars
      PROVE  Fifo!Put(b)
  <2>1. /\ written' = Append(written, b)
        /\ Len(written) < MaxBytes
        /\ received' = received
    BY <1>5 DEF Device!HostWrites, bspVars
  <2>2. /\ <<b>> \in Seq(Byte)
        /\ written' = written \o <<b>>
        /\ Append(UnderWay, b) = UnderWay \o <<b>>
        /\ UnderWay \o <<b>> \in Seq(Byte)
    BY <1>1, <2>1, AppendIsConcat, AppendProperties
  <2>3. received \o UnderWay' = received \o (UnderWay \o <<b>>)
    <3>1. (received \o UnderWay) \o <<b>> = received \o (UnderWay \o <<b>>)
      BY <1>1, <2>2, Associative, SMTT(20)
    <3>2. received \o UnderWay' = (received \o UnderWay) \o <<b>>
      BY <1>1, <1>2, <2>1, <2>2, Zenon
    <3> QED
      BY <3>1, <3>2
  <2>4. UnderWay' = UnderWay \o <<b>>
    BY <1>1, <1>2, <2>2, <2>3, Cancel, Zenon
  <2>5. Len(UnderWay) < MaxBytes
    <3>1. Len(written) = Len(received) + Len(UnderWay)
      BY <1>1, Concat, Zenon
    <3>2. Len(received) \in Nat /\ Len(UnderWay) \in Nat /\ MaxBytes \in Nat
      BY <1>1, PathAssumption, LenProperties
    <3> QED
      BY <2>1, <3>1, <3>2
  <2> QED
    BY <1>3, <2>1, <2>2, <2>4, <2>5 DEF Fifo!Put, Path
<1>6. ASSUME NEW x \in Byte, received' = Append(received, x), UNCHANGED written
      PROVE  Fifo!Get
  <2>1. /\ <<x>> \in Seq(Byte)
        /\ received' = received \o <<x>>
        /\ <<x>> \o UnderWay' \in Seq(Byte)
    <3>1. <<x>> \in Seq(Byte)
      BY <1>6
    <3> QED
      BY <1>1, <1>2, <1>6, <3>1, AppendIsConcat, ConcatProperties
  <2>2. received \o UnderWay = received \o (<<x>> \o UnderWay')
    <3>1. (received \o <<x>>) \o UnderWay' = received \o (<<x>> \o UnderWay')
      <4>1. /\ received \in Seq(Byte)
            /\ <<x>> \in Seq(Byte)
            /\ UnderWay' \in Seq(Byte)
        BY <1>1, <1>2, <2>1
      <4> QED
        BY <4>1, Associative, Zenon
    <3>2. received \o UnderWay = (received \o <<x>>) \o UnderWay'
      BY <1>1, <1>2, <1>6, <2>1, Zenon
    <3> QED
      BY <3>1, <3>2
  <2>3. UnderWay = <<x>> \o UnderWay'
    BY <1>1, <1>2, <2>1, <2>2, Cancel, Zenon
  <2>4. /\ UnderWay # <<>>
        /\ Head(UnderWay) = x
        /\ Tail(UnderWay) = UnderWay'
    BY <1>2, <1>6, <2>3, HeadFirst, Zenon
  <2> QED
    BY <1>3, <1>6, <2>4 DEF Fifo!Get, Path
<1>7. CASE Host
  <2>1. CASE Device!HostCloses
    <3>1. UNCHANGED <<received, written>>
      BY <1>7, <2>1 DEF Host, Device!HostCloses, bspVars
    <3> QED
      BY <1>4, <3>1
  <2> QED
    BY <1>5, <1>7, <2>1 DEF Host, Fifo!Next
<1>8. CASE ReleaseReset \/ Eval \/ IsrLoad \/ UNCHANGED vars
  <2>1. UNCHANGED <<received, written>>
    BY <1>8 DEF ReleaseReset, Eval, IsrLoad, vars, deviceVars, bspVars,
                Device!ReleaseReset, Device!eval, Device!hostVars
  <2> QED
    BY <1>4, <2>1
<1>9. CASE Core
  <2>1. UNCHANGED written
    BY <1>9 DEF Core, deviceVars
  <2>2. CASE Bsp!ReadByte
    <3>1. stdin_buf[stdin_buf_rpos] \in Byte
      BY DEF BspProofs!IInv, BspProofs!TypeOK
    <3>2. received' = Append(received, stdin_buf[stdin_buf_rpos])
      BY <2>2 DEF Bsp!ReadByte
    <3> QED
      BY <1>6, <2>1, <3>1, <3>2 DEF Fifo!Next
  <2>3. ASSUME ~Bsp!ReadByte PROVE UNCHANGED received
    BY <1>9, <2>3
       DEF Core, Bsp!TakeInterrupt, Bsp!IsrCheck, Bsp!IsrStore, Bsp!TrapReturn,
           Bsp!SysRead, Bsp!ReadDone, Bsp!Program, Bsp!init_stdin,
           Bsp!enable_interrupts, Bsp!disable_interrupts, Bsp!EcallRead,
           Bsp!readVars
  <2> QED
    BY <1>4, <2>1, <2>2, <2>3
<1> QED
  BY <1>7, <1>8, <1>9 DEF Next

(* From the host's write to the program's read there is one queue: ring, ISR,*)
(* device, library buffer and pipe together lose, duplicate and reorder      *)
(* nothing, for every size of each of them.                                  *)
THEOREM PathIsFifo == Spec => EndToEnd
BY InitEndToEnd, NextEndToEnd, PathInvariant, PTL
   DEF Spec, EndToEnd, Fifo!Spec

(* What the library holds back stays there, whatever core and program do,    *)
(* until the host writes again or closes its end.                            *)
THEOREM LinesWait == Spec => LineWaits
<1>1. [Next]_vars => [Waiting => Waiting' \/ pipe' # pipe \/ closed']_vars
  <2> SUFFICES ASSUME [Next]_vars, Waiting
               PROVE  Waiting' \/ pipe' # pipe \/ closed'
    OBVIOUS
  <2>1. buffer # <<>> /\ pipe = <<>> /\ ~closed /\ ~hasStdinByte
    BY DEF Waiting
  <2>2. CASE UNCHANGED <<buffer, pipe, closed, hasStdinByte>>
    BY <2>2 DEF Waiting
  <2>3. ASSUME NEW b \in Byte, Device!HostWrites(b)
        PROVE  pipe' # pipe
    BY <2>1, <2>3 DEF Device!HostWrites
  <2>4. ASSUME Device!HostCloses PROVE closed'
    BY <2>4 DEF Device!HostCloses
  <2>5. ASSUME NEW ready \in BOOLEAN, Device!eval(ready) PROVE Waiting'
    <3>1. Device!Show(Device!Held, ready) /\ UNCHANGED <<pipe, buffer, closed>>
      BY <2>1, <2>5 DEF Device!eval, Device!stdinAvailable
    <3>2. Device!Held = <<>>
      BY <2>1 DEF Device!Held
    <3>3. ~hasStdinByte'
      BY <3>1, <3>2, Zenon DEF Device!Show
    <3> QED
      BY <2>1, <3>1, <3>3 DEF Waiting
  <2>6. ReleaseReset \/ Core \/ UNCHANGED vars
          => UNCHANGED <<buffer, pipe, closed, hasStdinByte>>
    BY DEF ReleaseReset, Device!ReleaseReset, Device!hostVars, Device!devVars,
           Core, deviceVars, vars
  <2> QED
    BY <2>2, <2>3, <2>4, <2>5, <2>6 DEF Next, Host, Eval, IsrLoad
<1> QED
  BY <1>1, PTL DEF Spec, LineWaits
=============================================================================
