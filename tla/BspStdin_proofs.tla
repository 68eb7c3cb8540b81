--------------------------- MODULE BspStdin_proofs ---------------------------
(***************************************************************************)
(* Proofs about BspStdin for every buffer size, set of bytes and bound.     *)
(***************************************************************************)
EXTENDS BspStdin, SequenceTheorems, TLAPS

(* The inductive invariant: that no byte is lost rests on the slot the ISR   *)
(* fills being free when it stores (HandlerState), which rests on sys_read   *)
(* and the ISR never interrupting each other (NoNestedTrap).                 *)
IInv == TypeOK /\ NoNestedTrap /\ HandlerState /\ NoLossNoReorder

(* stdin_buf_next_pos advances one slot and wraps after the last one.        *)
LEMMA NextPos ==
  ASSUME NEW pos \in Slot
  PROVE  /\ stdin_buf_next_pos(pos) \in Slot
         /\ stdin_buf_next_pos(pos) =
              IF pos = STDIN_BUF_SIZE - 1 THEN 0 ELSE pos + 1
BY StdinAssumption, SMT DEF Slot, stdin_buf_next_pos

(* Storing a byte adds one to the ring and leaves the slots of the others.   *)
LEMMA CountAfterStore ==
  ASSUME TypeOK, ~stdin_buf_is_full, UNCHANGED stdin_buf_rpos,
         stdin_buf_wpos' = stdin_buf_next_pos(stdin_buf_wpos)
  PROVE  /\ Count \in Nat
         /\ Count' = Count + 1
         /\ Wrap(stdin_buf_rpos + Count) = stdin_buf_wpos
         /\ \A i \in 0 .. Count - 1 :
              /\ Wrap(stdin_buf_rpos + i) \in Slot
              /\ Wrap(stdin_buf_rpos + i) # stdin_buf_wpos
<1>1. /\ stdin_buf_rpos \in Slot
      /\ stdin_buf_wpos \in Slot
  BY DEF TypeOK
<1>2. /\ stdin_buf_wpos' =
           IF stdin_buf_wpos = STDIN_BUF_SIZE - 1 THEN 0 ELSE stdin_buf_wpos + 1
      /\ stdin_buf_wpos' # stdin_buf_rpos
  BY <1>1, NextPos DEF stdin_buf_is_full
<1> QED
  BY <1>1, <1>2, StdinAssumption DEF Slot, Count, Wrap

(* Reading a byte takes the oldest one and renumbers the others.             *)
LEMMA CountAfterRead ==
  ASSUME TypeOK, ~stdin_buf_is_empty, UNCHANGED stdin_buf_wpos,
         stdin_buf_rpos' = stdin_buf_next_pos(stdin_buf_rpos)
  PROVE  /\ Count \in Nat \ {0}
         /\ Count' = Count - 1
         /\ Wrap(stdin_buf_rpos) = stdin_buf_rpos
         /\ \A i \in 0 .. Count - 2 :
              Wrap(stdin_buf_rpos' + i) = Wrap(stdin_buf_rpos + (i + 1))
<1>1. /\ stdin_buf_rpos \in Slot
      /\ stdin_buf_wpos \in Slot
  BY DEF TypeOK
<1>2. /\ stdin_buf_rpos' =
           IF stdin_buf_rpos = STDIN_BUF_SIZE - 1 THEN 0 ELSE stdin_buf_rpos + 1
      /\ stdin_buf_wpos # stdin_buf_rpos
  BY <1>1, NextPos DEF stdin_buf_is_empty
<1> QED
  BY <1>1, <1>2, StdinAssumption DEF Slot, Count, Wrap

(* The number of bytes in the ring is a number.                              *)
LEMMA CountType ==
  ASSUME TypeOK
  PROVE  Count \in Nat
BY StdinAssumption DEF TypeOK, Slot, Count

(* A sequence with at most one element.                                      *)
LEMMA AtMostOne ==
  ASSUME NEW S, NEW s \in Seq(S), Len(s) <= 1
  PROVE  /\ s = <<>> => Len(s) = 0
         /\ s # <<>> => Len(s) = 1 /\ Head(s) = s[1] /\ s[1] \in S
BY EmptySeq

LEMMA InitIInv == Init => IInv
<1> SUFFICES ASSUME Init PROVE IInv
  OBVIOUS
<1>1. TypeOK
  <2>1. stdin_buf \in [Slot -> Byte]
    BY StdinAssumption DEF Init
  <2>2. stdin_buf_rpos \in Slot /\ stdin_buf_wpos \in Slot
    BY StdinAssumption DEF Init, Slot
  <2>3. meie \in BOOLEAN /\ MIE \in BOOLEAN /\ MPIE \in BOOLEAN
    BY Zenon DEF Init
  <2> QED
    BY <2>1, <2>2, <2>3 DEF Init, TypeOK, Pc
<1>2. NoNestedTrap /\ HandlerState
  BY DEF Init, NoNestedTrap, HandlerState
<1>3. NoLossNoReorder
  BY StdinAssumption DEF Init, NoLossNoReorder, Count, Wrap
<1> QED
  BY <1>1, <1>2, <1>3 DEF IInv

LEMMA TypeStep == IInv /\ [Next]_vars => TypeOK'
<1> SUFFICES ASSUME TypeOK, NoNestedTrap, HandlerState, [Next]_vars
             PROVE  TypeOK'
  BY DEF IInv
<1> USE DEF TypeOK, Pc
<1>1. ASSUME NEW b \in Byte, DevPresent(b)
      PROVE  TypeOK'
  BY <1>1 DEF DevPresent, ringVars, csrVars
<1>2. CASE TakeInterrupt
  <2>1. frames = 0 /\ pc \in {"boot", "main"}
    BY <1>2 DEF TakeInterrupt, InterruptPending, NoNestedTrap
  <2>2. MIE' \in BOOLEAN /\ MPIE' \in BOOLEAN
    BY <1>2, Zenon DEF TakeInterrupt, EnterTrap
  <2> QED
    BY <1>2, <2>1, <2>2 DEF TakeInterrupt, EnterTrap, devVars, ringVars, readVars
<1>3. CASE TrapReturn
  BY <1>3 DEF TrapReturn, NoNestedTrap, devVars, ringVars, readVars
<1>4. CASE IsrCheck
  BY <1>4 DEF IsrCheck, devVars, ringVars, csrVars, readVars
<1>5. CASE IsrLoad
  BY <1>5 DEF IsrLoad, ringVars, csrVars, readVars
<1>6. CASE IsrStore
  <2>1. Head(byte) \in Byte
    BY <1>6 DEF IsrStore, HandlerState
  <2>2. stdin_buf_wpos' \in Slot
    BY <1>6, NextPos DEF IsrStore
  <2> QED
    BY <1>6, <2>1, <2>2 DEF IsrStore, devVars, csrVars, readVars
<1>7. CASE ReadByte
  <2>1. stdin_buf[stdin_buf_rpos] \in Byte
    BY DEF Slot
  <2>2. stdin_buf_rpos' \in Slot
    BY <1>7, NextPos DEF ReadByte
  <2> QED
    BY <1>7, <2>1, <2>2 DEF ReadByte, devVars, csrVars
<1>8. CASE ReadDone
  BY <1>8 DEF ReadDone, devVars, ringVars, csrVars
<1>9. CASE init_stdin
  BY <1>9 DEF init_stdin, devVars, ringVars, readVars
<1>10. CASE enable_interrupts
  BY <1>10 DEF enable_interrupts, devVars, ringVars, readVars
<1>11. CASE disable_interrupts
  BY <1>11 DEF disable_interrupts, devVars, ringVars, readVars
<1>12. ASSUME NEW fd \in {STDIN_FILENO, STDOUT_FILENO}, NEW n \in 0 .. MaxCount,
              EcallRead(fd, n)
       PROVE  TypeOK'
  <2>1. frames = 0
    BY <1>12 DEF EcallRead, ProgramRuns, NoNestedTrap
  <2>2. MIE' \in BOOLEAN /\ MPIE' \in BOOLEAN
    BY <1>12, Zenon DEF EcallRead, EnterTrap
  <2>3. count' \in Nat /\ num_read' \in Nat /\ a0' \in Int
    BY <1>12, StdinAssumption DEF EcallRead, EBADF, EAGAIN
  <2>4. /\ pc' \in {"sys_read", "trap_return"}
        /\ mepc' = "main"
        /\ frames' = frames + 1
    BY <1>12 DEF EcallRead, EnterTrap
  <2> QED
    BY <1>12, <2>1, <2>2, <2>3, <2>4 DEF EcallRead, devVars, ringVars
<1>13. CASE UNCHANGED vars
  BY <1>13 DEF vars
<1> HIDE DEF TypeOK
<1> QED
  BY <1>1, <1>2, <1>3, <1>4, <1>5, <1>6, <1>7, <1>8, <1>9, <1>10, <1>11,
     <1>12, <1>13 DEF Next, Isr, SysRead, Program

LEMMA ControlStep == IInv /\ [Next]_vars => NoNestedTrap' /\ HandlerState'
<1> SUFFICES ASSUME TypeOK, NoNestedTrap, HandlerState, [Next]_vars
             PROVE  NoNestedTrap' /\ HandlerState'
  BY DEF IInv
<1> USE DEF NoNestedTrap, HandlerState
<1>1. ASSUME NEW b \in Byte, DevPresent(b)
      PROVE  NoNestedTrap' /\ HandlerState'
  BY <1>1 DEF DevPresent, ringVars, csrVars, stdin_buf_is_full
<1>2. CASE TakeInterrupt
  <2>1. /\ frames = 0
        /\ pc = "main"
        /\ dev # <<>>
    BY <1>2 DEF TakeInterrupt, InterruptPending, TypeOK, Pc
  <2> QED
    BY <1>2, <2>1 DEF TakeInterrupt, EnterTrap, devVars, ringVars
<1>3. CASE TrapReturn
  BY <1>3 DEF TrapReturn, TypeOK, devVars, ringVars
<1>4. CASE IsrCheck
  BY <1>4 DEF IsrCheck, devVars, ringVars, csrVars, stdin_buf_is_full
<1>5. CASE IsrLoad
  BY <1>5 DEF IsrLoad, ringVars, csrVars, stdin_buf_is_full
<1>6. CASE IsrStore
  BY <1>6 DEF IsrStore, devVars, csrVars
<1>7. CASE ReadByte
  BY <1>7 DEF ReadByte, devVars, csrVars
<1>8. CASE ReadDone
  BY <1>8 DEF ReadDone, devVars, ringVars, csrVars
<1>9. CASE init_stdin
  BY <1>9 DEF init_stdin, devVars, ringVars, readVars
<1>10. CASE enable_interrupts
  BY <1>10 DEF enable_interrupts, ProgramRuns, devVars, ringVars
<1>11. CASE disable_interrupts
  BY <1>11 DEF disable_interrupts, ProgramRuns, devVars, ringVars
<1>12. ASSUME NEW fd \in {STDIN_FILENO, STDOUT_FILENO}, NEW n \in 0 .. MaxCount,
              EcallRead(fd, n)
       PROVE  NoNestedTrap' /\ HandlerState'
  <2>1. /\ pc' \in {"sys_read", "trap_return"}
        /\ mepc' = "main"
        /\ frames' = 1
        /\ ~MIE'
    BY <1>12 DEF EcallRead, ProgramRuns, EnterTrap
  <2> QED
    BY <1>12, <2>1 DEF EcallRead, ProgramRuns, devVars, ringVars
<1>13. CASE UNCHANGED vars
  BY <1>13 DEF vars, stdin_buf_is_full
<1> HIDE DEF NoNestedTrap, HandlerState
<1> QED
  BY <1>1, <1>2, <1>3, <1>4, <1>5, <1>6, <1>7, <1>8, <1>9, <1>10, <1>11,
     <1>12, <1>13 DEF Next, Isr, SysRead, Program

(* A step that leaves the path's data alone keeps the bytes in order.        *)
LEMMA DataUnchanged ==
  ASSUME NoLossNoReorder, UNCHANGED <<sent, received, dev, byte, ringVars>>
  PROVE  NoLossNoReorder'
BY DEF NoLossNoReorder, Count, Wrap, ringVars

LEMMA DataStep == IInv /\ [Next]_vars => NoLossNoReorder'
<1> SUFFICES ASSUME TypeOK, NoNestedTrap, HandlerState, NoLossNoReorder,
                    [Next]_vars
             PROVE  NoLossNoReorder'
  BY DEF IInv
<1> USE DEF NoLossNoReorder
<1>1. ASSUME NEW b \in Byte, DevPresent(b)
      PROVE  NoLossNoReorder'
  <2>1. /\ sent' = Append(sent, b)
        /\ dev = <<>> /\ dev' = <<b>>
        /\ UNCHANGED <<received, byte, ringVars>>
    BY <1>1 DEF DevPresent
  <2>2. Count \in Nat /\ Count' = Count
    BY <2>1, CountType DEF Count, ringVars
  <2>3. /\ Len(sent') = Len(sent) + 1
        /\ \A i \in 1 .. Len(sent) : sent'[i] = sent[i]
        /\ sent'[Len(sent')] = b
        /\ Len(sent) \in Nat /\ Len(received) \in Nat
        /\ Len(byte) \in {0, 1} /\ (byte # <<>> => Len(byte) = 1)
        /\ Len(dev) = 0 /\ Len(dev') = 1 /\ dev'[1] = b
    BY <2>1 DEF TypeOK
  <2>4. Len(sent') = Len(received') + Count' + Len(byte') + Len(dev')
    BY <2>1, <2>2, <2>3
  <2>5. \A i \in 1 .. Len(received') : received'[i] = sent'[i]
    BY <2>1, <2>2, <2>3
  <2>6. ASSUME NEW i \in 0 .. Count' - 1
        PROVE  stdin_buf'[Wrap(stdin_buf_rpos' + i)]
                 = sent'[Len(received') + i + 1]
    <3>1. i \in 0 .. Count - 1 /\ Len(received) + i + 1 \in 1 .. Len(sent)
      BY <2>2, <2>3, SMTT(20)
    <3> QED
      BY <3>1, <2>1, <2>3 DEF ringVars
  <2>7. byte' # <<>> => byte'[1] = sent'[Len(received') + Count' + 1]
    BY <2>1, <2>2, <2>3
  <2> QED
    BY <2>3, <2>4, <2>5, <2>6, <2>7
<1>2. CASE IsrLoad
  <2>1. /\ byte' = dev /\ byte = <<>> /\ dev # <<>> /\ dev' = <<>>
        /\ UNCHANGED <<sent, received, ringVars>>
    BY <1>2 DEF IsrLoad, HandlerState, readVars
  <2>2. Count \in Nat /\ Count' = Count
    BY <2>1, CountType DEF Count, ringVars
  <2>3. Len(byte) = 0 /\ Len(dev) = 1 /\ Len(dev') = 0 /\ Len(byte') = 1
    BY <2>1, AtMostOne DEF TypeOK
  <2>4. Len(sent') = Len(received') + Count' + Len(byte') + Len(dev')
    BY <2>1, <2>2, <2>3 DEF TypeOK
  <2>5. /\ \A i \in 1 .. Len(received') : received'[i] = sent'[i]
        /\ \A i \in 0 .. Count' - 1 :
             stdin_buf'[Wrap(stdin_buf_rpos' + i)] = sent'[Len(received') + i + 1]
    BY <2>1, <2>2 DEF ringVars
  <2>6. byte'[1] = sent'[Len(received') + Count' + 1]
    BY <2>1, <2>2, <2>3 DEF TypeOK
  <2> QED
    BY <2>1, <2>4, <2>5, <2>6
<1>3. CASE IsrStore
  <2>1. /\ stdin_buf' = [stdin_buf EXCEPT ![stdin_buf_wpos] = Head(byte)]
        /\ stdin_buf_wpos' = stdin_buf_next_pos(stdin_buf_wpos)
        /\ byte # <<>> /\ byte' = <<>> /\ ~stdin_buf_is_full
        /\ UNCHANGED <<sent, received, dev, stdin_buf_rpos>>
    BY <1>3 DEF IsrStore, HandlerState, devVars, readVars
  <2>2. /\ Count \in Nat /\ Count' = Count + 1
        /\ Wrap(stdin_buf_rpos + Count) = stdin_buf_wpos
        /\ \A i \in 0 .. Count - 1 :
             /\ Wrap(stdin_buf_rpos + i) \in Slot
             /\ Wrap(stdin_buf_rpos + i) # stdin_buf_wpos
    BY <2>1, CountAfterStore
  <2>3. Len(byte) = 1 /\ Len(byte') = 0 /\ Head(byte) = byte[1]
    BY <2>1, AtMostOne DEF TypeOK
  <2>4. Len(sent') = Len(received') + Count' + Len(byte') + Len(dev')
    BY <2>1, <2>2, <2>3 DEF TypeOK
  <2>5. stdin_buf'[stdin_buf_wpos] = sent[Len(received) + Count + 1]
    BY <2>1, <2>3 DEF TypeOK
  <2>6. ASSUME NEW i \in 0 .. Count' - 1
        PROVE  stdin_buf'[Wrap(stdin_buf_rpos' + i)]
                 = sent'[Len(received') + i + 1]
    <3>1. CASE i = Count
      BY <3>1, <2>1, <2>2, <2>5
    <3>2. CASE i # Count
      <4>1. i \in 0 .. Count - 1
        BY <3>2, <2>2
      <4>2. stdin_buf'[Wrap(stdin_buf_rpos + i)]
              = stdin_buf[Wrap(stdin_buf_rpos + i)]
        BY <4>1, <2>1, <2>2 DEF TypeOK
      <4> QED
        BY <4>1, <4>2, <2>1
    <3> QED
      BY <3>1, <3>2
  <2> QED
    BY <2>1, <2>4, <2>6
<1>4. CASE ReadByte
  <2>1. /\ received' = Append(received, stdin_buf[stdin_buf_rpos])
        /\ stdin_buf_rpos' = stdin_buf_next_pos(stdin_buf_rpos)
        /\ ~stdin_buf_is_empty /\ byte = <<>>
        /\ UNCHANGED <<sent, dev, byte, stdin_buf, stdin_buf_wpos>>
    BY <1>4 DEF ReadByte, HandlerState, devVars
  <2>2. /\ Count \in Nat \ {0} /\ Count' = Count - 1
        /\ Wrap(stdin_buf_rpos) = stdin_buf_rpos
        /\ \A i \in 0 .. Count - 2 :
             Wrap(stdin_buf_rpos' + i) = Wrap(stdin_buf_rpos + (i + 1))
    BY <2>1, CountAfterRead
  <2>3. /\ Len(received') = Len(received) + 1 /\ Len(received) \in Nat
        /\ \A i \in 1 .. Len(received) : received'[i] = received[i]
        /\ received'[Len(received) + 1] = stdin_buf[stdin_buf_rpos]
    BY <2>1 DEF TypeOK
  <2>4. Len(sent') = Len(received') + Count' + Len(byte') + Len(dev')
    <3>1. /\ Len(byte) \in Nat /\ Len(dev) \in Nat
          /\ Len(sent) = Len(received) + Count + Len(byte) + Len(dev)
      BY DEF TypeOK
    <3>2. Len(sent') = Len(sent) /\ Len(byte') = Len(byte) /\ Len(dev') = Len(dev)
      BY <2>1
    <3> HIDE DEF NoLossNoReorder
    <3> QED
      BY <3>1, <3>2, <2>2, <2>3
  <2>5. stdin_buf[stdin_buf_rpos] = sent[Len(received) + 1]
    <3>1. /\ 0 \in 0 .. Count - 1
          /\ stdin_buf_rpos + 0 = stdin_buf_rpos
          /\ Len(received) + 0 + 1 = Len(received) + 1
      BY <2>2, <2>3 DEF TypeOK, Slot
    <3> QED
      BY <3>1, <2>2
  <2>6. \A i \in 1 .. Len(received') : received'[i] = sent'[i]
    BY <2>1, <2>3, <2>5
  <2>7. ASSUME NEW i \in 0 .. Count' - 1
        PROVE  stdin_buf'[Wrap(stdin_buf_rpos' + i)]
                 = sent'[Len(received') + i + 1]
    <3>1. /\ i \in 0 .. Count - 2
          /\ i + 1 \in 0 .. Count - 1
          /\ Len(received') + i + 1 = Len(received) + (i + 1) + 1
      BY <2>2, <2>3
    <3>2. stdin_buf[Wrap(stdin_buf_rpos + (i + 1))]
            = sent[Len(received) + (i + 1) + 1]
      BY <3>1
    <3> QED
      BY <3>1, <3>2, <2>1, <2>2
  <2> QED
    BY <2>1, <2>4, <2>6, <2>7
<1> HIDE DEF NoLossNoReorder
<1>5. ASSUME \/ TakeInterrupt \/ TrapReturn \/ IsrCheck \/ ReadDone
             \/ init_stdin \/ enable_interrupts \/ disable_interrupts
             \/ UNCHANGED vars
             \/ \E fd \in {STDIN_FILENO, STDOUT_FILENO}, n \in 0 .. MaxCount :
                  EcallRead(fd, n)
      PROVE  NoLossNoReorder'
  <2>1. UNCHANGED <<sent, received, dev, byte, ringVars>>
    BY <1>5 DEF TakeInterrupt, TrapReturn, IsrCheck, ReadDone, init_stdin,
                enable_interrupts, disable_interrupts, EcallRead, vars,
                devVars, readVars, ringVars
  <2> QED
    BY <2>1, DataUnchanged
<1> QED
  BY <1>1, <1>2, <1>3, <1>4, <1>5 DEF Next, Isr, SysRead, Program

(* The type invariant, for every buffer size.                                *)
THEOREM TypeCorrect == Spec => []TypeOK
<1>1. IInv /\ [Next]_vars => IInv'
  BY TypeStep, ControlStep, DataStep DEF IInv
<1>2. IInv => TypeOK
  BY DEF IInv
<1> QED
  BY InitIInv, <1>1, <1>2, PTL DEF Spec

(* Trap code is never interrupted, so that one mepc is enough although       *)
(* _trap_handler does not save it.                                           *)
THEOREM TrapsDoNotNest == Spec => []NoNestedTrap
<1>1. IInv /\ [Next]_vars => IInv'
  BY TypeStep, ControlStep, DataStep DEF IInv
<1>2. IInv => NoNestedTrap
  BY DEF IInv
<1> QED
  BY InitIInv, <1>1, <1>2, PTL DEF Spec

(* Whatever the interleaving of device, ISR and reader, the bytes sent are   *)
(* those received followed by those under way, in order.                     *)
THEOREM BytesInOrder == Spec => []NoLossNoReorder
<1>1. IInv /\ [Next]_vars => IInv'
  BY TypeStep, ControlStep, DataStep DEF IInv
<1>2. IInv => NoLossNoReorder
  BY DEF IInv
<1> QED
  BY InitIInv, <1>1, <1>2, PTL DEF Spec

(* In a storm only the trap can move: it is entered, finds the ring full and *)
(* returns to the instruction it came from.                                  *)
LEMMA StormStep ==
  IInv /\ Storm /\ [Next]_vars => Storm' /\ UNCHANGED <<received, a0>>
<1> SUFFICES ASSUME TypeOK, NoNestedTrap, Storm, [Next]_vars
             PROVE  Storm' /\ UNCHANGED <<received, a0>>
  BY DEF IInv
<1> USE DEF Storm, stdin_buf_is_full, InterruptPending
<1>1. CASE \E b \in Byte : DevPresent(b)
  BY <1>1 DEF DevPresent
<1>2. CASE TakeInterrupt
  BY <1>2 DEF TakeInterrupt, EnterTrap, NoNestedTrap, devVars, ringVars, readVars
<1>3. CASE TrapReturn
  <2>1. mepc = "main"
    BY <1>3 DEF TrapReturn, NoNestedTrap
  <2> QED
    BY <1>3, <2>1 DEF TrapReturn, devVars, ringVars, readVars
<1>4. CASE IsrCheck
  BY <1>4 DEF IsrCheck, devVars, ringVars, csrVars, readVars
<1>5. CASE IsrLoad \/ IsrStore \/ ReadByte \/ ReadDone \/ init_stdin
  BY <1>5 DEF IsrLoad, IsrStore, ReadByte, ReadDone, init_stdin
<1>6. CASE \/ enable_interrupts \/ disable_interrupts
           \/ \E fd \in {STDIN_FILENO, STDOUT_FILENO}, n \in 0 .. MaxCount :
                EcallRead(fd, n)
  BY <1>6 DEF enable_interrupts, disable_interrupts, EcallRead, ProgramRuns
<1>7. CASE UNCHANGED vars
  BY <1>7 DEF vars
<1> QED
  BY <1>1, <1>2, <1>3, <1>4, <1>5, <1>6, <1>7 DEF Next, Isr, SysRead, Program

(* Once the ring is full, the device holds a byte and interrupts are on,     *)
(* neither the program nor sys_read executes again, whatever the ring's size.*)
THEOREM StormsLast == Spec => StormNeverEnds
<1>1. IInv /\ [Next]_vars => IInv'
  BY TypeStep, ControlStep, DataStep DEF IInv
<1>2. IInv /\ [Next]_vars => [Storm => Storm' /\ UNCHANGED <<received, a0>>]_vars
  BY StormStep
<1> QED
  BY InitIInv, <1>1, <1>2, PTL DEF Spec, StormNeverEnds

(* sys_read enters its loop with a byte in the ring, and keeps count of what *)
(* it takes out.                                                             *)
ReadHasByte == pc = "sys_read" => ~stdin_buf_is_empty \/ num_read > 0

LEMMA ReadStep == IInv /\ ReadHasByte /\ [Next]_vars => ReadHasByte'
<1> SUFFICES ASSUME TypeOK, NoNestedTrap, ReadHasByte, [Next]_vars, pc' = "sys_read"
             PROVE  ~stdin_buf_is_empty' \/ num_read' > 0
  BY DEF IInv, ReadHasByte
<1> USE DEF ReadHasByte, stdin_buf_is_empty
<1>1. CASE \E b \in Byte : DevPresent(b)
  BY <1>1 DEF DevPresent, ringVars
<1>2. CASE ReadByte
  BY <1>2 DEF ReadByte, TypeOK
<1>3. CASE \E fd \in {STDIN_FILENO, STDOUT_FILENO}, n \in 0 .. MaxCount :
             EcallRead(fd, n)
  BY <1>3 DEF EcallRead, EnterTrap, ringVars
<1>4. CASE TrapReturn
  BY <1>4 DEF TrapReturn, NoNestedTrap
<1>5. CASE \/ TakeInterrupt \/ IsrCheck \/ IsrLoad \/ IsrStore \/ ReadDone
           \/ init_stdin \/ enable_interrupts \/ disable_interrupts
  BY <1>5 DEF TakeInterrupt, EnterTrap, IsrCheck, IsrLoad, IsrStore, ReadDone,
              init_stdin, enable_interrupts, disable_interrupts, ProgramRuns
<1>6. CASE UNCHANGED vars
  BY <1>6 DEF vars
<1> QED
  BY <1>1, <1>2, <1>3, <1>4, <1>5, <1>6 DEF Next, Isr, SysRead, Program

(* sys_read leaves its loop with the result ReadDone gives it.               *)
LEMMA ReadResult ==
  IInv /\ ReadHasByte /\ [Next]_vars =>
    (pc = "sys_read" /\ pc' # "sys_read" =>
       /\ count > 0 => a0' > 0
       /\ a0' < count => stdin_buf_is_empty)
<1> SUFFICES ASSUME TypeOK, NoNestedTrap, ReadHasByte, [Next]_vars,
                    pc = "sys_read", pc' # "sys_read"
             PROVE  /\ count > 0 => a0' > 0
                    /\ a0' < count => stdin_buf_is_empty
  BY DEF IInv
<1>1. ReadDone
  BY DEF NoNestedTrap, Next, Isr, SysRead, Program, DevPresent, TakeInterrupt,
         InterruptPending, IsrCheck, IsrLoad, IsrStore, TrapReturn, ReadByte,
         init_stdin, enable_interrupts, disable_interrupts, EcallRead,
         ProgramRuns, csrVars, vars
<1> QED
  BY <1>1 DEF ReadDone, ReadHasByte, TypeOK

(* No read that asks for a byte is answered with 0, newlib's end of file,    *)
(* and a short one has drained the ring.                                     *)
THEOREM ReadsAreNoEof == Spec => NoFalseEof
<1>1. IInv /\ [Next]_vars => IInv'
  BY TypeStep, ControlStep, DataStep DEF IInv
<1>2. Init => ReadHasByte
  BY DEF Init, ReadHasByte
<1>3. IInv /\ ReadHasByte /\ [Next]_vars =>
        [pc = "sys_read" /\ pc' # "sys_read" =>
           /\ count > 0 => a0' > 0
           /\ a0' < count => stdin_buf_is_empty]_vars
  BY ReadResult
<1> QED
  BY InitIInv, ReadStep, <1>1, <1>2, <1>3, PTL DEF Spec, NoFalseEof
-----------------------------------------------------------------------------
(* BspStdin implements ByteFifo.  By the invariant the bytes under way are   *)
(* those sent and not yet received, so that a step that sends is a Put, one  *)
(* that receives is a Get, and every other, however it moves bytes from the  *)
(* device to the ring, is none.                                              *)
Queue == RingContents \o byte \o dev

(* The ring's bytes as a sequence.                                           *)
LEMMA RingIsSeq ==
  ASSUME TypeOK
  PROVE  /\ Count \in 0 .. STDIN_BUF_SIZE - 1
         /\ RingContents \in Seq(Byte)
         /\ Len(RingContents) = Count
         /\ \A i \in 1 .. Count :
              RingContents[i] = stdin_buf[Wrap(stdin_buf_rpos + (i - 1))]
<1>1. Count \in 0 .. STDIN_BUF_SIZE - 1
  BY StdinAssumption DEF TypeOK, Slot, Count
<1>2. ASSUME NEW i \in 1 .. Count
      PROVE  /\ Wrap(stdin_buf_rpos + i - 1) \in Slot
             /\ stdin_buf_rpos + i - 1 = stdin_buf_rpos + (i - 1)
  BY <1>1, <1>2, StdinAssumption DEF TypeOK, Slot, Wrap
<1>3. \A i \in 1 .. Count : stdin_buf[Wrap(stdin_buf_rpos + i - 1)] \in Byte
  BY <1>2 DEF TypeOK
<1>4. /\ RingContents \in Seq(Byte)
      /\ Len(RingContents) = Count
  BY <1>1, <1>3 DEF RingContents
<1> QED
  BY <1>1, <1>2, <1>4 DEF RingContents

(* What is under way is what has been sent and not received.                 *)
QueueIsRest ==
  /\ Queue \in Seq(Byte)
  /\ Len(Queue) = Count + Len(byte) + Len(dev)
  /\ Len(sent) = Len(received) + Len(Queue)
  /\ \A i \in 1 .. Len(Queue) : Queue[i] = sent[Len(received) + i]

LEMMA UnderWay ==
  ASSUME TypeOK, NoLossNoReorder
  PROVE  QueueIsRest
<1>1. /\ Count \in Nat
      /\ RingContents \in Seq(Byte)
      /\ Len(RingContents) = Count
      /\ \A i \in 1 .. Count :
           RingContents[i] = stdin_buf[Wrap(stdin_buf_rpos + (i - 1))]
  BY RingIsSeq, StdinAssumption
<1>2. /\ byte \in Seq(Byte) /\ Len(byte) \in {0, 1}
      /\ dev \in Seq(Byte) /\ Len(dev) \in {0, 1}
      /\ Len(received) \in Nat
      /\ Len(byte) = 1 => byte # <<>>
      /\ Len(dev) = 1 => dev # <<>>
  <2>1. /\ byte \in Seq(Byte) /\ Len(byte) <= 1
        /\ dev \in Seq(Byte) /\ Len(dev) <= 1
        /\ received \in Seq(Byte)
    BY DEF TypeOK
  <2>2. Len(byte) \in Nat /\ Len(dev) \in Nat /\ Len(received) \in Nat
    BY <2>1
  <2>3. Len(byte) \in {0, 1} /\ Len(dev) \in {0, 1}
    <3>1. \A n \in Nat : n <= 1 => n \in {0, 1}
      OBVIOUS
    <3> QED
      BY <2>1, <2>2, <3>1, Zenon
  <2>4. ASSUME NEW s \in {byte, dev}, Len(s) = 1
        PROVE  s # <<>>
    <3>1. Len(<<>>) = 0
      OBVIOUS
    <3> QED
      BY <2>4, <3>1
  <2> QED
    BY <2>1, <2>2, <2>3, <2>4
<1> DEFINE front == RingContents \o byte
<1>3. /\ front \in Seq(Byte)
      /\ Len(front) = Count + Len(byte)
      /\ \A i \in 1 .. Count + Len(byte) :
           front[i] = IF i <= Count THEN RingContents[i] ELSE byte[i - Count]
  BY <1>1, <1>2, ConcatProperties
<1> HIDE DEF front
<1>4. /\ Queue \in Seq(Byte)
      /\ Len(Queue) = Len(front) + Len(dev)
      /\ \A i \in 1 .. Len(front) + Len(dev) :
           Queue[i] = IF i <= Len(front) THEN front[i] ELSE dev[i - Len(front)]
  BY <1>2, <1>3, ConcatProperties, SMTT(20) DEF Queue, front
<1>5. /\ Len(Queue) = Count + Len(byte) + Len(dev)
      /\ Len(sent) = Len(received) + Len(Queue)
  BY <1>1, <1>2, <1>3, <1>4 DEF NoLossNoReorder
<1>6. ASSUME NEW i \in 1 .. Len(Queue)
      PROVE  Queue[i] = sent[Len(received) + i]
  <2>1. CASE i <= Count
    <3>1. /\ i - 1 \in 0 .. Count - 1
          /\ i \in 1 .. Count
          /\ Len(received) + (i - 1) + 1 = Len(received) + i
      BY <2>1, <1>1, <1>2, <1>5
    <3>2. stdin_buf[Wrap(stdin_buf_rpos + (i - 1))]
            = sent[Len(received) + (i - 1) + 1]
      BY <3>1 DEF NoLossNoReorder
    <3>3. Queue[i] = RingContents[i]
      BY <3>1, <1>1, <1>2, <1>3, <1>4, SMTT(20)
    <3> QED
      BY <3>1, <3>2, <3>3, <1>1
  <2>2. CASE i = Count + 1 /\ Len(byte) = 1
    <3>1. Queue[i] = byte[1]
      BY <2>2, <1>1, <1>2, <1>3, <1>4
    <3>2. byte[1] = sent[Len(received) + Count + 1]
      BY <2>2, <1>2 DEF NoLossNoReorder
    <3> QED
      BY <3>1, <3>2, <2>2, <1>1, <1>2
  <2>3. CASE i = Count + Len(byte) + 1 /\ Len(dev) = 1
    <3>1. Queue[i] = dev[1]
      <4>1. /\ i \in 1 .. Len(front) + Len(dev)
            /\ ~ (i <= Len(front))
            /\ i - Len(front) = 1
        BY <2>3, <1>1, <1>2, <1>3
      <4> QED
        BY <4>1, <1>4
    <3>2. dev[1] = sent[Len(sent)]
      BY <2>3, <1>2 DEF NoLossNoReorder
    <3>3. Len(sent) = Len(received) + i
      BY <2>3, <1>1, <1>2, <1>5
    <3> QED
      BY <3>1, <3>2, <3>3
  <2>4. \/ i <= Count
        \/ i = Count + 1 /\ Len(byte) = 1
        \/ i = Count + Len(byte) + 1 /\ Len(dev) = 1
    <3>1. i \in 1 .. Count + Len(byte) + Len(dev)
      BY <1>5
    <3>2. \A c \in Nat, m \in {0, 1}, n \in {0, 1}, k \in Int :
            k \in 1 .. c + m + n =>
              k <= c \/ (k = c + 1 /\ m = 1) \/ (k = c + m + 1 /\ n = 1)
      OBVIOUS
    <3>3. i \in Int
      BY <3>1
    <3> QED
      BY <3>1, <3>2, <3>3, <1>1, <1>2, ZenonT(20)
  <2> QED
    BY <2>1, <2>2, <2>3, <2>4
<1> QED
  BY <1>4, <1>5, <1>6 DEF QueueIsRest

LEMMA UnderWayNext == TypeOK' /\ NoLossNoReorder' => QueueIsRest'
<1>1. TypeOK /\ NoLossNoReorder => QueueIsRest
  BY UnderWay
<1> QED
  BY <1>1, PTL

(* A step that neither sends nor receives leaves the same bytes under way.   *)
LEMMA QueueUnchanged ==
  ASSUME TypeOK, NoLossNoReorder, TypeOK', NoLossNoReorder',
         UNCHANGED <<sent, received>>
  PROVE  Queue' = Queue
<1>1. /\ Queue \in Seq(Byte)
      /\ Len(sent) = Len(received) + Len(Queue)
      /\ \A i \in 1 .. Len(Queue) : Queue[i] = sent[Len(received) + i]
  BY UnderWay DEF QueueIsRest
<1>2. /\ Queue' \in Seq(Byte)
      /\ Len(sent) = Len(received) + Len(Queue')
      /\ \A i \in 1 .. Len(Queue') : Queue'[i] = sent[Len(received) + i]
  BY UnderWayNext DEF QueueIsRest
<1>3. Len(received) \in Nat /\ Len(Queue) \in Nat /\ Len(Queue') \in Nat
  BY <1>1, <1>2, LenProperties DEF TypeOK
<1>4. Len(Queue') = Len(Queue)
  BY <1>1, <1>2, <1>3
<1> HIDE DEF Queue
<1> QED
  BY <1>1, <1>2, <1>4, SeqEqual

(* Sending puts a byte into a queue with room: the device holds none, and    *)
(* the ISR only holds one that has a slot of the ring.                       *)
LEMMA SendIsPut ==
  ASSUME IInv, TypeOK', NoLossNoReorder', NEW b \in Byte, DevPresent(b)
  PROVE  Fifo!Put(b)
<1>1. /\ TypeOK /\ HandlerState /\ NoLossNoReorder
      /\ sent' = Append(sent, b)
      /\ UNCHANGED <<received, pc, byte>>
      /\ dev = <<>>
  BY DEF IInv, DevPresent
<1>2. /\ Queue \in Seq(Byte)
      /\ Len(Queue) = Count + Len(byte) + Len(dev)
      /\ Len(sent) = Len(received) + Len(Queue)
      /\ \A i \in 1 .. Len(Queue) : Queue[i] = sent[Len(received) + i]
  BY <1>1, UnderWay DEF QueueIsRest
<1>3. /\ Queue' \in Seq(Byte)
      /\ Len(sent') = Len(received) + Len(Queue')
      /\ \A i \in 1 .. Len(Queue') : Queue'[i] = sent'[Len(received) + i]
  BY <1>1, UnderWayNext DEF QueueIsRest
<1>4. /\ Len(received) \in Nat /\ Len(Queue) \in Nat /\ Len(Queue') \in Nat
      /\ sent \in Seq(Byte)
  BY <1>1, <1>2, <1>3, LenProperties DEF TypeOK
<1>5. /\ Len(sent') = Len(sent) + 1
      /\ sent'[Len(sent) + 1] = b
      /\ \A i \in 1 .. Len(sent) : sent'[i] = sent[i]
  BY <1>1, <1>4, AppendProperties
<1>6. Queue' = Append(Queue, b)
  <2>1. /\ Append(Queue, b) \in Seq(Byte)
        /\ Len(Append(Queue, b)) = Len(Queue) + 1
        /\ Append(Queue, b)[Len(Queue) + 1] = b
        /\ \A i \in 1 .. Len(Queue) : Append(Queue, b)[i] = Queue[i]
    BY <1>2, AppendProperties
  <2>2. Len(Queue') = Len(Queue) + 1
    BY <1>2, <1>3, <1>4, <1>5
  <2>3. ASSUME NEW i \in 1 .. Len(Queue')
        PROVE  Queue'[i] = Append(Queue, b)[i]
    <3>1. CASE i = Len(Queue) + 1
      <4>1. Len(received) + i = Len(sent) + 1
        BY <3>1, <1>2, <1>4
      <4> QED
        BY <4>1, <3>1, <1>3, <1>5, <2>1
    <3>2. CASE i # Len(Queue) + 1
      <4>1. i \in 1 .. Len(Queue) /\ Len(received) + i \in 1 .. Len(sent)
        BY <3>2, <2>2, <1>2, <1>4
      <4> QED
        BY <4>1, <1>2, <1>3, <1>5, <2>1
    <3> QED
      BY <3>1, <3>2
  <2> QED
    BY <1>3, <2>1, <2>2, <2>3, SeqEqual
<1>7. Len(Queue) < STDIN_BUF_SIZE
  <2>1. Count \in 0 .. STDIN_BUF_SIZE - 1 /\ Len(dev) = 0
    BY <1>1, RingIsSeq
  <2>2. CASE byte = <<>>
    <3>1. Len(byte) = 0
      BY <2>2
    <3> QED
      BY <2>1, <3>1, <1>2, StdinAssumption
  <2>3. CASE byte # <<>>
    <3>1. ~stdin_buf_is_full /\ pc = "isr_store"
      BY <2>3, <1>1 DEF HandlerState
    <3>2. Len(byte) = 1
      BY <2>3, <1>1, AtMostOne DEF TypeOK
    <3>3. Count < STDIN_BUF_SIZE - 1
      <4>1. stdin_buf_rpos \in Slot /\ stdin_buf_wpos \in Slot
        BY <1>1 DEF TypeOK
      <4>2. stdin_buf_rpos #
              IF stdin_buf_wpos = STDIN_BUF_SIZE - 1 THEN 0 ELSE stdin_buf_wpos + 1
        BY <3>1, <4>1, NextPos DEF stdin_buf_is_full
      <4> QED
        BY <4>1, <4>2, StdinAssumption DEF Count, Slot
    <3> QED
      BY <2>1, <3>2, <3>3, <1>1, <1>2, StdinAssumption
  <2> QED
    BY <2>2, <2>3
<1> QED
  BY <1>1, <1>6, <1>7 DEF Fifo!Put, Queue

(* Receiving takes the oldest of them: it is the one the queue begins with,  *)
(* as it comes next in sent.                                                 *)
LEMMA ReceiveIsGet ==
  ASSUME IInv, TypeOK', NoLossNoReorder', ReadByte
  PROVE  Fifo!Get
<1> DEFINE b == stdin_buf[stdin_buf_rpos]
<1>1. /\ TypeOK /\ NoLossNoReorder
      /\ received' = Append(received, b)
      /\ UNCHANGED sent
      /\ b \in Byte
  BY DEF IInv, ReadByte, TypeOK, devVars
<1>2. /\ Queue \in Seq(Byte)
      /\ Len(sent) = Len(received) + Len(Queue)
      /\ \A i \in 1 .. Len(Queue) : Queue[i] = sent[Len(received) + i]
  BY <1>1, UnderWay DEF QueueIsRest
<1>3. /\ Queue' \in Seq(Byte)
      /\ Len(sent) = Len(received') + Len(Queue')
      /\ \A i \in 1 .. Len(Queue') : Queue'[i] = sent[Len(received') + i]
  BY <1>1, UnderWayNext DEF QueueIsRest
<1>4. /\ Len(received) \in Nat /\ Len(Queue) \in Nat /\ Len(Queue') \in Nat
      /\ received \in Seq(Byte)
  BY <1>1, <1>2, <1>3, LenProperties DEF TypeOK
<1> HIDE DEF b
<1>5. /\ Len(received') = Len(received) + 1
      /\ received'[Len(received) + 1] = b
  BY <1>1, <1>4, AppendProperties
<1>6. Len(Queue) = Len(Queue') + 1
  BY <1>2, <1>3, <1>4, <1>5
<1>7. Queue # <<>>
  BY <1>4, <1>6, EmptySeq
<1>8. b = Head(Queue)
  <2>1. \A i \in 1 .. Len(received') : received'[i] = sent[i]
    BY <1>1 DEF NoLossNoReorder
  <2>2. b = sent[Len(received) + 1]
    BY <2>1, <1>4, <1>5
  <2>3. Queue[1] = sent[Len(received) + 1]
    BY <1>2, <1>4, <1>6
  <2> QED
    BY <2>2, <2>3, <1>2, <1>7
<1>9. Queue' = Tail(Queue)
  <2>1. /\ Tail(Queue) \in Seq(Byte)
        /\ Len(Tail(Queue)) = Len(Queue')
        /\ \A i \in 1 .. Len(Queue') : Tail(Queue)[i] = Queue[i + 1]
    BY <1>2, <1>4, <1>6, <1>7, HeadTailProperties
  <2>2. ASSUME NEW i \in 1 .. Len(Queue')
        PROVE  Queue'[i] = Tail(Queue)[i]
    <3>1. /\ i + 1 \in 1 .. Len(Queue)
          /\ Len(received') + i = Len(received) + (i + 1)
      BY <1>4, <1>5, <1>6
    <3> QED
      BY <3>1, <2>1, <1>2, <1>3
  <2> QED
    BY <1>3, <2>1, <2>2, SeqEqual
<1> QED
  BY <1>1, <1>7, <1>8, <1>9 DEF Fifo!Get, Queue

LEMMA InitFifo == Init => Fifo!Init
<1> SUFFICES ASSUME Init PROVE Fifo!Init
  OBVIOUS
<1>1. TypeOK /\ NoLossNoReorder
  BY InitIInv DEF IInv
<1>2. Queue \in Seq(Byte) /\ Len(sent) = Len(received) + Len(Queue)
  BY <1>1, UnderWay DEF QueueIsRest
<1>3. Len(Queue) = 0
  BY <1>2 DEF Init
<1>4. Queue = <<>>
  BY <1>2, <1>3, EmptySeq
<1> QED
  BY <1>4 DEF Init, Fifo!Init, Queue

LEMMA NextFifo == IInv /\ IInv' /\ [Next]_vars => [Fifo!Next]_Fifo!vars
<1> SUFFICES ASSUME IInv, IInv', [Next]_vars
             PROVE  [Fifo!Next]_Fifo!vars
  OBVIOUS
<1>1. TypeOK /\ NoLossNoReorder /\ TypeOK' /\ NoLossNoReorder'
  BY DEF IInv
<1>2. CASE \E b \in Byte : DevPresent(b)
  BY <1>1, <1>2, SendIsPut DEF Fifo!Next
<1>3. CASE ReadByte
  BY <1>1, <1>3, ReceiveIsGet DEF Fifo!Next
<1>4. ASSUME \/ TakeInterrupt \/ TrapReturn \/ IsrCheck \/ IsrLoad \/ IsrStore
             \/ ReadDone \/ init_stdin \/ enable_interrupts
             \/ disable_interrupts \/ UNCHANGED vars
             \/ \E fd \in {STDIN_FILENO, STDOUT_FILENO}, n \in 0 .. MaxCount :
                  EcallRead(fd, n)
      PROVE  UNCHANGED Fifo!vars
  <2>1. UNCHANGED <<sent, received>>
    BY <1>4 DEF TakeInterrupt, TrapReturn, IsrCheck, IsrLoad, IsrStore, ReadDone,
                init_stdin, enable_interrupts, disable_interrupts, EcallRead,
                vars, devVars, readVars
  <2>2. Queue' = Queue
    BY <1>1, <2>1, QueueUnchanged
  <2> QED
    BY <2>1, <2>2 DEF Fifo!vars, Queue
<1> QED
  BY <1>2, <1>3, <1>4 DEF Next, Isr, SysRead, Program

(* The device, the ISR, the ring and sys_read are a queue of STDIN_BUF_SIZE  *)
(* bytes, for every size and whatever the interleaving.                      *)
THEOREM StdinIsFifo == Spec => ImplementsFifo
<1>1. IInv /\ [Next]_vars => IInv'
  BY TypeStep, ControlStep, DataStep DEF IInv
<1> QED
  BY InitIInv, <1>1, InitFifo, NextFifo, PTL DEF Spec, ImplementsFifo, Fifo!Spec
=============================================================================
