----------------------------- MODULE Bsp_proofs -----------------------------
(***************************************************************************)
(* Proofs about the board support package: Traps for any number of lines and*)
(* any length of the program, and PerfCounter for every register width and  *)
(* every delay between the reads.                                           *)
(***************************************************************************)
EXTENDS Traps, PerfCounter, SequenceTheorems, TLAPS

(* Traps.  The invariant says where the hart is for each number of open      *)
(* traps, and what the CSRs and the frames hold there; it holds with and     *)
(* without ignore_irq, but for the mepc that ignore_irq's puts overwrites.   *)

(* Outside of all traps the hart is in the program, or back in puts.         *)
Outside(addr) == addr[1] = "main" \/ (ignored /\ addr = <<"puts", 1>>)

(* No trap is open.                                                          *)
NoTrap ==
  /\ resumes = <<>>
  /\ frames = <<>>
  /\ report = <<>>
  /\ Outside(pc)

(* What trap entry leaves in the CSRs for the trap r.                        *)
Entered(r) ==
  /\ mcause = r.cause
  /\ MPIE = r.MIE
  /\ IF mcause = ECALL
     THEN mepc[1] = "main" /\ r.pc = After(mepc) /\ r.a0 = WRITTEN
     ELSE Outside(mepc) /\ r.pc = mepc

(* The interrupt that is being served is up and enabled; it was taken with   *)
(* interrupts on.                                                            *)
Serving(c, r) ==
  /\ c \in Irq /\ c \in pending /\ c \in mie
  /\ r.cause = c
  /\ r.MIE = TRUE

(* One trap is open: the hart executes _trap_handler, one of the handlers,   *)
(* what they print with, or the return.                                      *)
OneTrap(r, saved) ==
  /\ resumes = <<r>>
  /\ MIE = FALSE
  /\ report = <<>> \/ report = <<r.cause, r.pc>>
  /\ report # <<>> => pc[1] \in {"printf", "_halt"}
  /\ frames = IF pc = At("_trap_handler") THEN <<>> ELSE <<saved>>
  /\ \/ /\ pc = At("_trap_handler")
        /\ Entered(r)
        /\ mcause # ECALL => r.a0 = a0
        /\ mcause \in Irq => Serving(mcause, r)
     \/ /\ pc = At("isr")
        /\ Entered(r)
        /\ mcause # ECALL
        /\ Serving(a0, r)
        /\ saved = r.a0
     \/ /\ pc = At("syscall")
        /\ Entered(r)
        /\ mcause = ECALL
     \/ /\ pc = At("exception")
        /\ Entered(r)
        /\ mcause # ECALL
        /\ a0 = mcause
     \/ /\ pc = At("_trap_return")
        /\ MPIE = r.MIE
        /\ Outside(mepc)
        /\ ~ignored => r.pc = mepc /\ saved = r.a0
     \/ /\ pc \in {<<"puts", 0>>, <<"puts", 1>>}
        /\ ignored
        /\ r.MIE = TRUE
        /\ pc[2] = 1 => MPIE = TRUE /\ mepc = pc
     \/ pc \in {<<"printf", 0>>, <<"printf", 1>>}
     \/ pc = At("_halt")

(* A second trap is open: the write ecall of puts or printf.                 *)
TwoTraps(outer, r, saved) ==
  /\ resumes = <<outer, r>>
  /\ MIE = FALSE
  /\ r.cause = ECALL /\ r.MIE = FALSE /\ r.a0 = WRITTEN
  /\ mcause = ECALL /\ MPIE = FALSE /\ a7 = "write"
  /\ \/ r.pc = <<"printf", 1>>
     \/ r.pc = <<"puts", 1>> /\ ignored /\ outer.MIE = TRUE
  /\ report = <<>> \/ report = <<outer.cause, outer.pc>>
  /\ report # <<>> => r.pc = <<"printf", 1>>
  /\ \/ /\ pc = At("_trap_handler")
        /\ r.pc = After(mepc)
        /\ frames = <<saved>>
     \/ /\ pc = At("syscall")
        /\ r.pc = After(mepc)
        /\ frames = <<saved, frames[2]>>
     \/ /\ pc = At("_trap_return")
        /\ r.pc = mepc
        /\ frames = <<saved, WRITTEN>>

(* An interrupt that was ignored stays up and enabled, and there is no way   *)
(* back to where it can be masked.                                           *)
IgnoredIsHung == ignored => Hung

Booleans == MIE \in BOOLEAN /\ MPIE \in BOOLEAN /\ ignored \in BOOLEAN

IInv ==
  /\ Booleans
  /\ IgnoredIsHung
  /\ \/ NoTrap
     \/ OneTrap(resumes[1], frames[1])
     \/ TwoTraps(resumes[1], resumes[2], frames[1])

-----------------------------------------------------------------------------
(* Stacks of at most two entries.                                            *)
LEMMA Stacks ==
  ASSUME NEW x, NEW y
  PROVE  /\ Append(<<>>, x) = <<x>> /\ Append(<<x>>, y) = <<x, y>>
         /\ Front(<<x>>) = <<>> /\ Front(<<x, y>>) = <<x>>
         /\ Last(<<x>>) = x /\ Last(<<x, y>>) = y
         /\ <<x>>[1] = x /\ <<x, y>>[1] = x /\ <<x, y>>[2] = y
         /\ <<x>> # <<>> /\ <<x, y>> # <<>> /\ <<x>> # <<x, y>>
         /\ Len(<<x>>) = 1 /\ Len(<<x, y>>) = 2
<1>1. /\ Len(<<>>) = 0 /\ Len(<<x>>) = 1 /\ Len(<<x, y>>) = 2
      /\ <<x>>[1] = x /\ <<x, y>>[1] = x /\ <<x, y>>[2] = y
      /\ <<>> \in Seq({x, y}) /\ <<x>> \in Seq({x, y}) /\ <<x, y>> \in Seq({x, y})
  OBVIOUS
<1>2. Append(<<>>, x) = <<x>> /\ Append(<<x>>, y) = <<x, y>>
  <2>1. Append(<<>>, x) = <<x>>
    <3> DEFINE s == Append(<<>>, x)
    <3>1. s \in Seq({x, y}) /\ Len(s) = 1 /\ s[1] = x
      BY <1>1, AppendProperties
    <3> HIDE DEF s
    <3>2. s = <<x>>
      BY <1>1, <3>1, SeqEqual
    <3> QED
      BY <3>2 DEF s
  <2>2. Append(<<x>>, y) = <<x, y>>
    <3> DEFINE s == Append(<<x>>, y)
    <3>1. s \in Seq({x, y}) /\ Len(s) = 2 /\ s[1] = x /\ s[2] = y
      BY <1>1, AppendProperties
    <3> HIDE DEF s
    <3>2. s = <<x, y>>
      BY <1>1, <3>1, SeqEqual
    <3> QED
      BY <3>2 DEF s
  <2> QED
    BY <2>1, <2>2
<1>3. Front(<<x>>) = <<>> /\ Front(<<x, y>>) = <<x>>
  <2>1. Front(<<x>>) = <<>>
    BY <1>1, SubSeqEmpty DEF Front
  <2>2. SubSeq(<<x, y>>, 1, 1) = <<x>>
    <3> DEFINE s == SubSeq(<<x, y>>, 1, 1)
    <3>1. s \in Seq({x, y}) /\ Len(s) = 1 /\ s[1] = x
      BY <1>1, SubSeqProperties
    <3> HIDE DEF s
    <3>2. s = <<x>>
      BY <1>1, <3>1, SeqEqual
    <3> QED
      BY <3>2 DEF s
  <2> QED
    BY <1>1, <2>1, <2>2 DEF Front
<1>4. Last(<<x>>) = x /\ Last(<<x, y>>) = y
  BY <1>1 DEF Last
<1>5. <<x>> # <<>> /\ <<x, y>> # <<>> /\ <<x>> # <<x, y>>
  <2>1. 0 # 1 /\ 0 # 2 /\ 1 # 2
    OBVIOUS
  <2> QED
    BY <1>1, <2>1, Zenon
<1> QED
  BY <1>1, <1>2, <1>3, <1>4, <1>5, Zenon

(* The three shapes, with the entries of the stacks named.                   *)
Shape ==
  \/ NoTrap
  \/ \E r, saved : OneTrap(r, saved)
  \/ \E outer, r, saved : TwoTraps(outer, r, saved)

LEMMA ShapeIsInIInv == IInv <=> Booleans /\ IgnoredIsHung /\ Shape
<1>1. ASSUME NEW r, NEW saved, OneTrap(r, saved)
      PROVE  OneTrap(resumes[1], frames[1])
  <2>1. resumes[1] = r
    BY <1>1, Stacks DEF OneTrap
  <2>2. CASE pc = At("_trap_handler")
    BY <1>1, <2>1, <2>2 DEF OneTrap, At
  <2>3. CASE pc # At("_trap_handler")
    <3>1. frames[1] = saved
      BY <1>1, <2>3, Stacks DEF OneTrap
    <3> QED
      BY <1>1, <2>1, <3>1
  <2> QED
    BY <2>2, <2>3
<1>2. ASSUME NEW outer, NEW r, NEW saved, TwoTraps(outer, r, saved)
      PROVE  TwoTraps(resumes[1], resumes[2], frames[1])
  <2>1. resumes[1] = outer /\ resumes[2] = r
    BY <1>2, Stacks DEF TwoTraps
  <2>2. frames[1] = saved
    BY <1>2, Stacks DEF TwoTraps
  <2> QED
    BY <1>2, <2>1, <2>2
<1> QED
  BY <1>1, <1>2 DEF IInv, Shape

(* Where the hart may be when it executes in the program.                    *)
LEMMA ProgramIsNoTrap ==
  ASSUME IInv, Executes("main")
  PROVE  NoTrap /\ ~Hung /\ ~ignored
<1>1. NoTrap
  <2>1. ASSUME NEW r, NEW saved, OneTrap(r, saved) PROVE pc[1] # "main"
    BY <2>1 DEF OneTrap, At
  <2>2. ASSUME NEW outer, NEW r, NEW saved, TwoTraps(outer, r, saved)
        PROVE  pc[1] # "main"
    BY <2>2 DEF TwoTraps, At
  <2> QED
    BY <2>1, <2>2, ShapeIsInIInv DEF Shape, Executes
<1>2. ~Hung
  BY <1>1 DEF Hung, NoTrap, Executes, Interruptible
<1> QED
  BY <1>1, <1>2 DEF IInv, IgnoredIsHung

(* With no trap open the hart executes only in the program: back in puts it  *)
(* is interrupted again.                                                     *)
LEMMA OnlyProgramWithoutTrap ==
  ASSUME IInv, NoTrap, NEW function, Executes(function)
  PROVE  function = "main"
<1>1. ~ignored
  <2>1. ignored => Hung
    BY DEF IInv, IgnoredIsHung
  <2>2. ~Hung
    BY DEF Hung, NoTrap, Executes, Interruptible
  <2> QED
    BY <2>1, <2>2
<1> QED
  BY <1>1 DEF NoTrap, Outside, Executes

(* Trap entry pushes what it has to restore.                                 *)
LEMMA EntryOpensTrap ==
  ASSUME NoTrap, NEW cause, NEW resume, NEW result, EnterTrap(cause, resume, result),
         UNCHANGED <<a0, report, frames>>,
         IF cause = ECALL THEN pc[1] = "main" /\ resume = After(pc) /\ result = WRITTEN
                          ELSE resume = pc /\ result = a0,
         UNCHANGED ignored,
         cause \in Irq => cause \in pending' /\ cause \in mie' /\ MIE = TRUE
  PROVE  \E r : OneTrap(r, a0)'
<1>1. PICK r : /\ resumes' = <<r>>
               /\ r.pc = resume /\ r.a0 = result /\ r.MIE = MIE /\ r.cause = cause
  BY Stacks DEF EnterTrap, NoTrap
<1>2. /\ pc' = At("_trap_handler") /\ mepc' = pc /\ mcause' = cause
      /\ MPIE' = MIE /\ MIE' = FALSE
  BY DEF EnterTrap
<1>3. Entered(r)'
  BY <1>1, <1>2 DEF Entered, NoTrap, Outside
<1>4. cause \in Irq => Serving(cause, r)'
  BY <1>1 DEF Serving
<1>5. OneTrap(r, a0)'
  BY <1>1, <1>2, <1>3, <1>4 DEF NoTrap, OneTrap
<1> QED
  BY <1>5
(* Each step leads from a shape to a shape.                                  *)
LEMMA RaiseShape ==
  ASSUME IInv, NEW c \in Irq, Raise(c)
  PROVE  Shape'
<1>1. /\ UNCHANGED <<pc, a0, a7, mepc, mcause, MIE, MPIE, mie, frames, report,
                     resumes, ignored>>
      /\ pending \subseteq pending'
  BY DEF Raise, regVars, csrVars, histVars
<1>2. CASE NoTrap
  BY <1>1, <1>2 DEF NoTrap, Outside, Shape
<1>3. ASSUME NEW r, NEW saved, OneTrap(r, saved) PROVE Shape'
  <2>1. OneTrap(r, saved)'
    BY <1>1, <1>3 DEF OneTrap, Entered, Outside, Serving
  <2> QED
    BY <2>1 DEF Shape
<1>4. ASSUME NEW outer, NEW r, NEW saved, TwoTraps(outer, r, saved) PROVE Shape'
  <2>1. TwoTraps(outer, r, saved)'
    BY <1>1, <1>4 DEF TwoTraps
  <2> QED
    BY <2>1 DEF Shape
<1> QED
  BY <1>2, <1>3, <1>4, ShapeIsInIInv DEF Shape

LEMMA InterruptShape ==
  ASSUME IInv, NEW c \in Irq, Interrupt(c)
  PROVE  Shape'
<1>1. NoTrap
  BY ShapeIsInIInv DEF Shape, OneTrap, TwoTraps, Interrupt
<1>2. c # ECALL
  BY TrapsAssumption DEF ECALL
<1>3. \E r : OneTrap(r, a0)'
  BY <1>1, <1>2, EntryOpensTrap DEF Interrupt, regVars
<1> QED
  BY <1>3 DEF Shape

LEMMA TrapHandlerShape ==
  ASSUME IInv, _trap_handler
  PROVE  Shape'
<1>1. /\ pc[1] = "_trap_handler"
      /\ UNCHANGED <<a7, mepc, mcause, MIE, MPIE, mie, pending, report, resumes, ignored>>
      /\ frames' = Append(frames, a0)
  BY DEF _trap_handler, Executes, csrVars, histVars
<1>2. \/ mcause \in Irq /\ mcause # ECALL /\ pc' = At("isr") /\ a0' = mcause
      \/ mcause \notin Irq /\ mcause = ECALL /\ pc' = At("syscall")
      \/ mcause \notin Irq /\ mcause # ECALL /\ pc' = At("exception") /\ a0' = mcause
  BY TrapsAssumption DEF _trap_handler, ECALL
<1>3. ~NoTrap
  BY OnlyProgramWithoutTrap DEF _trap_handler
<1>4. ASSUME NEW r, NEW saved, OneTrap(r, saved) PROVE Shape'
  <2>1. /\ pc = At("_trap_handler")
        /\ frames = <<>>
        /\ Entered(r)
        /\ mcause # ECALL => r.a0 = a0
        /\ mcause \in Irq => Serving(mcause, r)
    BY <1>1, <1>4 DEF OneTrap, At
  <2>2. frames' = <<a0>>
    BY <1>1, <2>1, Stacks
  <2>3. Entered(r)'
    BY <1>1, <2>1 DEF Entered, Outside
  <2>4. mcause \in Irq => Serving(mcause, r)'
    BY <1>1, <2>1 DEF Serving
  <2>5. /\ resumes' = <<r>> /\ MIE' = FALSE
        /\ report' = <<>>
    BY <1>1, <1>4, <2>1 DEF OneTrap, At
  <2>6. PICK new : new = a0
    OBVIOUS
  <2>7. OneTrap(r, new)'
    <3>1. CASE pc' = At("isr") /\ a0' = mcause /\ mcause \in Irq /\ mcause # ECALL
      <4>1. Serving(a0, r)'
        BY <1>1, <3>1, <2>4 DEF Serving
      <4> QED
        BY <1>1, <3>1, <4>1, <2>1, <2>2, <2>3, <2>5, <2>6 DEF OneTrap, At
    <3>2. CASE pc' = At("syscall") /\ mcause = ECALL
      BY <1>1, <3>2, <2>2, <2>3, <2>5, <2>6 DEF OneTrap, At
    <3>3. CASE pc' = At("exception") /\ mcause # ECALL /\ a0' = mcause
      BY <1>1, <3>3, <2>2, <2>3, <2>5, <2>6 DEF OneTrap, At
    <3> QED
      BY <1>2, <3>1, <3>2, <3>3
  <2> QED
    BY <2>7 DEF Shape
<1>5. ASSUME NEW outer, NEW r, NEW saved, TwoTraps(outer, r, saved) PROVE Shape'
  <2>1. pc = At("_trap_handler") /\ r.pc = After(mepc) /\ frames = <<saved>> /\ mcause = ECALL
    BY <1>1, <1>5 DEF TwoTraps, At
  <2>2. frames' = <<saved, a0>> /\ frames'[2] = a0
    BY <1>1, <2>1, Stacks
  <2>3. pc' = At("syscall")
    BY <1>2, <2>1
  <2>4. TwoTraps(outer, r, saved)'
    BY <1>1, <1>5, <2>1, <2>2, <2>3 DEF TwoTraps, At, After
  <2> QED
    BY <2>4 DEF Shape
<1> QED
  BY <1>3, <1>4, <1>5, ShapeIsInIInv DEF Shape

(* mret of a nested trap leaves one open, that of the other none.            *)
LEMMA TrapReturnShape ==
  ASSUME IInv, _trap_return
  PROVE  /\ Shape'
         /\ \A r, saved : OneTrap(r, saved) =>
              /\ MIE' = r.MIE
              /\ ~ignored => pc' = r.pc /\ a0' = r.a0
         /\ \A outer, r, saved : TwoTraps(outer, r, saved) =>
              pc' = r.pc /\ a0' = r.a0 /\ MIE' = r.MIE
<1>1. /\ pc[1] = "_trap_return"
      /\ UNCHANGED <<a7, mepc, mcause, mie, pending, callbacks, report, ignored>>
      /\ a0' = Last(frames) /\ frames' = Front(frames)
      /\ MIE' = MPIE /\ MPIE' = TRUE /\ pc' = mepc
      /\ resumes' = Front(resumes)
  BY DEF _trap_return, Executes
<1>2. ~NoTrap
  BY OnlyProgramWithoutTrap DEF _trap_return
<1>3. ASSUME NEW r, NEW saved, OneTrap(r, saved)
      PROVE  /\ Shape'
             /\ MIE' = r.MIE
             /\ ~ignored => pc' = r.pc /\ a0' = r.a0
  <2>1. /\ pc = At("_trap_return") /\ resumes = <<r>> /\ frames = <<saved>>
        /\ MPIE = r.MIE
        /\ Outside(mepc)
        /\ ~ignored => r.pc = mepc /\ saved = r.a0
        /\ report = <<>>
    BY <1>1, <1>3 DEF OneTrap, At
  <2>2. resumes' = <<>> /\ frames' = <<>> /\ a0' = saved
    BY <1>1, <2>1, Stacks
  <2>3. NoTrap'
    BY <1>1, <2>1, <2>2 DEF NoTrap, Outside
  <2> QED
    BY <1>1, <2>1, <2>2, <2>3 DEF Shape
<1>4. ASSUME NEW outer, NEW r, NEW saved, TwoTraps(outer, r, saved)
      PROVE  /\ Shape'
             /\ pc' = r.pc /\ a0' = r.a0 /\ MIE' = r.MIE
  <2>1. /\ resumes = <<outer, r>> /\ frames = <<saved, WRITTEN>> /\ r.pc = mepc
        /\ r.MIE = FALSE /\ r.a0 = WRITTEN /\ MPIE = FALSE
    BY <1>1, <1>4 DEF TwoTraps, At
  <2>2. resumes' = <<outer>> /\ frames' = <<saved>> /\ a0' = WRITTEN
    <3>1. resumes' = <<outer>>
      BY <1>1, <2>1, Stacks
    <3>2. PICK top : top = WRITTEN /\ frames = <<saved, top>>
      BY <2>1, Zenon
    <3>3. frames' = <<saved>> /\ a0' = top
      BY <1>1, <3>2, Stacks
    <3> QED
      BY <3>1, <3>2, <3>3
  <2>3. pc' = r.pc /\ MIE' = FALSE
    BY <1>1, <2>1
  <2>4. OneTrap(outer, saved)'
    <3>1. CASE r.pc = <<"printf", 1>>
      BY <1>1, <1>4, <2>2, <2>3, <3>1 DEF OneTrap, TwoTraps, At
    <3>2. CASE r.pc = <<"puts", 1>> /\ ignored /\ outer.MIE = TRUE
      <4>1. report' = <<>>
        BY <1>1, <1>4, <3>2 DEF TwoTraps
      <4> QED
        BY <1>1, <2>1, <2>2, <2>3, <3>2, <4>1 DEF OneTrap, At
    <3> QED
      BY <1>4, <3>1, <3>2 DEF TwoTraps
  <2> QED
    BY <2>1, <2>2, <2>3, <2>4 DEF Shape
<1> QED
  BY <1>2, <1>3, <1>4, ShapeIsInIInv DEF Shape

LEMMA IsrShape ==
  ASSUME IInv, isr
  PROVE  /\ Shape'
         /\ \E r : resumes = <<r>> /\ Serving(a0, r)
<1>1. /\ pc[1] = "isr"
      /\ UNCHANGED <<a0, a7, mepc, mcause, MIE, MPIE, mie, frames, callbacks, report, resumes>>
      /\ \/ ignored' = TRUE /\ pc' = At("puts")
         \/ UNCHANGED ignored /\ pc' = At("_trap_return")
  BY DEF isr, Executes, regVars, csrVars
<1>2. ~NoTrap /\ \A outer, r, saved : ~TwoTraps(outer, r, saved)
  BY <1>1, OnlyProgramWithoutTrap DEF isr, TwoTraps, At
<1>3. PICK r, saved : OneTrap(r, saved)
  BY <1>2, ShapeIsInIInv DEF Shape
<1>4. /\ resumes = <<r>> /\ frames = <<saved>> /\ MIE = FALSE /\ report = <<>>
      /\ Entered(r) /\ mcause # ECALL /\ Serving(a0, r) /\ saved = r.a0
  BY <1>1, <1>3 DEF OneTrap, At
<1>5. Outside(mepc) /\ r.pc = mepc /\ MPIE = r.MIE /\ r.MIE = TRUE
  BY <1>4 DEF Entered, Serving
<1>6. OneTrap(r, saved)'
  <2>1. CASE ignored' = TRUE /\ pc' = At("puts")
    BY <1>1, <1>4, <1>5, <2>1 DEF OneTrap, At
  <2>2. CASE UNCHANGED ignored /\ pc' = At("_trap_return")
    BY <1>1, <1>4, <1>5, <2>2 DEF OneTrap, At, Outside
  <2> QED
    BY <1>1, <2>1, <2>2
<1> QED
  BY <1>4, <1>6 DEF Shape

LEMMA WriteShape ==
  ASSUME IInv, sys_write
  PROVE  Shape'
<1>1. /\ pc[1] = "syscall"
      /\ UNCHANGED <<a0, a7, mcause, MIE, MPIE, report, resumes, ignored>>
      /\ frames' = [frames EXCEPT ![Len(frames)] = WRITTEN]
      /\ mepc' = After(mepc)
      /\ pc' = At("_trap_return")
  BY DEF sys_write, SyscallReturns, Executes, regVars, histVars
<1>2. ~NoTrap
  BY OnlyProgramWithoutTrap DEF sys_write
<1>3. ASSUME NEW r, NEW saved, OneTrap(r, saved) PROVE Shape'
  <2>1. /\ resumes = <<r>> /\ frames = <<saved>> /\ MIE = FALSE /\ report = <<>>
        /\ MPIE = r.MIE /\ mepc[1] = "main" /\ r.pc = After(mepc) /\ r.a0 = WRITTEN
    BY <1>1, <1>3 DEF OneTrap, At, Entered
  <2>2. frames' = <<WRITTEN>>
    BY <1>1, <2>1
  <2>3. Outside(mepc)'
    BY <1>1, <2>1 DEF Outside, After
  <2>4. OneTrap(r, WRITTEN)'
    BY <1>1, <2>1, <2>2, <2>3 DEF OneTrap, At
  <2> QED
    BY <2>4 DEF Shape
<1>4. ASSUME NEW outer, NEW r, NEW saved, TwoTraps(outer, r, saved) PROVE Shape'
  <2>1. r.pc = After(mepc) /\ frames = <<saved, frames[2]>>
    BY <1>1, <1>4 DEF TwoTraps, At
  <2>2. frames' = <<saved, WRITTEN>>
    <3>1. PICK top : frames = <<saved, top>>
      BY <2>1
    <3> QED
      BY <1>1, <3>1
  <2>3. TwoTraps(outer, r, saved)'
    BY <1>1, <1>4, <2>1, <2>2 DEF TwoTraps, At
  <2> QED
    BY <2>3 DEF Shape
<1> QED
  BY <1>2, <1>3, <1>4, ShapeIsInIInv DEF Shape
(* The nested call is always a write: sys_exit is of the outer trap.         *)
LEMMA ExitShape ==
  ASSUME IInv, sys_exit
  PROVE  Shape'
<1>1. /\ pc[1] = "syscall" /\ a7 # "write"
      /\ pc' = At("printf")
      /\ UNCHANGED <<frames, MIE, report, resumes>>
  BY DEF sys_exit, Executes, regVars, csrVars, histVars
<1>2. ~NoTrap /\ \A outer, r, saved : ~TwoTraps(outer, r, saved)
  BY <1>1, OnlyProgramWithoutTrap DEF sys_exit, TwoTraps
<1>3. PICK r, saved : OneTrap(r, saved)
  BY <1>2, ShapeIsInIInv DEF Shape
<1>4. OneTrap(r, saved)'
  BY <1>1, <1>3 DEF OneTrap, At
<1> QED
  BY <1>4 DEF Shape

LEMMA ExceptionShape ==
  ASSUME IInv, exception
  PROVE  Shape'
<1>1. /\ pc[1] = "exception"
      /\ report' = <<a0, mepc>>
      /\ pc' = At("printf")
      /\ UNCHANGED <<frames, MIE, resumes>>
  BY DEF exception, Executes, regVars, csrVars, histVars
<1>2. ~NoTrap /\ \A outer, r, saved : ~TwoTraps(outer, r, saved)
  BY <1>1, OnlyProgramWithoutTrap DEF exception, TwoTraps, At
<1>3. PICK r, saved : OneTrap(r, saved)
  BY <1>2, ShapeIsInIInv DEF Shape
<1>4. /\ resumes = <<r>> /\ frames = <<saved>> /\ MIE = FALSE
      /\ r.pc = mepc /\ r.cause = a0
  BY <1>1, <1>3 DEF OneTrap, At, Entered
<1>5. OneTrap(r, saved)'
  BY <1>1, <1>4 DEF OneTrap, At
<1> QED
  BY <1>5 DEF Shape

(* puts and printf trap with a trap open, and only with one.                 *)
LEMMA LibraryEcallShape ==
  ASSUME IInv, LibraryEcall
  PROVE  Shape'
<1>1. /\ pc[1] \in {"puts", "printf"} /\ pc[2] = 0
      /\ a7' = "write"
      /\ mepc' = pc /\ mcause' = ECALL /\ MPIE' = MIE /\ MIE' = FALSE
      /\ pc' = At("_trap_handler")
      /\ UNCHANGED <<frames, report, ignored>>
  BY DEF LibraryEcall, EnterTrap, Executes
<1>2. PICK new : /\ resumes' = Append(resumes, new)
                 /\ new.pc = After(pc) /\ new.a0 = WRITTEN /\ new.MIE = MIE
                 /\ new.cause = ECALL
  BY DEF LibraryEcall, EnterTrap
<1>3. ~NoTrap /\ \A outer, r, saved : ~TwoTraps(outer, r, saved)
  BY <1>1, OnlyProgramWithoutTrap DEF LibraryEcall, TwoTraps, At
<1>4. PICK r, saved : OneTrap(r, saved)
  BY <1>3, ShapeIsInIInv DEF Shape
<1>5. /\ resumes = <<r>> /\ frames = <<saved>> /\ MIE = FALSE
      /\ \/ pc = <<"printf", 0>>
         \/ pc = <<"puts", 0>> /\ ignored /\ r.MIE = TRUE
      /\ report = <<>> \/ report = <<r.cause, r.pc>>
      /\ report # <<>> => pc[1] = "printf"
  BY <1>1, <1>4 DEF OneTrap, At
<1>6. resumes' = <<r, new>>
  BY <1>2, <1>5, Stacks
<1>7. new.pc = After(mepc')
  BY <1>1, <1>2
<1>8. TwoTraps(r, new, saved)'
  <2>1. CASE pc = <<"printf", 0>>
    <3>1. new.pc = <<"printf", 1>>
      BY <1>2, <2>1 DEF After
    <3> QED
      BY <1>1, <1>2, <1>5, <1>6, <1>7, <3>1 DEF TwoTraps, At
  <2>2. CASE pc = <<"puts", 0>> /\ ignored /\ r.MIE = TRUE
    <3>1. new.pc = <<"puts", 1>>
      BY <1>2, <2>2 DEF After
    <3>2. report = <<>>
      BY <1>5, <2>2
    <3> QED
      BY <1>1, <1>2, <1>5, <1>6, <1>7, <2>2, <3>1, <3>2 DEF TwoTraps, At
  <2> QED
    BY <1>5, <2>1, <2>2
<1> QED
  BY <1>8 DEF Shape

LEMMA PutsReturnsShape ==
  ASSUME IInv, PutsReturns
  PROVE  Shape'
<1>1. /\ pc[1] = "puts" /\ pc[2] = 1
      /\ pc' = At("_trap_return")
      /\ UNCHANGED <<a0, mepc, mcause, MIE, MPIE, frames, report, resumes, ignored>>
  BY DEF PutsReturns, Executes, regVars, csrVars, histVars
<1>2. ~NoTrap /\ \A outer, r, saved : ~TwoTraps(outer, r, saved)
  BY <1>1, OnlyProgramWithoutTrap DEF PutsReturns, TwoTraps, At
<1>3. PICK r, saved : OneTrap(r, saved)
  BY <1>2, ShapeIsInIInv DEF Shape
<1>4. /\ resumes = <<r>> /\ frames = <<saved>> /\ MIE = FALSE /\ report = <<>>
      /\ ignored /\ r.MIE = TRUE /\ MPIE = TRUE /\ mepc = pc /\ pc = <<"puts", 1>>
  BY <1>1, <1>3 DEF OneTrap, At
<1>5. OneTrap(r, saved)'
  BY <1>1, <1>4 DEF OneTrap, At, Outside
<1> QED
  BY <1>5 DEF Shape

LEMMA HaltShape ==
  ASSUME IInv, _halt
  PROVE  Shape'
<1>1. /\ pc[1] = "printf"
      /\ pc' = At("_halt")
      /\ UNCHANGED <<MIE, frames, report, resumes>>
  BY DEF _halt, Executes, csrVars, histVars
<1>2. ~NoTrap /\ \A outer, r, saved : ~TwoTraps(outer, r, saved)
  BY <1>1, OnlyProgramWithoutTrap DEF _halt, TwoTraps, At
<1>3. PICK r, saved : OneTrap(r, saved)
  BY <1>2, ShapeIsInIInv DEF Shape
<1>4. OneTrap(r, saved)'
  BY <1>1, <1>3 DEF OneTrap, At
<1> QED
  BY <1>4 DEF Shape

(* The program goes on, or opens a trap.                                     *)
LEMMA ProgramShape ==
  ASSUME IInv, Program
  PROVE  Shape' /\ Executes("main")
<1>1. CASE \/ \E c \in Irq : register_isr(c) \/ enable_irq(c) \/ disable_irq(c)
           \/ enable_interrupts \/ disable_interrupts
  <2>1. /\ Executes("main") /\ pc' = After(pc)
        /\ UNCHANGED <<resumes, frames, report, ignored>>
    BY <1>1 DEF register_isr, enable_irq, disable_irq, enable_interrupts,
                disable_interrupts, SetMIE, ProgramRuns, histVars
  <2>2. NoTrap /\ pc[1] = "main"
    BY <2>1, ProgramIsNoTrap DEF Executes
  <2>3. NoTrap'
    BY <2>1, <2>2 DEF NoTrap, Outside, After
  <2> QED
    BY <2>1, <2>3 DEF Shape
<1>2. ASSUME NEW n, Ecall(n) PROVE Shape' /\ Executes("main")
  <2>1. NoTrap /\ pc[1] = "main" /\ Executes("main")
    BY <1>2, ProgramIsNoTrap DEF Ecall, Executes
  <2>2. ECALL \notin Irq
    BY TrapsAssumption DEF ECALL
  <2>3. \E r : OneTrap(r, a0)'
    BY <1>2, <2>1, <2>2, EntryOpensTrap DEF Ecall
  <2> QED
    BY <2>1, <2>3 DEF Shape
<1>3. ASSUME NEW cause \in Cause, Faults(cause) PROVE Shape' /\ Executes("main")
  <2>1. NoTrap /\ Executes("main")
    BY <1>3, ProgramIsNoTrap DEF Faults, ProgramRuns
  <2>2. cause # ECALL /\ cause \notin Irq
    BY TrapsAssumption DEF ECALL
  <2>3. \E r : OneTrap(r, a0)'
    BY <1>3, <2>1, <2>2, EntryOpensTrap DEF Faults, regVars
  <2> QED
    BY <2>1, <2>3 DEF Shape
<1> QED
  BY <1>1, <1>2, <1>3 DEF Program

LEMMA StepShape ==
  ASSUME IInv, [Next]_vars
  PROVE  Shape'
<1>1. CASE UNCHANGED vars
  BY <1>1, ShapeIsInIInv, SMTT(20) DEF vars, Shape, NoTrap, OneTrap, TwoTraps, Entered, Serving, Outside
<1>2. CASE Handler
  BY <1>2, TrapHandlerShape, TrapReturnShape, IsrShape, WriteShape, ExitShape,
     ExceptionShape, LibraryEcallShape, PutsReturnsShape, HaltShape DEF Handler
<1> QED
  BY <1>1, <1>2, RaiseShape, InterruptShape, ProgramShape DEF Next

(* Whatever the hart does in a hang: the line stays up and enabled, and the  *)
(* only way out of the traps leads to where it interrupts again.             *)
LEMMA HangStep ==
  ASSUME IInv, [Next]_vars, Hung
  PROVE  Hung' /\ UNCHANGED <<mie, callbacks>>
<1>1. PICK c : c \in pending \cap mie /\ callbacks[c] = "ignore_irq"
  BY DEF Hung
<1>2. (resumes = <<>> => MIE) /\ (resumes # <<>> => resumes[1].MIE)
  BY Zenon DEF Hung
<1>3. ASSUME UNCHANGED <<mie, callbacks>>, c \in pending',
             resumes' = <<>> => MIE', resumes' # <<>> => resumes'[1].MIE
      PROVE  Hung' /\ UNCHANGED <<mie, callbacks>>
  <2>1. mie' = mie /\ callbacks' = callbacks
    BY <1>3
  <2>2. c \in pending' \cap mie' /\ callbacks'[c] = "ignore_irq"
    BY <1>1, <1>3, <2>1
  <2>3. IF resumes' = <<>> THEN MIE' ELSE resumes'[1].MIE
    BY <1>3, Zenon
  <2> QED
    BY <2>1, <2>2, <2>3, Zenon DEF Hung
<1>4. ASSUME UNCHANGED <<mie, callbacks, resumes, MIE>>, c \in pending'
      PROVE  Hung' /\ UNCHANGED <<mie, callbacks>>
  BY <1>2, <1>3, <1>4, Zenon
<1>5. CASE UNCHANGED vars
  BY <1>1, <1>4, <1>5 DEF vars
<1>6. CASE \E irq \in Irq : Raise(irq)
  BY <1>1, <1>4, <1>6 DEF Raise, csrVars, histVars
<1>7. ASSUME NEW irq \in Irq, Interrupt(irq)
      PROVE  Hung' /\ UNCHANGED <<mie, callbacks>>
  <2>1. NoTrap /\ MIE
    BY <1>7, ShapeIsInIInv DEF Shape, OneTrap, TwoTraps, Interrupt
  <2>2. PICK r : resumes' = <<r>> /\ r.MIE = MIE
    <3>1. PICK r : r = [pc |-> pc, a0 |-> a0, MIE |-> MIE, cause |-> irq]
      OBVIOUS
    <3>2. resumes' = Append(resumes, r) /\ resumes = <<>> /\ r.MIE = MIE
      BY <1>7, <2>1, <3>1 DEF Interrupt, EnterTrap, NoTrap
    <3> QED
      BY <3>2, Stacks
  <2>3. resumes' # <<>> /\ resumes'[1] = r
    BY <2>2, Stacks
  <2> QED
    BY <1>1, <1>3, <1>7, <2>1, <2>2, <2>3 DEF Interrupt
<1>8. CASE _trap_return
  <2>1. ~NoTrap /\ UNCHANGED <<mie, callbacks, pending>>
    BY <1>8, OnlyProgramWithoutTrap DEF _trap_return
  <2>2. ASSUME NEW r, NEW saved, OneTrap(r, saved)
        PROVE  Hung' /\ UNCHANGED <<mie, callbacks>>
    <3>1. resumes = <<r>> /\ resumes # <<>> /\ resumes[1] = r
      BY <2>2, Stacks DEF OneTrap
    <3>2. resumes' = <<>>
      BY <1>8, <3>1, Stacks DEF _trap_return
    <3>3. MIE' = r.MIE
      BY <1>8, <2>2, TrapReturnShape
    <3>4. MIE'
      BY <1>2, <3>1, <3>3, Zenon
    <3> QED
      BY <1>1, <1>3, <2>1, <3>2, <3>4
  <2>3. ASSUME NEW outer, NEW r, NEW saved, TwoTraps(outer, r, saved)
        PROVE  Hung' /\ UNCHANGED <<mie, callbacks>>
    <3>1. resumes = <<outer, r>> /\ resumes # <<>> /\ resumes[1] = outer
      BY <2>3, Stacks DEF TwoTraps
    <3>2. resumes' = <<outer>> /\ resumes' # <<>> /\ resumes'[1] = outer
      BY <1>8, <3>1, Stacks DEF _trap_return
    <3>3. resumes'[1].MIE
      BY <1>2, <3>1, <3>2, Zenon
    <3> QED
      BY <1>1, <1>3, <2>1, <3>2, <3>3
  <2> QED
    BY <2>1, <2>2, <2>3, ShapeIsInIInv DEF Shape
<1>9. CASE isr
  <2>1. UNCHANGED <<mie, callbacks, resumes, MIE>>
    BY <1>9 DEF isr, csrVars
  <2>2. c \in pending'
    BY <1>1, <1>9 DEF isr
  <2> QED
    BY <1>4, <2>1, <2>2
<1>10. CASE LibraryEcall
  <2>1. PICK new : resumes' = Append(resumes, new)
    BY <1>10 DEF LibraryEcall, EnterTrap
  <2>2. ~NoTrap /\ \A outer, r, saved : ~TwoTraps(outer, r, saved)
    BY <1>10, OnlyProgramWithoutTrap DEF LibraryEcall, TwoTraps, Executes, At
  <2>3. PICK r, saved : OneTrap(r, saved)
    BY <2>2, ShapeIsInIInv DEF Shape
  <2>4. /\ resumes = <<r>> /\ resumes # <<>> /\ resumes[1] = r
        /\ resumes' = <<r, new>> /\ resumes' # <<>> /\ resumes'[1] = r
    BY <2>1, <2>3, Stacks DEF OneTrap
  <2>5. resumes'[1].MIE
    BY <1>2, <2>4, Zenon
  <2> QED
    BY <1>1, <1>3, <1>10, <2>4, <2>5 DEF LibraryEcall
<1>11. CASE _trap_handler \/ sys_write \/ sys_exit \/ exception \/ PutsReturns \/ _halt
  BY <1>1, <1>4, <1>11
     DEF _trap_handler, sys_write, sys_exit, exception, PutsReturns, _halt, csrVars, histVars
<1>12. ~Program
  BY ProgramShape, ProgramIsNoTrap
<1> QED
  BY <1>5, <1>6, <1>7, <1>8, <1>9, <1>10, <1>11, <1>12 DEF Next, Handler

(* In a hang with no trap open only the interrupt happens.                   *)
LEMMA HangInterrupts ==
  ASSUME IInv, [Next]_vars, Hung, resumes = <<>> \/ pc[1] = "main", pc' # pc
  PROVE  pc' = At("_trap_handler") /\ mcause' \in Irq
<1>1. resumes = <<>>
  <2>1. ASSUME NEW r, NEW saved, OneTrap(r, saved) PROVE pc[1] # "main"
    BY <2>1 DEF OneTrap, At
  <2>2. ASSUME NEW outer, NEW r, NEW saved, TwoTraps(outer, r, saved)
        PROVE  pc[1] # "main"
    BY <2>2 DEF TwoTraps, At
  <2> QED
    BY <2>1, <2>2, ShapeIsInIInv DEF Shape, NoTrap
<1>2. \A function : ~Executes(function)
  BY <1>1 DEF Hung, Executes, Interruptible
<1>3. ~Handler /\ ~Program
  BY <1>2 DEF Handler, _trap_handler, _trap_return, isr, sys_write, sys_exit, exception,
              LibraryEcall, PutsReturns, _halt, Program, ProgramRuns, register_isr,
              enable_irq, disable_irq, enable_interrupts, disable_interrupts, SetMIE,
              Ecall, Faults
<1>4. \A c \in Irq : ~Raise(c)
  BY DEF Raise
<1>5. PICK c \in Irq : Interrupt(c)
  BY <1>3, <1>4 DEF Next, vars
<1> QED
  BY <1>5 DEF Interrupt, EnterTrap

LEMMA StepIgnoredIsHung ==
  ASSUME IInv, [Next]_vars
  PROVE  IgnoredIsHung'
<1>1. CASE isr
  <2>1. ASSUME ignored' = TRUE, ~ignored PROVE Hung'
    <3>1. PICK r : resumes = <<r>> /\ Serving(a0, r)
      BY <1>1, IsrShape
    <3>2. resumes # <<>> /\ resumes[1] = r
      BY <3>1, Stacks
    <3>3. callbacks[a0] = "ignore_irq" /\ UNCHANGED <<pending, mie, callbacks, resumes>>
      BY <1>1, <2>1 DEF isr, IInv, Booleans
    <3> QED
      BY <3>1, <3>2, <3>3 DEF Hung, Serving
  <2>2. ignored' \in BOOLEAN
    BY <1>1, Zenon DEF isr, IInv, Booleans
  <2> QED
    BY <2>1, <2>2, HangStep DEF IInv, IgnoredIsHung
<1>2. CASE ~isr
  <2>1. UNCHANGED ignored
    BY <1>2 DEF Next, Handler, Program, Raise, Interrupt, _trap_handler, _trap_return,
                sys_write, sys_exit, exception, LibraryEcall, PutsReturns, _halt,
                register_isr, enable_irq, disable_irq, enable_interrupts,
                disable_interrupts, SetMIE, Ecall, Faults, histVars, vars
  <2> QED
    BY <2>1, HangStep DEF IInv, IgnoredIsHung
<1> QED
  BY <1>1, <1>2

LEMMA StepBooleans ==
  ASSUME IInv, [Next]_vars
  PROVE  Booleans'
<1> USE DEF IInv, Booleans
<1>1. CASE \/ \E c \in Irq : Raise(c) \/ Interrupt(c)
           \/ UNCHANGED vars
  BY <1>1, Zenon DEF Raise, Interrupt, EnterTrap, csrVars, histVars, vars
<1>2. CASE Handler
  <2>1. CASE _trap_handler \/ sys_write \/ sys_exit \/ exception \/ PutsReturns \/ _halt
    BY <2>1, Zenon DEF _trap_handler, sys_write, sys_exit, exception, PutsReturns, _halt,
                       csrVars, histVars
  <2>2. CASE _trap_return \/ isr \/ LibraryEcall
    BY <2>2, Zenon DEF _trap_return, isr, LibraryEcall, EnterTrap, csrVars, histVars
  <2> QED
    BY <1>2, <2>1, <2>2 DEF Handler
<1>3. CASE Program
  <2>1. CASE \/ \E c \in Irq : register_isr(c) \/ enable_irq(c) \/ disable_irq(c)
             \/ enable_interrupts \/ disable_interrupts
    BY <2>1, Zenon DEF register_isr, enable_irq, disable_irq, enable_interrupts,
                       disable_interrupts, SetMIE, csrVars, histVars
  <2>2. CASE (\E n : Ecall(n)) \/ (\E cause \in Cause : Faults(cause))
    BY <2>2, Zenon DEF Ecall, Faults, EnterTrap
  <2> QED
    BY <1>3, <2>1, <2>2 DEF Program
<1> QED
  BY <1>1, <1>2, <1>3 DEF Next

LEMMA InitIInv == Init => IInv
<1> SUFFICES ASSUME Init PROVE IInv
  OBVIOUS
<1>1. Booleans
  BY Zenon DEF Init, Booleans
<1>2. NoTrap
  BY DEF Init, NoTrap, Outside, At
<1> QED
  BY <1>1, <1>2 DEF Init, IInv, IgnoredIsHung

LEMMA StepIInv == IInv /\ [Next]_vars => IInv'
<1>1. ASSUME IInv, [Next]_vars PROVE Booleans' /\ IgnoredIsHung' /\ Shape'
  BY <1>1, StepBooleans, StepIgnoredIsHung, StepShape
<1>2. (Booleans /\ IgnoredIsHung /\ Shape => IInv)'
  BY ShapeIsInIInv, PTL
<1> QED
  BY <1>1, <1>2

LEMMA AlwaysIInv == Spec => []IInv
BY InitIInv, StepIInv, PTL DEF Spec

-----------------------------------------------------------------------------
(* Unless ignore_irq ran: the program runs exactly when no trap is open, and *)
(* trap code runs with interrupts off above the frame of its trap.           *)
THEOREM TrapsAreDisciplined == Spec => []TrapDiscipline
<1>1. IInv => TrapDiscipline
  <2> SUFFICES ASSUME IInv, ~ignored
               PROVE  /\ (pc[1] = "main") <=> (resumes = <<>>)
                      /\ resumes # <<>> => ~MIE
                      /\ Len(frames) = Len(resumes) - (IF pc[1] = "_trap_handler" THEN 1 ELSE 0)
    BY DEF TrapDiscipline
  <2>1. CASE NoTrap
    <3>1. pc[1] = "main" /\ resumes = <<>> /\ Len(frames) = 0 /\ Len(resumes) = 0
      BY <2>1 DEF NoTrap, Outside
    <3> QED
      BY <3>1
  <2>2. ASSUME NEW r, NEW saved, OneTrap(r, saved)
        PROVE  /\ pc[1] # "main" /\ resumes # <<>> /\ ~MIE
               /\ Len(frames) = Len(resumes) - (IF pc[1] = "_trap_handler" THEN 1 ELSE 0)
    <3>1. resumes # <<>> /\ Len(resumes) = 1 /\ ~MIE
      BY <2>2, Stacks DEF OneTrap
    <3>2. pc[1] # "main"
      BY <2>2 DEF OneTrap, At
    <3>3. Len(frames) = IF pc[1] = "_trap_handler" THEN 0 ELSE 1
      <4>1. CASE pc = At("_trap_handler")
        <5>1. frames = <<>> /\ pc[1] = "_trap_handler"
          BY <2>2, <4>1 DEF OneTrap, At
        <5> QED
          BY <5>1
      <4>2. CASE pc # At("_trap_handler")
        <5>1. frames = <<saved>> /\ pc[1] # "_trap_handler"
          BY <2>2, <4>2 DEF OneTrap, At
        <5> QED
          BY <5>1, Stacks
      <4> QED
        BY <4>1, <4>2
    <3> QED
      BY <3>1, <3>2, <3>3
  <2>3. ASSUME NEW outer, NEW r, NEW saved, TwoTraps(outer, r, saved)
        PROVE  /\ pc[1] # "main" /\ resumes # <<>> /\ ~MIE
               /\ Len(frames) = Len(resumes) - (IF pc[1] = "_trap_handler" THEN 1 ELSE 0)
    <3>1. resumes # <<>> /\ Len(resumes) = 2 /\ ~MIE
      BY <2>3, Stacks DEF TwoTraps
    <3>2. pc[1] # "main"
      BY <2>3 DEF TwoTraps, At
    <3>3. Len(frames) = IF pc[1] = "_trap_handler" THEN 1 ELSE 2
      <4>1. CASE pc = At("_trap_handler")
        <5>1. frames = <<saved>> /\ pc[1] = "_trap_handler"
          BY <2>3, <4>1 DEF TwoTraps, At
        <5> QED
          BY <5>1, Stacks
      <4>2. CASE pc # At("_trap_handler")
        <5>1. pc[1] # "_trap_handler" /\ \E top : frames = <<saved, top>>
          BY <2>3, <4>2 DEF TwoTraps, At
        <5> QED
          BY <5>1, Stacks
      <4> QED
        BY <4>1, <4>2
    <3> QED
      BY <3>1, <3>2, <3>3
  <2> QED
    BY <2>1, <2>2, <2>3, ShapeIsInIInv DEF Shape
<1> QED
  BY AlwaysIInv, <1>1, PTL

(* Unless ignore_irq ran, mret goes back to the interrupted code, behind an  *)
(* ecall, with its a0 and its interrupt mask, although a frame holds neither *)
(* mepc nor mstatus: the one nesting there is never comes back to a mret.    *)
THEOREM TrapsAreTransparent == Spec => TrapTransparent
<1>1. IInv /\ [Next]_vars =>
        [~ignored /\ pc[1] = "_trap_return" =>
           LET r == Last(resumes)
           IN  pc' # pc => pc' = r.pc /\ a0' = r.a0 /\ MIE' = r.MIE]_vars
  <2> SUFFICES ASSUME IInv, Next, ~ignored, pc[1] = "_trap_return", pc' # pc
               PROVE  /\ pc' = Last(resumes).pc /\ a0' = Last(resumes).a0
                      /\ MIE' = Last(resumes).MIE
    BY DEF vars
  <2>1. ~NoTrap
    BY DEF NoTrap, Outside
  <2>2. ~MIE
    BY <2>1, ShapeIsInIInv DEF Shape, OneTrap, TwoTraps
  <2>3. _trap_return
    BY <2>2, ProgramShape
       DEF Next, Handler, Raise, Interrupt, _trap_handler, isr, sys_write, sys_exit,
           exception, LibraryEcall, PutsReturns, _halt, Executes
  <2>4. ASSUME NEW r, NEW saved, OneTrap(r, saved)
        PROVE  /\ Last(resumes) = r
               /\ pc' = r.pc /\ a0' = r.a0 /\ MIE' = r.MIE
    BY <2>3, <2>4, TrapReturnShape, Stacks DEF OneTrap
  <2>5. ASSUME NEW outer, NEW r, NEW saved, TwoTraps(outer, r, saved)
        PROVE  /\ Last(resumes) = r
               /\ pc' = r.pc /\ a0' = r.a0 /\ MIE' = r.MIE
    <3>1. Last(resumes) = r
      <4>1. resumes = <<outer, r>>
        BY <2>5 DEF TwoTraps
      <4> QED
        BY <4>1, Stacks
    <3>2. pc' = r.pc /\ a0' = r.a0 /\ MIE' = r.MIE
      BY <2>3, <2>5, TrapReturnShape
    <3> QED
      BY <3>1, <3>2
  <2> QED
    BY <2>1, <2>4, <2>5, ShapeIsInIInv DEF Shape
<1> QED
  BY AlwaysIInv, <1>1, PTL DEF Spec, TrapTransparent

(* exception reports the program's fault, and not the ecall of its printf.   *)
THEOREM FaultsAreReported == Spec => []ReportIsOfTheFault
<1>1. IInv => ReportIsOfTheFault
  <2> SUFFICES ASSUME IInv, report # <<>>
               PROVE  report = <<resumes[1].cause, resumes[1].pc>>
    BY DEF ReportIsOfTheFault
  <2>1. ~NoTrap
    BY DEF NoTrap
  <2>2. OneTrap(resumes[1], frames[1]) \/ TwoTraps(resumes[1], resumes[2], frames[1])
    BY <2>1 DEF IInv
  <2> QED
    BY <2>2 DEF OneTrap, TwoTraps
<1> QED
  BY AlwaysIInv, <1>1, PTL

(* An interrupt without a callback hangs the program for good.               *)
THEOREM IgnoringHangs == Spec => IgnoredIrqHangs
<1>1. IInv /\ [Next]_vars =>
        [Hung => /\ Hung'
                 /\ (resumes = <<>> \/ pc[1] = "main") /\ pc' # pc =>
                      pc' = At("_trap_handler") /\ mcause' \in Irq
                 /\ UNCHANGED <<mie, callbacks>>]_vars
  BY HangStep, HangInterrupts
<1> QED
  BY AlwaysIInv, <1>1, PTL DEF Spec, IgnoredIrqHangs

-----------------------------------------------------------------------------
(* PerfCounter.                                                              *)

(* A value is made of its halves.                                            *)
LEMMA Halves ==
  ASSUME NEW n \in Nat
  PROVE  /\ HighOf(n) \in Nat
         /\ LowOf(n) \in 0 .. Half - 1
         /\ n = HighOf(n) * Half + LowOf(n)
BY PerfAssumption, Z3 DEF HighOf, LowOf

(* The high half does not decrease.                                          *)
LEMMA HighMonotone ==
  ASSUME NEW a \in Nat, NEW b \in Nat, a <= b
  PROVE  HighOf(a) <= HighOf(b)
<1> DEFINE p == HighOf(a)
<1> DEFINE q == HighOf(b)
<1>1. /\ p \in Nat /\ q \in Nat
      /\ a >= p * Half
      /\ b < q * Half + Half
  <2>1. /\ p \in Nat /\ LowOf(a) \in 0 .. Half - 1
        /\ a = p * Half + LowOf(a)
    BY Halves
  <2>2. /\ q \in Nat /\ LowOf(b) \in 0 .. Half - 1
        /\ b = q * Half + LowOf(b)
    BY Halves
  <2> HIDE DEF p, q
  <2>3. p * Half \in Int /\ q * Half \in Int
    BY <2>1, <2>2, PerfAssumption
  <2> QED
    BY <2>1, <2>2, <2>3, PerfAssumption
<1>2. SUFFICES ASSUME p >= q + 1 PROVE FALSE
  BY <1>1
<1> HIDE DEF p, q
<1>3. p * Half >= (q + 1) * Half
  BY <1>1, <1>2, PerfAssumption
<1>4. (q + 1) * Half = q * Half + Half
  BY <1>1, PerfAssumption
<1> QED
  BY <1>1, <1>3, <1>4, PerfAssumption

(* If the high half was the same before and after the low half was read, the *)
(* two make up the value at that read.                                       *)
LEMMA HalvesAgree ==
  ASSUME NEW a \in Nat, NEW b \in Nat, NEW c \in Nat, a <= b, b <= c,
         HighOf(a) = HighOf(c)
  PROVE  HighOf(a) * Half + LowOf(b) = b
<1>1. HighOf(a) = HighOf(b)
  <2>1. HighOf(a) <= HighOf(b) /\ HighOf(b) <= HighOf(c)
    BY HighMonotone
  <2>2. HighOf(a) \in Nat /\ HighOf(b) \in Nat
    BY Halves
  <2> QED
    BY <2>1, <2>2
<1> QED
  BY <1>1, Halves

(* Where rdcycle stands: instants a <= b <= c between the call and now at    *)
(* which it has read the high half, the low half and the high half again.    *)
Reading ==
  /\ cycle \in Nat /\ called \in Nat /\ called <= cycle
  /\ label = "rdcycle" =>
       \E a \in called .. cycle : rdcycleh = HighOf(a)
  /\ label = "rdcycleh_check" =>
       \E a \in called .. cycle, b \in called .. cycle :
         a <= b /\ rdcycleh = HighOf(a) /\ rdcycle = LowOf(b)
  /\ label = "while" =>
       \E a \in called .. cycle, b \in called .. cycle, c \in called .. cycle :
         /\ a <= b /\ b <= c
         /\ rdcycleh = HighOf(a)
         /\ rdcycle = LowOf(b)
         /\ rdcycleh_check = HighOf(c)

Callers ==
  /\ caller \in {"main", "end_time", "current_time"}
  /\ label \in {"end_time", "current_time"} => caller = label

PerfInv == Reading /\ Callers /\ RdcycleIsAtomic

LEMMA InitPerfInv == PerfInit => PerfInv
BY DEF PerfInit, PerfInv, Reading, Callers, RdcycleIsAtomic

LEMMA StepPerfInv == PerfInv /\ [PerfNext]_perfVars => PerfInv'
<1> SUFFICES ASSUME PerfInv, [PerfNext]_perfVars PROVE PerfInv'
  OBVIOUS
<1> USE DEF PerfInv, Reading, Callers, RdcycleIsAtomic
<1>0. Advance => cycle' \in Nat /\ cycle < cycle'
  BY PerfAssumption DEF Advance
<1>a. CASE ReadCounter
  BY <1>0, <1>a DEF ReadCounter
<1>1. CASE ReadHigh
  <2>1. cycle \in called' .. cycle' /\ rdcycleh' = HighOf(cycle)
    BY <1>0, <1>1 DEF ReadHigh
  <2> QED
    BY <1>0, <1>1, <2>1 DEF ReadHigh
<1>2. CASE ReadLow
  <2>1. PICK a \in called .. cycle : rdcycleh = HighOf(a)
    BY <1>2 DEF ReadLow
  <2>2. /\ a \in called' .. cycle' /\ cycle \in called' .. cycle' /\ a <= cycle
        /\ rdcycleh' = HighOf(a) /\ rdcycle' = LowOf(cycle)
    BY <1>0, <1>2, <2>1 DEF ReadLow
  <2> QED
    BY <1>0, <1>2, <2>2 DEF ReadLow
<1>3. CASE ReadHighAgain
  <2>1. PICK a \in called .. cycle, b \in called .. cycle :
          a <= b /\ rdcycleh = HighOf(a) /\ rdcycle = LowOf(b)
    BY <1>3 DEF ReadHighAgain
  <2>2. /\ a \in called' .. cycle' /\ b \in called' .. cycle'
        /\ cycle \in called' .. cycle' /\ a <= b /\ b <= cycle
        /\ rdcycleh' = HighOf(a) /\ rdcycle' = LowOf(b)
        /\ rdcycleh_check' = HighOf(cycle)
    BY <1>0, <1>3, <2>1 DEF ReadHighAgain
  <2> QED
    BY <1>0, <1>3, <2>2 DEF ReadHighAgain
<1>4. CASE Retry
  BY <1>0, <1>4 DEF Retry, localVars
<1>5. CASE Return
  <2>1. PICK a \in called .. cycle, b \in called .. cycle, c \in called .. cycle :
          /\ a <= b /\ b <= c
          /\ rdcycleh = HighOf(a)
          /\ rdcycle = LowOf(b)
          /\ HighOf(a) = HighOf(c)
    BY <1>5 DEF Return
  <2>2. cycles' = b
    BY <1>5, <2>1, HalvesAgree DEF Return
  <2> QED
    BY <1>0, <1>5, <2>2 DEF Return
<1>6. ASSUME NEW from \in {"main", "end_time", "current_time"},
             Advance, CallRdcycle(from)
      PROVE  PerfInv'
  BY <1>0, <1>6 DEF CallRdcycle
<1>7. CASE SleepReturns
  BY <1>0, <1>7 DEF SleepReturns
<1>8. CASE UNCHANGED perfVars
  BY <1>8 DEF perfVars
<1> HIDE DEF PerfInv
<1>9. CASE ProgramCallsRdcycle \/ SetEndTime \/ Poll
           \/ \E n \in SleepTime : sleep(n)
  BY <1>6, <1>9 DEF ProgramCallsRdcycle, SetEndTime, Poll, sleep
<1> QED
  BY <1>a, <1>1, <1>2, <1>3, <1>4, <1>5, <1>7, <1>8, <1>9 DEF PerfNext, Rdcycle, Sleep

(* rdcycle is atomic for every register width and every delay between its    *)
(* reads.                                                                    *)
THEOREM RdcycleAtomic == PerfSpec => []RdcycleIsAtomic
<1>1. PerfInv => RdcycleIsAtomic
  BY DEF PerfInv
<1> QED
  BY InitPerfInv, StepPerfInv, <1>1, PTL DEF PerfSpec

-----------------------------------------------------------------------------
(* What sleep has computed: end_time is the sum of a cycle since its call    *)
(* and sleep_time, or has wrapped around and is less than sleep_time.        *)
Sleeping ==
  /\ {sleep_time, slept, end_time, cycles} \subseteq Nat
  /\ slept <= called
  /\ cycle < Half * Half
  /\ caller = "current_time" /\ end_time >= sleep_time
       => end_time >= slept + sleep_time

SInv == PerfInv /\ Sleeping

(* A sum that has wrapped around is less than what was added.                *)
LEMMA WrappedIsLess ==
  ASSUME NEW M \in Nat \ {0}, NEW c \in Nat, NEW n \in Nat, c < M,
         (c + n) % M >= n
  PROVE  (c + n) % M = c + n
<1>1. c + n < M \/ c + n >= M
  OBVIOUS
<1>2. ASSUME c + n >= M PROVE (c + n) % M <= c + n - M
  <2>1. PICK q \in Nat, r \in 0 .. M - 1 : c + n = M * q + r /\ (c + n) % M = r
    BY Z3
  <2>2. q # 0
    BY <1>2, <2>1
  <2>3. M * q >= M
    BY <2>1, <2>2
  <2> QED
    BY <2>1, <2>3
<1> QED
  BY <1>1, <1>2, Z3

LEMMA InitSInv == PerfInit => SInv
<1> SUFFICES ASSUME PerfInit PROVE Sleeping
  BY InitPerfInv DEF SInv
<1>1. 0 < Half * Half
  BY PerfAssumption
<1> QED
  BY <1>1 DEF PerfInit, Sleeping

LEMMA StepSInv == SInv /\ [PerfNext]_perfVars => SInv'
<1> SUFFICES ASSUME SInv, [PerfNext]_perfVars PROVE Sleeping'
  BY StepPerfInv DEF SInv
<1>0. Advance => cycle' \in Nat /\ cycle < cycle' /\ cycle' < Half * Half
  BY PerfAssumption DEF Advance, SInv, PerfInv, Reading
<1>1. /\ called \in Nat /\ cycle \in Nat /\ called <= cycle
      /\ label \in {"end_time", "current_time"} => caller = label
      /\ label = caller => called <= cycles /\ cycles <= cycle
  BY DEF SInv, PerfInv, Reading, Callers, RdcycleIsAtomic
<1>2. CASE ReadCounter \/ ReadHigh \/ ReadLow \/ ReadHighAgain \/ Retry
  BY <1>0, <1>1, <1>2
     DEF SInv, Sleeping, ReadCounter, ReadHigh, ReadLow, ReadHighAgain, Retry,
         sleepVars, localVars
<1>3. CASE Return
  <2>1. cycles' \in Nat
    <3>1. PICK a \in called .. cycle, b \in called .. cycle, c \in called .. cycle :
            /\ a <= b /\ b <= c
            /\ rdcycleh = HighOf(a)
            /\ rdcycle = LowOf(b)
            /\ HighOf(a) = HighOf(c)
      BY <1>3 DEF Return, SInv, PerfInv, Reading
    <3> QED
      BY <1>1, <1>3, <3>1, HalvesAgree DEF Return
  <2> QED
    BY <1>0, <1>1, <1>3, <2>1 DEF SInv, Sleeping, Return, sleepVars, localVars
<1>4. CASE ProgramCallsRdcycle
  BY <1>0, <1>1, <1>4 DEF SInv, Sleeping, ProgramCallsRdcycle, CallRdcycle, sleepVars, localVars
<1>5. CASE \E n \in SleepTime : sleep(n)
  BY <1>0, <1>1, <1>5, PerfAssumption DEF SInv, Sleeping, sleep, CallRdcycle, localVars
<1>6. CASE SetEndTime
  <2> DEFINE M == Half * Half
  <2>1. /\ M \in Nat \ {0}
        /\ cycles \in Nat /\ cycles < M /\ slept <= cycles /\ sleep_time \in Nat
    BY <1>1, <1>6, PerfAssumption DEF SInv, Sleeping, SetEndTime
  <2>2. /\ end_time' = (cycles + sleep_time) % M
        /\ UNCHANGED <<sleep_time, slept, cycles>> /\ called' = cycle
    BY <1>6 DEF SetEndTime, CallRdcycle
  <2>3. cycle' < M
    BY <1>0, <1>6 DEF SetEndTime
  <2> HIDE DEF M
  <2>4. end_time' \in Nat
    BY <2>1, <2>2
  <2>5. end_time' >= sleep_time => end_time' = cycles + sleep_time
    BY <2>1, <2>2, WrappedIsLess
  <2>6. slept \in Nat /\ slept <= cycle
    BY <1>1, <1>6 DEF SInv, Sleeping, SetEndTime
  <2> QED
    BY <2>1, <2>2, <2>3, <2>4, <2>5, <2>6 DEF Sleeping, M
<1>7. CASE Poll
  BY <1>0, <1>1, <1>7 DEF SInv, Sleeping, Poll, CallRdcycle, sleepVars, localVars
<1>8. CASE SleepReturns
  BY <1>0, <1>1, <1>8 DEF SInv, Sleeping, SleepReturns, sleepVars, localVars
<1>9. CASE UNCHANGED perfVars
  BY <1>9 DEF SInv, Sleeping, perfVars
<1> QED
  BY <1>2, <1>3, <1>4, <1>5, <1>6, <1>7, <1>8, <1>9 DEF PerfNext, Rdcycle, Sleep

(* sleep does not return early, for every width, delay and sleep_time whose  *)
(* end_time does not wrap around.                                            *)
THEOREM SleepsLong == PerfSpec => SleepsLongEnough
<1>1. SInv /\ [PerfNext]_perfVars =>
        [label = "current_time" /\ label' = "main" /\ end_time >= sleep_time
           => cycle >= slept + sleep_time]_perfVars
  <2> SUFFICES ASSUME SInv, PerfNext, label = "current_time", label' = "main",
                      end_time >= sleep_time
               PROVE  cycle >= slept + sleep_time
    OBVIOUS
  <2>1. SleepReturns
    BY DEF PerfNext, Rdcycle, Sleep, ReadCounter, ReadHigh, ReadLow, ReadHighAgain, Retry,
           Return, ProgramCallsRdcycle, sleep, SetEndTime, Poll, CallRdcycle
  <2>2. /\ caller = "current_time" /\ cycles >= end_time /\ cycles <= cycle
        /\ end_time >= slept + sleep_time
        /\ {sleep_time, slept, end_time, cycles} \subseteq Nat /\ cycle \in Nat
    BY <2>1 DEF SleepReturns, SInv, Sleeping, PerfInv, Callers, RdcycleIsAtomic, Reading
  <2> QED
    BY <2>2
<1> QED
  BY InitSInv, StepSInv, <1>1, PTL DEF PerfSpec, SleepsLongEnough
=============================================================================
