-------------------------------- MODULE Traps --------------------------------
(***************************************************************************)
(* The trap path of newlib-bsp: _trap_handler pushes a frame on the         *)
(* program's stack and dispatches on mcause to isr, syscall or exception.   *)
(* The frame holds the integer registers (a0 stands for them) and neither   *)
(* mepc nor mstatus.  puts and printf, called by ignore_irq, sys_exit,      *)
(* unsupported_syscall and exception, end in a write ecall of newlib: a     *)
(* trap inside the trap.                                                    *)
(*                                                                          *)
(* A code address is <<function, instruction>>; the instruction after addr  *)
(* is what adding 4 to mepc gives.                                          *)
(***************************************************************************)
EXTENDS Integers, Sequences, SequencesExt

CONSTANTS
  Irq,             (* interrupt causes that devices may raise               *)
  Cause,           (* exception causes of illegal or faulting instructions  *)
  ProgramLength    (* bound: instructions of the program before its exit    *)

ASSUME TrapsAssumption ==
  /\ ProgramLength \in Nat
  /\ Irq \cap (Cause \cup {"ecall"}) = {}
  /\ "ecall" \notin Cause

VARIABLES
  pc,         (* the next instruction                                       *)
  a0,         (* register a0: argument of handlers, result of system calls  *)
  a7,         (* the system call's number                                   *)
  mepc, mcause,
  MIE, MPIE,  (* mstatus.MIE and mstatus.MPIE                               *)
  mie,        (* the interrupts enabled one by one                          *)
  pending,    (* the interrupt lines that are up                            *)
  frames,     (* the trap frames on the stack: the saved a0 of each         *)
  callbacks,
  report,     (* what exception prints                                      *)
  eot,        (* has CHARDEV been given CHARDEV_EOT?                        *)
  resumes,    (* history: how each open trap has to resume, innermost last  *)
  ignored     (* history: has ignore_irq answered an interrupt?             *)

regVars == <<a0, a7>>
csrVars == <<mepc, mcause, MIE, MPIE>>
histVars == <<resumes, ignored>>
vars == <<pc, a0, a7, mepc, mcause, MIE, MPIE, mie, pending, frames,
          callbacks, report, eot, resumes, ignored>>

ECALL == "ecall"

WRITTEN == "written"  (* what sys_write returns                            *)

At(function) == <<function, 0>>

After(addr) == <<addr[1], addr[2] + 1>>

Init ==
  /\ pc = At("main")
  /\ a0 = "arg"
  /\ a7 = "none"
  /\ mepc = At("main")
  /\ mcause = "none"
  /\ MIE = FALSE
  /\ MPIE = FALSE
  /\ mie = {}
  /\ pending = {}
  /\ frames = <<>>
  /\ callbacks = [c \in Irq |-> "ignore_irq"]
  /\ report = <<>>
  /\ eot = FALSE
  /\ resumes = <<>>
  /\ ignored = FALSE

-----------------------------------------------------------------------------
(* The hart.                                                                 *)

Interruptible == MIE /\ pending \cap mie # {}

(* An instruction of function at this offset executes.                       *)
Executes(function) == pc[1] = function /\ ~Interruptible

EnterTrap(cause, resume, result) ==
  /\ mepc' = pc
  /\ mcause' = cause
  /\ MPIE' = MIE
  /\ MIE' = FALSE
  /\ pc' = At("_trap_handler")
  /\ resumes' = Append(resumes, [pc |-> resume, a0 |-> result, MIE |-> MIE,
                                  cause |-> cause])

Raise(c) ==
  /\ pending' = pending \cup {c}
  /\ UNCHANGED <<pc, regVars, csrVars, mie, frames, callbacks, report, eot,
                 histVars>>

Interrupt(c) ==
  /\ MIE /\ c \in pending \cap mie
  /\ EnterTrap(c, pc, a0)
  /\ UNCHANGED <<regVars, mie, pending, frames, callbacks, report, eot,
                 ignored>>

-----------------------------------------------------------------------------
(* trap.S                                                                    *)

_trap_handler ==
  /\ Executes("_trap_handler")
  /\ frames' = Append(frames, a0)
  /\ IF mcause \in Irq
     THEN pc' = At("isr") /\ a0' = mcause
     ELSE IF mcause = ECALL
     THEN pc' = At("syscall") /\ a0' = a0
     ELSE pc' = At("exception") /\ a0' = mcause
  /\ UNCHANGED <<a7, csrVars, mie, pending, callbacks, report, eot,
                 histVars>>

_trap_return ==
  /\ Executes("_trap_return")
  /\ a0' = Last(frames)
  /\ frames' = Front(frames)
  /\ MIE' = MPIE
  /\ MPIE' = TRUE
  /\ pc' = mepc
  /\ resumes' = Front(resumes)
  /\ UNCHANGED <<a7, mepc, mcause, mie, pending, callbacks, report, eot,
                 ignored>>

(* _syscall_handler after syscall returned value: it goes into the frame.    *)
SyscallReturnsToEcall(value) ==
  /\ frames' = [frames EXCEPT ![Len(frames)] = value]
  /\ mepc' = mepc
  /\ pc' = At("_trap_return")

SyscallResultInA0(value) ==
  /\ frames' = frames
  /\ mepc' = After(mepc)
  /\ pc' = At("_trap_return")

SyscallReturns(value) ==
  /\ frames' = [frames EXCEPT ![Len(frames)] = value]
  /\ mepc' = After(mepc)
  /\ pc' = At("_trap_return")

-----------------------------------------------------------------------------
(* The handlers.                                                             *)

(* isr calls the registered callback.  One that serves its device lowers the *)
(* line; ignore_irq prints and leaves it up.                                 *)
IsrAlwaysPrints ==
  /\ Executes("isr")
  /\ pending' = pending \ {a0}
  /\ pc' = At("puts")
  /\ UNCHANGED <<regVars, csrVars, mie, frames, callbacks, report, eot,
                 histVars>>

isr ==
  /\ Executes("isr")
  /\ \/ /\ callbacks[a0] = "ignore_irq"
        /\ ignored' = TRUE
        /\ pc' = At("puts")
        /\ UNCHANGED pending
     \/ /\ callbacks[a0] # "ignore_irq"
        /\ pending' = pending \ {a0}
        /\ pc' = At("_trap_return")
        /\ UNCHANGED ignored
  /\ UNCHANGED <<regVars, csrVars, mie, frames, callbacks, report, eot,
                 resumes>>

sys_write ==
  /\ Executes("syscall")
  /\ a7 = "write"
  /\ SyscallReturns(WRITTEN)
  /\ UNCHANGED <<regVars, mcause, MIE, MPIE, mie, pending, callbacks, report,
                 eot, histVars>>

(* sys_exit and unsupported_syscall print and do not return.                 *)
sys_exit ==
  /\ Executes("syscall")
  /\ a7 \in {"exit", "unsupported"}
  /\ pc' = At("printf")
  /\ UNCHANGED <<regVars, csrVars, mie, pending, frames, callbacks, report,
                 eot, histVars>>

(* exception reads mepc before its printf executes an ecall.                 *)
exception ==
  /\ Executes("exception")
  /\ report' = <<a0, mepc>>
  /\ pc' = At("printf")
  /\ UNCHANGED <<regVars, csrVars, mie, pending, frames, callbacks, eot,
                 histVars>>

(* newlib's puts and printf flush a line with a write ecall.                 *)
LibraryEcall ==
  /\ Executes("puts") \/ Executes("printf")
  /\ pc[2] = 0
  /\ a7' = "write"
  /\ EnterTrap(ECALL, After(pc), WRITTEN)
  /\ UNCHANGED <<a0, mie, pending, frames, callbacks, report, eot, ignored>>

(* puts returns to isr and from there to _trap_return.  A device that is not *)
(* served keeps its line up, so outside a trap this is not reached.          *)
PutsReturns ==
  /\ Executes("puts")
  /\ pc[2] = 1
  /\ frames # <<>>
  /\ pc' = At("_trap_return")
  /\ UNCHANGED <<regVars, csrVars, mie, pending, frames, callbacks, report,
                 eot, histVars>>

ReportsAfterPrintf ==
  /\ Executes("printf")
  /\ pc[2] = 1
  /\ eot' = TRUE
  /\ report' = IF report = <<>> THEN <<>> ELSE <<report[1], mepc>>
  /\ pc' = At("_halt")
  /\ UNCHANGED <<regVars, csrVars, mie, pending, frames, callbacks, histVars>>

_halt ==
  /\ Executes("printf")
  /\ pc[2] = 1
  /\ eot' = TRUE
  /\ pc' = At("_halt")
  /\ UNCHANGED <<regVars, csrVars, mie, pending, frames, callbacks, report,
                 histVars>>

-----------------------------------------------------------------------------
(* The program: ProgramLength instructions, then exit.                       *)

ProgramRuns == Executes("main") /\ pc[2] < ProgramLength

register_isr(c) ==
  /\ ProgramRuns
  /\ callbacks' = [callbacks EXCEPT ![c] = "callback"]
  /\ pc' = After(pc)
  /\ UNCHANGED <<regVars, csrVars, mie, pending, frames, report, eot,
                 histVars>>

enable_irq(c) ==
  /\ ProgramRuns
  /\ mie' = mie \cup {c}
  /\ pc' = After(pc)
  /\ UNCHANGED <<regVars, csrVars, pending, frames, callbacks, report, eot,
                 histVars>>

disable_irq(c) ==
  /\ ProgramRuns
  /\ mie' = mie \ {c}
  /\ pc' = After(pc)
  /\ UNCHANGED <<regVars, csrVars, pending, frames, callbacks, report, eot,
                 histVars>>

SetMIE(on) ==
  /\ ProgramRuns
  /\ MIE' = on
  /\ pc' = After(pc)
  /\ UNCHANGED <<regVars, mepc, mcause, MPIE, mie, pending, frames, callbacks,
                 report, eot, histVars>>

enable_interrupts == SetMIE(TRUE)

disable_interrupts == SetMIE(FALSE)

Ecall(n) ==
  /\ Executes("main")
  /\ IF n = "exit" THEN pc[2] = ProgramLength ELSE pc[2] < ProgramLength
  /\ a7' = n
  /\ EnterTrap(ECALL, After(pc), WRITTEN)
  /\ UNCHANGED <<a0, mie, pending, frames, callbacks, report, eot, ignored>>

Faults(cause) ==
  /\ ProgramRuns
  /\ EnterTrap(cause, pc, a0)
  /\ UNCHANGED <<regVars, mie, pending, frames, callbacks, report, eot,
                 ignored>>

-----------------------------------------------------------------------------
Handler ==
  \/ _trap_handler \/ _trap_return \/ isr \/ sys_write \/ sys_exit
  \/ exception \/ LibraryEcall \/ PutsReturns \/ _halt

Program ==
  \/ \E c \in Irq : register_isr(c) \/ enable_irq(c) \/ disable_irq(c)
  \/ enable_interrupts \/ disable_interrupts
  \/ \E n \in {"write", "unsupported", "exit"} : Ecall(n)
  \/ \E cause \in Cause : Faults(cause)

Next ==
  \/ \E c \in Irq : Raise(c) \/ Interrupt(c)
  \/ Handler
  \/ Program

Spec == Init /\ [][Next]_vars

(* The hart executes the handlers; the program may stop.                     *)
TrapFairness == WF_vars(Handler)

-----------------------------------------------------------------------------
Address ==
  {"main"} \X (0 .. ProgramLength + 1)
    \cup {"_trap_handler", "_trap_return", "isr", "syscall", "exception",
          "puts", "printf", "_halt"} \X {0, 1}

(* Every variable has its type; at most one trap is open inside another.     *)
TypeOK ==
  /\ pc \in Address
  /\ a0 \in {"arg", WRITTEN} \cup Irq \cup Cause
  /\ a7 \in {"none", "write", "unsupported", "exit"}
  /\ mepc \in Address
  /\ mcause \in {"none", ECALL} \cup Irq \cup Cause
  /\ {MIE, MPIE} \subseteq BOOLEAN
  /\ {mie, pending} \subseteq SUBSET Irq
  /\ Len(frames) <= 2
  /\ callbacks \in [Irq -> {"ignore_irq", "callback"}]
  /\ report = <<>> \/ report \in Cause \X Address
  /\ {eot, ignored} \subseteq BOOLEAN

(* As long as ignore_irq has answered no interrupt: the program runs exactly *)
(* when no trap is open, and trap code runs with interrupts off and the      *)
(* frame of its trap on the stack.                                           *)
TrapDiscipline ==
  ~ignored =>
  /\ (pc[1] = "main") <=> (resumes = <<>>)
  /\ resumes # <<>> => ~MIE
  /\ Len(frames) = Len(resumes) - (IF pc[1] = "_trap_handler" THEN 1 ELSE 0)

(* Unless ignore_irq ran, mret resumes the interrupted code where its trap   *)
(* began, after the ecall for a system call, with a0 and the interrupt mask  *)
(* it must find there, although no frame holds mepc or mstatus.              *)
TrapTransparent ==
  [][~ignored /\ pc[1] = "_trap_return" =>
       LET r == Last(resumes)
       IN  pc' # pc => pc' = r.pc /\ a0' = r.a0 /\ MIE' = r.MIE]_vars

(* Unless ignore_irq ran, exception prints the cause and the address of the  *)
(* program's fault, and not those of the ecall its own printf executes.      *)
ReportIsOfTheFault ==
  ~ignored /\ report # <<>> => report = <<resumes[1].cause, resumes[1].pc>>

(* Unless ignore_irq ran, after an exit, an unsupported system call or a     *)
(* fault the end-of-test byte reaches CHARDEV: the nested ecall comes back.  *)
EndIsReached ==
  ~ignored /\ (a7 \in {"exit", "unsupported"} \/ mcause \in Cause) ~> eot

(* "IRQ ignored" (ignore_irq): an interrupt nobody registered for is ignored *)
(* and the program goes on where it was.                                     *)
IgnoredIrqReturns == resumes = <<>> => pc[1] = "main"

(* A line that ignore_irq answers is enabled, up, and not masked.            *)
Hung ==
  /\ \E c \in pending \cap mie : callbacks[c] = "ignore_irq"
  /\ IF resumes = <<>> THEN MIE ELSE resumes[1].MIE

(* What happens instead: ignore_irq's puts overwrites mepc, mret goes into   *)
(* puts and the level, still up, interrupts again.  The program never        *)
(* executes another instruction: in it, and wherever the hart is with no     *)
(* trap open, the next thing to happen is the interrupt.                     *)
IgnoredIrqHangs ==
  [][Hung => /\ Hung'
             /\ (resumes = <<>> \/ pc[1] = "main") /\ pc' # pc =>
                  pc' = At("_trap_handler") /\ mcause' \in Irq
             /\ UNCHANGED <<mie, callbacks>>]_vars
=============================================================================
