------------------------------ MODULE BspStdin ------------------------------
(***************************************************************************)
(* The stdin path of the board support package, newlib-bsp: the byte device *)
(* raises the machine external interrupt (MEI), external_interrupt_isr      *)
(* moves its byte into the ring stdin_buf, and sys_read, entered by an      *)
(* ecall of the program, empties the ring.  One hart executes everything;   *)
(* the trap entry and mret change mstatus as the RISC-V hart does.          *)
(*                                                                          *)
(* The interrupt line is the level of rdata_valid (the core's               *)
(* external_interruptPending input), and a pending enabled interrupt is     *)
(* taken before the next instruction, also right after an mret.             *)
(***************************************************************************)
EXTENDS Integers, Sequences

CONSTANTS
  STDIN_BUF_SIZE,  (* slots of stdin_buf, 256 in the code                   *)
  Byte,            (* the byte values, 0 (the static buffer's fill) included*)
  MaxSent,         (* bound: bytes the host ever supplies                   *)
  MaxCount         (* bound: largest count the program passes to read       *)

ASSUME StdinAssumption ==
  /\ STDIN_BUF_SIZE \in Nat \ {0}
  /\ 0 \in Byte
  /\ MaxSent \in Nat
  /\ MaxCount \in Nat

VARIABLES
  sent,            (* history: the bytes the byte device has presented      *)
  received,        (* history: the bytes stored to the program's buffer     *)
  dev,             (* the byte on rdata_payload, or none: rdata_valid       *)
  stdin_buf, stdin_buf_rpos, stdin_buf_wpos,
  byte,            (* the ISR's local, a byte between load and store        *)
  meie,            (* mie.MEIE                                              *)
  MIE, MPIE,       (* mstatus.MIE and mstatus.MPIE                          *)
  pc,              (* what the hart executes                                *)
  mepc,            (* where mret resumes; the trap frame does not save it   *)
  frames,          (* trap frames on the program's stack                    *)
  count, num_read, (* sys_read's parameter and local                        *)
  a0               (* the value of the last read, as the program sees it    *)

devVars  == <<sent, dev>>
ringVars == <<stdin_buf, stdin_buf_rpos, stdin_buf_wpos>>
csrVars  == <<meie, MIE, MPIE, mepc>>
readVars == <<count, num_read, a0, received>>
vars == <<sent, received, dev, stdin_buf, stdin_buf_rpos, stdin_buf_wpos,
          byte, meie, MIE, MPIE, mepc, frames, pc, count, num_read, a0>>

STDIN_FILENO  == 0
STDOUT_FILENO == 1
EBADF  == 9
EAGAIN == 11

Slot == 0 .. STDIN_BUF_SIZE - 1

stdin_buf_next_pos(pos) == (pos + 1) % STDIN_BUF_SIZE

stdin_buf_is_empty == stdin_buf_rpos = stdin_buf_wpos

NeverFull == FALSE

stdin_buf_is_full == stdin_buf_next_pos(stdin_buf_wpos) = stdin_buf_rpos

Init ==
  /\ sent = <<>>
  /\ received = <<>>
  /\ dev = <<>>
  /\ stdin_buf = [i \in Slot |-> 0]
  /\ stdin_buf_rpos = 0
  /\ stdin_buf_wpos = 0
  /\ byte = <<>>
  /\ meie = FALSE
  /\ MIE = FALSE
  /\ MPIE = FALSE
  /\ pc = "boot"
  /\ mepc = "boot"
  /\ frames = 0
  /\ count = 0
  /\ num_read = 0
  /\ a0 = 0

-----------------------------------------------------------------------------
(* The device and the hart.                                                 *)

(* ByteDev.eval loads the next stdin byte when it holds none and shows it    *)
(* on rdata_payload with rdata_valid.                                        *)
DevPresent(b) ==
  /\ dev = <<>>
  /\ Len(sent) < MaxSent
  /\ dev' = <<b>>
  /\ sent' = Append(sent, b)
  /\ UNCHANGED <<received, ringVars, byte, csrVars, pc, frames, count,
                 num_read, a0>>

InterruptPending == dev # <<>> /\ meie /\ MIE

(* Entering a trap masks interrupts and saves the old mask in MPIE.          *)
EnterTrap(handler, resume) ==
  /\ MPIE' = MIE
  /\ MIE' = FALSE
  /\ mepc' = resume
  /\ frames' = frames + 1
  /\ pc' = handler

(* _trap_handler, _interrupt_handler and isr(11): the registered callback.   *)
TakeInterrupt ==
  /\ InterruptPending
  /\ EnterTrap("external_interrupt_isr", pc)
  /\ UNCHANGED <<devVars, ringVars, byte, meie, readVars>>

(* _trap_return pops the frame; mret.                                        *)
TrapReturn ==
  /\ pc = "trap_return"
  /\ ~InterruptPending
  /\ MIE' = MPIE
  /\ MPIE' = TRUE
  /\ pc' = mepc
  /\ frames' = frames - 1
  /\ UNCHANGED <<devVars, ringVars, byte, meie, mepc, readVars>>

-----------------------------------------------------------------------------
(* The interrupt service routine, an instruction boundary per access.        *)

IsrCheckUnmasks ==
  /\ pc = "external_interrupt_isr"
  /\ ~InterruptPending
  /\ pc' = IF stdin_buf_is_full THEN "trap_return" ELSE "isr_load"
  /\ MIE' = TRUE
  /\ UNCHANGED <<devVars, ringVars, byte, meie, MPIE, mepc, frames, readVars>>

IsrCheckDropsByte ==
  /\ pc = "external_interrupt_isr"
  /\ ~InterruptPending
  /\ dev' = IF stdin_buf_is_full THEN <<>> ELSE dev
  /\ pc' = IF stdin_buf_is_full THEN "trap_return" ELSE "isr_load"
  /\ UNCHANGED <<sent, ringVars, byte, csrVars, frames, readVars>>

IsrCheck ==
  /\ pc = "external_interrupt_isr"
  /\ ~InterruptPending
  /\ pc' = IF stdin_buf_is_full THEN "trap_return" ELSE "isr_load"
  /\ UNCHANGED <<devVars, ringVars, byte, csrVars, frames, readVars>>

(* The load from 0x20000000 raises rdata_ready: the device drops its byte.   *)
IsrLoad ==
  /\ pc = "isr_load"
  /\ ~InterruptPending
  /\ byte' = dev
  /\ dev' = <<>>
  /\ pc' = "isr_store"
  /\ UNCHANGED <<sent, ringVars, csrVars, frames, readVars>>

IsrStore ==
  /\ pc = "isr_store"
  /\ ~InterruptPending
  /\ stdin_buf' = [stdin_buf EXCEPT ![stdin_buf_wpos] = Head(byte)]
  /\ stdin_buf_wpos' = stdin_buf_next_pos(stdin_buf_wpos)
  /\ byte' = <<>>
  /\ pc' = "trap_return"
  /\ UNCHANGED <<devVars, stdin_buf_rpos, csrVars, frames, readVars>>

-----------------------------------------------------------------------------
(* The program and its system calls.                                         *)

ProgramRuns == pc = "main" /\ ~InterruptPending

(* The constructor init_syscalls registers the ISR, then sets mie.MEIE.      *)
init_stdin ==
  /\ pc = "boot"
  /\ meie' = TRUE
  /\ pc' = "main"
  /\ UNCHANGED <<devVars, ringVars, byte, MIE, MPIE, mepc, frames, readVars>>

enable_interrupts ==
  /\ ProgramRuns
  /\ MIE' = TRUE
  /\ UNCHANGED <<devVars, ringVars, byte, meie, MPIE, mepc, frames, pc,
                 readVars>>

disable_interrupts ==
  /\ ProgramRuns
  /\ MIE' = FALSE
  /\ UNCHANGED <<devVars, ringVars, byte, meie, MPIE, mepc, frames, pc,
                 readVars>>

(* read(fd, buf, n) of the program: ecall, _syscall_handler, sys_read up to  *)
(* its loop.                                                                 *)
EcallReadWithoutEagain(fd, n) ==
  /\ ProgramRuns
  /\ fd = STDIN_FILENO
  /\ count' = n
  /\ num_read' = 0
  /\ EnterTrap("sys_read", "main")
  /\ UNCHANGED <<devVars, ringVars, byte, meie, received, a0>>

EcallRead(fd, n) ==
  /\ ProgramRuns
  /\ count' = n
  /\ num_read' = 0
  /\ \/ /\ fd # STDIN_FILENO
        /\ a0' = -EBADF
        /\ EnterTrap("trap_return", "main")
     \/ /\ fd = STDIN_FILENO
        /\ stdin_buf_is_empty
        /\ a0' = -EAGAIN
        /\ EnterTrap("trap_return", "main")
     \/ /\ fd = STDIN_FILENO
        /\ ~stdin_buf_is_empty
        /\ EnterTrap("sys_read", "main")
        /\ UNCHANGED a0
  /\ UNCHANGED <<devVars, ringVars, byte, meie, received>>

(* One turn of sys_read's loop.                                              *)
ReadByteTooFar ==
  /\ pc = "sys_read"
  /\ ~InterruptPending
  /\ ~stdin_buf_is_empty
  /\ num_read < count
  /\ received' = Append(received, stdin_buf[stdin_buf_next_pos(stdin_buf_rpos)])
  /\ num_read' = num_read + 1
  /\ stdin_buf_rpos' = stdin_buf_next_pos(stdin_buf_rpos)
  /\ UNCHANGED <<devVars, stdin_buf, stdin_buf_wpos, byte, csrVars, pc,
                 frames, count, a0>>

ReadByte ==
  /\ pc = "sys_read"
  /\ ~InterruptPending
  /\ ~stdin_buf_is_empty
  /\ num_read < count
  /\ received' = Append(received, stdin_buf[stdin_buf_rpos])
  /\ num_read' = num_read + 1
  /\ stdin_buf_rpos' = stdin_buf_next_pos(stdin_buf_rpos)
  /\ UNCHANGED <<devVars, stdin_buf, stdin_buf_wpos, byte, csrVars, pc,
                 frames, count, a0>>

ReadDone ==
  /\ pc = "sys_read"
  /\ ~InterruptPending
  /\ stdin_buf_is_empty \/ num_read >= count
  /\ a0' = num_read
  /\ pc' = "trap_return"
  /\ UNCHANGED <<devVars, ringVars, byte, csrVars, frames, count, num_read,
                 received>>

-----------------------------------------------------------------------------
Isr == TakeInterrupt \/ IsrCheck \/ IsrLoad \/ IsrStore \/ TrapReturn

SysRead == ReadByte \/ ReadDone

Program ==
  \/ init_stdin
  \/ enable_interrupts
  \/ disable_interrupts
  \/ \E fd \in {STDIN_FILENO, STDOUT_FILENO}, n \in 0 .. MaxCount :
       EcallRead(fd, n)

Next == (\E b \in Byte : DevPresent(b)) \/ Isr \/ SysRead \/ Program

Spec == Init /\ [][Next]_vars

-----------------------------------------------------------------------------
(* Bytes in the ring, and the slot x places after slot 0 or a ring further.  *)
Count ==
  IF stdin_buf_wpos >= stdin_buf_rpos
  THEN stdin_buf_wpos - stdin_buf_rpos
  ELSE stdin_buf_wpos - stdin_buf_rpos + STDIN_BUF_SIZE

Wrap(x) == IF x < STDIN_BUF_SIZE THEN x ELSE x - STDIN_BUF_SIZE

Pc == {"boot", "main", "external_interrupt_isr", "isr_load", "isr_store",
       "sys_read", "trap_return"}

(* Every variable has its type: the ring positions are slots, the device and *)
(* the ISR's local hold at most one byte.                                    *)
TypeOK ==
  /\ sent \in Seq(Byte)
  /\ received \in Seq(Byte)
  /\ dev \in Seq(Byte)
  /\ Len(dev) <= 1
  /\ stdin_buf \in [Slot -> Byte]
  /\ stdin_buf_rpos \in Slot
  /\ stdin_buf_wpos \in Slot
  /\ byte \in Seq(Byte)
  /\ Len(byte) <= 1
  /\ meie \in BOOLEAN
  /\ MIE \in BOOLEAN
  /\ MPIE \in BOOLEAN
  /\ pc \in Pc
  /\ mepc \in {"boot", "main"}
  /\ frames \in {0, 1}
  /\ count \in Nat
  /\ num_read \in Nat
  /\ a0 \in Int

(* _trap_handler does not save mepc in its frame, so trap code must never be *)
(* interrupted: one frame at most, and none exactly in the program.          *)
NoNestedTrap ==
  /\ frames = IF pc \in {"boot", "main"} THEN 0 ELSE 1
  /\ frames = 1 => ~MIE /\ mepc = "main"

(* What the handlers rely on from one instruction to the next: the byte and   *)
(* the room the ISR has seen are still there, the ISR holds a byte exactly   *)
(* before its store, and interrupts stay off until init_stdin is done.       *)
HandlerState ==
  /\ pc \in {"external_interrupt_isr", "isr_load"} => dev # <<>>
  /\ pc \in {"isr_load", "isr_store"} => ~stdin_buf_is_full
  /\ pc = "isr_store" <=> byte # <<>>
  /\ pc = "boot" => ~MIE /\ ~meie

(* external_interrupt_isr and sys_read share stdin_buf without a lock: what  *)
(* the program has received, the ring from rpos on, the byte between load    *)
(* and store, and the byte on the device are, in this order, exactly the     *)
(* bytes sent: none is lost, duplicated or overtaken.                        *)
NoLossNoReorder ==
  /\ Len(sent) = Len(received) + Count + Len(byte) + Len(dev)
  /\ \A i \in 1 .. Len(received) : received[i] = sent[i]
  /\ \A i \in 0 .. Count - 1 :
       stdin_buf[Wrap(stdin_buf_rpos + i)] = sent[Len(received) + i + 1]
  /\ byte # <<>> => byte[1] = sent[Len(received) + Count + 1]
  /\ dev # <<>> => dev[1] = sent[Len(sent)]

(* sys_read never reports 0, which newlib takes for the end of the file,     *)
(* when the program asked for a byte, and a short count means that the ring  *)
(* was drained.                                                              *)
NoFalseEof ==
  [][pc = "sys_read" /\ pc' # "sys_read" =>
       /\ count > 0 => a0' > 0
       /\ a0' < count => stdin_buf_is_empty]_vars

(* The ring is full, the device holds the next byte and interrupts are on,   *)
(* or will be after the mret.                                                *)
Storm ==
  /\ stdin_buf_is_full
  /\ dev # <<>>
  /\ meie
  /\ pc \in {"main", "external_interrupt_isr", "trap_return"}
  /\ IF pc = "main" THEN MIE ELSE MPIE

(* With the ring full external_interrupt_isr returns without reading the     *)
(* device, whose level keeps the interrupt pending: no instruction of the    *)
(* program, and no sys_read, ever runs again.  A host that is more than      *)
(* STDIN_BUF_SIZE bytes ahead of the program hangs it.                       *)
StormNeverEnds == [][Storm => Storm' /\ UNCHANGED <<received, a0>>]_vars

(* The path as a bounded queue: the ring, the byte in the ISR, the device.   *)
RingContents == [i \in 1 .. Count |-> stdin_buf[Wrap(stdin_buf_rpos + i - 1)]]

Fifo == INSTANCE ByteFifo WITH
          Capacity <- STDIN_BUF_SIZE,
          queue <- RingContents \o byte \o dev,
          delivered <- received

(* The stdin path implements a queue of STDIN_BUF_SIZE bytes.                *)
ImplementsFifo == Fifo!Spec
=============================================================================
