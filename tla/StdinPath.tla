------------------------------ MODULE StdinPath ------------------------------
(***************************************************************************)
(* Standard input end to end: the host's pipe, the testbench's ByteDev, the *)
(* interrupt it raises, the ring of the board support package and read of   *)
(* the program.  ByteDev and BspStdin meet at the device register: the byte *)
(* ByteDev holds is the level of the interrupt, and the load in the ISR is  *)
(* the core's acceptance of it.                                             *)
(***************************************************************************)
EXTENDS Integers, Sequences, SequencesExt

CONSTANTS
  STDIN_BUF_SIZE, MaxCount,    (* as in BspStdin                            *)
  BUFSIZ, EOF, MaxBytes,       (* as in ByteDev                             *)
  Byte

ASSUME PathAssumption ==
  /\ STDIN_BUF_SIZE \in Nat \ {0}
  /\ MaxCount \in Nat
  /\ 0 \in Byte
  /\ BUFSIZ \in Nat \ {0}
  /\ MaxBytes \in Nat
  /\ EOF \notin Byte

VARIABLES
  pipe, closed, buffer, eof, hasStdinByte, currentStdinByte, reset,
  written, delivered,
  received, stdin_buf, stdin_buf_rpos, stdin_buf_wpos, byte,
  meie, MIE, MPIE, pc, mepc, frames, count, num_read, a0

deviceVars == <<pipe, closed, buffer, eof, hasStdinByte, currentStdinByte,
                reset, written, delivered>>
bspVars == <<received, stdin_buf, stdin_buf_rpos, stdin_buf_wpos, byte, meie,
             MIE, MPIE, pc, mepc, frames, count, num_read, a0>>
vars == <<deviceVars, bspVars>>

Device == INSTANCE ByteDev

(* What BspStdin calls sent are the bytes that have reached the register.    *)
Bsp == INSTANCE BspStdin WITH
         dev <- Device!Held,
         sent <- delivered \o Device!Held,
         MaxSent <- MaxBytes

Init == Device!Init /\ Bsp!Init

Host ==
  /\ (\E b \in Byte : Device!HostWrites(b)) \/ Device!HostCloses
  /\ UNCHANGED bspVars

ReleaseReset == Device!ReleaseReset /\ UNCHANGED bspVars

(* A cycle in which the core does not load from the device.                  *)
Eval == Device!eval(FALSE) /\ UNCHANGED bspVars

(* The cycle of the ISR's load: the ISR gets what the device lets go of.     *)
IsrLoad ==
  /\ pc = "isr_load"
  /\ Device!eval(TRUE)
  /\ byte' = SubSeq(delivered', Len(delivered) + 1, Len(delivered'))
  /\ pc' = "isr_store"
  /\ UNCHANGED <<received, stdin_buf, stdin_buf_rpos, stdin_buf_wpos, meie, MIE,
                 MPIE, mepc, frames, count, num_read, a0>>

(* The rest of the program and its handlers; in reset nothing executes.      *)
Core ==
  /\ ~reset
  /\ UNCHANGED deviceVars
  /\ \/ Bsp!TakeInterrupt \/ Bsp!IsrCheck \/ Bsp!IsrStore \/ Bsp!TrapReturn
     \/ Bsp!SysRead
     \/ Bsp!Program

Next == Host \/ ReleaseReset \/ Eval \/ IsrLoad \/ Core

Spec == Init /\ [][Next]_vars

(* The simulation goes on and, as in BspStdin, the program keeps enabling    *)
(* interrupts and reading.                                                   *)
FairSpec ==
  /\ Spec
  /\ WF_vars(ReleaseReset)
  /\ WF_vars(Eval)
  /\ WF_vars(IsrLoad)
  /\ WF_vars(Core /\ (Bsp!IsrCheck \/ Bsp!IsrStore \/ Bsp!TrapReturn
                        \/ Bsp!SysRead \/ Bsp!init_stdin))
  /\ SF_vars(Core /\ Bsp!TakeInterrupt)
  /\ SF_vars(Core /\ Bsp!enable_interrupts)
  /\ SF_vars(Core /\ \E n \in 1 .. MaxCount : Bsp!EcallRead(Bsp!STDIN_FILENO, n))

-----------------------------------------------------------------------------
(* ByteDev behaves as BspStdin takes its device to: a byte stays up until    *)
(* the ISR's load, which takes it away, and the end of the file is no byte.  *)
BspImplements == Bsp!Spec

(* Everything between the host's write and the program's read is one queue:  *)
(* ring, ISR, device register, library buffer and pipe, in this order.       *)
Fifo == INSTANCE ByteFifo WITH
          Capacity <- MaxBytes,
          queue <- Bsp!RingContents \o byte \o Device!Held \o buffer \o pipe,
          delivered <- received

EndToEnd == Fifo!Spec

(* A host that ends its input within the ring's room sees all of it read.    *)
InputIsRead ==
  [](Len(written) < STDIN_BUF_SIZE) => (closed ~> (received = written))

(* Bytes that have left the pipe and not the library's buffer.               *)
Waiting == buffer # <<>> /\ pipe = <<>> /\ ~closed /\ ~hasStdinByte

(* select does not see them: of a line the host has written and the program  *)
(* waits for, all but the first bytes stay in the testbench until the host   *)
(* writes more or closes its end, whatever the program does.                 *)
LineWaits == [][Waiting => Waiting' \/ pipe' # pipe \/ closed']_vars

=============================================================================
