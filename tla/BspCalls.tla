------------------------------ MODULE BspCalls ------------------------------
(***************************************************************************)
(* The system calls of the BSP (syscalls.c) other than read, with the parts *)
(* of newlib that make them: a program prints, asks for memory and ends.    *)
(* Its stores to the character device leave through charOut, one in a step. *)
(* Traps is about how a call gets to its handler and back.                  *)
(***************************************************************************)
EXTENDS Integers, Sequences, SequencesExt

CONSTANTS
  Text,       (* what the program prints with one printf; a newline comes   *)
              (* last                                                       *)
  Message,    (* "Exiting with status ...", "Unsupported syscall ..."       *)
  NL,         (* the newline                                                *)
  CHARDEV_EOT,
  WORD,       (* number of addresses, 2^32 in the code                      *)
  _end, STACK_SIZE,  (* the end of the program, 256 MB                      *)
  Increment,  (* arguments of sbrk: the program asks for memory or, below 0, *)
              (* gives the last of it back                                  *)
  MaxCalls    (* bound: calls of the program                                *)

VARIABLES
  outbuf,        (* newlib's buffer of stdout                               *)
  unwritten,     (* what sys_write has not yet stored                       *)
  ending,        (* no, exit: in sys_exit before its printf, halt: behind   *)
  halted,
  sys_brk_init, brk,
  heap_end,      (* newlib's end of the heap, 0 before the first sbrk       *)
  calls,         (* the calls made                                          *)
  said,          (* history: what was given to printf                       *)
  given          (* history: the addresses each sbrk has given the program  *)

outVars == <<outbuf, unwritten, ending, halted, said>>
heapVars == <<sys_brk_init, brk, heap_end, given>>
bspVars == <<outVars, heapVars, calls>>

STDOUT_FILENO == 1
STDERR_FILENO == 2
EBADF == 9

(* _boot leaves the stack pointer behind the stack, and the heap begins there *)
heap_pointer == ((_end + STACK_SIZE) \div 8) * 8

(* Programs are linked to the upper half of the addresses, and malloc makes  *)
(* no request of half of them or more.  The last messages end their line.    *)
ASSUME CallsAssumption ==
  /\ {_end, STACK_SIZE, WORD, MaxCalls} \subseteq Nat
  /\ WORD % 2 = 0 /\ WORD \div 2 <= heap_pointer /\ heap_pointer < WORD
  /\ Increment \subseteq -(WORD \div 2) .. (WORD \div 2) - 1
  /\ \A text \in Text : text # <<>>
  /\ Message # <<>> /\ Last(Message) = NL

BspInit ==
  /\ outbuf = <<>>
  /\ unwritten = <<>>
  /\ ending = "no"
  /\ halted = FALSE
  /\ sys_brk_init = FALSE
  /\ brk = 0
  /\ heap_end = 0
  /\ calls = 0
  /\ said = <<>>
  /\ given = <<>>

-----------------------------------------------------------------------------
fstatOfAFile(fd) ==
  IF fd = STDOUT_FILENO THEN [ret |-> 0, st_mode |-> "S_IFREG"] ELSE [ret |-> -EBADF]

(* 020600 is a character device.                                             *)
sys_fstat(fd) ==
  IF fd = STDOUT_FILENO THEN [ret |-> 0, st_mode |-> "S_IFCHR"] ELSE [ret |-> -EBADF]

(* sys_write stores byte by byte; the program goes on when it has returned.  *)
sys_write(fd, bytes) ==
  unwritten' = IF fd = STDOUT_FILENO THEN bytes ELSE <<>>

StoreByte(charOut) ==
  /\ unwritten # <<>>
  /\ charOut = <<Head(unwritten)>>
  /\ unwritten' = Tail(unwritten)
  /\ UNCHANGED <<outbuf, ending, halted, said, heapVars, calls>>

(* newlib keeps what is printed until a newline if stdout is a terminal,     *)
(* which it asks fstat for, and until its buffer is full otherwise.          *)
isatty(fd) == sys_fstat(fd).ret = 0 /\ sys_fstat(fd).st_mode = "S_IFCHR"

printf(text) ==
  /\ said' = said \o text
  /\ IF isatty(STDOUT_FILENO) /\ Last(text) = NL
     THEN sys_write(STDOUT_FILENO, outbuf \o text) /\ outbuf' = <<>>
     ELSE outbuf' = outbuf \o text /\ UNCHANGED unwritten

-----------------------------------------------------------------------------
(* brk is set to heap_pointer by the first call.                             *)
Brk == IF sys_brk_init THEN brk ELSE heap_pointer

AnyAddress(addr) == TRUE

AboveStack(addr) == addr >= heap_pointer

BrkReturns(addr) ==
  IF addr = 0 THEN Brk ELSE IF AboveStack(addr) THEN addr ELSE WORD - 1

sys_brk(addr) ==
  /\ sys_brk_init' = TRUE
  /\ brk' = IF addr # 0 /\ AboveStack(addr) THEN addr ELSE Brk

(* newlib's sbrk asks for the break once and moves it by incr, modulo the    *)
(* word; it fails if the answer is not the address it has asked for.         *)
HeapEnd == IF heap_end = 0 THEN BrkReturns(0) ELSE heap_end

Span(from, n) == {(from + k) % WORD : k \in 0 .. n - 1}

sbrk(incr) ==
  LET asked == (HeapEnd + incr) % WORD
      granted == BrkReturns(asked) = asked
  IN  /\ sys_brk(asked)
      /\ heap_end' = IF granted THEN asked ELSE HeapEnd
      /\ given' = IF ~granted THEN given
                  ELSE IF incr > 0 THEN Append(given, Span(HeapEnd, incr))
                  ELSE [n \in DOMAIN given |-> given[n] \ Span(asked, -incr)]

-----------------------------------------------------------------------------
(* The steps of the program between two calls and within one.  Only stores   *)
(* to the character device are seen outside.                                 *)
Call ==
  /\ unwritten = <<>>
  /\ ending = "no"
  /\ calls < MaxCalls
  /\ calls' = calls + 1

PrintText ==
  /\ Call
  /\ \E text \in Text : printf(text)
  /\ UNCHANGED <<ending, halted, heapVars>>

(* stderr is not buffered, and its write fails.                              *)
PrintError ==
  /\ Call
  /\ \E text \in Text : sys_write(STDERR_FILENO, text)
  /\ UNCHANGED <<outbuf, ending, halted, said, heapVars>>

Allocate ==
  /\ Call
  /\ \E incr \in Increment : sbrk(incr)
  /\ UNCHANGED outVars

(* exit has newlib write what it has kept before the system call, _exit    *)
(* and an unsupported system call do not.                                    *)
exit ==
  /\ Call
  /\ sys_write(STDOUT_FILENO, outbuf)
  /\ outbuf' = <<>>
  /\ ending' = "exit"
  /\ UNCHANGED <<halted, said, heapVars>>

_exit ==
  /\ Call
  /\ ending' = "exit"
  /\ UNCHANGED <<outbuf, unwritten, halted, said, heapVars>>

(* sys_exit and unsupported_syscall print, and halt.                         *)
sys_exit ==
  /\ ending = "exit"
  /\ unwritten = <<>>
  /\ printf(Message)
  /\ ending' = "halt"
  /\ UNCHANGED <<halted, heapVars, calls>>

_halt(charOut) ==
  /\ ending = "halt"
  /\ unwritten = <<>>
  /\ ~halted
  /\ charOut = <<CHARDEV_EOT>>
  /\ halted' = TRUE
  /\ UNCHANGED <<outbuf, unwritten, ending, said, heapVars, calls>>

BspStep(charOut) ==
  \/ StoreByte(charOut)
  \/ _halt(charOut)
  \/ charOut = <<>> /\ (PrintText \/ PrintError \/ Allocate \/ exit \/ _exit \/ sys_exit)
  \/ charOut = <<>> /\ UNCHANGED bspVars

-----------------------------------------------------------------------------
(* What sbrk gives the program is its own: no two pieces overlap, and none   *)
(* reaches into the program or its stack, although sys_brk has no upper      *)
(* bound and the sum wraps around at the word size.                          *)
HeapIsOwn ==
  /\ \A n \in DOMAIN given : given[n] \subseteq heap_pointer .. WORD - 1
  /\ \A m, n \in DOMAIN given : m # n => given[m] \cap given[n] = {}
=============================================================================
