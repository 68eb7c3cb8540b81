# A TLA+ model of the Proteus ecosystem

The repository surrounds the Proteus RISC-V core (a git submodule, not part of
these sources) with everything needed to run and to study it: a Verilator
testbench, a board support package for newlib, scripts that analyse waveforms,
noninterference tests, benchmarks, and a wrapper for riscv-formal.  This
directory models the parts that have state and order: what the code does is
translated from its source, and checked with TLC and TLAPS.

## 1. Inventory

| Component | State | Operations | Interacts with |
|---|---|---|---|
| BSP stdin (`newlib-bsp/syscalls.c`, `trap.S`, `interrupts.c`) | ring `stdin_buf`, its positions, `mie`, `mstatus` | `external_interrupt_isr`, `sys_read`, `init_stdin`, `enable/disable_interrupts` | the byte device by a level interrupt and a load; the program by ecall |
| BSP traps (`trap.S`, `interrupts.c`, `exceptions.c`) | frames on the program's stack, `mepc`, `callbacks[]` | `_trap_handler`, `_syscall_handler`, `_interrupt_handler`, `_unsupported_trap`, `register_isr`, `enable_irq` | every handler; `puts` and `printf` come back as ecalls |
| BSP heap and output (`syscalls.c`, `link.ld`, `boot.S`) | `brk`, `heap_pointer`, the character device | `sys_brk`, `sys_write`, `sys_fstat`, `sys_close`, `sys_exit`, `_halt` | newlib; CharDev of the testbench, which takes byte 4 for the end |
| BSP performance (`performance.c`) | the 64-bit counters, read as two halves on RV32 | `rdcycle`, `rdinstret`, `sleep` | the core's counters, which advance between two reads |
| Testbench memory (`simulation/main.cpp`, `Memory`) | the word vector, one outstanding read | `eval`, `read`, `write`, `ensureEnoughMemory`, `dump`, load | the core's AXI port, once a cycle |
| Testbench devices (`CharDev`, `TestDev`, `ByteDev`) | `gotEot_`, `result_`, the current stdin byte | `eval` of each | the core's APB devices; the host's stdin through `select` and a buffered stream |
| Testbench loop (`main`, `getArg`, `handle_sigint`) | time, clock, reset, `isDone`, `result` | one turn of the loop, the signal handler | all the devices, in a fixed order |
| Waveform analysis (`waveform-analysis/*.py`) | dictionaries of signal changes | `get_signals_per_change`, `compare_signals`, `get_high_rate`, `strip`, `profile` | VCD files of the testbench |
| Noninterference tests (`noninterference-testing`) | build products shared by the tests | `make` rules; the test programs | testbench, strip, `check_security.py` |
| AMi benchmarks (`benchmarks/ami-suite`) | registers and the data they must leave alone | 13 linearised routines | the core under test |
| SpectreGuard (`benchmarks/spectreguard`) | counters of hits; 12 simulations | `specBench.c`, `eval.py` | testbench |
| Formal wrapper (`formal-verification/riscv-formal`) | one pending flag per bus | `wrapper.sv` | the core's buses, riscv-formal |
| Functional tests, gtkwave, synthesis, install scripts, CI | none at run time | configuration | |

### What is hard here

* **Interleavings.** The stdin ISR and `sys_read` share a ring without a lock;
  what protects them is the hart's interrupt mask alone.  The 64-bit counters
  move between the two reads of `rdcycle`.
* **Nesting.** `_trap_handler` saves registers and not `mepc`; handlers that call
  newlib's output functions execute an ecall inside a trap.
* **Level interrupts and full buffers.** A full ring makes the ISR return
  without acknowledging the device.
* **Order inside a cycle.** The testbench evaluates the core several times per
  clock edge; memory, devices and the end-of-test flags are looked at in a fixed
  order, and the memory answers a read one cycle later through a single slot.
* **Two views of stdin.** `select` looks at the file descriptor, `cin.get` at a
  buffered stream.
* **Ends.** EOT, a test result, SIGINT and the cycle limit may all end the same
  cycle, with different exit codes.
* **Finite traces.** The analysis scripts pair values of two lists of changes,
  and intervals that touch the start or the end of a trace are special.
* **Buffers nobody flushes.** What a program prints stays in newlib's buffer or
  not by what `sys_fstat` says, and `_halt` does not ask.
* **Pipes.** `eval.py` starts all its simulations and reads their pipes one after
  the other; a full pipe stops a simulation, and a process that is waited for
  stops the script.
* **One flag for many.** The wrapper counts unanswered reads with one bit.

## 2. Plan

The order follows what would hurt most if it were wrong: first what a program
on the core relies on (its input, its traps, its memory), then what decides
whether a simulation passed, then the tools and benchmarks around it.

| Step | Modules | Composes or refines | State |
|---|---|---|---|
| 1 | `BspStdin`, `ByteFifo` | `BspStdin` implements the queue `ByteFifo` | done, six theorems |
| 2 | `ByteDev`, `StdinPath` | `StdinPath` = `ByteDev` + `BspStdin`; implements `BspStdin` and `ByteFifo` | done, three theorems |
| 3 | `Traps` | nested ecalls, exceptions, callbacks, `_halt` | done, four theorems |
| 4 | `PerfCounter` | `rdcycle` and `sleep`, RV32 and RV64 | done, two theorems |
| 5 | `SimMemory`, `LineMemory` | `SimMemory` implements `LineMemory` | done, three theorems |
| 6 | `SimLoop` | loop, `CharDev`, `TestDev`, SIGINT, exit code | done, proved with `Testbench` |
| 7 | `Waveform` | extraction and comparison of two traces | done, four theorems |
| 8 | `AmiRoutines`, `Keypad`, `Kruskal`, `AmiSuite` | `AmiSuite` extends the three | done but for twofish, four theorems |
| 9 | `FormalBus` | one bus of `wrapper.sv` with its pending flag | done, five theorems |
| 10 | `BspCalls`, `Testbench` | `Testbench` = command line + `SimLoop` + `BspCalls` | done, four theorems |
| 11 | `VcdStrip`, `StrippedWaveform` | `strip.py` behind the traces of `Waveform` | done, one theorem |
| 12 | `EvalPy` | the script, its simulations and their pipes | done, two theorems |

Every safety property of every passing run is a theorem; what remains with TLC
is liveness (section 6).  The proofs are in a module for each group of
components: `BspStdin_proofs`, `StdinPath_proofs`, `Bsp_proofs` (`Traps` and
`PerfCounter`), `Bus_proofs` (`SimMemory` and `FormalBus`), `Testbench_proofs`,
`Waveform_proofs` (`Waveform`, `VcdStrip` and `StrippedWaveform`) and
`Benchmarks_proofs` (`AmiSuite`, `Keypad`, `Kruskal` and `EvalPy`).  `Induction`
holds the lemmas about numbers that the last three need.

## 3. The modules and the code

Names of actions and variables are those of the source wherever TLA+ allows
them; `PROJECT.json` ("map") gives the lines of each definition.  Definitions
with names like `IsrCheckUnmasks` or `NeverFull` stand in front of the one they
vary and are used by no specification: each is a plausible mistake in the code,
kept to show that a property would see it (see section 4).

**BspStdin** (`newlib-bsp/syscalls.c`, `trap.S`, `interrupts.c`).  One hart, so
`pc` says which piece of code runs; an interrupt may be taken before each
action.  The actions are the accesses to what the ISR and `sys_read` share: the
ISR's test, its load from the device, its store; one turn of `sys_read`'s loop;
`init_stdin` (the constructor); `enable_interrupts`, `disable_interrupts`.
`TakeInterrupt` and `EcallRead` are the hardware's trap entry with
`_trap_handler`, `TrapReturn` is `_trap_return` with `mret`.  `frames` counts
frames rather than holding registers: `Traps` is about those.  The device here
is abstract: any byte, at any time, stays up until it is loaded.

**ByteDev, StdinPath** (`simulation/main.cpp`).  `ByteDev` is one call of `eval`
per cycle over the pipe and the buffer of the C library; `rdata_ready` is the
core's acceptance, true in the cycle of the ISR's load.  `StdinPath` instantiates
both modules over their shared register, with `sent` of `BspStdin` defined as
what has reached that register.  In a step either the core does not touch the
device (`Eval`), or loads from it (`IsrLoad`, both modules at once), or the
program and its handlers go on (`Core`).

**ByteFifo** is the promise: a queue of a capacity, into which a byte goes at the
back and out of which it goes at the front to the program.

**Traps** (`trap.S`, `interrupts.c`, `exceptions.c`, `syscalls.c`).  The program
is any sequence of `ProgramLength` instructions that register callbacks, enable
and mask interrupts, write, fault or make an unknown system call; then it exits.
A code address is a function and an instruction of it, which is all `mepc` is
needed for.  `a0` stands for the registers a frame saves; `frames` is the stack
of what it saved.  `resumes` is a history of what each open trap must restore.
That `puts` and `printf` end in a `write` ecall is newlib's behaviour (external).

**PerfCounter** (`performance.c`).  The counter advances by one to `MaxDelay` in
each action; the locals of `rdcycle` and `sleep` are the variables.  `xlen` says
which of the two builds runs: `ReadCounter` is the one instruction of RV64.
`rdinstret` is the same code over a counter that goes on in the same way.

**SimMemory, LineMemory** (`class Memory`).  One action is one `eval`, on a rising
edge: answer the read of the cycle before, then take a read or a write or
nothing.  `memory`, `size`, `nextReadCycle` and so on are the members.
`LineMemory` knows nothing of growth or of the slot: lines have values from the
start, and a read is answered once in the next cycle.

**SimLoop** (`main`, `CharDev`, `TestDev`, `handle_sigint`).  One turn is one
nanosecond; on rising edges `CycleTurn` does everything the loop does there, in
its order: the devices, then the three tests that set `isDone` and `result`.

**BspCalls** (`syscalls.c`, `boot.S`).  The program between its calls is external,
and so is the part of newlib that makes them: `printf` keeps what it is given
until a newline if `isatty`, which asks `sys_fstat`, says that stdout is a
terminal; `sbrk` asks for the break once and then moves it, and checks the
answer.  The handlers are the code's: `sys_write` stores byte by byte
(`StoreByte`), `sys_brk` looks only at the lower end, `sys_exit` and
`unsupported_syscall` print and halt.  `sys_close` and `sys_lseek` change nothing
and are left out.  Increments of `sbrk` are at most half of the word, as
`malloc` makes them, and `heap_pointer` is above half of the word (the program
begins at 0x80000000).

**Testbench** (`main`, `getArg`).  `main` from its first assertion to its return:
`Abort`, `Help` and `Begin` are what comes before the loop, `LoopTurn` is a turn
of `SimLoop` in which the core either does a step of `BspCalls`, whose byte for
the character device is the `charOut` of that cycle, or nothing, or reports a
result; `Finish` is what follows.  A file is what is in it: the image of a
program, a trace, a log, a memory, or nothing.

**FormalBus** (`wrapper.sv`).  A state is a clock cycle: the signals in it and
the registers before its edge.  An `assume` is a condition on every state; the
core's signals and the two of the bus are free below it.  `owed` and `age` are
histories: the reads without a response, and how long the bus has owed one.

**EvalPy** (`eval.py`).  The script is a process with a phase and a position
(`current`) in the list of simulations; each simulation prints its lines into its pipe, may
break off at any time (limit, SIGINT), and ends.  A line is the total it
contains, or none.

**VcdStrip, StrippedWaveform** (`strip.py`).  Lines are records with a kind.  The
two loops of `strip.py` run over one file, the second from where the first has
broken off: they are one loop over the lines (`ForLines`) with `in_header`
telling which of the two a line belongs to.  `StrippedWaveform` writes the traces of `Waveform` as VCD
files and says what the stripped file has to hold, by the way such files are
read.

**Waveform** (`waveform_analysis`).  The specification builds two traces cycle by
cycle as the testbench writes them (changes only, at the times of rising edges);
the scripts are operators over `changes`, and the properties compare what they
return with `cycles`, the history of what really happened.  A loop of a script is
a recursive function from its pass to what it has computed by then, here and in
the benchmarks: unlike a fold of the library, its passes can be reasoned about
one by one (section 6).

**AmiRoutines, Keypad, Kruskal, AmiSuite** (`benchmarks/ami-suite`, assembly).  A
mask is a Boolean, a register a signed word of `W` bits; `power2` stands for `2^n`,
of which the provers know nothing.  `Keypad` keeps the
bytes of `.sbss` in the file's layout, because the routine stores one past `pin`
and relies on what is there; `Kruskal` is one action per pass of its loop.

## 4. The runs

All runs are exhaustive for their bounds.  "V" marks a run that ends in a
counterexample on purpose: the property is what a comment or a document of the
repository says.

| Run | Module | Properties | What it shows |
|---|---|---|---|
| `stdin_safety` | `BspStdin` | `NoNestedTrap`, `NoLossNoReorder`, `NoFalseEof`, `StormNeverEnds`, `ImplementsFifo` | Without a lock, by the interrupt mask alone, bytes arrive once and in order; a short read means a drained ring. A full ring with a byte pending never lets the program run again. |
| `stdin_path` | `StdinPath` | `BspImplements`, `EndToEnd`, `InputIsRead`, `LineWaits` | The testbench's device is what `BspStdin` assumes; from the host's write to the program's read there is one queue. Input that fits the ring is read after the host closes its end, a line need not be before. |
| `bsp` | `Traps`, `PerfCounter` | `TrapDiscipline`, `TrapTransparent`, `ReportIsOfTheFault`, `EndIsReached`, `IgnoredIrqHangs`; `RdcycleIsAtomic`, `SleepsLongEnough`, `SleepEnds` | Each trap, the nested ones of `printf` included, resumes where and how it must; exits and faults end the test; an ignored interrupt hangs it. `rdcycle` returns a value of the counter during the call; `sleep` ends and not early. The two share no variable: a program does one or the other. |
| `traps_ignore` V | `Traps` | `IgnoredIrqReturns` | The ecall in `ignore_irq`'s `puts` overwrites `mepc`. |
| `memory` | `SimMemory` | `ImplementsLines`, `DumpRestores` | The growing vector with one read slot is a memory of lines. |
| `testbench` | `Testbench` | `ExitStatus`, `OutputIsComplete`, `HeapIsOwn`, `FilesAreAsAsked`, `EventuallyEnds` | A whole simulation: the exit code in every coincidence of EOT, result, SIGINT and limit; all output of a program that ends by itself is printed, its last message included; what `sbrk` gives is disjoint and above the stack; files are written as asked for; and it ends. |
| `bus` | `FormalBus` | `NoUnaskedResponse`, `AnswersInTime`, `EveryCoreIsChecked`, `ForgottenForGood` | What the wrapper's assumptions admit: no response without a read, a deadline for as long as reads do not overlap, and no core assumed away. |
| `waves` | `StrippedWaveform` | `SamplesAreCycles`, `ChangesAreRetirements`, `ComparisonVerdict`, `HighRate`, `StripKeepsSignals` | What the scripts extract, compare and keep, stated over the cycles. |
| `waves_time` V | `Waveform` | `EqualSignalsEqualTime` | `check_security.py` does not see a difference in time. |
| `waves_diff` V | `Waveform` | `DiffIsEquivalence` | With `--diff` a second trace that goes on after the first has ended is reported to match. |
| `ami` | `AmiSuite` | `BranchesAgree`, `ArithmeticIsModular`, `PinIsFirstPresses`, `SpanningForest` | The linearised routines compute what the branches would, except where section 7 says otherwise (`mulmod16` of two zeros, `modexp2` of a negative exponent). |
| `eval` | `EvalPy` | `ResultsAreOwn`, `OnlyBaselineFailuresShow`, `EveryoneEnds` | The table holds each simulation's own total whatever order they print in, fail or break; only a missing baseline shows; nobody waits forever. |

Each property of a passing run has in `PROJECT.json` a variation of a definition
under which TLC finds it violated, so none holds for reasons that have nothing
to do with the code.

### Bounds, and why they are enough

* `stdin_safety`: a ring of 3 slots holds 2 bytes; 5 bytes fill it, wrap both
  positions and leave one waiting at the device.  Reads of 0 to 3 bytes are
  shorter, equal to and longer than the contents.  Two byte values tell a wrong
  byte from the right one.  The positions only matter modulo the size and their
  difference only through "empty" and "full", and the theorems of section 6 hold
  for every size.
* `stdin_path`: 4 bytes are the ring, the device and one in the testbench; a
  library buffer of 2 bytes keeps one back.
* `bsp`, traps: 2 interrupt lines, so that one rises while another is served; 5
  instructions are enough to register or not, enable, unmask and be interrupted
  at every place before the exit (`traps_ignore` needs 2 of its 4).
  Nesting is never deeper than two: no handler but `puts` and `printf` traps.
* `bsp`, counter: a half of 12 values and at most 2 cycles per instruction; calls begin in
  the first 13 cycles, around the low half's first wrap, which then comes
  between any two reads; a sleep of Half^2 - 5 wraps `end_time`.
* `memory`: lines of 2 words of 2 bytes, an image of one word, so that the first
  line is half image and half new and the second does not exist; 4 cycles are
  a write, a read, an overlapping request and the answer.  Strobes select no
  byte, one, two in different words, or all.
* `testbench`: the limit is at 9 cycles, eight after the reset's one: a line, the exit and
  its message with the end byte take that many.  A period has 4 turns, so that
  there are turns with and without an edge; time has 6 bits, enough for the
  limit; two-bit results are none, pass, failure and negative.  Programs make 3
  calls; they print `c`, a line, or a text with byte 4 in it.  Addresses are 32
  with the heap from 16: requests reach the last address (15), go past it (5
  more), and come back down to the stack and to 0 (-4, -16).  The command lines
  are none, the program alone, `--help` with and without it, all options, an
  option in place of a value, `--help` as one, and the program in place of one.
* `bus`: the code's deadline of 4; with 3 unanswered reads the flag stands for
  one and has forgotten two, the least at which forgetting adds up.
* `eval`: two modes and two configurations have a baseline and another row, and
  a pipe of one line is full after one of three.  Each program file may be new,
  old or missing.
* `waves`: all pairs of runs of up to 3 cycles over 2 values of `pc`; the
  shortest that has a repeated, an idle and a differing cycle.  The header has
  variables before, in and behind an inner scope, equal names in two scopes, a
  second name for an id, and the interface a signal that is not in the file.
* `ami`: words of 8 bits, of which 16 + 1 is a prime as 2^16 + 1 is (mulmod16's
  whole input range, -1 to 16 with both representations of 0); all squares of
  modexp2's y; polls until a 4-bit count has wrapped; all lists of two or three
  edges over 4 vertices, with loops, repetitions and cycles.

## 5. Fairness, and what liveness rests on

* `StdinPath!FairSpec`: the simulation goes on (weak fairness of reset, of
  `Eval` and of the handlers' instructions); a pending enabled interrupt is
  taken; and the program keeps enabling interrupts and reading.  The last two
  are strong fairness, since the program and the mask go back and forth.  It is
  an assumption about the program, not about the code: without a program that
  reads nothing is read.  Nothing is assumed of the host.
* `Traps!TrapFairness`: weak fairness of the handlers only; the program may stop and
  devices need never raise a line.
* `PerfCounter!PerfFairness`: what has begun goes on.
* `Testbench!TestbenchSpec`: the process runs (what comes before the loop, its
  turns, what follows); SIGINT need not come, and nothing is assumed of the
  core: a program may idle in every cycle.
* `EvalPy!FairSpec`: the script and each simulation go on when they can; a
  simulation need not break.  A simulation ends by itself, since the limit ends
  every one (`EventuallyEnds`).

`stdin_safety` and `stdin_path` are checked for deadlock; a device without a
byte or a program that is not interrupted can always move.  The other models
stop on purpose: at the exit, at `_halt`, or at the bound of an exploration.

## 6. What is proved

The theorems hold for all values of the constants that satisfy the assumption of
the module; nothing else is assumed and no step is left open.

| Theorem | Assumes | Argument |
|---|---|---|
| `BspStdin_proofs!TypeCorrect`, `TrapsDoNotNest`, `BytesInOrder` | `StdinAssumption`: the ring has a slot, the bounds are numbers, 0 is a byte | inductive invariant `IInv` |
| `BspStdin_proofs!StormsLast`, `ReadsAreNoEof` | the same | action properties from `IInv` (and `ReadHasByte`) |
| `BspStdin_proofs!StdinIsFifo` | the same | refinement, step by step from `IInv` |
| `StdinPath_proofs!DeviceIsAsAssumed` | `PathAssumption`: as `StdinAssumption`, the library's buffer has room, `EOF` is no byte | refinement, step by step from `DeviceInv` and `BspStdin`'s `IInv` |
| `StdinPath_proofs!RingBehindDevice` | the same | from the last two |
| `StdinPath_proofs!PathIsFifo` | the same | refinement, from the same invariants |
| `StdinPath_proofs!LinesWait` | the same | action property, no invariant needed |
| `Bsp_proofs!TrapsAreDisciplined`, `FaultsAreReported` | `TrapsAssumption`: interrupts, causes and the ecall are different | inductive invariant `IInv` |
| `Bsp_proofs!TrapsAreTransparent`, `IgnoringHangs` | the same | action properties from `IInv` |
| `Bsp_proofs!RdcycleAtomic` | `PerfAssumption` | inductive invariant, two lemmas on halves |
| `Bsp_proofs!SleepsLong` | the same | action property from the invariant `SInv` |
| `Bus_proofs!MemoryTypeOK` | `MemoryAssumption`: a line has words, a word bytes, the image is whole words | inductive invariant |
| `Bus_proofs!MemoryImplementsLines` | the same | refinement, step by step |
| `Bus_proofs!DumpIsRestored` | the same | inductive invariant `Words` |
| `Testbench_proofs!PiecesAreOwn` | `CallsAssumption`: see section 3, `BspCalls` | inductive invariant `HeapInv` |
| `Testbench_proofs!ExitCodeIsRight` | `LoopAssumption`: limit and period fit the counters | inductive invariant `LoopInv` |
| `Testbench_proofs!NothingIsLost` | `TestbenchAssumption`: both ends agree on byte 4, texts consist of characters; the last messages end their line | inductive invariant `OutInv` |
| `Testbench_proofs!FilesAreThoseAsked` | `TestbenchAssumption`: every word of a command line may be a file's name | inductive invariant `FilesInv` |
| `Bus_proofs!BusTypeCorrect`, `NothingUnasked`, `InTime`, `CoreIsFree` | `BusAssumption`: the deadline fits three bits | inductive invariant |
| `Bus_proofs!LostForGood` | the same | action property from the invariant |
| `Benchmarks_proofs!TableIsOwn`, `BaselineDecides` | `EvalAssumption`: a mode and a configuration, each once; pipes have room | inductive invariant `IInv` |
| `Benchmarks_proofs!MasksAgree`, `ArithmeticCorrect` | `WidthAssumption`: words have an even width of at least 8; `SuiteAssumption`: arguments are words, passwords have one length, a portfolio as many quantities as ids | lemmas on what each routine returns |
| `Benchmarks_proofs!PinCorrect` | `KeypadAssumption`: `count` has at least 4 bits | inductive invariant `KeypadInv` |
| `Benchmarks_proofs!ForestSpans` | `KruskalAssumption`: the vertices index `par` | inductive invariant `KruskalInv` |
| `Waveform_proofs!SamplesCorrect`, `ComparisonCorrect`, `ChangesCorrect`, `RateCorrect` | `WaveformAssumption`: the period is even and not 0, signals may be 0 | inductive invariant `WInv`, then an induction over the passes of each loop |
| `Waveform_proofs!StripCorrect` | `HeaderAssumption`: a line ends the header and the declarations, no change is in it, every signal has an id of its own and is in the interface | `WInv`, the loop invariant `StripInv`, and an induction over the cycles of the file |

**BspStdin.**  `NoLossNoReorder` is not inductive: the ISR's store is only right
because the ring was not full when the ISR looked, and nothing in the state
after the test says so.  `HandlerState` adds it: from the test to the store the
byte and the room are still there, and interrupts are off until the ISR is
registered.  That in turn needs `NoNestedTrap` (nobody else can move the
positions while the ISR runs) and `TypeOK`; `IInv` is the conjunction of the
four.  The proof has one step per action; the arithmetic of the ring is in
the lemmas `CountAfterStore` and `CountAfterRead`.  `StormsLast` and `ReadsAreNoEof`
look at one step from a state of `IInv`; for the latter `sys_read` must have
found a byte or taken one (`ReadHasByte`).  `StdinIsFifo` rests on `UnderWay`: by
`NoLossNoReorder` ring, ISR and device together are the bytes of `sent` behind
those received.  Hence a step is a `Put`, a `Get` or nothing according to what it
does to the two histories, and only the room for a `Put` needs `HandlerState`
again.  A corollary of
`TrapsDoNotNest` is that a frame without `mepc` suffices on this path; `Traps`
shows where it does not.

**StdinPath.**  `BspStdin_proofs` is instantiated with the register for its
device, so that its invariant and theorems can be used; that both instances of
`BspStdin` are one is `SameSpec`.  `DeviceInv` is about the testbench's side: what
the host has written is what the core has been given, the register, the library's
buffer and the pipe, in this order.  It makes each cycle without a load a
`DevPresent` or a stutter (`EvalPresents`): a byte that `cin.get` returns is the
next one (`GetTakesFirst`), and there is room for it within the bound.  That a
cycle with a load is `IsrLoad` (`LoadTakes`) needs `HandlerState` of `BspStdin`:
the device still holds what the ISR was called for.  `PathIsFifo` follows from what
has been written being what has been read and what is under way (`AllAccounted`):
a step is a `Put`, a `Get` or nothing by what it does to the two ends, since a
prefix of a sequence determines its rest (`Cancel`).

**Traps.**  `TrapDiscipline` counts traps and frames and says nothing of what is in
them, so it cannot be inductive.  `IInv` says for each number of open traps where
the hart may be and what `mepc`, `MPIE`, `mcause` and the topmost frame are there
(`NoTrap`, `OneTrap`, `TwoTraps`); there are never more than two, because the inner
one is always the write of `puts` or `printf`.  It also holds behind `ignore_irq`,
with the one place outside the program where its `mret` goes: back into `puts`.
`TrapTransparent` then needs that the inner trap of an exception is never followed
by the outer's `mret` (it halts).  `IgnoringHangs` needs `IInv` for the line that is
being served being up: nothing but its own callback takes it down.  With no trap
open interrupts are on and a line is up, so that nothing executes before the
interrupt (`HangInterrupts`).

**PerfCounter.**  `RdcycleIsAtomic` follows from where the reads lie between call
and return (`Reading`, `Callers`).  The heart is `HalvesAgree`: the high half does
not decrease (`HighMonotone`), so if it is the same before and after the low half
is read, it was the same at that read, and the two are the counter then.
`SleepsLong` adds what `sleep` has computed (`Sleeping`): behind `SetEndTime`,
`end_time` is a sum that has not wrapped around, or is less than `sleep_time`
(`WrappedIsLess`), and a poll that ends the loop has returned a cycle that has
passed by then.

**FormalBus.**  None of the four invariants is inductive.  `FlagCounts` ties the
registers to the histories: the flag is up only for a read without a response,
its counter is never ahead of the time since then, and is exactly that time as
long as nothing has been forgotten.  That nothing forgotten comes back is
`Loses`: each edge adds one for a read that overtakes another and one for a
response the core is not ready for.  Together with the deadline, which the
assumptions state of the counter, `InTime` follows; `CoreIsFree` because a bus
that neither accepts nor answers is always allowed one more cycle.

**SimMemory.**  The mapping gives each line the words the vector has and `FILL`
for those it has not.  Growth is then a stutter (`GrowthInvisible`), a write
changes its own line only since ranges of lines are disjoint (`LinesDisjoint`,
`WriteUpdatesLine`), and a read fetches the line as it is (`ReadFetchesLine`).
A pending read is always due in the next cycle or over (`TypeOK`), so the single
slot is never overwritten before it is answered.  For `DumpIsRestored` a word must
be nothing but its bytes (`Words`); then division and remainder find each byte
where `dump` has put it (`PlaceInFile`).

**Testbench.**  Four invariants, one for each property.  `HeapInv`: newlib's end of
the heap is the break, so each piece begins where the last one ended
(`SbrkGrants`: a sum that has wrapped around is below the stack, as requests are at
most half a word, and the one test of `sys_brk` refuses it).  `LoopInv`: time,
clock and cycle count the same turns (`Edges`, `NextEdge`), so that no counter
wraps before the limit ends the run, and `result` is 1 exactly for what was
reported or the limit.  `OutInv`: what has been said is what the host has got and
what newlib still holds, and the end byte comes behind all of it.  `FilesInv`: the
trace and the log are opened before the first turn and the memory is written
behind the last, each if its option is there, and the program's file is the last
word of the command line.  The attempt to prove `FilesAreAsAsked` has shown that
with a file named `--help` a run prints the help instead of simulating;
`DocumentedUse` excludes it now, and `MC_Testbench` has such a command line.
`BeforeEot` chooses the first byte 4 of a text, which exists by `LeastNumber` of
`Induction`.

**Loops.**  What a loop computes needs an induction over its passes.  The
library's induction theorems are about predicates, which none of the provers can
instantiate; `WFMin`, which is about a set, gives `LeastNumber`: a set of numbers
that is not empty has a least one.  From it follow, in `Induction`, induction over a
range (`RangeInduction`: a set that contains the first number and with each number
the next contains all) and that a function defined pass by pass exists (`Recursion`) and is
determined by its steps (`SameSteps`).  A proof about a loop first shows that its
function has the passes the code says (`Sums`, `Passes`, `DeclareLoop`, ...), then
names the set of passes after which its invariant holds.

**Waveform.**  A change alone does not say what the cycles were.  `WInv` ties the trace
to the history: for each signal there is an increasing list of cycles, one for
each change, at whose edges the changes are, and between which the signal keeps
its value (`Placed`).  It is inductive because a cycle either extends the last
interval or begins one (`NextChange`).  Since edges are in the middle of a period and samples
at its ends, the last change before sample k is that of the interval of cycle k
(`SeenAtSample`, `ValueAt`), which is `SamplesCorrect`.  For `ChangesCorrect` the list
after k samples covers the first k cycles (`Covers`): each shown retirement is in it
once and in order, and its last element is the last retirement.  For
`ComparisonCorrect` the same list merges the list of all retirements (`Merges`); two
runs may take different numbers of passes for equal lists, and `MergedAlike` goes
through both.  `RateCorrect` splits the high cycles with low ones on both sides at the places of the changes
(`InsideBefore`): a fall adds exactly those of the interval it ends (`Interval`,
`CountStep`), whose number is the difference of the times over the period.

**VcdStrip.**  `StripInv` holds after each line: in the header the path of `strip.py`
is the reader's, and what has been written declares what the reader knows and the
interface names; behind it the ids are fixed, and an id of the interface has the
same values in both files (`SameValues`).  Hence `StripSelects`, which is about any
file with one header and any set of signals.  That the line behind a bare
`$timescale` is its value, and not a declaration, is assumed in `HeaderEnds`:
`strip.py` writes that line without looking at it.  The rest is about the
testbench's file: it has the header first (`FileHasHeader`), and reading it back
cycle by cycle gives the changes recorded up to that cycle (`ReadUpTo`, `ReadsNext`),
in whatever order the changes of one time are written.

**AmiSuite.**  `BranchesAgree` is about what has been returned, so its proof is a lemma for
each routine; those with a loop say what has been computed after n elements
(`Unlock`, `ShareValue`), and `ModSum` lets sums wrap in any order.  `mulmod16` folds the upper
half of a product onto its lower one with a borrow; `Folded` is that operation, and
`HalvesOfProduct` shows it to be the remainder by Lower + 1, except where that
remainder is Lower, which 0 stands for.  After n passes of `modexp2` the product is the
power for the n bits of k already seen, and y the power for the next bit
(`BitsDone`); the W passes use up every k.

**Keypad.**  `PinIsFirstPresses` is nearly inductive; `KeypadInv` adds that the pressed keys
are keys.  The work is in what one poll does to the bytes: at most one key is new
(`OneDown`), so all passes but one store what they have loaded (`NothingPressed`), also
with a full pin, where `pin + pin_idx` is the address of `pin_idx` itself, and
that one appends the key's digit if there is room (`OnePressed`).

**Kruskal.**  `Connected` quantifies over sets, `par` is a forest, and `mst` names edges by
roots: `KruskalInv` connects them by a function `rep` from each vertex to its root and a
`depth` that decreases with each step of a walk (`Forest`).  At most as deep as edges
have been seen, walks end within `len` steps at `rep` (`WalkToRoot`).  Two vertices have one
`rep` exactly if they are connected (`Trees`); an edge between two trees hangs one under
the other and lowers the number of roots by one (`ForestJoined`, `TreesJoined`), any
other changes nothing (`TreesKept`).  That the masked pass is one or the other is
`TakeEdgeAsTrees`; the words it counts down are in `mst` only at rejected edges.

**EvalPy.**  `IInv` says for each simulation what has become of what it printed: what
is still in its pipe makes of its entry in the table what it has printed
(`PipesAreOwn`, `IsLatest`), a pipe that the loop has left is empty and its
simulation over (`ReadToTheEnd`), and the script has stopped where a baseline has
no total (`Verdict`).  `Division` and `Grid` say that a position in the list of simulations
is a mode and a configuration, and no two positions are the same.

**Assumptions.**  The proofs have shown what the models rely on; each is stated as
an assumption, and the code justifies it: `"ecall"`, cause 11, is
the cause of no fault (`trap.S:57` sends it to `_syscall_handler`); `MODES` and `CONFIGS` are lists in
`eval.py` that name each once (of two equal ones the second would overwrite the
first's results); the two messages before `_halt` end in a newline; `EOT` and
`CHARDEV_EOT` are both 4; a command line is a list of the words it may contain; a
graph's edges are enough for its vertices, which index `par`; a header has one end,
which every VCD file has, and its declarations are before it.

**Only model-checked.**  The liveness properties (`InputIsRead`, `EndIsReached`,
`SleepEnds`, `EventuallyEnds`, `EveryoneEnds`): they hold under fairness, which
the proof system does not handle.  The three V runs refute their properties, and
nothing is proved of those.  `TypeOK` of `BspStdin` and `SimMemory` and `BusTypeOK` are
proved and no run checks them.

## 7. Disagreements found

The V runs show these, with their places in `PROJECT.json` ("findings"):

1. `ignore_irq` does not ignore an interrupt: its `puts` traps inside the trap and
   `mepc` is lost.  The level is still up, so the program in fact hangs
   (`IgnoredIrqHangs`).
2. The noninterference README counts execution time among what must be equal;
   the comparison its script makes leaves time out.
3. `waveform-correctness` is to check the equivalence of two waveforms, and `--diff` to
   display what differs.  With it the first list is walked and the second indexed: a
   second trace that goes on after the end of the first is reported to match, which
   without `--diff` it is not (`DiffIsEquivalence`), and a shorter one ends in an
   `IndexError`.  Wherever the lists have one length both say the same
   (`ComparisonVerdict`).

Met while modelling; the models have it as the code does, and the property named
depends on it where there is one:

* `--log-stores` logs the line's first word for each word of the line, and the
  value before masking (`SimMemory!storesLog`).
* `kruskal-linear.s` counts two registers down where the instructions it keeps
  as comments load -1: a rejected edge leaves root - 1 in `mst`.
* `mulmod16(0, 0)` is 0, not the product 1, and `modexp2` of a negative exponent
  is 1 (`ArithmeticIsModular`); `lookup_val` reads a register it never sets, on a
  path `share_value` does not take (`BranchesAgree`); `sharevalue-linear.s` saves
  two registers above its frame.
* A `TestDev` result with its top bit set is taken for none, and a pass in the
  cycle of the limit exits with 1 (`ExitStatus`).
* A program's exit status does not reach the host: `sys_exit` prints it, and the
  simulation exits with 0.  A byte 4 in the output ends the simulation in the
  middle of it (`OutputIsComplete`).  Output to stderr fails with `EBADF`.
* `--dump-mem` right before the program's name overwrites the program's file
  (`FilesAreAsAsked`).
* The wrapper's comment "never takes more than 4 cycles" (`wrapper.sv:94`) is true
  of a bus without overlapping reads whose core takes every response; the flag
  does not look at `rsp_ready` (`AnswersInTime`, `ForgottenForGood`).
* `eval.py` looks at no exit code: a mode that failed shows as 0% or as the total
  of an older build, and a baseline that failed ends in a division by zero
  (`OnlyBaselineFailuresShow`).
* `strip.py` drops the `$end` of a `$timescale` that takes several lines, warns of
  a missing signal if two share an id, and drops values other than 0, 1 and x.
* `boot.S` stores and `link.ld` reserves 4 bytes for the heap pointer, which
  `sys_brk` reads as a `char*`, 8 bytes on RV64.

## 8. What is not modelled

* The **core** is a submodule and not part of these sources; what the
  testbench and the BSP see of it (trap entry, `mret`, the level interrupt, AXI
  and APB handshakes) is modelled as external where it is used.
* **Registers and stack frames** beyond `a0`: saving and restoring 30 registers is
  a list of loads and stores.  In the benchmarks, the stack and the global `v`.
* **`twofish_key_schedule`**: 2000 lines of table look-ups in a fixed order.
* **Text**: what the testbench and the scripts print, the regular expressions of
  `strip.py` and of the two signal filters, the argument parsers, gtkwave's
  filter.
* **specBench.c** but for the lines it prints: its cipher is third-party code.
* **Build rules**: every noninterference test writes the same `lib.s` and
  `sim.fst`; in which order `make` runs the rules is not in these sources.
* **Configuration**: synthesis, Dockerfile, install scripts, CI, the CPU
  interface JSON, the functional tests (their result is the exit code `SimLoop` is
  about).
