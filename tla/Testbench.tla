------------------------------ MODULE Testbench ------------------------------
(***************************************************************************)
(* A whole run of the testbench (main of simulation/main.cpp): the command  *)
(* line with its files, the loop of SimLoop, and on the core a program of   *)
(* BspCalls, whose stores to the character device are the charOut of a      *)
(* cycle.                                                                   *)
(***************************************************************************)
EXTENDS SimLoop, BspCalls

CONSTANTS
  Argv,         (* the command lines                                        *)
  InitialFiles  (* of each name an argument may be: "image" or "none"       *)

(* The program's device is the host's.  A command line begins with the name  *)
(* of the program.                                                           *)
ASSUME TestbenchAssumption ==
  /\ CHARDEV_EOT = EOT
  /\ Text \cup {Message} \subseteq Seq(Char \cup {EOT})
  /\ \A line \in Argv : line \in Seq(DOMAIN InitialFiles) /\ line # <<>>

VARIABLES
  phase,         (* start, loop, ended                                      *)
  argv,
  memDumpFile,   (* <<>> or the name given to --dump-mem                    *)
  files

mainVars == <<argv, memDumpFile, files>>
testbenchVars == <<vars, bspVars, phase, mainVars>>

TestbenchInit ==
  /\ Init
  /\ BspInit
  /\ phase = "start"
  /\ argv \in Argv
  /\ memDumpFile = <<>>
  /\ files = InitialFiles

-----------------------------------------------------------------------------
(* An option counts if an argument follows it, which is its value whatever   *)
(* it looks like; the first occurrence decides.  argv[1] is the program's    *)
(* own name.                                                                 *)
getArg(arg) ==
  LET found == {k \in 2 .. Len(argv) - 1 : argv[k] = arg}
  IN  IF found = {} THEN <<>>
      ELSE <<argv[(CHOOSE k \in found : \A j \in found : k <= j) + 1]>>

firstArgument == argv[2]

memoryFile == Last(argv)

Loads == Len(argv) >= 2 /\ files[memoryFile] = "image"

(* The assertions on the number of arguments and on the memory file come     *)
(* before all options.                                                       *)
Abort ==
  /\ phase = "start"
  /\ ~Loads
  /\ phase' = "ended"
  /\ UNCHANGED <<vars, bspVars, mainVars>>

Help ==
  /\ phase = "start"
  /\ Loads
  /\ getArg("--help") # <<>>
  /\ phase' = "ended"
  /\ exited' = TRUE
  /\ UNCHANGED <<mainTime, cycle, clk, reset, endVars, bspVars, mainVars>>

(* The log and the trace are opened, which empties them.                     *)
Begin ==
  /\ phase = "start"
  /\ Loads
  /\ getArg("--help") = <<>>
  /\ files' = [f \in DOMAIN files |->
                 IF getArg("--dump-fst") = <<f>> THEN "trace"
                 ELSE IF getArg("--log-stores") = <<f>> THEN "log" ELSE files[f]]
  /\ memDumpFile' = getArg("--dump-mem")
  /\ phase' = "loop"
  /\ UNCHANGED <<argv, vars, bspVars>>

(* In a cycle the core does something of the program or nothing; another     *)
(* program may use TestDev.                                                  *)
LoopTurn ==
  /\ phase = "loop"
  /\ \/ QuietTurn /\ UNCHANGED bspVars
     \/ \E charOut \in {<<>>} \cup {<<c>> : c \in Char \cup {EOT}},
           testDev \in {<<>>} \cup {<<payload>> : payload \in Payload} :
          /\ CycleTurn(charOut, testDev)
          /\ IF reset' THEN UNCHANGED bspVars ELSE BspStep(charOut)
  /\ UNCHANGED <<phase, mainVars>>

Sigint ==
  /\ phase # "ended"
  /\ handle_sigint
  /\ UNCHANGED <<bspVars, phase, mainVars>>

Finish ==
  /\ phase = "loop"
  /\ Exit
  /\ phase' = "ended"
  /\ files' = [f \in DOMAIN files |-> IF memDumpFile = <<f>> THEN "memory" ELSE files[f]]
  /\ UNCHANGED <<bspVars, argv, memDumpFile>>

TestbenchNext == Abort \/ Help \/ Begin \/ LoopTurn \/ Sigint \/ Finish

TestbenchSpec ==
  /\ TestbenchInit /\ [][TestbenchNext]_testbenchVars
  /\ WF_testbenchVars(Abort \/ Help \/ Begin)
  /\ WF_testbenchVars(LoopTurn)
  /\ WF_testbenchVars(Finish)

-----------------------------------------------------------------------------
(* Without EOT, result or SIGINT the limit ends every simulation.            *)
EventuallyEnds == <>(phase = "ended")

BeforeEot(seq) ==
  IF Contains(seq, EOT)
  THEN SubSeq(seq, 1, (CHOOSE k \in DOMAIN seq :
                         seq[k] = EOT /\ \A j \in 1 .. k - 1 : seq[j] # EOT) - 1)
  ELSE seq

(* The host prints what the program has printed, in order, up to its first   *)
(* byte 4.  When the program has ended by itself nothing is left in newlib's *)
(* buffer, its last message included; nothing but its end or a byte 4 of its *)
(* own ends the simulation through the character device.                     *)
OutputIsComplete ==
  /\ IsPrefix(cout, BeforeEot(said))
  /\ halted => cout = BeforeEot(said)
  /\ gotEot_ => halted \/ Contains(said, EOT)

OptionKind ==
  [option \in {"--dump-fst", "--log-stores", "--dump-mem"} |->
     CASE option = "--dump-fst" -> "trace"
       [] option = "--log-stores" -> "log"
       [] option = "--dump-mem" -> "memory"]

(* The options of README.md:86-92, each with a file name, then the program;  *)
(* --help is for itself.                                                     *)
DocumentedUse ==
  LET options == {k \in 2 .. Len(argv) - 1 : k % 2 = 0}
  IN  /\ Len(argv) % 2 = 0
      /\ \A k \in DOMAIN argv : argv[k] \in DOMAIN OptionKind <=> k \in options
      /\ IsInjective(argv)
      /\ ~Contains(argv, "--help")
      /\ InitialFiles[Last(argv)] = "image"

(* Used as documented, a simulation runs and leaves every file it was asked  *)
(* for; and however it is called, it changes a file only if its name follows *)
(* an option, which may be the name of the program itself.                   *)
FilesAreAsAsked ==
  phase = "ended" =>
    /\ \A f \in DOMAIN files : files[f] # InitialFiles[f] =>
         \E k \in 2 .. Len(argv) - 1 : argv[k] \in DOMAIN OptionKind /\ argv[k + 1] = f
    /\ DocumentedUse =>
         /\ exited
         /\ \A k \in 2 .. Len(argv) - 1 : k % 2 = 0 => files[argv[k + 1]] = OptionKind[argv[k]]
=============================================================================
