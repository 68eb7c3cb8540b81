----------------------------- MODULE MC_Testbench -----------------------------
(* A limit some cycles after the reset, and results of two bits: none, pass, *)
(* failure, and a negative one.  Programs of three calls that print with and *)
(* without newline or a byte 4, and ask for memory up to the last address,   *)
(* past it, and down to the stack.                                           *)
EXTENDS Testbench

MCChar == {"c", "m", "nl"}

MCText == {<<"c">>, <<"c", "nl">>, <<"EOT", "c">>}

MCMessage == <<"m", "nl">>

MCIncrement == {1, 5, 15, -4, -16}

MCArgv ==
  {<<"sim">>,
   <<"sim", "prog">>,
   <<"sim", "--help">>,
   <<"sim", "--help", "prog">>,
   <<"sim", "--dump-mem", "prog">>,
   <<"sim", "--dump-fst", "a", "--log-stores", "b", "--dump-mem", "c", "prog">>,
   <<"sim", "--dump-mem", "--dump-fst", "a", "prog">>,
   <<"sim", "--dump-mem", "--help", "prog">>,
   <<"sim", "prog", "--dump-mem">>}

MCInitialFiles ==
  [f \in UNION {Range(line) : line \in MCArgv} |-> IF f = "prog" THEN "image" ELSE "none"]
=============================================================================
