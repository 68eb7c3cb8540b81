------------------------------ MODULE MC_EvalPy ------------------------------
(* The baseline and one secure mode, two configurations; a program prints    *)
(* three lines into a pipe of one.                                           *)
EXTENDS EvalPy

MCMODES == <<"0", "1">>
MCCONFIGS == <<"75", "10">>
=============================================================================
