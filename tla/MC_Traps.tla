------------------------------- MODULE MC_Traps -------------------------------
(* Two interrupt lines, so that a second one is up while the first is served;*)
(* one faulting instruction.                                                 *)
EXTENDS Traps

MCIrq == {"MTI", "MEI"}
MCCause == {"illegal instruction"}
=============================================================================
