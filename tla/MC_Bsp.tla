------------------------------- MODULE MC_Bsp -------------------------------
(* The trap path and performance.c, which share no variable and no step: a   *)
(* program takes traps, or it reads the counter and sleeps.                  *)
(*                                                                           *)
(* Halves of a few values stand for 32-bit registers: the low half wraps     *)
(* between any two reads, end_time wraps for the longest sleep.              *)
EXTENDS MC_Traps, PerfCounter

MCSleepTime == {0, 7, 60, Half * Half - 5}

VARIABLE program  (* what it does                                            *)

bspVars == <<program, vars, perfVars>>

BspInit ==
  /\ Init
  /\ PerfInit
  /\ \/ program = "traps" /\ xlen = 32
     \/ program = "sleeps"

BspNext ==
  /\ \/ program = "traps" /\ Next /\ UNCHANGED perfVars
     \/ program = "sleeps" /\ PerfNext /\ UNCHANGED vars
  /\ UNCHANGED program

BspSpec == BspInit /\ [][BspNext]_bspVars /\ TrapFairness /\ PerfFairness
=============================================================================
