----------------------------- MODULE MC_FormalBus -----------------------------
(* dbus with the code's deadline; three reads without a response are one     *)
(* that the flag knows and two it has forgotten.                             *)
EXTENDS FormalBus
=============================================================================
