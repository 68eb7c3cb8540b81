------------------------------ MODULE FormalBus ------------------------------
(***************************************************************************)
(* One memory bus of the riscv-formal wrapper (wrapper.sv, the part under   *)
(* RISCV_FORMAL_FAIRNESS).  The core drives the command; command ready and  *)
(* response valid are free signals, which the wrapper's assumptions confine *)
(* to what a bus may do.  A state holds the signals of one clock cycle and  *)
(* the wrapper's registers before its edge; an assumption is a condition    *)
(* on every state.  dbus is the bus with writes, ibus the one without.      *)
(***************************************************************************)
EXTENDS Integers

CONSTANTS
  DEADLINE,   (* 4 in the code, counted by registers of three bits          *)
  Write,      (* values of cmd_payload_write: BOOLEAN for dbus, {FALSE} ibus *)
  MaxOwed     (* bound: reads the core has accepted and no response for     *)

ASSUME BusAssumption ==
  /\ DEADLINE \in 1 .. 7
  /\ Write \subseteq BOOLEAN
  /\ MaxOwed \in Nat

VARIABLES
  cmd_valid, cmd_write, rsp_ready, (* the core's side                       *)
  cmd_ready, rsp_valid,            (* the free signals                      *)
  cmd_pending_cycles, rsp_pending_cycles, rsp_pending_valid,
  owed,   (* history: reads accepted before, less the responses taken       *)
  age     (* history: cycles since a read is owed or the last response came *)

signals == <<cmd_valid, cmd_write, rsp_ready, cmd_ready, rsp_valid>>
registers == <<cmd_pending_cycles, rsp_pending_cycles, rsp_pending_valid>>
busVars == <<signals, registers, owed, age>>

-----------------------------------------------------------------------------
NeededForWritesToo(valid, write, ready) == valid /\ ready

rsp_needed(valid, write, ready) == valid /\ ready /\ ~write

Needed == rsp_needed(cmd_valid, cmd_write, cmd_ready)

(* What the registers hold after the edge.                                   *)
NextCmdCycles == IF cmd_valid /\ ~cmd_ready THEN cmd_pending_cycles + 1 ELSE 0

RspCyclesNoReset ==
  IF rsp_pending_valid THEN rsp_pending_cycles + 1 ELSE rsp_pending_cycles

RspCyclesIdleOnly ==
  IF rsp_valid THEN 0
  ELSE IF rsp_pending_valid /\ ~cmd_valid THEN rsp_pending_cycles + 1
  ELSE rsp_pending_cycles

NextRspCycles ==
  IF rsp_valid THEN 0
  ELSE IF rsp_pending_valid THEN rsp_pending_cycles + 1
  ELSE rsp_pending_cycles

NeededWins == Needed \/ (rsp_pending_valid /\ ~rsp_valid)

NextRspPending == ~rsp_valid /\ (Needed \/ rsp_pending_valid)

(* The assumptions, of the signals of a cycle and the registers before it.   *)
Assume(valid, write, ready, rsp, cmd_cycles, rsp_cycles, pending) ==
  /\ cmd_cycles < DEADLINE
  /\ rsp_cycles < DEADLINE
  /\ pending \/ rsp_needed(valid, write, ready) \/ ~rsp

Assumed ==
  Assume(cmd_valid, cmd_write, cmd_ready, rsp_valid,
         cmd_pending_cycles, rsp_pending_cycles, rsp_pending_valid)

ReadAccepted == cmd_valid /\ cmd_ready /\ ~cmd_write

ResponseTaken == rsp_valid /\ rsp_ready

Signals ==
  /\ cmd_valid \in BOOLEAN
  /\ cmd_write \in Write
  /\ rsp_ready \in BOOLEAN
  /\ cmd_ready \in BOOLEAN
  /\ rsp_valid \in BOOLEAN

BusInit ==
  /\ Signals
  /\ cmd_pending_cycles = 0
  /\ rsp_pending_cycles = 0
  /\ rsp_pending_valid = FALSE
  /\ owed = 0
  /\ age = 0
  /\ Assumed

Clock ==
  /\ ReadAccepted => owed < MaxOwed
  /\ cmd_pending_cycles' = NextCmdCycles
  /\ rsp_pending_cycles' = NextRspCycles
  /\ rsp_pending_valid' = NextRspPending
  /\ owed' = owed + (IF ReadAccepted THEN 1 ELSE 0) - (IF ResponseTaken THEN 1 ELSE 0)
  /\ age' = IF rsp_valid \/ owed = 0 THEN 0
            ELSE IF age <= DEADLINE THEN age + 1 ELSE age
  /\ cmd_valid' \in BOOLEAN
  /\ cmd_write' \in Write
  /\ rsp_ready' \in BOOLEAN
  /\ cmd_ready' \in BOOLEAN
  /\ rsp_valid' \in BOOLEAN
  /\ Assumed'

BusNext == Clock

BusSpec == BusInit /\ [][BusNext]_busVars

-----------------------------------------------------------------------------
(* The variables have their types; the counters stay below the deadline, so  *)
(* that three bits hold them.                                                *)
BusTypeOK ==
  /\ Signals
  /\ {cmd_pending_cycles, rsp_pending_cycles} \subseteq 0 .. DEADLINE - 1
  /\ rsp_pending_valid \in BOOLEAN
  /\ owed \in Nat
  /\ age \in 0 .. DEADLINE + 1

(* "asserted when a cmd was sent earlier" (wrapper.sv:103): a response comes *)
(* for a read of this or of an earlier cycle that had none, never for a      *)
(* write, and never twice.                                                   *)
NoUnaskedResponse == rsp_valid => owed > 0 \/ ReadAccepted

forgotten == owed - (IF rsp_pending_valid THEN 1 ELSE 0)

(* "never takes more than 4 cycles" (wrapper.sv:94) is true of responses as  *)
(* long as the flag has not lost count of the reads.                         *)
AnswersInTime == forgotten = 0 => age <= DEADLINE

Overtakes == ReadAccepted /\ rsp_pending_valid

Missed == rsp_valid /\ ~rsp_ready

(* The flag loses a read exactly when the core has one accepted while it     *)
(* waits for the response of another, in the response's own cycle included,  *)
(* or is not ready for a response; no later response makes up for it.        *)
ForgottenForGood ==
  [][/\ forgotten' >= forgotten
     /\ forgotten' > forgotten <=> Overtakes \/ Missed]_busVars

LateCommand == cmd_valid /\ ~cmd_ready /\ cmd_pending_cycles = DEADLINE - 1

LateResponse == owed > 0 /\ ~rsp_valid /\ age >= DEADLINE - 1

(* The assumptions confine the bus and not the core: unless a deadline is    *)
(* being missed, whatever the core does in the next cycle there is something *)
(* the bus may do, so that no trace of the core is assumed away.             *)
EveryCoreIsChecked ==
  ~LateCommand /\ ~LateResponse =>
    \A valid \in BOOLEAN, write \in Write : \E ready, rsp \in BOOLEAN :
      Assume(valid, write, ready, rsp, NextCmdCycles, NextRspCycles, NextRspPending)
=============================================================================
