------------------------------- MODULE Keypad -------------------------------
(***************************************************************************)
(* ami-suite/keypad: keypad_init and keypad_poll, in any order.  The poll   *)
(* stores for every one of the 16 keys, whether pressed or not: what is     *)
(* stored is chosen by masks instead of branches.  The bytes of pin and     *)
(* pin_idx are next to each other in .sbss, as the file lays them out.      *)
(***************************************************************************)
EXTENDS AmiRoutines, SequencesExt

CONSTANTS
  COUNT_BITS,  (* width of count: 32, less in a model                       *)
  MaxPresses   (* bound: keys pressed between two keypad_init               *)

ASSUME KeypadAssumption ==
  /\ COUNT_BITS \in Nat /\ COUNT_BITS >= 4
  /\ MaxPresses \in Nat

PIN_LEN == 4
NB_KEYS == 16

(* The keys down in the polls 1 to 10, a bit mask there and a set here.      *)
CSWTCH == << {0}, {0}, {}, {1}, {}, {2}, {}, {3}, {}, {4} >>

keymap == <<49, 52, 55, 48, 50, 53, 56, 70, 51, 54, 57, 69, 65, 66, 67, 68>>

(* Addresses in .sbss. Of pin_idx's bytes only the lowest ever differs from 0. *)
pin == 0
pin_idx == pin + PIN_LEN

VARIABLES
  count,      (* polls since keypad_init, modulo its width                  *)
  key_state,  (* the keys down in the poll before                           *)
  sbss,       (* the bytes of pin and the lowest of pin_idx                 *)
  left,       (* what keypad_poll returned: digits still missing            *)
  presses     (* history: the keys that went down since keypad_init         *)

keypadVars == <<count, key_state, sbss, left, presses>>

KeypadZero ==
  /\ count = 0 /\ key_state = {} /\ presses = <<>>
  /\ sbss = [b \in pin .. pin_idx |-> 0]
  /\ left = PIN_LEN

(* pin keeps the digits of the last time.                                    *)
keypad_init ==
  /\ count' = 0 /\ key_state' = {} /\ presses' = <<>>
  /\ sbss' = [sbss EXCEPT ![pin_idx] = 0]
  /\ UNCHANGED left

(* count - 1 is compared without sign: 0 is above every entry of the table.  *)
Down == IF count \in 1 .. Len(CSWTCH) THEN CSWTCH[count] ELSE {}

Ignored(k, idx) == k \notin Down \/ k \in key_state \/ 3 < idx

ScanLoadsLate(bytes, k) ==
  LET idx    == bytes[pin_idx]
      accept == ~ Ignored(k, idx)
      stored == [bytes EXCEPT ![pin_idx] = Masked(accept, idx + 1, idx)]
      at     == pin + stored[pin_idx]
  IN  [stored EXCEPT ![at] = Masked(accept, keymap[k + 1], stored[at])]

(* One key: the old byte is loaded before pin_idx is stored, and stored      *)
(* after it.                                                                 *)
Scan(bytes, k) ==
  LET idx    == bytes[pin_idx]
      at     == pin + idx
      accept == ~ Ignored(k, idx)
      digit  == Masked(accept, keymap[k + 1], bytes[at])
  IN  [[bytes EXCEPT ![pin_idx] = Masked(accept, idx + 1, idx)] EXCEPT ![at] = digit]

Scanned(bytes) ==
  LET pass[n \in 0 .. NB_KEYS] == IF n = 0 THEN bytes ELSE Scan(pass[n - 1], n - 1)
  IN  pass[NB_KEYS]

(* At most one key goes down in a poll.                                      *)
keypad_poll ==
  /\ Len(presses) < MaxPresses
  /\ count' = (count + 1) % 2^COUNT_BITS
  /\ sbss' = Scanned(sbss)
  /\ key_state' = Down
  /\ left' = PIN_LEN - sbss'[pin_idx]
  /\ presses' = presses \o SetToSeq(Down \ key_state)

KeypadNext == keypad_init \/ keypad_poll

-----------------------------------------------------------------------------
(* Only the first PIN_LEN presses since keypad_init are in pin, in order and *)
(* once each however long the key is down; the stores for all other keys,    *)
(* those into pin_idx of a full pin included, change nothing.                *)
PinIsFirstPresses ==
  LET entered == SubSeq(presses, 1, IF Len(presses) < PIN_LEN THEN Len(presses) ELSE PIN_LEN)
  IN  /\ sbss[pin_idx] = Len(entered)
      /\ \A n \in DOMAIN entered : sbss[pin + n - 1] = keymap[entered[n] + 1]
      /\ count # 0 => left = PIN_LEN - Len(entered)
=============================================================================
