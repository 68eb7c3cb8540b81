------------------------------ MODULE ByteFifo ------------------------------
(***************************************************************************)
(* What the stdin path promises: a bounded first-in first-out queue.  Every *)
(* byte that the host hands to the byte device is delivered to the reading  *)
(* program exactly once and in order, and at most Capacity bytes are under  *)
(* way.                                                                     *)
(***************************************************************************)
EXTENDS Integers, Sequences

CONSTANTS Byte,     (* the byte values                                      *)
          Capacity  (* bytes accepted from the host and not yet read        *)

VARIABLES queue,     (* the bytes under way, oldest first                   *)
          delivered  (* the bytes the program has read                      *)

vars == <<queue, delivered>>

Init ==
  /\ queue = <<>>
  /\ delivered = <<>>

Put(b) ==
  /\ Len(queue) < Capacity
  /\ queue' = Append(queue, b)
  /\ UNCHANGED delivered

Get ==
  /\ queue # <<>>
  /\ delivered' = Append(delivered, Head(queue))
  /\ queue' = Tail(queue)

Next == (\E b \in Byte : Put(b)) \/ Get

Spec == Init /\ [][Next]_vars
=============================================================================
