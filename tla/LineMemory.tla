----------------------------- MODULE LineMemory -----------------------------
(***************************************************************************)
(* What the testbench memory promises the core: a store of lines in which   *)
(* every word has a value from the start, where each cycle takes at most    *)
(* one request, a read is answered in the next cycle with the line as it    *)
(* was when it was accepted, and a write is acknowledged at once.           *)
(***************************************************************************)
EXTENDS Integers, Sequences

CONSTANTS Lines,         (* line numbers                                    *)
          Words,         (* words of a line, counted from 0                 *)
          Bytes,         (* bytes of a word, counted from 0                 *)
          Id,            (* transaction ids                                 *)
          Strobe, Data   (* byte strobes and write data of a line           *)

VARIABLES store,   (* line, word and byte to value                          *)
          asked,   (* the read to answer, if any                            *)
          answer,  (* the answer of this cycle, if any                      *)
          ack      (* is a write acknowledged in this cycle?                *)

vars == <<store, asked, answer, ack>>

Init ==
  /\ asked = <<>>
  /\ answer = <<>>
  /\ ack = FALSE

Idle ==
  /\ answer' = asked
  /\ asked' = <<>>
  /\ ack' = FALSE
  /\ UNCHANGED store

Read(id, line) ==
  /\ answer' = asked
  /\ asked' = <<[id |-> id, data |-> store[line]]>>
  /\ ack' = FALSE
  /\ UNCHANGED store

Write(line, strobe, data) ==
  /\ answer' = asked
  /\ asked' = <<>>
  /\ ack' = TRUE
  /\ store' = [store EXCEPT ![line] =
                 [w \in Words |-> [b \in Bytes |->
                    IF strobe[w][b] THEN data[w][b] ELSE store[line][w][b]]]]

Next ==
  \/ Idle
  \/ \E id \in Id, line \in Lines : Read(id, line)
  \/ \E line \in Lines, strobe \in Strobe, data \in Data :
       Write(line, strobe, data)

Spec == Init /\ [][Next]_vars
=============================================================================
