----------------------------- MODULE MC_StdinPath -----------------------------
(* Two byte values and EOF.  A library buffer of two bytes keeps one back; a *)
(* ring of three slots holds two bytes, so four bytes flood it.              *)
EXTENDS StdinPath

MCByte == {0, 1}
MCEof == 255
=============================================================================
