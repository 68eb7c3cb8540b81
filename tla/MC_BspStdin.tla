----------------------------- MODULE MC_BspStdin -----------------------------
(* Two byte values tell the bytes apart; a ring of three slots wraps within  *)
(* five bytes.                                                               *)
EXTENDS BspStdin

MCByte == {0, 1}
=============================================================================
