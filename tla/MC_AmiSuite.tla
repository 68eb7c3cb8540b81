---------------------------- MODULE MC_AmiSuite ----------------------------
(* Words of 8 bits (16 + 1 is a prime, as 2^16 + 1 is); lists of two or      *)
(* three edges over four vertices: connected and unconnected graphs, cycles, *)
(* loops and edges that occur twice; enough polls for the count to wrap.     *)
EXTENDS AmiSuite

MCArgument == {-128, -1, 0, 1, 2, 9, 10, 11, 125, 126, 127}
MCFactor == -1 .. 16
MCExponent == -2 .. 20 \cup {63, 64, 126, 127, -128}
MCPassword == [1 .. 3 -> {48, 49}]
MCPortfolio ==
  {[ids |-> ids, qty |-> qty] : ids \in [1 .. 3 -> {9, 42}], qty \in [1 .. 3 -> {-1, 0, 100}]}
MCRegister == {0, 1, -128}
MCVertex == 1 .. 4
MCEdgeLists == UNION {[1 .. n -> MCVertex \X MCVertex] : n \in {2, 3}}
=============================================================================
