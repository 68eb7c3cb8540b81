---------------------------- MODULE MC_SimMemory ----------------------------
(* Two lines of two words of two bytes.  The image is one word, so that the  *)
(* first line is partly image and partly fill, and the second does not exist *)
(* at first.                                                                 *)
EXTENDS SimMemory

MCImage == <<3, 4>>
MCFill == [k \in BytesOfWord |-> IF k = 0 THEN 5 ELSE 6]
MCAddresses == {0, 3, 6}
MCId == {1, 2}
MCData == {[w \in Word |-> [k \in BytesOfWord |-> v]] : v \in {0, 1}}
MCStrobe ==
  {[w \in Word |-> [k \in BytesOfWord |-> <<w, k>> \in on]] :
     on \in {{}, {<<0, 0>>}, {<<1, 1>>}, {<<0, 1>>, <<1, 0>>}, Word \X BytesOfWord}}
=============================================================================
