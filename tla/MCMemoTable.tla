----------------------------- MODULE MCMemoTable -----------------------------
(* Instances of MemoTable for TLC.                                         *)
EXTENDS MemoTable

(* Mixed keys that collide, are neighbours, and wrap at the end of tables  *)
(* of 2, 4 and 8 slots, in several arrangements over five keys.            *)
Collisions ==
  {<<0, 0, 0, 0, 0>>, <<7, 7, 7, 7, 7>>, <<7, 7, 3, 0, 0>>, <<1, 5, 6, 7, 3>>}
=============================================================================
