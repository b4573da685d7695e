----------------------------- MODULE MCXmssTree -----------------------------
(***************************************************************************)
(* A circuit of five levels and real trees of one to four: every split of  *)
(* every height, with up to sixteen leaves and up to eight subtrees.       *)
(***************************************************************************)
EXTENDS XmssTree
CONSTANT m1
MCHeights == 1..4
=============================================================================
