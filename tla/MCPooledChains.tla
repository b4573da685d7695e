--------------------------- MODULE MCPooledChains ---------------------------
(***************************************************************************)
(* Five chains, so that there are two words of lanes and the second has    *)
(* lanes of no chain; one schedule byte that names no chain; the smallest  *)
(* lane width that the static assertion allows.                            *)
(***************************************************************************)
EXTENDS PooledChains
=============================================================================
