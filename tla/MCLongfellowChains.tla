------------------------- MODULE MCLongfellowChains -------------------------
(* The instance of LongfellowChains for TLC: four chains of three steps and *)
(* five rows, so that up to two chains need no step, and a byte of six      *)
(* values just holds the count of the longest run.                          *)
EXTENDS LongfellowChains
=============================================================================
