------------------------- MODULE MCVoleithStatement -------------------------
(* The instance of VoleithStatement for TLC.                               *)
EXTENDS VoleithStatement
=============================================================================
