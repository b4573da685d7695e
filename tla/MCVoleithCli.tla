--------------------------- MODULE MCVoleithCli ---------------------------
(* Instances of VoleithCli for TLC.                                        *)
EXTENDS VoleithCli

CONSTANTS p1, p2, m1, m2

TwoProcs == {p1, p2}
OneUser == {p1}
OneMessage == {m1}
TwoMessages == {m1, m2}
=============================================================================
