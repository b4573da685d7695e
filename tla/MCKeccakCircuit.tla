--------------------------- MODULE MCKeccakCircuit ---------------------------
(* The instance of KeccakCircuit for TLC.                                  *)
EXTENDS KeccakCircuit

\* A short input with a short digest, one whose padding is a single byte, and
\* one that ends on a block boundary and pads a block of its own.
ThreeInputs ==
    {[len |-> 2, ones |-> {0, 3, 4, 13}, out |-> 16],
     [len |-> 135, ones |-> {5, 77, 640, 1079}, out |-> 32],
     [len |-> 136, ones |-> {1, 2, 1087}, out |-> 32]}

\* One bit of each lane, among them the last of the digest of 16 bytes and the
\* last of all; two bits of a column, which leave its parity as it is; a lane,
\* and everything.
Falsified ==
    {{64 * l + 63 - l} : l \in 0..24} \cup {{127}, {1599}}
    \cup {{5, 325}, 640..703, 0..1599}
=============================================================================
