--------------------------- MODULE MCLongfellowCli ---------------------------
(* The instance of LongfellowCli for TLC.                                  *)
EXTENDS LongfellowCli, TLC

CONSTANTS p1, p2, m1, m2

TwoProcs == {p1, p2}
TwoMessages == {m1, m2}

\* Two users race for the circuit, in any state of the cache, one is killed.
Users ==
    [may |-> [p \in Procs |-> {"prove", "verify"}], warm |-> FALSE, ready |-> TRUE,
     budget |-> [commands |-> 3, kills |-> 1, faults |-> 0]]

\* One signer and one user, and the disk is full twice.
FullDisk ==
    [may |-> (p1 :> {"keygen", "sign"}) @@ (p2 :> {"commit", "prove", "verify"}),
     warm |-> TRUE, ready |-> TRUE,
     budget |-> [commands |-> 4, kills |-> 0, faults |-> 2]]

\* From an empty directory, one process does everything and another signs.
FromEmpty ==
    [may |-> (p1 :> {"keygen", "commit", "sign", "prove", "verify"}) @@ (p2 :> {"sign"}),
     warm |-> TRUE, ready |-> FALSE,
     budget |-> [commands |-> 5, kills |-> 1, faults |-> 0]]

AllScenarios == {Users, FullDisk, FromEmpty}
=============================================================================
