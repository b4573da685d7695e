----------------------------- MODULE MCKkwProof -----------------------------
(***************************************************************************)
(* Three parties and three instances of which two are checked online, by   *)
(* two threads.  The threads are interchangeable.  Words of three bits.    *)
(***************************************************************************)
EXTENDS KkwProof, TLC
CONSTANTS t1, t2
TwoThreads == {t1, t2}
TwoShares == {[p \in Party |-> {0, 1}], [p \in Party |-> {p, 2}]}
TwoTapes ==
    {[lam |-> [p \in Party |-> {0, p}], prod |-> [p \in Party |-> {2, p}]],
     [lam |-> [p \in Party |-> {1, 2} \ {p}], prod |-> [p \in Party |-> {1}]]}
Symmetry == Permutations(TwoThreads)
=============================================================================
