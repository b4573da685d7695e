----------------------------- MODULE MCKkwCli -----------------------------
(* Instances of KkwCli for TLC.                                            *)
EXTENDS KkwCli, TLC

CONSTANTS s1, s2, m1, m2

OneMessage == {m1}
TwoMessages == {m1, m2}

\* One signer process, whichever it is, and no failure.
Alone == [signers : {{s1}, {s2}}, keys : {MaxKeys}, kills : {0}]

\* Two signer processes, and one command that fails.
Disturbed == [signers : {{s1, s2}}, keys : {1}, kills : {1}]

AloneOrDisturbed == Alone \cup Disturbed
OneKill == [signers : {{s1}, {s2}}, keys : {1}, kills : {1}]

\* Signer processes and messages are only compared for equality, and each set
\* of scenarios treats both processes alike.
Symmetry == Permutations({s1, s2}) \cup Permutations(TwoMessages)
=============================================================================
