---------------------------- MODULE MCBiniusCli ----------------------------
(* The instance of BiniusCli for TLC.                                      *)
EXTENDS BiniusCli, TLC

CONSTANTS s1, s2, m1

OneMessage == {m1}

\* One signer process, whichever it is, and no failure.
Alone == [procs : {{s1}, {s2}}, gens : {MaxGens}, kills : {0}]

\* Two signer processes over one key, and one command that fails.
Disturbed == [procs : {{s1, s2}}, gens : {1}, kills : {1}]

AloneOrDisturbed == Alone \cup Disturbed

\* Signer processes are only compared for equality, and the scenarios treat
\* both alike.
Symmetry == Permutations({s1, s2})
=============================================================================
