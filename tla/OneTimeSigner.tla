--------------------------- MODULE OneTimeSigner ---------------------------
(***************************************************************************)
(* What every signer of this repository promises about its one-time keys.  *)
(* A signing key is a Merkle tree of one-time leaves, and the comment at   *)
(* the head of kkw/src/xmss.h says why the state is kept at all: "Reusing  *)
(* a leaf invalidates the one-time-signature security argument".           *)
(*                                                                         *)
(* The specification forgets files, locks, processes and crashes.  It      *)
(* keeps the set of signatures that have left the signer, and lets a       *)
(* signature leave only on a leaf above every leaf that the same key has   *)
(* used: leaves may be skipped (a reserved leaf whose signature was never  *)
(* produced), and none is ever used again.                                 *)
(***************************************************************************)
EXTENDS Naturals

CONSTANTS
    Keys,         \* identities of key pairs
    Capacity,     \* leaves of a key, 2^height in the code
    Commitments   \* what may be signed

VARIABLE issued   \* the signatures released so far

\* A signature, reduced to what one-time use is about.
Signature == [kid : Keys, leaf : 0..(Capacity - 1), com : Commitments]

Init == issued = {}

(***************************************************************************)
(* A signature under leaf l of key k is released.                          *)
(***************************************************************************)
Issue(k, l, c) ==
    /\ \A s \in issued : s.kid = k => s.leaf < l
    /\ issued' = issued \cup {[kid |-> k, leaf |-> l, com |-> c]}

Next ==
    \E k \in Keys, l \in 0..(Capacity - 1), c \in Commitments : Issue(k, l, c)

Spec == Init /\ [][Next]_issued

(***************************************************************************)
(* No leaf of a key has signed two different commitments.                  *)
(***************************************************************************)
OneTime ==
    \A s, t \in issued : s.kid = t.kid /\ s.leaf = t.leaf => s = t
=============================================================================
