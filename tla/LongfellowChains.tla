-------------------------- MODULE LongfellowChains --------------------------
(***************************************************************************)
(* The WOTS+ part of the Longfellow statement (assert_xmss in              *)
(* longfellow/src/circuit/blind_stmt.h) and the witness of an honest       *)
(* prover (fill_parts in longfellow/src/native_witness.cc).                *)
(*                                                                         *)
(* The statement has ScheduleLen rows, each one hash step: a chain index,  *)
(* a count, a position and an input node, all of them chosen by the        *)
(* prover, as are the chain ends pk_hash.  Constraints tie a row to its    *)
(* neighbour and to the signature.  A circuit has no order of evaluation;  *)
(* the model lays the rows one by one and keeps exactly the assignments    *)
(* that satisfy every constraint so far.  A prover whose row satisfies     *)
(* none is stuck: its proof does not exist.                                *)
(*                                                                         *)
(* A node is the chain whose signature node it starts from and the tweaks  *)
(* (chain, position) hashed into it since: hashes are injective.           *)
(***************************************************************************)
EXTENDS Integers, Sequences, FiniteSetsExt

CONSTANTS
    NumChains,    \* kLen
    MaxSteps,     \* kW - 1
    ScheduleLen,  \* kPooledChainLen
    ByteSize      \* values of a v8 wire: 2^8

\* A v8 holds a chain index, a coordinate and a count of every row.
ASSUME ParametersAssumption ==
    /\ NumChains \in Nat \ {0}
    /\ MaxSteps \in Nat
    /\ ScheduleLen \in Nat \ {0}
    /\ ByteSize \in Nat
    /\ NumChains <= ByteSize
    /\ MaxSteps < ByteSize
    /\ ScheduleLen < ByteSize

VARIABLES
    coords,    \* digest coordinate of each chain
    leftover,  \* whether one of the two unused digest bits is set
    phase,     \* "digest", "rows", "done" or "unsat"
    row,       \* rows laid so far
    last,      \* chain index, count and output node of the latest row
    pk,        \* what the constraints say of pk_hash: nothing {}, or {node}
    closed,    \* how often a run of rows of each chain has ended
    honest     \* history: the rows so far are those of fill_parts

vars == <<coords, leftover, phase, row, last, pk, closed, honest>>

Chain == 0..(NumChains - 1)
Byte == 0..(ByteSize - 1)
Coord == 0..MaxSteps
Node == [base : 0..NumChains, tweaks : Seq(Byte \X Byte)]

\* kTargetSum: kPooledChainLen is defined from it.
TargetSum == NumChains * MaxSteps - ScheduleLen
SumOf(f) == MapThenSumSet(LAMBDA c : f[c], Chain)
CoordSum == SumOf(coords)

Sig(c) == [base |-> c, tweaks |-> <<>>]
Unrelated == [base |-> NumChains, tweaks |-> <<>>]
NoRow == [idx |-> 0, count |-> 0, out |-> Unrelated]

\* build_chain_hash and sha256_node.
Hash(n, c, pos) == [base |-> n.base, tweaks |-> Append(n.tweaks, <<c, pos>>)]

-----------------------------------------------------------------------------
(* Reference: the chain ends as a verifier of XMSS computes them           *)

\* compute_wots_pk_hashes.
PkFromSig(c) ==
    [base |-> c,
     tweaks |-> [k \in 1..(MaxSteps - coords[c]) |-> <<c, coords[c] + k>>]]

-----------------------------------------------------------------------------
(* The honest witness                                                      *)

\* The rows that chain c needs.
Remaining(c) == MaxSteps - coords[c]

\* Chains that fill_parts has not come to yet and that need rows.
Ahead == {c \in Chain : Remaining(c) > 0 /\ (row > 0 => c > last.idx)}

\* The next row: the chain at hand until it needs no more, then the next.
Continues == row > 0 /\ last.count < Remaining(last.idx)
HonestRow ==
    IF Continues
    THEN [idx |-> last.idx, count |-> last.count + 1,
          pos |-> coords[last.idx] + last.count + 1, in |-> last.out]
    ELSE LET c == Min(Ahead)
         IN  [idx |-> c, count |-> 1, pos |-> coords[c] + 1, in |-> Sig(c)]

-----------------------------------------------------------------------------
(* The statement                                                           *)

\* Variant: the sum of the coordinates is not compared.
DigestUnsummed ==
    /\ phase = "digest"
    /\ phase' = IF leftover THEN "unsat" ELSE "rows"
    /\ UNCHANGED <<coords, leftover, row, last, pk, closed, honest>>

\* The coordinates have the target sum and the unused bits are zero.
Digest ==
    /\ phase = "digest"
    /\ phase' = IF CoordSum = TargetSum /\ ~leftover THEN "rows" ELSE "unsat"
    /\ UNCHANGED <<coords, leftover, row, last, pk, closed, honest>>

\* Variant: the count that a run must end with is one short.
WantCountShort(c) == MaxSteps - coords[c] - 1

\* want_count: the coordinate's bits, inverted.
WantCount(c) == MaxSteps - coords[c]

\* Whether the latest row can be the last of its run, and then the run ends
\* in pk_hash.
CloseOk ==
    /\ last.count = WantCount(last.idx)
    /\ pk[last.idx] \subseteq {last.out}
Closed == [pk EXCEPT ![last.idx] = {last.out}]

\* Variant: a row of the same chain need not take up the row before it.
RowOkUnlinked(r) ==
    /\ r.idx \in Chain
    /\ r.pos = (r.count + coords[r.idx]) % ByteSize
    /\ r.count = 1 => r.in = Sig(r.idx)
    /\ row = 0 => r.count = 1
    /\ row > 0 =>
          IF r.idx = last.idx
          THEN r.count = (last.count + 1) % ByteSize
          ELSE r.count = 1 /\ CloseOk

\* The constraints on row r and its predecessor.
RowOk(r) ==
    /\ r.idx \in Chain
    /\ r.pos = (r.count + coords[r.idx]) % ByteSize
    /\ r.count = 1 => r.in = Sig(r.idx)
    /\ row = 0 => r.count = 1
    /\ row > 0 =>
          IF r.idx = last.idx
          THEN r.count = (last.count + 1) % ByteSize /\ r.in = last.out
          ELSE r.count = 1 /\ CloseOk

\* Row r is laid; a change of chain ends the run before it.
Row(r) ==
    /\ phase = "rows"
    /\ row < ScheduleLen
    /\ RowOk(r)
    /\ row' = row + 1
    /\ last' = [idx |-> r.idx, count |-> r.count, out |-> Hash(r.in, r.idx, r.pos)]
    /\ IF row > 0 /\ r.idx # last.idx
       THEN pk' = Closed /\ closed' = [closed EXCEPT ![last.idx] = @ + 1]
       ELSE UNCHANGED <<pk, closed>>
    /\ honest' = (honest /\ (Continues \/ Ahead # {}) /\ r = HonestRow)
    /\ UNCHANGED <<coords, leftover, phase>>

\* The last row ends its run; every chain was covered or needs no step, and
\* then its end is the signature node itself.
FinishOk ==
    /\ CloseOk
    /\ \A c \in Chain :
          /\ c = last.idx \/ closed[c] > 0 \/ coords[c] = MaxSteps
          /\ coords[c] = MaxSteps => Closed[c] \subseteq {Sig(c)}

Finish ==
    /\ phase = "rows"
    /\ row = ScheduleLen
    /\ FinishOk
    /\ phase' = "done"
    /\ pk' = [c \in Chain |-> IF coords[c] = MaxSteps THEN {Sig(c)} ELSE Closed[c]]
    /\ closed' = [closed EXCEPT ![last.idx] = @ + 1]
    /\ UNCHANGED <<coords, leftover, row, last, honest>>

Init ==
    /\ coords \in [Chain -> Coord]
    /\ leftover \in BOOLEAN
    /\ phase = "digest"
    /\ row = 0
    /\ last = NoRow
    /\ pk = [c \in Chain |-> {}]
    /\ closed = [c \in Chain |-> 0]
    /\ honest = TRUE

\* Nodes that a prover may put into a row: a signature node, the output at
\* hand, or one that has nothing to do with them.
Inputs == {Sig(c) : c \in Chain} \cup {last.out, Unrelated}

Next ==
    \/ Digest
    \/ \E r \in [idx : Byte, count : Byte, pos : Byte, in : Inputs] : Row(r)
    \/ Finish

Spec == Init /\ [][Next]_vars

-----------------------------------------------------------------------------
(* Properties                                                              *)

\* Type invariant of the statement's wires.
TypeOK ==
    /\ coords \in [Chain -> Coord]
    /\ leftover \in BOOLEAN
    /\ phase \in {"digest", "rows", "done", "unsat"}
    /\ row \in 0..ScheduleLen
    /\ last \in [idx : Chain, count : Byte, out : Node]
    /\ pk \in [Chain -> SUBSET Node]
    /\ closed \in [Chain -> Nat]
    /\ honest \in BOOLEAN

\* Soundness of assert_xmss for every witness: whatever rows, counts,
\* positions and chain ends the prover puts in, if all constraints hold then
\* every pk_hash is the chain end that compute_wots_pk_hashes gets from the
\* signature, also for chains without a step.
ChainEndsExact ==
    phase = "done" => \A c \in Chain : pk[c] = {PkFromSig(c)}

\* The target sum leaves no row over: each chain that needs steps has exactly
\* one run, and one that needs none has no row at all, so no slot of the pool
\* can carry a hash that is not part of a chain.
EachChainOnce ==
    phase = "done" =>
        \A c \in Chain : closed[c] = IF Remaining(c) = 0 THEN 0 ELSE 1

\* Completeness: on every digest that extract_coords and grind_nonce accept,
\* each row that fill_parts writes satisfies the constraints, there is one
\* for every slot, and after the last slot the statement holds.
HonestWitnessHolds ==
    phase = "rows" /\ honest =>
        IF row < ScheduleLen
        THEN (Continues \/ Ahead # {}) /\ RowOk(HonestRow)
        ELSE FinishOk /\ Ahead = {} /\ ~Continues
=============================================================================
