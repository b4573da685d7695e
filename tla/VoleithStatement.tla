-------------------------- MODULE VoleithStatement --------------------------
(***************************************************************************)
(* The XMSS part of the statement of the VOLE backend (Circuit::statement  *)
(* in voleith/src/circuit.hpp) and the witness of an honest prover         *)
(* (primary_witness in voleith/src/protocol.cpp).                          *)
(*                                                                         *)
(* The prover writes a chain index into each of Rows rows, the chain ends, *)
(* the signature and the authentication path.  Positions and input nodes   *)
(* of a row follow from its index and the row before.  Nothing in the      *)
(* statement says that every chain is walked: that must follow from the    *)
(* sum of the coordinates and the order of the indices.                    *)
(*                                                                         *)
(* The model lays the rows one by one and keeps the assignments that       *)
(* satisfy every constraint so far.  Hashes are injective: a chain node is *)
(* the signature node it starts from with the tweaks hashed into it, a     *)
(* tree node is a node of the key's tree or none of them.                  *)
(***************************************************************************)
EXTENDS Integers, Sequences, FiniteSets

CONSTANTS
    NumChains,  \* XMSS_WOTS_LEN, 42
    FlagBits,   \* bits of an index that chain_flags decodes, 6
    IndexBits,  \* bits of an index wire, 8
    PosBits,    \* XMSS_COORD_RES_BITS, 3
    SumBits,    \* bits of the sum of the coordinates, 9
    Rows,       \* rows of the schedule, 99
    Height      \* levels of the tree, 32

\* (size_t)1 << n.
Pow2[n \in Nat] == IF n = 0 THEN 1 ELSE 2 * Pow2[n - 1]

MaxPos == Pow2[PosBits] - 1

ASSUME ParametersAssumption ==
    /\ NumChains \in Nat \ {0} /\ PosBits \in Nat \ {0} /\ Rows \in Nat \ {0}
    /\ SumBits \in Nat /\ FlagBits \in Nat \ {0} /\ IndexBits \in Nat
    /\ Height \in Nat
    /\ NumChains * MaxPos < Pow2[SumBits] /\ PosBits <= SumBits
    /\ Pow2[FlagBits - 1] < NumChains /\ NumChains <= Pow2[FlagBits]
    /\ FlagBits <= IndexBits

VARIABLES
    coords,    \* digest coordinate of each chain
    leftover,  \* whether one of the two unused digest bits is set
    genuine,   \* whether the chain ends of the signature make up the leaf at
               \* epoch of the signer's tree
    phase,     \* "digest", "rows", "tree", "done" or "unsat"
    row,       \* rows laid so far
    previous,  \* chain index, position and output node of the latest row
    ends,      \* what the constraints say of the chain ends: {} or {node}
    epoch,     \* leaf index of the signature
    level,     \* tree levels climbed so far
    idx,       \* what is left of the bits of the leaf index
    node,      \* the tree node at hand
    honest     \* history: the witness so far is that of primary_witness

statementVars == <<coords, leftover, genuine, phase, row, previous, ends, epoch,
                   level, idx, node, honest>>

Chain == 0..(NumChains - 1)
Index == 0..(Pow2[IndexBits] - 1)

-----------------------------------------------------------------------------
(* Arithmetic on wires, least significant bit first                        *)

BitOf(x, i) == (x \div Pow2[i]) % 2

\* chain_flags: from the two prefixes of one bit to the chains, doubling at
\* each bit and dropping the prefixes past the last chain.
Flags(index) ==
    LET Prefixes(bit) == (NumChains + Pow2[bit] - 1) \div Pow2[bit]
        Split(flags, bit) == {f \in {2 * g + BitOf(index, bit) : g \in flags} : f < Prefixes(bit)}
        flags[i \in 0..(FlagBits - 1)] ==
            IF i = 0 THEN {BitOf(index, FlagBits - 1)}
            ELSE Split(flags[i - 1], FlagBits - 1 - i)
    IN  flags[FlagBits - 1]

\* Variant: rows may come in any order.
LessNever(a, b) == FALSE

Less(a, b) ==
    LET less[i \in 0..IndexBits] ==
            IF i = 0 THEN FALSE
            ELSE \/ BitOf(a, i - 1) = BitOf(b, i - 1) /\ less[i - 1]
                 \/ BitOf(a, i - 1) = 0 /\ BitOf(b, i - 1) = 1
    IN  less[IndexBits]

\* The sum of two bits and a carry, and the carry out of it.
SumBit(p, q, c) == (p + q + c) % 2
CarryBit(p, q, c) == (((p + c) % 2) * ((q + c) % 2) + c) % 2

\* The sum of two wires of n bits, and the carry out of the last one.
Add(a, b, n) ==
    LET acc[i \in 0..n] ==
            IF i = 0 THEN [sum |-> 0, carry |-> 0]
            ELSE LET p == BitOf(a, i - 1)
                     q == BitOf(b, i - 1)
                     c == acc[i - 1].carry
                 IN  [sum |-> acc[i - 1].sum + SumBit(p, q, c) * Pow2[i - 1],
                      carry |-> CarryBit(p, q, c)]
    IN  acc[n]

-----------------------------------------------------------------------------
(* Chain nodes                                                             *)

SigNode(c) == [base |-> c, tweaks |-> <<>>]
NoNode == [base |-> NumChains, tweaks |-> <<>>]
Hash(n, c, pos) == [base |-> n.base, tweaks |-> Append(n.tweaks, <<c, pos>>)]

\* xmss_wots_pk_from_sig.
EndFromSig(c) ==
    [base |-> c, tweaks |-> [k \in 1..(MaxPos - coords[c]) |-> <<c, coords[c] + k>>]]

-----------------------------------------------------------------------------
(* Tree nodes                                                              *)

Tree == UNION {{[level |-> l, index |-> i] : i \in 0..(Pow2[Height - l] - 1)} :
                  l \in 0..Height}
OtherNode == [level |-> Height + 1, index |-> 0]
TreeNode(l, i) == [level |-> l, index |-> i]
Root == TreeNode(Height, 0)

\* The hash of two nodes with the tweak of level l and parent index i.
TreeHash(l, i, left, right) ==
    IF left = TreeNode(l, 2 * i) /\ right = TreeNode(l, 2 * i + 1)
    THEN TreeNode(l + 1, i) ELSE OtherNode

-----------------------------------------------------------------------------
(* The honest witness                                                      *)

\* The chain indices that primary_witness writes, row by row.
HonestSchedule ==
    LET rows[c \in 0..NumChains] ==
            IF c = 0 THEN <<>>
            ELSE rows[c - 1] \o [j \in 1..(MaxPos - coords[c - 1]) |-> c - 1]
    IN  rows[NumChains]

\* The sibling of the node at hand in the key's tree.
HonestSibling == TreeNode(level, IF idx % 2 = 0 THEN idx + 1 ELSE idx - 1)

-----------------------------------------------------------------------------
(* The statement                                                           *)

\* The sum that every digest must have (XMSS_TARGET_SUM).
TargetSum == NumChains * MaxPos - Rows

CoordSum ==
    LET sum[c \in 0..NumChains] ==
            IF c = 0 THEN 0 ELSE Add(sum[c - 1], coords[c - 1], SumBits).sum
    IN  sum[NumChains]

\* Unused digest bits are zero, the coordinates have the target sum, and a
\* chain that is complete already ends in its signature node.
Digest ==
    /\ phase = "digest"
    /\ phase' = IF ~leftover /\ CoordSum = TargetSum THEN "rows" ELSE "unsat"
    /\ ends' = [c \in Chain |-> IF coords[c] = MaxPos THEN {SigNode(c)} ELSE {}]
    /\ UNCHANGED <<coords, leftover, genuine, row, previous, epoch, level, idx,
                   node, honest>>

\* The chain that the flags of an index select, and what a row with that index
\* derives from it and from the row before.
Selected(index) == CHOOSE c \in Flags(index) : TRUE
Same(index) == row > 0 /\ index = previous.idx
Position(index) ==
    Add(IF Same(index) THEN previous.pos ELSE coords[Selected(index)], 1, PosBits)
OutNode(index) ==
    Hash(IF Same(index) THEN previous.out ELSE SigNode(Selected(index)),
         index, Position(index).sum)

\* The constraints on a row with an index.
RowOk(index) ==
    /\ \A i \in FlagBits..(IndexBits - 1) : BitOf(index, i) = 0
    /\ Cardinality(Flags(index)) = 1
    /\ row > 0 => /\ ~Less(index, previous.idx)
                  /\ ~Same(index) => previous.pos = MaxPos
    /\ Position(index).carry = 0
    /\ Position(index).sum = MaxPos => ends[Selected(index)] \subseteq {OutNode(index)}

Row(index) ==
    /\ phase = "rows"
    /\ row < Rows
    /\ RowOk(index)
    /\ previous' = [idx |-> index, pos |-> Position(index).sum, out |-> OutNode(index)]
    /\ ends' = IF Position(index).sum = MaxPos
               THEN [ends EXCEPT ![Selected(index)] = {OutNode(index)}]
               ELSE ends
    /\ row' = row + 1
    /\ honest' = (honest /\ index = HonestSchedule[row + 1])
    /\ UNCHANGED <<coords, leftover, genuine, phase, epoch, level, idx, node>>

\* The last row ends its chain; the ends are hashed into a leaf.
Leaf(e) ==
    /\ phase = "rows"
    /\ row = Rows
    /\ previous.pos = MaxPos
    /\ phase' = "tree"
    /\ epoch' = e
    /\ idx' = e
    /\ node' = IF genuine THEN TreeNode(0, e) ELSE OtherNode
    /\ UNCHANGED <<coords, leftover, genuine, row, previous, ends, level, honest>>

\* Variant: the order of the children does not depend on the index.
ClimbLeft(sibling) ==
    /\ phase = "tree"
    /\ level < Height
    /\ node' = TreeHash(level, idx \div 2, node, sibling)
    /\ idx' = idx \div 2
    /\ level' = level + 1
    /\ honest' = (honest /\ sibling = HonestSibling)
    /\ UNCHANGED <<coords, leftover, genuine, phase, row, previous, ends, epoch>>

\* One level up the authentication path.  The right child is what is left of
\* node and sibling when the left one is taken away.
Climb(sibling) ==
    /\ phase = "tree"
    /\ level < Height
    /\ LET left == IF idx % 2 = 1 THEN sibling ELSE node
           right == IF left = node THEN sibling ELSE node
       IN  node' = TreeHash(level, idx \div 2, left, right)
    /\ idx' = idx \div 2
    /\ level' = level + 1
    /\ honest' = (honest /\ sibling = HonestSibling)
    /\ UNCHANGED <<coords, leftover, genuine, phase, row, previous, ends, epoch>>

Finish ==
    /\ phase = "tree"
    /\ level = Height
    /\ phase' = IF node = Root THEN "done" ELSE "unsat"
    /\ UNCHANGED <<coords, leftover, genuine, row, previous, ends, epoch, level, idx,
                   node, honest>>

StatementInit ==
    /\ coords \in [Chain -> 0..MaxPos]
    /\ leftover \in BOOLEAN
    /\ genuine \in BOOLEAN
    /\ phase = "digest"
    /\ row = 0
    /\ previous = [idx |-> 0, pos |-> 0, out |-> NoNode]
    /\ ends = [c \in Chain |-> {}]
    /\ epoch = 0 /\ level = 0 /\ idx = 0
    /\ node = OtherNode
    /\ honest = TRUE

StatementNext ==
    \/ Digest
    \/ \E index \in Index : Row(index)
    \/ \E e \in 0..(Pow2[Height] - 1) : Leaf(e)
    \/ \E sibling \in Tree \cup {OtherNode} : Climb(sibling)
    \/ Finish

StatementSpec == StatementInit /\ [][StatementNext]_statementVars

-----------------------------------------------------------------------------
(* Properties                                                              *)

\* Soundness of the statement for every witness: if the constraints hold, each
\* chain end is what xmss_wots_pk_from_sig computes from the signature - no row
\* was spent on another hash, no chain left out and its end made up - and the
\* leaf of these ends is in the signer's tree.
StatementSound ==
    /\ phase \in {"tree", "done"} => \A c \in Chain : ends[c] = {EndFromSig(c)}
    /\ phase = "done" => genuine /\ idx = 0

\* Completeness: on every digest with the target sum the indices that
\* primary_witness writes fill the schedule and satisfy every row, and the
\* authentication path of a genuine signature leads to the root.
HonestWitnessHolds ==
    honest =>
        /\ phase = "rows" =>
              IF row < Rows
              THEN Len(HonestSchedule) = Rows /\ RowOk(HonestSchedule[row + 1])
              ELSE previous.pos = MaxPos
        /\ phase = "tree" /\ genuine => node = TreeNode(level, idx)
=============================================================================
