---------------------------- MODULE KeccakCircuit ----------------------------
(***************************************************************************)
(* SHAKE256 in the circuit of the VOLE backend: Circuit::shake and the two *)
(* contexts that evaluate it (voleith/src/circuit.hpp) over the rounds of  *)
(* voleith/src/keccak_constraints.hpp.                                     *)
(*                                                                         *)
(* NativeContext runs the permutation and writes the state after every     *)
(* Stride rounds to the witness.  AuthContext takes such a snapshot off    *)
(* the witness, computes forward from the state before it and backward     *)
(* from the snapshot, and constrains the two to meet.  How many rounds go  *)
(* each way depends on the degree of the proof system; at degree 64 the    *)
(* last rounds go forward to the digest itself.                            *)
(*                                                                         *)
(* A state is a set of bits as in Fips202, an authenticated bit is the bit *)
(* it commits to, and a witness is a sequence of blocks of bits that are   *)
(* allocated at once.  The prover may flip bits of any of them: those of a *)
(* member of Flips.                                                        *)
(***************************************************************************)
EXTENDS Fips202

CONSTANTS
    Degrees,  \* values of VOLEITH_DEGREE
    Inputs,   \* message bytes [len], their one bits [ones], digest bytes [out]
    Flips     \* sets of bits that a prover may flip in a block

ASSUME KeccakAssumption ==
    /\ Degrees \subseteq {16, 32, 64}
    /\ Flips \subseteq SUBSET Bit
    /\ \A m \in Inputs :
          m.len \in Nat /\ m.ones \subseteq 0..(8 * m.len - 1) /\ m.out \in 1..136

VARIABLES
    degree,   \* kProofDegree
    input,    \* what shake is called with
    stage,    \* "native", "absorb", "forward", "take", "backward", "meet",
              \* "digest", "done" or "unsat"
    absorbed, \* blocks of the padded input absorbed so far
    state,    \* the sponge state
    round,    \* first round of the group at hand
    step,     \* rounds of the group computed in the present direction
    fwd,      \* the state computed forward
    bwd,      \* the state computed backward
    witness,  \* blocks that NativeContext allocated
    taken,    \* widths of the blocks that AuthContext has allocated
    cons,     \* constraints that each context has counted
    forged    \* history: a block is not what NativeContext wrote

keccakVars == <<degree, input, stage, absorbed, state, round, step, fwd, bwd,
                witness, taken, cons, forged>>

-----------------------------------------------------------------------------
(* The rounds (keccak_constraints.hpp)                                     *)

ROTATION_OFFSET ==
    <<0, 36, 3, 41, 18, 1, 44, 10, 45, 2, 62, 6, 43,
      15, 61, 28, 55, 25, 21, 56, 27, 20, 39, 8, 14>>

\* The bits of each constant.
ROUND_CONST ==
    <<{0}, {1, 7, 15}, {1, 3, 7, 15, 63}, {15, 31, 63}, {0, 1, 3, 7, 15}, {0, 31},
      {0, 7, 15, 31, 63}, {0, 3, 15, 63}, {1, 3, 7}, {3, 7}, {0, 3, 15, 31},
      {1, 3, 31}, {0, 1, 3, 7, 15, 31}, {0, 1, 3, 7, 63}, {0, 3, 7, 15, 63},
      {0, 1, 15, 63}, {1, 15, 63}, {7, 63}, {1, 3, 15}, {1, 3, 31, 63},
      {0, 7, 15, 31, 63}, {7, 15, 63}, {0, 31}, {3, 15, 31, 63}>>

\* Column parities: a bit for each column and position.
Parity(s) == {c \in 0..319 : Odd({BitAt(r, ColumnOf(c), Z(c)) : r \in 0..4}, s)}

\* Every bit of a column is changed by the parities of its neighbours.
AddParity(s, parity) ==
    LET d == {c \in 0..319 :
                 Odd({BitAt(0, ColumnOf(c) + 4, Z(c)),
                      BitAt(0, ColumnOf(c) + 1, Z(c) + 63)}, parity)}
    IN  {b \in Bit : (b \in s) # (b % 320 \in d)}

\* The bit of the state that rho and pi put at b: lane (x, y) comes from lane
\* (y, 3 * x + y).
Source(b) ==
    LET x == RowOf(b)
        y == ColumnOf(b)
    IN  BitAt(y, 3 * x + y, Z(b) + 64 - ROTATION_OFFSET[((15 * x + 6 * y) % 25) + 1])

\* keccak_forward; lanes that start beyond the output are not computed.
Forward(s, r, outputBits) ==
    LET theta == AddParity(s, Parity(s))
        B == {b \in Bit : Source(b) \in theta}
        Chi1(b) == /\ BitAt(RowOf(b), ColumnOf(b) + 1, Z(b)) \notin B
                   /\ BitAt(RowOf(b), ColumnOf(b) + 2, Z(b)) \in B
    IN  Xor({b \in Bit : (b \div 64) * 64 < outputBits /\ (b \in B) # Chi1(b)},
            ROUND_CONST[r + 1])

\* Variant: every power up to the largest.
PowersAll == <<1, 2, 4, 8, 16, 32, 64, 128>>

\* The powers of the parity map that make up its inverse.
Powers == <<1, 2, 4, 8, 16, 32, 128>>

ParityPass(parity, power) ==
    LET Neighbour(c, i) ==
            IF i = 1 THEN c
            ELSE IF i = 2 THEN BitAt(0, ColumnOf(c) + 5 - (power % 5), Z(c))
            ELSE BitAt(0, ColumnOf(c) + (power % 5), Z(c) + 64 - (power % 64))
    IN  {c \in 0..319 : Odd({Neighbour(c, i) : i \in 1..3}, parity)}

InverseTheta(s) == AddParity(s, FoldLeft(ParityPass, Parity(s), Powers))

\* The products of which each column of the inverse of chi is the sum.
InverseChi ==
    <<{{0}, {2}, {4}, {1, 2}, {1, 4}, {3, 4}, {1, 3, 4}},
      {{0}, {1}, {3}, {0, 2}, {0, 4}, {2, 3}, {0, 2, 4}},
      {{1}, {2}, {4}, {0, 1}, {1, 3}, {3, 4}, {0, 1, 3}},
      {{0}, {2}, {3}, {0, 4}, {1, 2}, {2, 4}, {1, 2, 4}},
      {{1}, {3}, {4}, {0, 1}, {0, 3}, {2, 3}, {0, 2, 3}}>>
InverseChiBits ==
    [a \in SUBSET (0..4) |->
        {x \in 0..4 : Cardinality({p \in InverseChi[x + 1] : p \subseteq a}) % 2 = 1}]

\* keccak_backward.
Backward(s, r) ==
    LET B == Xor(s, ROUND_CONST[r + 1])
        Columns(y, z) == {x \in 0..4 : BitAt(y, x, z) \in B}
        chi == UNION {{BitAt(y, x, z) : x \in InverseChiBits[Columns(y, z)]} :
                         y \in 0..4, z \in 0..63}
    IN  InverseTheta({Source(b) : b \in chi})

-----------------------------------------------------------------------------
(* The contexts                                                            *)

\* kKeccakStride and kKeccakSnapshots.
Stride == CASE degree = 16 -> 6 [] degree = 32 -> 8 [] degree = 64 -> 9
Snapshots == 24 \div Stride

\* Rounds of a group that AuthContext::permute and meet compute each way.
ForwardRounds == CASE degree = 16 -> 4 [] degree = 32 -> 5 [] degree = 64 -> 6
BackwardRounds == IF degree = 16 THEN 2 ELSE 3

\* The padded input: 0x1f, zeros, and the last bit is flipped.
PaddedBytes == ((input.len + 1 + 135) \div 136) * 136
PaddedInput ==
    Xor(input.ones \cup ((8 * input.len)..(8 * input.len + 4)), {8 * PaddedBytes - 1})
NumBlocks == PaddedBytes \div 136
InputBlock(i) == {b \in 0..(Rate - 1) : (i - 1) * Rate + b \in PaddedInput}

\* Variant: each permutation keeps the digest only.
KeepDigest(i) == 8 * input.out

\* The bits of the state that the permutation of block i has to return.
Keep(i) == IF i = NumBlocks THEN 8 * input.out ELSE 1600

FirstBits(s, n) == {b \in s : b < n}

\* KECCAK_TRACE_ROUNDS: pomfrit_permute_trace keeps the state after every so
\* many rounds, a number that the build sets apart from kKeccakStride.
TraceRounds == CASE degree = 16 -> 6 [] degree = 32 -> 8 [] degree = 64 -> 9

\* Variant: the last state is not cut to what is kept.
NativeBlocksWhole(trace, keep) ==
    [j \in 1..Snapshots |-> [width |-> 1600, ones |-> trace[j * TraceRounds]]]
    \o IF degree = 64 THEN <<[width |-> 1600, ones |-> trace[24]]>> ELSE <<>>

\* What NativeContext::permute allocates.
NativeBlocks(trace, keep) ==
    [j \in 1..Snapshots |-> [width |-> 1600, ones |-> trace[j * TraceRounds]]]
    \o IF degree = 64 THEN <<[width |-> keep, ones |-> FirstBits(trace[24], keep)]>> ELSE <<>>

\* A block is absorbed and NativeContext permutes the state.
NativePermute ==
    /\ stage = "native"
    /\ absorbed < NumBlocks
    /\ LET keep == Keep(absorbed + 1)
           trace == Keccak(Xor(state, InputBlock(absorbed + 1)))
           blocks == NativeBlocks(trace, keep)
       IN  /\ witness' = witness \o blocks
           /\ state' = Last(blocks).ones
           /\ cons' = [cons EXCEPT !.native =
                          @ + 1600 * Snapshots + (IF degree = 64 THEN keep ELSE 0)]
    /\ absorbed' = absorbed + 1
    /\ UNCHANGED <<degree, input, stage, round, step, fwd, bwd, taken, forged>>

\* The native evaluation ends and the authenticated one starts.
NativeReturn ==
    /\ stage = "native"
    /\ absorbed = NumBlocks
    /\ absorbed' = 0
    /\ state' = {}
    /\ stage' = "absorb"
    /\ UNCHANGED <<degree, input, round, step, fwd, bwd, witness, taken, cons, forged>>

AbsorbBlock ==
    /\ stage = "absorb"
    /\ absorbed < NumBlocks
    /\ absorbed' = absorbed + 1
    /\ fwd' = Xor(state, InputBlock(absorbed + 1))
    /\ round' = 0
    /\ step' = 0
    /\ stage' = "forward"
    /\ UNCHANGED <<degree, input, state, bwd, witness, taken, cons, forged>>

\* The last group of degree 64 ends in the digest.
AtDigest == degree = 64 /\ round = 18

ForwardRound ==
    /\ stage = "forward"
    /\ step < ForwardRounds
    /\ LET bits == IF AtDigest /\ step + 1 = ForwardRounds THEN Keep(absorbed) ELSE 1600
       IN  fwd' = Forward(fwd, round + step, bits)
    /\ step' = step + 1
    /\ stage' = IF step + 1 < ForwardRounds THEN "forward"
             ELSE IF AtDigest THEN "digest" ELSE "take"
    /\ UNCHANGED <<degree, input, absorbed, state, round, bwd, witness, taken, cons, forged>>

\* A block of the given width is taken off the witness; the prover may have
\* flipped some of its bits.
Take(width) ==
    /\ Len(taken) < Len(witness)
    /\ taken' = Append(taken, width)
    /\ LET ones == witness[Len(taken) + 1].ones
       IN  \/ state' = ones /\ UNCHANGED forged
           \/ \E bits \in Flips :
                 /\ bits \subseteq 0..(width - 1)
                 /\ state' = Xor(ones, bits) /\ forged' = TRUE

\* meet: the snapshot at the end of the group.
TakeSnapshot ==
    /\ stage = "take"
    /\ Take(1600)
    /\ bwd' = state'
    /\ step' = 0
    /\ stage' = "backward"
    /\ UNCHANGED <<degree, input, absorbed, round, fwd, witness, cons>>

BackwardRound ==
    /\ stage = "backward"
    /\ bwd' = Backward(bwd, round + Stride - 1 - step)
    /\ step' = step + 1
    /\ stage' = IF step + 1 < BackwardRounds THEN "backward" ELSE "meet"
    /\ UNCHANGED <<degree, input, absorbed, state, round, fwd, witness, taken, cons, forged>>

\* The permutation returns after the last group, shake after the last block.
NextGroup ==
    /\ round' = round + Stride
    /\ step' = 0
    /\ stage' = IF round + Stride < 24 THEN "forward"
             ELSE IF absorbed < NumBlocks THEN "absorb" ELSE "done"

Meet ==
    /\ stage = "meet"
    /\ cons' = [cons EXCEPT !.auth = @ + 1600]
    /\ IF fwd = bwd
       THEN NextGroup /\ fwd' = state
       ELSE stage' = "unsat" /\ UNCHANGED <<round, step, fwd>>
    /\ UNCHANGED <<degree, input, absorbed, state, bwd, witness, taken, forged>>

\* The bits that are kept are allocated and compared.
CompareDigest ==
    /\ stage = "digest"
    /\ Take(Keep(absorbed))
    /\ cons' = [cons EXCEPT !.auth = @ + Keep(absorbed)]
    /\ IF FirstBits(fwd, Keep(absorbed)) = state'
       THEN NextGroup
       ELSE stage' = "unsat" /\ UNCHANGED <<round, step>>
    /\ UNCHANGED <<degree, input, absorbed, fwd, bwd, witness>>

-----------------------------------------------------------------------------

KeccakInit ==
    /\ degree \in Degrees
    /\ input \in Inputs
    /\ stage = "native"
    /\ absorbed = 0
    /\ state = {} /\ fwd = {} /\ bwd = {}
    /\ round = 0 /\ step = 0
    /\ witness = <<>> /\ taken = <<>>
    /\ cons = [native |-> 0, auth |-> 0]
    /\ forged = FALSE

KeccakNext ==
    \/ NativePermute \/ NativeReturn
    \/ AbsorbBlock \/ ForwardRound \/ TakeSnapshot \/ BackwardRound \/ Meet \/ CompareDigest

KeccakSpec == KeccakInit /\ [][KeccakNext]_keccakVars

-----------------------------------------------------------------------------
(* Properties                                                              *)

\* Soundness of the arithmetised hash: if every constraint holds, whichever
\* members of Flips the prover flipped in whichever blocks, shake returns the
\* SHAKE256 digest of its input - every round once and in order, no snapshot
\* but that of the permutation.
DigestExact ==
    stage = "done" => FirstBits(state, 8 * input.out) = Shake256(input, 8 * input.out)

\* Completeness: on the witness that NativeContext wrote, the forward and the
\* backward rounds meet in every group, at every degree.
HonestMeets == stage = "unsat" => forged

\* "Native and authenticated evaluation must share witness and constraint
\* order" (voleith/src/circuit.hpp:34): block by block AuthContext reads the
\* widths that NativeContext wrote, reads all of them, and counts as many
\* constraints.
SameOrder ==
    /\ \A i \in 1..Len(taken) : taken[i] = witness[i].width
    /\ stage = "done" => Len(taken) = Len(witness) /\ cons.auth = cons.native
=============================================================================
