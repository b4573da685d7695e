------------------------------- MODULE Fips202 -------------------------------
(***************************************************************************)
(* Keccak-f[1600] and SHAKE256 as FIPS 202 defines them: the permutation   *)
(* that the VOLE backend takes from its FAEST dependency.  The offsets and *)
(* the round constants are derived here, not tabulated.                    *)
(*                                                                         *)
(* A state is the set of its bits that are one; bit z of the lane in       *)
(* column c and row r is 320 * r + 64 * c + z.                             *)
(***************************************************************************)
EXTENDS Integers, Sequences, SequencesExt, FiniteSets

Bit == 0..1599
Rate == 1088
RowOf(b) == b \div 320
ColumnOf(b) == (b \div 64) % 5
Z(b) == b % 64
BitAt(r, c, z) == 320 * (r % 5) + 64 * (c % 5) + (z % 64)

Xor(s, t) == (s \ t) \cup (t \ s)

\* Whether the sum of the bits of state s at places is one.
Odd(places, s) == Cardinality({b \in places : b \in s}) % 2 = 1

Theta(s) ==
    {b \in Bit :
        Odd({b} \cup {BitAt(r, ColumnOf(b) + 4, Z(b)) : r \in 0..4}
                \cup {BitAt(r, ColumnOf(b) + 1, Z(b) + 63) : r \in 0..4}, s)}

\* The walk over the lanes <<column, row>> and the offset of each.
Walk[t \in 0..23] ==
    IF t = 0 THEN <<1, 0>>
    ELSE LET w == Walk[t - 1] IN <<w[2], (2 * w[1] + 3 * w[2]) % 5>>

RhoOffset ==
    [l \in (0..4) \X (0..4) |->
        IF l = <<0, 0>> THEN 0
        ELSE LET t == CHOOSE u \in 0..23 : Walk[u] = l
             IN  (((t + 1) * (t + 2)) \div 2) % 64]

Rho(s) == {BitAt(RowOf(b), ColumnOf(b), Z(b) + RhoOffset[<<ColumnOf(b), RowOf(b)>>]) : b \in s}

Pi(s) == {b \in Bit : BitAt(ColumnOf(b), ColumnOf(b) + 3 * RowOf(b), Z(b)) \in s}

Chi(s) ==
    {b \in Bit : (b \in s) #
        (/\ BitAt(RowOf(b), ColumnOf(b) + 1, Z(b)) \notin s
         /\ BitAt(RowOf(b), ColumnOf(b) + 2, Z(b)) \in s)}

\* The feedback shift register that yields the round constants.
Shift(register) ==
    LET shifted == {i + 1 : i \in register}
    IN  IF 8 \in shifted THEN Xor(shifted \ {8}, {0, 4, 5, 6}) ELSE shifted

Registers ==
    FoldLeft(LAMBDA rs, t : Append(rs, Shift(Last(rs))), <<{0}>>, [t \in 1..167 |-> t])

Iota ==
    [r \in 0..23 |-> {(2 ^ j) - 1 : j \in {i \in 0..6 : 0 \in Registers[i + 7 * r + 1]}}]

KeccakRound(s, r) == Xor(Chi(Pi(Rho(Theta(s)))), Iota[r])

\* The states after each of the rounds.
Keccak(s) ==
    LET AddRound(states, r) == Append(states, KeccakRound(Last(states), r))
    IN  Tail(FoldLeft(AddRound, <<s>>, [i \in 1..24 |-> i - 1]))

\* The bits of a message and its blocks: the suffix 1111 and 10*1 are added.
PaddedBits(m) == ((8 * m.len + 6 + Rate - 1) \div Rate) * Rate
PaddedBlocks(m) ==
    LET ones == m.ones \cup ((8 * m.len)..(8 * m.len + 4)) \cup {PaddedBits(m) - 1}
    IN  [i \in 1..(PaddedBits(m) \div Rate) |->
            {b \in 0..(Rate - 1) : (i - 1) * Rate + b \in ones}]

\* The first bits of the digest, for digests of one block.
Shake256(m, bits) ==
    LET Absorb(s, p) == Last(Keccak(Xor(s, p)))
    IN  FoldLeft(Absorb, {}, PaddedBlocks(m)) \cap (0..(bits - 1))
=============================================================================
