------------------------------ MODULE MpcGates ------------------------------
(***************************************************************************)
(* The gates of the KKW circuit (kkw/src/MPC_prove_functions.c and         *)
(* MPC_verify_functions.c): AND of two words and addition modulo 2^W.      *)
(*                                                                         *)
(* A masked word is a public word h and a share of its mask for every      *)
(* party.  The prover knows all shares and yields the masked result, the   *)
(* correction (aux) that goes with party 0, and one broadcast s of every   *)
(* party.  The verifier has the shares of all parties but a hidden one,    *)
(* whose broadcast it is told.  compute_aux_from_seeds is the prover's     *)
(* gate on zero words.                                                     *)
(*                                                                         *)
(* A word is the set of its bits that are one.                             *)
(***************************************************************************)
EXTENDS Integers, FiniteSets, FiniteSetsExt

CONSTANTS
    N,       \* N_PARTIES
    W,       \* bits of a word, 32
    Shares,  \* mask shares of the parties: some functions on Party
    Tapes    \* what the tapes of the parties hold for a gate: likewise

Party == 0..(N - 1)
Bits == 0..(W - 1)
Word == SUBSET Bits

\* The five shifts of prefix_xor_shift reach every bit of a word of 32.
ASSUME GateAssumption ==
    /\ N \in Nat \ {0, 1} /\ W \in 1..32
    /\ Shares \subseteq [Party -> Word]
    /\ Tapes \subseteq [lam : [Party -> Word], prod : [Party -> Word]]

Xor(v, w) == (v \ w) \cup (w \ v)
XorOf(f) == {b \in Bits : Cardinality({p \in DOMAIN f : b \in f[p]}) % 2 = 1}
ShiftLeft(v, k) == {b + k : b \in v} \cap Bits

\* The number that a word is, and the sum of two.
Pow2[n \in Nat] == IF n = 0 THEN 1 ELSE 2 * Pow2[n - 1]
Value(v) == MapThenSumSet(LAMBDA b : Pow2[b], v)
Sum(v, w) ==
    {b \in Bits : ((Value(v) + Value(w)) \div Pow2[b]) % 2 = 1}

\* The masked word [h, l] and the word it stands for.
Unmask(x) == Xor(x.h, XorOf(x.l))

\* v ^= v << k, and the five of them.
XorShift(v, k) == Xor(v, ShiftLeft(v, k))
PrefixXor(v) ==
    XorShift(XorShift(XorShift(XorShift(XorShift(v, 1), 2), 4), 8), 16)

\* Variant: the word itself counts.
PrefixXorShiftWide(v) == PrefixXor(v)

\* Bit b is the sum of the bits below b.
PrefixXorShift(v) == ShiftLeft(PrefixXor(v), 1)

-----------------------------------------------------------------------------
(* The broadcast of a party, from its shares of the two factors and its     *)
(* tapes; party 0 adds what depends on no share.                            *)

\* Variant: party 0 does as the others.
BroadcastAlike(p, xh, yh, xl, yl, prod, lam, corr) ==
    Xor(Xor(xh \cap yl, yh \cap xl), Xor(prod, lam))

Broadcast(p, xh, yh, xl, yl, prod, lam, corr) ==
    Xor(Xor(xh \cap yl, yh \cap xl),
        Xor(Xor(prod, lam), IF p = 0 THEN Xor(xh \cap yh, corr) ELSE {}))

\* The broadcasts of the parties that x and y have shares of.
Slots(x, y, tape, corr) ==
    [p \in DOMAIN x.l |->
        Broadcast(p, x.h, y.h, x.l[p], y.l[p], tape.prod[p], tape.lam[p], corr)]

\* What is missing of the product of the masks.
Correction(x, y, tape) == Xor(XorOf(x.l) \cap XorOf(y.l), XorOf(tape.prod))

\* A summand with the masked carries added to it.
Carried(x, tape, ch) ==
    [h |-> Xor(x.h, ch),
     l |-> [p \in DOMAIN x.l |-> Xor(x.l[p], PrefixXorShift(tape.lam[p]))]]

\* The sum of two summands and their masked carries.
SumWith(x, y, tape, ch) ==
    [h |-> Xor(Xor(x.h, y.h), ch),
     l |-> [p \in DOMAIN x.l |-> Xor(Carried(x, tape, ch).l[p], y.l[p])]]

\* mpc_AND.
ProveAnd(x, y, tape) ==
    LET corr == Correction(x, y, tape)
        s == Slots(x, y, tape, corr)
    IN  [z |-> [h |-> XorOf(s), l |-> tape.lam], aux |-> corr, s |-> s]

\* mpc_ADD: lam masks the carries.  Bit b + 1 of them is bit b plus the product
\* of the two summands with their carries at b.
ProveAdd(x, y, tape) ==
    LET xv == Unmask(x)
        yv == Unmask(y)
        ch == Xor(Xor(Xor(Sum(xv, yv), xv), yv),
                  XorOf([p \in Party |-> PrefixXorShift(tape.lam[p])]))
        cx == Carried(x, tape, ch)
        cy == Carried(y, tape, ch)
        corr == Correction(cx, cy, tape) \ {W - 1}
    IN  [z |-> SumWith(x, y, tape, ch), aux |-> corr, s |-> Slots(cx, cy, tape, corr)]

\* What the verifier has of x when party e is hidden.
GateSeen(x, e) == [h |-> x.h, l |-> [p \in Party \ {e} |-> x.l[p]]]

\* mpc_AND_verify.
VerifyAnd(x, y, tape, e, me, aux) ==
    LET s == Slots(x, y, tape, aux)
    IN  [z |-> [h |-> Xor(me, XorOf(s)), l |-> [p \in DOMAIN x.l |-> tape.lam[p]]],
         s |-> s]

\* The sum of the broadcasts of all parties but e, from the sums of their shares.
Joint(x, y, tape, e, aux) ==
    Broadcast(IF e = 0 THEN 1 ELSE 0, x.h, y.h, XorOf(x.l), XorOf(y.l),
              XorOf([p \in DOMAIN x.l |-> tape.prod[p]]),
              XorOf([p \in DOMAIN x.l |-> tape.lam[p]]), aux)

\* mpc_ADD_verify: bit b + 1 of the masked carries from the bits up to b.
VerifyAdd(x, y, tape, e, me, aux) ==
    LET Reveal(c) == Xor(me, Joint(Carried(x, tape, c), Carried(y, tape, c), tape, e, aux))
        Carry(c, b) == IF (b \in c) # (b \in Reveal(c)) THEN c \cup {b + 1} ELSE c
        carries[b \in Bits] == IF b = 0 THEN {} ELSE Carry(carries[b - 1], b - 1)
        ch == carries[W - 1]
    IN  [z |-> SumWith(x, y, tape, ch),
         s |-> Slots(Carried(x, tape, ch), Carried(y, tape, ch), tape, aux)]

-----------------------------------------------------------------------------
(* Either gate                                                              *)

Op == {"and", "add"}
ProveGate(op, x, y, tape) ==
    IF op = "and" THEN ProveAnd(x, y, tape) ELSE ProveAdd(x, y, tape)
VerifyGate(op, x, y, tape, e, me, aux) ==
    IF op = "and" THEN VerifyAnd(GateSeen(x, e), GateSeen(y, e), tape, e, me, aux)
    ELSE VerifyAdd(GateSeen(x, e), GateSeen(y, e), tape, e, me, aux)
Plain(op, v, w) == IF op = "and" THEN v \cap w ELSE Sum(v, w)

MaskedWord == [h : Word, l : Shares]
Others(s, e) == [p \in Party \ {e} |-> s[p]]

\* The proof file has aux only when party 0 is not the hidden one.
AuxFor(e, aux) == IF e = 0 THEN {} ELSE aux

-----------------------------------------------------------------------------
(* What the protocol needs of the gates when party e is hidden              *)

\* The prover's gate computes the operation on the words; its correction and
\* its mask are those of the preprocessing, which knows no word; and the
\* verifier comes to the same result and to the same broadcasts of the others.
Recomputes ==
    [e \in Party |->
        \A op \in Op, x, y \in MaskedWord, tape \in Tapes :
            LET g == ProveGate(op, x, y, tape)
                pre == ProveGate(op, [x EXCEPT !.h = {}], [y EXCEPT !.h = {}], tape)
            IN  /\ Unmask(g.z) = Plain(op, Unmask(x), Unmask(y))
                /\ pre.aux = g.aux /\ pre.z.l = g.z.l
                /\ VerifyGate(op, x, y, tape, e, g.s[e], AuxFor(e, g.aux)) =
                      [z |-> GateSeen(g.z, e), s |-> Others(g.s, e)]]

\* With the right correction, broadcasts that the verifier accepts here and
\* would accept with another hidden party are those of the right result.
Binds ==
    [e \in Party |->
        \A op \in Op, x, y \in MaskedWord, tape \in Tapes, me \in Word :
            LET g == ProveGate(op, x, y, tape)
                run == VerifyGate(op, x, y, tape, e, me, AuxFor(e, g.aux))
                s == [p \in Party |-> IF p = e THEN me ELSE run.s[p]]
                Accepted(f) ==
                    VerifyGate(op, x, y, tape, f, s[f], AuxFor(f, g.aux)).s = Others(s, f)
            IN  (\E f \in Party \ {e} : Accepted(f)) =>
                    Xor(run.z.h, XorOf(g.z.l)) = Plain(op, Unmask(x), Unmask(y))]
=============================================================================
