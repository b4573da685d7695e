---------------------------- MODULE PooledChains ----------------------------
(***************************************************************************)
(* The pooled WOTS+ chain circuit of the KKW backend                       *)
(* (kkw/src/pooled_chains.inc) and the prover's schedule builder           *)
(* (kkw_build_schedule in kkw/src/circuits.c).                             *)
(*                                                                         *)
(* Instead of MaxSteps conditional hash steps for every chain the circuit  *)
(* makes ScheduleLen steps in all, and a secret byte of the witness says   *)
(* which chain each step advances.  An honest prover builds the schedule   *)
(* from the digest coordinates; a dishonest one puts any bytes there.  The *)
(* circuit must therefore check that the schedule was right, which it does *)
(* with packed position counters, four lanes to a word, and one check word *)
(* that every discrepancy is OR-ed into.                                   *)
(*                                                                         *)
(* A node is the sequence of the tweaks (chain, position) that were hashed *)
(* into it since the value that the signature gives.  The secret sharing   *)
(* of the values is not visible at this level: a gate is what it computes. *)
(***************************************************************************)
EXTENDS Integers, Sequences, FiniteSetsExt

CONSTANTS
    NumChains,    \* XMSS_WOTS_LEN
    MaxSteps,     \* XMSS_WOTS_MAX_STEPS
    ScheduleLen,  \* W_SCHEDULE_LEN
    LaneSize,     \* values of a packed position: 2^8
    IndexSize     \* values of a schedule byte: 2^8

\* The two static assertions on the parameters, and what the types of
\* schedule bytes and chain indices say.
ASSUME ParametersAssumption ==
    /\ NumChains \in Nat \ {0}
    /\ MaxSteps \in Nat
    /\ ScheduleLen \in Nat
    /\ LaneSize \in Nat
    /\ IndexSize \in Nat
    /\ MaxSteps + ScheduleLen < LaneSize
    /\ NumChains <= IndexSize

VARIABLES
    coords,    \* digest coordinate of each chain
    leftover,  \* whether one of the two unused digest bits is set
    phase,     \* "start", "build", "chains", "rejected" or "done"
    chain,     \* kkw_build_schedule: ci of its outer loop
    at,        \* kkw_build_schedule: pos of its inner loop
    schedule,  \* the schedule bytes of the witness
    step,      \* schedule steps that the circuit has made
    lanes,     \* positions, the packed counters, lane by lane
    nodes,     \* tweaks hashed into the node of each chain
    check,     \* whether any bit of the check word is set
    honest     \* history: the schedule came from kkw_build_schedule

vars == <<coords, leftover, phase, chain, at, schedule, step, lanes, nodes,
          check, honest>>
builder == <<chain, at>>
circuit == <<step, lanes, nodes, check>>

Chain == 0..(NumChains - 1)
Byte == 0..(IndexSize - 1)
Coord == 0..MaxSteps

\* GROUPS words of four lanes; the last word may have lanes of no chain.
Groups == (NumChains + 3) \div 4
Lane == 0..(4 * Groups - 1)

\* XMSS_TARGET_SUM: W_SCHEDULE_LEN is defined from it.
TargetSum == NumChains * MaxSteps - ScheduleLen

SumOf(c) == MapThenSumSet(LAMBDA i : c[i], Chain)
CoordSum == SumOf(coords)

-----------------------------------------------------------------------------
(* Reference: the chains as xmss_verify walks them                         *)

\* xmss_hash_chain_multi: the tweaks of the steps after position from.
ChainMulti(i, from, steps) == [k \in 1..steps |-> <<i, from + k>>]

\* xmss_wots_pk_from_sig.
PkFromSig == [i \in Chain |-> ChainMulti(i, coords[i], MaxSteps - coords[i])]

-----------------------------------------------------------------------------

Init ==
    /\ coords \in [Chain -> Coord]
    /\ leftover \in BOOLEAN
    /\ phase = "start"
    /\ chain = 0
    /\ at = coords[0]
    /\ schedule = <<>>
    /\ step = 0
    /\ lanes = [l \in Lane |-> IF l \in Chain THEN coords[l] ELSE 0]
    /\ nodes = [i \in Chain |-> <<>>]
    /\ check = FALSE
    /\ honest = FALSE

-----------------------------------------------------------------------------
(* kkw_build_schedule                                                      *)

\* The digest is decoded; a set leftover bit rejects it.
BuildStart ==
    /\ phase = "start"
    /\ phase' = IF leftover THEN "rejected" ELSE "build"
    /\ honest' = TRUE
    /\ UNCHANGED <<coords, leftover, builder, schedule, circuit>>

\* Variant: the last slot of the schedule is not used.
BuildSlotShort ==
    /\ phase = "build"
    /\ chain < NumChains
    /\ at < MaxSteps
    /\ IF Len(schedule) + 1 = ScheduleLen
       THEN phase' = "rejected" /\ UNCHANGED <<at, schedule>>
       ELSE /\ schedule' = Append(schedule, chain)
            /\ at' = at + 1
            /\ UNCHANGED phase
    /\ UNCHANGED <<coords, leftover, chain, circuit, honest>>

\* One turn of the inner loop, with its early return when no slot is left.
BuildSlot ==
    /\ phase = "build"
    /\ chain < NumChains
    /\ at < MaxSteps
    /\ IF Len(schedule) = ScheduleLen
       THEN phase' = "rejected" /\ UNCHANGED <<at, schedule>>
       ELSE /\ schedule' = Append(schedule, chain)
            /\ at' = at + 1
            /\ UNCHANGED phase
    /\ UNCHANGED <<coords, leftover, chain, circuit, honest>>

\* One turn of the outer loop ends.
BuildNext ==
    /\ phase = "build"
    /\ chain < NumChains
    /\ at = MaxSteps
    /\ chain' = chain + 1
    /\ at' = IF chain + 1 < NumChains THEN coords[chain + 1] ELSE at
    /\ UNCHANGED <<coords, leftover, phase, schedule, circuit, honest>>

\* return slot == W_SCHEDULE_LEN
BuildReturn ==
    /\ phase = "build"
    /\ chain = NumChains
    /\ phase' = IF Len(schedule) = ScheduleLen THEN "chains" ELSE "rejected"
    /\ UNCHANGED <<coords, leftover, builder, schedule, circuit, honest>>

\* A dishonest prover: any bytes.
Supply(bytes) ==
    /\ phase = "start"
    /\ phase' = "chains"
    /\ schedule' = bytes
    /\ UNCHANGED <<coords, leftover, builder, circuit, honest>>

-----------------------------------------------------------------------------
(* pool_chains                                                             *)

SameWord(i, j) == i \div 4 = j \div 4

\* Variant: counters only as wide as a coordinate.
AddNarrow(pos, i) ==
    [j \in Lane |->
        IF SameWord(i, j) /\ i <= j /\ \A k \in i..(j - 1) : pos[k] = MaxSteps
        THEN (pos[j] + 1) % (MaxSteps + 1)
        ELSE pos[j]]

\* The 32-bit addition of 1 in lane i: the carry runs up the lanes of the
\* word for as long as they are full, and out of the last one is lost.
AddLane(pos, i) ==
    [j \in Lane |->
        IF /\ SameWord(i, j)
           /\ i <= j
           /\ \A k \in i..(j - 1) : pos[k] = LaneSize - 1
        THEN (pos[j] + 1) % LaneSize
        ELSE pos[j]]

\* Variant: the position is selected before the counter moves.
StepChainStale(i) ==
    /\ phase = "chains"
    /\ step < ScheduleLen
    /\ schedule[step + 1] = i
    /\ step' = step + 1
    /\ lanes' = AddLane(lanes, i)
    /\ nodes' = [nodes EXCEPT ![i] = Append(@, <<i, lanes[i]>>)]
    /\ UNCHANGED <<coords, leftover, phase, builder, schedule, check, honest>>

\* A step whose byte names chain i: the one-hot mask selects its node and
\* its position, already incremented, which are hashed into the node.
StepChain(i) ==
    /\ phase = "chains"
    /\ step < ScheduleLen
    /\ schedule[step + 1] = i
    /\ step' = step + 1
    /\ lanes' = AddLane(lanes, i)
    /\ nodes' = [nodes EXCEPT ![i] = Append(@, <<i, lanes'[i]>>)]
    /\ UNCHANGED <<coords, leftover, phase, builder, schedule, check, honest>>

\* Variant: an index out of range goes unnoticed.
StepInvalidSilent ==
    /\ phase = "chains"
    /\ step < ScheduleLen
    /\ schedule[step + 1] \notin Chain
    /\ step' = step + 1
    /\ UNCHANGED <<coords, leftover, phase, builder, schedule, lanes, nodes,
                   check, honest>>

\* A step whose byte names no chain: every mask is zero, so nothing moves,
\* and the parity of the one-hot word sets the check.
StepInvalid ==
    /\ phase = "chains"
    /\ step < ScheduleLen
    /\ schedule[step + 1] \notin Chain
    /\ step' = step + 1
    /\ check' = TRUE
    /\ UNCHANGED <<coords, leftover, phase, builder, schedule, lanes, nodes,
                   honest>>

\* Every lane of a chain must have reached MaxSteps; the lanes of no chain
\* are OR-ed into the check as they are.
Finish ==
    /\ phase = "chains"
    /\ step = ScheduleLen
    /\ check' = (\/ check
                 \/ \E l \in Lane : lanes[l] # IF l \in Chain THEN MaxSteps ELSE 0)
    /\ phase' = "done"
    /\ UNCHANGED <<coords, leftover, builder, schedule, step, lanes, nodes,
                   honest>>

Build == BuildStart \/ BuildSlot \/ BuildNext \/ BuildReturn

Next ==
    \/ Build
    \/ \E bytes \in [1..ScheduleLen -> Byte] : Supply(bytes)
    \/ \E i \in Chain : StepChain(i)
    \/ StepInvalid
    \/ Finish

Spec == Init /\ [][Next]_vars

-----------------------------------------------------------------------------
(* Properties                                                              *)

\* Type invariant of the builder's and the circuit's state.
TypeOK ==
    /\ coords \in [Chain -> Coord]
    /\ leftover \in BOOLEAN
    /\ phase \in {"start", "build", "chains", "rejected", "done"}
    /\ chain \in 0..NumChains
    /\ at \in Coord
    /\ schedule \in Seq(Byte)
    /\ phase \in {"chains", "done"} => Len(schedule) = ScheduleLen
    /\ step \in 0..ScheduleLen
    /\ lanes \in [Lane -> 0..(LaneSize - 1)]
    /\ nodes \in [Chain -> Seq(Chain \X (0..(LaneSize - 1)))]
    /\ check \in BOOLEAN
    /\ honest \in BOOLEAN

\* "Even a malicious schedule increments a position at most 99 times ... so
\* no lane can wrap or carry into its neighbor" (the comment on the packed
\* counters): at every step of pool_chains each lane counts the steps of
\* its own chain and nothing else, and the spare lanes stay zero.
NoLaneWraps ==
    \A l \in Lane :
        lanes[l] = IF l \in Chain THEN coords[l] + Len(nodes[l]) ELSE 0

\* "Final equality to 7 therefore proves the exact number of steps per
\* chain": whatever the schedule bytes, if pool_chains ends with the check
\* word clear then every node is the one xmss_wots_pk_from_sig computes, with
\* the same tweaks in the same order.
CheckedChainsAreExact == phase = "done" /\ ~check => nodes = PkFromSig

\* The schedule has exactly as many slots as the target sum leaves steps, and
\* each slot must be used: a clear check word also proves that the digest
\* has the target sum, which the circuit adds up once more for its output.
CheckImpliesTargetSum == phase = "done" /\ ~check => CoordSum = TargetSum

\* kkw_build_schedule refuses exactly the digests that xmss_verify refuses,
\* and every schedule it returns passes the check of pool_chains.
HonestScheduleAccepted ==
    /\ phase = "rejected" => leftover \/ CoordSum # TargetSum
    /\ phase = "done" /\ honest =>
           ~leftover /\ CoordSum = TargetSum /\ ~check

=============================================================================
