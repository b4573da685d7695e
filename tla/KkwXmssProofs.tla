--------------------------- MODULE KkwXmssProofs ---------------------------
(***************************************************************************)
(* Proofs about the XMSS signatures of kkw, for every value of the         *)
(* parameters: about the circuit that verifies their chains, that no       *)
(* packed counter ever wraps and that a clear check word means exactly the *)
(* chains that xmss_verify walks; and about the signer's tree, that its    *)
(* buffers hold the Merkle tree of the whole height however it is split    *)
(* and that every signature verifies.                                      *)
(***************************************************************************)
EXTENDS PooledChains, XmssTree, SumTheorems, SequenceTheorems, TLAPS

-----------------------------------------------------------------------------
(* Part 1: the pooled chains                                               *)

\* A chain is not advanced more often than there have been steps: with the
\* static assertion on LaneSize this is what keeps a lane from wrapping.
StepsInv == \A i \in Chain : Len(nodes[i]) <= step

\* What has been hashed into a node so far is a prefix of its chain.
PrefixInv ==
    \A i \in Chain : \A k \in 1..Len(nodes[i]) : nodes[i][k] = <<i, coords[i] + k>>

\* What the final comparison has established.
FinalInv == phase = "done" /\ ~check => \A i \in Chain : lanes[i] = MaxSteps

IInv == TypeOK /\ NoLaneWraps /\ StepsInv /\ PrefixInv /\ FinalInv

-----------------------------------------------------------------------------

\* Every chain has a lane.
LEMMA ChainHasLane == Chain \subseteq Lane
BY ParametersAssumption DEF Chain, Lane, Groups

\* Adding one in a lane that is not full changes that lane only.
LEMMA AddLaneNoCarry ==
    ASSUME NEW pos \in [Lane -> 0..(LaneSize - 1)], NEW i \in Chain,
           pos[i] < LaneSize - 1
    PROVE  AddLane(pos, i) = [pos EXCEPT ![i] = @ + 1]
<1>1. i \in Lane /\ LaneSize \in Nat
  BY ChainHasLane, ParametersAssumption
<1>2. ASSUME NEW j \in Lane
      PROVE  AddLane(pos, i)[j] = IF j = i THEN pos[i] + 1 ELSE pos[j]
  <2>1. CASE j = i
    <3>1. \A k \in i..(j - 1) : FALSE
      BY <1>1, <2>1 DEF Lane
    <3>2. AddLane(pos, i)[j] = (pos[i] + 1) % LaneSize
      BY <1>1, <2>1, <3>1 DEF AddLane, SameWord, Lane
    <3>3. (pos[i] + 1) % LaneSize = pos[i] + 1
      BY <1>1
    <3> QED BY <2>1, <3>2, <3>3
  <2>2. CASE j # i
    <3>1. i <= j => i \in i..(j - 1)
      BY <1>1, <2>2 DEF Lane
    <3>2. pos[i] # LaneSize - 1
      BY <1>1
    <3> QED BY <2>2, <3>1, <3>2 DEF AddLane
  <2> QED BY <2>1, <2>2
<1> QED BY <1>1, <1>2 DEF AddLane

-----------------------------------------------------------------------------

\* The lanes start at the coordinates of the digest.
LEMMA InvInit == Init => IInv
<1> SUFFICES ASSUME Init PROVE IInv
  OBVIOUS
<1> USE ParametersAssumption
<1>0. Coord \subseteq 0..(LaneSize - 1) /\ 0 \in 0..(LaneSize - 1) /\ 0 \in Chain
  BY DEF Coord, Chain
<1>1. TypeOK
  <2>1. lanes \in [Lane -> 0..(LaneSize - 1)]
    BY <1>0 DEF Init
  <2>2. nodes \in [Chain -> Seq(Chain \X (0..(LaneSize - 1)))]
    BY DEF Init
  <2> QED BY <1>0, <2>1, <2>2 DEF Init, TypeOK, Coord
<1>2. NoLaneWraps
  BY DEF Init, NoLaneWraps, Coord
<1>3. StepsInv /\ PrefixInv /\ FinalInv
  BY DEF Init, StepsInv, PrefixInv, FinalInv
<1> QED BY <1>1, <1>2, <1>3 DEF IInv

\* A step of the builder, or of the dishonest prover, leaves the circuit as
\* it is.
LEMMA InvBuild ==
    IInv /\ (Build \/ \E bytes \in [1..ScheduleLen -> Byte] : Supply(bytes)) => IInv'
<1> SUFFICES ASSUME IInv, Build \/ \E bytes \in [1..ScheduleLen -> Byte] : Supply(bytes)
             PROVE  IInv'
  OBVIOUS
<1> USE ParametersAssumption
<1>0. TypeOK /\ phase \in {"start", "build"} /\ phase' # "done"
  BY DEF IInv, Build, BuildStart, BuildSlot, BuildNext, BuildReturn, Supply
<1>1. UNCHANGED <<coords, leftover, step, lanes, nodes, check>>
  BY DEF Build, BuildStart, BuildSlot, BuildNext, BuildReturn, Supply, circuit
<1>2. TypeOK'
  <2>1. CASE BuildStart
    BY <1>0, <2>1 DEF TypeOK, BuildStart, builder, circuit
  <2>2. CASE BuildSlot
    <3>1. chain \in Byte
      BY <1>0, <2>2 DEF TypeOK, BuildSlot, Byte
    <3>2. schedule' \in Seq(Byte)
      <4>1. schedule \in Seq(Byte)
        BY <1>0 DEF TypeOK
      <4>2. Append(schedule, chain) \in Seq(Byte)
        BY <3>1, <4>1
      <4>3. schedule' = schedule \/ schedule' = Append(schedule, chain)
        BY <2>2 DEF BuildSlot
      <4> QED BY <4>1, <4>2, <4>3
    <3>3. at' \in Coord
      BY <1>0, <2>2 DEF TypeOK, BuildSlot, Coord
    <3>4. UNCHANGED <<coords, leftover, chain, step, lanes, nodes, check, honest>>
      BY <2>2 DEF BuildSlot, circuit
    <3>5. phase' \in {"build", "rejected"}
      BY <2>2 DEF BuildSlot
    <3> QED BY <1>0, <3>2, <3>3, <3>4, <3>5 DEF TypeOK
  <2>3. CASE BuildNext
    <3>1. chain + 1 < NumChains => coords[chain + 1] \in Coord
      BY <1>0, <2>3 DEF TypeOK, BuildNext, Chain
    <3> QED BY <1>0, <2>3, <3>1 DEF TypeOK, BuildNext, circuit
  <2>4. CASE BuildReturn
    BY <1>0, <2>4 DEF TypeOK, BuildReturn, builder, circuit
  <2>5. ASSUME NEW bytes \in [1..ScheduleLen -> Byte], Supply(bytes)
        PROVE  TypeOK'
    <3>1. bytes \in Seq(Byte) /\ Len(bytes) = ScheduleLen
      OBVIOUS
    <3> QED BY <1>0, <2>5, <3>1 DEF TypeOK, Supply, builder, circuit
  <2> QED BY <2>1, <2>2, <2>3, <2>4, <2>5 DEF Build
<1>3. NoLaneWraps' /\ StepsInv' /\ PrefixInv'
  BY <1>1 DEF IInv, NoLaneWraps, StepsInv, PrefixInv
<1>4. FinalInv'
  BY <1>0 DEF FinalInv
<1> QED BY <1>2, <1>3, <1>4 DEF IInv

\* A slot of pool_chains that walks a chain keeps the invariant.
LEMMA InvStepChain == ASSUME IInv, NEW i \in Chain, StepChain(i) PROVE IInv'
<1> USE ParametersAssumption
<1>0. TypeOK /\ NoLaneWraps /\ StepsInv /\ PrefixInv
  BY DEF IInv
<1>1. /\ UNCHANGED <<coords, leftover, phase, chain, at, schedule, check, honest>>
      /\ step \in Nat /\ step < ScheduleLen /\ step' = step + 1
      /\ phase = "chains"
  BY <1>0 DEF StepChain, builder, TypeOK
<1>2. /\ i \in Lane /\ coords[i] \in Nat /\ coords[i] <= MaxSteps
      /\ nodes[i] \in Seq(Chain \X (0..(LaneSize - 1)))
      /\ lanes[i] = coords[i] + Len(nodes[i])
      /\ Len(nodes[i]) \in Nat /\ Len(nodes[i]) <= step
  BY <1>0, ChainHasLane DEF TypeOK, NoLaneWraps, StepsInv, Coord
<1>3. lanes[i] < LaneSize - 1 /\ lanes[i] \in Nat
  BY <1>1, <1>2
<1>4. lanes' = [lanes EXCEPT ![i] = @ + 1]
  BY <1>0, <1>3, AddLaneNoCarry DEF StepChain, TypeOK
<1>5. lanes'[i] = lanes[i] + 1 /\ lanes'[i] \in 0..(LaneSize - 1)
  BY <1>0, <1>2, <1>3, <1>4 DEF TypeOK
<1>6. nodes' = [nodes EXCEPT ![i] = Append(@, <<i, lanes[i] + 1>>)]
  BY <1>5 DEF StepChain
<1>7. /\ nodes'[i] = Append(nodes[i], <<i, lanes[i] + 1>>)
      /\ nodes'[i] \in Seq(Chain \X (0..(LaneSize - 1)))
      /\ Len(nodes'[i]) = Len(nodes[i]) + 1
  BY <1>0, <1>2, <1>5, <1>6 DEF TypeOK
<1>8. \A j \in Chain \ {i} : nodes'[j] = nodes[j]
  BY <1>0, <1>6 DEF TypeOK
<1>9. TypeOK'
  <2>1. lanes' \in [Lane -> 0..(LaneSize - 1)]
    BY <1>0, <1>4, <1>5 DEF TypeOK
  <2>2. nodes' \in [Chain -> Seq(Chain \X (0..(LaneSize - 1)))]
    BY <1>0, <1>6, <1>7 DEF TypeOK
  <2> QED BY <1>0, <1>1, <2>1, <2>2 DEF TypeOK
<1>10. NoLaneWraps'
  <2> SUFFICES ASSUME NEW l \in Lane
               PROVE  lanes'[l] = IF l \in Chain THEN coords[l] + Len(nodes'[l]) ELSE 0
    BY <1>1 DEF NoLaneWraps
  <2>1. CASE l = i
    <3>1. lanes'[i] = coords[i] + Len(nodes'[i])
      BY <1>2, <1>5, <1>7
    <3> QED BY <2>1, <3>1
  <2>2. CASE l # i
    BY <1>0, <1>4, <1>8, <2>2 DEF NoLaneWraps, TypeOK
  <2> QED BY <2>1, <2>2
<1>11. StepsInv'
  <2> SUFFICES ASSUME NEW j \in Chain PROVE Len(nodes'[j]) <= step'
    BY DEF StepsInv
  <2>1. Len(nodes[j]) \in Nat /\ Len(nodes[j]) <= step
    BY <1>0 DEF StepsInv, TypeOK
  <2>2. step' = step + 1 /\ step \in Nat
    BY <1>1
  <2>3. CASE j = i
    <3>1. Len(nodes'[j]) = Len(nodes[j]) + 1
      BY <1>7, <2>3
    <3> QED BY <2>1, <2>2, <3>1
  <2>4. CASE j # i
    <3>1. nodes'[j] = nodes[j]
      BY <1>8, <2>4
    <3>2. Len(nodes'[j]) = Len(nodes[j])
      BY <3>1
    <3> QED BY <2>1, <2>2, <3>2
  <2> QED BY <2>3, <2>4
<1>12. PrefixInv'
  <2> SUFFICES ASSUME NEW j \in Chain, NEW k \in 1..Len(nodes'[j])
               PROVE  nodes'[j][k] = <<j, coords[j] + k>>
    BY <1>1 DEF PrefixInv
  <2>0. /\ \A m \in 1..Len(nodes[i]) : nodes'[i][m] = nodes[i][m]
        /\ nodes'[i][Len(nodes[i]) + 1] = <<i, lanes[i] + 1>>
    <3>1. <<i, lanes[i] + 1>> \in Chain \X (0..(LaneSize - 1))
      BY <1>3, <1>5
    <3> QED BY <1>2, <1>7, <3>1, AppendProperties
  <2>1. CASE j # i
    <3>1. nodes'[j] = nodes[j]
      BY <1>8, <2>1
    <3> QED BY <1>0, <3>1 DEF PrefixInv
  <2>2. CASE j = i /\ k \in 1..Len(nodes[i])
    <3>1. nodes[i][k] = <<i, coords[i] + k>>
      BY <1>0, <2>2 DEF PrefixInv
    <3>2. nodes'[i][k] = nodes[i][k]
      BY <2>0, <2>2
    <3> QED BY <2>2, <3>1, <3>2
  <2>3. CASE j = i /\ k = Len(nodes[i]) + 1
    <3>1. nodes'[i][k] = <<i, lanes[i] + 1>>
      BY <2>0, <2>3
    <3>2. /\ coords[i] \in Nat /\ Len(nodes[i]) \in Nat
          /\ lanes[i] = coords[i] + Len(nodes[i])
          /\ k = Len(nodes[i]) + 1
      BY <1>2, <2>3
    <3>3. lanes[i] + 1 = coords[i] + k
      BY ONLY <3>2
    <3> QED BY <2>3, <3>1, <3>3
  <2>4. j = i => k \in 1..Len(nodes[i]) \/ k = Len(nodes[i]) + 1
    BY <1>2, <1>7
  <2> QED BY <2>1, <2>2, <2>3, <2>4
<1>13. FinalInv'
  BY <1>1 DEF FinalInv
<1> QED BY <1>9, <1>10, <1>11, <1>12, <1>13 DEF IInv

\* A slot whose selector names no chain keeps the invariant.
LEMMA InvStepInvalid == ASSUME IInv, StepInvalid PROVE IInv'
<1> USE ParametersAssumption
<1>1. UNCHANGED <<coords, leftover, phase, chain, at, schedule, lanes, nodes, honest>>
  BY DEF StepInvalid, builder
<1>2. step \in Nat /\ step' = step + 1 /\ step < ScheduleLen /\ check' = TRUE
  BY DEF IInv, TypeOK, StepInvalid
<1>3. TypeOK'
  BY <1>1, <1>2 DEF IInv, TypeOK
<1>4. NoLaneWraps' /\ PrefixInv' /\ FinalInv'
  BY <1>1, <1>2 DEF IInv, NoLaneWraps, PrefixInv, FinalInv
<1>5. StepsInv'
  BY <1>1, <1>2 DEF IInv, TypeOK, StepsInv
<1> QED BY <1>3, <1>4, <1>5 DEF IInv

\* The check word after the last slot keeps the invariant.
LEMMA InvFinish == ASSUME IInv, Finish PROVE IInv'
<1>1. UNCHANGED <<coords, leftover, chain, at, schedule, step, lanes, nodes, honest>>
  BY DEF Finish, builder
<1>2. TypeOK'
  BY <1>1 DEF IInv, TypeOK, Finish
<1>3. NoLaneWraps' /\ StepsInv' /\ PrefixInv'
  BY <1>1 DEF IInv, NoLaneWraps, StepsInv, PrefixInv
<1>4. FinalInv'
  BY <1>1, ChainHasLane DEF Finish, FinalInv
<1> QED BY <1>2, <1>3, <1>4 DEF IInv

\* Every step of the circuit keeps the invariant.
LEMMA InvNext == IInv /\ [Next]_vars => IInv'
<1> SUFFICES ASSUME IInv, [Next]_vars PROVE IInv'
  OBVIOUS
<1>1. CASE UNCHANGED vars
  BY <1>1 DEF vars, IInv, TypeOK, NoLaneWraps, StepsInv, PrefixInv, FinalInv
<1>2. CASE Build \/ \E bytes \in [1..ScheduleLen -> Byte] : Supply(bytes)
  BY <1>2, InvBuild
<1>3. CASE \E i \in Chain : StepChain(i)
  BY <1>3, InvStepChain
<1>4. CASE StepInvalid
  BY <1>4, InvStepInvalid
<1>5. CASE Finish
  BY <1>5, InvFinish
<1> QED BY <1>1, <1>2, <1>3, <1>4, <1>5 DEF Next

\* What the invariant says once the final comparison has passed.
LEMMA ExactFromInv == IInv => CheckedChainsAreExact
<1> SUFFICES ASSUME IInv, phase = "done", ~check PROVE nodes = PkFromSig
  BY DEF CheckedChainsAreExact
<1>1. ASSUME NEW i \in Chain
      PROVE  nodes[i] = ChainMulti(i, coords[i], MaxSteps - coords[i])
  <2>1. /\ nodes[i] \in Seq(Chain \X (0..(LaneSize - 1)))
        /\ coords[i] \in Int
        /\ Len(nodes[i]) = MaxSteps - coords[i]
    BY <1>1, ChainHasLane, ParametersAssumption
       DEF IInv, TypeOK, NoLaneWraps, FinalInv, Coord
  <2>2. nodes[i] = [k \in 1..Len(nodes[i]) |-> nodes[i][k]]
    BY <2>1
  <2>3. \A k \in 1..Len(nodes[i]) : nodes[i][k] = <<i, coords[i] + k>>
    BY <1>1 DEF IInv, PrefixInv
  <2> QED BY <2>1, <2>2, <2>3 DEF ChainMulti
<1> QED BY <1>1 DEF PkFromSig, IInv, TypeOK

-----------------------------------------------------------------------------

\* The invariant holds of every behaviour of the circuit.
THEOREM PooledInvariant == Spec => []IInv
BY InvInit, InvNext, PTL DEF Spec

\* Type correctness of the schedule builder and of pool_chains, for all
\* parameters.
THEOREM PooledTypeCorrect == Spec => []TypeOK
<1>1. IInv => TypeOK
  BY DEF IInv
<1> QED BY PooledInvariant, <1>1, PTL

\* No packed position counter of pool_chains wraps or carries into its
\* neighbour, whatever schedule the prover supplies.
THEOREM LanesNeverWrap == Spec => []NoLaneWraps
<1>1. IInv => NoLaneWraps
  BY DEF IInv
<1> QED BY PooledInvariant, <1>1, PTL

\* A clear check word of pool_chains proves the chains of
\* xmss_wots_pk_from_sig, whatever schedule the prover supplies.
THEOREM PooledChainsSound == Spec => []CheckedChainsAreExact
BY PooledInvariant, ExactFromInv, PTL


-----------------------------------------------------------------------------
(* Sums: the steps of the pool against those that the digest needs         *)

\* How often the first n bytes of a schedule name chain i.
Named(s, n, i) == Cardinality({k \in 1..n : s[k] = i})

\* The steps that each chain needs, has had, and has slots for so far.
Needed == [i \in Chain |-> MaxSteps - coords[i]]
Walked == [i \in Chain |-> Len(nodes[i])]
Built ==
    [i \in Chain |-> IF i < chain THEN MaxSteps - coords[i]
                     ELSE IF i = chain THEN at - coords[i] ELSE 0]

\* With the check word clear, every step was one of some chain.
StepsCounted == /\ check \/ Total(Walked, Chain) = step
                /\ phase = "done" => step = ScheduleLen

\* The circuit has not run yet.
Unwalked == step = 0 /\ ~ check /\ \A i \in Chain : nodes[i] = <<>>

\* kkw_build_schedule has made a slot for every step that it has come to.
BuildInv ==
    /\ phase = "start" =>
          Unwalked /\ schedule = <<>> /\ chain = 0 /\ at = coords[0] /\ ~ honest
    /\ phase = "build" =>
          /\ Unwalked /\ ~ leftover
          /\ chain < NumChains => at >= coords[chain]
          /\ Len(schedule) <= ScheduleLen
          /\ Len(schedule) = Total(Built, Chain)
          /\ \A k \in 1..Len(schedule) : schedule[k] \in Chain
          /\ \A i \in Chain : Named(schedule, Len(schedule), i) = Built[i]
    /\ phase = "rejected" => leftover \/ CoordSum # TargetSum

\* The circuit takes the steps of an honest schedule one by one.
HonestInv ==
    phase \in {"chains", "done"} /\ honest =>
        /\ ~ leftover /\ ~ check
        /\ \A k \in 1..ScheduleLen : schedule[k] \in Chain
        /\ \A i \in Chain : Named(schedule, ScheduleLen, i) = Needed[i]
        /\ \A i \in Chain : Named(schedule, step, i) = Walked[i]

SumInv == StepsCounted /\ BuildInv /\ HonestInv

\* The chains are a finite set, with chain 0 among them.
LEMMA ChainSet == IsFiniteSet(Chain) /\ Cardinality(Chain) = NumChains /\ 0 \in Chain
BY FS_Interval, ParametersAssumption DEF Chain

\* Counting the bytes of a schedule that name a chain.
LEMMA NamedNext ==
  ASSUME NEW s, NEW i, NEW n \in Nat
  PROVE  /\ Named(s, 0, i) = 0 /\ Named(s, n, i) \in Nat
         /\ Named(s, n + 1, i) = Named(s, n, i) + (IF s[n + 1] = i THEN 1 ELSE 0)
<1> DEFINE S(m) == {k \in 1..m : s[k] = i}
<1>1. S(0) = {} /\ IsFiniteSet(S(n))
  <2>1. IsFiniteSet(1..n) /\ S(n) \in SUBSET (1..n)
    BY FS_Interval
  <2>2. QED
    BY <2>1, FS_Subset
<1>2. n + 1 \notin S(n) /\ S(n + 1) = IF s[n + 1] = i THEN S(n) \cup {n + 1} ELSE S(n)
  OBVIOUS
<1> HIDE DEF S
<1>3. Cardinality(S(0)) = 0 /\ Cardinality(S(n)) \in Nat
  BY <1>1, FS_EmptySet, FS_CardinalityType
<1>4. s[n + 1] = i => Cardinality(S(n + 1)) = Cardinality(S(n)) + 1
  BY <1>1, <1>2, FS_AddElement
<1>5. s[n + 1] # i => Cardinality(S(n + 1)) = Cardinality(S(n))
  BY <1>2
<1>6. QED
  BY <1>3, <1>4, <1>5 DEF Named, S

\* Only the first n bytes count.
LEMMA NamedSame ==
  ASSUME NEW s, NEW t, NEW i, NEW n \in Nat, \A k \in 1..n : s[k] = t[k]
  PROVE  Named(s, n, i) = Named(t, n, i)
<1>1. {k \in 1..n : s[k] = i} = {k \in 1..n : t[k] = i}
  OBVIOUS
<1>2. QED
  BY <1>1 DEF Named

\* The types of the counts.
LEMMA CountTypes ==
  ASSUME TypeOK
  PROVE  \A i \in Chain :
            /\ coords[i] \in Nat /\ coords[i] <= MaxSteps
            /\ Needed[i] \in Nat /\ Needed[i] = MaxSteps - coords[i]
            /\ Walked[i] \in Nat /\ Walked[i] = Len(nodes[i])
            /\ Built[i] \in Int
BY ParametersAssumption DEF TypeOK, Coord, Needed, Walked, Built, Chain

\* Entry by entry, and the sum of the digest's coordinates by its terms.
LEMMA BuiltAt ==
  \A i \in Chain :
     /\ Built[i] = IF i < chain THEN MaxSteps - coords[i]
                   ELSE IF i = chain THEN at - coords[i] ELSE 0
     /\ Built'[i] = IF i < chain' THEN MaxSteps - coords'[i]
                    ELSE IF i = chain' THEN at' - coords'[i] ELSE 0
<1> SUFFICES ASSUME NEW i \in Chain
             PROVE  /\ Built[i] = IF i < chain THEN MaxSteps - coords[i]
                                  ELSE IF i = chain THEN at - coords[i] ELSE 0
                    /\ Built'[i] = IF i < chain' THEN MaxSteps - coords'[i]
                                   ELSE IF i = chain' THEN at' - coords'[i] ELSE 0
  OBVIOUS
<1>1. Built[i] = IF i < chain THEN MaxSteps - coords[i]
                 ELSE IF i = chain THEN at - coords[i] ELSE 0
  BY DEF Built
<1>2. Built'[i] = IF i < chain' THEN MaxSteps - coords'[i]
                  ELSE IF i = chain' THEN at' - coords'[i] ELSE 0
  BY DEF Built
<1>3. QED
  BY <1>1, <1>2

\* The sum that xmss_verify compares, as a Total over the chains.
LEMMA CoordTotal == CoordSum = Total(coords, Chain)
BY DEF CoordSum, SumOf, Total

\* It does not change with the coordinates as they are.
LEMMA CoordSumSame == coords' = coords => CoordSum' = CoordSum
BY DEF CoordSum

\* The coordinates have the target sum exactly when the chains need as many
\* steps as there are slots.
LEMMA NeededSum ==
  ASSUME TypeOK
  PROVE  Total(Needed, Chain) \in Int /\ (CoordSum = TargetSum <=> Total(Needed, Chain) = ScheduleLen)
<1> DEFINE all == [i \in Chain |-> MaxSteps]
<1>1. \A i \in Chain : coords[i] \in Int /\ Needed[i] \in Int /\ all[i] = coords[i] + Needed[i]
  BY CountTypes, ParametersAssumption
<1>2. Total(all, Chain) = NumChains * MaxSteps
  <2>1. MaxSteps \in Int /\ \A i \in Chain : all[i] = MaxSteps
    BY ParametersAssumption
  <2> HIDE DEF all
  <2>2. QED
    BY <2>1, ChainSet, TotalConstant
<1> HIDE DEF all
<1>3. Total(all, Chain) = Total(coords, Chain) + Total(Needed, Chain)
  BY <1>1, ChainSet, TotalSum
<1>4. Total(coords, Chain) \in Int /\ Total(Needed, Chain) \in Int
  BY <1>1, ChainSet, TotalStep
<1>5. CoordSum = Total(coords, Chain)
  BY CoordTotal
<1>6. NumChains * MaxSteps \in Int /\ ScheduleLen \in Int
  BY ParametersAssumption
<1>7. QED
  BY <1>2, <1>3, <1>4, <1>5, <1>6 DEF TargetSum

-----------------------------------------------------------------------------

\* The strengthened invariant of the sums, step by step of the specification.
LEMMA SumInit == Init => SumInv
<1> SUFFICES ASSUME Init PROVE SumInv
  OBVIOUS
<1>1. \A i \in Chain : Walked[i] = 0
  BY DEF Init, Walked
<1>2. Total(Walked, Chain) = 0
  <2>1. Total(Walked, Chain) = Cardinality(Chain) * 0
    BY <1>1, ChainSet, TotalConstant
  <2>2. QED
    BY <2>1, ChainSet, ParametersAssumption
<1>3. StepsCounted
  BY <1>2 DEF StepsCounted, Init
<1>4. QED
  BY <1>3 DEF SumInv, BuildInv, HonestInv, Unwalked, Init

\* A step that leaves the circuit alone.
LEMMA CircuitStays ==
  ASSUME StepsCounted, UNCHANGED <<step, nodes, check>>, phase' = "done" => phase = "done"
  PROVE  StepsCounted'
<1>1. Walked' = Walked
  BY DEF Walked
<1>2. QED
  BY <1>1 DEF StepsCounted

\* The builder starts with no slot made.
LEMMA SumBuildStart == ASSUME TypeOK, SumInv, BuildStart PROVE SumInv'
<1>1. /\ Unwalked /\ schedule = <<>> /\ chain = 0 /\ at = coords[0]
      /\ UNCHANGED <<coords, leftover, chain, at, schedule, step, nodes, check>>
      /\ phase' = IF leftover THEN "rejected" ELSE "build"
  BY DEF SumInv, BuildInv, BuildStart, builder, circuit
<1>2. Unwalked'
  BY <1>1 DEF Unwalked
<1>3. \A i \in Chain : Built'[i] = 0
  BY <1>1, CountTypes, ChainSet DEF Built, Chain
<1>4. Total(Built', Chain) = 0
  <2>1. PICK b : b = Built'
    OBVIOUS
  <2>2. Total(b, Chain) = Cardinality(Chain) * 0
    BY <1>3, <2>1, ChainSet, TotalConstant
  <2>3. QED
    BY <2>1, <2>2, ChainSet, ParametersAssumption
<1>5. \A i \in Chain : Named(schedule', 0, i) = 0
  BY NamedNext
<1>6. coords[0] \in Nat /\ ScheduleLen \in Nat
  BY ChainSet, CountTypes, ParametersAssumption
<1>7. BuildInv'
  <2>1. Len(schedule') = 0 /\ 0 < NumChains
    BY <1>1, ParametersAssumption
  <2>2. phase' = "build" => ~ leftover' /\ at' >= coords'[chain']
    BY <1>1, <1>6
  <2>3. phase' \in {"build", "rejected"} /\ (phase' = "rejected" => leftover')
    BY <1>1
  <2>4. QED
    BY <1>2, <1>3, <1>4, <1>5, <1>6, <2>1, <2>2, <2>3 DEF BuildInv
<1>8. StepsCounted'
  BY <1>1, CircuitStays DEF SumInv
<1>9. QED
  BY <1>1, <1>7, <1>8 DEF SumInv, HonestInv

\* The builder fills a slot, or finds none left for a step that is needed.
LEMMA SumBuildSlot == ASSUME TypeOK, SumInv, BuildSlot PROVE SumInv'
<1>1. /\ phase = "build" /\ chain < NumChains /\ at < MaxSteps /\ chain \in Nat /\ at \in Nat
      /\ UNCHANGED <<coords, leftover, chain, step, nodes, check, honest>>
      /\ schedule \in Seq(Byte) /\ chain \in Chain
  BY ParametersAssumption DEF TypeOK, BuildSlot, circuit, Coord, Chain
<1>2. /\ Unwalked /\ ~ leftover /\ at >= coords[chain]
      /\ Len(schedule) <= ScheduleLen /\ Len(schedule) = Total(Built, Chain)
      /\ \A k \in 1..Len(schedule) : schedule[k] \in Chain
      /\ \A i \in Chain : Named(schedule, Len(schedule), i) = Built[i]
  BY <1>1 DEF SumInv, BuildInv
<1>3. Unwalked' /\ StepsCounted'
  <2>1. Unwalked'
    BY <1>1, <1>2 DEF Unwalked
  <2>2. phase' # "done"
    BY <1>1 DEF BuildSlot
  <2>3. QED
    BY <1>1, <2>1, <2>2, CircuitStays DEF SumInv
<1>4. CASE Len(schedule) = ScheduleLen
  <2>1. phase' = "rejected"
    BY <1>1, <1>4 DEF BuildSlot
  <2>2. \A i \in Chain : Built[i] \in Int /\ Needed[i] \in Int /\ Built[i] <= Needed[i]
    BY <1>1, CountTypes, BuiltAt, ParametersAssumption
  <2>3. Built[chain] # Needed[chain]
    BY <1>1, CountTypes, BuiltAt, ParametersAssumption
  <2>4. Total(Built, Chain) # Total(Needed, Chain)
    <3>1. chain \in Chain
      BY <1>1
    <3>2. QED
      BY <2>2, <2>3, <3>1, ChainSet, TotalBelow
  <2>5. CoordSum # TargetSum
    BY <1>2, <1>4, <2>4, NeededSum
  <2>6. (CoordSum # TargetSum)'
    BY <1>1, <2>5, CoordSumSame
  <2>7. QED
    BY <1>3, <2>1, <2>6 DEF SumInv, BuildInv, HonestInv
<1>5. CASE Len(schedule) # ScheduleLen
  <2>1. schedule' = Append(schedule, chain) /\ at' = at + 1 /\ phase' = "build"
    BY <1>1, <1>5 DEF BuildSlot
  <2>2. PICK n \in Nat : n = Len(schedule)
    BY <1>1
  <2>3. /\ Len(schedule') = n + 1 /\ schedule'[n + 1] = chain
        /\ \A k \in 1..n : schedule'[k] = schedule[k]
    <3>1. chain \in Byte
      BY <1>1, ParametersAssumption DEF Byte, Chain
    <3>2. QED
      BY <1>1, <2>1, <2>2, <3>1, AppendProperties
  <2>4. Built'[chain] = Built[chain] + 1 /\ \A i \in Chain \ {chain} : Built'[i] = Built[i]
    <3>1. chain \in Chain /\ coords' = coords /\ chain' = chain /\ at' = at + 1 /\ at \in Nat
      BY <1>1, <2>1
    <3>2. coords[chain] \in Nat /\ chain \in Nat
      BY <1>1, CountTypes
    <3>3. Built[chain] = at - coords[chain] /\ Built'[chain] = at' - coords'[chain]
      BY <3>1, <3>2, BuiltAt
    <3>4. \A i \in Chain \ {chain} : Built'[i] = Built[i]
      BY <3>1, BuiltAt
    <3>5. QED
      BY <3>1, <3>2, <3>3, <3>4
  <2>5. Total(Built', Chain) = Total(Built, Chain) + 1
    BY <1>1, <2>4, ChainSet, CountTypes, TotalIncrement
  <2>6. ASSUME NEW i \in Chain PROVE Named(schedule', n + 1, i) = Built'[i]
    <3>1. Named(schedule', n, i) = Named(schedule, n, i)
      BY <2>3, NamedSame
    <3>2. Named(schedule', n + 1, i) = Named(schedule', n, i) + (IF schedule'[n + 1] = i THEN 1 ELSE 0)
      BY NamedNext
    <3>3. Named(schedule, n, i) = Built[i] /\ Built[i] \in Int
      BY <1>2, <2>2, CountTypes
    <3>4. QED
      BY <2>3, <2>4, <3>1, <3>2, <3>3
  <2>7. n + 1 <= ScheduleLen
    BY <1>2, <1>5, <2>2, ParametersAssumption
  <2>8. \A k \in 1..(n + 1) : schedule'[k] \in Chain
    <3>1. \A k \in 1..(n + 1) : k \in 1..n \/ k = n + 1
      OBVIOUS
    <3>2. QED
      BY <1>1, <1>2, <2>2, <2>3, <3>1
  <2>9. at' >= coords'[chain']
    BY <1>1, <1>2, <2>1, CountTypes
  <2>10. BuildInv'
    BY <1>1, <1>2, <1>3, <2>1, <2>2, <2>3, <2>5, <2>6, <2>7, <2>8, <2>9 DEF BuildInv
  <2>11. QED
    BY <1>3, <2>1, <2>10 DEF SumInv, HonestInv
<1>6. QED
  BY <1>4, <1>5

\* The builder is done with a chain.
LEMMA SumBuildNext == ASSUME TypeOK, SumInv, BuildNext PROVE SumInv'
<1>1. /\ phase = "build" /\ chain < NumChains /\ at = MaxSteps /\ chain \in Nat
      /\ chain' = chain + 1 /\ at' = IF chain + 1 < NumChains THEN coords[chain + 1] ELSE at
      /\ UNCHANGED <<coords, leftover, phase, schedule, step, nodes, check, honest>>
      /\ chain \in Chain
  BY ParametersAssumption DEF TypeOK, BuildNext, circuit, Chain
<1>2. StepsCounted' /\ Unwalked'
  <2>1. Unwalked'
    BY <1>1 DEF SumInv, BuildInv, Unwalked
  <2>2. QED
    BY <1>1, <2>1, CircuitStays DEF SumInv
<1>3. \A i \in Chain : Built'[i] = Built[i]
  <2>1. ASSUME NEW i \in Chain PROVE Built'[i] = Built[i]
    <3>1. i \in Nat /\ i < NumChains /\ coords[i] \in Nat
      BY CountTypes, ParametersAssumption DEF Chain
    <3>2. Built[i] = IF i <= chain THEN MaxSteps - coords[i] ELSE 0
      BY <1>1, <3>1 DEF Built
    <3>3. Built'[i] = IF i < chain + 1 THEN MaxSteps - coords[i]
                      ELSE IF i = chain + 1 THEN at' - coords[i] ELSE 0
      BY <1>1 DEF Built
    <3>4. i = chain + 1 => at' - coords[i] = 0
      BY <1>1, <3>1
    <3>5. QED
      BY <1>1, <3>1, <3>2, <3>3, <3>4
  <2>2. QED
    BY <2>1
<1>4. Total(Built', Chain) = Total(Built, Chain)
  BY <1>3, ChainSet, CountTypes, TotalEqual
<1>5. chain' < NumChains => at' >= coords'[chain']
  <2>1. chain + 1 < NumChains => chain + 1 \in Chain
    BY <1>1, ParametersAssumption DEF Chain
  <2>2. QED
    BY <1>1, <2>1, CountTypes
<1>6. /\ ~ leftover /\ Len(schedule) <= ScheduleLen /\ Len(schedule) = Total(Built, Chain)
      /\ \A k \in 1..Len(schedule) : schedule[k] \in Chain
      /\ \A i \in Chain : Named(schedule, Len(schedule), i) = Built[i]
  BY <1>1 DEF SumInv, BuildInv
<1>7. QED
  BY <1>1, <1>2, <1>3, <1>4, <1>5, <1>6 DEF SumInv, BuildInv, HonestInv

\* The schedule is full, or there are slots left over.
LEMMA SumBuildReturn == ASSUME TypeOK, SumInv, BuildReturn PROVE SumInv'
<1>1. /\ phase = "build" /\ chain = NumChains
      /\ phase' = IF Len(schedule) = ScheduleLen THEN "chains" ELSE "rejected"
      /\ UNCHANGED <<coords, leftover, chain, at, schedule, step, nodes, check, honest>>
  BY DEF BuildReturn, builder, circuit
<1>2. /\ Unwalked /\ ~ leftover /\ Len(schedule) = Total(Built, Chain)
      /\ \A k \in 1..Len(schedule) : schedule[k] \in Chain
      /\ \A i \in Chain : Named(schedule, Len(schedule), i) = Built[i]
  BY <1>1 DEF SumInv, BuildInv
<1>3. \A i \in Chain : Built[i] = Needed[i]
  BY <1>1, ParametersAssumption DEF Built, Needed, Chain
<1>4. Total(Built, Chain) = Total(Needed, Chain)
  BY <1>3, ChainSet, CountTypes, TotalEqual
<1>5. StepsCounted'
  BY <1>1, CircuitStays DEF SumInv
<1>6. CASE Len(schedule) = ScheduleLen
  <2>1. phase' = "chains"
    BY <1>1, <1>6
  <2>2. \A i \in Chain : Named(schedule, 0, i) = 0 /\ Walked[i] = 0
    BY <1>2, NamedNext DEF Walked, Unwalked
  <2>3. UNCHANGED <<Needed, Walked>>
    BY <1>1 DEF Needed, Walked
  <2>4. HonestInv'
    BY <1>1, <1>2, <1>3, <1>6, <2>2, <2>3 DEF HonestInv, Unwalked
  <2>5. QED
    BY <1>5, <2>1, <2>4 DEF SumInv, BuildInv
<1>7. CASE Len(schedule) # ScheduleLen
  <2>1. phase' = "rejected" /\ CoordSum # TargetSum
    BY <1>1, <1>2, <1>4, <1>7, NeededSum
  <2>2. (CoordSum # TargetSum)'
    BY <1>1, <2>1, CoordSumSame
  <2>3. QED
    BY <1>5, <2>1, <2>2 DEF SumInv, BuildInv, HonestInv
<1>8. QED
  BY <1>6, <1>7

\* A dishonest prover's schedule.
LEMMA SumSupply ==
  ASSUME TypeOK, SumInv, NEW bytes \in [1..ScheduleLen -> Byte], Supply(bytes)
  PROVE  SumInv'
<1>1. /\ phase = "start" /\ phase' = "chains" /\ ~ honest
      /\ UNCHANGED <<step, nodes, check, honest>>
  BY DEF SumInv, BuildInv, Supply, circuit
<1>2. QED
  BY <1>1, CircuitStays DEF SumInv, BuildInv, HonestInv

\* A step of a chain is one step more.
LEMMA SumStepChain == ASSUME TypeOK, SumInv, NEW i \in Chain, StepChain(i) PROVE SumInv'
<1>1. /\ phase = "chains" /\ step \in Nat /\ step < ScheduleLen /\ schedule[step + 1] = i
      /\ step' = step + 1
      /\ UNCHANGED <<coords, leftover, phase, schedule, check, honest>>
  BY DEF TypeOK, StepChain, builder
<1>2. PICK e : nodes' = [nodes EXCEPT ![i] = Append(@, e)]
  BY DEF StepChain
<1>3. Walked'[i] = Walked[i] + 1 /\ \A j \in Chain \ {i} : Walked'[j] = Walked[j]
  BY <1>2 DEF TypeOK, Walked
<1>4. Total(Walked', Chain) = Total(Walked, Chain) + 1
  BY <1>3, ChainSet, CountTypes, TotalIncrement
<1>5. StepsCounted'
  BY <1>1, <1>4 DEF SumInv, StepsCounted
<1>6. HonestInv'
  <2> SUFFICES ASSUME honest PROVE HonestInv'
    BY <1>1 DEF HonestInv
  <2>1. /\ ~ leftover /\ ~ check
        /\ \A k \in 1..ScheduleLen : schedule[k] \in Chain
        /\ \A j \in Chain : Named(schedule, ScheduleLen, j) = Needed[j]
        /\ \A j \in Chain : Named(schedule, step, j) = Walked[j]
    BY <1>1 DEF SumInv, HonestInv
  <2>2. ASSUME NEW j \in Chain PROVE Named(schedule, step + 1, j) = Walked'[j]
    <3>1. Named(schedule, step + 1, j)
            = Named(schedule, step, j) + (IF schedule[step + 1] = j THEN 1 ELSE 0)
      BY <1>1, NamedNext
    <3>2. Named(schedule, step, j) = Walked[j] /\ Walked[j] \in Nat
      BY <2>1, CountTypes
    <3>3. QED
      BY <1>1, <1>3, <3>1, <3>2
  <2>3. Needed' = Needed
    BY <1>1 DEF Needed
  <2>4. QED
    BY <1>1, <2>1, <2>2, <2>3 DEF HonestInv
<1>7. QED
  BY <1>1, <1>5, <1>6 DEF SumInv, BuildInv

\* No byte of an honest schedule is out of range.
LEMMA SumStepInvalid == ASSUME TypeOK, SumInv, StepInvalid PROVE SumInv'
<1>1. /\ phase = "chains" /\ check' = TRUE /\ UNCHANGED phase /\ ~ honest'
  <2>1. phase = "chains" /\ check' = TRUE /\ UNCHANGED <<phase, honest>>
    BY DEF StepInvalid
  <2>2. step + 1 \in 1..ScheduleLen /\ schedule[step + 1] \notin Chain
    BY ParametersAssumption DEF StepInvalid, TypeOK
  <2>3. QED
    BY <2>1, <2>2 DEF SumInv, HonestInv
<1>2. QED
  BY <1>1 DEF SumInv, StepsCounted, BuildInv, HonestInv

\* The final comparison: on an honest schedule it finds no difference.
LEMMA SumFinish == ASSUME IInv, SumInv, Finish PROVE SumInv'
<1>1. /\ phase = "chains" /\ step = ScheduleLen /\ phase' = "done"
      /\ UNCHANGED <<coords, leftover, schedule, step, lanes, nodes, honest>>
      /\ check' = (check \/ \E l \in Lane : lanes[l] # IF l \in Chain THEN MaxSteps ELSE 0)
      /\ TypeOK
  BY DEF Finish, builder, IInv
<1>2. UNCHANGED <<Walked, Needed>>
  BY <1>1 DEF Walked, Needed
<1>3. StepsCounted'
  <2>1. check => check'
    BY <1>1
  <2>2. QED
    BY <1>1, <1>2, <2>1 DEF SumInv, StepsCounted
<1>4. HonestInv'
  <2> SUFFICES ASSUME honest PROVE HonestInv'
    BY <1>1 DEF HonestInv
  <2>1. /\ ~ leftover /\ ~ check
        /\ \A k \in 1..ScheduleLen : schedule[k] \in Chain
        /\ \A j \in Chain : Named(schedule, ScheduleLen, j) = Needed[j]
        /\ \A j \in Chain : Named(schedule, step, j) = Walked[j]
    BY <1>1 DEF SumInv, HonestInv
  <2>2. \A l \in Chain : coords[l] + Len(nodes[l]) = MaxSteps
    BY <1>1, <2>1, CountTypes, ParametersAssumption
  <2>3. \A l \in Lane : lanes[l] = IF l \in Chain THEN MaxSteps ELSE 0
    BY <2>2 DEF IInv, NoLaneWraps
  <2>4. ~ check'
    BY <1>1, <2>1, <2>3
  <2>5. QED
    BY <1>1, <1>2, <2>1, <2>4 DEF HonestInv
<1>5. QED
  BY <1>1, <1>3, <1>4 DEF SumInv, BuildInv

\* Every step keeps it, given the invariant of the lanes.
LEMMA SumNext == IInv /\ SumInv /\ [Next]_vars => SumInv'
<1> SUFFICES ASSUME IInv, SumInv, [Next]_vars PROVE SumInv'
  OBVIOUS
<1>0. TypeOK
  BY DEF IInv
<1>1. CASE UNCHANGED vars
  <2>1. UNCHANGED <<coords, leftover, phase, chain, at, schedule, step, nodes, check, honest>>
    BY <1>1 DEF vars, builder, circuit
  <2>2. UNCHANGED <<Walked, Needed, Built>>
    BY <2>1 DEF Walked, Needed, Built
  <2>3. (CoordSum # TargetSum)' <=> CoordSum # TargetSum
    BY <2>1, CoordSumSame
  <2>4. BuildInv'
    BY <2>1, <2>2, <2>3 DEF SumInv, BuildInv, Unwalked
  <2>5. QED
    BY <2>1, <2>2, <2>4 DEF SumInv, StepsCounted, HonestInv
<1>2. QED
  BY <1>0, <1>1, SumBuildStart, SumBuildSlot, SumBuildNext, SumBuildReturn, SumSupply,
     SumStepChain, SumStepInvalid, SumFinish
  DEF Next, Build

\* Both invariants hold throughout.
LEMMA SumInvariant == Spec => [](IInv /\ SumInv)
BY InvInit, InvNext, SumInit, SumNext, PTL DEF Spec

(***************************************************************************)
(* The pool has exactly as many slots as a digest of the target sum leaves *)
(* steps: when pool_chains ends with the check word clear, all of them     *)
(* were steps of some chain and every chain is at its end, so that the     *)
(* coordinates have the target sum, whatever the schedule.                 *)
(***************************************************************************)
THEOREM ClearCheckMeansTargetSum == Spec => []CheckImpliesTargetSum
<1>1. ASSUME IInv, SumInv PROVE CheckImpliesTargetSum
  <2> SUFFICES ASSUME phase = "done", ~ check PROVE CoordSum = TargetSum
    BY DEF CheckImpliesTargetSum
  <2>1. TypeOK /\ Total(Walked, Chain) = ScheduleLen
    BY <1>1 DEF IInv, SumInv, StepsCounted
  <2>2. \A i \in Chain : Walked[i] \in Int /\ Needed[i] = Walked[i]
    BY <1>1, <2>1, CountTypes, ChainHasLane DEF IInv, NoLaneWraps, FinalInv
  <2>3. Total(Walked, Chain) = Total(Needed, Chain)
    BY <2>2, ChainSet, TotalEqual
  <2>4. QED
    BY <2>1, <2>3, NeededSum
<1>2. QED
  BY <1>1, SumInvariant, PTL

(***************************************************************************)
(* kkw_build_schedule refuses exactly the digests that xmss_verify refuses *)
(* (a set leftover bit, another sum than the target), and pool_chains      *)
(* accepts every schedule that it returns.                                 *)
(***************************************************************************)
THEOREM HonestSchedulePasses == Spec => []HonestScheduleAccepted
<1>1. ASSUME SumInv, CheckImpliesTargetSum PROVE HonestScheduleAccepted
  BY <1>1 DEF SumInv, BuildInv, HonestInv, HonestScheduleAccepted, CheckImpliesTargetSum
<1>2. QED
  BY <1>1, SumInvariant, ClearCheckMeansTargetSum, PTL

-----------------------------------------------------------------------------
(* Part 2: the tree                                                        *)

-----------------------------------------------------------------------------
(* Powers of two                                                           *)

\* The recursion of Pow2 has a solution.
LEMMA Pow2Exists ==
    ASSUME H \in Nat
    PROVE  \E g : g = [n \in 0..H |-> IF n = 0 THEN 1 ELSE 2 * g[n - 1]]
<1> DEFINE Approx(n, g) == g = [k \in 0..n |-> IF k = 0 THEN 1 ELSE 2 * g[k - 1]]
           T == {n \in Nat : \E g : Approx(n, g)}
<1>1. 0 \in T
  <2>1. Approx(0, [k \in 0..0 |-> 1])
    OBVIOUS
  <2> QED BY <2>1
<1>2. ASSUME NEW n \in T PROVE n + 1 \in T
  <2>1. PICK g : Approx(n, g)
    OBVIOUS
  <2> DEFINE h == [k \in 0..(n + 1) |-> IF k = 0 THEN 1 ELSE 2 * g[k - 1]]
  <2>2. n \in Nat
    OBVIOUS
  <2>3. \A k \in 0..n : h[k] = g[k]
    BY <2>1, <2>2
  <2>4. \A k \in 0..(n + 1) : h[k] = IF k = 0 THEN 1 ELSE 2 * h[k - 1]
    <3>1. \A k \in 0..(n + 1) : h[k] = IF k = 0 THEN 1 ELSE 2 * g[k - 1]
      OBVIOUS
    <3> HIDE DEF h
    <3>2. ASSUME NEW k \in 0..(n + 1), k # 0 PROVE h[k - 1] = g[k - 1]
      BY <2>2, <2>3, <3>2
    <3> QED BY <3>1, <3>2
  <2>5. h = [k \in 0..(n + 1) |-> h[k]]
    OBVIOUS
  <2> HIDE DEF h
  <2>6. Approx(n + 1, h)
    <3>1. [k \in 0..(n + 1) |-> h[k]]
          = [k \in 0..(n + 1) |-> IF k = 0 THEN 1 ELSE 2 * h[k - 1]]
      BY <2>4, Zenon
    <3> QED BY <2>5, <3>1, Zenon
  <2> HIDE DEF Approx
  <2> QED BY <2>2, <2>6
<1>3. H \in T
  <2> HIDE DEF T
  <2>1. T \in SUBSET Nat
    BY DEF T
  <2> QED BY <1>1, <1>2, <2>1, NatSetInduction
<1> QED BY <1>3

\* 1, and twice as much at each step.
LEMMA Pow2Def ==
    ASSUME H \in Nat
    PROVE  /\ Pow2[0] = 1
           /\ \A n \in 1..H : Pow2[n] = 2 * Pow2[n - 1]
<1>1. Pow2 = [n \in 0..H |-> IF n = 0 THEN 1 ELSE 2 * Pow2[n - 1]]
  BY Pow2Exists, Zenon DEF Pow2
<1>2. ASSUME NEW n \in 0..H PROVE Pow2[n] = IF n = 0 THEN 1 ELSE 2 * Pow2[n - 1]
  BY <1>1, Zenon
<1>3. Pow2[0] = 1
  BY <1>2
<1>4. ASSUME NEW n \in 1..H PROVE Pow2[n] = 2 * Pow2[n - 1]
  BY <1>2
<1> QED BY <1>3, <1>4

\* Powers of two are positive.
LEMMA Pow2Type ==
    ASSUME H \in Nat
    PROVE  \A n \in 0..H : Pow2[n] \in Nat \ {0}
<1> DEFINE T == {n \in Nat : n <= H => Pow2[n] \in Nat \ {0}}
<1>1. 0 \in T
  BY Pow2Def
<1>2. ASSUME NEW n \in T PROVE n + 1 \in T
  <2>1. n \in Nat /\ (n <= H => Pow2[n] \in Nat \ {0})
    OBVIOUS
  <2>2. n + 1 <= H => Pow2[n + 1] = 2 * Pow2[n]
    BY <2>1, Pow2Def
  <2> QED BY <2>1, <2>2
<1>3. T = Nat
  <2> HIDE DEF T
  <2>1. T \in SUBSET Nat
    BY DEF T
  <2> QED BY <1>1, <1>2, <2>1, NatSetInduction
<1> QED BY <1>3

\* 2^(a+b) = 2^a * 2^b.
LEMMA Pow2Sum ==
    ASSUME H \in Nat, NEW a \in Nat, NEW b \in Nat, a + b <= H
    PROVE  Pow2[a + b] = Pow2[a] * Pow2[b]
<1> DEFINE T == {n \in Nat : a + n <= H => Pow2[a + n] = Pow2[a] * Pow2[n]}
<1>1. 0 \in T
  BY Pow2Def, Pow2Type
<1>2. ASSUME NEW n \in T PROVE n + 1 \in T
  <2>1. n \in Nat /\ (a + n <= H => Pow2[a + n] = Pow2[a] * Pow2[n])
    OBVIOUS
  <2>2. ASSUME a + (n + 1) <= H
        PROVE  Pow2[a + (n + 1)] = Pow2[a] * Pow2[n + 1]
    <3>1. Pow2[n + 1] = 2 * Pow2[n] /\ Pow2[a + (n + 1)] = 2 * Pow2[a + n]
      BY <2>1, <2>2, Pow2Def
    <3>2. Pow2[a] \in Nat /\ Pow2[n] \in Nat
      BY <2>1, <2>2, Pow2Type
    <3> QED BY <2>1, <2>2, <3>1, <3>2
  <2> QED BY <2>1, <2>2
<1>3. T = Nat
  <2> HIDE DEF T
  <2>1. T \in SUBSET Nat
    BY DEF T
  <2> QED BY <1>1, <1>2, <2>1, NatSetInduction
<1> QED BY <1>3

-----------------------------------------------------------------------------
(* Indices of nodes                                                        *)

\* Halving the index of an ancestor gives that of the next.
LEMMA DivHalf ==
    ASSUME NEW x \in Nat, NEW p \in Nat \ {0}
    PROVE  x \div (2 * p) = (x \div p) \div 2 /\ x \div p \in Nat
OBVIOUS

\* The ancestor of an ancestor.
LEMMA DivDiv ==
    ASSUME NEW x \in Nat, NEW p \in Nat \ {0}, NEW q \in Nat \ {0}
    PROVE  x \div (p * q) = (x \div p) \div q
<1> DEFINE y == x \div p
           z == y \div q
<1>1. y \in Nat /\ p * y <= x /\ x < p * y + p
  OBVIOUS
<1>2. z \in Nat /\ q * z <= y /\ y < q * z + q
  BY <1>1
<1> HIDE DEF y, z
<1>3. p * (q * z) <= p * y /\ p * (y + 1) <= p * (q * z + q)
  BY <1>1, <1>2
<1>4. (p * q) * z <= x /\ x < (p * q) * z + p * q
  BY <1>1, <1>2, <1>3
<1>5. p * q \in Nat \ {0}
  OBVIOUS
<1> DEFINE d == p * q
<1>6. d * z <= x /\ x < d * z + d /\ d \in Nat \ {0}
  BY <1>4, <1>5
<1> HIDE DEF d
<1>7. z = x \div d
  BY <1>2, <1>6
<1> QED BY <1>7 DEF d, y, z

\* Index j of block s lies within t blocks of p.
LEMMA InBlock ==
    ASSUME NEW p \in Nat \ {0}, NEW t \in Nat, NEW s \in 0..(t - 1), NEW j \in 0..(p - 1)
    PROVE  s * p + j \in 0..(t * p - 1)
<1>1. (s + 1) * p <= t * p
  OBVIOUS
<1>2. s * p \in Nat /\ t * p \in Nat /\ (s + 1) * p = s * p + p
  OBVIOUS
<1> QED BY <1>1, <1>2

\* The block of an index within t blocks of p.
LEMMA BlockOf ==
    ASSUME NEW p \in Nat \ {0}, NEW t \in Nat, NEW x \in 0..(t * p - 1)
    PROVE  x \div p \in 0..(t - 1)
<1> DEFINE y == x \div p
<1>1. y \in Nat /\ p * y <= x
  OBVIOUS
<1> HIDE DEF y
<1>2. x < p * t
  OBVIOUS
<1>3. y >= t => p * y >= p * t
  BY <1>1
<1>4. y < t
  BY <1>1, <1>2, <1>3
<1>5. y \in 0..(t - 1)
  BY <1>1, <1>4
<1> QED BY <1>5 DEF y

\* A sibling has the same parent.
LEMMA SiblingFacts ==
    ASSUME NEW x \in Nat
    PROVE  /\ Sibling(x) \in Nat
           /\ Sibling(x) \div 2 = x \div 2
           /\ x % 2 = 0 => x = 2 * (x \div 2) /\ Sibling(x) = 2 * (x \div 2) + 1
           /\ x % 2 # 0 => x = 2 * (x \div 2) + 1 /\ Sibling(x) = 2 * (x \div 2)
BY DEF Sibling

-----------------------------------------------------------------------------
(* The recursive functions                                                 *)

\* The recursion of the reference tree has a solution.
LEMMA MerkleExists ==
    ASSUME H \in Nat
    PROVE  \E g : g = [k \in 0..H |-> [i \in Slots(H - k) |->
                                   IF k = 0 THEN LeafHash(i)
                                   ELSE TreeHash(g[k - 1][2 * i], g[k - 1][2 * i + 1], k - 1, i)]]
<1> DEFINE Val(g, k) == [i \in Slots(H - k) |->
                            IF k = 0 THEN LeafHash(i)
                            ELSE TreeHash(g[k - 1][2 * i], g[k - 1][2 * i + 1], k - 1, i)]
           Approx(n, g) == g = [k \in 0..n |-> Val(g, k)]
           T == {n \in Nat : \E g : Approx(n, g)}
<1>1. ASSUME NEW g, NEW h, NEW k \in Nat, k # 0 => g[k - 1] = h[k - 1]
      PROVE  Val(g, k) = Val(h, k)
  <2>1. CASE k = 0
    BY <2>1
  <2>2. CASE k # 0
    BY <1>1, <2>2
  <2> QED BY <2>1, <2>2
<1>2. 0 \in T
  <2> DEFINE h == [k \in 0..0 |-> Val(<<>>, k)]
  <2>1. \A k \in 0..0 : Val(<<>>, k) = Val(h, k)
    <3> HIDE DEF Val, h
    <3> QED BY <1>1
  <2>2. Approx(0, h)
    <3> HIDE DEF Val
    <3> QED BY <2>1, Zenon
  <2> HIDE DEF h, Approx
  <2> QED BY <2>2
<1> HIDE DEF Val
<1>3. ASSUME NEW n \in T PROVE n + 1 \in T
  <2>1. PICK g : Approx(n, g)
    OBVIOUS
  <2> DEFINE h == [k \in 0..(n + 1) |-> Val(g, k)]
  <2>2. n \in Nat
    OBVIOUS
  <2>3. \A k \in 0..n : h[k] = g[k]
    BY <2>1, <2>2
  <2> HIDE DEF h
  <2>4. ASSUME NEW k \in 0..(n + 1) PROVE Val(g, k) = Val(h, k)
    <3>1. k # 0 => k - 1 \in 0..n
      BY <2>2
    <3>2. k # 0 => g[k - 1] = h[k - 1]
      BY <2>3, <3>1
    <3> QED BY <1>1, <2>2, <3>2
  <2>5. Approx(n + 1, h)
    BY <2>4, Zenon DEF h
  <2> HIDE DEF Approx
  <2> QED BY <2>2, <2>5
<1>4. H \in T
  <2> HIDE DEF T
  <2>1. T \in SUBSET Nat
    BY DEF T
  <2> QED BY <1>2, <1>3, <2>1, NatSetInduction
<1> QED BY <1>4, Zenon DEF Val

\* The leaves, and the hashes of two children.
LEMMA MerkleDef ==
    ASSUME H \in Nat
    PROVE  /\ \A i \in Slots(H) : Merkle[0][i] = LeafHash(i)
           /\ \A h \in 1..H : \A i \in Slots(H - h) :
                 Merkle[h][i] = TreeHash(Merkle[h - 1][2 * i], Merkle[h - 1][2 * i + 1], h - 1, i)
<1>1. Merkle = [k \in 0..H |->
                   [i \in Slots(H - k) |->
                       IF k = 0 THEN LeafHash(i)
                       ELSE TreeHash(Merkle[k - 1][2 * i], Merkle[k - 1][2 * i + 1], k - 1, i)]]
  BY MerkleExists, Zenon DEF Merkle
<1>2. ASSUME NEW h \in 0..H, NEW i \in Slots(H - h)
      PROVE  Merkle[h][i] =
                 IF h = 0 THEN LeafHash(i)
                 ELSE TreeHash(Merkle[h - 1][2 * i], Merkle[h - 1][2 * i + 1], h - 1, i)
  <2>1. Merkle[h] = [x \in Slots(H - h) |->
                        IF h = 0 THEN LeafHash(x)
                        ELSE TreeHash(Merkle[h - 1][2 * x], Merkle[h - 1][2 * x + 1], h - 1, x)]
    BY <1>1, Zenon
  <2> QED BY <2>1, Zenon
<1>3. H - 0 = H /\ 0 \in 0..H
  OBVIOUS
<1>4. \A i \in Slots(H) : Merkle[0][i] = LeafHash(i)
  BY <1>2, <1>3
<1>5. \A h \in 1..H : h \in 0..H /\ h # 0
  OBVIOUS
<1>6. \A h \in 1..H : \A i \in Slots(H - h) :
          Merkle[h][i] = TreeHash(Merkle[h - 1][2 * i], Merkle[h - 1][2 * i + 1], h - 1, i)
  BY <1>2, <1>5
<1> QED BY <1>4, <1>6

\* xmss_walk_auth_path, level by level.
LEMMA WalkDef ==
    ASSUME H \in Nat, NEW leafNode, NEW leaf, NEW path
    PROVE  \E w :
              /\ WalkAuthPath(leafNode, leaf, path) = w[H]
              /\ w[0] = leafNode
              /\ \A h \in 1..H :
                    w[h] = Parent(leaf \div Pow2[h - 1], w[h - 1], path[h - 1], h - 1)
<1> DEFINE Val(g, k) ==
             IF k = 0 THEN leafNode
             ELSE Parent(leaf \div Pow2[k - 1], g[k - 1], path[k - 1], k - 1)
           w == CHOOSE g : g = [k \in 0..H |-> Val(g, k)]
<1>1. \E g : g = [k \in 0..H |-> Val(g, k)]
  <2> DEFINE Approx(n, g) == g = [k \in 0..n |-> Val(g, k)]
             T == {n \in Nat : \E g : Approx(n, g)}
  <2>1. ASSUME NEW g, NEW h, NEW k \in Nat, k # 0 => g[k - 1] = h[k - 1]
        PROVE  Val(g, k) = Val(h, k)
    <3>1. CASE k = 0
      BY <3>1
    <3>2. CASE k # 0
      BY <2>1, <3>2
    <3> QED BY <3>1, <3>2
  <2>2. 0 \in T
    <3> DEFINE h == [k \in 0..0 |-> Val(<<>>, k)]
    <3>1. \A k \in 0..0 : Val(<<>>, k) = Val(h, k)
      <4> HIDE DEF Val, h
      <4> QED BY <2>1
    <3>2. Approx(0, h)
      <4> HIDE DEF Val
      <4> QED BY <3>1, Zenon
    <3> HIDE DEF h, Approx
    <3> QED BY <3>2
  <2> HIDE DEF Val
  <2>3. ASSUME NEW n \in T PROVE n + 1 \in T
    <3>1. PICK g : Approx(n, g)
      OBVIOUS
    <3> DEFINE h == [k \in 0..(n + 1) |-> Val(g, k)]
    <3>2. n \in Nat
      OBVIOUS
    <3>3. \A k \in 0..n : h[k] = g[k]
      BY <3>1, <3>2
    <3> HIDE DEF h
    <3>4. ASSUME NEW k \in 0..(n + 1) PROVE Val(g, k) = Val(h, k)
      <4>1. k # 0 => k - 1 \in 0..n
        BY <3>2
      <4>2. k # 0 => g[k - 1] = h[k - 1]
        BY <3>3, <4>1
      <4> QED BY <2>1, <3>2, <4>2
    <3>5. Approx(n + 1, h)
      BY <3>4, Zenon DEF h
    <3> HIDE DEF Approx
    <3> QED BY <3>2, <3>5
  <2>4. H \in T
    <3> HIDE DEF T
    <3>1. T \in SUBSET Nat
      BY DEF T
    <3> QED BY <2>2, <2>3, <3>1, NatSetInduction
  <2> QED BY <2>4, Zenon DEF Val
<1>2. WalkAuthPath(leafNode, leaf, path) = w[H]
  BY Zenon DEF WalkAuthPath
<1>3. w = [k \in 0..H |-> Val(w, k)]
  <2> HIDE DEF Val
  <2> QED BY <1>1, Zenon
<1> HIDE DEF w
<1>4. \A k \in 0..H : w[k] = Val(w, k)
  <2> HIDE DEF Val
  <2> QED BY <1>3, Zenon
<1>5. w[0] = leafNode
  BY <1>4
<1>6. \A h \in 1..H : h \in 0..H /\ h # 0
  OBVIOUS
<1>7. \A h \in 1..H :
         w[h] = Parent(leaf \div Pow2[h - 1], w[h - 1], path[h - 1], h - 1)
  BY <1>4, <1>6, Zenon
<1> QED BY <1>2, <1>5, <1>7, Zenon

\* xmss_climb_upper, level by level.
LEMMA ClimbDef ==
    ASSUME NEW real, H - height \in Nat
    PROVE  \E c :
              /\ ClimbUpper(real) = c[H - height]
              /\ c[0] = real
              /\ \A i \in 1..(H - height) :
                    c[i] = TreeHash(c[i - 1], Upper(i - 1), height + i - 1, 0)
<1> DEFINE Val(g, k) ==
             IF k = 0 THEN real
             ELSE TreeHash(g[k - 1], Upper(k - 1), height + k - 1, 0)
           c == CHOOSE g : g = [k \in 0..(H - height) |-> Val(g, k)]
<1>1. \E g : g = [k \in 0..(H - height) |-> Val(g, k)]
  <2> DEFINE Approx(n, g) == g = [k \in 0..n |-> Val(g, k)]
             T == {n \in Nat : \E g : Approx(n, g)}
  <2>1. ASSUME NEW g, NEW h, NEW k \in Nat, k # 0 => g[k - 1] = h[k - 1]
        PROVE  Val(g, k) = Val(h, k)
    <3>1. CASE k = 0
      BY <3>1
    <3>2. CASE k # 0
      BY <2>1, <3>2
    <3> QED BY <3>1, <3>2
  <2>2. 0 \in T
    <3> DEFINE h == [k \in 0..0 |-> Val(<<>>, k)]
    <3>1. \A k \in 0..0 : Val(<<>>, k) = Val(h, k)
      <4> HIDE DEF Val, h
      <4> QED BY <2>1
    <3>2. Approx(0, h)
      <4> HIDE DEF Val
      <4> QED BY <3>1, Zenon
    <3> HIDE DEF h, Approx
    <3> QED BY <3>2
  <2> HIDE DEF Val
  <2>3. ASSUME NEW n \in T PROVE n + 1 \in T
    <3>1. PICK g : Approx(n, g)
      OBVIOUS
    <3> DEFINE h == [k \in 0..(n + 1) |-> Val(g, k)]
    <3>2. n \in Nat
      OBVIOUS
    <3>3. \A k \in 0..n : h[k] = g[k]
      BY <3>1, <3>2
    <3> HIDE DEF h
    <3>4. ASSUME NEW k \in 0..(n + 1) PROVE Val(g, k) = Val(h, k)
      <4>1. k # 0 => k - 1 \in 0..n
        BY <3>2
      <4>2. k # 0 => g[k - 1] = h[k - 1]
        BY <3>3, <4>1
      <4> QED BY <2>1, <3>2, <4>2
    <3>5. Approx(n + 1, h)
      BY <3>4, Zenon DEF h
    <3> HIDE DEF Approx
    <3> QED BY <3>2, <3>5
  <2>4. H - height \in T
    <3> HIDE DEF T
    <3>1. T \in SUBSET Nat
      BY DEF T
    <3> QED BY <2>2, <2>3, <3>1, NatSetInduction
  <2> QED BY <2>4, Zenon DEF Val
<1>2. ClimbUpper(real) = c[H - height]
  BY Zenon DEF ClimbUpper
<1>3. c = [k \in 0..(H - height) |-> Val(c, k)]
  <2> HIDE DEF Val
  <2> QED BY <1>1, Zenon
<1> HIDE DEF c
<1>4. \A k \in 0..(H - height) : c[k] = Val(c, k)
  <2> HIDE DEF Val
  <2> QED BY <1>3, Zenon
<1>5. c[0] = real
  BY <1>4
<1>6. \A k \in 1..(H - height) : k \in 0..(H - height) /\ k # 0
  OBVIOUS
<1>7. \A k \in 1..(H - height) : c[k] = TreeHash(c[k - 1], Upper(k - 1), height + k - 1, 0)
  BY <1>4, <1>6, Zenon
<1> QED BY <1>2, <1>5, <1>7, Zenon

-----------------------------------------------------------------------------
(* The inductive invariant                                                 *)

\* Node j of level h of subtree s, as a node of the tree of the whole height.
Node(h, s, j) == Merkle[h][s * Pow2[subH - h] + j]

\* The buffer holds the nodes of subtree s below level n.
Holds(s, n) ==
    \A h \in 0..subH : h < n => \A j \in Slots(subH - h) : bottom[h][j] = Node(h, s, j)

\* Rows of the top below row n are those of the tree.
TopIs(n) ==
    \A r \in 0..topH : r < n => \A i \in Slots(topH - r) : top[r][i] = Merkle[subH + r][i]

TrueRoot == ClimbUpper(Merkle[height][0])

\* The siblings on the way from a leaf to the root.
TruePath(leaf) ==
    [h \in 0..(H - 1) |->
        IF h < height THEN Merkle[h][Sibling(leaf \div Pow2[h])] ELSE Upper(h - height)]

\* The buffers keep their shape.
ShapeInv ==
    /\ height \in 1..H
    /\ subH \in 1..height
    /\ DOMAIN top = 0..topH
    /\ \A r \in 0..topH : DOMAIN top[r] = Slots(topH - r)
    /\ DOMAIN bottom = 0..subH
    /\ \A h \in 0..subH : DOMAIN bottom[h] = Slots(subH - h)

\* While a subtree is being built: the levels that are finished, and the
\* iterations of the running loop that have ended.
SubtreeInv ==
    stage = "subtree" =>
        /\ target \in Slots(topH)
        /\ level \in 0..subH
        /\ done \subseteq Slots(subH - level)
        /\ Holds(target, level)
        /\ \A j \in done : bottom[level][j] = Node(level, target, j)

\* A subtree is built for a new key, whose earlier subtrees have left their
\* roots in the top, or for a signature of a key that is complete.
RequestInv ==
    stage = "subtree" =>
        \/ /\ request = {}
           /\ \A s \in 0..(target - 1) : top[0][s] = Merkle[subH][s]
        \/ /\ TopIs(topH + 1)
           /\ root = {TrueRoot}
           /\ \E leaf \in Slots(height), msg \in Messages :
                 request = {<<leaf, msg>>} /\ target = leaf \div Pow2[subH]

\* While the top is being built the last subtree is in the buffer.
TopInv ==
    stage = "top" =>
        /\ level \in 1..(topH + 1)
        /\ cached \in Slots(topH)
        /\ Holds(cached, subH + 1)
        /\ TopIs(level)
        /\ request = {}
        /\ level <= topH =>
              /\ done \subseteq Slots(topH - level)
              /\ \A i \in done : top[level][i] = Merkle[subH + level][i]

\* Between calls everything is in place.
ReadyInv ==
    stage = "ready" =>
        /\ cached \in Slots(topH)
        /\ Holds(cached, subH + 1)
        /\ TopIs(topH + 1)
        /\ root = {TrueRoot}
        /\ request = {}

\* What has been returned is a leaf's way to the root.
ResultInv ==
    \A sig \in result :
        /\ root = {TrueRoot}
        /\ \E leaf \in Slots(height), msg \in Messages :
              sig = [leaf |-> leaf, wots |-> <<leaf, msg>>, path |-> TruePath(leaf)]

TreeInv ==
    /\ ShapeInv
    /\ SubtreeInv
    /\ RequestInv
    /\ TopInv
    /\ ReadyInv
    /\ ResultInv

-----------------------------------------------------------------------------
(* Nodes of subtrees and rows of the top as nodes of the whole tree        *)

\* Powers of two grow.
LEMMA Pow2Mono ==
    ASSUME H \in Nat, NEW a \in Nat, NEW b \in Nat, a <= b, b <= H
    PROVE  Pow2[a] <= Pow2[b] /\ Slots(a) \subseteq Slots(b)
<1>1. Pow2[a] \in Nat \ {0} /\ Pow2[b - a] \in Nat \ {0} /\ Pow2[b] \in Nat \ {0}
  BY Pow2Type
<1>2. Pow2[b] = Pow2[a] * Pow2[b - a]
  <2>1. b - a \in Nat /\ a + (b - a) = b
    OBVIOUS
  <2> QED BY <2>1, Pow2Sum
<1>3. \A p, q \in Nat \ {0} : p <= p * q
  OBVIOUS
<1>4. Pow2[a] <= Pow2[b]
  BY <1>1, <1>2, <1>3
<1> QED BY <1>1, <1>4 DEF Slots

\* One level down there are two children to each slot.
LEMMA Children ==
    ASSUME H \in Nat, NEW n \in 1..H, NEW j \in Slots(n - 1)
    PROVE  j \in Nat /\ 2 * j \in Slots(n) /\ 2 * j + 1 \in Slots(n)
<1>1. Pow2[n - 1] \in Nat /\ Pow2[n] = 2 * Pow2[n - 1]
  BY Pow2Def, Pow2Type
<1> QED BY <1>1 DEF Slots

\* A slot of a subtree is a slot of the tree.
LEMMA NodeIndex ==
    ASSUME H \in Nat, height \in 1..H, subH \in 1..height,
           NEW s \in Slots(topH), NEW h \in 0..subH, NEW j \in Slots(subH - h)
    PROVE  s * Pow2[subH - h] + j \in Slots(height - h)
<1>1. topH \in Nat /\ subH - h \in Nat /\ topH + (subH - h) = height - h /\ height - h <= H
  BY DEF topH
<1>2. Pow2[topH] \in Nat \ {0} /\ Pow2[subH - h] \in Nat \ {0}
  BY <1>1, Pow2Type DEF topH
<1>3. Pow2[height - h] = Pow2[topH] * Pow2[subH - h]
  BY <1>1, Pow2Sum
<1>4. s \in 0..(Pow2[topH] - 1) /\ j \in 0..(Pow2[subH - h] - 1)
  BY DEF Slots
<1>5. s * Pow2[subH - h] + j \in 0..(Pow2[topH] * Pow2[subH - h] - 1)
  BY <1>2, <1>4, InBlock
<1> QED BY <1>3, <1>5 DEF Slots

\* The lowest level of a subtree.
LEMMA NodeLeaf ==
    ASSUME H \in Nat, height \in 1..H, subH \in 1..height,
           NEW s \in Slots(topH), NEW j \in Slots(subH)
    PROVE  Node(0, s, j) = LeafHash(s * Pow2[subH] + j)
<1>1. subH - 0 = subH /\ height - 0 = height /\ 0 \in 0..subH
  OBVIOUS
<1>2. s * Pow2[subH] + j \in Slots(height)
  BY <1>1, NodeIndex
<1>3. s * Pow2[subH] + j \in Slots(H)
  BY <1>2, Pow2Mono
<1> QED BY <1>1, <1>3, MerkleDef DEF Node

\* The other levels.
LEMMA NodeParent ==
    ASSUME H \in Nat, height \in 1..H, subH \in 1..height,
           NEW s \in Slots(topH), NEW h \in 1..subH, NEW j \in Slots(subH - h)
    PROVE  /\ 2 * j \in Slots(subH - (h - 1)) /\ 2 * j + 1 \in Slots(subH - (h - 1))
           /\ Node(h, s, j) = TreeHash(Node(h - 1, s, 2 * j), Node(h - 1, s, 2 * j + 1),
                                       h - 1, s * Pow2[subH - h] + j)
<1> DEFINE n == subH - (h - 1)
           x == s * Pow2[subH - h] + j
<1>1. n \in 1..H /\ n - 1 = subH - h /\ h \in 0..subH
  OBVIOUS
<1>2. j \in Nat /\ 2 * j \in Slots(n) /\ 2 * j + 1 \in Slots(n)
  BY <1>1, Children
<1>3. Pow2[n] = 2 * Pow2[subH - h] /\ Pow2[subH - h] \in Nat /\ s \in Nat
  <2>1. Pow2[n] = 2 * Pow2[n - 1]
    BY <1>1, Pow2Def
  <2>2. subH - h \in 0..H
    OBVIOUS
  <2>3. s \in Nat
    <3>1. topH \in 0..H
      BY DEF topH
    <3> QED BY <3>1, Pow2Type DEF Slots
  <2> QED BY <1>1, <2>1, <2>2, <2>3, Pow2Type
<1>4. 2 * x = s * Pow2[n] + 2 * j /\ 2 * x + 1 = s * Pow2[n] + (2 * j + 1)
  <2> HIDE DEF n
  <2>1. \A p \in Nat : 2 * (s * p + j) = s * (2 * p) + 2 * j
    BY <1>2, <1>3
  <2> QED BY <1>2, <1>3, <2>1
<1>5. x \in Slots(H - h)
  <2>1. x \in Slots(height - h)
    BY <1>1, NodeIndex
  <2>2. height - h \in Nat /\ H - h \in Nat /\ height - h <= H - h /\ H - h <= H
    OBVIOUS
  <2>3. Slots(height - h) \subseteq Slots(H - h)
    BY <2>2, Pow2Mono
  <2> QED BY <2>1, <2>3
<1> HIDE DEF x
<1>6. Merkle[h][x] = TreeHash(Merkle[h - 1][2 * x], Merkle[h - 1][2 * x + 1], h - 1, x)
  <2>1. h \in 1..H
    OBVIOUS
  <2> QED BY <1>5, <2>1, MerkleDef
<1>7. Node(h, s, j) = Merkle[h][x]
  BY DEF Node, x
<1>8. Node(h - 1, s, 2 * j) = Merkle[h - 1][2 * x]
  BY <1>4 DEF Node
<1>9. Node(h - 1, s, 2 * j + 1) = Merkle[h - 1][2 * x + 1]
  BY <1>4 DEF Node
<1>10. 2 * j \in Slots(subH - (h - 1)) /\ 2 * j + 1 \in Slots(subH - (h - 1))
  BY <1>2
<1>11. Node(h, s, j) = TreeHash(Node(h - 1, s, 2 * j), Node(h - 1, s, 2 * j + 1), h - 1, x)
  BY <1>6, <1>7, <1>8, <1>9
<1> QED BY <1>10, <1>11 DEF x

\* The root of a subtree is a slot of the top's lowest row.
LEMMA NodeRoot ==
    ASSUME H \in Nat, height \in 1..H, subH \in 1..height, NEW s \in Slots(topH)
    PROVE  Node(subH, s, 0) = Merkle[subH][s]
<1>1. topH \in 0..H
  BY DEF topH
<1>2. s \in Nat
  BY <1>1, Pow2Type DEF Slots
<1>3. subH - subH = 0 /\ s * 1 + 0 = s
  BY <1>2
<1> QED BY <1>3, Pow2Def DEF Node

\* The rows above it.
LEMMA TopParent ==
    ASSUME H \in Nat, height \in 1..H, subH \in 1..height,
           NEW r \in 1..topH, NEW i \in Slots(topH - r)
    PROVE  /\ 2 * i \in Slots(topH - (r - 1)) /\ 2 * i + 1 \in Slots(topH - (r - 1))
           /\ Merkle[subH + r][i] =
                  TreeHash(Merkle[subH + (r - 1)][2 * i], Merkle[subH + (r - 1)][2 * i + 1],
                           subH + r - 1, i)
<1>1. topH \in Nat /\ topH = height - subH
  BY DEF topH
<1> DEFINE n == topH - (r - 1)
           h == subH + r
<1>2. n \in 1..H /\ n - 1 = topH - r
  BY <1>1
<1>3. 2 * i \in Slots(n) /\ 2 * i + 1 \in Slots(n)
  BY <1>2, Children
<1>4. h \in 1..H /\ h - 1 = subH + (r - 1) /\ h - 1 = subH + r - 1
  BY <1>1
<1>5. topH - r = height - h /\ height - h \in Nat /\ H - h \in Nat /\ height - h <= H - h /\ H - h <= H
  BY <1>1
<1>6. i \in Slots(H - h)
  BY <1>5, Pow2Mono
<1>7. Merkle[h][i] = TreeHash(Merkle[h - 1][2 * i], Merkle[h - 1][2 * i + 1], h - 1, i)
  BY <1>4, <1>6, MerkleDef
<1> QED BY <1>3, <1>4, <1>7

-----------------------------------------------------------------------------
(* Authentication paths                                                    *)

\* An ancestor of a leaf and its sibling are nodes of the tree.
LEMMA Ancestor ==
    ASSUME H \in Nat, height \in 1..H, NEW leaf \in Slots(height), NEW h \in 0..height
    PROVE  leaf \in Nat /\ leaf \div Pow2[h] \in Slots(height - h)
<1>1. height - h \in 0..H /\ h \in 0..H /\ (height - h) + h = height
  OBVIOUS
<1>2. Pow2[height] = Pow2[height - h] * Pow2[h]
  BY <1>1, Pow2Sum
<1>3. Pow2[height - h] \in Nat \ {0} /\ Pow2[h] \in Nat \ {0} /\ Pow2[height] \in Nat
  BY <1>1, Pow2Type
<1>4. leaf \in 0..(Pow2[height - h] * Pow2[h] - 1)
  BY <1>2 DEF Slots
<1>5. leaf \div Pow2[h] \in 0..(Pow2[height - h] - 1)
  BY <1>3, <1>4, BlockOf
<1> QED BY <1>3, <1>4, <1>5 DEF Slots

\* A node that is not the root has its sibling and its parent in the tree.
LEMMA AncestorSibling ==
    ASSUME H \in Nat, NEW n \in 1..H, NEW x \in Slots(n)
    PROVE  Sibling(x) \in Slots(n) /\ x \div 2 \in Slots(n - 1)
<1>1. Pow2[n - 1] \in Nat /\ Pow2[n] = 2 * Pow2[n - 1]
  BY Pow2Def, Pow2Type
<1>2. x \in Nat /\ x <= 2 * Pow2[n - 1] - 1
  BY <1>1 DEF Slots
<1>3. /\ Sibling(x) \in Nat
      /\ x % 2 = 0 => x = 2 * (x \div 2) /\ Sibling(x) = 2 * (x \div 2) + 1
      /\ x % 2 # 0 => x = 2 * (x \div 2) + 1 /\ Sibling(x) = 2 * (x \div 2)
  BY <1>2, SiblingFacts
<1> DEFINE y == x \div 2
<1>4. y \in Nat
  BY <1>2
<1>5. \/ x = 2 * y /\ Sibling(x) = 2 * y + 1
      \/ x = 2 * y + 1 /\ Sibling(x) = 2 * y
  BY <1>2, <1>3
<1> HIDE DEF y
<1>6. Sibling(x) <= 2 * Pow2[n - 1] - 1 /\ y <= Pow2[n - 1] - 1
  BY <1>1, <1>2, <1>3, <1>4, <1>5
<1>7. Sibling(x) \in Slots(n) /\ y \in Slots(n - 1)
  BY <1>1, <1>3, <1>4, <1>6 DEF Slots
<1> QED BY <1>7 DEF y

\* The sibling below a subtree's root is in the same subtree.
LEMMA SiblingInSubtree ==
    ASSUME H \in Nat, height \in 1..H, subH \in 1..height,
           NEW leaf \in Slots(height), NEW h \in 0..subH, h < subH
    PROVE  /\ leaf \div Pow2[subH] \in Slots(topH)
           /\ Sibling(leaf \div Pow2[h]) - (leaf \div Pow2[subH]) * Pow2[subH - h]
                  \in Slots(subH - h)
           /\ Node(h, leaf \div Pow2[subH],
                   Sibling(leaf \div Pow2[h]) - (leaf \div Pow2[subH]) * Pow2[subH - h])
              = Merkle[h][Sibling(leaf \div Pow2[h])]
<1> DEFINE x == leaf \div Pow2[h]
           s == leaf \div Pow2[subH]
           p == Pow2[subH - h]
           q == Pow2[subH - h - 1]
           y == Sibling(x)
<1>1. /\ subH - h \in 1..H /\ subH - h - 1 \in 0..H /\ h \in 0..height /\ h \in 0..H
      /\ h + (subH - h) = subH /\ subH \in 0..height
  OBVIOUS
<1>2. p = 2 * q /\ q \in Nat \ {0} /\ p \in Nat \ {0} /\ Pow2[h] \in Nat \ {0}
  BY <1>1, Pow2Def, Pow2Type
<1>3. leaf \in Nat /\ x \in Slots(height - h) /\ s \in Slots(height - subH)
  BY <1>1, Ancestor
<1>4. x \in Nat /\ s \in Nat
  <2>1. height - h \in 0..H /\ height - subH \in 0..H
    OBVIOUS
  <2> QED BY <1>3, <2>1, Pow2Type DEF Slots
<1>5. s = x \div p
  <2>1. Pow2[subH] = Pow2[h] * p
    BY <1>1, Pow2Sum
  <2>2. leaf \div (Pow2[h] * p) = (leaf \div Pow2[h]) \div p
    BY <1>2, <1>3, DivDiv
  <2> QED BY <2>1, <2>2
<1>6. y \in Nat /\ y \div 2 = x \div 2
  BY <1>4, SiblingFacts
<1> HIDE DEF x, s, p, q, y
<1>7. y \div p = s
  <2>1. \A a \in Nat : a \div (2 * q) = (a \div 2) \div q
    <3> SUFFICES ASSUME NEW a \in Nat PROVE a \div (2 * q) = (a \div 2) \div q
      OBVIOUS
    <3>1. 2 \in Nat \ {0}
      OBVIOUS
    <3> QED BY <1>2, <3>1, DivDiv
  <2> QED BY <1>2, <1>4, <1>5, <1>6, <2>1
<1>8. p * s <= y /\ y < p * s + p
  BY <1>2, <1>6, <1>7
<1>9. y - s * p \in 0..(p - 1) /\ s * p + (y - s * p) = y
  BY <1>2, <1>4, <1>6, <1>8
<1>10. s \in Slots(topH)
  BY <1>3 DEF topH
<1>11. y - s * p \in Slots(subH - h)
  BY <1>9 DEF p, Slots
<1>12. Node(h, s, y - s * p) = Merkle[h][y]
  BY <1>9 DEF Node, p
<1> QED BY <1>10, <1>11, <1>12 DEF x, s, p, y

\* What keypair_sign assembles from the buffers is the leaf's true path.
LEMMA AuthPathTrue ==
    ASSUME H \in Nat, height \in 1..H, subH \in 1..height,
           NEW leaf \in Slots(height),
           Holds(leaf \div Pow2[subH], subH + 1), TopIs(topH + 1)
    PROVE  AuthPath(leaf) = TruePath(leaf)
<1> DEFINE s == leaf \div Pow2[subH]
           Entry(h) ==
               CASE h < subH ->
                       bottom[h][Sibling(leaf \div Pow2[h]) - s * Pow2[subH - h]]
                 [] h >= subH /\ h < height ->
                       top[h - subH][Sibling(leaf \div Pow2[h])]
                 [] OTHER -> Upper(h - height)
           True(h) ==
               IF h < height THEN Merkle[h][Sibling(leaf \div Pow2[h])]
               ELSE Upper(h - height)
<1>1. ASSUME NEW h \in 0..(H - 1) PROVE Entry(h) = True(h)
  <2>1. CASE h < subH
    <3>1. h \in 0..subH /\ h < subH + 1 /\ h < height
      BY <2>1
    <3>2. /\ Sibling(leaf \div Pow2[h]) - s * Pow2[subH - h] \in Slots(subH - h)
          /\ Node(h, s, Sibling(leaf \div Pow2[h]) - s * Pow2[subH - h])
             = Merkle[h][Sibling(leaf \div Pow2[h])]
      BY <2>1, <3>1, SiblingInSubtree
    <3>3. bottom[h][Sibling(leaf \div Pow2[h]) - s * Pow2[subH - h]]
          = Node(h, s, Sibling(leaf \div Pow2[h]) - s * Pow2[subH - h])
      BY <3>1, <3>2 DEF Holds
    <3> QED BY <2>1, <3>1, <3>2, <3>3
  <2>2. CASE h >= subH /\ h < height
    <3>1. /\ h \in 0..height /\ h - subH \in 0..topH /\ h - subH < topH + 1
          /\ topH - (h - subH) = height - h /\ height - h \in 1..H /\ subH + (h - subH) = h
      BY <2>2 DEF topH
    <3>2. leaf \div Pow2[h] \in Slots(height - h)
      BY <3>1, Ancestor
    <3>3. Sibling(leaf \div Pow2[h]) \in Slots(topH - (h - subH))
      BY <3>1, <3>2, AncestorSibling
    <3>4. top[h - subH][Sibling(leaf \div Pow2[h])] = Merkle[h][Sibling(leaf \div Pow2[h])]
      BY <3>1, <3>3 DEF TopIs
    <3> QED BY <2>2, <3>4
  <2>3. CASE h >= height
    <3>1. ~ (h < subH) /\ ~ (h < height)
      BY <2>3
    <3> QED BY <3>1
  <2> QED BY <2>1, <2>2, <2>3
<1>2. AuthPath(leaf) = [h \in 0..(H - 1) |-> Entry(h)]
  BY Zenon DEF AuthPath
<1>3. TruePath(leaf) = [h \in 0..(H - 1) |-> True(h)]
  BY Zenon DEF TruePath
<1> HIDE DEF Entry, True
<1> QED BY <1>1, <1>2, <1>3, Zenon

\* The verifier climbs from a leaf to the node above it.
LEMMA ParentIs ==
    ASSUME H \in Nat, NEW h \in 0..(H - 1), NEW x \in Slots(H - h)
    PROVE  Parent(x, Merkle[h][x], Merkle[h][Sibling(x)], h) = Merkle[h + 1][x \div 2]
<1>1. H - h \in 1..H /\ (H - h) - 1 = H - (h + 1) /\ h + 1 \in 1..H /\ (h + 1) - 1 = h
  OBVIOUS
<1>2. x \div 2 \in Slots(H - (h + 1))
  BY <1>1, AncestorSibling
<1>3. Merkle[h + 1][x \div 2] =
          TreeHash(Merkle[h][2 * (x \div 2)], Merkle[h][2 * (x \div 2) + 1], h, x \div 2)
  BY <1>1, <1>2, MerkleDef
<1>4. x \in Nat
  BY <1>1, Pow2Type DEF Slots
<1>5. /\ x % 2 = 0 => x = 2 * (x \div 2) /\ Sibling(x) = 2 * (x \div 2) + 1
      /\ x % 2 # 0 => x = 2 * (x \div 2) + 1 /\ Sibling(x) = 2 * (x \div 2)
  BY <1>4, SiblingFacts
<1> QED BY <1>3, <1>5 DEF Parent

\* The true path leads from a leaf to the true root.
LEMMA TruePathVerifies ==
    ASSUME H \in Nat, height \in 1..H, NEW leaf \in Slots(height)
    PROVE  WalkAuthPath(LeafHash(leaf), leaf, TruePath(leaf)) = TrueRoot
<1> DEFINE path == TruePath(leaf)
           At(h) == leaf \div Pow2[h]
<1>1. PICK w :
         /\ WalkAuthPath(LeafHash(leaf), leaf, path) = w[H]
         /\ w[0] = LeafHash(leaf)
         /\ \A h \in 1..H : w[h] = Parent(At(h - 1), w[h - 1], path[h - 1], h - 1)
  BY WalkDef
<1>2. PICK c :
         /\ TrueRoot = c[H - height]
         /\ c[0] = Merkle[height][0]
         /\ \A i \in 1..(H - height) :
               c[i] = TreeHash(c[i - 1], Upper(i - 1), height + i - 1, 0)
  BY ClimbDef DEF TrueRoot
<1>3. \A h \in 0..(H - 1) :
         path[h] = IF h < height THEN Merkle[h][Sibling(At(h))] ELSE Upper(h - height)
  BY DEF TruePath
<1>4. leaf \in Nat /\ \A h \in 0..height : At(h) \in Slots(height - h)
  BY Ancestor
<1> HIDE DEF path
<1>5. \A h \in Nat : h <= height => w[h] = Merkle[h][At(h)]
  <2> DEFINE T == {h \in Nat : h <= height => w[h] = Merkle[h][At(h)]}
  <2>1. 0 \in T
    <3>1. At(0) = leaf
      BY <1>4, Pow2Def
    <3>2. leaf \in Slots(H)
      BY Pow2Mono
    <3> QED BY <1>1, <3>1, <3>2, MerkleDef
  <2>2. ASSUME NEW h \in T PROVE h + 1 \in T
    <3>1. h \in Nat /\ (h <= height => w[h] = Merkle[h][At(h)])
      OBVIOUS
    <3>2. ASSUME h + 1 <= height PROVE w[h + 1] = Merkle[h + 1][At(h + 1)]
      <4>1. /\ h \in 0..(H - 1) /\ h + 1 \in 1..H /\ (h + 1) - 1 = h /\ h < height /\ h \in 0..height
            /\ height - h \in Nat /\ H - h \in Nat /\ height - h <= H - h /\ H - h <= H /\ h \in 0..H
        BY <3>1, <3>2
      <4>2. w[h + 1] = Parent(At(h), Merkle[h][At(h)], Merkle[h][Sibling(At(h))], h)
        BY <1>1, <1>3, <3>1, <4>1
      <4>3. At(h) \in Slots(H - h)
        BY <1>4, <4>1, Pow2Mono
      <4>4. At(h) \div 2 = At(h + 1)
        <5>1. Pow2[h + 1] = 2 * Pow2[h] /\ Pow2[h] \in Nat \ {0}
          BY <4>1, Pow2Def, Pow2Type
        <5> QED BY <1>4, <5>1, DivHalf
      <4> HIDE DEF At
      <4> QED BY <4>1, <4>2, <4>3, <4>4, ParentIs
    <3> QED BY <3>1, <3>2
  <2>3. T = Nat
    <3> HIDE DEF T
    <3>1. T \in SUBSET Nat
      BY DEF T
    <3> QED BY <2>1, <2>2, <3>1, NatSetInduction
  <2> QED BY <2>3
<1>6. \A h \in height..H : At(h) = 0
  <2> SUFFICES ASSUME NEW h \in height..H PROVE leaf \div Pow2[h] = 0
    OBVIOUS
  <2>1. Pow2[height] <= Pow2[h] /\ Pow2[height] \in Nat /\ Pow2[h] \in Nat \ {0}
    BY Pow2Mono, Pow2Type
  <2>2. leaf < Pow2[h]
    BY <1>4, <2>1 DEF Slots
  <2> QED BY <1>4, <2>1, <2>2
<1> HIDE DEF At
<1>7. \A i \in Nat : i <= H - height => w[height + i] = c[i]
  <2> DEFINE T == {i \in Nat : i <= H - height => w[height + i] = c[i]}
  <2>1. 0 \in T
    <3>1. height \in Nat /\ height <= height /\ height \in height..H /\ height + 0 = height
      OBVIOUS
    <3> QED BY <1>2, <1>5, <1>6, <3>1
  <2>2. ASSUME NEW i \in T PROVE i + 1 \in T
    <3>1. i \in Nat /\ (i <= H - height => w[height + i] = c[i])
      OBVIOUS
    <3>2. ASSUME i + 1 <= H - height PROVE w[height + (i + 1)] = c[i + 1]
      <4> DEFINE h == height + i
      <4>1. /\ h \in 0..(H - 1) /\ h + 1 \in 1..H /\ (h + 1) - 1 = h /\ ~ (h < height)
            /\ h \in height..H /\ h - height = i /\ height + (i + 1) = h + 1
            /\ i + 1 \in 1..(H - height) /\ (i + 1) - 1 = i /\ height + (i + 1) - 1 = h
        BY <3>1, <3>2
      <4> HIDE DEF h
      <4>2. w[h + 1] = Parent(At(h), w[h], path[h], h)
        BY <1>1, <4>1
      <4>3. At(h) = 0 /\ path[h] = Upper(i)
        BY <1>3, <1>6, <4>1
      <4>4. w[h] = c[i]
        BY <3>1, <3>2 DEF h
      <4>5. Parent(0, c[i], Upper(i), h) = TreeHash(c[i], Upper(i), h, 0)
        BY DEF Parent
      <4>6. c[i + 1] = TreeHash(c[i], Upper(i), h, 0)
        BY <1>2, <4>1
      <4> QED BY <4>1, <4>2, <4>3, <4>4, <4>5, <4>6
    <3> QED BY <3>1, <3>2
  <2>3. T = Nat
    <3> HIDE DEF T
    <3>1. T \in SUBSET Nat
      BY DEF T
    <3> QED BY <2>1, <2>2, <3>1, NatSetInduction
  <2> QED BY <2>3
<1>8. w[H] = c[H - height]
  <2>1. H - height \in Nat /\ height + (H - height) = H
    OBVIOUS
  <2> QED BY <1>7, <2>1
<1> QED BY <1>1, <1>2, <1>8 DEF path

-----------------------------------------------------------------------------
(* Every step preserves the invariant                                      *)

\* The true root and the true paths depend on the height alone, the nodes of
\* subtrees on the split too.
LEMMA TrueStays ==
    ASSUME height' = height
    PROVE  TrueRoot' = TrueRoot /\ \A leaf : TruePath(leaf)' = TruePath(leaf)
BY DEF TrueRoot, ClimbUpper, TruePath

\* A complete top stays complete while it is not written to.
LEMMA TopStays ==
    ASSUME UNCHANGED <<height, subH, top>>, TopIs(topH + 1)
    PROVE  TopIs(topH + 1)'
BY DEF TopIs, topH

\* A signature stays good while the key does not change.
LEMMA ResultStays ==
    ASSUME ResultInv, UNCHANGED <<height, root, result>>
    PROVE  ResultInv'
<1>1. TrueRoot' = TrueRoot /\ \A leaf : TruePath(leaf)' = TruePath(leaf)
  BY TrueStays
<1> QED BY <1>1 DEF ResultInv

\* The request that a subtree is built for outlives a step of the build.
LEMMA RequestStays ==
    ASSUME RequestInv, stage = "subtree",
           UNCHANGED <<height, subH, top, root, target, request>>
    PROVE  RequestInv'
<1>1. TrueRoot' = TrueRoot
  BY TrueStays
<1>2. TopIs(topH + 1) => TopIs(topH + 1)'
  BY TopStays
<1>3. CASE /\ request = {}
           /\ \A s \in 0..(target - 1) : top[0][s] = Merkle[subH][s]
  BY <1>3 DEF RequestInv
<1>4. CASE /\ TopIs(topH + 1)
           /\ root = {TrueRoot}
           /\ \E leaf \in Slots(height), msg \in Messages :
                 request = {<<leaf, msg>>} /\ target = leaf \div Pow2[subH]
  <2>1. TopIs(topH + 1)' /\ root' = {TrueRoot}'
    BY <1>1, <1>2, <1>4
  <2>2. \E leaf \in Slots(height'), msg \in Messages :
           request' = {<<leaf, msg>>} /\ target' = leaf \div Pow2[subH']
    BY <1>4
  <2> QED BY <2>1, <2>2 DEF RequestInv
<1> QED BY <1>3, <1>4 DEF RequestInv

\* Nothing has been written yet, and nothing is claimed.
LEMMA TreeInvInit ==
    ASSUME H \in Nat, Heights \subseteq 1..H, TreeInit
    PROVE  TreeInv
<1>1. ShapeInv
  BY DEF TreeInit, ShapeInv
<1>2. SubtreeInv
  <2>1. topH \in 0..H
    BY DEF TreeInit, topH
  <2>2. 0 \in Slots(topH)
    BY <2>1, Pow2Type DEF Slots
  <2> QED BY <2>2 DEF TreeInit, SubtreeInv, Holds
<1>3. RequestInv
  BY DEF TreeInit, RequestInv
<1>4. TopInv /\ ReadyInv /\ ResultInv
  BY DEF TreeInit, TopInv, ReadyInv, ResultInv
<1> QED BY <1>1, <1>2, <1>3, <1>4 DEF TreeInv

\* An iteration of xmss_build_subtree writes a node of the tree.
LEMMA InvBuildSubtree ==
    ASSUME H \in Nat, TreeInv, NEW j, BuildSubtree(j)
    PROVE  TreeInv'
<1>1. /\ stage = "subtree" /\ stage' = "subtree"
      /\ j \in Slots(subH - level)
      /\ bottom' = [bottom EXCEPT ![level][j] = SubtreeNode(j)]
      /\ done' = done \cup {j}
      /\ UNCHANGED <<height, subH, top, cached, root, target, level, request, result>>
  BY DEF BuildSubtree
<1>2. /\ height \in 1..H /\ subH \in 1..height
      /\ DOMAIN bottom = 0..subH
      /\ \A h \in 0..subH : DOMAIN bottom[h] = Slots(subH - h)
  BY DEF TreeInv, ShapeInv
<1>3. /\ target \in Slots(topH) /\ level \in 0..subH /\ done \subseteq Slots(subH - level)
      /\ Holds(target, level)
      /\ \A k \in done : bottom[level][k] = Node(level, target, k)
  BY <1>1 DEF TreeInv, SubtreeInv
<1>4. SubtreeNode(j) = Node(level, target, j)
  <2>1. CASE level = 0
    <3>1. j \in Slots(subH)
      BY <1>1, <1>2, <2>1
    <3>2. Node(0, target, j) = LeafHash(target * Pow2[subH] + j)
      BY <1>2, <1>3, <3>1, NodeLeaf
    <3> QED BY <2>1, <3>2 DEF SubtreeNode
  <2>2. CASE level # 0
    <3>1. level \in 1..subH /\ level - 1 \in 0..subH /\ level - 1 < level
      BY <1>2, <1>3, <2>2
    <3>2. /\ 2 * j \in Slots(subH - (level - 1)) /\ 2 * j + 1 \in Slots(subH - (level - 1))
          /\ Node(level, target, j) =
                TreeHash(Node(level - 1, target, 2 * j), Node(level - 1, target, 2 * j + 1),
                         level - 1, target * Pow2[subH - level] + j)
      BY <1>1, <1>2, <1>3, <3>1, NodeParent
    <3>3. /\ bottom[level - 1][2 * j] = Node(level - 1, target, 2 * j)
          /\ bottom[level - 1][2 * j + 1] = Node(level - 1, target, 2 * j + 1)
      BY <1>3, <3>1, <3>2 DEF Holds
    <3> QED BY <2>2, <3>2, <3>3 DEF SubtreeNode
  <2> QED BY <2>1, <2>2
<1>5. /\ DOMAIN bottom' = 0..subH
      /\ \A h \in 0..subH : DOMAIN bottom'[h] = Slots(subH - h)
  BY <1>1, <1>2, <1>3
<1>6. \A h \in 0..subH : h < level => bottom'[h] = bottom[h]
  BY <1>1, <1>2, <1>3
<1>7. \A k \in done' : bottom'[level][k] = Node(level, target, k)
  BY <1>1, <1>2, <1>3, <1>4
<1>8. ShapeInv'
  BY <1>1, <1>5 DEF TreeInv, ShapeInv, topH
<1>9. SubtreeInv'
  <2>1. /\ target' \in Slots(topH') /\ level' \in 0..subH'
        /\ done' \subseteq Slots(subH' - level')
    BY <1>1, <1>3 DEF topH
  <2>2. Holds(target, level)'
    BY <1>1, <1>3, <1>6 DEF Holds, Node
  <2>3. \A k \in done' : bottom'[level'][k] = Node(level, target, k)'
    BY <1>1, <1>7 DEF Node
  <2> QED BY <2>1, <2>2, <2>3 DEF SubtreeInv
<1>10. RequestInv'
  BY <1>1, RequestStays DEF TreeInv
<1>11. TopInv' /\ ReadyInv'
  BY <1>1 DEF TopInv, ReadyInv
<1>12. ResultInv'
  BY <1>1, ResultStays DEF TreeInv
<1> QED BY <1>8, <1>9, <1>10, <1>11, <1>12 DEF TreeInv

\* A level is finished when all of its iterations have ended.
LEMMA InvNextSubtreeLevel ==
    ASSUME H \in Nat, TreeInv, NextSubtreeLevel
    PROVE  TreeInv'
<1>1. /\ stage = "subtree" /\ stage' = "subtree"
      /\ done = Slots(subH - level) /\ level < subH
      /\ level' = level + 1 /\ done' = {}
      /\ UNCHANGED <<height, subH, top, bottom, cached, root, target, request, result>>
  BY DEF NextSubtreeLevel
<1>2. height \in 1..H /\ subH \in 1..height
  BY DEF TreeInv, ShapeInv
<1>3. /\ target \in Slots(topH) /\ level \in 0..subH
      /\ Holds(target, level)
      /\ \A k \in done : bottom[level][k] = Node(level, target, k)
  BY <1>1 DEF TreeInv, SubtreeInv
<1>4. ShapeInv'
  BY <1>1 DEF TreeInv, ShapeInv, topH
<1>5. SubtreeInv'
  <2>1. Holds(target, level)'
    <3>1. \A h \in 0..subH : h < level + 1 => h < level \/ h = level
      BY <1>2, <1>3
    <3>2. \A h \in 0..subH : h < level + 1 =>
             \A j \in Slots(subH - h) : bottom[h][j] = Node(h, target, j)
      BY <1>1, <1>3, <3>1 DEF Holds
    <3> QED BY <1>1, <3>2 DEF Holds, Node
  <2>2. target' \in Slots(topH') /\ level' \in 0..subH' /\ done' = {}
    BY <1>1, <1>2, <1>3 DEF topH
  <2> QED BY <2>1, <2>2 DEF SubtreeInv
<1>6. RequestInv'
  BY <1>1, RequestStays DEF TreeInv
<1>7. TopInv' /\ ReadyInv'
  BY <1>1 DEF TopInv, ReadyInv
<1>8. ResultInv'
  BY <1>1, ResultStays DEF TreeInv
<1> QED BY <1>4, <1>5, <1>6, <1>7, <1>8 DEF TreeInv

\* A subtree that is built is in the buffer whole, and its root is the slot
\* of the top that it belongs to.
LEMMA BuiltHolds ==
    ASSUME H \in Nat, TreeInv, SubtreeBuilt
    PROVE  /\ target \in Slots(topH) /\ topH \in Nat
           /\ Holds(target, subH + 1)
           /\ bottom[subH][0] = Merkle[subH][target]
<1>1. /\ stage = "subtree" /\ level = subH /\ done = Slots(0)
      /\ height \in 1..H /\ subH \in 1..height
      /\ target \in Slots(topH)
      /\ Holds(target, level)
      /\ \A k \in done : bottom[level][k] = Node(level, target, k)
  BY DEF TreeInv, ShapeInv, SubtreeInv, SubtreeBuilt
<1>2. subH - subH = 0 /\ 0 \in Slots(0)
  BY <1>1, Pow2Def DEF Slots
<1>3. \A h \in 0..subH : h < subH + 1 => h < level \/ h = level
  BY <1>1
<1>4. Holds(target, subH + 1)
  BY <1>1, <1>2, <1>3 DEF Holds
<1>5. Node(subH, target, 0) = Merkle[subH][target]
  BY <1>1, NodeRoot
<1>6. bottom[subH][0] = Merkle[subH][target]
  BY <1>1, <1>2, <1>5
<1> QED BY <1>1, <1>4, <1>6 DEF topH

\* keypair_new keeps a subtree's root when it builds the next one.
LEMMA InvNextSubtree ==
    ASSUME H \in Nat, TreeInv, NextSubtree
    PROVE  TreeInv'
<1>1. /\ SubtreeBuilt /\ stage = "subtree" /\ stage' = "subtree" /\ request = {}
      /\ target + 1 \in Slots(topH)
      /\ top' = [top EXCEPT ![0][target] = bottom[subH][0]]
      /\ target' = target + 1 /\ level' = 0 /\ done' = {}
      /\ UNCHANGED <<height, subH, bottom, cached, root, request, result>>
  BY DEF NextSubtree, SubtreeBuilt
<1>2. /\ target \in Slots(topH) /\ topH \in Nat
      /\ bottom[subH][0] = Merkle[subH][target]
  BY <1>1, BuiltHolds
<1>3. /\ height \in 1..H /\ subH \in 1..height
      /\ DOMAIN top = 0..topH /\ \A r \in 0..topH : DOMAIN top[r] = Slots(topH - r)
  BY DEF TreeInv, ShapeInv
<1>4. target \in Nat
  <2>1. topH \in 0..H
    BY <1>3 DEF topH
  <2> QED BY <1>2, <2>1, Pow2Type DEF Slots
<1>5. 0 \in 0..topH /\ topH - 0 = topH
  BY <1>2
<1>6. /\ DOMAIN top' = 0..topH
      /\ \A r \in 0..topH : DOMAIN top'[r] = Slots(topH - r)
      /\ top'[0][target] = bottom[subH][0]
      /\ \A s \in Slots(topH) : s # target => top'[0][s] = top[0][s]
  BY <1>1, <1>2, <1>3, <1>5
<1>7. ShapeInv'
  BY <1>1, <1>6 DEF TreeInv, ShapeInv, topH
<1>8. SubtreeInv'
  BY <1>1, <1>3 DEF SubtreeInv, Holds, topH
<1>9. RequestInv'
  <2>1. \A s \in 0..(target - 1) : top[0][s] = Merkle[subH][s]
    BY <1>1 DEF TreeInv, RequestInv
  <2>2. \A s \in 0..target : s \in Slots(topH) /\ (s = target \/ s \in 0..(target - 1))
    <3>1. Pow2[topH] \in Nat
      BY <1>2, <1>3, Pow2Type DEF topH
    <3> QED BY <1>2, <1>4, <3>1 DEF Slots
  <2>3. \A s \in 0..target : top'[0][s] = Merkle[subH][s]
    BY <1>2, <1>6, <2>1, <2>2
  <2>4. target' - 1 = target
    BY <1>1, <1>4
  <2> QED BY <1>1, <2>3, <2>4 DEF RequestInv
<1>10. TopInv' /\ ReadyInv'
  BY <1>1 DEF TopInv, ReadyInv
<1>11. ResultInv'
  BY <1>1, ResultStays DEF TreeInv
<1> QED BY <1>7, <1>8, <1>9, <1>10, <1>11 DEF TreeInv

\* The last subtree stays in the buffer and completes the top's lowest row.
LEMMA InvLastSubtree ==
    ASSUME H \in Nat, TreeInv, LastSubtree
    PROVE  TreeInv'
<1>1. /\ SubtreeBuilt /\ stage = "subtree" /\ stage' = "top" /\ request = {}
      /\ target + 1 \notin Slots(topH)
      /\ top' = [top EXCEPT ![0][target] = bottom[subH][0]]
      /\ cached' = Pow2[topH] - 1 /\ level' = 1 /\ done' = {}
      /\ UNCHANGED <<height, subH, bottom, root, target, request, result>>
  BY DEF LastSubtree, SubtreeBuilt
<1>2. /\ target \in Slots(topH) /\ topH \in Nat
      /\ Holds(target, subH + 1)
      /\ bottom[subH][0] = Merkle[subH][target]
  BY <1>1, BuiltHolds
<1>3. /\ height \in 1..H /\ subH \in 1..height
      /\ DOMAIN top = 0..topH /\ \A r \in 0..topH : DOMAIN top[r] = Slots(topH - r)
  BY DEF TreeInv, ShapeInv
<1>4. Pow2[topH] \in Nat \ {0}
  BY <1>2, <1>3, Pow2Type DEF topH
<1>5. target \in Nat /\ cached' = target
  BY <1>1, <1>2, <1>4 DEF Slots
<1>6. 0 \in 0..topH /\ topH - 0 = topH
  BY <1>2
<1>7. /\ DOMAIN top' = 0..topH
      /\ \A r \in 0..topH : DOMAIN top'[r] = Slots(topH - r)
      /\ top'[0][target] = bottom[subH][0]
      /\ \A s \in Slots(topH) : s # target => top'[0][s] = top[0][s]
  BY <1>1, <1>2, <1>3, <1>6
<1>8. \A s \in Slots(topH) : top'[0][s] = Merkle[subH][s]
  <2>1. \A s \in 0..(target - 1) : top[0][s] = Merkle[subH][s]
    BY <1>1 DEF TreeInv, RequestInv
  <2>2. \A s \in Slots(topH) : s = target \/ s \in 0..(target - 1)
    BY <1>1, <1>4, <1>5 DEF Slots
  <2> QED BY <1>2, <1>7, <2>1, <2>2
<1>9. ShapeInv'
  BY <1>1, <1>7 DEF TreeInv, ShapeInv, topH
<1>10. TopInv'
  <2>1. level' \in 1..(topH + 1)' /\ cached' \in Slots(topH')
    BY <1>1, <1>2, <1>5 DEF topH
  <2>2. Holds(cached, subH + 1)'
    BY <1>1, <1>2, <1>5 DEF Holds, Node
  <2>3. TopIs(level)'
    <3>1. \A r \in 0..topH : r < 1 => r = 0
      BY <1>2
    <3>2. subH + 0 = subH
      BY <1>3
    <3> QED BY <1>1, <1>6, <1>8, <3>1, <3>2 DEF TopIs, topH
  <2>4. done' = {} /\ request' = {}
    BY <1>1
  <2> QED BY <2>1, <2>2, <2>3, <2>4 DEF TopInv
<1>11. SubtreeInv' /\ RequestInv' /\ ReadyInv'
  BY <1>1 DEF SubtreeInv, RequestInv, ReadyInv
<1>12. ResultInv'
  BY <1>1, ResultStays DEF TreeInv
<1> QED BY <1>9, <1>10, <1>11, <1>12 DEF TreeInv

\* An iteration of xmss_build_top writes a node of the tree.
LEMMA InvBuildTop ==
    ASSUME H \in Nat, TreeInv, NEW i, BuildTop(i)
    PROVE  TreeInv'
<1>1. /\ stage = "top" /\ stage' = "top" /\ level <= topH
      /\ i \in Slots(topH - level)
      /\ top' = [top EXCEPT ![level][i] =
                    TreeHash(top[level - 1][2 * i], top[level - 1][2 * i + 1],
                             subH + level - 1, i)]
      /\ done' = done \cup {i}
      /\ UNCHANGED <<height, subH, bottom, cached, root, target, level, request, result>>
  BY DEF BuildTop
<1>2. /\ height \in 1..H /\ subH \in 1..height
      /\ DOMAIN top = 0..topH /\ \A r \in 0..topH : DOMAIN top[r] = Slots(topH - r)
  BY DEF TreeInv, ShapeInv
<1>3. /\ level \in 1..(topH + 1) /\ cached \in Slots(topH)
      /\ Holds(cached, subH + 1) /\ TopIs(level) /\ request = {}
      /\ done \subseteq Slots(topH - level)
      /\ \A k \in done : top[level][k] = Merkle[subH + level][k]
  BY <1>1 DEF TreeInv, TopInv
<1>4. topH \in Nat /\ level \in 1..topH /\ level \in 0..topH /\ level - 1 \in 0..topH
      /\ level - 1 < level
  BY <1>1, <1>2, <1>3 DEF topH
<1>5. TreeHash(top[level - 1][2 * i], top[level - 1][2 * i + 1], subH + level - 1, i)
      = Merkle[subH + level][i]
  <2>1. /\ 2 * i \in Slots(topH - (level - 1)) /\ 2 * i + 1 \in Slots(topH - (level - 1))
        /\ Merkle[subH + level][i] =
              TreeHash(Merkle[subH + (level - 1)][2 * i], Merkle[subH + (level - 1)][2 * i + 1],
                       subH + level - 1, i)
    BY <1>1, <1>2, <1>4, TopParent
  <2>2. /\ top[level - 1][2 * i] = Merkle[subH + (level - 1)][2 * i]
        /\ top[level - 1][2 * i + 1] = Merkle[subH + (level - 1)][2 * i + 1]
    BY <1>3, <1>4, <2>1 DEF TopIs
  <2> QED BY <2>1, <2>2
<1>6. top' = [top EXCEPT ![level][i] = Merkle[subH + level][i]]
  BY <1>1, <1>5
<1>7. /\ DOMAIN top' = 0..topH
      /\ \A r \in 0..topH : DOMAIN top'[r] = Slots(topH - r)
      /\ \A r \in 0..topH : r < level => top'[r] = top[r]
  BY <1>2, <1>4, <1>6
<1>8. \A k \in done' : top'[level][k] = Merkle[subH + level][k]
  BY <1>1, <1>2, <1>3, <1>4, <1>6
<1>9. ShapeInv'
  BY <1>1, <1>7 DEF TreeInv, ShapeInv, topH
<1>10. TopInv'
  <2>1. /\ level' \in 1..(topH + 1)' /\ cached' \in Slots(topH') /\ request' = {}
        /\ done' \subseteq Slots(topH' - level')
    BY <1>1, <1>3 DEF topH
  <2>2. Holds(cached, subH + 1)'
    BY <1>1, <1>3 DEF Holds, Node
  <2>3. TopIs(level)'
    BY <1>1, <1>3, <1>7 DEF TopIs, topH
  <2>4. \A k \in done' : top'[level'][k] = Merkle[subH' + level'][k]
    BY <1>1, <1>8
  <2> QED BY <2>1, <2>2, <2>3, <2>4 DEF TopInv
<1>11. SubtreeInv' /\ RequestInv' /\ ReadyInv'
  BY <1>1 DEF SubtreeInv, RequestInv, ReadyInv
<1>12. ResultInv'
  BY <1>1, ResultStays DEF TreeInv
<1> QED BY <1>9, <1>10, <1>11, <1>12 DEF TreeInv

\* A row is finished when all of its iterations have ended.
LEMMA InvNextTopLevel ==
    ASSUME H \in Nat, TreeInv, NextTopLevel
    PROVE  TreeInv'
<1>1. /\ stage = "top" /\ stage' = "top" /\ level <= topH
      /\ done = Slots(topH - level) /\ level' = level + 1 /\ done' = {}
      /\ UNCHANGED <<height, subH, top, bottom, cached, root, target, request, result>>
  BY DEF NextTopLevel
<1>2. height \in 1..H /\ subH \in 1..height
  BY DEF TreeInv, ShapeInv
<1>3. /\ level \in 1..(topH + 1) /\ cached \in Slots(topH)
      /\ Holds(cached, subH + 1) /\ TopIs(level) /\ request = {}
      /\ \A k \in done : top[level][k] = Merkle[subH + level][k]
  BY <1>1 DEF TreeInv, TopInv
<1>4. topH \in Nat
  BY <1>2 DEF topH
<1>5. ShapeInv'
  BY <1>1 DEF TreeInv, ShapeInv, topH
<1>6. TopInv'
  <2>1. level' \in 1..(topH + 1)' /\ cached' \in Slots(topH') /\ request' = {}
    BY <1>1, <1>3, <1>4 DEF topH
  <2>2. Holds(cached, subH + 1)'
    BY <1>1, <1>3 DEF Holds, Node
  <2>3. TopIs(level)'
    <3>1. \A r \in 0..topH : r < level + 1 => r < level \/ r = level
      BY <1>3, <1>4
    <3>2. \A r \in 0..topH : r < level + 1 =>
             \A k \in Slots(topH - r) : top[r][k] = Merkle[subH + r][k]
      BY <1>1, <1>3, <3>1 DEF TopIs
    <3> QED BY <1>1, <3>2 DEF TopIs, topH
  <2> QED BY <1>1, <2>1, <2>2, <2>3 DEF TopInv
<1>7. SubtreeInv' /\ RequestInv' /\ ReadyInv'
  BY <1>1 DEF SubtreeInv, RequestInv, ReadyInv
<1>8. ResultInv'
  BY <1>1, ResultStays DEF TreeInv
<1> QED BY <1>5, <1>6, <1>7, <1>8 DEF TreeInv

\* The root is computed from the top of the top.
LEMMA InvNewReturn ==
    ASSUME H \in Nat, TreeInv, NewReturn
    PROVE  TreeInv'
<1>1. /\ stage = "top" /\ stage' = "ready" /\ level > topH
      /\ root' = {ClimbUpper(top[topH][0])}
      /\ UNCHANGED <<height, subH, top, bottom, cached, target, level, done, request, result>>
  BY DEF NewReturn
<1>2. height \in 1..H /\ subH \in 1..height
  BY DEF TreeInv, ShapeInv
<1>3. /\ level \in 1..(topH + 1) /\ cached \in Slots(topH)
      /\ Holds(cached, subH + 1) /\ TopIs(level) /\ request = {}
  BY <1>1 DEF TreeInv, TopInv
<1>4. topH \in Nat /\ subH + topH = height /\ level = topH + 1 /\ topH - topH = 0 /\ topH < topH + 1
  BY <1>1, <1>2, <1>3 DEF topH
<1>5. TrueRoot' = TrueRoot
  BY <1>1, TrueStays
<1>6. top[topH][0] = Merkle[height][0]
  <2>1. 0 \in Slots(0)
    BY Pow2Def DEF Slots
  <2> QED BY <1>3, <1>4, <2>1 DEF TopIs
<1>7. root' = {TrueRoot}
  BY <1>1, <1>6 DEF TrueRoot
<1>8. ShapeInv'
  BY <1>1 DEF TreeInv, ShapeInv, topH
<1>9. ReadyInv'
  <2>1. cached' \in Slots(topH') /\ request' = {} /\ root' = {TrueRoot}'
    BY <1>1, <1>3, <1>5, <1>7 DEF topH
  <2>2. Holds(cached, subH + 1)'
    BY <1>1, <1>3 DEF Holds, Node
  <2>3. TopIs(topH + 1)'
    BY <1>1, <1>3, <1>4, TopStays
  <2> QED BY <2>1, <2>2, <2>3 DEF ReadyInv
<1>10. SubtreeInv' /\ RequestInv' /\ TopInv'
  BY <1>1 DEF SubtreeInv, RequestInv, TopInv
<1>11. ResultInv'
  <2>1. \A leaf : TruePath(leaf)' = TruePath(leaf)
    BY <1>1, TrueStays
  <2> QED BY <1>1, <1>5, <1>7, <2>1 DEF TreeInv, ResultInv
<1> QED BY <1>8, <1>9, <1>10, <1>11 DEF TreeInv

\* A refused call leaves the key alone.
LEMMA InvSignRefused ==
    ASSUME H \in Nat, TreeInv, SignRefused
    PROVE  TreeInv'
<1>1. /\ stage = "ready" /\ stage' = "ready" /\ result' = {}
      /\ UNCHANGED <<height, subH, top, bottom, cached, root, target, level, done, request>>
  BY DEF SignRefused, loop
<1>2. ShapeInv'
  BY <1>1 DEF TreeInv, ShapeInv, topH
<1>3. ReadyInv'
  <2>1. TrueRoot' = TrueRoot
    BY <1>1, TrueStays
  <2>2. TopIs(topH + 1)'
    BY <1>1, TopStays DEF TreeInv, ReadyInv
  <2> QED BY <1>1, <2>1, <2>2 DEF TreeInv, ReadyInv, Holds, Node, topH
<1>4. SubtreeInv' /\ RequestInv' /\ TopInv' /\ ResultInv'
  BY <1>1 DEF SubtreeInv, RequestInv, TopInv, ResultInv
<1> QED BY <1>2, <1>3, <1>4 DEF TreeInv

\* A signature assembled from a complete key and the leaf's subtree is what
\* the verifier wants.
LEMMA SignatureIs ==
    ASSUME H \in Nat, TreeInv, NEW leaf \in Slots(height), NEW msg \in Messages,
           Holds(leaf \div Pow2[subH], subH + 1), TopIs(topH + 1), root = {TrueRoot},
           result' = {Signature(leaf, msg)}, UNCHANGED <<height, root>>
    PROVE  ResultInv'
<1>1. height \in 1..H /\ subH \in 1..height
  BY DEF TreeInv, ShapeInv
<1>2. AuthPath(leaf) = TruePath(leaf)
  BY <1>1, AuthPathTrue
<1>3. Signature(leaf, msg) = [leaf |-> leaf, wots |-> <<leaf, msg>>, path |-> TruePath(leaf)]
  BY <1>2 DEF Signature
<1>4. TrueRoot' = TrueRoot /\ \A x : TruePath(x)' = TruePath(x)
  BY TrueStays
<1> QED BY <1>3, <1>4 DEF ResultInv

\* Signing with the subtree that is in the buffer.
LEMMA InvSignCached ==
    ASSUME H \in Nat, TreeInv, NEW leaf, NEW msg \in Messages, SignCached(leaf, msg)
    PROVE  TreeInv'
<1>1. /\ stage = "ready" /\ stage' = "ready" /\ leaf \in Slots(height)
      /\ leaf \div Pow2[subH] = cached /\ result' = {Signature(leaf, msg)}
      /\ UNCHANGED <<height, subH, top, bottom, cached, root, target, level, done, request>>
  BY DEF SignCached, loop
<1>2. /\ cached \in Slots(topH) /\ Holds(cached, subH + 1) /\ TopIs(topH + 1)
      /\ root = {TrueRoot} /\ request = {}
  BY <1>1 DEF TreeInv, ReadyInv
<1>3. ShapeInv'
  BY <1>1 DEF TreeInv, ShapeInv, topH
<1>4. ReadyInv'
  <2>1. TrueRoot' = TrueRoot
    BY <1>1, TrueStays
  <2>2. TopIs(topH + 1)'
    BY <1>1, <1>2, TopStays
  <2>3. Holds(cached, subH + 1)' /\ cached' \in Slots(topH')
    BY <1>1, <1>2 DEF Holds, Node, topH
  <2> QED BY <1>1, <1>2, <2>1, <2>2, <2>3 DEF ReadyInv
<1>5. SubtreeInv' /\ RequestInv' /\ TopInv'
  BY <1>1 DEF SubtreeInv, RequestInv, TopInv
<1>6. ResultInv'
  BY <1>1, <1>2, SignatureIs
<1> QED BY <1>3, <1>4, <1>5, <1>6 DEF TreeInv

\* The build of another subtree begins.
LEMMA InvSignRebuild ==
    ASSUME H \in Nat, TreeInv, NEW leaf, NEW msg \in Messages, SignRebuild(leaf, msg)
    PROVE  TreeInv'
<1>1. /\ stage = "ready" /\ stage' = "subtree" /\ leaf \in Slots(height)
      /\ target' = leaf \div Pow2[subH] /\ level' = 0 /\ done' = {}
      /\ request' = {<<leaf, msg>>} /\ result' = {}
      /\ UNCHANGED <<height, subH, top, bottom, cached, root>>
  BY DEF SignRebuild
<1>2. TopIs(topH + 1) /\ root = {TrueRoot}
  BY <1>1 DEF TreeInv, ReadyInv
<1>3. height \in 1..H /\ subH \in 1..height
  BY DEF TreeInv, ShapeInv
<1>4. leaf \div Pow2[subH] \in Slots(topH)
  <2>1. subH \in 0..height
    BY <1>3
  <2> QED BY <1>1, <1>3, <2>1, Ancestor DEF topH
<1>5. ShapeInv'
  BY <1>1 DEF TreeInv, ShapeInv, topH
<1>6. SubtreeInv'
  BY <1>1, <1>3, <1>4 DEF SubtreeInv, Holds, topH
<1>7. RequestInv'
  <2>1. TopIs(topH + 1)' /\ root' = {TrueRoot}'
    BY <1>1, <1>2, TopStays, TrueStays
  <2>2. \E x \in Slots(height'), m \in Messages :
           request' = {<<x, m>>} /\ target' = x \div Pow2[subH']
    BY <1>1
  <2> QED BY <2>1, <2>2 DEF RequestInv
<1>8. TopInv' /\ ReadyInv' /\ ResultInv'
  BY <1>1 DEF TopInv, ReadyInv, ResultInv
<1> QED BY <1>5, <1>6, <1>7, <1>8 DEF TreeInv

\* The subtree that was asked for is in the buffer now.
LEMMA InvSignReturn ==
    ASSUME H \in Nat, TreeInv, SignReturn
    PROVE  TreeInv'
<1>1. /\ SubtreeBuilt /\ stage = "subtree" /\ stage' = "ready"
      /\ \E q \in request : result' = {Signature(q[1], q[2])}
      /\ cached' = target /\ request' = {}
      /\ UNCHANGED <<height, subH, top, bottom, root, target, level, done>>
  BY DEF SignReturn, SubtreeBuilt
<1>2. target \in Slots(topH) /\ Holds(target, subH + 1)
  BY <1>1, BuiltHolds
<1>3. request # {}
  BY <1>1
<1>4. TopIs(topH + 1) /\ root = {TrueRoot}
  BY <1>1, <1>3 DEF TreeInv, RequestInv
<1>5. PICK leaf \in Slots(height), msg \in Messages :
         request = {<<leaf, msg>>} /\ target = leaf \div Pow2[subH]
  BY <1>1, <1>3 DEF TreeInv, RequestInv
<1>6. result' = {Signature(leaf, msg)}
  BY <1>1, <1>5
<1>7. ShapeInv'
  BY <1>1 DEF TreeInv, ShapeInv, topH
<1>8. ReadyInv'
  <2>1. TrueRoot' = TrueRoot
    BY <1>1, TrueStays
  <2>2. TopIs(topH + 1)'
    BY <1>1, <1>4, TopStays
  <2>3. Holds(cached, subH + 1)' /\ cached' \in Slots(topH')
    BY <1>1, <1>2 DEF Holds, Node, topH
  <2> QED BY <1>1, <1>4, <2>1, <2>2, <2>3 DEF ReadyInv
<1>9. SubtreeInv' /\ RequestInv' /\ TopInv'
  BY <1>1 DEF SubtreeInv, RequestInv, TopInv
<1>10. ResultInv'
  BY <1>1, <1>2, <1>4, <1>5, <1>6, SignatureIs
<1> QED BY <1>7, <1>8, <1>9, <1>10 DEF TreeInv

\* Every step of the key pair preserves the invariant.
LEMMA TreeInvNext ==
    ASSUME H \in Nat, TreeInv, [TreeNext]_treeVars
    PROVE  TreeInv'
<1>1. ASSUME NEW j \in Slots(H), BuildSubtree(j) PROVE TreeInv'
  BY <1>1, InvBuildSubtree
<1>2. CASE NextSubtreeLevel
  BY <1>2, InvNextSubtreeLevel
<1>3. CASE NextSubtree
  BY <1>3, InvNextSubtree
<1>4. CASE LastSubtree
  BY <1>4, InvLastSubtree
<1>5. ASSUME NEW i \in Slots(H), BuildTop(i) PROVE TreeInv'
  BY <1>5, InvBuildTop
<1>6. CASE NextTopLevel
  BY <1>6, InvNextTopLevel
<1>7. CASE NewReturn
  BY <1>7, InvNewReturn
<1>8. CASE SignRefused
  BY <1>8, InvSignRefused
<1>9. ASSUME NEW leaf \in Slots(H), NEW msg \in Messages,
             SignCached(leaf, msg) \/ SignRebuild(leaf, msg)
      PROVE  TreeInv'
  BY <1>9, InvSignCached, InvSignRebuild
<1>10. CASE SignReturn
  BY <1>10, InvSignReturn
<1>11. CASE UNCHANGED treeVars
  <2>1. UNCHANGED <<height, subH, top, bottom, cached, root, stage, target, level, done,
                    request, result>>
    BY <1>11 DEF treeVars
  <2>2. TrueRoot' = TrueRoot /\ \A leaf : TruePath(leaf)' = TruePath(leaf)
    BY <2>1, TrueStays
  <2>3. ShapeInv' /\ SubtreeInv'
    BY <2>1 DEF TreeInv, ShapeInv, SubtreeInv, Holds, Node, topH
  <2>4. RequestInv'
    <3>1. CASE stage = "subtree"
      BY <2>1, <3>1, RequestStays DEF TreeInv
    <3>2. CASE stage # "subtree"
      BY <2>1, <3>2 DEF RequestInv
    <3> QED BY <3>1, <3>2
  <2>5. TopInv'
    BY <2>1 DEF TreeInv, TopInv, Holds, Node, TopIs, topH
  <2>6. ReadyInv'
    BY <2>1, <2>2 DEF TreeInv, ReadyInv, Holds, Node, TopIs, topH
  <2>7. ResultInv'
    BY <2>1, ResultStays DEF TreeInv
  <2> QED BY <2>3, <2>4, <2>5, <2>6, <2>7 DEF TreeInv
<1>12. New => TreeInv'
  BY <1>1, <1>2, <1>3, <1>4, <1>5, <1>6, <1>7 DEF New
<1>13. Sign => TreeInv'
  BY <1>8, <1>9, <1>10 DEF Sign
<1> QED BY <1>11, <1>12, <1>13 DEF TreeNext

-----------------------------------------------------------------------------
(* Theorems                                                                *)

\* Whatever the split, and in whichever order iterations end and leaves are
\* asked for, the buffers hold nodes of the one tree of the whole height.
THEOREM TreeInvariant == TreeSpec => []TreeInv
<1>1. TreeInit => TreeInv
  BY HeightsAssumption, TreeInvInit
<1>2. TreeInv /\ [TreeNext]_treeVars => TreeInv'
  BY HeightsAssumption, TreeInvNext
<1> QED BY <1>1, <1>2, PTL DEF TreeSpec

\* Between calls the buffer holds the subtree that cached_subtree names.
THEOREM BufferCoherent == TreeSpec => []CacheCoherent
<1>1. TreeInv => CacheCoherent
  <2> SUFFICES ASSUME TreeInv, stage = "ready",
                      NEW h \in 0..subH, NEW j \in Slots(subH - h)
               PROVE  bottom[h][j] = Merkle[h][cached * Pow2[subH - h] + j]
    BY DEF CacheCoherent
  <2>1. h < subH + 1
    BY DEF TreeInv, ShapeInv
  <2> QED BY <2>1 DEF TreeInv, ReadyInv, Holds, Node
<1> QED BY <1>1, TreeInvariant, PTL

\* The public root does not depend on how the tree is split into subtrees.
THEOREM RootIsMerkle == TreeSpec => []RootIndependentOfSplit
<1>1. TreeInv => RootIndependentOfSplit
  BY DEF TreeInv, ReadyInv, RootIndependentOfSplit, TrueRoot
<1> QED BY <1>1, TreeInvariant, PTL

\* xmss_verify accepts what xmss_keypair_sign returns.
THEOREM SignedLeavesVerify == TreeSpec => []SignaturesVerify
<1>1. TreeInv => SignaturesVerify
  <2> SUFFICES ASSUME TreeInv, NEW sig \in result
               PROVE  Verify(sig.wots[2], sig) /\ sig.leaf < Pow2[height]
    BY DEF SignaturesVerify
  <2>1. PICK leaf \in Slots(height), msg \in Messages :
           sig = [leaf |-> leaf, wots |-> <<leaf, msg>>, path |-> TruePath(leaf)]
    BY DEF TreeInv, ResultInv
  <2>2. root = {TrueRoot} /\ height \in 1..H
    BY DEF TreeInv, ResultInv, ShapeInv
  <2>3. WalkAuthPath(LeafHash(leaf), leaf, TruePath(leaf)) = TrueRoot
    BY <2>2, HeightsAssumption, TruePathVerifies
  <2>4. sig.leaf = leaf /\ sig.wots = <<leaf, msg>> /\ sig.wots[2] = msg /\ sig.path = TruePath(leaf)
    BY <2>1
  <2>5. Verify(sig.wots[2], sig)
    BY <2>2, <2>3, <2>4 DEF Verify
  <2>6. leaf < Pow2[height]
    BY <2>2, HeightsAssumption, Pow2Type DEF Slots
  <2> QED BY <2>4, <2>5, <2>6
<1> QED BY <1>1, TreeInvariant, PTL

=============================================================================
