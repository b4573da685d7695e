----------------------- MODULE LongfellowChainsProofs -----------------------
(***************************************************************************)
(* Soundness of the rows of the Longfellow statement, for any number of    *)
(* chains, steps and rows that fit a byte: a satisfied statement has the   *)
(* chain ends that the native verifier computes.                           *)
(***************************************************************************)
EXTENDS LongfellowChains, SumTheorems, SequenceTheorems, TLAPS

\* The run at hand: as many steps as its count says, one after the other from
\* the signature node of its chain on.
RunInv ==
    row > 0 =>
        /\ last.count \in 1..row
        /\ last.out.base = last.idx
        /\ Len(last.out.tweaks) = last.count
        /\ \A k \in 1..last.count :
              last.out.tweaks[k] = <<last.idx, (coords[last.idx] + k) % ByteSize>>

\* A chain end that the constraints have fixed is the right one.
PkInv == \A c \in Chain : \A n \in pk[c] : n = PkFromSig(c)

\* A run that ended has fixed the end of its chain.
ClosedInv == \A c \in Chain : closed[c] > 0 => pk[c] # {}

\* What the last constraints establish.
DoneInv == phase = "done" => \A c \in Chain : pk[c] # {}

IInv == TypeOK /\ RunInv /\ PkInv /\ ClosedInv /\ DoneInv

-----------------------------------------------------------------------------

\* A node with the length and the entries of a chain end is that chain end.
LEMMA SameTweaks ==
    ASSUME NEW c \in Chain, TypeOK, NEW n \in Node,
           n.base = c,
           Len(n.tweaks) = MaxSteps - coords[c],
           \A k \in 1..(MaxSteps - coords[c]) : n.tweaks[k] = <<c, coords[c] + k>>
    PROVE  n = PkFromSig(c)
<1>1. n.tweaks = [k \in 1..(MaxSteps - coords[c]) |-> <<c, coords[c] + k>>]
  <2>1. n.tweaks \in Seq(Byte \X Byte)
    BY DEF Node
  <2>2. DOMAIN n.tweaks = 1..(MaxSteps - coords[c])
    BY <2>1
  <2>3. n.tweaks = [k \in DOMAIN n.tweaks |-> n.tweaks[k]]
    BY <2>1
  <2>4. \A k \in DOMAIN n.tweaks : n.tweaks[k] = <<c, coords[c] + k>>
    BY <2>2
  <2> QED BY <2>2, <2>3, <2>4
<1>2. n = [base |-> n.base, tweaks |-> n.tweaks]
  BY DEF Node
<1> QED BY <1>1, <1>2 DEF PkFromSig

\* A run that may end, ends in the chain end of its chain.
LEMMA CloseIsExact ==
    ASSUME IInv, row > 0, last.count = MaxSteps - coords[last.idx]
    PROVE  last.out = PkFromSig(last.idx)
<1> USE ParametersAssumption
<1>1. /\ last.idx \in Chain /\ last.out \in Node
      /\ coords[last.idx] \in Coord
      /\ last.count \in 1..row
  BY DEF IInv, TypeOK, RunInv
<1>2. ASSUME NEW k \in 1..(MaxSteps - coords[last.idx])
      PROVE  last.out.tweaks[k] = <<last.idx, coords[last.idx] + k>>
  <2>1. last.out.tweaks[k] = <<last.idx, (coords[last.idx] + k) % ByteSize>>
    BY DEF IInv, RunInv
  <2>2. coords[last.idx] + k \in 0..(ByteSize - 1)
    BY <1>1 DEF Coord
  <2>3. (coords[last.idx] + k) % ByteSize = coords[last.idx] + k
    BY <2>2
  <2> QED BY <2>1, <2>3
<1>3. last.out.base = last.idx /\ Len(last.out.tweaks) = MaxSteps - coords[last.idx]
  BY DEF IInv, RunInv
<1> QED BY <1>1, <1>2, <1>3, SameTweaks DEF IInv

\* A chain without a step ends where it starts.
LEMMA ZeroChain ==
    ASSUME TypeOK, NEW c \in Chain, coords[c] = MaxSteps
    PROVE  Sig(c) = PkFromSig(c)
<1> USE ParametersAssumption
<1>1. Sig(c) \in Node /\ Sig(c).base = c /\ Sig(c).tweaks = <<>>
  BY DEF Sig, Node, Chain
<1>2. MaxSteps - coords[c] = 0 /\ Len(Sig(c).tweaks) = 0
  BY <1>1
<1>3. \A k \in 1..(MaxSteps - coords[c]) : FALSE
  BY <1>2
<1> QED BY <1>1, <1>2, <1>3, SameTweaks

-----------------------------------------------------------------------------

\* An empty table of rows satisfies the invariant.
LEMMA InvInit == Init => IInv
<1> SUFFICES ASSUME Init PROVE IInv
  OBVIOUS
<1> USE ParametersAssumption
<1>1. NoRow \in [idx : Chain, count : Byte, out : Node]
  BY DEF NoRow, Unrelated, Node, Chain, Byte
<1>2. TypeOK
  BY <1>1 DEF Init, TypeOK
<1>3. RunInv /\ PkInv /\ ClosedInv /\ DoneInv
  BY DEF Init, RunInv, PkInv, ClosedInv, DoneInv
<1> QED BY <1>2, <1>3 DEF IInv

\* The sum of the digest is checked before the first row.
LEMMA InvDigest == ASSUME IInv, Digest PROVE IInv'
<1>1. UNCHANGED <<coords, leftover, row, last, pk, closed, honest>>
      /\ phase' \in {"rows", "unsat"}
  BY DEF Digest
<1>2. TypeOK'
  BY <1>1 DEF IInv, TypeOK
<1>3. RunInv' /\ PkInv' /\ ClosedInv' /\ DoneInv'
  BY <1>1 DEF IInv, RunInv, PkInv, ClosedInv, DoneInv, PkFromSig
<1> QED BY <1>2, <1>3 DEF IInv

\* The run after row r is laid.
LEMMA InvRowRun ==
    ASSUME IInv, NEW r \in [idx : Byte, count : Byte, pos : Byte, in : Inputs],
           Row(r)
    PROVE  RunInv' /\ last' \in [idx : Chain, count : Byte, out : Node]
<1> USE ParametersAssumption
<1> DEFINE C == coords[r.idx]
           Tweaks == r.in.tweaks
<1>1. /\ r.idx \in Chain /\ r.idx \in Byte /\ C \in Nat
      /\ r.count \in Byte /\ r.pos \in Byte
      /\ r.pos = (r.count + C) % ByteSize
      /\ coords' = coords /\ row' = row + 1 /\ row \in Nat /\ row < ScheduleLen
  BY DEF IInv, TypeOK, Row, RowOk, Chain, Byte, Coord
<1>2. last.out \in Node /\ r.in \in Node
  <2>1. last.out \in Node
    BY DEF IInv, TypeOK
  <2>2. Unrelated \in Node /\ \A c \in Chain : Sig(c) \in Node
    BY DEF Unrelated, Sig, Node, Chain
  <2> QED BY <2>1, <2>2 DEF Inputs
<1>3. last' = [idx |-> r.idx, count |-> r.count, out |-> Hash(r.in, r.idx, r.pos)]
  BY DEF Row
<1>4. Tweaks \in Seq(Byte \X Byte) /\ <<r.idx, r.pos>> \in Byte \X Byte
  BY <1>1, <1>2 DEF Node
<1>5. /\ Hash(r.in, r.idx, r.pos).base = r.in.base
      /\ Hash(r.in, r.idx, r.pos).tweaks = Append(Tweaks, <<r.idx, r.pos>>)
      /\ Hash(r.in, r.idx, r.pos) \in Node
  <2>1. r.in.base \in 0..NumChains
    BY <1>2 DEF Node
  <2>2. Hash(r.in, r.idx, r.pos)
          = [base |-> r.in.base, tweaks |-> Append(Tweaks, <<r.idx, r.pos>>)]
    BY DEF Hash
  <2>3. Append(Tweaks, <<r.idx, r.pos>>) \in Seq(Byte \X Byte)
    BY <1>4, AppendProperties
  <2> QED BY <2>1, <2>2, <2>3 DEF Node
<1>6. last' \in [idx : Chain, count : Byte, out : Node]
  BY <1>1, <1>3, <1>5
\* The input of the row: count - 1 steps of the same chain.
<1>7. /\ r.count \in 1..(row + 1)
      /\ r.in.base = r.idx
      /\ Len(Tweaks) = r.count - 1
      /\ \A k \in 1..(r.count - 1) : Tweaks[k] = <<r.idx, (C + k) % ByteSize>>
  <2>1. CASE r.count = 1
    <3>1. r.in = Sig(r.idx)
      BY <2>1 DEF Row, RowOk
    <3>2. r.in.base = r.idx /\ Tweaks = <<>>
      BY <3>1 DEF Sig
    <3>3. Len(Tweaks) = 0 /\ r.count - 1 = 0
      BY <2>1, <3>2
    <3>4. \A k \in 1..(r.count - 1) : FALSE
      BY <3>3
    <3> QED BY <1>1, <2>1, <3>2, <3>3, <3>4
  <2>2. CASE r.count # 1
    <3>1. /\ row > 0 /\ r.idx = last.idx /\ r.in = last.out
          /\ r.count = (last.count + 1) % ByteSize
      BY <1>1, <2>2 DEF Row, RowOk
    <3>2. /\ last.count \in 1..row
          /\ last.out.base = last.idx
          /\ Len(last.out.tweaks) = last.count
          /\ \A k \in 1..last.count :
                last.out.tweaks[k] = <<last.idx, (coords[last.idx] + k) % ByteSize>>
      BY <3>1 DEF IInv, RunInv
    <3>3. r.count = last.count + 1
      <4>1. last.count \in Nat /\ last.count <= row /\ row + 1 <= ScheduleLen
        BY <1>1, <3>2
      <4>2. last.count + 1 < ByteSize
        BY <1>1, <4>1
      <4>3. (last.count + 1) % ByteSize = last.count + 1
        BY <4>1, <4>2
      <4> QED BY <3>1, <4>3
    <3>4. r.count - 1 = last.count /\ r.count \in 1..(row + 1)
      BY <1>1, <3>2, <3>3
    <3> QED BY <3>1, <3>2, <3>4
  <2> QED BY <2>1, <2>2
<1>8. /\ Len(last'.out.tweaks) = r.count
      /\ \A k \in 1..(r.count - 1) : last'.out.tweaks[k] = Tweaks[k]
      /\ last'.out.tweaks[r.count] = <<r.idx, r.pos>>
  <2>1. last'.out.tweaks = Append(Tweaks, <<r.idx, r.pos>>)
    BY <1>3, <1>5
  <2>2. /\ Len(Append(Tweaks, <<r.idx, r.pos>>)) = Len(Tweaks) + 1
        /\ \A k \in 1..Len(Tweaks) : Append(Tweaks, <<r.idx, r.pos>>)[k] = Tweaks[k]
        /\ Append(Tweaks, <<r.idx, r.pos>>)[Len(Tweaks) + 1] = <<r.idx, r.pos>>
    BY <1>4, AppendProperties
  <2>3. Len(Tweaks) = r.count - 1 /\ Len(Tweaks) + 1 = r.count
    BY <1>1, <1>7 DEF Byte
  <2> QED BY <2>1, <2>2, <2>3
<1>9. ASSUME NEW k \in 1..r.count
      PROVE  last'.out.tweaks[k] = <<r.idx, (C + k) % ByteSize>>
  <2>1. CASE k = r.count
    <3>1. r.count + C = C + k
      BY <1>1, <2>1 DEF Byte
    <3> QED BY <1>1, <1>8, <2>1, <3>1
  <2>2. CASE k # r.count
    <3>1. k \in 1..(r.count - 1)
      BY <1>1, <2>2 DEF Byte
    <3> QED BY <1>7, <1>8, <3>1
  <2> QED BY <2>1, <2>2
<1>10. RunInv'
  <2>1. last'.idx = r.idx /\ last'.count = r.count /\ last'.out.base = r.idx
    BY <1>3, <1>5, <1>7
  <2> QED BY <1>1, <1>7, <1>8, <1>9, <2>1 DEF RunInv
<1> QED BY <1>6, <1>10

\* A run that ends fixes the end of its chain rightly.
LEMMA CloseStep ==
    ASSUME IInv, row > 0, CloseOk
    PROVE  /\ Closed \in [Chain -> SUBSET Node]
           /\ \A c \in Chain : \A n \in Closed[c] : n = PkFromSig(c)
           /\ \A c \in Chain : pk[c] # {} \/ c = last.idx => Closed[c] # {}
<1>1. last.idx \in Chain /\ last.out \in Node /\ pk \in [Chain -> SUBSET Node]
  BY DEF IInv, TypeOK
<1>2. last.out = PkFromSig(last.idx)
  BY CloseIsExact DEF CloseOk, WantCount
<1>3. Closed \in [Chain -> SUBSET Node]
  BY <1>1 DEF Closed
<1>4. \A c \in Chain : Closed[c] = IF c = last.idx THEN {last.out} ELSE pk[c]
  BY <1>1 DEF Closed
<1>5. \A c \in Chain : \A n \in Closed[c] : n = PkFromSig(c)
  BY <1>2, <1>4 DEF IInv, PkInv
<1>6. \A c \in Chain : pk[c] # {} \/ c = last.idx => Closed[c] # {}
  BY <1>4
<1> QED BY <1>3, <1>5, <1>6

\* One row of assert_xmss keeps the invariant.
LEMMA InvRow ==
    ASSUME IInv, NEW r \in [idx : Byte, count : Byte, pos : Byte, in : Inputs],
           Row(r)
    PROVE  IInv'
<1> USE ParametersAssumption
<1>1. /\ UNCHANGED <<coords, leftover, phase>>
      /\ row \in Nat /\ row < ScheduleLen /\ row' = row + 1
      /\ phase = "rows" /\ honest' \in BOOLEAN
  BY DEF IInv, TypeOK, Row
<1>2. RunInv' /\ last' \in [idx : Chain, count : Byte, out : Node]
  BY InvRowRun
<1>3. pk' \in [Chain -> SUBSET Node] /\ closed' \in [Chain -> Nat] /\ PkInv' /\ ClosedInv'
  <2>1. CASE row > 0 /\ r.idx # last.idx
    <3>1. CloseOk /\ pk' = Closed /\ closed' = [closed EXCEPT ![last.idx] = @ + 1]
      BY <2>1 DEF Row, RowOk
    <3>2. /\ Closed \in [Chain -> SUBSET Node]
          /\ \A c \in Chain : \A n \in Closed[c] : n = PkFromSig(c)
          /\ \A c \in Chain : pk[c] # {} \/ c = last.idx => Closed[c] # {}
      BY <2>1, <3>1, CloseStep
    <3>3. closed \in [Chain -> Nat] /\ last.idx \in Chain
      BY DEF IInv, TypeOK
    <3>4. closed' \in [Chain -> Nat]
      BY <3>1, <3>3
    <3>5. \A c \in Chain : c # last.idx => closed'[c] = closed[c]
      BY <3>1, <3>3
    <3>6. PkInv'
      BY <1>1, <3>1, <3>2 DEF PkInv, PkFromSig
    <3>7. ClosedInv'
      BY <3>1, <3>2, <3>5 DEF IInv, ClosedInv
    <3> QED BY <3>1, <3>2, <3>4, <3>6, <3>7
  <2>2. CASE ~(row > 0 /\ r.idx # last.idx)
    <3>1. UNCHANGED <<pk, closed>>
      BY <2>2 DEF Row
    <3> QED BY <1>1, <3>1 DEF IInv, TypeOK, PkInv, ClosedInv, PkFromSig
  <2> QED BY <2>1, <2>2
<1>4. TypeOK'
  BY <1>1, <1>2, <1>3 DEF IInv, TypeOK
<1>5. DoneInv'
  BY <1>1 DEF DoneInv
<1> QED BY <1>2, <1>3, <1>4, <1>5 DEF IInv

\* The check after the last row keeps the invariant.
LEMMA InvFinish == ASSUME IInv, Finish PROVE IInv'
<1> USE ParametersAssumption
<1>1. /\ UNCHANGED <<coords, leftover, row, last, honest>> /\ phase' = "done"
      /\ row > 0 /\ CloseOk /\ FinishOk
  BY DEF IInv, TypeOK, Finish, FinishOk
<1>2. /\ Closed \in [Chain -> SUBSET Node]
      /\ \A c \in Chain : \A n \in Closed[c] : n = PkFromSig(c)
      /\ \A c \in Chain : pk[c] # {} \/ c = last.idx => Closed[c] # {}
  BY <1>1, CloseStep
<1>3. pk' = [c \in Chain |-> IF coords[c] = MaxSteps THEN {Sig(c)} ELSE Closed[c]]
  BY DEF Finish
<1>4. \A c \in Chain : Sig(c) \in Node
  BY DEF Sig, Node, Chain
<1>5. pk' \in [Chain -> SUBSET Node]
  BY <1>2, <1>3, <1>4
<1>6. closed' \in [Chain -> Nat]
  BY DEF IInv, TypeOK, Finish
<1>7. TypeOK'
  BY <1>1, <1>5, <1>6 DEF IInv, TypeOK
<1>8. RunInv'
  BY <1>1 DEF IInv, RunInv
<1>9. PkInv'
  <2>1. \A c \in Chain : coords[c] = MaxSteps => Sig(c) = PkFromSig(c)
    BY ZeroChain DEF IInv
  <2> QED BY <1>1, <1>2, <1>3, <2>1 DEF PkInv, PkFromSig
<1>10. \A c \in Chain : pk'[c] # {}
  <2> SUFFICES ASSUME NEW c \in Chain PROVE pk'[c] # {}
    OBVIOUS
  <2>1. c = last.idx \/ closed[c] > 0 \/ coords[c] = MaxSteps
    BY <1>1 DEF FinishOk
  <2>2. closed[c] > 0 => pk[c] # {}
    BY DEF IInv, ClosedInv
  <2> QED BY <1>2, <1>3, <2>1, <2>2
<1>11. ClosedInv' /\ DoneInv'
  BY <1>10 DEF ClosedInv, DoneInv
<1> QED BY <1>7, <1>8, <1>9, <1>11 DEF IInv

\* Every step of the statement keeps the invariant.
LEMMA InvNext == IInv /\ [Next]_vars => IInv'
<1> SUFFICES ASSUME IInv, [Next]_vars PROVE IInv'
  OBVIOUS
<1>1. CASE UNCHANGED vars
  BY <1>1 DEF vars, IInv, TypeOK, RunInv, PkInv, ClosedInv, DoneInv, PkFromSig
<1>2. CASE Digest
  BY <1>2, InvDigest
<1>3. CASE \E r \in [idx : Byte, count : Byte, pos : Byte, in : Inputs] : Row(r)
  BY <1>3, InvRow
<1>4. CASE Finish
  BY <1>4, InvFinish
<1> QED BY <1>1, <1>2, <1>3, <1>4 DEF Next

-----------------------------------------------------------------------------

\* The invariant holds throughout.
LEMMA Invariant == Spec => []IInv
BY InvInit, InvNext, PTL DEF Spec

\* For every number of chains, steps and rows that fit a byte, a satisfied
\* statement has the chain ends of compute_wots_pk_hashes, whatever the prover
\* put into the rows.
THEOREM ChainRowsSound == Spec => []ChainEndsExact
<1>1. IInv => ChainEndsExact
  <2> SUFFICES ASSUME IInv, phase = "done", NEW c \in Chain
               PROVE  pk[c] = {PkFromSig(c)}
    BY DEF ChainEndsExact
  <2>1. pk[c] # {} /\ \A n \in pk[c] : n = PkFromSig(c)
    BY DEF IInv, DoneInv, PkInv
  <2> QED BY <2>1
<1> QED BY <1>1, Invariant, PTL

-----------------------------------------------------------------------------
(* Sums: the rows of the pool against those that the digest needs          *)

\* The rows that each chain needs, and those it has: of its runs that ended,
\* and of the run at hand.
Needed == [c \in Chain |-> MaxSteps - coords[c]]
Laid ==
    [c \in Chain |-> closed[c] * (MaxSteps - coords[c])
                     + (IF phase # "done" /\ row > 0 /\ c = last.idx THEN last.count ELSE 0)]

\* Every row is one of some chain, and only a chain with rows has a run.
RowsInv ==
    /\ Total(Laid, Chain) = row
    /\ \A c \in Chain : closed[c] > 0 => Needed[c] > 0
    /\ phase = "digest" => row = 0 /\ honest /\ \A c \in Chain : closed[c] = 0
    /\ phase \in {"rows", "done"} => CoordSum = TargetSum
    /\ phase = "done" => /\ row = ScheduleLen
                         /\ \A c \in Chain : closed[c] > 0 \/ Needed[c] = 0

\* fill_parts lays the rows of the chains in their order.
HonestInv ==
    phase = "rows" /\ honest =>
        /\ row = 0 => \A c \in Chain : closed[c] = 0
        /\ row > 0 =>
              /\ last.count <= Needed[last.idx]
              /\ \A c \in Chain :
                    closed[c] = IF c < last.idx /\ Needed[c] > 0 THEN 1 ELSE 0

\* The chains are a finite set.
LEMMA ChainSet == IsFiniteSet(Chain) /\ Cardinality(Chain) = NumChains /\ Chain \subseteq Nat
BY FS_Interval, ParametersAssumption DEF Chain

\* The types of the counts.
LEMMA CountTypes ==
  ASSUME TypeOK
  PROVE  \A c \in Chain :
            /\ coords[c] \in Nat /\ coords[c] <= MaxSteps /\ closed[c] \in Nat
            /\ Needed[c] \in Nat /\ Needed[c] = MaxSteps - coords[c] /\ Needed[c] = Remaining(c)
            /\ Laid[c] \in Int
            /\ Laid[c] = closed[c] * Needed[c]
                         + (IF phase # "done" /\ row > 0 /\ c = last.idx THEN last.count ELSE 0)
<1> SUFFICES ASSUME NEW c \in Chain
             PROVE  /\ coords[c] \in Nat /\ coords[c] <= MaxSteps /\ closed[c] \in Nat
                    /\ Needed[c] \in Nat /\ Needed[c] = MaxSteps - coords[c]
                    /\ Needed[c] = Remaining(c)
                    /\ Laid[c] \in Int
                    /\ Laid[c] = closed[c] * Needed[c]
                         + (IF phase # "done" /\ row > 0 /\ c = last.idx THEN last.count ELSE 0)
  OBVIOUS
<1>1. coords[c] \in Nat /\ coords[c] <= MaxSteps /\ closed[c] \in Nat /\ last.count \in Nat
  BY ParametersAssumption DEF TypeOK, Coord, Byte
<1>2. Needed[c] = MaxSteps - coords[c] /\ Needed[c] \in Nat /\ Needed[c] = Remaining(c)
  BY <1>1, ParametersAssumption DEF Needed, Remaining
<1>3. Laid[c] = closed[c] * Needed[c]
                + (IF phase # "done" /\ row > 0 /\ c = last.idx THEN last.count ELSE 0)
  BY <1>2 DEF Laid
<1>4. closed[c] * Needed[c] \in Nat
  BY <1>1, <1>2
<1>5. QED
  BY <1>1, <1>2, <1>3, <1>4

\* The sum of the coordinates does not change with the coordinates as they are.
LEMMA CoordSumSame == coords' = coords => CoordSum' = CoordSum
BY DEF CoordSum

\* The coordinates have the target sum exactly when the chains need as many
\* rows as there are.
LEMMA NeededSum ==
  ASSUME TypeOK
  PROVE  Total(Needed, Chain) \in Int /\ (CoordSum = TargetSum <=> Total(Needed, Chain) = ScheduleLen)
<1> DEFINE all == [c \in Chain |-> MaxSteps]
<1>1. \A c \in Chain : coords[c] \in Int /\ Needed[c] \in Int /\ all[c] = coords[c] + Needed[c]
  BY CountTypes, ParametersAssumption
<1>2. Total(all, Chain) = NumChains * MaxSteps
  <2>1. MaxSteps \in Int /\ \A c \in Chain : all[c] = MaxSteps
    BY ParametersAssumption
  <2> HIDE DEF all
  <2>2. QED
    BY <2>1, ChainSet, TotalConstant
<1> HIDE DEF all
<1>3. Total(all, Chain) = Total(coords, Chain) + Total(Needed, Chain)
  BY <1>1, ChainSet, TotalSum
<1>4. Total(coords, Chain) \in Int /\ Total(Needed, Chain) \in Int
  BY <1>1, ChainSet, TotalStep
<1>5. CoordSum = Total(coords, Chain)
  BY DEF CoordSum, SumOf, Total
<1>6. NumChains * MaxSteps \in Int /\ ScheduleLen \in Int
  BY ParametersAssumption
<1>7. QED
  BY <1>2, <1>3, <1>4, <1>5, <1>6 DEF TargetSum

\* What the constraints on a row say of its count.
LEMMA RowCount ==
  ASSUME IInv, NEW r \in [idx : Byte, count : Byte, pos : Byte, in : Inputs], Row(r)
  PROVE  /\ r.idx \in Chain /\ last.idx \in Chain
         /\ row \in Nat /\ row < ScheduleLen /\ row' = row + 1 /\ phase = "rows"
         /\ UNCHANGED <<coords, leftover, phase>>
         /\ last'.idx = r.idx /\ last'.count = r.count
         /\ row > 0 => last.count \in Nat /\ last.count > 0
         /\ row > 0 /\ r.idx = last.idx => r.count = last.count + 1 /\ closed' = closed
         /\ row > 0 /\ r.idx # last.idx =>
               /\ r.count = 1 /\ last.count = Needed[last.idx]
               /\ closed' = [closed EXCEPT ![last.idx] = @ + 1]
         /\ row = 0 => r.count = 1 /\ closed' = closed
<1>1. /\ r.idx \in Chain /\ last.idx \in Chain
      /\ row \in Nat /\ row < ScheduleLen /\ row' = row + 1 /\ phase = "rows"
      /\ UNCHANGED <<coords, leftover, phase>>
      /\ last'.idx = r.idx /\ last'.count = r.count
  BY DEF IInv, TypeOK, Row, RowOk
<1>2. row > 0 => last.count \in 1..row
  BY DEF IInv, RunInv
<1>3. ASSUME row > 0, r.idx = last.idx PROVE r.count = last.count + 1 /\ closed' = closed
  <2>1. r.count = (last.count + 1) % ByteSize /\ closed' = closed
    BY <1>3 DEF Row, RowOk
  <2>2. last.count \in Nat /\ last.count + 1 < ByteSize
    BY <1>1, <1>2, <1>3, ParametersAssumption
  <2>3. (last.count + 1) % ByteSize = last.count + 1
    BY <2>2, ParametersAssumption
  <2>4. QED
    BY <2>1, <2>3
<1>4. ASSUME row > 0, r.idx # last.idx
      PROVE  /\ r.count = 1 /\ last.count = Needed[last.idx]
             /\ closed' = [closed EXCEPT ![last.idx] = @ + 1]
  BY <1>1, <1>4 DEF Row, RowOk, CloseOk, WantCount, Needed
<1>5. row = 0 => r.count = 1 /\ closed' = closed
  BY DEF Row, RowOk
<1>6. QED
  BY <1>1, <1>2, <1>3, <1>4, <1>5

-----------------------------------------------------------------------------

\* Both hold at the start, when there is no row.
LEMMA SumInit == Init => RowsInv /\ HonestInv
<1> SUFFICES ASSUME Init PROVE RowsInv /\ HonestInv
  OBVIOUS
<1>1. TypeOK
  BY InvInit DEF IInv
<1>2. \A c \in Chain : Laid[c] = 0
  <2>1. \A c \in Chain : closed[c] = 0 /\ ~ (row > 0)
    BY DEF Init
  <2>2. ASSUME NEW c \in Chain PROVE Laid[c] = 0
    <3>1. Laid[c] = closed[c] * Needed[c] /\ Needed[c] \in Nat /\ closed[c] = 0
      BY <1>1, <2>1, CountTypes
    <3>2. QED
      BY <3>1
  <2>3. QED
    BY <2>2
<1>3. Total(Laid, Chain) = Cardinality(Chain) * 0
  <2>1. PICK f : f = Laid
    OBVIOUS
  <2>2. IsFiniteSet(Chain) /\ \A c \in Chain : f[c] = 0
    BY <1>2, <2>1, ChainSet
  <2>3. Total(f, Chain) = Cardinality(Chain) * 0
    BY <2>2, TotalConstant
  <2>4. QED
    BY <2>1, <2>3
<1>4. Total(Laid, Chain) = 0
  BY <1>3, ChainSet, ParametersAssumption
<1>5. QED
  BY <1>4 DEF Init, RowsInv, HonestInv

\* The comparison of the sum.
LEMMA SumDigest == ASSUME IInv, RowsInv, Digest PROVE RowsInv' /\ HonestInv'
<1>1. /\ UNCHANGED <<coords, leftover, row, last, pk, closed, honest>>
      /\ phase = "digest" /\ phase' \in {"rows", "unsat"}
      /\ phase' = "rows" => CoordSum = TargetSum
  BY DEF Digest
<1>2. TypeOK /\ TypeOK'
  BY InvDigest DEF IInv
<1>3. \A c \in Chain : Laid[c] \in Int /\ Laid'[c] = Laid[c]
  BY <1>1, <1>2, CountTypes DEF Laid
<1>4. Total(Laid', Chain) = Total(Laid, Chain)
  BY <1>3, ChainSet, TotalEqual
<1>5. Needed' = Needed /\ CoordSum' = CoordSum
  BY <1>1, CoordSumSame DEF Needed
<1>6. QED
  BY <1>1, <1>4, <1>5 DEF RowsInv, HonestInv, TargetSum

\* A row, of whichever chain, is one row more.
LEMMA SumRow ==
  ASSUME IInv, RowsInv, NEW r \in [idx : Byte, count : Byte, pos : Byte, in : Inputs], Row(r)
  PROVE  RowsInv'
<1>1. TypeOK
  BY DEF IInv
<1>2. PICK i \in Chain : i = r.idx
  BY RowCount
<1>3. PICK l \in Chain : l = last.idx
  BY RowCount
<1>4. /\ coords' = coords /\ phase = "rows" /\ phase' = "rows" /\ row \in Nat /\ row' = row + 1
      /\ last'.idx = i /\ last'.count = r.count
      /\ row > 0 => last.count \in Nat /\ last.count > 0
      /\ row > 0 /\ i = l => r.count = last.count + 1 /\ closed' = closed
      /\ row > 0 /\ i # l =>
            /\ r.count = 1 /\ last.count = Needed[l]
            /\ closed' = [closed EXCEPT ![l] = @ + 1]
      /\ row = 0 => r.count = 1 /\ closed' = closed
  BY <1>2, <1>3, RowCount
<1>5. /\ closed \in [Chain -> Nat]
      /\ \A c \in Chain :
            Laid[c] = closed[c] * Needed[c] + (IF row > 0 /\ c = l THEN last.count ELSE 0)
  BY <1>1, <1>3, <1>4, CountTypes DEF TypeOK
<1>6. \A c \in Chain :
         Laid'[c] = closed'[c] * Needed[c] + (IF c = i THEN r.count ELSE 0)
  <2>1. ASSUME NEW c \in Chain
        PROVE  Laid'[c] = closed'[c] * Needed[c] + (IF c = i THEN r.count ELSE 0)
    <3>1. Laid'[c] = closed'[c] * (MaxSteps - coords'[c])
                     + (IF phase' # "done" /\ row' > 0 /\ c = last'.idx THEN last'.count ELSE 0)
      BY DEF Laid
    <3>2. row' > 0 /\ phase' # "done"
      BY <1>4
    <3>3. MaxSteps - coords'[c] = Needed[c]
      BY <1>4 DEF Needed
    <3>4. QED
      BY <1>4, <3>1, <3>2, <3>3
  <2>2. QED
    BY <2>1
<1>7. \A c \in Chain : Needed[c] \in Nat /\ closed[c] * Needed[c] \in Nat
  <2>1. ASSUME NEW c \in Chain PROVE Needed[c] \in Nat /\ closed[c] * Needed[c] \in Nat
    <3>1. Needed[c] \in Nat /\ closed[c] \in Nat
      BY <1>1, CountTypes
    <3>2. QED
      BY <3>1
  <2>2. QED
    BY <2>1
<1>8. Laid'[i] = Laid[i] + 1 /\ \A c \in Chain \ {i} : Laid'[c] = Laid[c]
  <2>1. CASE row = 0
    <3>1. closed' = closed /\ r.count = 1 /\ ~ (row > 0)
      BY <1>4, <2>1
    <3>2. \A c \in Chain : Laid[c] = closed[c] * Needed[c]
      <4>1. ASSUME NEW c \in Chain PROVE Laid[c] = closed[c] * Needed[c]
        <5>1. Laid[c] = closed[c] * Needed[c] + 0
          BY <1>5, <3>1
        <5>2. QED
          BY <1>7, <5>1
      <4>2. QED
        BY <4>1
    <3>3. \A c \in Chain : Laid'[c] = Laid[c] + (IF c = i THEN 1 ELSE 0)
      BY <1>6, <3>1, <3>2
    <3>4. QED
      BY <1>7, <3>2, <3>3
  <2>2. CASE row > 0 /\ i = l
    <3>1. /\ closed' = closed /\ r.count = last.count + 1 /\ last.count \in Nat /\ row > 0
          /\ i = l
      BY <1>4, <2>2
    <3>2. \A c \in Chain : Laid[c] = closed[c] * Needed[c] + (IF c = i THEN last.count ELSE 0)
      BY <1>5, <3>1
    <3>3. \A c \in Chain : Laid'[c] = closed[c] * Needed[c] + (IF c = i THEN last.count + 1 ELSE 0)
      BY <1>6, <3>1
    <3>4. Laid'[i] = Laid[i] + 1
      BY <1>7, <3>1, <3>2, <3>3
    <3>5. \A c \in Chain \ {i} : Laid'[c] = Laid[c]
      BY <3>2, <3>3
    <3>6. QED
      BY <3>4, <3>5
  <2>3. CASE row > 0 /\ i # l
    <3>1. closed'[l] = closed[l] + 1 /\ \A c \in Chain \ {l} : closed'[c] = closed[c]
      BY <1>4, <1>5, <2>3
    <3>2. closed'[l] * Needed[l] = closed[l] * Needed[l] + Needed[l]
      <4>1. closed[l] \in Int /\ Needed[l] \in Int
        BY <1>5, <1>7
      <4>2. QED
        BY <3>1, <4>1
    <3>3. Laid'[l] = Laid[l]
      BY <1>4, <1>5, <1>6, <1>7, <2>3, <3>2
    <3>4. Laid'[i] = Laid[i] + 1
      BY <1>4, <1>5, <1>6, <1>7, <2>3, <3>1
    <3>5. \A c \in Chain \ {i, l} : Laid'[c] = Laid[c]
      BY <1>5, <1>6, <1>7, <2>3, <3>1
    <3>6. QED
      BY <3>3, <3>4, <3>5
  <2>4. QED
    BY <1>4, <2>1, <2>2, <2>3
<1>9. Total(Laid', Chain) = Total(Laid, Chain) + 1
  <2>1. \A c \in Chain : Laid[c] \in Int
    BY <1>1, CountTypes
  <2>2. QED
    BY <1>8, <2>1, ChainSet, TotalIncrement
<1>10. \A c \in Chain : closed'[c] > 0 => Needed[c] > 0
  <2>1. \A c \in Chain : closed[c] > 0 => Needed[c] > 0
    BY DEF RowsInv
  <2>2. \A c \in Chain : closed'[c] # closed[c] => row > 0 /\ i # l /\ c = l
    BY <1>4, <1>5
  <2>3. QED
    BY <1>4, <2>1, <2>2
<1>11. Needed' = Needed /\ CoordSum' = CoordSum
  BY <1>4, CoordSumSame DEF Needed
<1>12. QED
  BY <1>4, <1>9, <1>10, <1>11 DEF RowsInv, TargetSum

\* The end of the last run: its rows are now those of a run that ended.
LEMMA SumFinish == ASSUME IInv, RowsInv, Finish PROVE RowsInv' /\ HonestInv'
<1>1. /\ UNCHANGED <<coords, leftover, row, last, honest>>
      /\ phase = "rows" /\ phase' = "done" /\ row = ScheduleLen /\ row > 0
      /\ CloseOk /\ FinishOk
      /\ closed' = [closed EXCEPT ![last.idx] = @ + 1]
      /\ TypeOK /\ TypeOK' /\ RunInv
  BY InvFinish, ParametersAssumption DEF Finish, FinishOk, IInv
<1>2. PICK l \in Chain : l = last.idx
  BY <1>1 DEF TypeOK
<1>3. /\ closed'[l] = closed[l] + 1 /\ \A c \in Chain \ {l} : closed'[c] = closed[c]
      /\ last.count = Needed[l] /\ last.count > 0
  <2>1. closed'[l] = closed[l] + 1 /\ \A c \in Chain \ {l} : closed'[c] = closed[c]
    BY <1>1, <1>2 DEF TypeOK
  <2>2. last.count = Needed[l] /\ last.count \in 1..row
    BY <1>1, <1>2 DEF CloseOk, WantCount, Needed, RunInv
  <2>3. QED
    BY <1>1, <2>1, <2>2
<1>4. \A c \in Chain :
         /\ Laid[c] = closed[c] * Needed[c] + (IF c = l THEN last.count ELSE 0)
         /\ Needed[c] \in Nat /\ closed[c] \in Nat /\ Laid[c] \in Int
         /\ Needed[c] = MaxSteps - coords[c]
  BY <1>1, <1>2, CountTypes
<1>5. \A c \in Chain : Laid'[c] = closed'[c] * Needed[c] + 0
  <2>1. ASSUME NEW c \in Chain PROVE Laid'[c] = closed'[c] * Needed[c] + 0
    <3>1. Laid'[c] = closed'[c] * (MaxSteps - coords'[c])
                     + (IF phase' # "done" /\ row' > 0 /\ c = last'.idx THEN last'.count ELSE 0)
      BY DEF Laid
    <3>2. QED
      BY <1>1, <1>4, <3>1
  <2>2. QED
    BY <2>1
<1>6. ASSUME NEW c \in Chain PROVE Laid'[c] = Laid[c]
  <2>1. CASE c = l
    <3>1. closed'[l] * Needed[l] = closed[l] * Needed[l] + Needed[l]
      <4>1. closed[l] \in Int /\ Needed[l] \in Int
        BY <1>4
      <4>2. QED
        BY <1>3, <4>1
    <3>2. closed[l] * Needed[l] \in Int /\ Needed[l] \in Int
      BY <1>4
    <3>3. QED
      BY <1>3, <1>4, <1>5, <2>1, <3>1, <3>2
  <2>2. CASE c # l
    BY <1>3, <1>4, <1>5, <2>2
  <2>3. QED
    BY <2>1, <2>2
<1>7. Total(Laid', Chain) = Total(Laid, Chain)
  BY <1>4, <1>6, ChainSet, TotalEqual
<1>8. Needed' = Needed /\ CoordSum' = CoordSum
  BY <1>1, CoordSumSame DEF Needed
<1>9. \A c \in Chain : (closed'[c] > 0 => Needed[c] > 0) /\ (closed'[c] > 0 \/ Needed[c] = 0)
  <2>1. ASSUME NEW c \in Chain
        PROVE  (closed'[c] > 0 => Needed[c] > 0) /\ (closed'[c] > 0 \/ Needed[c] = 0)
    <3>1. c = l \/ closed[c] > 0 \/ coords[c] = MaxSteps
      BY <1>1, <1>2 DEF FinishOk
    <3>2. closed[c] > 0 => Needed[c] > 0
      BY DEF RowsInv
    <3>3. coords[c] \in Nat /\ (coords[c] = MaxSteps => Needed[c] = 0)
      BY <1>1, <1>4, CountTypes
    <3>4. QED
      BY <1>3, <1>4, <3>1, <3>2, <3>3
  <2>2. QED
    BY <2>1
<1>10. QED
  BY <1>1, <1>7, <1>8, <1>9 DEF RowsInv, HonestInv, TargetSum

\* Every step keeps the count of the rows.
LEMMA RowsNext == IInv /\ RowsInv /\ [Next]_vars => RowsInv'
<1> SUFFICES ASSUME IInv, RowsInv, [Next]_vars PROVE RowsInv'
  OBVIOUS
<1>1. CASE UNCHANGED vars
  <2>1. UNCHANGED <<coords, phase, row, last, closed, honest>>
    BY <1>1 DEF vars
  <2>2. UNCHANGED <<Needed, Laid>> /\ CoordSum' = CoordSum
    BY <2>1, CoordSumSame DEF Needed, Laid
  <2>3. QED
    BY <2>1, <2>2 DEF RowsInv, TargetSum
<1>2. QED
  BY <1>1, SumDigest, SumRow, SumFinish DEF Next

\* With as many rows as the digest needs, no chain can have more than its own.
LEMMA OnceFromInv == IInv /\ RowsInv => EachChainOnce
<1> SUFFICES ASSUME IInv, RowsInv, phase = "done", NEW c \in Chain
             PROVE  closed[c] = IF Remaining(c) = 0 THEN 0 ELSE 1
  BY DEF EachChainOnce
<1>1. TypeOK
  BY DEF IInv
<1>2. \A d \in Chain : /\ Laid[d] = closed[d] * Needed[d] /\ Laid[d] \in Int
                       /\ Needed[d] \in Nat /\ closed[d] \in Nat /\ Needed[d] = Remaining(d)
                       /\ closed[d] > 0 \/ Needed[d] = 0
  <2>1. ASSUME NEW d \in Chain
        PROVE  /\ Laid[d] = closed[d] * Needed[d] /\ Laid[d] \in Int
               /\ Needed[d] \in Nat /\ closed[d] \in Nat /\ Needed[d] = Remaining(d)
               /\ closed[d] > 0 \/ Needed[d] = 0
    <3>1. /\ Laid[d] = closed[d] * Needed[d] + 0 /\ Laid[d] \in Int
          /\ Needed[d] \in Nat /\ closed[d] \in Nat /\ Needed[d] = Remaining(d)
      BY <1>1, CountTypes
    <3>2. closed[d] > 0 \/ Needed[d] = 0
      BY DEF RowsInv
    <3>3. closed[d] * Needed[d] \in Nat
      BY <3>1
    <3>4. QED
      BY <3>1, <3>2, <3>3
  <2>2. QED
    BY <2>1
<1>3. \A d \in Chain : Needed[d] \in Int /\ Laid[d] \in Int /\ Needed[d] <= Laid[d]
  <2>1. ASSUME NEW d \in Chain PROVE Needed[d] <= Laid[d]
    <3>1. PICK n \in Nat, k \in Nat : n = Needed[d] /\ k = closed[d]
      BY <1>2
    <3>2. Laid[d] = k * n /\ (k > 0 \/ n = 0)
      BY <1>2, <3>1
    <3>3. k * n >= n
      <4>1. CASE n = 0
        BY <4>1
      <4>2. CASE k > 0
        <5>1. PICK j \in Nat : k = j + 1
          <6>1. k - 1 \in Nat /\ k = (k - 1) + 1
            BY <4>2
          <6>2. QED
            BY <6>1
        <5>2. (j + 1) * n = j * n + n /\ j * n \in Nat
          OBVIOUS
        <5>3. QED
          BY <5>1, <5>2
      <4>3. QED
        BY <3>2, <4>1, <4>2
    <3>4. QED
      BY <3>1, <3>2, <3>3
  <2>2. QED
    BY <1>2, <2>1
<1>4. Total(Needed, Chain) = Total(Laid, Chain)
  <2>1. Total(Laid, Chain) = ScheduleLen /\ CoordSum = TargetSum
    BY DEF RowsInv
  <2>2. QED
    BY <1>1, <2>1, NeededSum
<1>5. \A d \in Chain : Needed[d] = Laid[d]
  <2>1. PICK f, g : f = Needed /\ g = Laid
    OBVIOUS
  <2>2. IsFiniteSet(Chain) /\ \A d \in Chain : f[d] \in Int /\ g[d] \in Int /\ f[d] <= g[d]
    BY <1>3, <2>1, ChainSet
  <2>3. Total(f, Chain) = Total(g, Chain)
    BY <1>4, <2>1
  <2>4. \A d \in Chain : f[d] = g[d]
    BY <2>2, <2>3, TotalBelow
  <2>5. QED
    BY <2>1, <2>4
<1>6. PICK n \in Nat, k \in Nat : n = Needed[c] /\ k = closed[c]
  BY <1>2
<1>7. k * n = n /\ n = Remaining(c)
  BY <1>2, <1>5, <1>6
<1>8. n # 0 => k = 1
  <2>1. ASSUME n # 0 PROVE k = 1
    <3>1. k # 0
      BY <1>7, <2>1
    <3>2. ASSUME k > 1 PROVE FALSE
      <4>1. PICK j \in Nat : k = j + 2
        <5>1. k - 2 \in Nat /\ k = (k - 2) + 2
          BY <3>2
        <5>2. QED
          BY <5>1
      <4>2. (j + 2) * n = j * n + n + n /\ j * n \in Nat
        OBVIOUS
      <4>3. PICK m \in Nat : m = j * n
        BY <4>2
      <4>4. m + n + n = n
        BY <1>7, <4>1, <4>2, <4>3
      <4>5. QED
        BY <2>1, <4>4
    <3>3. QED
      BY <3>1, <3>2
  <2>2. QED
    BY <2>1
<1>9. n = 0 => k = 0
  <2>1. closed[c] > 0 => Needed[c] > 0
    BY DEF RowsInv
  <2>2. QED
    BY <1>6, <2>1
<1>10. QED
  BY <1>6, <1>7, <1>8, <1>9

\* The count of the rows holds throughout.
LEMMA RowsInvariant == Spec => [](IInv /\ RowsInv)
BY InvInit, InvNext, SumInit, RowsNext, PTL DEF Spec

(***************************************************************************)
(* The target sum leaves no row over: in a satisfied statement each chain  *)
(* that needs steps has exactly one run of rows and one that needs none    *)
(* has no row, whatever the prover put into them.                          *)
(***************************************************************************)
THEOREM RowsLeaveNothingOver == Spec => []EachChainOnce
BY RowsInvariant, OnceFromInv, PTL

-----------------------------------------------------------------------------
(* The honest witness                                                      *)

\* A set of naturals that is not empty has a least element.
LEMMA LeastOf ==
  ASSUME NEW S \in SUBSET Nat, S # {}
  PROVE  Min(S) \in S /\ \A y \in S : Min(S) <= y
<1>1. PICK x \in S : \A y \in S : ~ (<<y, x>> \in OpToRel(<, Nat))
  <2>1. IsWellFoundedOn(OpToRel(<, Nat), Nat)
    BY NatLessThanWellFounded
  <2>2. QED
    BY <2>1, WFMin
<1>2. \A y \in S : x <= y
  <2>1. \A y \in S : ~ (y < x)
    BY <1>1 DEF OpToRel
  <2>2. \A y \in S : y \in Nat /\ x \in Nat
    OBVIOUS
  <2>3. QED
    BY <2>1, <2>2
<1>3. QED
  BY <1>2 DEF Min

\* While the rows are those of fill_parts, no chain has more than it needs.
LEMMA HonestRows ==
  ASSUME IInv, RowsInv, HonestInv, phase = "rows", honest
  PROVE  /\ \A c \in Chain : /\ Needed[c] \in Int /\ Laid[c] \in Int /\ Laid[c] <= Needed[c]
                             /\ Laid[c] = IF row > 0 /\ c = last.idx THEN last.count
                                          ELSE IF row > 0 /\ c < last.idx THEN Needed[c] ELSE 0
         /\ row = ScheduleLen <=> \A c \in Chain : Laid[c] = Needed[c]
<1>1. TypeOK /\ last.idx \in Chain /\ last.count \in Nat /\ row \in Nat
  BY DEF IInv, TypeOK, Byte
<1>2. /\ row = 0 => \A c \in Chain : closed[c] = 0
      /\ row > 0 => /\ last.count <= Needed[last.idx]
                    /\ \A c \in Chain :
                          closed[c] = IF c < last.idx /\ Needed[c] > 0 THEN 1 ELSE 0
  BY DEF HonestInv
<1>3. ASSUME NEW c \in Chain
      PROVE  /\ Needed[c] \in Int /\ Laid[c] \in Int /\ Laid[c] <= Needed[c]
             /\ Laid[c] = IF row > 0 /\ c = last.idx THEN last.count
                          ELSE IF row > 0 /\ c < last.idx THEN Needed[c] ELSE 0
  <2>1. /\ Needed[c] \in Nat /\ Laid[c] \in Int
        /\ Laid[c] = closed[c] * Needed[c]
                     + (IF row > 0 /\ c = last.idx THEN last.count ELSE 0)
    BY <1>1, CountTypes
  <2>2. /\ closed[c] = 0 => closed[c] * Needed[c] = 0
        /\ closed[c] = 1 => closed[c] * Needed[c] = Needed[c]
    BY <2>1
  <2>3. c \in Nat /\ last.idx \in Nat
    BY <1>1, ChainSet
  <2>4. CASE row = 0
    <3>1. closed[c] = 0 /\ ~ (row > 0)
      BY <1>2, <2>4
    <3>2. QED
      BY <2>1, <2>2, <3>1
  <2>5. CASE row > 0
    <3>1. /\ last.count <= Needed[last.idx]
          /\ closed[c] = IF c < last.idx /\ Needed[c] > 0 THEN 1 ELSE 0
      BY <1>2, <2>5
    <3>2. CASE c = last.idx
      <4>1. closed[c] = 0
        BY <2>3, <3>1, <3>2
      <4>2. QED
        BY <1>1, <2>1, <2>2, <2>5, <3>1, <3>2, <4>1
    <3>3. CASE c < last.idx
      <4>1. c # last.idx
        BY <2>3, <3>3
      <4>2. Laid[c] = Needed[c]
        BY <2>1, <2>2, <3>1, <3>3, <4>1
      <4>3. QED
        BY <2>1, <2>5, <3>3, <4>1, <4>2
    <3>4. CASE c > last.idx
      <4>1. c # last.idx /\ ~ (c < last.idx)
        BY <2>3, <3>4
      <4>2. closed[c] = 0
        BY <3>1, <4>1
      <4>3. QED
        BY <2>1, <2>2, <4>1, <4>2
    <3>5. QED
      BY <2>3, <3>2, <3>3, <3>4
  <2>6. QED
    BY <1>1, <2>4, <2>5
<1>4. Total(Laid, Chain) = row /\ Total(Needed, Chain) = ScheduleLen
  <2>1. Total(Laid, Chain) = row /\ CoordSum = TargetSum
    BY DEF RowsInv
  <2>2. QED
    BY <1>1, <2>1, NeededSum
<1>5. PICK f, g : f = Laid /\ g = Needed
  OBVIOUS
<1>6. IsFiniteSet(Chain) /\ \A c \in Chain : f[c] \in Int /\ g[c] \in Int /\ f[c] <= g[c]
  BY <1>3, <1>5, ChainSet
<1>7. Total(f, Chain) = Total(g, Chain) => \A c \in Chain : f[c] = g[c]
  BY <1>6, TotalBelow
<1>8. (\A c \in Chain : f[c] = g[c]) => Total(f, Chain) = Total(g, Chain)
  BY <1>6, TotalEqual
<1>9. QED
  BY <1>3, <1>4, <1>5, <1>7, <1>8

\* Where fill_parts goes on: with the run at hand, or with the next chain.
LEMMA NextRow ==
  ASSUME IInv, RowsInv, HonestInv, phase = "rows", honest
  PROVE  /\ Continues => row > 0 /\ last.count + 1 <= Needed[last.idx]
         /\ ~ Continues /\ row > 0 => last.count = Needed[last.idx]
         /\ \A c \in Chain : c \in Ahead <=> Needed[c] > 0 /\ (row > 0 => c > last.idx)
         /\ Ahead # {} => /\ Min(Ahead) \in Ahead
                          /\ \A c \in Ahead : Min(Ahead) <= c
<1>1. TypeOK /\ last.idx \in Chain /\ last.count \in Nat
  BY DEF IInv, TypeOK, Byte
<1>2. \A c \in Chain : Needed[c] \in Nat /\ Needed[c] = Remaining(c)
  BY <1>1, CountTypes
<1>3. row > 0 => last.count <= Needed[last.idx]
  BY DEF HonestInv
<1>4. /\ Continues => row > 0 /\ last.count + 1 <= Needed[last.idx]
      /\ ~ Continues /\ row > 0 => last.count = Needed[last.idx]
  BY <1>1, <1>2, <1>3 DEF Continues
<1>5. \A c \in Chain : c \in Ahead <=> Needed[c] > 0 /\ (row > 0 => c > last.idx)
  BY <1>2 DEF Ahead
<1>6. Ahead \in SUBSET Nat
  BY ChainSet DEF Ahead
<1>7. QED
  BY <1>4, <1>5, <1>6, LeastOf

\* An honest row keeps the order.
LEMMA HonestRowStep ==
  ASSUME IInv, RowsInv, HonestInv,
         NEW r \in [idx : Byte, count : Byte, pos : Byte, in : Inputs], Row(r)
  PROVE  HonestInv'
<1> SUFFICES ASSUME honest' PROVE HonestInv'
  BY DEF HonestInv
<1>1. honest /\ (Continues \/ Ahead # {}) /\ r = HonestRow
  BY DEF Row
<1>2. TypeOK /\ closed \in [Chain -> Nat]
  BY DEF IInv, TypeOK
<1>3. PICK i \in Chain : i = r.idx
  BY RowCount
<1>4. PICK l \in Chain : l = last.idx
  BY RowCount
<1>5. /\ coords' = coords /\ phase = "rows" /\ phase' = "rows" /\ row \in Nat /\ row' = row + 1
      /\ last'.idx = i /\ last'.count = r.count
      /\ row > 0 => last.count \in Nat /\ last.count > 0
      /\ row > 0 /\ i = l => r.count = last.count + 1 /\ closed' = closed
      /\ row > 0 /\ i # l =>
            /\ r.count = 1 /\ last.count = Needed[l]
            /\ closed' = [closed EXCEPT ![l] = @ + 1]
      /\ row = 0 => r.count = 1 /\ closed' = closed
  BY <1>3, <1>4, RowCount
<1>6. Needed' = Needed
  BY <1>5 DEF Needed
<1>7. /\ \A c \in Chain : Needed[c] \in Nat /\ c \in Nat
      /\ row > 0 => \A c \in Chain : closed[c] = IF c < l /\ Needed[c] > 0 THEN 1 ELSE 0
      /\ row = 0 => \A c \in Chain : closed[c] = 0
  BY <1>1, <1>2, <1>4, <1>5, CountTypes, ChainSet DEF HonestInv
<1>8. /\ Continues => row > 0 /\ last.count + 1 <= Needed[l]
      /\ \A c \in Chain : c \in Ahead <=> Needed[c] > 0 /\ (row > 0 => c > l)
      /\ Ahead # {} => /\ Min(Ahead) \in Ahead
                       /\ \A c \in Ahead : Min(Ahead) <= c
  BY <1>1, <1>4, <1>5, NextRow
<1>9. /\ r.count <= Needed[i]
      /\ \A c \in Chain : closed'[c] = IF c < i /\ Needed[c] > 0 THEN 1 ELSE 0
  <2>1. CASE Continues
    <3>1. i = l /\ r.count = last.count + 1
      BY <1>1, <1>3, <1>4, <2>1 DEF HonestRow
    <3>2. QED
      BY <1>5, <1>7, <1>8, <2>1, <3>1
  <2>2. CASE ~ Continues
    <3>1. i = Min(Ahead) /\ r.count = 1 /\ Ahead # {}
      BY <1>1, <1>3, <2>2 DEF HonestRow
    <3>2. i \in Ahead /\ \A c \in Ahead : i <= c
      BY <1>8, <3>1
    <3>3. Needed[i] > 0 /\ (row > 0 => i > l)
      BY <1>8, <3>2
    <3>4. \A c \in Chain : c < i /\ Needed[c] > 0 => row > 0 /\ c <= l
      BY <1>5, <1>7, <1>8, <3>2
    <3>5. r.count <= Needed[i]
      BY <1>7, <3>1, <3>3
    <3>6. CASE row = 0
      <4>1. \A c \in Chain : ~ (c < i /\ Needed[c] > 0)
        BY <3>4, <3>6
      <4>2. QED
        BY <1>5, <1>7, <3>5, <3>6, <4>1
    <3>7. CASE row > 0
      <4>1. i # l /\ i > l /\ Needed[l] > 0
        BY <1>5, <1>7, <3>3, <3>7
      <4>2. closed'[l] = closed[l] + 1 /\ \A c \in Chain \ {l} : closed'[c] = closed[c]
        BY <1>2, <1>5, <3>7, <4>1
      <4>3. \A c \in Chain : closed[c] = IF c < l /\ Needed[c] > 0 THEN 1 ELSE 0
        BY <1>7, <3>7
      <4>4. closed'[l] = 1
        BY <1>7, <4>2, <4>3
      <4>5. \A c \in Chain \ {l} : (c < i /\ Needed[c] > 0) <=> (c < l /\ Needed[c] > 0)
        BY <1>7, <3>4, <4>1
      <4>6. \A c \in Chain \ {l} : closed'[c] = IF c < i /\ Needed[c] > 0 THEN 1 ELSE 0
        BY <4>2, <4>3, <4>5
      <4>7. QED
        BY <3>5, <4>1, <4>4, <4>6
    <3>8. QED
      BY <1>5, <3>6, <3>7
  <2>3. QED
    BY <2>1, <2>2
<1>10. row' > 0 /\ row' # 0
  BY <1>5
<1>11. QED
  BY <1>5, <1>6, <1>9, <1>10 DEF HonestInv

\* Every step keeps both invariants.
LEMMA SumNext == IInv /\ RowsInv /\ HonestInv /\ [Next]_vars => RowsInv' /\ HonestInv'
<1> SUFFICES ASSUME IInv, RowsInv, HonestInv, [Next]_vars PROVE RowsInv' /\ HonestInv'
  OBVIOUS
<1>1. RowsInv'
  BY RowsNext
<1>2. HonestInv'
  <2>1. CASE UNCHANGED vars
    <3>1. UNCHANGED <<coords, phase, row, last, closed, honest>>
      BY <2>1 DEF vars
    <3>2. Needed' = Needed
      BY <3>1 DEF Needed
    <3>3. QED
      BY <3>1, <3>2 DEF HonestInv
  <2>2. QED
    BY <2>1, SumDigest, HonestRowStep, SumFinish DEF Next
<1>3. QED
  BY <1>1, <1>2

\* They hold throughout.
LEMMA SumInvariant == Spec => [](IInv /\ RowsInv /\ HonestInv)
BY InvInit, InvNext, SumInit, SumNext, PTL DEF Spec

\* A run that may end meets what the constraints already say of its end.
LEMMA CloseMeets ==
  ASSUME IInv, row > 0, last.count = Needed[last.idx]
  PROVE  CloseOk
<1>1. TypeOK /\ last.idx \in Chain
  BY DEF IInv, TypeOK
<1>2. last.count = MaxSteps - coords[last.idx]
  BY <1>1, CountTypes
<1>3. last.out = PkFromSig(last.idx)
  BY <1>2, CloseIsExact
<1>4. \A n \in pk[last.idx] : n = last.out
  BY <1>1, <1>3 DEF IInv, PkInv
<1>5. QED
  BY <1>2, <1>4 DEF CloseOk, WantCount

\* The constraints hold of the row that fill_parts writes.
LEMMA HonestRowFits ==
  ASSUME IInv, RowsInv, HonestInv, phase = "rows", honest, Continues \/ Ahead # {}
  PROVE  RowOk(HonestRow)
<1>1. TypeOK /\ last.idx \in Chain /\ last.count \in Nat /\ row \in Nat
  BY DEF IInv, TypeOK, Byte
<1>2. \A c \in Chain : /\ coords[c] \in Nat /\ Needed[c] = MaxSteps - coords[c] /\ c \in Nat
                       /\ Needed[c] \in Nat
  BY <1>1, CountTypes, ChainSet
<1>3. \A m \in 0..MaxSteps : m % ByteSize = m
  BY ParametersAssumption
<1>4. CASE Continues
  <2>1. HonestRow = [idx |-> last.idx, count |-> last.count + 1,
                     pos |-> coords[last.idx] + last.count + 1, in |-> last.out]
    BY <1>4 DEF HonestRow
  <2>2. row > 0 /\ last.count \in 1..row /\ last.count + 1 <= Needed[last.idx]
    BY <1>4, NextRow DEF IInv, RunInv
  <2>3. /\ last.count + 1 \in 0..MaxSteps
        /\ coords[last.idx] + last.count + 1 \in 0..MaxSteps
        /\ (last.count + 1) + coords[last.idx] = coords[last.idx] + last.count + 1
        /\ last.count + 1 # 1
    BY <1>1, <1>2, <2>2, ParametersAssumption
  <2>4. /\ (last.count + 1) % ByteSize = last.count + 1
        /\ ((last.count + 1) + coords[last.idx]) % ByteSize = coords[last.idx] + last.count + 1
    BY <1>3, <2>3
  <2>5. QED
    BY <1>1, <2>1, <2>2, <2>3, <2>4 DEF RowOk
<1>5. CASE ~ Continues
  <2>1. PICK i : i = Min(Ahead)
    OBVIOUS
  <2>2. HonestRow = [idx |-> i, count |-> 1, pos |-> coords[i] + 1, in |-> Sig(i)]
    BY <1>5, <2>1 DEF HonestRow
  <2>3. i \in Ahead /\ i \in Chain
    <3>1. i \in Ahead
      BY <1>5, <2>1, NextRow
    <3>2. QED
      BY <3>1 DEF Ahead
  <2>4. Needed[i] > 0 /\ (row > 0 => i > last.idx)
    BY <2>3, NextRow
  <2>5. coords[i] + 1 \in 0..MaxSteps /\ 1 + coords[i] = coords[i] + 1
    BY <1>2, <2>3, <2>4, ParametersAssumption
  <2>6. (1 + coords[i]) % ByteSize = coords[i] + 1
    BY <1>3, <2>5
  <2>7. row > 0 => i # last.idx /\ CloseOk
    <3>1. row > 0 => i # last.idx
      BY <1>1, <1>2, <2>3, <2>4
    <3>2. row > 0 => CloseOk
      BY <1>5, NextRow, CloseMeets
    <3>3. QED
      BY <3>1, <3>2
  <2>8. QED
    BY <2>2, <2>3, <2>6, <2>7 DEF RowOk
<1>6. QED
  BY <1>4, <1>5

\* After the last row the whole statement holds.
LEMMA HonestFinishFits ==
  ASSUME IInv, RowsInv, HonestInv, phase = "rows", honest, row = ScheduleLen
  PROVE  FinishOk /\ Ahead = {} /\ ~ Continues
<1>1. TypeOK /\ last.idx \in Chain /\ last.count \in Nat /\ row > 0 /\ last.count > 0
  BY ParametersAssumption DEF IInv, TypeOK, Byte, RunInv
<1>2. \A c \in Chain : Needed[c] = IF c = last.idx THEN last.count
                                   ELSE IF c < last.idx THEN Needed[c] ELSE 0
  BY <1>1, HonestRows
<1>3. last.count = Needed[last.idx]
  BY <1>1, <1>2
<1>4. \A c \in Chain : c > last.idx => Needed[c] = 0
  <2>1. \A c \in Chain : c \in Nat /\ last.idx \in Nat
    BY <1>1, ChainSet
  <2>2. QED
    BY <1>2, <2>1
<1>5. ~ Continues
  <2>1. Continues => last.count + 1 <= Needed[last.idx]
    BY NextRow
  <2>2. QED
    BY <1>1, <1>3, <2>1
<1>6. Ahead = {}
  <2>1. \A c \in Chain : c \notin Ahead
    BY <1>1, <1>4, NextRow
  <2>2. Ahead \subseteq Chain
    BY DEF Ahead
  <2>3. QED
    BY <2>1, <2>2
<1>7. CloseOk
  BY <1>1, <1>3, CloseMeets
<1>8. \A c \in Chain : c = last.idx \/ closed[c] > 0 \/ coords[c] = MaxSteps
  <2>1. ASSUME NEW c \in Chain, c # last.idx, coords[c] # MaxSteps PROVE closed[c] > 0
    <3>1. Needed[c] # 0 /\ Needed[c] \in Nat /\ c \in Nat /\ last.idx \in Nat
      <4>1. coords[c] \in Nat /\ Needed[c] \in Nat /\ Needed[c] = MaxSteps - coords[c]
        BY <1>1, CountTypes
      <4>2. Needed[c] # 0
        BY <2>1, <4>1, ParametersAssumption
      <4>3. c \in Nat /\ last.idx \in Nat
        BY <1>1, ChainSet
      <4>4. QED
        BY <4>1, <4>2, <4>3
    <3>2. c < last.idx /\ Needed[c] > 0
      BY <1>4, <2>1, <3>1
    <3>3. closed[c] = 1
      BY <1>1, <3>2 DEF HonestInv
    <3>4. QED
      BY <3>3
  <2>2. QED
    BY <2>1
<1>9. \A c \in Chain : coords[c] = MaxSteps => Closed[c] \subseteq {Sig(c)}
  <2>1. ASSUME NEW c \in Chain, coords[c] = MaxSteps, NEW n \in Closed[c] PROVE n = Sig(c)
    <3>1. n = PkFromSig(c)
      BY <1>1, <1>7, <2>1, CloseStep
    <3>2. QED
      BY <1>1, <2>1, <3>1, ZeroChain
  <2>2. QED
    BY <2>1
<1>10. QED
  BY <1>5, <1>6, <1>7, <1>8, <1>9 DEF FinishOk

(***************************************************************************)
(* Completeness of the rows: on every digest that extract_coords and       *)
(* grind_nonce accept, fill_parts finds a row for every slot, each of them *)
(* satisfies the constraints, and after the last the statement holds.      *)
(***************************************************************************)
THEOREM HonestRowsFit == Spec => []HonestWitnessHolds
<1>1. ASSUME IInv, RowsInv, HonestInv PROVE HonestWitnessHolds
  <2> SUFFICES ASSUME phase = "rows", honest
               PROVE  IF row < ScheduleLen
                      THEN (Continues \/ Ahead # {}) /\ RowOk(HonestRow)
                      ELSE FinishOk /\ Ahead = {} /\ ~Continues
    BY DEF HonestWitnessHolds
  <2>1. row \in 0..ScheduleLen /\ ScheduleLen \in Nat /\ last.idx \in Chain /\ TypeOK
    BY <1>1, ParametersAssumption DEF IInv, TypeOK
  <2>2. CASE row < ScheduleLen
    <3>1. PICK c \in Chain : Laid[c] # Needed[c]
      BY <1>1, <2>1, <2>2, HonestRows
    <3>2. /\ Needed[c] \in Int /\ Laid[c] \in Int /\ Laid[c] <= Needed[c]
          /\ Laid[c] = IF row > 0 /\ c = last.idx THEN last.count
                       ELSE IF row > 0 /\ c < last.idx THEN Needed[c] ELSE 0
      BY <1>1, HonestRows
    <3>3. c \in Nat /\ last.idx \in Nat /\ Needed[c] \in Nat
      BY <2>1, ChainSet, CountTypes
    <3>4. CASE row > 0 /\ c = last.idx
      <4>1. last.count # Needed[last.idx] /\ row > 0
        BY <3>1, <3>2, <3>4
      <4>2. Continues
        BY <1>1, <4>1, NextRow
      <4>3. QED
        BY <1>1, <2>2, <4>2, HonestRowFits
    <3>5. CASE ~ (row > 0 /\ c = last.idx)
      <4>1. ~ (row > 0 /\ c < last.idx) /\ Laid[c] = 0 /\ Needed[c] > 0
        BY <3>1, <3>2, <3>3, <3>5
      <4>2. row > 0 => c > last.idx
        BY <3>3, <3>5, <4>1
      <4>3. c \in Ahead
        BY <1>1, <4>1, <4>2, NextRow
      <4>4. QED
        BY <1>1, <2>2, <4>3, HonestRowFits
    <3>6. QED
      BY <3>4, <3>5
  <2>3. CASE row = ScheduleLen
    BY <1>1, <2>1, <2>3, HonestFinishFits
  <2>4. QED
    BY <2>1, <2>2, <2>3
<1>2. QED
  BY <1>1, SumInvariant, PTL
=============================================================================
