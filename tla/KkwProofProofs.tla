--------------------------- MODULE KkwProofProofs ---------------------------
(***************************************************************************)
(* Proofs about KkwProof, for any number of instances, rounds, parties and *)
(* threads: the challenge is an increasing list of different instances, a  *)
(* proof that kkw_prove finished is accepted, and one that was made        *)
(* without a witness is accepted only if its challenge was guessed.        *)
(*                                                                         *)
(* And, for any number of parties and words of up to 32 bits, what that    *)
(* takes for granted of the gates of MpcGates: the verifier recomputes     *)
(* what the prover computed, and a wrong broadcast passes for one hidden   *)
(* party at most.  The carries of an addition are shown to be a word that  *)
(* ripples: its next bit is made from its bits so far.  There is exactly   *)
(* one, which the prover takes from the sum of the words and the verifier  *)
(* makes bit by bit from the broadcasts.                                   *)
(***************************************************************************)
EXTENDS KkwProof, SumTheorems, FunctionTheorems, TLAPS

-----------------------------------------------------------------------------
(* Types                                                                   *)

Hash == {<<>>} \cup {Hashes(j, lie) : j \in Instance, lie \in Lie}

Phases == {"pass1", "shuffle", "pass2", "answer", "written", "failed",
           "accepted", "rejected"}

TypeOK ==
    /\ phase \in Phases
    /\ honest \in BOOLEAN /\ witness \in BOOLEAN /\ failing \in BOOLEAN
    /\ todo \in SUBSET Int
    /\ job \in [Threads -> SUBSET Int]
    /\ scratch \in [Threads -> SUBSET Instance]
    /\ lies \in [Instance -> Lie]
    /\ hashes \in [Instance -> Hash]
    /\ arr \in [Instance -> Instance]
    /\ turn \in 0..Tau
    /\ online \in [Round -> {<<>>} \cup (Instance \X Lie)]

-----------------------------------------------------------------------------
(* The inductive invariant                                                 *)

\* A thread that is in iteration i holds instance j.
Working(t, i, j) == job[t] = {i} /\ scratch[t] = {j}

\* The first pass: an instance is still to be taken, under way, or hashed,
\* and then a missing witness has been noted.
Pass1Inv ==
    phase = "pass1" =>
        /\ honest
        /\ \A j \in Instance : lies[j] = Truth
        /\ \A t \in Threads : \A j \in job[t] : Working(t, j, j)
        /\ \A j \in Instance :
              \/ j \in todo
              \/ \E t \in Threads : j \in job[t]
              \/ hashes[j] = Hashes(j, Truth) /\ (failing \/ witness)

\* From then on h* binds the lie of every instance; kkw_prove tells none and
\* has a witness.
BoundInv ==
    phase \notin {"pass1", "failed"} =>
        /\ \A j \in Instance : hashes[j] = Hashes(j, lies[j])
        /\ honest => witness /\ \A j \in Instance : lies[j] = Truth
        /\ phase = "shuffle" /\ honest => \A t \in Threads : job[t] = {}
        /\ phase = "pass2" => honest
        /\ phase = "answer" => ~honest

\* The shuffle permutes; the challenge is an increasing list of different
\* instances with a hidden party each.
ShuffleInv == \A a, b \in Instance : arr[a] = arr[b] => a = b

Challenged == {"pass2", "answer", "written", "accepted", "rejected"}

ChallengeInv ==
    /\ phase \in {"pass1", "shuffle"} => hidden = <<>>
    /\ phase \in Challenged \/ hidden # <<>> =>
          /\ chosen \in [Round -> Instance]
          /\ hidden \in [Round -> Party]
          /\ \A k, l \in Round : chosen[k] = chosen[l] => k = l
          /\ \A k \in 1..(Tau - 1) : chosen[k] < chosen[k + 1]

\* The second pass: a round is still to be taken, under way, or done on the
\* instance of the challenge.
Pass2Inv ==
    phase = "pass2" =>
        /\ \A t \in Threads : \A k \in job[t] :
              k \in Round /\ Working(t, k, chosen[k])
        /\ \A k \in Round :
              \/ k \in todo
              \/ \E t \in Threads : k \in job[t]
              \/ online[k] = <<chosen[k], Truth>>

\* The proof: nothing is written before its time; each round is about the
\* instance of the challenge and tells what kkw_prove tells.
WrittenInv ==
    /\ phase \notin {"written", "accepted", "rejected"} => stream = <<>>
    /\ phase \in {"written", "accepted", "rejected"} =>
          /\ \A k \in Round : online[k] \in {chosen[k]} \X Lie
          /\ honest => \A k \in Round : online[k] = <<chosen[k], Truth>>

\* The verdict.
VerdictInv ==
    /\ phase = "accepted" => Accepts
    /\ phase = "rejected" => ~ Accepts

IInv ==
    /\ TypeOK
    /\ Pass1Inv
    /\ BoundInv
    /\ ShuffleInv
    /\ ChallengeInv
    /\ Pass2Inv
    /\ WrittenInv
    /\ VerdictInv
-----------------------------------------------------------------------------
(* The hashes and the challenge                                            *)

\* The forms of a lie.
LEMMA LieForms ==
    ASSUME NEW lie \in Lie
    PROVE  \/ lie = Truth
           \/ lie = <<"aux", 0>>
           \/ \E p \in Party : lie = <<"msg", p>>
           \/ \E p \in Party : lie = <<"out", p>>
BY DEF Lie

\* The hashes of an instance bind its lie.
LEMMA HashesBind ==
    ASSUME NEW j, NEW lie \in Lie, NEW other \in Lie,
           Hashes(j, lie).hp = Hashes(j, other).hp,
           Hashes(j, lie).ho = Hashes(j, other).ho
    PROVE  lie = other
<1>1. /\ (IF lie[1] \in {"aux", "msg"} THEN lie ELSE Truth)
            = (IF other[1] \in {"aux", "msg"} THEN other ELSE Truth)
      /\ (IF lie[1] = "out" THEN lie ELSE Truth)
            = (IF other[1] = "out" THEN other ELSE Truth)
  BY DEF Hashes, HPrime, HOut
<1>2. /\ lie = Truth \/ lie[1] \in {"aux", "msg", "out"}
      /\ other = Truth \/ other[1] \in {"aux", "msg", "out"}
  BY LieForms
<1>3. Truth[1] = "none"
  BY DEF Truth
<1>4. QED
  BY <1>1, <1>2, <1>3

\* Sorting different instances gives them in increasing order.
LEMMA SortedOrder ==
    ASSUME NEW s \in [Round -> Instance],
           \A k, l \in Round : s[k] = s[l] => k = l,
           NEW t \in SortedOrders(s)
    PROVE  /\ t \in [Round -> Instance]
           /\ \A k, l \in Round : t[k] = t[l] => k = l
           /\ \A k \in 1..(Tau - 1) : t[k] < t[k + 1]
<1>1. PICK f \in Bijection(Round, Round) :
         /\ t = [k \in Round |-> s[f[k]]]
         /\ \A k \in 1..(Tau - 1) : t[k] <= t[k + 1]
  BY DEF SortedOrders
<1>2. f \in [Round -> Round] /\ \A k, l \in Round : f[k] = f[l] => k = l
  BY DEF Bijection, Injection, IsInjective
<1>3. t \in [Round -> Instance]
  BY <1>1, <1>2
<1>4. \A k, l \in Round : t[k] = t[l] => k = l
  BY <1>1, <1>2
<1>5. ASSUME NEW k \in 1..(Tau - 1) PROVE t[k] < t[k + 1]
  <2>1. k \in Round /\ k + 1 \in Round /\ k # k + 1
    BY ParametersAssumption DEF Round
  <2>2. t[k] \in Int /\ t[k + 1] \in Int /\ t[k] # t[k + 1]
    BY <1>3, <1>4, <2>1, ParametersAssumption DEF Instance
  <2>3. t[k] <= t[k + 1]
    BY <1>1
  <2>4. QED
    BY <2>2, <2>3
<1>6. QED
  BY <1>3, <1>4, <1>5

\* The reader's loops read what the writer's loops write.
LEMMA SameFields == Expected = Written
BY DEF Expected, Written, RoundFields, ReadRound

-----------------------------------------------------------------------------
(* Each action preserves the invariant                                     *)

\* kkw_verify looks at nothing but these.
basis == <<witness, lies, hashes, chosen, hidden, online, stream>>

\* The verifier's answer depends on the proof and on what was bound alone.
LEMMA AcceptsStable ==
    ASSUME UNCHANGED basis
    PROVE  Accepts' <=> Accepts
<1> USE DEF basis
<1>1. UNCHANGED Expected
  BY DEF Expected, Flatten, PreFields, ReadRound, InC
<1>2. \A k : (RoundError(k)' <=> RoundError(k)) /\ UNCHANGED Seen(k)
  BY DEF RoundError, Seen
<1>4. UNCHANGED Recomputed
  BY DEF Recomputed, InC, RoundHashes, OpenedHashes, Seen
<1>5. \A k : OutputMatches(Seen(k))' <=> OutputMatches(Seen(k))
  BY DEF OutputMatches, Seen
<1>6. QED
  BY <1>1, <1>2, <1>4, <1>5 DEF Accepts, ReadsAll

\* A thread takes an iteration of a pass.
LEMMA TakeEffect ==
    ASSUME TypeOK, NEW t \in Threads, NEW i \in Int, NEW j \in Instance,
           Take(t, i, j)
    PROVE  /\ job' \in [Threads -> SUBSET Int]
           /\ scratch' \in [Threads -> SUBSET Instance]
           /\ todo' \in SUBSET Int
           /\ job'[t] = {i} /\ scratch'[t] = {j} /\ job[t] = {}
           /\ \A u \in Threads : u # t =>
                 job'[u] = job[u] /\ scratch'[u] = scratch[u]
           /\ \A u \in Threads : job[u] \subseteq job'[u]
           /\ \A n : n \in todo => n = i \/ n \in todo'
BY DEF TypeOK, Take

\* A thread takes an instance of the first pass.
LEMMA Pass1TakeStep ==
    ASSUME IInv, NEW t \in Threads, NEW j \in Instance, Pass1Take(t, j)
    PROVE  IInv'
<1> USE DEF IInv, Pass1Take, fs
<1>1. j \in Int
  BY ParametersAssumption DEF Instance
<1> USE TakeEffect, <1>1
<1>2. TypeOK'
  BY DEF TypeOK
<1>3. Pass1Inv'
  BY DEF Pass1Inv, Working
<1>4. BoundInv' /\ ShuffleInv' /\ ChallengeInv'
  BY DEF BoundInv, ShuffleInv, ChallengeInv, Challenged
<1>5. Pass2Inv' /\ WrittenInv' /\ VerdictInv'
  BY DEF Pass2Inv, WrittenInv, VerdictInv
<1>6. QED
  BY <1>2, <1>3, <1>4, <1>5

\* A thread takes a round of the second pass, with the instance of it.
LEMMA Pass2TakeStep ==
    ASSUME IInv, NEW t \in Threads, NEW k \in Round, Pass2Take(t, k)
    PROVE  IInv'
<1> USE DEF IInv, Pass2Take, fs
<1>1. k \in Int /\ chosen[k] \in Instance
  BY ParametersAssumption DEF Round, ChallengeInv, Challenged
<1> USE TakeEffect, <1>1
<1>2. TypeOK'
  BY DEF TypeOK
<1>3. Pass1Inv' /\ BoundInv' /\ ShuffleInv' /\ ChallengeInv'
  BY DEF Pass1Inv, BoundInv, ShuffleInv, ChallengeInv, Challenged
<1>4. Pass2Inv'
  BY DEF Pass2Inv, Working
<1>5. WrittenInv' /\ VerdictInv'
  BY DEF WrittenInv, VerdictInv
<1>6. QED
  BY <1>2, <1>3, <1>4, <1>5

\* A thread hashes the instance in its buffers: the one of its iteration.
LEMMA Pass1ViewsStep ==
    ASSUME IInv, NEW t \in Threads, Pass1Views(t)
    PROVE  IInv'
<1> USE DEF IInv, Pass1Views, fs
<1>1. PICK j \in job[t], s \in scratch[t] :
         hashes' = [hashes EXCEPT ![j] = Hashes(s, Truth)]
  OBVIOUS
<1>2. job[t] = {j} /\ s = j /\ j \in Instance
  BY <1>1 DEF Pass1Inv, Working, TypeOK
<1>3. Truth \in Lie
  BY DEF Lie
<1>4. /\ hashes' \in [Instance -> Hash] /\ hashes'[j] = Hashes(j, Truth)
      /\ \A i \in Instance : i # j => hashes'[i] = hashes[i]
  BY <1>1, <1>2, <1>3 DEF TypeOK, Hash
<1>5. /\ job' \in [Threads -> SUBSET Int] /\ job'[t] = {}
      /\ \A u \in Threads : u # t => job'[u] = job[u]
  BY DEF TypeOK
<1>6. failing' \in BOOLEAN /\ (failing => failing') /\ (failing' \/ witness)
  BY DEF TypeOK, OutputMatches
<1>7. TypeOK'
  BY <1>4, <1>5, <1>6 DEF TypeOK
<1>8. Pass1Inv'
  BY <1>2, <1>4, <1>5, <1>6 DEF Pass1Inv, Working
<1>9. BoundInv' /\ ShuffleInv' /\ ChallengeInv'
  BY DEF BoundInv, ShuffleInv, ChallengeInv, Challenged
<1>10. Pass2Inv' /\ WrittenInv' /\ VerdictInv'
  BY DEF Pass2Inv, WrittenInv, VerdictInv
<1>11. QED
  BY <1>7, <1>8, <1>9, <1>10

\* A thread answers its round from the instance of the challenge.
LEMMA Pass2ViewsStep ==
    ASSUME IInv, NEW t \in Threads, Pass2Views(t)
    PROVE  IInv'
<1> USE DEF IInv, Pass2Views, fs
<1>1. PICK k \in job[t], s \in scratch[t] :
         online' = [online EXCEPT ![k] = <<s, lies[s]>>]
  OBVIOUS
<1>2. job[t] = {k} /\ s = chosen[k] /\ k \in Round /\ s \in Instance
  BY <1>1 DEF Pass2Inv, Working, TypeOK
<1>3. lies[s] = Truth /\ lies[s] \in Lie
  BY <1>2 DEF BoundInv, TypeOK
<1>4. <<s, lies[s]>> \in {<<>>} \cup (Instance \X Lie)
  BY <1>2, <1>3
<1>5. /\ online' \in [Round -> {<<>>} \cup (Instance \X Lie)]
      /\ online'[k] = <<chosen[k], Truth>>
      /\ \A i \in Round : i # k => online'[i] = online[i]
  BY <1>1, <1>2, <1>3, <1>4 DEF TypeOK
<1>6. /\ job' \in [Threads -> SUBSET Int] /\ job'[t] = {}
      /\ \A u \in Threads : u # t => job'[u] = job[u]
  BY DEF TypeOK
<1>7. TypeOK'
  BY <1>5, <1>6 DEF TypeOK
<1>8. Pass1Inv' /\ BoundInv' /\ ShuffleInv' /\ ChallengeInv'
  BY DEF Pass1Inv, BoundInv, ShuffleInv, ChallengeInv, Challenged
<1>9. Pass2Inv'
  BY <1>2, <1>5, <1>6 DEF Pass2Inv, Working
<1>10. WrittenInv' /\ VerdictInv'
  BY DEF WrittenInv, VerdictInv
<1>11. QED
  BY <1>7, <1>8, <1>9, <1>10

\* The first pass ends: every instance is hashed and, if none failed, the
\* prover has a witness.
LEMMA Pass1EndStep ==
    ASSUME IInv, Pass1End
    PROVE  IInv'
<1> USE DEF IInv, Pass1End, LoopDone, fs
<1>1. /\ \A t \in Threads : job[t] = {}
      /\ \A j \in Instance :
            hashes[j] = Hashes(j, Truth) /\ (failing \/ witness)
  BY DEF Pass1Inv
<1>2. 0 \in Instance
  BY ParametersAssumption DEF Instance
<1>3. failing \/ witness
  BY <1>1, <1>2
<1>4. TypeOK'
  BY DEF TypeOK, Phases
<1>5. Pass1Inv' /\ Pass2Inv' /\ WrittenInv' /\ VerdictInv'
  BY DEF Pass1Inv, Pass2Inv, WrittenInv, VerdictInv
<1>6. BoundInv'
  BY <1>1, <1>3 DEF BoundInv, Pass1Inv
<1>7. ShuffleInv' /\ ChallengeInv'
  BY DEF ShuffleInv, ChallengeInv, Challenged
<1>8. QED
  BY <1>4, <1>5, <1>6, <1>7

\* A prover that does not follow kkw_prove binds its own lies.
LEMMA ForgeStep ==
    ASSUME IInv, NEW claims \in [Instance -> Lie], Forge(claims)
    PROVE  IInv'
<1> USE DEF IInv, Forge, fs
<1>1. \A j \in Instance : Hashes(j, claims[j]) \in Hash
  BY DEF Hash
<1>2. TypeOK'
  BY <1>1 DEF TypeOK, Phases
<1>3. BoundInv'
  BY DEF BoundInv
<1>4. Pass1Inv' /\ Pass2Inv' /\ WrittenInv' /\ VerdictInv'
  BY DEF Pass1Inv, Pass2Inv, WrittenInv, VerdictInv
<1>5. ShuffleInv' /\ ChallengeInv'
  BY DEF ShuffleInv, ChallengeInv, Challenged
<1>6. QED
  BY <1>2, <1>3, <1>4, <1>5

\* A swap of the shuffle.
LEMMA FsSwapStep ==
    ASSUME IInv, NEW j \in Instance, FsSwap(j)
    PROVE  IInv'
<1> USE DEF IInv, FsSwap
<1>1. turn \in Instance /\ turn + 1 \in 0..Tau
  BY ParametersAssumption DEF TypeOK, Instance
<1>2. arr' \in [Instance -> Instance] /\ ShuffleInv'
  <2>1. /\ arr' \in [Instance -> Instance]
        /\ arr'[j] = arr[turn] /\ (j # turn => arr'[turn] = arr[j])
        /\ \A a \in Instance : a # j /\ a # turn => arr'[a] = arr[a]
    BY <1>1 DEF TypeOK
  <2>2. ShuffleInv
    OBVIOUS
  <2> HIDE DEF IInv, FsSwap
  <2> QED BY <1>1, <2>1, <2>2 DEF ShuffleInv
<1>3. TypeOK'
  BY <1>1, <1>2 DEF TypeOK
<1>4. Pass1Inv' /\ BoundInv' /\ Pass2Inv' /\ WrittenInv' /\ VerdictInv'
  BY DEF Pass1Inv, BoundInv, Pass2Inv, WrittenInv, VerdictInv
<1>5. ChallengeInv'
  BY DEF ChallengeInv, Challenged
<1>6. QED
  BY <1>2, <1>3, <1>4, <1>5

\* The challenge is drawn; an honest prover starts its second pass.
LEMMA FsPartiesStep ==
    ASSUME IInv, NEW p \in [Round -> Party], FsParties(p)
    PROVE  IInv'
<1> USE DEF IInv, FsParties
<1> DEFINE s == [k \in Round |-> arr[k - 1]]
<1>1. \A k \in Round : k - 1 \in Instance
  BY ParametersAssumption DEF Round, Instance
<1>2. s \in [Round -> Instance]
  BY <1>1 DEF TypeOK
<1>3. \A k, l \in Round : s[k] = s[l] => k = l
  <2> SUFFICES ASSUME NEW k \in Round, NEW l \in Round, s[k] = s[l]
               PROVE  k = l
    OBVIOUS
  <2>1. k - 1 = l - 1
    BY <1>1 DEF ShuffleInv
  <2>2. QED
    BY <2>1, ParametersAssumption DEF Round
<1>4. chosen' \in SortedOrders(s)
  OBVIOUS
<1> HIDE DEF s
<1>5. /\ chosen' \in [Round -> Instance]
      /\ \A k, l \in Round : chosen'[k] = chosen'[l] => k = l
      /\ \A k \in 1..(Tau - 1) : chosen'[k] < chosen'[k + 1]
  BY <1>2, <1>3, <1>4, SortedOrder
<1>6. /\ honest => phase' = "pass2" /\ todo' = Round
      /\ ~honest => phase' = "answer" /\ todo' = todo
  OBVIOUS
<1>7. Round \subseteq Int
  BY ParametersAssumption DEF Round
<1>8. TypeOK'
  BY <1>6, <1>7 DEF TypeOK, Phases
<1>9. ShuffleInv' /\ ChallengeInv'
  BY <1>5 DEF ShuffleInv, ChallengeInv
<1>10. Pass1Inv' /\ WrittenInv' /\ VerdictInv' /\ BoundInv'
  BY <1>6 DEF Pass1Inv, WrittenInv, VerdictInv, BoundInv, TypeOK
<1>11. Pass2Inv'
  BY <1>6 DEF Pass2Inv, BoundInv, TypeOK
<1>12. QED
  BY <1>8, <1>9, <1>10, <1>11

\* kkw_prove writes its proof, or a part of it, when every round is answered.
LEMMA WriteStep ==
    ASSUME IInv,
           WriteProof \/ \E n \in 0..(4 + 2 * M + 7 * Tau) : WriteStops(n)
    PROVE  IInv'
<1> USE DEF IInv
<1>1. /\ phase = "pass2" /\ LoopDone /\ phase' = "written"
      /\ UNCHANGED <<honest, witness, todo, job, scratch, lies, hashes,
                     failing, arr, turn, chosen, hidden, online>>
  BY DEF WriteProof, WriteStops, fs
<1>2. honest /\ \A k \in Round : online[k] = <<chosen[k], Truth>>
  BY <1>1 DEF Pass2Inv, LoopDone, BoundInv
<1>3. \A k \in Round : online[k] \in {chosen[k]} \X Lie
  BY <1>2 DEF Lie
<1>4. TypeOK'
  BY <1>1 DEF TypeOK, Phases
<1>5. Pass1Inv' /\ BoundInv' /\ ShuffleInv' /\ ChallengeInv'
  BY <1>1 DEF Pass1Inv, BoundInv, ShuffleInv, ChallengeInv, Challenged
<1>6. Pass2Inv' /\ WrittenInv' /\ VerdictInv'
  BY <1>1, <1>2, <1>3 DEF Pass2Inv, WrittenInv, VerdictInv
<1>7. QED
  BY <1>4, <1>5, <1>6

\* kkw_prove gives up and leaves no proof.
LEMMA ProveFailsStep ==
    ASSUME IInv, ProveFails
    PROVE  IInv'
<1> USE DEF IInv, ProveFails, fs
<1>1. TypeOK'
  BY DEF TypeOK, Phases
<1>2. Pass1Inv' /\ BoundInv' /\ ShuffleInv' /\ ChallengeInv'
  BY DEF Pass1Inv, BoundInv, ShuffleInv, ChallengeInv, Challenged
<1>3. Pass2Inv' /\ WrittenInv' /\ VerdictInv'
  BY DEF Pass2Inv, WrittenInv, VerdictInv
<1>4. QED
  BY <1>1, <1>2, <1>3

\* The forger's rounds are about the instances of the challenge too.
LEMMA AnswerStep ==
    ASSUME IInv, NEW k \in Round, NEW lie \in Lie, Answer(k, lie)
    PROVE  IInv'
<1> USE DEF IInv, Answer, fs
<1>1. ~honest /\ chosen \in [Round -> Instance]
  BY DEF BoundInv, ChallengeInv, Challenged
<1>2. \A i \in Round :
         (IF i = k THEN lie ELSE lies[chosen[i]]) \in Lie
  BY <1>1 DEF TypeOK
<1>3. \A i \in Round : online'[i] \in {chosen[i]} \X Lie
  BY <1>2
<1>4. online' \in [Round -> {<<>>} \cup (Instance \X Lie)]
  BY <1>1, <1>2
<1>5. TypeOK'
  BY <1>4 DEF TypeOK, Phases
<1>6. Pass1Inv' /\ BoundInv' /\ ShuffleInv' /\ ChallengeInv'
  BY DEF Pass1Inv, BoundInv, ShuffleInv, ChallengeInv, Challenged
<1>7. Pass2Inv' /\ WrittenInv' /\ VerdictInv'
  BY <1>1, <1>3 DEF Pass2Inv, WrittenInv, VerdictInv
<1>8. QED
  BY <1>5, <1>6, <1>7

\* Bytes come after a proof.
LEMMA TrailingStep ==
    ASSUME IInv, Trailing
    PROVE  IInv'
<1> USE DEF IInv, Trailing, fs
<1>1. TypeOK'
  BY DEF TypeOK
<1>2. Pass1Inv' /\ BoundInv' /\ ShuffleInv' /\ ChallengeInv'
  BY DEF Pass1Inv, BoundInv, ShuffleInv, ChallengeInv, Challenged
<1>3. Pass2Inv' /\ WrittenInv' /\ VerdictInv'
  BY DEF Pass2Inv, WrittenInv, VerdictInv
<1>4. QED
  BY <1>1, <1>2, <1>3

\* kkw_verify decides; nothing that the verdict was made from changes.
LEMMA VerifyStep ==
    ASSUME IInv, Verify
    PROVE  IInv'
<1> USE DEF IInv, Verify, fs
<1>1. TypeOK'
  BY DEF TypeOK, Phases
<1>2. Pass1Inv' /\ BoundInv' /\ ShuffleInv' /\ ChallengeInv'
  BY DEF Pass1Inv, BoundInv, ShuffleInv, ChallengeInv, Challenged
<1>3. Pass2Inv' /\ WrittenInv'
  BY DEF Pass2Inv, WrittenInv
<1>4. Accepts' <=> Accepts
  BY AcceptsStable DEF basis
<1>5. VerdictInv'
  BY <1>4 DEF VerdictInv
<1>6. QED
  BY <1>1, <1>2, <1>3, <1>5

-----------------------------------------------------------------------------
(* The invariant                                                           *)

\* The prover starts its first pass.
LEMMA IInvInit == Init => IInv
<1> SUFFICES ASSUME Init PROVE IInv
  OBVIOUS
<1> USE DEF Init
<1>1. Truth \in Lie /\ Instance \subseteq Int /\ 0 \in 0..Tau
  BY ParametersAssumption DEF Lie, Instance
<1>2. phase \in Phases /\ <<>> \in Hash
  BY DEF Phases, Hash
<1>3. lies \in [Instance -> Lie] /\ hashes \in [Instance -> Hash]
  BY <1>1, <1>2
<1>4. online \in [Round -> {<<>>} \cup (Instance \X Lie)]
  OBVIOUS
<1>5. turn \in 0..Tau /\ arr \in [Instance -> Instance]
  BY <1>1
<1>6. TypeOK
  <2>1. todo \in SUBSET Int /\ job \in [Threads -> SUBSET Int]
    BY <1>1
  <2>2. scratch \in [Threads -> SUBSET Instance]
    OBVIOUS
  <2>3. honest \in BOOLEAN /\ witness \in BOOLEAN /\ failing \in BOOLEAN
    OBVIOUS
  <2>4. QED
    <3> HIDE DEF Init
    <3>1. QED
      BY <1>2, <1>3, <1>4, <1>5, <2>1, <2>2, <2>3 DEF TypeOK
<1>7. Pass1Inv /\ BoundInv /\ Pass2Inv /\ WrittenInv /\ VerdictInv
  BY DEF Pass1Inv, BoundInv, Pass2Inv, WrittenInv, VerdictInv
<1>8. ShuffleInv /\ ChallengeInv
  BY DEF ShuffleInv, ChallengeInv, Challenged
<1>9. QED
  BY <1>6, <1>7, <1>8 DEF IInv

\* Every step keeps the invariant.
LEMMA IInvNext == IInv /\ [Next]_vars => IInv'
<1> SUFFICES ASSUME IInv, [Next]_vars PROVE IInv'
  OBVIOUS
<1>1. ASSUME Prove PROVE IInv'
  BY <1>1, Pass1TakeStep, Pass1ViewsStep, Pass2TakeStep, Pass2ViewsStep,
     Pass1EndStep, FsSwapStep, FsPartiesStep, WriteStep, ProveFailsStep
  DEF Prove
<1>2. ASSUME NEW claims \in [Instance -> Lie], Forge(claims) PROVE IInv'
  BY <1>2, ForgeStep
<1>3. ASSUME NEW k \in Round, NEW lie \in Lie, Answer(k, lie) PROVE IInv'
  BY <1>3, AnswerStep
<1>4. ASSUME Trailing \/ Verify PROVE IInv'
  BY <1>4, TrailingStep, VerifyStep
<1>5. ASSUME UNCHANGED vars PROVE IInv'
  <2>1. TypeOK' /\ Pass1Inv' /\ BoundInv' /\ ShuffleInv' /\ ChallengeInv'
    BY <1>5 DEF vars, fs, IInv, TypeOK, Pass1Inv, BoundInv, ShuffleInv,
       ChallengeInv, Challenged, Working
  <2>2. Pass2Inv' /\ WrittenInv'
    BY <1>5 DEF vars, fs, IInv, Pass2Inv, WrittenInv, Working
  <2>3. VerdictInv'
    BY <1>5, AcceptsStable DEF vars, fs, IInv, VerdictInv, basis
  <2>4. QED
    BY <2>1, <2>2, <2>3 DEF IInv
<1>6. QED
  BY <1>1, <1>2, <1>3, <1>4, <1>5 DEF Next

\* The invariant holds in every reachable state.
LEMMA Invariance == Spec => []IInv
BY IInvInit, IInvNext, PTL DEF Spec

(***************************************************************************)
(* The challenge of kkw_fs_expand is a list of different instances in      *)
(* increasing order, for any draws of its shuffle: swapping keeps the      *)
(* entries different, so the sorted ones increase.                         *)
(***************************************************************************)
THEOREM ChallengeIncreases == Spec => []ChallengeIsASet
<1>1. IInv => ChallengeIsASet
  BY DEF IInv, ChallengeInv, ChallengeIsASet
<1>2. QED
  BY <1>1, Invariance, PTL

(***************************************************************************)
(* kkw_prove writes nothing unless its input satisfies the circuit,        *)
(* whichever thread runs which instance: after the parallel loop           *)
(* pass1_error is set or there is a witness.                               *)
(***************************************************************************)
THEOREM WitnessNeeded == Spec => []NoProofWithoutWitness
<1>1. IInv => NoProofWithoutWitness
  BY DEF IInv, BoundInv, WrittenInv, NoProofWithoutWitness
<1>2. QED
  BY <1>1, Invariance, PTL

(***************************************************************************)
(* kkw_verify accepts a file only whole: what its loops read is what the   *)
(* loops of kkw_prove write, and the file has to end there.                *)
(***************************************************************************)
THEOREM WholeFileOnly == Spec => []OnlyWholeFileAccepted
<1>1. IInv => OnlyWholeFileAccepted
  BY SameFields
  DEF IInv, VerdictInv, Accepts, ReadsAll, OnlyWholeFileAccepted
<1>2. QED
  BY <1>1, Invariance, PTL

\* The round of an instance that is checked online is the one CHOOSE finds.
LEMMA RoundOf ==
    ASSUME ChallengeInv, phase \in Challenged, NEW k \in Round
    PROVE  (CHOOSE l \in Round : chosen[l] = chosen[k]) = k
BY DEF ChallengeInv

\* The verifier finds h* in a finished proof of kkw_prove.
LEMMA HonestAccepts ==
    ASSUME IInv, honest, stream = Written,
           phase \in {"written", "accepted", "rejected"}
    PROVE  Accepts
<1>1. /\ \A j \in Instance : lies[j] = Truth /\ hashes[j] = Hashes(j, Truth)
      /\ \A k \in Round : online[k] = <<chosen[k], Truth>>
      /\ witness
  BY DEF IInv, BoundInv, WrittenInv
<1>2. \A k \in Round : Seen(k) = Truth /\ ~ RoundError(k)
  BY <1>1 DEF Seen, RoundError, Truth
<1>3. \A k \in Round : OutputMatches(Seen(k))
  BY <1>1 DEF OutputMatches
<1>4. \A k \in Round : RoundHashes(k) = Hashes(chosen[k], Truth)
  BY <1>1, <1>2 DEF RoundHashes, Hashes, IInv, ChallengeInv, Challenged
<1>5. \A j \in Instance : OpenedHashes(j) = Hashes(j, Truth)
  BY <1>1 DEF OpenedHashes, Hashes
<1>6. ASSUME NEW j \in Instance PROVE Recomputed[j] = hashes[j]
  <2>1. CASE ~ InC(j)
    BY <1>1, <1>5, <2>1 DEF Recomputed
  <2>2. CASE InC(j)
    <3>1. PICK k \in Round : chosen[k] = j
      BY <2>2 DEF InC
    <3>2. (CHOOSE l \in Round : chosen[l] = j) = k
      BY <3>1, RoundOf DEF IInv, Challenged
    <3>3. Recomputed[j] = RoundHashes(k)
      BY <2>2, <3>2 DEF Recomputed
    <3>4. QED
      BY <1>1, <1>4, <3>1, <3>3
  <2>3. QED
    BY <2>1, <2>2
<1>7. Recomputed = hashes
  BY <1>6 DEF Recomputed, IInv, TypeOK
<1>8. QED
  BY <1>2, <1>3, <1>7, SameFields DEF Accepts, ReadsAll

(***************************************************************************)
(* A proof that kkw_prove finished is accepted, for any number of threads, *)
(* instances and rounds, any schedule of the two parallel loops and any    *)
(* challenge.                                                              *)
(***************************************************************************)
THEOREM FinishedProofAccepted == Spec => []HonestProofAccepted
<1>1. IInv => HonestProofAccepted
  BY HonestAccepts DEF IInv, VerdictInv, HonestProofAccepted
<1>2. QED
  BY <1>1, Invariance, PTL

\* An accepted instance that is opened has honest preprocessing and outputs.
LEMMA OpenedIsHonest ==
    ASSUME IInv, phase = "accepted", NEW j \in Instance, ~ InC(j)
    PROVE  lies[j][1] \notin {"aux", "out"}
<1>1. Recomputed[j] = hashes[j] /\ hashes[j] = Hashes(j, lies[j])
  BY DEF IInv, VerdictInv, Accepts, BoundInv
<1>2. Recomputed[j] = OpenedHashes(j)
  BY DEF Recomputed
<1>3. lies[j] \in Lie
  BY DEF IInv, TypeOK
<1>4. HJ(j, Truth) = HJ(j, lies[j]) /\ HOut(j, Truth) = HOut(j, lies[j])
  BY <1>1, <1>2 DEF OpenedHashes, Hashes
<1>5. lies[j][1] # "aux"
  BY <1>4 DEF HJ, Truth
<1>6. lies[j][1] # "out"
  BY <1>4 DEF HOut, Truth
<1>7. QED
  BY <1>5, <1>6

\* An accepted round without a witness lies, and its lie is one that the
\* verifier cannot recompute: in the preprocessing, or for the hidden party.
\* The hashes make it the lie that was bound.
LEMMA RoundLies ==
    ASSUME IInv, phase = "accepted", ~witness, NEW k \in Round
    PROVE  LET lie == lies[chosen[k]]
           IN  lie[1] = "aux" \/ lie \in {"msg", "out"} \X {hidden[k]}
<1> DEFINE j == chosen[k]
           told == online[k][2]
<1>1. j \in Instance /\ hidden[k] \in Party /\ InC(j)
  BY DEF IInv, ChallengeInv, Challenged, InC
<1>2. online[k] = <<j, told>> /\ told \in Lie
  BY DEF IInv, WrittenInv
<1>3. lies[j] \in Lie
  BY <1>1 DEF IInv, TypeOK
<1>4. Recomputed[j] = hashes[j] /\ hashes[j] = Hashes(j, lies[j])
  BY <1>1 DEF IInv, VerdictInv, Accepts, BoundInv
<1>5. Recomputed[j] = RoundHashes(k)
  <2>1. (CHOOSE l \in Round : chosen[l] = j) = k
    BY RoundOf DEF IInv, Challenged
  <2>2. QED
    BY <1>1, <2>1 DEF Recomputed
<1>6. ~ RoundError(k) /\ OutputMatches(Seen(k))
  BY DEF IInv, VerdictInv, Accepts
<1>7. Seen(k) \in Lie /\ Seen(k) # Truth
  BY <1>2, <1>6 DEF Seen, OutputMatches, Lie
<1>8. Seen(k) = told /\ (told[1] \in {"msg", "out"} => told[2] = hidden[k])
  BY <1>6, <1>7 DEF Seen, RoundError
<1>9. Seen(k) = lies[j]
  <2>1. /\ Hashes(j, Seen(k)).hp = Hashes(j, lies[j]).hp
        /\ Hashes(j, Seen(k)).ho = Hashes(j, lies[j]).ho
    BY <1>2, <1>4, <1>5 DEF RoundHashes, Hashes
  <2>2. QED
    BY <1>3, <1>7, <2>1, HashesBind
<1> HIDE DEF told, j
<1>10. lies[j] = told /\ told # Truth
  BY <1>7, <1>8, <1>9
<1>11. told[1] = "aux" \/ told \in {"msg", "out"} \X {hidden[k]}
  BY <1>2, <1>8, <1>10, LieForms
<1>12. QED
  BY <1>10, <1>11 DEF j

(***************************************************************************)
(* The cut-and-choose argument of kkw_verify, for any number of instances, *)
(* rounds and parties: a proof without a witness is accepted only if the   *)
(* challenge derived from h* was guessed when h* was bound.                *)
(***************************************************************************)
THEOREM SoundUpToTheChallenge == Spec => []ForgeryNeedsTheChallenge
<1>1. IInv => ForgeryNeedsTheChallenge
  BY OpenedIsHonest, RoundLies DEF ForgeryNeedsTheChallenge
<1>2. QED
  BY <1>1, Invariance, PTL

-----------------------------------------------------------------------------
(* Words and the sum of two                                                *)

\* What the proofs use of the parameters.
LEMMA GateParameters ==
  /\ N \in Nat \ {0, 1} /\ W \in Nat \ {0} /\ W <= 32
  /\ \A b : b \in Bits <=> b \in Nat /\ b < W
  /\ \A p : p \in Party <=> p \in Nat /\ p < N
  /\ IsFiniteSet(Bits) /\ IsFiniteSet(Party)
BY GateAssumption, FS_Interval DEF Bits, Party

LEMMA GatePow2 ==
  /\ Pow2[0] = 1
  /\ \A n \in Nat : Pow2[n + 1] = 2 * Pow2[n]
  /\ \A n \in Nat : Pow2[n] \in Nat \ {0}
<1>1. Pow2 = [n \in Nat |-> IF n = 0 THEN 1 ELSE 2 * Pow2[n - 1]]
  BY PowersExist, Zenon DEF Pow2
<1> QED BY <1>1, PowersOfTwo, Zenon

Bit(v, b) == IF b \in v THEN 1 ELSE 0
Low(v, b) == v \cap (0..(b - 1))

\* The carry into bit b of a sum.
CarryIn(v, w, b) ==
    IF Value(Low(v, b)) + Value(Low(w, b)) >= Pow2[b] THEN 1 ELSE 0

LEMMA ValueIs == \A v : Value(v) = Total(Pow2, v)
BY DEF Value, Total

\* The bits below b + 1 are bit b and those below.
LEMMA LowNext ==
  ASSUME NEW v \in Word, NEW b \in Bits
  PROVE  /\ Value(Low(v, b)) \in Int
         /\ Value(Low(v, b + 1)) = Bit(v, b) * Pow2[b] + Value(Low(v, b))
<1>1. /\ b \in Nat /\ v \subseteq Nat /\ Pow2[b] \in Nat
      /\ \A x \in Low(v, b) : Pow2[x] \in Int
  <2>1. Bits \subseteq Nat
    BY GateParameters
  <2>2. \A x \in v : x \in Nat
    BY <2>1 DEF Word
  <2>3. Low(v, b) \subseteq v
    BY DEF Low
  <2>4. \A x \in Nat : Pow2[x] \in Nat
    BY GatePow2
  <2> QED BY <2>1, <2>2, <2>3, <2>4
<1>2. IsFiniteSet(Low(v, b)) /\ b \notin Low(v, b)
  <2>1. Low(v, b) \subseteq Bits /\ b \notin Low(v, b)
    BY <1>1 DEF Word, Low
  <2> QED BY <2>1, GateParameters, FS_Subset
<1>3. Low(v, b + 1) = IF b \in v THEN Low(v, b) \cup {b} ELSE Low(v, b)
  BY <1>1 DEF Low
<1>4. Total(Pow2, Low(v, b)) \in Int
  BY <1>1, <1>2, TotalStep
<1>5. Total(Pow2, Low(v, b) \cup {b}) = Pow2[b] + Total(Pow2, Low(v, b))
  <2>1. \A x \in Low(v, b) \cup {b} : Pow2[x] \in Int
    BY <1>1
  <2> QED BY <1>2, <2>1, TotalAdd
<1>6. Value(Low(v, b)) = Total(Pow2, Low(v, b))
  BY ValueIs
<1>7. CASE b \in v
  <2>1. Value(Low(v, b + 1)) = Pow2[b] + Value(Low(v, b))
    BY <1>3, <1>5, <1>6, <1>7, ValueIs
  <2>2. Bit(v, b) * Pow2[b] = Pow2[b]
    BY <1>1, <1>7 DEF Bit
  <2> QED BY <1>4, <1>6, <2>1, <2>2
<1>8. CASE b \notin v
  <2>1. Value(Low(v, b + 1)) = Value(Low(v, b))
    BY <1>3, <1>8
  <2>2. Bit(v, b) * Pow2[b] = 0
    BY <1>1, <1>8 DEF Bit
  <2> QED BY <1>4, <1>6, <2>1, <2>2
<1> QED BY <1>7, <1>8

\* They stay below the next power of two.
LEMMA LowBound ==
  ASSUME NEW v \in Word
  PROVE  \A b \in Nat : b <= W => /\ Value(Low(v, b)) \in Nat
                                  /\ Value(Low(v, b)) < Pow2[b]
<1> DEFINE T == {b \in Nat : b <= W => /\ Value(Low(v, b)) \in Nat
                                       /\ Value(Low(v, b)) < Pow2[b]}
<1>1. 0 \in T
  <2>1. Low(v, 0) = {}
    BY DEF Low
  <2>2. Value({}) = 0
    BY ValueIs, TotalEmpty
  <2>3. Value(Low(v, 0)) = 0
    BY <2>1, <2>2
  <2> QED BY <2>3, GatePow2
<1>2. ASSUME NEW b \in T PROVE b + 1 \in T
  <2>1. SUFFICES ASSUME b + 1 <= W
                 PROVE  Value(Low(v, b + 1)) \in Nat /\ Value(Low(v, b + 1)) < Pow2[b + 1]
    BY <1>2
  <2>2. b \in Bits /\ Value(Low(v, b)) \in Nat /\ Value(Low(v, b)) < Pow2[b]
    BY <1>2, <2>1, GateParameters
  <2>3. Pow2[b] \in Nat /\ Pow2[b + 1] = 2 * Pow2[b]
    BY <1>2, GatePow2
  <2>4. Value(Low(v, b + 1)) = Bit(v, b) * Pow2[b] + Value(Low(v, b))
    BY <2>2, LowNext
  <2> QED BY <2>2, <2>3, <2>4 DEF Bit
<1>3. T = Nat
  <2> HIDE DEF T
  <2>1. T \in SUBSET Nat
    BY DEF T
  <2> QED BY <1>1, <1>2, <2>1, NatSetInduction
<1> QED BY <1>3

\* Bit b, and what is above it.
LEMMA HighPart ==
  ASSUME NEW v \in Word, NEW b \in Bits
  PROVE  \E q \in Nat : Value(v) = Value(Low(v, b)) + (2 * q + Bit(v, b)) * Pow2[b]
<1> DEFINE P(n) == \E q \in Nat : Value(v) = Value(Low(v, n)) + q * Pow2[n]
           T == {n \in Nat : n <= W => P(W - n)}
<1>1. 0 \in T
  <2>1. W - 0 = W /\ Low(v, W) = v /\ W \in Nat
    <3>1. W \in Nat /\ W - 0 = W /\ \A x \in Bits : x \in 0..(W - 1)
      BY GateParameters
    <3> QED BY <3>1 DEF Word, Low
  <2>2. Value(v) \in Nat /\ Pow2[W] \in Nat
    BY <2>1, LowBound, GatePow2
  <2>3. Value(v) = Value(Low(v, W)) + 0 * Pow2[W]
    BY <2>1, <2>2
  <2> QED BY <2>1, <2>3
<1>2. ASSUME NEW n \in Bits, NEW q \in Nat, Value(v) = Value(Low(v, n + 1)) + q * Pow2[n + 1]
      PROVE  Value(v) = Value(Low(v, n)) + (2 * q + Bit(v, n)) * Pow2[n]
  <2>1. Pow2[n] \in Nat /\ Pow2[n + 1] = 2 * Pow2[n]
    <3>1. n \in Nat
      BY GateParameters
    <3> QED BY <3>1, GatePow2
  <2>2. Value(Low(v, n)) \in Int /\ Bit(v, n) \in Nat
        /\ Value(Low(v, n + 1)) = Bit(v, n) * Pow2[n] + Value(Low(v, n))
    BY LowNext DEF Bit
  <2>3. \A p, c, l \in Int : (c * p + l) + q * (2 * p) = l + (2 * q + c) * p
    OBVIOUS
  <2> QED BY <1>2, <2>1, <2>2, <2>3
<1>3. ASSUME NEW n \in T PROVE n + 1 \in T
  <2>1. SUFFICES ASSUME n + 1 <= W PROVE P(W - (n + 1))
    BY <1>3
  <2>2. PICK m : m = W - (n + 1)
    OBVIOUS
  <2>3. m \in Bits /\ m + 1 = W - n /\ n <= W
    BY <1>3, <2>1, <2>2, GateParameters
  <2>4. PICK q \in Nat : Value(v) = Value(Low(v, m + 1)) + q * Pow2[m + 1]
    BY <1>3, <2>3
  <2>5. Value(v) = Value(Low(v, m)) + (2 * q + Bit(v, m)) * Pow2[m]
    BY <1>2, <2>3, <2>4
  <2>6. 2 * q + Bit(v, m) \in Nat
    BY DEF Bit
  <2> QED BY <2>2, <2>5, <2>6
<1>4. T = Nat
  <2> HIDE DEF T
  <2>1. T \in SUBSET Nat
    BY DEF T
  <2> QED BY <1>1, <1>3, <2>1, NatSetInduction
<1>5. W - (b + 1) \in Nat /\ W - (b + 1) <= W /\ W - (W - (b + 1)) = b + 1
  BY GateParameters
<1>6. P(b + 1)
  <2>1. W - (b + 1) \in T
    BY <1>4, <1>5
  <2>2. P(W - (W - (b + 1)))
    BY <1>5, <2>1
  <2> QED BY <1>5, <2>2
<1> QED BY <1>2, <1>6

\* A bit of the sum is that of the two words and the carry.
LEMMA SumBitIs ==
  ASSUME NEW v \in Word, NEW w \in Word, NEW b \in Bits
  PROVE  b \in Sum(v, w) <=> (Bit(v, b) + Bit(w, b) + CarryIn(v, w, b)) % 2 = 1
<1> DEFINE p == Pow2[b]
           l == Value(Low(v, b))
           m == Value(Low(w, b))
           c == CarryIn(v, w, b)
           r == (l + m) - c * p
<1>1. PICK q \in Nat : Value(v) = l + (2 * q + Bit(v, b)) * p
  BY HighPart
<1>2. PICK k \in Nat : Value(w) = m + (2 * k + Bit(w, b)) * p
  BY HighPart
<1>3. p \in Nat \ {0} /\ l \in Nat /\ m \in Nat /\ l < p /\ m < p
  <2>1. b \in Nat /\ b <= W
    BY GateParameters
  <2> QED BY <2>1, GatePow2, LowBound
<1>4. c \in {0, 1} /\ Bit(v, b) \in {0, 1} /\ Bit(w, b) \in {0, 1} /\ (c = 1 <=> l + m >= p)
  BY DEF CarryIn, Bit
<1> HIDE DEF p, l, m, c
<1>5. r \in Nat /\ r < p
  BY <1>3, <1>4
<1> DEFINE t == 2 * (q + k) + (Bit(v, b) + Bit(w, b) + c)
<1>6. t \in Nat
  BY <1>4
<1>7. Value(v) + Value(w) = t * p + r
  <2>1. \A i, j, n, x, y, z, o \in Int :
           (x + (2 * i + n) * o) + (y + (2 * j + z) * o)
           = (2 * (i + j) + (n + z)) * o + (x + y)
    OBVIOUS
  <2>2. \A i, x, z, o \in Int : i * o + x = (i + z) * o + (x - z * o)
    OBVIOUS
  <2>3. Value(v) + Value(w) = (2 * (q + k) + (Bit(v, b) + Bit(w, b))) * p + (l + m)
    BY <1>1, <1>2, <1>3, <1>4, <2>1
  <2>4. t = (2 * (q + k) + (Bit(v, b) + Bit(w, b))) + c
    BY <1>4
  <2>5. 2 * (q + k) + (Bit(v, b) + Bit(w, b)) \in Int /\ l + m \in Int /\ c \in Int /\ p \in Int
    BY <1>3, <1>4
  <2> DEFINE u == 2 * (q + k) + (Bit(v, b) + Bit(w, b))
  <2>6. u * p + (l + m) = (u + c) * p + ((l + m) - c * p)
    <3> HIDE DEF u
    <3> QED BY <2>2, <2>5 DEF u
  <2>7. t = u + c
    BY <2>4
  <2>8. Value(v) + Value(w) = u * p + (l + m)
    BY <2>3
  <2> HIDE DEF t, u
  <2>9. (u + c) * p + ((l + m) - c * p) = t * p + r
    <3>1. (l + m) - c * p = r
      OBVIOUS
    <3> HIDE DEF r
    <3> QED BY <2>7, <3>1
  <2> HIDE DEF r
  <2> QED BY <2>6, <2>8, <2>9, Zenon
<1>8. Value(v) + Value(w) \in Nat /\ (Value(v) + Value(w)) \div p = t
  <2> HIDE DEF t, r
  <2>1. t * p + r \in Nat
    BY <1>3, <1>5, <1>6
  <2> QED BY <1>3, <1>5, <1>6, <1>7, <2>1, DivUnique
<1>9. t % 2 = (Bit(v, b) + Bit(w, b) + c) % 2
  BY <1>4
<1>10. b \in Sum(v, w) <=> t % 2 = 1
  <2> HIDE DEF t
  <2> QED BY <1>8 DEF Sum, p
<1> QED BY <1>9, <1>10 DEF c

\* The carry out of a bit is the majority of the three.
LEMMA CarryNext ==
  ASSUME NEW v \in Word, NEW w \in Word, NEW b \in Bits
  PROVE  /\ CarryIn(v, w, 0) = 0
         /\ CarryIn(v, w, b) \in {0, 1}
         /\ CarryIn(v, w, b + 1) = 1 <=> Bit(v, b) + Bit(w, b) + CarryIn(v, w, b) >= 2
<1>1. Low(v, 0) = {} /\ Low(w, 0) = {}
  BY DEF Low
<1>2. CarryIn(v, w, 0) = 0
  <2>1. Value({}) = 0
    BY ValueIs, TotalEmpty
  <2>2. Value(Low(v, 0)) = 0 /\ Value(Low(w, 0)) = 0
    BY <1>1, <2>1
  <2> QED BY <2>2, GatePow2 DEF CarryIn
<1> DEFINE p == Pow2[b]
           l == Value(Low(v, b))
           m == Value(Low(w, b))
<1>3. p \in Nat \ {0} /\ l \in Nat /\ m \in Nat /\ l < p /\ m < p /\ Pow2[b + 1] = 2 * p
  <2>1. b \in Nat /\ b <= W
    BY GateParameters
  <2> QED BY <2>1, GatePow2, LowBound
<1>4. Value(Low(v, b + 1)) = Bit(v, b) * p + l /\ Value(Low(w, b + 1)) = Bit(w, b) * p + m
  BY LowNext
<1>5. CarryIn(v, w, b) = IF l + m >= p THEN 1 ELSE 0
  BY DEF CarryIn
<1>6. CarryIn(v, w, b + 1) = IF (Bit(v, b) * p + l) + (Bit(w, b) * p + m) >= 2 * p THEN 1 ELSE 0
  BY <1>3, <1>4 DEF CarryIn
<1>7. Bit(v, b) \in {0, 1} /\ Bit(w, b) \in {0, 1}
  BY DEF Bit
<1> HIDE DEF p, l, m
<1> QED BY <1>2, <1>3, <1>5, <1>6, <1>7

\* The carries of a sum ripple from bit to bit.
Carries(v, w) == Xor(Xor(Sum(v, w), v), w)

LEMMA XorIn == \A v, w, b : b \in Xor(v, w) <=> ~(b \in v <=> b \in w)
BY DEF Xor

LEMMA CarriesRipple ==
  ASSUME NEW v \in Word, NEW w \in Word
  PROVE  /\ Carries(v, w) \in Word
         /\ 0 \notin Carries(v, w)
         /\ \A b \in Bits : b + 1 \in Bits =>
               (b + 1 \in Carries(v, w)
                <=> ~(b \in Carries(v, w)
                      <=> (/\ ~(b \in v <=> b \in Carries(v, w))
                           /\ ~(b \in w <=> b \in Carries(v, w)))))
<1>1. Sum(v, w) \in Word
  BY DEF Sum, Word
<1>2. Carries(v, w) \in Word
  BY <1>1 DEF Carries, Xor, Word
<1>3. ASSUME NEW b \in Bits
      PROVE  b \in Carries(v, w) <=> CarryIn(v, w, b) = 1
  <2>1. b \in Carries(v, w) <=> ~(~(b \in Sum(v, w) <=> b \in v) <=> b \in w)
    BY XorIn DEF Carries
  <2>2. b \in Sum(v, w) <=> (Bit(v, b) + Bit(w, b) + CarryIn(v, w, b)) % 2 = 1
    BY SumBitIs
  <2>3. CarryIn(v, w, b) \in {0, 1}
    BY CarryNext
  <2> QED BY <2>1, <2>2, <2>3 DEF Bit
<1>4. 0 \in Bits
  BY GateParameters
<1>5. 0 \notin Carries(v, w)
  BY <1>3, <1>4, CarryNext
<1>6. ASSUME NEW b \in Bits, b + 1 \in Bits
      PROVE  b + 1 \in Carries(v, w)
             <=> ~(b \in Carries(v, w)
                   <=> (/\ ~(b \in v <=> b \in Carries(v, w))
                        /\ ~(b \in w <=> b \in Carries(v, w))))
  <2>1. b \in Carries(v, w) <=> CarryIn(v, w, b) = 1
    BY <1>3
  <2>2. b + 1 \in Carries(v, w) <=> CarryIn(v, w, b + 1) = 1
    BY <1>3, <1>6
  <2>3. CarryIn(v, w, b) \in {0, 1}
        /\ (CarryIn(v, w, b + 1) = 1 <=> Bit(v, b) + Bit(w, b) + CarryIn(v, w, b) >= 2)
    BY CarryNext
  <2> QED BY <2>1, <2>2, <2>3 DEF Bit
<1> QED BY <1>2, <1>5, <1>6

-----------------------------------------------------------------------------
(* Sums of shares                                                          *)

Odd(S) == Cardinality(S) % 2 = 1

LEMMA OddXor ==
  ASSUME NEW S, NEW T, IsFiniteSet(S), IsFiniteSet(T)
  PROVE  Odd(Xor(S, T)) <=> ~(Odd(S) <=> Odd(T))
<1>1. /\ IsFiniteSet(S \ T) /\ IsFiniteSet(T \ S) /\ IsFiniteSet(S \cap T)
  BY FS_Difference, FS_Intersection
<1>2. /\ Cardinality(S \ T) \in Nat /\ Cardinality(T \ S) \in Nat
      /\ Cardinality(S \cap T) \in Nat
  BY <1>1, FS_CardinalityType
<1>3. Cardinality(S) = Cardinality(S \ T) + Cardinality(S \cap T)
  <2>1. Cardinality(S \ T) = Cardinality(S) - Cardinality(S \cap T)
    BY FS_Difference
  <2>2. Cardinality(S) \in Nat
    BY FS_CardinalityType
  <2> QED BY <1>2, <2>1, <2>2
<1>4. Cardinality(T) = Cardinality(T \ S) + Cardinality(S \cap T)
  <2>1. T \cap S = S \cap T
    OBVIOUS
  <2>2. Cardinality(T \ S) = Cardinality(T) - Cardinality(T \cap S)
    BY FS_Difference
  <2>3. Cardinality(T) \in Nat
    BY FS_CardinalityType
  <2> QED BY <1>2, <2>1, <2>2, <2>3
<1>5. Cardinality(Xor(S, T)) = Cardinality(S \ T) + Cardinality(T \ S)
  <2> DEFINE A == S \ T
             B == T \ S
  <2>1. A \cap B = {} /\ Xor(S, T) = A \cup B
    BY DEF Xor
  <2> HIDE DEF A, B
  <2>2. IsFiniteSet(A) /\ IsFiniteSet(B) /\ Cardinality(A) \in Nat /\ Cardinality(B) \in Nat
    BY <1>1, <1>2 DEF A, B
  <2>3. Cardinality(A \cup B) = Cardinality(A) + Cardinality(B) - Cardinality(A \cap B)
    BY <2>2, FS_Union
  <2>4. Cardinality(A \cap B) = 0
    BY <2>1, FS_EmptySet
  <2>5. Cardinality(A \cup B) = Cardinality(A) + Cardinality(B)
    BY <2>2, <2>3, <2>4
  <2> QED BY <2>1, <2>5 DEF A, B
<1>6. \A i, j, k \in Nat : (i + j) % 2 = 1 <=> ~((i + k) % 2 = 1 <=> (j + k) % 2 = 1)
  OBVIOUS
<1> QED BY <1>2, <1>3, <1>4, <1>5, <1>6 DEF Odd

LEMMA OddSmall == ~Odd({}) /\ \A p : Odd({p})
<1>1. Cardinality({}) = 0 /\ \A p : Cardinality({p}) = 1
  BY FS_EmptySet, FS_Singleton
<1>2. \A S : Cardinality(S) = 0 => ~Odd(S)
  BY DEF Odd
<1>3. \A S : Cardinality(S) = 1 => Odd(S)
  BY DEF Odd
<1> QED BY <1>1, <1>2, <1>3, Zenon

\* The parties that have bit b.
Having(f, b) == {p \in DOMAIN f : b \in f[p]}

LEMMA XorOfIs ==
  \A f, b : b \in XorOf(f) <=> b \in Bits /\ Odd(Having(f, b))
BY DEF XorOf, Odd, Having

LEMMA XorOfType == \A f : XorOf(f) \in Word
BY DEF XorOf, Word

\* Share by share.
LEMMA XorOfXor ==
  ASSUME NEW P, IsFiniteSet(P), NEW f, NEW g
  PROVE  XorOf([p \in P |-> Xor(f[p], g[p])])
         = Xor(XorOf([p \in P |-> f[p]]), XorOf([p \in P |-> g[p]]))
<1> DEFINE h == [p \in P |-> Xor(f[p], g[p])]
           i == [p \in P |-> f[p]]
           j == [p \in P |-> g[p]]
<1>1. ASSUME NEW b
      PROVE  Odd(Having(h, b)) <=> ~(Odd(Having(i, b)) <=> Odd(Having(j, b)))
  <2>1. Having(h, b) = Xor(Having(i, b), Having(j, b))
    BY DEF Having, Xor
  <2>2. IsFiniteSet(Having(i, b)) /\ IsFiniteSet(Having(j, b))
    <3>1. Having(i, b) \subseteq P /\ Having(j, b) \subseteq P
      BY DEF Having
    <3> QED BY <3>1, FS_Subset
  <2> HIDE DEF h, i, j
  <2> QED BY <2>1, <2>2, OddXor
<1>2. ASSUME NEW b
      PROVE  b \in XorOf(h) <=> b \in Xor(XorOf(i), XorOf(j))
  <2> HIDE DEF h, i, j
  <2>1. b \in XorOf(h) <=> b \in Bits /\ Odd(Having(h, b))
    BY XorOfIs
  <2>2. b \in XorOf(i) <=> b \in Bits /\ Odd(Having(i, b))
    BY XorOfIs
  <2>3. b \in XorOf(j) <=> b \in Bits /\ Odd(Having(j, b))
    BY XorOfIs
  <2>4. b \in Xor(XorOf(i), XorOf(j)) <=> ~(b \in XorOf(i) <=> b \in XorOf(j))
    BY XorIn
  <2> QED BY <1>1, <2>1, <2>2, <2>3, <2>4
<1> HIDE DEF h, i, j
<1>3. XorOf(h) = Xor(XorOf(i), XorOf(j))
  BY <1>2
<1> QED BY <1>3 DEF h, i, j

\* A public factor.
LEMMA XorOfMeet ==
  ASSUME NEW P, NEW f, NEW v \in Word
  PROVE  XorOf([p \in P |-> v \cap f[p]]) = v \cap XorOf([p \in P |-> f[p]])
<1> DEFINE h == [p \in P |-> v \cap f[p]]
           i == [p \in P |-> f[p]]
<1>1. ASSUME NEW b PROVE Odd(Having(h, b)) <=> b \in v /\ Odd(Having(i, b))
  <2>1. Having(h, b) = IF b \in v THEN Having(i, b) ELSE {}
    BY DEF Having
  <2> HIDE DEF h, i
  <2> QED BY <2>1, OddSmall
<1>2. ASSUME NEW b PROVE b \in XorOf(h) <=> b \in v \cap XorOf(i)
  <2> HIDE DEF h, i
  <2> QED BY <1>1, XorOfIs
<1> HIDE DEF h, i
<1>3. XorOf(h) = v \cap XorOf(i)
  BY <1>2
<1> QED BY <1>3 DEF h, i

\* What only party 0 adds.
LEMMA XorOfFirst ==
  ASSUME NEW P, NEW v \in Word
  PROVE  XorOf([p \in P |-> IF p = 0 THEN v ELSE {}]) = IF 0 \in P THEN v ELSE {}
<1> DEFINE h == [p \in P |-> IF p = 0 THEN v ELSE {}]
<1>1. ASSUME NEW b PROVE Odd(Having(h, b)) <=> 0 \in P /\ b \in v
  <2>1. Having(h, b) = IF 0 \in P /\ b \in v THEN {0} ELSE {}
    BY DEF Having
  <2> HIDE DEF h
  <2> QED BY <2>1, OddSmall
<1>2. ASSUME NEW b PROVE b \in XorOf(h) <=> 0 \in P /\ b \in v
  <2> HIDE DEF h
  <2> QED BY <1>1, XorOfIs DEF Word
<1> HIDE DEF h
<1>3. XorOf(h) = IF 0 \in P THEN v ELSE {}
  BY <1>2
<1> QED BY <1>3 DEF h

\* One party and the others.
LEMMA XorOfSplit ==
  ASSUME NEW f \in [Party -> Word], NEW e \in Party
  PROVE  XorOf(f) = Xor(f[e], XorOf([p \in Party \ {e} |-> f[p]]))
<1> DEFINE h == [p \in Party \ {e} |-> f[p]]
<1>1. ASSUME NEW b
      PROVE  Odd(Having(f, b)) <=> ~(b \in f[e] <=> Odd(Having(h, b)))
  <2> DEFINE one == IF b \in f[e] THEN {e} ELSE {}
  <2>1. Having(f, b) = Xor(one, Having(h, b))
    BY DEF Having, Xor
  <2>2. IsFiniteSet(one) /\ IsFiniteSet(Having(h, b))
    <3>1. Having(h, b) \subseteq Party
      BY DEF Having
    <3>2. IsFiniteSet(one)
      BY FS_EmptySet, FS_Singleton
    <3> QED BY <3>1, <3>2, FS_Subset, GateParameters
  <2>3. Odd(one) <=> b \in f[e]
    BY OddSmall
  <2> HIDE DEF h, one
  <2> QED BY <2>1, <2>2, <2>3, OddXor
<1>2. ASSUME NEW b PROVE b \in XorOf(f) <=> b \in Xor(f[e], XorOf(h))
  <2>1. f[e] \subseteq Bits
    BY DEF Word
  <2> HIDE DEF h
  <2>2. b \in XorOf(f) <=> b \in Bits /\ Odd(Having(f, b))
    BY XorOfIs
  <2>3. b \in XorOf(h) <=> b \in Bits /\ Odd(Having(h, b))
    BY XorOfIs
  <2>4. b \in Xor(f[e], XorOf(h)) <=> ~(b \in f[e] <=> b \in XorOf(h))
    BY XorIn
  <2> QED BY <1>1, <2>1, <2>2, <2>3, <2>4
<1> HIDE DEF h
<1>3. XorOf(f) = Xor(f[e], XorOf(h))
  BY <1>2
<1> QED BY <1>3 DEF h

-----------------------------------------------------------------------------
(* prefix_xor_shift                                                        *)

\* u has, at each bit, the sum of the latest n bits of v.
Windowed(u, v, n) ==
    \A b \in Bits : ~(b \in u <=> b - 1 \in u) <=> ~(b \in v <=> b - n \in v)

LEMMA ShiftIn ==
  ASSUME NEW v \in Word, NEW k \in Nat, NEW b \in Int
  PROVE  b \in ShiftLeft(v, k) <=> b \in Bits /\ b - k \in v
<1>1. \A x \in v : x \in Int
  BY GateParameters DEF Word
<1>2. ASSUME b - k \in v, b \in Bits PROVE b \in ShiftLeft(v, k)
  <2>1. (b - k) + k = b
    OBVIOUS
  <2> QED BY <1>2, <2>1 DEF ShiftLeft
<1>3. ASSUME b \in ShiftLeft(v, k) PROVE b \in Bits /\ b - k \in v
  <2>1. b \in Bits
    BY <1>3 DEF ShiftLeft
  <2>2. PICK x \in v : b = x + k
    BY <1>3 DEF ShiftLeft
  <2>3. b - k = x
    BY <1>1, <2>2
  <2> QED BY <2>1, <2>2, <2>3
<1> QED BY <1>2, <1>3

LEMMA ShiftType ==
  ASSUME NEW v \in Word, NEW k \in Nat
  PROVE  ShiftLeft(v, k) \in Word /\ XorShift(v, k) \in Word
BY DEF ShiftLeft, XorShift, Xor, Word

\* A shift by n doubles the window.
LEMMA WindowDoubles ==
  ASSUME NEW u \in Word, NEW v \in Word, NEW n \in Nat \ {0}, NEW m, m = n + n,
         Windowed(u, v, n)
  PROVE  Windowed(XorShift(u, n), v, m)
<1>1. \A b \in Int : b \in XorShift(u, n) <=> ~(b \in u <=> (b \in Bits /\ b - n \in u))
  BY ShiftIn, XorIn DEF XorShift
<1>2. \A b : b \in u \/ b \in v => b \in Bits
  BY DEF Word
<1>3. \A b : b \in Bits <=> b \in Nat /\ b < W
  BY GateParameters
<1> SUFFICES ASSUME NEW b \in Bits
             PROVE  ~(b \in XorShift(u, n) <=> b - 1 \in XorShift(u, n))
                    <=> ~(b \in v <=> b - m \in v)
  BY DEF Windowed
<1>4. b \in Nat /\ b < W /\ W \in Nat
  BY <1>3, GateParameters
<1>5. b \in XorShift(u, n) <=> ~(b \in u <=> b - n \in u)
  BY <1>1, <1>4
<1>6. b - 1 \in XorShift(u, n) <=> ~(b - 1 \in u <=> (b - 1) - n \in u)
  <2>1. b - 1 \in Bits \/ (b - 1 \notin u /\ (b - 1) - n \notin u)
    BY <1>2, <1>3, <1>4
  <2> QED BY <1>1, <1>4, <2>1
<1>7. ~(b \in u <=> b - 1 \in u) <=> ~(b \in v <=> b - n \in v)
  BY DEF Windowed
<1>8. ~(b - n \in u <=> (b - n) - 1 \in u) <=> ~(b - n \in v <=> (b - n) - n \in v)
  <2>1. CASE b - n \in Bits
    BY <2>1 DEF Windowed
  <2>2. CASE b - n \notin Bits
    <3>1. b - n \notin Bits /\ (b - n) - 1 \notin Bits /\ (b - n) - n \notin Bits
      BY <1>3, <1>4, <2>2
    <3> QED BY <1>2, <3>1
  <2> QED BY <2>1, <2>2
<1>9. (b - 1) - n = (b - n) - 1 /\ (b - n) - n = b - m
  BY <1>4
<1> QED BY <1>5, <1>6, <1>7, <1>8, <1>9

\* The sum of all the bits below.
LEMMA PrefixRipples ==
  ASSUME NEW v \in Word
  PROVE  /\ PrefixXorShift(v) \in Word
         /\ 0 \notin PrefixXorShift(v)
         /\ \A b \in Bits : b + 1 \in Bits =>
               (b + 1 \in PrefixXorShift(v) <=> ~(b \in PrefixXorShift(v) <=> b \in v))
<1> DEFINE v1 == XorShift(v, 1)
           v2 == XorShift(v1, 2)
           v3 == XorShift(v2, 4)
           v4 == XorShift(v3, 8)
           v5 == XorShift(v4, 16)
<1>1. v1 \in Word
  BY ShiftType
<1>2. v2 \in Word
  <2> HIDE DEF v1
  <2> QED BY <1>1, ShiftType
<1>3. v3 \in Word
  <2> HIDE DEF v2
  <2> QED BY <1>2, ShiftType
<1>4. v4 \in Word
  <2> HIDE DEF v3
  <2> QED BY <1>3, ShiftType
<1>5. v5 \in Word
  <2> HIDE DEF v4
  <2> QED BY <1>4, ShiftType
<1>6. Windowed(v, v, 1)
  BY DEF Windowed
<1>7. Windowed(v1, v, 2)
  BY <1>6, WindowDoubles
<1>8. Windowed(v2, v, 4)
  <2> HIDE DEF v1
  <2> QED BY <1>1, <1>7, WindowDoubles
<1>9. Windowed(v3, v, 8)
  <2> HIDE DEF v2
  <2> QED BY <1>2, <1>8, WindowDoubles
<1>10. Windowed(v4, v, 16)
  <2> HIDE DEF v3
  <2> QED BY <1>3, <1>9, WindowDoubles
<1>11. Windowed(v5, v, 32)
  <2> HIDE DEF v4
  <2> QED BY <1>4, <1>10, WindowDoubles
<1>12. PrefixXorShift(v) = ShiftLeft(v5, 1)
  BY DEF PrefixXorShift, PrefixXor
<1> HIDE DEF v5
<1>13. \A b : b \in v \/ b \in v5 => b \in Bits
  BY <1>5 DEF Word
<1>14. \A b : b \in Bits <=> b \in Nat /\ b < W
  BY GateParameters
<1>15. PrefixXorShift(v) \in Word
  BY <1>5, <1>12, ShiftType
<1>16. \A b \in Int : b \in PrefixXorShift(v) <=> b \in Bits /\ b - 1 \in v5
  BY <1>5, <1>12, ShiftIn
<1>17. 0 \notin PrefixXorShift(v)
  <2>1. 0 - 1 \notin v5
    BY <1>13, <1>14
  <2> QED BY <1>16, <2>1
<1>18. ASSUME NEW b \in Bits, b + 1 \in Bits
       PROVE  b + 1 \in PrefixXorShift(v) <=> ~(b \in PrefixXorShift(v) <=> b \in v)
  <2>1. b \in Nat /\ b < W /\ W <= 32
    BY <1>14, GateParameters
  <2>2. b - 32 \notin v
    <3>1. b - 32 \notin Bits
      BY <1>14, <2>1, GateParameters
    <3> QED BY <1>13, <3>1
  <2>3. ~(b \in v5 <=> b - 1 \in v5) <=> b \in v
    BY <1>11, <2>2 DEF Windowed
  <2>4. (b + 1) - 1 = b /\ b + 1 \in Int /\ b \in Int
    BY <2>1
  <2>5. b + 1 \in PrefixXorShift(v) <=> b \in v5
    BY <1>16, <1>18, <2>4
  <2>6. b \in PrefixXorShift(v) <=> b - 1 \in v5
    BY <1>16, <2>4
  <2> QED BY <2>3, <2>5, <2>6
<1> QED BY <1>15, <1>17, <1>18

-----------------------------------------------------------------------------
(* Words that ripple from bit to bit                                       *)

\* The next bit of c is the sum of the bits of c and of R[c].
Ripple(R, c) ==
    /\ c \in Word
    /\ 0 \notin c
    /\ \A b \in Bits : b + 1 \in Bits =>
          (b + 1 \in c <=> ~(b \in c <=> b \in R[c]))

\* R works bit by bit.
BitByBit(R) ==
    /\ R \in [Word -> Word]
    /\ \A c, d \in Word : \A b \in Bits :
          (b \in c <=> b \in d) => (b \in R[c] <=> b \in R[d])

\* There is one such word at most.
LEMMA RippleUnique ==
  ASSUME NEW R, BitByBit(R), NEW c, NEW d, Ripple(R, c), Ripple(R, d)
  PROVE  c = d
<1> DEFINE T == {b \in Nat : b \in Bits => (b \in c <=> b \in d)}
<1>1. 0 \in T
  BY DEF Ripple
<1>2. ASSUME NEW b \in T PROVE b + 1 \in T
  <2>1. SUFFICES ASSUME b + 1 \in Bits PROVE b + 1 \in c <=> b + 1 \in d
    BY <1>2
  <2>2. b \in Nat /\ b \in Bits
    BY <1>2, <2>1, GateParameters
  <2>3. b \in c <=> b \in d
    BY <1>2, <2>2
  <2>4. b \in R[c] <=> b \in R[d]
    BY <2>2, <2>3 DEF BitByBit, Ripple
  <2> QED BY <2>1, <2>2, <2>3, <2>4 DEF Ripple
<1>3. T = Nat
  <2> HIDE DEF T
  <2>1. T \in SUBSET Nat
    BY DEF T
  <2> QED BY <1>1, <1>2, <2>1, NatSetInduction
<1>4. \A b \in Bits : b \in c <=> b \in d
  BY <1>3, GateParameters
<1>5. c \subseteq Bits /\ d \subseteq Bits
  BY DEF Ripple, Word
<1> QED BY <1>4, <1>5

\* One is made from bit 0 up.
RippleNext(R, c, b) == IF (b \in c) # (b \in R[c]) THEN c \cup {b + 1} ELSE c

LEMMA RippleExists ==
  ASSUME NEW R, BitByBit(R)
  PROVE  \E g : g = [b \in Bits |-> IF b = 0 THEN {} ELSE RippleNext(R, g[b - 1], b - 1)]
<1> DEFINE step == [n \in Nat |-> [c \in SUBSET Nat |-> RippleNext(R, c, n)]]
<1>1. step \in [Nat -> [SUBSET Nat -> SUBSET Nat]] /\ {} \in SUBSET Nat
  BY DEF RippleNext
<1>2. PICK f \in [Nat -> SUBSET Nat] : Recurs(f, {}, step)
  <2> HIDE DEF step
  <2> QED BY <1>1, RecursionExists
<1>3. f[0] = {} /\ \A n \in Nat : f[n + 1] = RippleNext(R, f[n], n)
  BY <1>2 DEF Recurs
<1> DEFINE g == [b \in Bits |-> f[b]]
<1>4. ASSUME NEW b \in Bits
      PROVE  g[b] = IF b = 0 THEN {} ELSE RippleNext(R, g[b - 1], b - 1)
  <2>1. CASE b = 0
    BY <1>3, <2>1
  <2>2. CASE b # 0
    <3>1. b - 1 \in Bits /\ b - 1 \in Nat /\ (b - 1) + 1 = b
      BY <2>2, GateParameters
    <3>2. f[b] = RippleNext(R, f[b - 1], b - 1)
      BY <1>3, <3>1
    <3>3. g[b] = f[b] /\ g[b - 1] = f[b - 1]
      BY <3>1
    <3> HIDE DEF g
    <3> QED BY <2>2, <3>2, <3>3
  <2> QED BY <2>1, <2>2
<1>5. g = [b \in Bits |-> g[b]]
  OBVIOUS
<1> HIDE DEF g
<1>6. g = [b \in Bits |-> IF b = 0 THEN {} ELSE RippleNext(R, g[b - 1], b - 1)]
  BY <1>4, <1>5, Zenon
<1> QED BY <1>6

LEMMA RippleMade ==
  ASSUME NEW R, BitByBit(R), NEW g,
         \A b \in Bits : g[b] = IF b = 0 THEN {} ELSE RippleNext(R, g[b - 1], b - 1)
  PROVE  /\ \A b \in Bits : g[b] \in Word
         /\ Ripple(R, g[W - 1])
<1> DEFINE Good(b) == /\ g[b] \in Word
                      /\ \A i \in g[b] : 0 < i /\ i <= b
                      /\ \A i \in Bits : i < b =>
                            (i + 1 \in g[b] <=> ~(i \in g[b] <=> i \in R[g[b]]))
           T == {b \in Nat : b \in Bits => Good(b)}
<1>1. 0 \in T
  <2>1. 0 \in Bits
    BY GateParameters
  <2>2. g[0] = {}
    BY <2>1
  <2> QED BY <2>2, GateParameters DEF Word
<1>2. ASSUME NEW b \in T PROVE b + 1 \in T
  <2>1. SUFFICES ASSUME b + 1 \in Bits PROVE Good(b + 1)
    BY <1>2
  <2>2. b \in Nat /\ b \in Bits
    BY <1>2, <2>1, GateParameters
  <2>3. Good(b)
    BY <1>2, <2>2
  <2>4. PICK c : c = g[b]
    OBVIOUS
  <2>5. PICK d : d = g[b + 1]
    OBVIOUS
  <2>6. d = RippleNext(R, c, b)
    <3>1. b + 1 # 0 /\ (b + 1) - 1 = b
      BY <2>2
    <3>2. g[b + 1] = RippleNext(R, g[(b + 1) - 1], (b + 1) - 1)
      BY <2>1, <3>1, Zenon
    <3> QED BY <2>4, <2>5, <3>1, <3>2
  <2>7. c \in Word /\ \A i \in c : 0 < i /\ i <= b
    BY <2>3, <2>4
  <2>8. \A i \in Bits : i < b => (i + 1 \in c <=> ~(i \in c <=> i \in R[c]))
    BY <2>3, <2>4
  <2>9. d \in Word
    BY <2>1, <2>6, <2>7 DEF RippleNext, Word
  <2>10. \A i \in Bits : i # b + 1 => (i \in d <=> i \in c)
    BY <2>6 DEF RippleNext
  <2>11. \A i \in Bits : i # b + 1 => (i \in R[d] <=> i \in R[c])
    BY <2>7, <2>9, <2>10 DEF BitByBit
  <2>12. b + 1 \notin c
    BY <2>2, <2>7
  <2>13. b + 1 \in d <=> ~(b \in c <=> b \in R[c])
    BY <2>6, <2>12 DEF RippleNext
  <2>14. \A i \in d : 0 < i /\ i <= b + 1
    <3>1. \A i \in d : i \in c \/ i = b + 1
      BY <2>6 DEF RippleNext
    <3>2. \A i \in c : i \in Nat
      BY <2>7, GateParameters DEF Word
    <3> QED BY <2>2, <2>7, <3>1, <3>2
  <2>15. ASSUME NEW i \in Bits, i < b + 1
         PROVE  i + 1 \in d <=> ~(i \in d <=> i \in R[d])
    <3>1. i \in Nat /\ i # b + 1
      BY <2>2, <2>15, GateParameters
    <3>2. (i \in d <=> i \in c) /\ (i \in R[d] <=> i \in R[c])
      BY <2>10, <2>11, <3>1
    <3>3. CASE i = b
      BY <2>13, <3>2, <3>3
    <3>4. CASE i < b
      <4>1. i + 1 \in Bits /\ i + 1 # b + 1
        BY <2>1, <2>2, <3>1, <3>4, GateParameters
      <4>2. i + 1 \in d <=> i + 1 \in c
        BY <2>10, <4>1
      <4> QED BY <2>8, <3>2, <3>4, <4>2
    <3> QED BY <2>2, <2>15, <3>1, <3>3, <3>4
  <2> QED BY <2>5, <2>9, <2>14, <2>15
<1>3. T = Nat
  <2> HIDE DEF T
  <2>1. T \in SUBSET Nat
    BY DEF T
  <2> QED BY <1>1, <1>2, <2>1, NatSetInduction
<1>4. \A b \in Bits : Good(b)
  <2> HIDE DEF Good
  <2> QED BY <1>3, GateParameters
<1>5. W - 1 \in Bits /\ \A b \in Bits : b + 1 \in Bits => b < W - 1
  BY GateParameters
<1>6. Good(W - 1)
  <2> HIDE DEF Good
  <2> QED BY <1>4, <1>5
<1>7. 0 \notin g[W - 1]
  BY <1>6
<1> QED BY <1>4, <1>5, <1>6, <1>7 DEF Ripple

-----------------------------------------------------------------------------
(* Broadcasts                                                              *)

Tape == [lam : [Party -> Word], prod : [Party -> Word]]
Masked(P) == [h : Word, l : [P -> Word]]

LEMMA WordOps ==
  /\ {} \in Word
  /\ \A v, w \in Word : Xor(v, w) \in Word /\ v \cap w \in Word
  /\ \A v \in Word : \A w : v \ w \in Word
BY DEF Xor, Word

\* The sum of the broadcasts of some parties is the broadcast of the sums of
\* their shares, with what party 0 adds if it is one of them.
LEMMA JointIs ==
  ASSUME NEW P \in SUBSET Party, NEW x \in Masked(P), NEW y \in Masked(P),
         NEW tape \in Tape, NEW corr \in Word, NEW e \in Nat, 0 \in P <=> e # 0
  PROVE  XorOf(Slots(x, y, tape, corr)) = Joint(x, y, tape, e, corr)
<1> DEFINE k == Xor(x.h \cap y.h, corr)
           ff == [p \in P |-> x.h \cap y.l[p]]
           gg == [p \in P |-> y.h \cap x.l[p]]
           hh == [p \in P |-> Xor(ff[p], gg[p])]
           ii == [p \in P |-> tape.prod[p]]
           jj == [p \in P |-> tape.lam[p]]
           mm == [p \in P |-> Xor(ii[p], jj[p])]
           nn == [p \in P |-> IF p = 0 THEN k ELSE {}]
           oo == [p \in P |-> Xor(mm[p], nn[p])]
           ss == [p \in P |-> Xor(hh[p], oo[p])]
<1>1. IsFiniteSet(P)
  BY GateParameters, FS_Subset
<1>2. x.l = [p \in P |-> x.l[p]] /\ y.l = [p \in P |-> y.l[p]] /\ DOMAIN x.l = P
      /\ x.h \in Word /\ y.h \in Word
  BY DEF Masked
<1>3. k \in Word
  BY <1>2, WordOps
<1>4. Slots(x, y, tape, corr) = ss
  BY <1>2 DEF Slots, Broadcast
<1>5. XorOf(ff) = x.h \cap XorOf(y.l)
  <2>1. PICK v \in Word : v = x.h
    BY <1>2
  <2>2. PICK f : f = y.l
    OBVIOUS
  <2>3. XorOf([p \in P |-> v \cap f[p]]) = v \cap XorOf([p \in P |-> f[p]])
    BY XorOfMeet
  <2> QED BY <1>2, <2>1, <2>2, <2>3
<1>6. XorOf(gg) = y.h \cap XorOf(x.l)
  <2>1. PICK v \in Word : v = y.h
    BY <1>2
  <2>2. PICK f : f = x.l
    OBVIOUS
  <2>3. XorOf([p \in P |-> v \cap f[p]]) = v \cap XorOf([p \in P |-> f[p]])
    BY XorOfMeet
  <2> QED BY <1>2, <2>1, <2>2, <2>3
<1>7. XorOf(hh) = Xor(XorOf(ff), XorOf(gg))
  <2>1. ff = [p \in P |-> ff[p]] /\ gg = [p \in P |-> gg[p]]
    OBVIOUS
  <2> HIDE DEF ff, gg
  <2>2. XorOf([p \in P |-> Xor(ff[p], gg[p])])
        = Xor(XorOf([p \in P |-> ff[p]]), XorOf([p \in P |-> gg[p]]))
    BY <1>1, XorOfXor
  <2> QED BY <2>1, <2>2, Zenon
<1>8. XorOf(mm) = Xor(XorOf(ii), XorOf(jj))
  <2>1. ii = [p \in P |-> ii[p]] /\ jj = [p \in P |-> jj[p]]
    OBVIOUS
  <2> HIDE DEF ii, jj
  <2>2. XorOf([p \in P |-> Xor(ii[p], jj[p])])
        = Xor(XorOf([p \in P |-> ii[p]]), XorOf([p \in P |-> jj[p]]))
    BY <1>1, XorOfXor
  <2> QED BY <2>1, <2>2, Zenon
<1>9. XorOf(nn) = IF 0 \in P THEN k ELSE {}
  <2> HIDE DEF k
  <2> QED BY <1>3, XorOfFirst
<1>10. XorOf(oo) = Xor(XorOf(mm), XorOf(nn))
  <2>1. mm = [p \in P |-> mm[p]] /\ nn = [p \in P |-> nn[p]]
    OBVIOUS
  <2> HIDE DEF mm, nn
  <2>2. XorOf([p \in P |-> Xor(mm[p], nn[p])])
        = Xor(XorOf([p \in P |-> mm[p]]), XorOf([p \in P |-> nn[p]]))
    BY <1>1, XorOfXor
  <2> QED BY <2>1, <2>2, Zenon
<1>11. XorOf(ss) = Xor(XorOf(hh), XorOf(oo))
  <2>1. hh = [p \in P |-> hh[p]] /\ oo = [p \in P |-> oo[p]]
    OBVIOUS
  <2> HIDE DEF hh, oo
  <2>2. XorOf([p \in P |-> Xor(hh[p], oo[p])])
        = Xor(XorOf([p \in P |-> hh[p]]), XorOf([p \in P |-> oo[p]]))
    BY <1>1, XorOfXor
  <2> QED BY <2>1, <2>2, Zenon
<1>12. XorOf([p \in DOMAIN x.l |-> tape.prod[p]]) = XorOf(ii)
       /\ XorOf([p \in DOMAIN x.l |-> tape.lam[p]]) = XorOf(jj)
  BY <1>2
<1> HIDE DEF ff, gg, hh, ii, jj, mm, nn, oo, ss
<1>13. XorOf(ss) = Xor(Xor(x.h \cap XorOf(y.l), y.h \cap XorOf(x.l)),
                       Xor(Xor(XorOf(ii), XorOf(jj)), IF 0 \in P THEN k ELSE {}))
  BY <1>5, <1>6, <1>7, <1>8, <1>9, <1>10, <1>11, Zenon
<1>14. (IF e = 0 THEN 1 ELSE 0) = 0 <=> 0 \in P
  OBVIOUS
<1> QED BY <1>4, <1>12, <1>13, <1>14, Zenon DEF Joint, Broadcast

\* All of them make the masked product, wherever the correction is right.
LEMMA ProductBit ==
  ASSUME NEW x \in Masked(Party), NEW y \in Masked(Party), NEW tape \in Tape,
         NEW corr \in Word, NEW b, b \in corr <=> b \in Correction(x, y, tape)
  PROVE  b \in XorOf(Slots(x, y, tape, corr))
         <=> ~((b \in Unmask(x) /\ b \in Unmask(y)) <=> b \in XorOf(tape.lam))
<1>1. 0 \in Party
  BY GateParameters
<1>2. XorOf(Slots(x, y, tape, corr)) = Joint(x, y, tape, 1, corr)
  BY <1>1, JointIs
<1>3. DOMAIN x.l = Party /\ tape.prod = [p \in Party |-> tape.prod[p]]
      /\ tape.lam = [p \in Party |-> tape.lam[p]]
  BY DEF Masked, Tape
<1>4. Joint(x, y, tape, 1, corr)
      = Xor(Xor(x.h \cap XorOf(y.l), y.h \cap XorOf(x.l)),
            Xor(Xor(XorOf(tape.prod), XorOf(tape.lam)), Xor(x.h \cap y.h, corr)))
  BY <1>3 DEF Joint, Broadcast
<1>5. b \in corr <=> ~((b \in XorOf(x.l) /\ b \in XorOf(y.l)) <=> b \in XorOf(tape.prod))
  BY XorIn DEF Correction
<1>6. /\ b \in Unmask(x) <=> ~(b \in x.h <=> b \in XorOf(x.l))
      /\ b \in Unmask(y) <=> ~(b \in y.h <=> b \in XorOf(y.l))
  BY XorIn DEF Unmask
<1>7. b \in Joint(x, y, tape, 1, corr)
      <=> ~(~((b \in x.h /\ b \in XorOf(y.l)) <=> (b \in y.h /\ b \in XorOf(x.l)))
            <=> ~(~(b \in XorOf(tape.prod) <=> b \in XorOf(tape.lam))
                  <=> ~((b \in x.h /\ b \in y.h) <=> b \in corr)))
  BY <1>4, XorIn
<1> QED BY <1>2, <1>5, <1>6, <1>7

-----------------------------------------------------------------------------
(* Masked carries                                                          *)

\* The mask of the carries.
CarryMask(tape) == XorOf([p \in Party |-> PrefixXorShift(tape.lam[p])])

LEMMA MaskRipples ==
  ASSUME NEW tape \in Tape
  PROVE  Ripple([c \in Word |-> XorOf(tape.lam)], CarryMask(tape))
<1> DEFINE f == [p \in Party |-> PrefixXorShift(tape.lam[p])]
<1>1. \A p \in Party : tape.lam[p] \in Word
  BY DEF Tape
<1>2. DOMAIN tape.lam = Party
  BY DEF Tape
<1>3. CarryMask(tape) \in Word
  BY XorOfType DEF CarryMask
<1>4. 0 \notin XorOf(f)
  <2>1. Having(f, 0) = {}
    BY <1>1, PrefixRipples DEF Having
  <2> HIDE DEF f
  <2> QED BY <2>1, OddSmall, XorOfIs
<1>5. ASSUME NEW b \in Bits, b + 1 \in Bits
      PROVE  b + 1 \in XorOf(f) <=> ~(b \in XorOf(f) <=> b \in XorOf(tape.lam))
  <2>1. \A p \in Party : p \in Having(f, b + 1) <=> ~(p \in Having(f, b) <=> p \in Having(tape.lam, b))
    <3>1. ASSUME NEW p \in Party
          PROVE  b + 1 \in f[p] <=> ~(b \in f[p] <=> b \in tape.lam[p])
      <4>1. f[p] = PrefixXorShift(tape.lam[p])
        OBVIOUS
      <4> HIDE DEF f
      <4> QED BY <1>1, <1>5, <4>1, PrefixRipples
    <3>2. DOMAIN f = Party
      OBVIOUS
    <3> HIDE DEF f
    <3> QED BY <1>2, <3>1, <3>2 DEF Having
  <2>2. Having(f, b + 1) \subseteq Party /\ Having(f, b) \subseteq Party
        /\ Having(tape.lam, b) \subseteq Party
    BY <1>2 DEF Having
  <2> HIDE DEF f
  <2>3. Having(f, b + 1) = Xor(Having(f, b), Having(tape.lam, b))
    <3>1. \A A, B, C : /\ A \subseteq Party /\ B \subseteq Party /\ C \subseteq Party
                       /\ \A p \in Party : p \in A <=> ~(p \in B <=> p \in C)
                       => A = Xor(B, C)
      BY DEF Xor
    <3> QED BY <2>1, <2>2, <3>1, Zenon
  <2>4. IsFiniteSet(Having(f, b)) /\ IsFiniteSet(Having(tape.lam, b))
    BY <2>2, FS_Subset, GateParameters
  <2>5. Odd(Having(f, b + 1)) <=> ~(Odd(Having(f, b)) <=> Odd(Having(tape.lam, b)))
    BY <2>3, <2>4, OddXor
  <2> QED BY <1>5, <2>5, XorOfIs
<1>6. XorOf(f) = CarryMask(tape)
  BY DEF CarryMask
<1> HIDE DEF f
<1>7. \A b \in Bits : [c \in Word |-> XorOf(tape.lam)][CarryMask(tape)] = XorOf(tape.lam)
  BY <1>3
<1> QED BY <1>3, <1>4, <1>5, <1>6, <1>7 DEF Ripple

LEMMA CarriedIs ==
  ASSUME NEW P \in SUBSET Party, NEW x \in Masked(P), NEW tape \in Tape, NEW c \in Word
  PROVE  /\ Carried(x, tape, c) \in Masked(P)
         /\ Carried(x, tape, c).h = Xor(x.h, c)
         /\ Carried(x, tape, c).l = [p \in P |-> Xor(x.l[p], PrefixXorShift(tape.lam[p]))]
<1>1. DOMAIN x.l = P /\ x.h \in Word /\ \A p \in P : x.l[p] \in Word /\ tape.lam[p] \in Word
  BY DEF Masked, Tape
<1>2. Xor(x.h, c) \in Word
  BY <1>1, WordOps
<1>3. \A p \in P : Xor(x.l[p], PrefixXorShift(tape.lam[p])) \in Word
  BY <1>1, WordOps, PrefixRipples
<1> QED BY <1>1, <1>2, <1>3 DEF Carried, Masked

LEMMA CarriedUnmask ==
  ASSUME NEW x \in Masked(Party), NEW tape \in Tape, NEW c \in Word, NEW b
  PROVE  b \in Unmask(Carried(x, tape, c))
         <=> ~(b \in Unmask(x) <=> b \in Xor(c, CarryMask(tape)))
<1> DEFINE f == [p \in Party |-> PrefixXorShift(tape.lam[p])]
<1>1. Carried(x, tape, c).h = Xor(x.h, c)
      /\ Carried(x, tape, c).l = [p \in Party |-> Xor(x.l[p], f[p])]
  <2>1. Party \in SUBSET Party
    OBVIOUS
  <2> QED BY <2>1, CarriedIs
<1>2. x.l = [p \in Party |-> x.l[p]] /\ f = [p \in Party |-> f[p]]
  BY DEF Masked
<1>3. XorOf(f) = CarryMask(tape)
  BY DEF CarryMask
<1> HIDE DEF f
<1>4. XorOf(Carried(x, tape, c).l) = Xor(XorOf(x.l), XorOf(f))
  <2>1. XorOf([p \in Party |-> Xor(x.l[p], f[p])])
        = Xor(XorOf([p \in Party |-> x.l[p]]), XorOf([p \in Party |-> f[p]]))
    BY GateParameters, XorOfXor
  <2> QED BY <1>1, <1>2, <2>1, Zenon
<1> QED BY <1>1, <1>3, <1>4, XorIn DEF Unmask

LEMMA SlotType ==
  ASSUME NEW P \in SUBSET Party, NEW x \in Masked(P), NEW y \in Masked(P),
         NEW tape \in Tape, NEW corr \in Word
  PROVE  Slots(x, y, tape, corr) \in [P -> Word]
<1>1. DOMAIN x.l = P /\ x.h \in Word /\ y.h \in Word
      /\ \A p \in P : x.l[p] \in Word /\ y.l[p] \in Word /\ tape.prod[p] \in Word /\ tape.lam[p] \in Word
  BY DEF Masked, Tape
<1>2. ASSUME NEW p \in P
      PROVE  Broadcast(p, x.h, y.h, x.l[p], y.l[p], tape.prod[p], tape.lam[p], corr) \in Word
  <2>1. x.h \cap y.l[p] \in Word /\ y.h \cap x.l[p] \in Word /\ x.h \cap y.h \in Word
    BY <1>1, WordOps
  <2>2. Xor(x.h \cap y.l[p], y.h \cap x.l[p]) \in Word /\ Xor(tape.prod[p], tape.lam[p]) \in Word
        /\ Xor(x.h \cap y.h, corr) \in Word
    BY <1>1, <2>1, WordOps
  <2> QED BY <2>2, WordOps DEF Broadcast
<1> QED BY <1>1, <1>2 DEF Slots

\* The verifier makes the broadcasts of all parties but the hidden one, with or
\* without the correction of party 0.
LEMMA SlotsSeen ==
  ASSUME NEW x \in Masked(Party), NEW y \in Masked(Party), NEW tape \in Tape,
         NEW corr \in Word, NEW e \in Party
  PROVE  /\ GateSeen(x, e) \in Masked(Party \ {e})
         /\ Slots(GateSeen(x, e), GateSeen(y, e), tape, AuxFor(e, corr))
            = Others(Slots(x, y, tape, corr), e)
<1> DEFINE u == GateSeen(x, e)
           v == GateSeen(y, e)
<1>1. DOMAIN x.l = Party /\ x.h \in Word /\ \A p \in Party : x.l[p] \in Word
  BY DEF Masked
<1>2. GateSeen(x, e) \in Masked(Party \ {e})
  BY <1>1 DEF GateSeen, Masked
<1>3. /\ u.h = x.h /\ v.h = y.h /\ DOMAIN u.l = Party \ {e}
      /\ \A p \in Party \ {e} : u.l[p] = x.l[p] /\ v.l[p] = y.l[p]
  BY DEF GateSeen
<1> HIDE DEF u, v
<1>4. \A p \in Party \ {e} : p = 0 => AuxFor(e, corr) = corr
  BY DEF AuxFor
<1>5. \A p \in Party \ {e} :
         Broadcast(p, u.h, v.h, u.l[p], v.l[p], tape.prod[p], tape.lam[p], AuxFor(e, corr))
         = Broadcast(p, x.h, y.h, x.l[p], y.l[p], tape.prod[p], tape.lam[p], corr)
  BY <1>3, <1>4 DEF Broadcast
<1>6. \A p \in Party \ {e} : Slots(x, y, tape, corr)[p]
         = Broadcast(p, x.h, y.h, x.l[p], y.l[p], tape.prod[p], tape.lam[p], corr)
  BY <1>1 DEF Slots
<1>7. Slots(u, v, tape, AuxFor(e, corr))
      = [p \in Party \ {e} |->
           Broadcast(p, u.h, v.h, u.l[p], v.l[p], tape.prod[p], tape.lam[p], AuxFor(e, corr))]
  BY <1>3 DEF Slots
<1>8. Slots(u, v, tape, AuxFor(e, corr)) = Others(Slots(x, y, tape, corr), e)
  BY <1>5, <1>6, <1>7 DEF Others
<1> QED BY <1>2, <1>8 DEF u, v

LEMMA CarriedSeen ==
  ASSUME NEW x \in Masked(Party), NEW tape \in Tape, NEW c \in Word, NEW e \in Party
  PROVE  Carried(GateSeen(x, e), tape, c) = GateSeen(Carried(x, tape, c), e)
<1>1. DOMAIN x.l = Party
  BY DEF Masked
<1>2. DOMAIN GateSeen(x, e).l = Party \ {e} /\ GateSeen(x, e).h = x.h
      /\ \A p \in Party \ {e} : GateSeen(x, e).l[p] = x.l[p]
  BY DEF GateSeen
<1>3. Carried(GateSeen(x, e), tape, c)
      = [h |-> Xor(x.h, c),
         l |-> [p \in Party \ {e} |-> Xor(x.l[p], PrefixXorShift(tape.lam[p]))]]
  BY <1>2 DEF Carried
<1>4. Carried(x, tape, c).h = Xor(x.h, c)
      /\ \A p \in Party \ {e} :
            Carried(x, tape, c).l[p] = Xor(x.l[p], PrefixXorShift(tape.lam[p]))
  BY <1>1 DEF Carried
<1> QED BY <1>3, <1>4 DEF GateSeen

LEMMA SumSeen ==
  ASSUME NEW x \in Masked(Party), NEW y \in Masked(Party), NEW tape \in Tape,
         NEW c \in Word, NEW e \in Party
  PROVE  SumWith(GateSeen(x, e), GateSeen(y, e), tape, c) = GateSeen(SumWith(x, y, tape, c), e)
<1> DEFINE u == GateSeen(x, e)
           v == GateSeen(y, e)
           f == Carried(x, tape, c).l
<1>1. DOMAIN x.l = Party
  BY DEF Masked
<1>2. /\ u.h = x.h /\ v.h = y.h /\ DOMAIN u.l = Party \ {e}
      /\ \A p \in Party \ {e} : v.l[p] = y.l[p]
  BY DEF GateSeen
<1>3. \A p \in Party \ {e} : Carried(u, tape, c).l[p] = f[p]
  <2>1. Carried(u, tape, c) = GateSeen(Carried(x, tape, c), e)
    BY CarriedSeen
  <2> DEFINE z == Carried(x, tape, c)
  <2> HIDE DEF u, z
  <2>2. \A p \in Party \ {e} : GateSeen(z, e).l[p] = z.l[p]
    BY DEF GateSeen
  <2> QED BY <2>1, <2>2 DEF z
<1>4. SumWith(x, y, tape, c).h = Xor(Xor(x.h, y.h), c)
      /\ \A p \in Party \ {e} : SumWith(x, y, tape, c).l[p] = Xor(f[p], y.l[p])
  BY <1>1 DEF SumWith
<1> HIDE DEF u, v, f
<1>5. SumWith(u, v, tape, c)
      = [h |-> Xor(Xor(x.h, y.h), c), l |-> [p \in Party \ {e} |-> Xor(f[p], y.l[p])]]
  BY <1>2, <1>3 DEF SumWith
<1>6. SumWith(u, v, tape, c) = GateSeen(SumWith(x, y, tape, c), e)
  BY <1>4, <1>5 DEF GateSeen
<1> QED BY <1>6 DEF u, v

-----------------------------------------------------------------------------
(* mpc_AND                                                                 *)

LEMMA CorrectionType == \A x, y, tape : Correction(x, y, tape) \in Word
<1>1. \A x, y, tape : XorOf(x.l) \in Word /\ XorOf(y.l) \in Word /\ XorOf(tape.prod) \in Word
  BY XorOfType
<1> QED BY <1>1, WordOps DEF Correction

LEMMA AndUnmasks ==
  ASSUME NEW x \in Masked(Party), NEW y \in Masked(Party), NEW tape \in Tape
  PROVE  Unmask(ProveAnd(x, y, tape).z) = Unmask(x) \cap Unmask(y)
<1> DEFINE corr == Correction(x, y, tape)
           s == Slots(x, y, tape, corr)
<1>1. ProveAnd(x, y, tape).z.h = XorOf(s) /\ ProveAnd(x, y, tape).z.l = tape.lam
  BY DEF ProveAnd
<1>2. corr \in Word
  BY CorrectionType
<1>3. \A b : b \in XorOf(s) <=> ~((b \in Unmask(x) /\ b \in Unmask(y)) <=> b \in XorOf(tape.lam))
  <2> HIDE DEF corr
  <2> SUFFICES ASSUME NEW b
               PROVE  b \in XorOf(s)
                      <=> ~((b \in Unmask(x) /\ b \in Unmask(y)) <=> b \in XorOf(tape.lam))
    OBVIOUS
  <2>1. b \in corr <=> b \in Correction(x, y, tape)
    BY DEF corr
  <2> QED BY <1>2, <2>1, ProductBit
<1> HIDE DEF s
<1>4. \A b : b \in Unmask(ProveAnd(x, y, tape).z) <=> ~(b \in XorOf(s) <=> b \in XorOf(tape.lam))
  BY <1>1, XorIn DEF Unmask
<1> QED BY <1>3, <1>4

LEMMA AndSeen ==
  ASSUME NEW x \in Masked(Party), NEW y \in Masked(Party), NEW tape \in Tape,
         NEW e \in Party, NEW me \in Word
  PROVE  LET g == ProveAnd(x, y, tape)
             run == VerifyAnd(GateSeen(x, e), GateSeen(y, e), tape, e, me, AuxFor(e, g.aux))
         IN  /\ g.s \in [Party -> Word]
             /\ run.s = Others(g.s, e)
             /\ me = g.s[e] => run = [z |-> GateSeen(g.z, e), s |-> Others(g.s, e)]
<1> DEFINE corr == Correction(x, y, tape)
           s == Slots(x, y, tape, corr)
           u == GateSeen(x, e)
           v == GateSeen(y, e)
           run == VerifyAnd(u, v, tape, e, me, AuxFor(e, corr))
<1>1. ProveAnd(x, y, tape) = [z |-> [h |-> XorOf(s), l |-> tape.lam], aux |-> corr, s |-> s]
  BY DEF ProveAnd
<1>2. s \in [Party -> Word]
  <2>1. corr \in Word /\ Party \in SUBSET Party
    BY CorrectionType
  <2> HIDE DEF corr
  <2> QED BY <2>1, SlotType
<1>3. Slots(u, v, tape, AuxFor(e, corr)) = Others(s, e)
  <2>1. corr \in Word
    BY CorrectionType
  <2> HIDE DEF corr
  <2> QED BY <2>1, SlotsSeen
<1>4. DOMAIN u.l = Party \ {e}
  BY DEF GateSeen
<1> HIDE DEF corr, s, u, v
<1>5. run = [z |-> [h |-> Xor(me, XorOf(Others(s, e))),
                    l |-> [p \in Party \ {e} |-> tape.lam[p]]],
             s |-> Others(s, e)]
  BY <1>3, <1>4 DEF VerifyAnd
<1> HIDE DEF run
<1>6. XorOf(s) = Xor(s[e], XorOf(Others(s, e)))
  BY <1>2, XorOfSplit DEF Others
<1>7. GateSeen([h |-> XorOf(s), l |-> tape.lam], e)
      = [h |-> XorOf(s), l |-> [p \in Party \ {e} |-> tape.lam[p]]]
  BY DEF GateSeen
<1>8. run.s = Others(s, e)
  BY <1>5
<1>9. me = s[e] => run = [z |-> GateSeen([h |-> XorOf(s), l |-> tape.lam], e), s |-> Others(s, e)]
  BY <1>5, <1>6, <1>7
<1>10. ProveAnd(x, y, tape).aux = corr /\ ProveAnd(x, y, tape).s = s
       /\ ProveAnd(x, y, tape).z = [h |-> XorOf(s), l |-> tape.lam]
  BY <1>1
<1> QED BY <1>2, <1>8, <1>9, <1>10 DEF run, u, v

-----------------------------------------------------------------------------
(* mpc_ADD                                                                 *)

\* The correction of an addition, and the carries that the prover masks.
AddCorr(x, y, tape) ==
    Correction(Carried(x, tape, {}), Carried(y, tape, {}), tape) \ {W - 1}
ProverCarries(x, y, tape) == Xor(Carries(Unmask(x), Unmask(y)), CarryMask(tape))

\* Broadcasts with some carries.
SlotsWith(x, y, tape, corr, c) == Slots(Carried(x, tape, c), Carried(y, tape, c), tape, corr)

\* The sum of all that is sent, of what some parties send and me, and of what
\* all but e send and me, with some carries.
Sent(x, y, tape, corr) == [c \in Word |-> XorOf(SlotsWith(x, y, tape, corr, c))]
Told(x, y, tape, aux, me) == [c \in Word |-> Xor(me, XorOf(SlotsWith(x, y, tape, aux, c)))]
Filled(x, y, tape, corr, e, me) ==
    [c \in Word |-> Xor(me, XorOf(Others(SlotsWith(x, y, tape, corr, c), e)))]

LEMMA UnmaskType == \A x : x.h \in Word => Unmask(x) \in Word
<1>1. \A x : XorOf(x.l) \in Word
  BY XorOfType
<1> QED BY <1>1, WordOps DEF Unmask

LEMMA ProverCarriesType ==
  ASSUME NEW x \in Masked(Party), NEW y \in Masked(Party), NEW tape \in Tape
  PROVE  /\ ProverCarries(x, y, tape) \in Word
         /\ AddCorr(x, y, tape) \in Word
<1>1. Unmask(x) \in Word /\ Unmask(y) \in Word
  BY UnmaskType DEF Masked
<1>2. Carries(Unmask(x), Unmask(y)) \in Word
  BY <1>1, CarriesRipple
<1>3. CarryMask(tape) \in Word
  BY XorOfType DEF CarryMask
<1> QED BY <1>2, <1>3, WordOps, CorrectionType DEF ProverCarries, AddCorr

LEMMA ProveAddIs ==
  ASSUME NEW x \in Masked(Party), NEW y \in Masked(Party), NEW tape \in Tape
  PROVE  LET c == ProverCarries(x, y, tape)
         IN  ProveAdd(x, y, tape) = [z |-> SumWith(x, y, tape, c),
                                     aux |-> AddCorr(x, y, tape),
                                     s |-> SlotsWith(x, y, tape, AddCorr(x, y, tape), c)]
<1>1. \A c, d : Carried(x, tape, c).l = Carried(x, tape, d).l
                /\ Carried(y, tape, c).l = Carried(y, tape, d).l
  BY DEF Carried
<1>2. \A c : Correction(Carried(x, tape, c), Carried(y, tape, c), tape) \ {W - 1}
             = AddCorr(x, y, tape)
  BY <1>1 DEF Correction, AddCorr
<1>3. ProverCarries(x, y, tape)
      = Xor(Xor(Xor(Sum(Unmask(x), Unmask(y)), Unmask(x)), Unmask(y)),
            XorOf([p \in Party |-> PrefixXorShift(tape.lam[p])]))
  BY DEF ProverCarries, Carries, CarryMask
<1> QED BY <1>2, <1>3, Zenon DEF ProveAdd, SlotsWith

\* Bit by bit the broadcasts depend on the carries.
LEMMA JointByBits ==
  ASSUME NEW P \in SUBSET Party, NEW x \in Masked(P), NEW y \in Masked(P),
         NEW tape \in Tape, NEW e \in Nat, NEW corr \in Word, 0 \in P <=> e # 0
  PROVE  /\ \A c \in Word : XorOf(SlotsWith(x, y, tape, corr, c))
                = Joint(Carried(x, tape, c), Carried(y, tape, c), tape, e, corr)
         /\ BitByBit(Sent(x, y, tape, corr))
         /\ \A me \in Word : BitByBit(Told(x, y, tape, corr, me))
<1> DEFINE J(c) == Joint(Carried(x, tape, c), Carried(y, tape, c), tape, e, corr)
           S(c) == XorOf(SlotsWith(x, y, tape, corr, c))
<1>1. ASSUME NEW c \in Word PROVE S(c) = J(c)
  <2>1. Carried(x, tape, c) \in Masked(P) /\ Carried(y, tape, c) \in Masked(P)
    BY CarriedIs
  <2> QED BY <2>1, JointIs DEF SlotsWith
<1>2. ASSUME NEW c \in Word, NEW d \in Word, NEW b \in Bits, b \in c <=> b \in d
      PROVE  b \in J(c) <=> b \in J(d)
  <2>1. Carried(x, tape, c).l = Carried(x, tape, d).l /\ Carried(y, tape, c).l = Carried(y, tape, d).l
        /\ DOMAIN Carried(x, tape, c).l = DOMAIN Carried(x, tape, d).l
    BY DEF Carried
  <2>2. PICK l, m : l = Carried(x, tape, c).l /\ m = Carried(y, tape, c).l
    OBVIOUS
  <2>3. (b \in Carried(x, tape, c).h <=> b \in Carried(x, tape, d).h)
        /\ (b \in Carried(y, tape, c).h <=> b \in Carried(y, tape, d).h)
    <3>1. Carried(x, tape, c).h = Xor(x.h, c) /\ Carried(x, tape, d).h = Xor(x.h, d)
          /\ Carried(y, tape, c).h = Xor(y.h, c) /\ Carried(y, tape, d).h = Xor(y.h, d)
      BY DEF Carried
    <3> QED BY <1>2, <3>1, XorIn
  <2>4. PICK k : k = IF e = 0 THEN 1 ELSE 0
    OBVIOUS
  <2>5. PICK i, j : i = XorOf([p \in DOMAIN l |-> tape.prod[p]])
                    /\ j = XorOf([p \in DOMAIN l |-> tape.lam[p]])
    OBVIOUS
  <2>6. J(c) = Broadcast(k, Carried(x, tape, c).h, Carried(y, tape, c).h, XorOf(l), XorOf(m), i, j, corr)
    BY <2>2, <2>4, <2>5 DEF Joint
  <2>7. J(d) = Broadcast(k, Carried(x, tape, d).h, Carried(y, tape, d).h, XorOf(l), XorOf(m), i, j, corr)
    BY <2>1, <2>2, <2>4, <2>5 DEF Joint
  <2>8. \A v, w, t, u, n, o : (b \in v <=> b \in t) /\ (b \in w <=> b \in u)
           => (b \in Broadcast(k, v, w, n, o, i, j, corr) <=> b \in Broadcast(k, t, u, n, o, i, j, corr))
    BY DEF Broadcast, Xor
  <2> QED BY <2>3, <2>6, <2>7, <2>8
<1>3. \A c \in Word : S(c) \in Word
  BY XorOfType
<1>4. \A c, d \in Word : \A b \in Bits : (b \in c <=> b \in d) => (b \in S(c) <=> b \in S(d))
  BY <1>1, <1>2
<1> HIDE DEF S, J
<1>5. BitByBit([c \in Word |-> S(c)])
  BY <1>3, <1>4 DEF BitByBit
<1>6. ASSUME NEW me \in Word PROVE BitByBit([c \in Word |-> Xor(me, S(c))])
  <2>1. \A c \in Word : Xor(me, S(c)) \in Word
    BY <1>3, WordOps
  <2>2. \A c, d \in Word : \A b \in Bits : (b \in c <=> b \in d)
           => (b \in Xor(me, S(c)) <=> b \in Xor(me, S(d)))
    BY <1>4, XorIn
  <2> QED BY <2>1, <2>2 DEF BitByBit
<1>7. \A c \in Word : S(c) = J(c)
  BY <1>1
<1> QED BY <1>5, <1>6, <1>7 DEF S, J, Sent, Told

\* The prover's carries are the ones that the broadcasts make.
LEMMA ProverRipples ==
  ASSUME NEW x \in Masked(Party), NEW y \in Masked(Party), NEW tape \in Tape
  PROVE  Ripple(Sent(x, y, tape, AddCorr(x, y, tape)), ProverCarries(x, y, tape))
<1> DEFINE v == Unmask(x)
           w == Unmask(y)
           k == Carries(v, w)
           m == CarryMask(tape)
           ch == ProverCarries(x, y, tape)
           corr == AddCorr(x, y, tape)
           S == XorOf(SlotsWith(x, y, tape, corr, ch))
<1>1. v \in Word /\ w \in Word
  BY UnmaskType DEF Masked
<1>2. ch \in Word /\ corr \in Word
  BY ProverCarriesType
<1>3. \A b : b \in ch <=> ~(b \in k <=> b \in m)
  BY XorIn DEF ProverCarries
<1>4. m \in Word /\ 0 \notin m
      /\ \A b \in Bits : b + 1 \in Bits => (b + 1 \in m <=> ~(b \in m <=> b \in XorOf(tape.lam)))
  <2>1. Ripple([c \in Word |-> XorOf(tape.lam)], m)
    BY MaskRipples
  <2> HIDE DEF m
  <2> QED BY <2>1 DEF Ripple
<1>5. 0 \notin k
      /\ \A b \in Bits : b + 1 \in Bits =>
            (b + 1 \in k <=> ~(b \in k <=> (~(b \in v <=> b \in k) /\ ~(b \in w <=> b \in k))))
  <2> HIDE DEF v, w
  <2> QED BY <1>1, CarriesRipple
<1>6. ASSUME NEW b \in Bits, b + 1 \in Bits
      PROVE  b \in S <=> ~((~(b \in v <=> b \in k) /\ ~(b \in w <=> b \in k)) <=> b \in XorOf(tape.lam))
  <2> DEFINE cx == Carried(x, tape, ch)
             cy == Carried(y, tape, ch)
  <2>1. cx \in Masked(Party) /\ cy \in Masked(Party)
    <3>1. Party \in SUBSET Party
      OBVIOUS
    <3> HIDE DEF ch
    <3> QED BY <1>2, <3>1, CarriedIs
  <2>2. cx.l = Carried(x, tape, {}).l /\ cy.l = Carried(y, tape, {}).l
    BY DEF Carried
  <2>3. b # W - 1
    BY <1>6, GateParameters
  <2>4. b \in corr <=> b \in Correction(cx, cy, tape)
    <3>1. Correction(cx, cy, tape) = Correction(Carried(x, tape, {}), Carried(y, tape, {}), tape)
      BY <2>2 DEF Correction
    <3> QED BY <2>3, <3>1 DEF AddCorr
  <2>5. b \in Unmask(cx) <=> ~(b \in v <=> b \in Xor(ch, m))
    <3> HIDE DEF ch
    <3> QED BY <1>2, CarriedUnmask
  <2>6. b \in Unmask(cy) <=> ~(b \in w <=> b \in Xor(ch, m))
    <3> HIDE DEF ch
    <3> QED BY <1>2, CarriedUnmask
  <2>7. b \in Xor(ch, m) <=> b \in k
    <3> HIDE DEF ch, m, k
    <3> QED BY <1>3, XorIn
  <2>8. S = XorOf(Slots(cx, cy, tape, corr))
    BY DEF SlotsWith
  <2> HIDE DEF cx, cy, corr, S, ch, k, v, w, m
  <2>9. b \in XorOf(Slots(cx, cy, tape, corr))
        <=> ~((b \in Unmask(cx) /\ b \in Unmask(cy)) <=> b \in XorOf(tape.lam))
    BY <1>2, <2>1, <2>4, ProductBit
  <2> QED BY <2>5, <2>6, <2>7, <2>8, <2>9
<1>7. Sent(x, y, tape, corr)[ch] = S
  BY <1>2 DEF Sent
<1> HIDE DEF v, w, k, m, ch, S
<1>8. \A b \in Bits : b + 1 \in Bits => (b + 1 \in ch <=> ~(b \in ch <=> b \in S))
  BY <1>3, <1>4, <1>5, <1>6
<1>9. 0 \notin ch
  BY <1>3, <1>4, <1>5
<1> QED BY <1>2, <1>7, <1>8, <1>9 DEF Ripple, ch, corr

\* The masked sum.
LEMMA AddUnmasks ==
  ASSUME NEW x \in Masked(Party), NEW y \in Masked(Party), NEW tape \in Tape
  PROVE  Unmask(SumWith(x, y, tape, ProverCarries(x, y, tape))) = Sum(Unmask(x), Unmask(y))
<1> DEFINE ch == ProverCarries(x, y, tape)
           f == [p \in Party |-> PrefixXorShift(tape.lam[p])]
           lx == [p \in Party |-> Xor(x.l[p], f[p])]
           z == SumWith(x, y, tape, ch)
<1>1. DOMAIN x.l = Party /\ x.l = [p \in Party |-> x.l[p]] /\ y.l = [p \in Party |-> y.l[p]]
  BY DEF Masked
<1>2. Carried(x, tape, ch).l = lx
  BY <1>1 DEF Carried
<1>3. z.h = Xor(Xor(x.h, y.h), ch) /\ z.l = [p \in Party |-> Xor(lx[p], y.l[p])]
  BY <1>1, <1>2 DEF SumWith
<1>4. XorOf(f) = CarryMask(tape) /\ f = [p \in Party |-> f[p]] /\ lx = [p \in Party |-> lx[p]]
  BY DEF CarryMask
<1>5. XorOf(lx) = Xor(XorOf(x.l), XorOf(f))
  <2> HIDE DEF f
  <2>1. XorOf([p \in Party |-> Xor(x.l[p], f[p])])
        = Xor(XorOf([p \in Party |-> x.l[p]]), XorOf([p \in Party |-> f[p]]))
    BY GateParameters, XorOfXor
  <2> QED BY <1>1, <1>4, <2>1, Zenon DEF lx
<1> HIDE DEF f, lx
<1>6. XorOf(z.l) = Xor(XorOf(lx), XorOf(y.l))
  <2>1. XorOf([p \in Party |-> Xor(lx[p], y.l[p])])
        = Xor(XorOf([p \in Party |-> lx[p]]), XorOf([p \in Party |-> y.l[p]]))
    BY GateParameters, XorOfXor
  <2> QED BY <1>1, <1>3, <1>4, <2>1, Zenon
<1> DEFINE v == Unmask(x)
           w == Unmask(y)
<1>7. \A b : b \in ch <=> ~(~(~(b \in Sum(v, w) <=> b \in v) <=> b \in w) <=> b \in XorOf(f))
  BY <1>4, XorIn DEF ProverCarries, Carries
<1>8. \A b : (b \in v <=> ~(b \in x.h <=> b \in XorOf(x.l)))
             /\ (b \in w <=> ~(b \in y.h <=> b \in XorOf(y.l)))
  BY XorIn DEF Unmask
<1> HIDE DEF v, w, ch, z
<1>9. \A b : b \in z.h <=> ~(~(b \in x.h <=> b \in y.h) <=> b \in ch)
  BY <1>3, XorIn
<1>10. \A b : b \in XorOf(z.l) <=> ~(~(b \in XorOf(x.l) <=> b \in XorOf(f)) <=> b \in XorOf(y.l))
  BY <1>5, <1>6, XorIn
<1>11. \A b : b \in Unmask(z) <=> b \in Sum(v, w)
  <2> SUFFICES ASSUME NEW b PROVE b \in Unmask(z) <=> b \in Sum(v, w)
    OBVIOUS
  <2>1. b \in Unmask(z) <=> ~(b \in z.h <=> b \in XorOf(z.l))
    BY XorIn DEF Unmask
  <2> QED BY <1>7, <1>8, <1>9, <1>10, <2>1
<1>12. Unmask(z) = Sum(v, w)
  BY <1>11
<1> QED BY <1>12 DEF z, v, w, ch

\* mpc_ADD_verify finds the carries that ripple from the broadcasts of the
\* others and from the one it is told.
LEMMA VerifyAddIs ==
  ASSUME NEW e \in Party, NEW x \in Masked(Party \ {e}), NEW y \in Masked(Party \ {e}),
         NEW tape \in Tape, NEW me \in Word, NEW aux \in Word
  PROVE  \E d : /\ Ripple(Told(x, y, tape, aux, me), d)
                /\ VerifyAdd(x, y, tape, e, me, aux)
                   = [z |-> SumWith(x, y, tape, d), s |-> SlotsWith(x, y, tape, aux, d)]
<1> DEFINE R == Told(x, y, tape, aux, me)
           Reveal(c) == Xor(me, Joint(Carried(x, tape, c), Carried(y, tape, c), tape, e, aux))
           Carry(c, b) == IF (b \in c) # (b \in Reveal(c)) THEN c \cup {b + 1} ELSE c
           carries == CHOOSE g : g = [b \in Bits |-> IF b = 0 THEN {} ELSE Carry(g[b - 1], b - 1)]
           d == carries[W - 1]
<1>1. 0 \in Party \ {e} <=> e # 0
  BY GateParameters
<1>2. BitByBit(R) /\ \A c \in Word : R[c] = Reveal(c)
  <2> DEFINE P == Party \ {e}
  <2>1. P \in SUBSET Party /\ x \in Masked(P) /\ y \in Masked(P) /\ (0 \in P <=> e # 0) /\ e \in Nat
    BY <1>1, GateParameters
  <2> HIDE DEF P
  <2>2. \A c \in Word : XorOf(SlotsWith(x, y, tape, aux, c))
           = Joint(Carried(x, tape, c), Carried(y, tape, c), tape, e, aux)
    BY <2>1, JointByBits
  <2>3. BitByBit(R)
    BY <2>1, JointByBits
  <2>4. \A c \in Word : R[c] = Xor(me, XorOf(SlotsWith(x, y, tape, aux, c)))
    BY DEF Told
  <2> QED BY <2>2, <2>3, <2>4
<1> HIDE DEF R, Reveal
<1>3. PICK g : g = [b \in Bits |-> IF b = 0 THEN {} ELSE RippleNext(R, g[b - 1], b - 1)]
  BY <1>2, RippleExists
<1>4. \A b \in Bits : g[b] = IF b = 0 THEN {} ELSE RippleNext(R, g[b - 1], b - 1)
  BY <1>3, Zenon
<1>5. (\A b \in Bits : g[b] \in Word) /\ Ripple(R, g[W - 1])
  BY <1>2, <1>4, RippleMade
<1>6. \A c \in Word : \A b : RippleNext(R, c, b) = Carry(c, b)
  BY <1>2 DEF RippleNext
<1> HIDE DEF Carry
<1>7. \A b \in Bits : b # 0 => b - 1 \in Bits
  BY GateParameters
<1>8. \A b \in Bits : g[b] = IF b = 0 THEN {} ELSE Carry(g[b - 1], b - 1)
  BY <1>4, <1>5, <1>6, <1>7
<1>9. g = [b \in Bits |-> IF b = 0 THEN {} ELSE Carry(g[b - 1], b - 1)]
  <2>1. g = [b \in Bits |-> g[b]]
    BY <1>3, Zenon
  <2> QED BY <1>8, <2>1, Zenon
<1>10. carries = [b \in Bits |-> IF b = 0 THEN {} ELSE Carry(carries[b - 1], b - 1)]
  BY <1>9, Zenon
<1>11. \A b \in Bits : carries[b] = IF b = 0 THEN {} ELSE Carry(carries[b - 1], b - 1)
  BY <1>10, Zenon
<1> HIDE DEF carries
<1> DEFINE T == {b \in Nat : b \in Bits => carries[b] = g[b]}
<1>12. 0 \in T
  BY <1>8, <1>11
<1>13. ASSUME NEW b \in T PROVE b + 1 \in T
  <2>1. SUFFICES ASSUME b + 1 \in Bits PROVE carries[b + 1] = g[b + 1]
    BY <1>13
  <2>2. b \in Nat /\ b \in Bits /\ b + 1 # 0 /\ (b + 1) - 1 = b
    BY <1>13, <2>1, GateParameters
  <2>3. carries[b] = g[b]
    BY <1>13, <2>2
  <2>4. carries[b + 1] = Carry(carries[b], b)
    BY <1>11, <2>1, <2>2
  <2>5. g[b + 1] = Carry(g[b], b)
    BY <1>8, <2>1, <2>2
  <2> QED BY <2>3, <2>4, <2>5
<1>14. T = Nat
  <2> HIDE DEF T
  <2>1. T \in SUBSET Nat
    BY DEF T
  <2> QED BY <1>12, <1>13, <2>1, NatSetInduction
<1>15. d = g[W - 1]
  BY <1>14, GateParameters
<1>16. VerifyAdd(x, y, tape, e, me, aux)
       = [z |-> SumWith(x, y, tape, d), s |-> SlotsWith(x, y, tape, aux, d)]
  BY DEF VerifyAdd, SlotsWith, carries, Carry, Reveal
<1> HIDE DEF d
<1>17. Ripple(R, d)
  BY <1>5, <1>15
<1> QED BY <1>16, <1>17 DEF R

LEMMA SlotsWithSeen ==
  ASSUME NEW x \in Masked(Party), NEW y \in Masked(Party), NEW tape \in Tape,
         NEW corr \in Word, NEW e \in Party, NEW c \in Word
  PROVE  SlotsWith(GateSeen(x, e), GateSeen(y, e), tape, AuxFor(e, corr), c)
         = Others(SlotsWith(x, y, tape, corr, c), e)
<1> DEFINE cx == Carried(x, tape, c)
           cy == Carried(y, tape, c)
<1>1. Carried(GateSeen(x, e), tape, c) = GateSeen(cx, e)
      /\ Carried(GateSeen(y, e), tape, c) = GateSeen(cy, e)
  BY CarriedSeen
<1>2. cx \in Masked(Party) /\ cy \in Masked(Party)
  <2>1. Party \in SUBSET Party
    OBVIOUS
  <2> QED BY <2>1, CarriedIs
<1>3. SlotsWith(x, y, tape, corr, c) = Slots(cx, cy, tape, corr)
  BY DEF SlotsWith
<1> HIDE DEF cx, cy
<1>4. Slots(GateSeen(cx, e), GateSeen(cy, e), tape, AuxFor(e, corr))
      = Others(Slots(cx, cy, tape, corr), e)
  BY <1>2, SlotsSeen
<1> QED BY <1>1, <1>3, <1>4 DEF SlotsWith

\* In terms of what all parties broadcast.
LEMMA AddSeen ==
  ASSUME NEW x \in Masked(Party), NEW y \in Masked(Party), NEW tape \in Tape,
         NEW e \in Party, NEW me \in Word, NEW corr \in Word
  PROVE  \E d : /\ Ripple(Filled(x, y, tape, corr, e, me), d)
                /\ VerifyAdd(GateSeen(x, e), GateSeen(y, e), tape, e, me, AuxFor(e, corr))
                   = [z |-> GateSeen(SumWith(x, y, tape, d), e),
                      s |-> Others(SlotsWith(x, y, tape, corr, d), e)]
<1> DEFINE u == GateSeen(x, e)
           v == GateSeen(y, e)
           aux == AuxFor(e, corr)
<1>1. u \in Masked(Party \ {e}) /\ v \in Masked(Party \ {e})
  BY SlotsSeen
<1>2. aux \in Word
  BY WordOps DEF AuxFor
<1>3. \A c \in Word : SlotsWith(u, v, tape, aux, c) = Others(SlotsWith(x, y, tape, corr, c), e)
  BY SlotsWithSeen
<1>4. \A c \in Word : SumWith(u, v, tape, c) = GateSeen(SumWith(x, y, tape, c), e)
  BY SumSeen
<1> HIDE DEF u, v, aux
<1>5. PICK d : /\ Ripple(Told(u, v, tape, aux, me), d)
               /\ VerifyAdd(u, v, tape, e, me, aux)
                  = [z |-> SumWith(u, v, tape, d), s |-> SlotsWith(u, v, tape, aux, d)]
  BY <1>1, <1>2, VerifyAddIs
<1>6. d \in Word
  BY <1>5 DEF Ripple
<1>7. Told(u, v, tape, aux, me) = Filled(x, y, tape, corr, e, me)
  BY <1>3 DEF Told, Filled
<1>8. Ripple(Filled(x, y, tape, corr, e, me), d)
  BY <1>5, <1>7
<1>9. VerifyAdd(u, v, tape, e, me, aux)
      = [z |-> GateSeen(SumWith(x, y, tape, d), e), s |-> Others(SlotsWith(x, y, tape, corr, d), e)]
  BY <1>3, <1>4, <1>5, <1>6
<1> QED BY <1>8, <1>9 DEF u, v, aux

-----------------------------------------------------------------------------
(* What the protocol needs                                                 *)

LEMMA MaskedWords ==
  /\ MaskedWord \subseteq Masked(Party)
  /\ Tapes \subseteq Tape
BY GateAssumption DEF MaskedWord, Masked, Tape

LEMMA AndExact ==
  ASSUME NEW x \in Masked(Party), NEW y \in Masked(Party), NEW tape \in Tape, NEW e \in Party
  PROVE  LET g == ProveAnd(x, y, tape)
             pre == ProveAnd([x EXCEPT !.h = {}], [y EXCEPT !.h = {}], tape)
         IN  /\ Unmask(g.z) = Unmask(x) \cap Unmask(y)
             /\ pre.aux = g.aux /\ pre.z.l = g.z.l
             /\ VerifyAnd(GateSeen(x, e), GateSeen(y, e), tape, e, g.s[e], AuxFor(e, g.aux))
                = [z |-> GateSeen(g.z, e), s |-> Others(g.s, e)]
<1> DEFINE g == ProveAnd(x, y, tape)
           x0 == [x EXCEPT !.h = {}]
           y0 == [y EXCEPT !.h = {}]
<1>1. x0.l = x.l /\ y0.l = y.l
  BY DEF Masked
<1> HIDE DEF x0, y0
<1>2. Correction(x0, y0, tape) = Correction(x, y, tape)
  BY <1>1 DEF Correction
<1>3. ProveAnd(x0, y0, tape).aux = g.aux /\ ProveAnd(x0, y0, tape).z.l = g.z.l
  BY <1>2 DEF ProveAnd
<1>4. g.s \in [Party -> Word]
  <2>1. {} \in Word
    BY WordOps
  <2> QED BY <2>1, AndSeen
<1>5. g.s[e] \in Word
  BY <1>4
<1>6. VerifyAnd(GateSeen(x, e), GateSeen(y, e), tape, e, g.s[e], AuxFor(e, g.aux))
      = [z |-> GateSeen(g.z, e), s |-> Others(g.s, e)]
  BY <1>5, AndSeen
<1>7. Unmask(g.z) = Unmask(x) \cap Unmask(y)
  BY AndUnmasks
<1> QED BY <1>3, <1>6, <1>7 DEF x0, y0

LEMMA AddExact ==
  ASSUME NEW x \in Masked(Party), NEW y \in Masked(Party), NEW tape \in Tape, NEW e \in Party
  PROVE  LET g == ProveAdd(x, y, tape)
             pre == ProveAdd([x EXCEPT !.h = {}], [y EXCEPT !.h = {}], tape)
         IN  /\ Unmask(g.z) = Sum(Unmask(x), Unmask(y))
             /\ pre.aux = g.aux /\ pre.z.l = g.z.l
             /\ VerifyAdd(GateSeen(x, e), GateSeen(y, e), tape, e, g.s[e], AuxFor(e, g.aux))
                = [z |-> GateSeen(g.z, e), s |-> Others(g.s, e)]
<1> DEFINE g == ProveAdd(x, y, tape)
           ch == ProverCarries(x, y, tape)
           corr == AddCorr(x, y, tape)
           S(c) == SlotsWith(x, y, tape, corr, c)
           x0 == [x EXCEPT !.h = {}]
           y0 == [y EXCEPT !.h = {}]
<1>1. g.z = SumWith(x, y, tape, ch) /\ g.aux = corr /\ g.s = S(ch)
  <2>1. g = [z |-> SumWith(x, y, tape, ch), aux |-> corr, s |-> S(ch)]
    BY ProveAddIs
  <2> HIDE DEF g, ch, corr, S
  <2> QED BY <2>1
<1>2. ch \in Word /\ corr \in Word
  BY ProverCarriesType
<1>3. \A c \in Word : S(c) \in [Party -> Word]
  <2> SUFFICES ASSUME NEW c \in Word PROVE S(c) \in [Party -> Word]
    OBVIOUS
  <2>1. Party \in SUBSET Party
    OBVIOUS
  <2>2. Carried(x, tape, c) \in Masked(Party) /\ Carried(y, tape, c) \in Masked(Party)
    BY <2>1, CarriedIs
  <2> HIDE DEF corr
  <2> QED BY <1>2, <2>1, <2>2, SlotType DEF SlotsWith
<1>4. Unmask(g.z) = Sum(Unmask(x), Unmask(y))
  <2>1. Unmask(SumWith(x, y, tape, ch)) = Sum(Unmask(x), Unmask(y))
    BY AddUnmasks
  <2> HIDE DEF g, ch
  <2> QED BY <1>1, <2>1
<1>5. ProveAdd(x0, y0, tape).aux = corr /\ ProveAdd(x0, y0, tape).z.l = g.z.l
  <2>1. x0 \in Masked(Party) /\ y0 \in Masked(Party) /\ x0.l = x.l /\ y0.l = y.l
    BY WordOps DEF Masked
  <2> HIDE DEF x0, y0
  <2>2. \A c, d : Carried(x0, tape, c).l = Carried(x, tape, d).l
                  /\ Carried(y0, tape, c).l = Carried(y, tape, d).l
    BY <2>1 DEF Carried
  <2>3. AddCorr(x0, y0, tape) = corr
    BY <2>2 DEF AddCorr, Correction
  <2>4. \A c, d : SumWith(x0, y0, tape, c).l = SumWith(x, y, tape, d).l
    BY <2>1, <2>2 DEF SumWith
  <2> DEFINE c0 == ProverCarries(x0, y0, tape)
             s0 == SlotsWith(x0, y0, tape, AddCorr(x0, y0, tape), c0)
  <2>5. ProveAdd(x0, y0, tape) = [z |-> SumWith(x0, y0, tape, c0), aux |-> AddCorr(x0, y0, tape), s |-> s0]
    BY <2>1, ProveAddIs
  <2> HIDE DEF c0, s0, g, ch, corr, S
  <2> QED BY <1>1, <2>3, <2>4, <2>5
<1> DEFINE me == S(ch)[e]
           F == Filled(x, y, tape, corr, e, me)
           G == Sent(x, y, tape, corr)
<1>6. me \in Word
  <2> HIDE DEF S, ch
  <2> QED BY <1>2, <1>3
<1>7. PICK d : /\ Ripple(F, d)
               /\ VerifyAdd(GateSeen(x, e), GateSeen(y, e), tape, e, me, AuxFor(e, corr))
                  = [z |-> GateSeen(SumWith(x, y, tape, d), e), s |-> Others(S(d), e)]
  <2> HIDE DEF me, corr
  <2> QED BY <1>2, <1>6, AddSeen
<1>8. Ripple(G, ch)
  BY ProverRipples
<1>9. F[ch] = G[ch]
  <2> HIDE DEF S, ch
  <2>1. S(ch) \in [Party -> Word]
    BY <1>2, <1>3
  <2>2. XorOf(S(ch)) = Xor(S(ch)[e], XorOf([p \in Party \ {e} |-> S(ch)[p]]))
    BY <2>1, XorOfSplit
  <2>3. XorOf(S(ch)) = Xor(me, XorOf(Others(S(ch), e)))
    BY <2>2 DEF Others
  <2>4. F[ch] = Xor(me, XorOf(Others(S(ch), e))) /\ G[ch] = XorOf(S(ch))
    BY <1>2 DEF Filled, Sent, S
  <2> HIDE DEF me, F, G
  <2> QED BY <2>3, <2>4
<1>10. Ripple(F, ch)
  <2> HIDE DEF F, G, ch
  <2> QED BY <1>8, <1>9 DEF Ripple
<1>11. BitByBit(F)
  <2> HIDE DEF me, corr, ch, S
  <2> DEFINE P == Party \ {e}
             u == GateSeen(x, e)
             v == GateSeen(y, e)
             aux == AuxFor(e, corr)
  <2>1. u \in Masked(P) /\ v \in Masked(P)
    BY <1>2, SlotsSeen
  <2>2. P \in SUBSET Party /\ (0 \in P <=> e # 0) /\ e \in Nat
    BY GateParameters
  <2>3. aux \in Word
    BY <1>2, WordOps DEF AuxFor
  <2>4. \A c \in Word : SlotsWith(u, v, tape, aux, c) = Others(SlotsWith(x, y, tape, corr, c), e)
    BY <1>2, SlotsWithSeen
  <2> HIDE DEF P, u, v, aux
  <2>5. BitByBit(Told(u, v, tape, aux, me))
    BY <1>6, <2>1, <2>2, <2>3, JointByBits
  <2>6. Told(u, v, tape, aux, me) = F
    BY <2>4 DEF Told, Filled
  <2> QED BY <2>5, <2>6
<1>12. d = ch
  <2> HIDE DEF F, ch
  <2> QED BY <1>7, <1>10, <1>11, RippleUnique
<1>13. VerifyAdd(GateSeen(x, e), GateSeen(y, e), tape, e, g.s[e], AuxFor(e, g.aux))
       = [z |-> GateSeen(g.z, e), s |-> Others(g.s, e)]
  <2>1. me = g.s[e]
    BY <1>1
  <2> HIDE DEF me, g, S, ch, corr
  <2> QED BY <1>1, <1>7, <1>12, <2>1
<1> HIDE DEF g, corr
<1>14. ProveAdd(x0, y0, tape).aux = g.aux
  BY <1>1, <1>5
<1> QED BY <1>4, <1>5, <1>13, <1>14 DEF g, x0, y0
\* A broadcast that two verifiers with different hidden parties accept.
LEMMA AndBinds ==
  ASSUME NEW x \in Masked(Party), NEW y \in Masked(Party), NEW tape \in Tape,
         NEW e \in Party, NEW f \in Party, e # f, NEW me \in Word
  PROVE  LET g == ProveAnd(x, y, tape)
             run == VerifyAnd(GateSeen(x, e), GateSeen(y, e), tape, e, me, AuxFor(e, g.aux))
             s == [p \in Party |-> IF p = e THEN me ELSE run.s[p]]
         IN  VerifyAnd(GateSeen(x, f), GateSeen(y, f), tape, f, s[f], AuxFor(f, g.aux)).s = Others(s, f)
             => Xor(run.z.h, XorOf(g.z.l)) = Unmask(x) \cap Unmask(y)
<1> DEFINE g == ProveAnd(x, y, tape)
           run == VerifyAnd(GateSeen(x, e), GateSeen(y, e), tape, e, me, AuxFor(e, g.aux))
           s == [p \in Party |-> IF p = e THEN me ELSE run.s[p]]
           other == VerifyAnd(GateSeen(x, f), GateSeen(y, f), tape, f, s[f], AuxFor(f, g.aux))
<1>1. /\ g.s \in [Party -> Word]
      /\ run.s = Others(g.s, e)
      /\ me = g.s[e] => run = [z |-> GateSeen(g.z, e), s |-> Others(g.s, e)]
  BY AndSeen
<1>2. s[e] = me /\ s[f] = g.s[f]
  <2> HIDE DEF g, run
  <2> QED BY <1>1 DEF Others
<1>3. s[f] \in Word
  <2> HIDE DEF g, s
  <2> QED BY <1>1, <1>2
<1>4. other.s = Others(g.s, f)
  <2> HIDE DEF s
  <2> QED BY <1>3, AndSeen
<1>5. Unmask(g.z) = Unmask(x) \cap Unmask(y)
  BY AndUnmasks
<1> HIDE DEF g, run, s, other
<1>6. SUFFICES ASSUME other.s = Others(s, f)
               PROVE  Xor(run.z.h, XorOf(g.z.l)) = Unmask(x) \cap Unmask(y)
  BY DEF g, run, s, other
<1>7. Others(g.s, f)[e] = g.s[e] /\ Others(s, f)[e] = s[e]
  BY DEF Others
<1>8. me = g.s[e]
  BY <1>2, <1>4, <1>6, <1>7
<1>9. run.z = GateSeen(g.z, e)
  BY <1>1, <1>8
<1>10. run.z.h = g.z.h
  BY <1>9 DEF GateSeen
<1> QED BY <1>5, <1>10 DEF Unmask

LEMMA AddBinds ==
  ASSUME NEW x \in Masked(Party), NEW y \in Masked(Party), NEW tape \in Tape,
         NEW e \in Party, NEW f \in Party, e # f, NEW me \in Word
  PROVE  LET g == ProveAdd(x, y, tape)
             run == VerifyAdd(GateSeen(x, e), GateSeen(y, e), tape, e, me, AuxFor(e, g.aux))
             s == [p \in Party |-> IF p = e THEN me ELSE run.s[p]]
         IN  VerifyAdd(GateSeen(x, f), GateSeen(y, f), tape, f, s[f], AuxFor(f, g.aux)).s = Others(s, f)
             => Xor(run.z.h, XorOf(g.z.l)) = Sum(Unmask(x), Unmask(y))
<1> DEFINE g == ProveAdd(x, y, tape)
           run == VerifyAdd(GateSeen(x, e), GateSeen(y, e), tape, e, me, AuxFor(e, g.aux))
           s == [p \in Party |-> IF p = e THEN me ELSE run.s[p]]
           other == VerifyAdd(GateSeen(x, f), GateSeen(y, f), tape, f, s[f], AuxFor(f, g.aux))
           ch == ProverCarries(x, y, tape)
           corr == AddCorr(x, y, tape)
           S(c) == SlotsWith(x, y, tape, corr, c)
           G == Sent(x, y, tape, corr)
<1>1. g.z = SumWith(x, y, tape, ch) /\ g.aux = corr
  <2>1. g = [z |-> SumWith(x, y, tape, ch), aux |-> corr, s |-> S(ch)]
    BY ProveAddIs
  <2> HIDE DEF g, ch, corr, S
  <2> QED BY <2>1
<1>2. ch \in Word /\ corr \in Word
  BY ProverCarriesType
<1>3. \A c \in Word : S(c) \in [Party -> Word]
  <2> SUFFICES ASSUME NEW c \in Word PROVE S(c) \in [Party -> Word]
    OBVIOUS
  <2>1. Party \in SUBSET Party
    OBVIOUS
  <2>2. Carried(x, tape, c) \in Masked(Party) /\ Carried(y, tape, c) \in Masked(Party)
    BY <2>1, CarriedIs
  <2> HIDE DEF corr
  <2> QED BY <1>2, <2>1, <2>2, SlotType DEF SlotsWith
<1>4. Unmask(SumWith(x, y, tape, ch)) = Sum(Unmask(x), Unmask(y))
  BY AddUnmasks
<1>5. Ripple(G, ch)
  BY ProverRipples
<1>6. BitByBit(G)
  <2> DEFINE P == Party
  <2>1. P \in SUBSET Party /\ (0 \in P <=> 1 # 0) /\ 1 \in Nat /\ x \in Masked(P) /\ y \in Masked(P)
    BY GateParameters
  <2> HIDE DEF P, corr
  <2> QED BY <1>2, <2>1, JointByBits
<1>7. \A h \in Party, m \in Word :
         \E d : /\ Ripple(Filled(x, y, tape, corr, h, m), d)
                /\ VerifyAdd(GateSeen(x, h), GateSeen(y, h), tape, h, m, AuxFor(h, corr))
                   = [z |-> GateSeen(SumWith(x, y, tape, d), h), s |-> Others(S(d), h)]
  <2> HIDE DEF corr
  <2> QED BY <1>2, AddSeen
<1> HIDE DEF g, ch, corr, S, G
<1>8. PICK d : /\ Ripple(Filled(x, y, tape, corr, e, me), d)
               /\ run = [z |-> GateSeen(SumWith(x, y, tape, d), e), s |-> Others(S(d), e)]
  BY <1>1, <1>7
<1>9. d \in Word /\ S(d) \in [Party -> Word]
  BY <1>3, <1>8 DEF Ripple
<1> HIDE DEF run
<1>10. s \in [Party -> Word] /\ s[e] = me /\ s[f] \in Word
       /\ \A p \in Party : p # e => s[p] = S(d)[p]
  <2>1. run.s = Others(S(d), e)
    BY <1>8
  <2>2. \A p \in Party \ {e} : run.s[p] = S(d)[p]
    BY <2>1 DEF Others
  <2> QED BY <1>9, <2>2
<1> HIDE DEF s
<1>11. PICK d2 : /\ Ripple(Filled(x, y, tape, corr, f, s[f]), d2)
                 /\ other = [z |-> GateSeen(SumWith(x, y, tape, d2), f), s |-> Others(S(d2), f)]
  BY <1>1, <1>7, <1>10
<1> HIDE DEF other
<1>12. SUFFICES ASSUME other.s = Others(s, f)
                PROVE  Xor(run.z.h, XorOf(g.z.l)) = Sum(Unmask(x), Unmask(y))
  BY DEF g, run, s, other
<1>13. Others(S(d2), f) = Others(s, f)
  BY <1>11, <1>12
<1>14. Others(S(d), e) = Others(s, e)
  BY <1>10 DEF Others
<1>15. XorOf(s) = Xor(me, XorOf(Others(S(d), e))) /\ XorOf(s) = Xor(s[f], XorOf(Others(S(d2), f)))
  <2>1. \A h \in Party : XorOf(s) = Xor(s[h], XorOf(Others(s, h)))
    BY <1>10, XorOfSplit DEF Others
  <2> QED BY <1>10, <1>13, <1>14, <2>1
<1> DEFINE K == [c \in Word |-> XorOf(s)]
<1>16. BitByBit(K)
  BY XorOfType DEF BitByBit
<1>17. \A c \in Word : K[c] = XorOf(s)
  OBVIOUS
<1> HIDE DEF K
<1>18. Ripple(K, d)
  <2>1. Filled(x, y, tape, corr, e, me)[d] = Xor(me, XorOf(Others(S(d), e)))
    BY <1>9 DEF Filled, S
  <2>2. K[d] = Filled(x, y, tape, corr, e, me)[d]
    BY <1>9, <1>15, <1>17, <2>1
  <2> QED BY <1>8, <2>2 DEF Ripple
<1>19. Ripple(K, d2)
  <2>1. d2 \in Word
    BY <1>11 DEF Ripple
  <2>2. Filled(x, y, tape, corr, f, s[f])[d2] = Xor(s[f], XorOf(Others(S(d2), f)))
    BY <2>1 DEF Filled, S
  <2>3. K[d2] = Filled(x, y, tape, corr, f, s[f])[d2]
    BY <1>15, <1>17, <2>1, <2>2
  <2> QED BY <1>11, <2>3 DEF Ripple
<1>20. d = d2
  BY <1>16, <1>18, <1>19, RippleUnique
<1>21. S(d) = s
  <2>1. Others(S(d), f)[e] = S(d)[e] /\ Others(s, f)[e] = s[e]
    BY DEF Others
  <2>2. S(d)[e] = s[e]
    BY <1>13, <1>20, <2>1
  <2>3. \A p \in Party : S(d)[p] = s[p]
    BY <1>10, <2>2
  <2> QED BY <1>9, <1>10, <2>3
<1>22. Ripple(G, d)
  <2>1. G[d] = XorOf(S(d))
    BY <1>9 DEF G, Sent, S
  <2>2. G[d] = K[d]
    BY <1>9, <1>17, <1>21, <2>1
  <2> QED BY <1>18, <2>2 DEF Ripple
<1>23. d = ch
  BY <1>5, <1>6, <1>22, RippleUnique
<1>24. run.z.h = g.z.h
  <2>1. run.z = GateSeen(g.z, e)
    BY <1>1, <1>8, <1>23
  <2> QED BY <2>1 DEF GateSeen
<1>25. Unmask(g.z) = Sum(Unmask(x), Unmask(y))
  BY <1>1, <1>4
<1> QED BY <1>24, <1>25 DEF Unmask

\* What TLC evaluates on instances.
LEMMA AllRecompute == \A e \in Party : Recomputes[e]
<1> SUFFICES ASSUME NEW e \in Party, NEW op \in Op, NEW x \in MaskedWord, NEW y \in MaskedWord,
                    NEW tape \in Tapes
             PROVE  LET g == ProveGate(op, x, y, tape)
                        pre == ProveGate(op, [x EXCEPT !.h = {}], [y EXCEPT !.h = {}], tape)
                    IN  /\ Unmask(g.z) = Plain(op, Unmask(x), Unmask(y))
                        /\ pre.aux = g.aux /\ pre.z.l = g.z.l
                        /\ VerifyGate(op, x, y, tape, e, g.s[e], AuxFor(e, g.aux)) =
                              [z |-> GateSeen(g.z, e), s |-> Others(g.s, e)]
  BY Zenon DEF Recomputes
<1> DEFINE x0 == [x EXCEPT !.h = {}]
           y0 == [y EXCEPT !.h = {}]
           g == ProveGate(op, x, y, tape)
           pre == ProveGate(op, x0, y0, tape)
           run == VerifyGate(op, x, y, tape, e, g.s[e], AuxFor(e, g.aux))
<1>1. x \in Masked(Party) /\ y \in Masked(Party) /\ tape \in Tape
  BY MaskedWords
<1>2. CASE op = "and"
  <2> DEFINE ga == ProveAnd(x, y, tape)
             pa == ProveAnd(x0, y0, tape)
             ra == VerifyAnd(GateSeen(x, e), GateSeen(y, e), tape, e, ga.s[e], AuxFor(e, ga.aux))
  <2>1. /\ Unmask(ga.z) = Unmask(x) \cap Unmask(y)
        /\ pa.aux = ga.aux /\ pa.z.l = ga.z.l
        /\ ra = [z |-> GateSeen(ga.z, e), s |-> Others(ga.s, e)]
    BY <1>1, AndExact
  <2>2. g = ga /\ pre = pa /\ Plain(op, Unmask(x), Unmask(y)) = Unmask(x) \cap Unmask(y)
    BY <1>2, Zenon DEF ProveGate, Plain
  <2>3. run = VerifyAnd(GateSeen(x, e), GateSeen(y, e), tape, e, g.s[e], AuxFor(e, g.aux))
    <3> HIDE DEF g
    <3> QED BY <1>2, Zenon DEF VerifyGate
  <2>4. run = ra
    <3> HIDE DEF g, ga, run
    <3> QED BY <2>2, <2>3
  <2> HIDE DEF g, pre, run, ga, pa, ra
  <2>5. /\ Unmask(g.z) = Plain(op, Unmask(x), Unmask(y))
        /\ pre.aux = g.aux /\ pre.z.l = g.z.l
        /\ run = [z |-> GateSeen(g.z, e), s |-> Others(g.s, e)]
    BY <2>1, <2>2, <2>4
  <2> QED BY <2>5, Zenon DEF g, pre, run
<1>3. CASE op = "add"
  <2> DEFINE ga == ProveAdd(x, y, tape)
             pa == ProveAdd(x0, y0, tape)
             ra == VerifyAdd(GateSeen(x, e), GateSeen(y, e), tape, e, ga.s[e], AuxFor(e, ga.aux))
  <2>1. /\ Unmask(ga.z) = Sum(Unmask(x), Unmask(y))
        /\ pa.aux = ga.aux /\ pa.z.l = ga.z.l
        /\ ra = [z |-> GateSeen(ga.z, e), s |-> Others(ga.s, e)]
    BY <1>1, AddExact
  <2>2. g = ga /\ pre = pa /\ Plain(op, Unmask(x), Unmask(y)) = Sum(Unmask(x), Unmask(y))
    BY <1>3, "add" # "and" DEF ProveGate, Plain
  <2>3. run = VerifyAdd(GateSeen(x, e), GateSeen(y, e), tape, e, g.s[e], AuxFor(e, g.aux))
    <3> HIDE DEF g
    <3> QED BY <1>3 DEF VerifyGate
  <2>4. run = ra
    <3> HIDE DEF g, ga, run
    <3> QED BY <2>2, <2>3
  <2> HIDE DEF g, pre, run, ga, pa, ra
  <2>5. /\ Unmask(g.z) = Plain(op, Unmask(x), Unmask(y))
        /\ pre.aux = g.aux /\ pre.z.l = g.z.l
        /\ run = [z |-> GateSeen(g.z, e), s |-> Others(g.s, e)]
    BY <2>1, <2>2, <2>4
  <2> QED BY <2>5, Zenon DEF g, pre, run
<1> QED BY <1>2, <1>3 DEF Op

LEMMA AllBind == \A e \in Party : Binds[e]
<1>1. ASSUME NEW e \in Party, NEW op \in Op, NEW x \in MaskedWord, NEW y \in MaskedWord,
             NEW tape \in Tapes, NEW me \in Word, NEW f \in Party \ {e}
      PROVE  LET g == ProveGate(op, x, y, tape)
                 run == VerifyGate(op, x, y, tape, e, me, AuxFor(e, g.aux))
                 s == [p \in Party |-> IF p = e THEN me ELSE run.s[p]]
             IN  VerifyGate(op, x, y, tape, f, s[f], AuxFor(f, g.aux)).s = Others(s, f)
                 => Xor(run.z.h, XorOf(g.z.l)) = Plain(op, Unmask(x), Unmask(y))
  <2> DEFINE g == ProveGate(op, x, y, tape)
             run == VerifyGate(op, x, y, tape, e, me, AuxFor(e, g.aux))
             s == [p \in Party |-> IF p = e THEN me ELSE run.s[p]]
             other == VerifyGate(op, x, y, tape, f, s[f], AuxFor(f, g.aux))
  <2>1. x \in Masked(Party) /\ y \in Masked(Party) /\ tape \in Tape /\ f \in Party /\ e # f
    BY MaskedWords
  <2>2. CASE op = "and"
    <3> DEFINE ga == ProveAnd(x, y, tape)
               ra == VerifyAnd(GateSeen(x, e), GateSeen(y, e), tape, e, me, AuxFor(e, ga.aux))
               sa == [p \in Party |-> IF p = e THEN me ELSE ra.s[p]]
               oa == VerifyAnd(GateSeen(x, f), GateSeen(y, f), tape, f, sa[f], AuxFor(f, ga.aux))
    <3>1. oa.s = Others(sa, f) => Xor(ra.z.h, XorOf(ga.z.l)) = Unmask(x) \cap Unmask(y)
      BY <2>1, AndBinds
    <3>2. g = ga /\ Plain(op, Unmask(x), Unmask(y)) = Unmask(x) \cap Unmask(y)
      BY <2>2, Zenon DEF ProveGate, Plain
    <3> HIDE DEF g, ga
    <3>3. run = ra
      BY <2>2, <3>2, Zenon DEF VerifyGate
    <3> HIDE DEF run, ra
    <3>4. s = sa
      BY <3>3
    <3> HIDE DEF s, sa
    <3>5. other = oa
      BY <2>2, <3>2, <3>4, Zenon DEF VerifyGate
    <3> HIDE DEF other, oa
    <3>6. other.s = Others(s, f) => Xor(run.z.h, XorOf(g.z.l)) = Plain(op, Unmask(x), Unmask(y))
      BY <3>1, <3>2, <3>3, <3>4, <3>5
    <3> QED BY <3>6, Zenon DEF other, s, run, g
  <2>3. CASE op = "add"
    <3> DEFINE ga == ProveAdd(x, y, tape)
               ra == VerifyAdd(GateSeen(x, e), GateSeen(y, e), tape, e, me, AuxFor(e, ga.aux))
               sa == [p \in Party |-> IF p = e THEN me ELSE ra.s[p]]
               oa == VerifyAdd(GateSeen(x, f), GateSeen(y, f), tape, f, sa[f], AuxFor(f, ga.aux))
    <3>1. oa.s = Others(sa, f) => Xor(ra.z.h, XorOf(ga.z.l)) = Sum(Unmask(x), Unmask(y))
      BY <2>1, AddBinds
    <3>2. g = ga /\ Plain(op, Unmask(x), Unmask(y)) = Sum(Unmask(x), Unmask(y))
      BY <2>3 DEF ProveGate, Plain
    <3> HIDE DEF g, ga
    <3>3. run = ra
      BY <2>3, <3>2 DEF VerifyGate
    <3> HIDE DEF run, ra
    <3>4. s = sa
      BY <3>3
    <3> HIDE DEF s, sa
    <3>5. other = oa
      BY <2>3, <3>2, <3>4 DEF VerifyGate
    <3> HIDE DEF other, oa
    <3>6. other.s = Others(s, f) => Xor(run.z.h, XorOf(g.z.l)) = Plain(op, Unmask(x), Unmask(y))
      BY <3>1, <3>2, <3>3, <3>4, <3>5
    <3> QED BY <3>6, Zenon DEF other, s, run, g
  <2> QED BY <2>2, <2>3 DEF Op
<1> DEFINE Run(op, x, y, tape, e, me) ==
             VerifyGate(op, x, y, tape, e, me, AuxFor(e, ProveGate(op, x, y, tape).aux))
           Said(op, x, y, tape, e, me) ==
             [p \in Party |-> IF p = e THEN me ELSE Run(op, x, y, tape, e, me).s[p]]
           Agreed(op, x, y, tape, e, me, f) ==
             VerifyGate(op, x, y, tape, f, Said(op, x, y, tape, e, me)[f],
                        AuxFor(f, ProveGate(op, x, y, tape).aux)).s
             = Others(Said(op, x, y, tape, e, me), f)
           Right(op, x, y, tape, e, me) ==
             Xor(Run(op, x, y, tape, e, me).z.h, XorOf(ProveGate(op, x, y, tape).z.l))
             = Plain(op, Unmask(x), Unmask(y))
<1>2. \A e \in Party : \A op \in Op, x, y \in MaskedWord, tape \in Tapes, me \in Word :
         \A f \in Party \ {e} :
            Agreed(op, x, y, tape, e, me, f) => Right(op, x, y, tape, e, me)
  BY <1>1, Zenon
<1>3. \A e \in Party :
         Binds[e] = \A op \in Op, x, y \in MaskedWord, tape \in Tapes, me \in Word :
            (\E f \in Party \ {e} : Agreed(op, x, y, tape, e, me, f)) => Right(op, x, y, tape, e, me)
  BY Zenon DEF Binds
<1> HIDE DEF Agreed, Right
<1> QED BY <1>2, <1>3, Zenon

-----------------------------------------------------------------------------
(* Every hidden party of a challenge                                       *)

LEMMA HiddenParties == IInv => \A k \in DOMAIN hidden : hidden[k] \in Party
<1>1. hidden = <<>> => DOMAIN hidden = {}
  OBVIOUS
<1>2. IInv /\ hidden # <<>> => hidden \in [Round -> Party]
  BY DEF IInv, ChallengeInv
<1>3. QED
  BY <1>1, <1>2

(***************************************************************************)
(* mpc_AND and mpc_ADD against mpc_AND_verify and mpc_ADD_verify, and      *)
(* against compute_aux_from_seeds: for every challenge, whatever the       *)
(* shares and tapes, the prover's gate computes the operation, and the     *)
(* verifier recomputes its result and the broadcasts of the other parties. *)
(***************************************************************************)
THEOREM GatesAlwaysExact == Spec => []GatesExact
<1>1. IInv => GatesExact
  BY HiddenParties, AllRecompute DEF GatesExact
<1>2. QED
  BY <1>1, Invariance, PTL

(***************************************************************************)
(* The broadcasts that mpc_AND_verify and mpc_ADD_verify compare: with the *)
(* right aux bits, a broadcast that gives a wrong result is accepted for   *)
(* no other hidden party, so that who lies in one has to guess it.         *)
(***************************************************************************)
THEOREM GatesAlwaysBind == Spec => []GatesBind
<1>1. IInv => GatesBind
  BY HiddenParties, AllBind DEF GatesBind
<1>2. QED
  BY <1>1, Invariance, PTL
=============================================================================
