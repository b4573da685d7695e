------------------------------ MODULE KkwProof ------------------------------
(***************************************************************************)
(* The KKW proof of the kkw backend: kkw_prove, kkw_verify and what they   *)
(* share (kkw/src/kkw_prove.c, kkw_verify.c, shared.c).                    *)
(*                                                                         *)
(* The prover runs M instances of the MPC protocol in a parallel loop,     *)
(* every thread in scratch buffers of its own, and binds them all in h*.   *)
(* The challenge derived from h* picks Tau instances.  The seeds of the    *)
(* others are opened and their preprocessing is recomputed; those picked   *)
(* are run again with one party hidden and are checked online.             *)
(*                                                                         *)
(* Hashes are injective terms.  What matters of an instance is where it    *)
(* departs from the protocol, its lie: nowhere; in the auxiliary bits of   *)
(* the preprocessing; in the broadcasts of a party; or in the output share *)
(* of a party.  Any single lie lets a prover without a witness reach the   *)
(* public output it wants.  (Two lies in one instance never pass where one *)
(* of them does not.)                                                      *)
(***************************************************************************)
EXTENDS MpcGates, Sequences

CONSTANTS
    M,        \* M_KKW, instances
    Tau,      \* NUM_ROUNDS, instances that are checked online
    Threads   \* OpenMP threads

ASSUME ParametersAssumption ==
    M \in Nat /\ Tau \in Nat /\ Tau < M

VARIABLES
    phase,    \* where prover and verifier are
    honest,   \* whether kkw_prove made the proof
    witness,  \* whether the input satisfies the circuit
    todo,     \* iterations of the running parallel loop not yet taken
    job,      \* iteration that each thread is in: {} or {i}
    scratch,  \* instance that the buffers of each thread hold: {} or {j}
    lies,     \* the lie of every instance when h* was computed
    hashes,   \* h_j_all, h_prime_all and h_out_all of the prover
    failing,  \* pass1_error
    arr,      \* kkw_fs_expand: the array that is shuffled
    turn,     \* kkw_fs_expand: i of the shuffle
    chosen,   \* C_out
    hidden,   \* p_out
    online,   \* the online section: instance and lie of each round
    stream    \* the fields of the proof file

vars == <<phase, honest, witness, todo, job, scratch, lies, hashes, failing,
          arr, turn, chosen, hidden, online, stream>>

Instance == 0..(M - 1)
Round == 1..Tau

Truth == <<"none", 0>>
Lie == {Truth, <<"aux", 0>>} \cup ({"msg"} \X Party) \cup ({"out"} \X Party)

-----------------------------------------------------------------------------
(* Hashes of an instance                                                   *)

\* preproc_commit_instance: the seeds, and the auxiliary bits with party 0.
HJ(j, lie) == <<"hj", j, lie[1] = "aux">>

\* compute_h_prime: the masked input and all broadcasts.
HPrime(j, lie) ==
    <<"h'", j, IF lie[1] \in {"aux", "msg"} THEN lie ELSE Truth>>

\* KKW_DOM_HOUT: the output shares of all parties.
HOut(j, lie) == <<"out", j, IF lie[1] = "out" THEN lie ELSE Truth>>

\* The output reconstructed from an instance is the public one.
OutputMatches(lie) == witness \/ lie # Truth

Hashes(j, lie) == [hj |-> HJ(j, lie), hp |-> HPrime(j, lie), ho |-> HOut(j, lie)]

-----------------------------------------------------------------------------

Init ==
    /\ phase = "pass1"
    /\ honest = TRUE
    /\ witness \in BOOLEAN
    /\ todo = Instance
    /\ job = [t \in Threads |-> {}]
    /\ scratch = [t \in Threads |-> {}]
    /\ lies = [j \in Instance |-> Truth]
    /\ hashes = [j \in Instance |-> <<>>]
    /\ failing = FALSE
    /\ arr = [i \in Instance |-> i]
    /\ turn = 0
    /\ chosen = <<>>
    /\ hidden = <<>>
    /\ online = [k \in Round |-> <<>>]
    /\ stream = <<>>

fs == <<arr, turn, chosen, hidden>>

-----------------------------------------------------------------------------
(* kkw_prove                                                               *)

\* Variant: one set of buffers for all threads.
TakeShared(t, i, j) ==
    /\ job[t] = {}
    /\ i \in todo
    /\ todo' = todo \ {i}
    /\ job' = [job EXCEPT ![t] = {i}]
    /\ scratch' = [u \in Threads |-> {j}]

\* A thread takes iteration i of a loop; expand_instance_into fills its own
\* buffers with seeds, tapes and the masked input of instance j.
Take(t, i, j) ==
    /\ job[t] = {}
    /\ i \in todo
    /\ todo' = todo \ {i}
    /\ job' = [job EXCEPT ![t] = {i}]
    /\ scratch' = [scratch EXCEPT ![t] = {j}]

LoopDone == todo = {} /\ \A t \in Threads : job[t] = {}

Pass1Take(t, j) ==
    /\ phase = "pass1"
    /\ Take(t, j, j)
    /\ UNCHANGED <<phase, honest, witness, lies, hashes, failing, fs, online,
                   stream>>

\* building_views on the buffers; the hashes go to the iteration's entries,
\* a wrong output is noted in pass1_error.
Pass1Views(t) ==
    /\ phase = "pass1"
    /\ \E j \in job[t], s \in scratch[t] :
          hashes' = [hashes EXCEPT ![j] = Hashes(s, Truth)]
    /\ failing' = (failing \/ ~ OutputMatches(Truth))
    /\ job' = [job EXCEPT ![t] = {}]
    /\ UNCHANGED <<phase, honest, witness, todo, scratch, lies, fs, online,
                   stream>>

\* Variant: pass1_error is not looked at.
Pass1EndUnchecked ==
    /\ phase = "pass1"
    /\ LoopDone
    /\ phase' = "shuffle"
    /\ UNCHANGED <<honest, witness, todo, job, scratch, lies, hashes, failing,
                   fs, online, stream>>

\* The loop ends; h* is computed unless an instance failed.
Pass1End ==
    /\ phase = "pass1"
    /\ LoopDone
    /\ phase' = IF failing THEN "failed" ELSE "shuffle"
    /\ UNCHANGED <<honest, witness, todo, job, scratch, lies, hashes, failing,
                   fs, online, stream>>

\* A prover that has no witness and does not follow kkw_prove binds whatever
\* it likes in h*.
Forge(claims) ==
    /\ phase = "pass1"
    /\ ~witness
    /\ todo = Instance
    /\ honest' = FALSE
    /\ lies' = claims
    /\ hashes' = [j \in Instance |-> Hashes(j, claims[j])]
    /\ todo' = {}
    /\ phase' = "shuffle"
    /\ UNCHANGED <<witness, job, scratch, failing, fs, online, stream>>

\* Variant: the entry is copied, not swapped.
FsSwapCopy(j) ==
    /\ phase = "shuffle"
    /\ turn < Tau
    /\ j \in turn..(M - 1)
    /\ arr' = [arr EXCEPT ![turn] = arr[j]]
    /\ turn' = turn + 1
    /\ UNCHANGED <<phase, honest, witness, todo, job, scratch, lies, hashes,
                   failing, chosen, hidden, online, stream>>

\* kkw_fs_expand: one turn of the partial Fisher-Yates shuffle; prg_below
\* returns any index that is left.
FsSwap(j) ==
    /\ phase = "shuffle"
    /\ turn < Tau
    /\ j \in turn..(M - 1)
    /\ arr' = [arr EXCEPT ![turn] = arr[j], ![j] = arr[turn]]
    /\ turn' = turn + 1
    /\ UNCHANGED <<phase, honest, witness, todo, job, scratch, lies, hashes,
                   failing, chosen, hidden, online, stream>>

\* qsort with cmp_int: the entries of s in an order that does not decrease.
SortedOrders(s) ==
    {t \in {[k \in Round |-> s[f[k]]] : f \in Bijection(Round, Round)} :
        \A k \in 1..(Tau - 1) : t[k] <= t[k + 1]}

\* The first Tau entries, sorted, and one hidden party for each round.
FsParties(p) ==
    /\ phase = "shuffle"
    /\ turn = Tau
    /\ chosen' \in SortedOrders([k \in Round |-> arr[k - 1]])
    /\ hidden' = p
    /\ IF honest
       THEN phase' = "pass2" /\ todo' = Round
       ELSE phase' = "answer" /\ UNCHANGED todo
    /\ UNCHANGED <<honest, witness, job, scratch, lies, hashes, failing, arr,
                   turn, online, stream>>

Pass2Take(t, k) ==
    /\ phase = "pass2"
    /\ Take(t, k, chosen[k])
    /\ UNCHANGED <<phase, honest, witness, lies, hashes, failing, fs, online,
                   stream>>

\* building_views once more, into the round's own a and z.
Pass2Views(t) ==
    /\ phase = "pass2"
    /\ \E k \in job[t], s \in scratch[t] :
          online' = [online EXCEPT ![k] = <<s, lies[s]>>]
    /\ job' = [job EXCEPT ![t] = {}]
    /\ UNCHANGED <<phase, honest, witness, todo, scratch, lies, hashes,
                   failing, fs, stream>>

\* in_C
InC(j) == \E k \in Round : chosen[k] = j

\* The fields that the two loops of the writer put out.
PreFields == [j \in Instance |-> IF InC(j) THEN <<>>
                                 ELSE <<<<"seed*", j>>, <<"h'", j>>>>]

RoundFields(k) ==
    <<<<"com", k>>, <<"yp", k>>, <<"seeds", k>>, <<"x", k>>>>
      \o (IF hidden[k] # 0 THEN <<<<"aux", k>>>> ELSE <<>>)
      \o <<<<"msgs", k>>, <<"r", k>>>>

Header == <<"header", "nonce", "h*", "ctr">>

\* f[lo] \o ... \o f[hi]
Flatten(f, lo, hi) ==
    LET upTo[i \in (lo - 1)..hi] ==
            IF i < lo THEN <<>> ELSE upTo[i - 1] \o f[i]
    IN upTo[hi]

Written ==
    Header \o Flatten(PreFields, 0, M - 1)
           \o Flatten([k \in Round |-> RoundFields(k)], 1, Tau)

WriteProof ==
    /\ phase = "pass2"
    /\ LoopDone
    /\ stream' = Written
    /\ phase' = "written"
    /\ UNCHANGED <<honest, witness, todo, job, scratch, lies, hashes, failing,
                   fs, online>>

\* fwrite fails, or the prover dies: the file keeps what was written.
WriteStops(n) ==
    /\ phase = "pass2"
    /\ LoopDone
    /\ n \in 0..(Len(Written) - 1)
    /\ stream' = SubSeq(Written, 1, n)
    /\ phase' = "written"
    /\ UNCHANGED <<honest, witness, todo, job, scratch, lies, hashes, failing,
                   fs, online>>

\* An allocation or the random source fails on the way.
ProveFails ==
    /\ phase \in {"pass1", "shuffle", "pass2"}
    /\ honest
    /\ phase' = "failed"
    /\ UNCHANGED <<honest, witness, todo, job, scratch, lies, hashes, failing,
                   fs, online, stream>>

\* The forger answers: every round as it was bound, but for one at most.
Answer(k, lie) ==
    /\ phase = "answer"
    /\ online' = [i \in Round |->
                     <<chosen[i], IF i = k THEN lie ELSE lies[chosen[i]]>>]
    /\ stream' = Written
    /\ phase' = "written"
    /\ UNCHANGED <<honest, witness, todo, job, scratch, lies, hashes, failing,
                   fs>>

\* Something is appended to the file.
Trailing ==
    /\ phase = "written"
    /\ stream = Written
    /\ stream' = Append(stream, "more")
    /\ UNCHANGED <<phase, honest, witness, todo, job, scratch, lies, hashes,
                   failing, fs, online>>

-----------------------------------------------------------------------------
(* kkw_verify                                                              *)

\* What the reader takes from the stream: the same loops, over the challenge
\* that it derives from the header it has read.
ReadRound(k) ==
    <<<<"com", k>>, <<"yp", k>>, <<"seeds", k>>, <<"x", k>>>>
      \o (IF hidden[k] # 0 THEN <<<<"aux", k>>>> ELSE <<>>)
      \o <<<<"msgs", k>>, <<"r", k>>>>

Expected ==
    Header \o Flatten(PreFields, 0, M - 1)
           \o Flatten([k \in Round |-> ReadRound(k)], 1, Tau)

\* Variant: data after the proof is not looked for.
ReadsAllPrefix ==
    Len(stream) >= Len(Expected) /\ SubSeq(stream, 1, Len(Expected)) = Expected

\* No read fails and the file ends where the proof does.
ReadsAll == stream = Expected

\* verify() on round k: the output shares of the parties that are not hidden
\* are recomputed from their seeds.
RoundError(k) == online[k][2][1] = "out" /\ online[k][2][2] # hidden[k]

\* What verify() makes of round k: broadcasts of a party that is not hidden
\* are recomputed from its seed, so that a lie in them does not reach it.
Seen(k) ==
    LET lie == online[k][2]
    IN IF lie[1] = "msg" /\ lie[2] # hidden[k] THEN Truth ELSE lie

\* The hashes of round k: the commitment of the hidden party comes with the
\* proof, those of the others are recomputed, with the auxiliary bits for
\* party 0.
RoundHashes(k) ==
    LET j == online[k][1]
    IN [hj |-> IF hidden[k] = 0 THEN HJ(j, lies[j]) ELSE HJ(j, Seen(k)),
        hp |-> HPrime(j, Seen(k)),
        ho |-> HOut(j, Seen(k))]

\* Variant: the preprocessing of opened instances is taken on trust.
OpenedHashesTrusted(j) == hashes[j]

\* The hashes of an opened instance: compute_aux_from_seeds and
\* preproc_commit_instance from its seed, and h' as the proof gives it.
OpenedHashes(j) ==
    [hj |-> HJ(j, Truth), hp |-> hashes[j].hp, ho |-> HOut(j, Truth)]

\* The hashes that the verifier's h* is made from.
Recomputed ==
    [j \in Instance |->
        IF InC(j) THEN RoundHashes(CHOOSE k \in Round : chosen[k] = j)
                  ELSE OpenedHashes(j)]

Accepts ==
    /\ ReadsAll
    /\ \A k \in Round : ~ RoundError(k)
    /\ \A k \in Round : OutputMatches(Seen(k))
    /\ Recomputed = hashes

Verify ==
    /\ phase = "written"
    /\ phase' = IF Accepts THEN "accepted" ELSE "rejected"
    /\ UNCHANGED <<honest, witness, todo, job, scratch, lies, hashes, failing,
                   fs, online, stream>>

-----------------------------------------------------------------------------

Prove ==
    \/ \E t \in Threads :
          \/ \E j \in Instance : Pass1Take(t, j)
          \/ Pass1Views(t)
          \/ \E k \in Round : Pass2Take(t, k)
          \/ Pass2Views(t)
    \/ Pass1End
    \/ \E j \in Instance : FsSwap(j)
    \/ \E p \in [Round -> Party] : FsParties(p)
    \/ WriteProof
    \/ \E n \in 0..(4 + 2 * M + 7 * Tau) : WriteStops(n)
    \/ ProveFails

Next ==
    \/ Prove
    \/ \E claims \in [Instance -> Lie] : Forge(claims)
    \/ \E k \in Round, lie \in Lie : Answer(k, lie)
    \/ Trailing
    \/ Verify

Spec == Init /\ [][Next]_vars

-----------------------------------------------------------------------------
(* Properties                                                              *)

\* The challenge of kkw_fs_expand is a set of Tau different instances in
\* increasing order: in_C, the two loops of the writer and the arrays that
\* the verifier fills by C_out[k] all rely on it.
ChallengeIsASet ==
    hidden # <<>> => \A k \in 1..(Tau - 1) : chosen[k] < chosen[k + 1]

\* A proof that kkw_prove finished is accepted, however its threads were
\* scheduled: each entry of the hash arrays and each round of the online
\* section was computed from buffers that held the right instance, and the
\* reader finds the fields where the writer put them.
HonestProofAccepted ==
    phase = "rejected" /\ honest => stream # Written

\* kkw_verify accepts the file of a proof only whole: neither one that the
\* prover stopped writing half-way nor one with something after its end.
OnlyWholeFileAccepted == phase = "accepted" => stream = Written

\* kkw_prove on an input that does not satisfy the circuit writes nothing:
\* pass1_error is set by whichever thread sees the wrong output and is seen
\* after the loop.
NoProofWithoutWitness == honest /\ ~witness => stream = <<>>

\* The cut-and-choose argument: a proof without a witness is accepted only if
\* its challenge was guessed when h* was bound.  Each instance that is
\* opened has honest preprocessing and output shares, and each one that is
\* checked online lies in its preprocessing or for its hidden party.
ForgeryNeedsTheChallenge ==
    phase = "accepted" /\ ~witness =>
        /\ \A j \in Instance : ~ InC(j) => lies[j][1] \notin {"aux", "out"}
        /\ \A k \in Round :
              LET lie == lies[chosen[k]]
              IN lie[1] = "aux" \/ lie \in {"msg", "out"} \X {hidden[k]}

\* What Seen and the hashes of a round take for granted of the MPC gates, for
\* every challenge that is drawn: a round without a lie is recomputed from the
\* hidden party's broadcasts, word for word, with the preprocessing that was
\* made without the input.
GatesExact == \A k \in DOMAIN hidden : Recomputes[hidden[k]]

\* A prover with the right preprocessing that lies in the broadcasts of a gate
\* is accepted for one hidden party at most: it has to guess this one.
GatesBind == \A k \in DOMAIN hidden : Binds[hidden[k]]
=============================================================================
