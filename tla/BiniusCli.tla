----------------------------- MODULE BiniusCli -----------------------------
(***************************************************************************)
(* The command line tool of the Binius64 backend                           *)
(* (binius64/src/bin/blindsig.rs, serialize.rs, protocol/ and              *)
(* protocol_multi/) over one artefact directory, with the blind            *)
(* multi-signature: keygen --signers n makes n keys with one pk_seed, sign *)
(* returns n XMSS signatures at a shared epoch, prove aggregates them.     *)
(*                                                                         *)
(* std::fs::write truncates the file and writes from its start; nothing    *)
(* locks the directory.  A file is a sequence of words (a root, a seed, a  *)
(* counter, a signature), written one after the other at the writer's own  *)
(* offset, so that two writers mix, a writer that is killed or whose disk  *)
(* is full leaves a prefix, and a write beyond the end leaves a hole of    *)
(* zero bytes.  A commitment, an opening and a proof are one word each:    *)
(* their readers reject every other length.                                *)
(*                                                                         *)
(* Cryptography is symbolic: signatures are unforgeable, the proof is      *)
(* sound, commitments bind.                                                *)
(***************************************************************************)
EXTENDS Integers, Sequences, SequencesExt, FiniteSets

CONSTANTS
    User,        \* the process that runs commit, prove and verify
    Messages,    \* contents of message files
    Hole,        \* a word of zero bytes
    Capacity,    \* 2^height, the leaves of a key
    MaxSigners,  \* bound: --signers
    MaxGens,     \* bound: calls of keygen
    MaxCommits,  \* bound: calls of commit
    Scenarios    \* who runs keygen and sign and what may happen to them

ASSUME ConstantsAssumption ==
    /\ Capacity \in Nat \ {0} /\ MaxSigners \in Nat \ {0}
    /\ MaxGens \in Nat /\ MaxCommits \in Nat
    /\ \A s \in Scenarios :
          /\ User \notin s.procs /\ IsFiniteSet(s.procs)
          /\ s.gens \in 0..MaxGens /\ s.kills \in Nat

\* Roots and seeds are hashes and random bytes: none of them is zero.  A word
\* of zero bytes may be read as the counter 0 and as no other.
ASSUME HoleAssumption ==
    /\ Hole \notin (1..MaxGens) \X (0..MaxSigners)
    /\ Hole \notin 1..Capacity

VARIABLES
    scenario,   \* the signer processes, and bounds: keygens, failing commands
    dir,        \* the artefact files
    cmd,        \* the command each process runs, or "idle"
    step,       \* reads and writes of that command that are done
    offset,     \* words written to the file that is open, -1: none is
    mem,        \* what each process has read or is to write, by artefact
    gens,       \* gens[g] is the number of signers of keygen g
    kills,      \* commands that failed half-way so far
    committed,  \* committed[c] is the message that commitment c opens to
    released,   \* history: XMSS signatures that stood in xmss_sig.bin
    accepted    \* history: public keys and messages that verify passed

vars == <<scenario, dir, cmd, step, offset, mem, gens, kills, committed, released,
          accepted>>
world == <<scenario, gens, kills, committed, released, accepted>>

Signers == scenario.procs
Procs == {User} \cup Signers
Files == {"key", "pub", "com", "state", "sig", "bsig"}
NoFiles == [f \in Files |-> <<>>]

-----------------------------------------------------------------------------
(* Artefacts                                                               *)

\* Variant: the seed comes before the roots.
SeedAtFront(len) == 1

\* Position of pk_seed in a signer_pub.bin of len words, for the writer and
\* for the reader, who gets the number of signers from the length.
SeedAt(len) == len

\* A root is its keygen and its signer; the seed of a keygen has signer 0.
Root(g, i) == <<g, i>>
PubWords(g, n) ==
    [k \in 1..(n + 1) |->
        IF k = SeedAt(n + 1) THEN Root(g, 0)
        ELSE Root(g, IF k > SeedAt(n + 1) THEN k - 1 ELSE k)]

PubOk(f) == Len(f) >= 2
Seed(f) == f[SeedAt(Len(f))]
Roots(f) == RemoveAt(f, SeedAt(Len(f)))

\* signer_key.bin: the secret seeds with pk_seed and the height, then one
\* counter for each signer.  A prefix that has the length of fewer signers
\* takes bytes of a secret seed for the height and the counter; that these
\* are below the capacity has negligible probability, and sign refuses.
KeyOk(f) == Len(f) >= 2 /\ f[1] # Hole /\ f[1].n = Len(f) - 1
Counter(f, i) == IF f[i + 1] = Hole THEN 0 ELSE f[i + 1]

SigOk(f, seed, c) ==
    /\ f # <<>>
    /\ \A i \in 1..Len(f) : f[i] # Hole /\ Root(f[i].gen, 0) = seed /\ f[i].com = c

-----------------------------------------------------------------------------
(* The commands: what they read, and what they then write, in order        *)

SignReads == <<"key", "com">>
ProveReads == <<"state", "pub", "sig">>
VerifyReads == <<"pub", "bsig">>
ReadsOf == [keygen |-> <<>>, commit |-> <<>>, sign |-> SignReads,
            prove |-> ProveReads, verify |-> VerifyReads]

KeygenWrites == <<"key", "pub">>
CommitWrites == <<"com", "state">>
ProveWrites == <<"bsig">>

\* Variant: the counters are stored before the signatures are out.
SignWritesKeyFirst == <<"key", "sig">>

SignWrites == <<"sig", "key">>

WritesOf(c) ==
    CASE c = "keygen" -> KeygenWrites [] c = "commit" -> CommitWrites
      [] c = "sign" -> SignWrites     [] c = "prove" -> ProveWrites
      [] OTHER -> <<>>

Begin(p, c) == cmd' = [cmd EXCEPT ![p] = c]

Exit(p) ==
    /\ cmd' = [cmd EXCEPT ![p] = "idle"]
    /\ step' = [step EXCEPT ![p] = 0]
    /\ offset' = [offset EXCEPT ![p] = -1]
    /\ mem' = [mem EXCEPT ![p] = NoFiles]

Reading(p) == cmd[p] # "idle" /\ step[p] < Len(ReadsOf[cmd[p]])
ReadAll(p, c) == cmd[p] = c /\ step[p] = Len(ReadsOf[c])

\* What a command does with a file as soon as it has read it.
Wellformed(p, f, data) ==
    CASE f = "key" -> KeyOk(data)
      [] f = "pub" -> PubOk(data)
      [] f = "sig" -> SigOk(data, Seed(mem[p].pub), mem[p].state[1])
      [] OTHER -> Len(data) = 1

\* A file is read in one step, as it stands, torn or mixed: std::fs::read asks
\* for the file's whole length in its first call.  A file that changes between
\* that call and the last one, which finds the end, is not modelled.
Read(p) ==
    /\ Reading(p)
    /\ LET f == ReadsOf[cmd[p]][step[p] + 1]
       IN  /\ Wellformed(p, f, dir[f])
           /\ mem' = [mem EXCEPT ![p][f] = dir[f]]
    /\ step' = [step EXCEPT ![p] = @ + 1]
    /\ UNCHANGED <<dir, cmd, offset, world>>

\* The file that p writes now, if its command has come to the writes.
Written(p) == step[p] - Len(ReadsOf[cmd[p]])
Writing(p) ==
    /\ cmd[p] # "idle"
    /\ Written(p) \in 1..Len(WritesOf(cmd[p]))
Target(p) == WritesOf(cmd[p])[Written(p)]

\* std::fs::write: the file is created or truncated.
OpenFile(p) ==
    /\ Writing(p)
    /\ offset[p] = -1
    /\ dir' = [dir EXCEPT ![Target(p)] = <<>>]
    /\ offset' = [offset EXCEPT ![p] = 0]
    /\ UNCHANGED <<cmd, step, mem, world>>

\* A word written at position k.
WriteAt(f, k, w) ==
    [i \in 1..(IF k > Len(f) THEN k ELSE Len(f)) |->
        IF i = k THEN w ELSE IF i <= Len(f) THEN f[i] ELSE Hole]

\* A word is written; after the last one the file is closed and the next one
\* follows, or the command returns.  xmss_sig.bin is the signers' answer: a
\* signature in it is out.
WriteWord(p) ==
    /\ Writing(p)
    /\ offset[p] >= 0
    /\ LET f == Target(p)
           k == offset[p] + 1
       IN  /\ dir' = [dir EXCEPT ![f] = WriteAt(@, k, mem[p][f][k])]
           /\ released' = IF f = "sig" THEN released \cup {mem[p].sig[k]}
                                       ELSE released
           /\ \/ /\ k < Len(mem[p][f])
                 /\ offset' = [offset EXCEPT ![p] = k]
                 /\ UNCHANGED <<cmd, step, mem>>
              \/ /\ k = Len(mem[p][f])
                 /\ Written(p) < Len(WritesOf(cmd[p]))
                 /\ offset' = [offset EXCEPT ![p] = -1]
                 /\ step' = [step EXCEPT ![p] = @ + 1]
                 /\ UNCHANGED <<cmd, mem>>
              \/ /\ k = Len(mem[p][f])
                 /\ Written(p) = Len(WritesOf(cmd[p]))
                 /\ Exit(p)
    /\ UNCHANGED <<scenario, gens, kills, committed, accepted>>

-----------------------------------------------------------------------------
(* keygen and sign                                                         *)

\* Fresh seeds for n signers, whose counters start at leaf 0.  An existing key
\* is not looked for.
Keygen(p, n) ==
    /\ cmd[p] = "idle"
    /\ Len(gens) < scenario.gens
    /\ gens' = Append(gens, n)
    /\ mem' = [mem EXCEPT
          ![p].key = <<[gen |-> Len(gens) + 1, n |-> n]>> \o [i \in 1..n |-> 0],
          ![p].pub = PubWords(Len(gens) + 1, n)]
    /\ Begin(p, "keygen")
    /\ step' = [step EXCEPT ![p] = 1]
    /\ UNCHANGED <<scenario, dir, offset, kills, committed, released, accepted>>

SignStart(p) ==
    /\ cmd[p] = "idle"
    /\ Begin(p, "sign")
    /\ UNCHANGED <<dir, step, offset, mem, world>>

Lockstep(f) == \A i \in 1..f[1].n : Counter(f, i) = Counter(f, 1)

\* The checks before anything is signed.
SignOk(f) == Lockstep(f) /\ Counter(f, 1) < Capacity

\* Variant: only the first signer's counter advances.
AdvancedFirst(f) == [f EXCEPT ![2] = Counter(f, 1) + 1]

\* Variant: the counters are stored as they were read.
AdvancedNot(f) == f

\* The counters that cmd_sign stores.
Advanced(f) == [k \in 1..Len(f) |-> IF k = 1 THEN f[1] ELSE Counter(f, k - 1) + 1]

\* All signers sign, in parallel, and all counters advance; nothing is written
\* before the last of them is done.
Sign(p) ==
    /\ ReadAll(p, "sign")
    /\ LET key == mem[p].key
       IN  /\ SignOk(key)
           /\ mem' = [mem EXCEPT
                 ![p].sig = [i \in 1..key[1].n |->
                     [gen |-> key[1].gen, idx |-> i, leaf |-> Counter(key, i),
                      com |-> mem[p].com[1]]],
                 ![p].key = Advanced(key)]
    /\ step' = [step EXCEPT ![p] = @ + 1]
    /\ UNCHANGED <<dir, cmd, offset, world>>

-----------------------------------------------------------------------------
(* commit, prove and verify                                                *)

\* A fresh commitment to the message.
Commit(p, m) ==
    /\ cmd[p] = "idle"
    /\ Len(committed) < MaxCommits
    /\ committed' = Append(committed, m)
    /\ mem' = [mem EXCEPT ![p].com = <<Len(committed) + 1>>,
                          ![p].state = <<Len(committed) + 1>>]
    /\ Begin(p, "commit")
    /\ step' = [step EXCEPT ![p] = 1]
    /\ UNCHANGED <<scenario, dir, offset, gens, kills, released, accepted>>

ProveStart(p) ==
    /\ cmd[p] = "idle"
    /\ Begin(p, "prove")
    /\ UNCHANGED <<dir, step, offset, mem, world>>

\* One epoch for all: MultiUser::prove, and the one epoch wire of the circuit.
SharedEpoch(sigs) == \A i \in 1..Len(sigs) : sigs[i].leaf = sigs[1].leaf

\* The checks of cmd_prove and MultiUser::prove.
ProveOk(pub, sigs) ==
    /\ Len(sigs) = Len(Roots(pub))
    /\ \A i \in 1..Len(sigs) : Root(sigs[i].gen, sigs[i].idx) = Roots(pub)[i]
    /\ SharedEpoch(sigs)

\* PROOF_LABEL or PROOF_LABEL_MULTI.
Label(pub) == IF Len(Roots(pub)) = 1 THEN "single" ELSE "multi"

Prove(p) ==
    /\ ReadAll(p, "prove")
    /\ ProveOk(mem[p].pub, mem[p].sig)
    /\ mem' = [mem EXCEPT ![p].bsig =
          <<[label |-> Label(mem[p].pub), pub |-> mem[p].pub,
             msg |-> committed[mem[p].state[1]]]>>]
    /\ step' = [step EXCEPT ![p] = @ + 1]
    /\ UNCHANGED <<dir, cmd, offset, world>>

VerifyStart(p) ==
    /\ cmd[p] = "idle"
    /\ Begin(p, "verify")
    /\ UNCHANGED <<dir, step, offset, mem, world>>

\* [PASS]: the label is that of the verifier and the public inputs are its own.
Passes(pub, b, m) == b.label = Label(pub) /\ b.pub = pub /\ b.msg = m

Verify(p, m) ==
    /\ ReadAll(p, "verify")
    /\ accepted' = IF Passes(mem[p].pub, mem[p].bsig[1], m)
                   THEN accepted \cup {[pub |-> mem[p].pub, msg |-> m]}
                   ELSE accepted
    /\ Exit(p)
    /\ UNCHANGED <<scenario, dir, gens, kills, committed, released>>

-----------------------------------------------------------------------------
(* Failures                                                                *)

\* The error returns that depend on what was read.
Refused(p) ==
    \/ /\ Reading(p)
       /\ LET f == ReadsOf[cmd[p]][step[p] + 1] IN ~ Wellformed(p, f, dir[f])
    \/ ReadAll(p, "sign") /\ ~ SignOk(mem[p].key)
    \/ ReadAll(p, "prove") /\ ~ ProveOk(mem[p].pub, mem[p].sig)

Refuse(p) ==
    /\ Refused(p)
    /\ Exit(p)
    /\ UNCHANGED <<dir, world>>

\* The command is killed, or a system call fails.
Kill(p) ==
    /\ cmd[p] # "idle"
    /\ kills < scenario.kills
    /\ kills' = kills + 1
    /\ Exit(p)
    /\ UNCHANGED <<scenario, dir, gens, committed, released, accepted>>

-----------------------------------------------------------------------------

Init ==
    /\ scenario \in Scenarios
    /\ dir = NoFiles
    /\ cmd = [p \in Procs |-> "idle"]
    /\ step = [p \in Procs |-> 0]
    /\ offset = [p \in Procs |-> -1]
    /\ mem = [p \in Procs |-> NoFiles]
    /\ gens = <<>>
    /\ kills = 0
    /\ committed = <<>>
    /\ released = {}
    /\ accepted = {}

Next ==
    \/ \E p \in Signers :
          (\E n \in 1..MaxSigners : Keygen(p, n)) \/ SignStart(p) \/ Sign(p)
    \/ \E m \in Messages : Commit(User, m) \/ Verify(User, m)
    \/ ProveStart(User) \/ Prove(User) \/ VerifyStart(User)
    \/ \E p \in Procs :
          Read(p) \/ OpenFile(p) \/ WriteWord(p) \/ Refuse(p) \/ Kill(p)

Spec == Init /\ [][Next]_vars

-----------------------------------------------------------------------------
(* Properties                                                              *)

Gen == 1..MaxGens
Index == 1..MaxSigners
Signature == [gen : Gen, idx : Index, leaf : 0..(Capacity - 1), com : 1..MaxCommits]

\* What verify accepts was signed by every signer that keygen made, at one
\* shared leaf, on one commitment to that message: no interleaving and no torn
\* signer_pub.bin or xmss_sig.bin lowers the number of signers, and no mix of
\* two answers passes for one.
EverySignerSigned ==
    \A a \in accepted : \E g \in 1..Len(gens), l \in 0..(Capacity - 1),
                           c \in 1..Len(committed) :
        /\ Seed(a.pub) = Root(g, 0)
        /\ Roots(a.pub) = [i \in 1..gens[g] |-> Root(g, i)]
        /\ committed[c] = a.msg
        /\ \A i \in 1..gens[g] :
              [gen |-> g, idx |-> i, leaf |-> l, com |-> c] \in released

\* Leaves are used up without a gap, by all signers: a signer comes to leaf l
\* only when every co-signer's signature at leaf l - 1 is out.  Signatures are
\* written before counters, and no torn or mixed signer_key.bin moves a signer
\* further than that, as long as keygen runs once: two keygens that race a sign
\* can put the counters of one key behind the seeds of another.
NoGap ==
    \A s \in released : Len(gens) = 1 /\ s.leaf > 0 =>
        \A i \in 1..gens[s.gen] : \E t \in released :
            t.gen = s.gen /\ t.idx = i /\ t.leaf = s.leaf - 1

Undisturbed == Cardinality(Signers) = 1 /\ scenario.kills = 0

\* One signer process that is not interrupted: while it is idle, each counter
\* is the number of signatures that its signer has released ("sign -> xmss_sig.
\* bin; next_leaf++").
CountersCount ==
    Undisturbed /\ (\A p \in Signers : cmd[p] = "idle") /\ dir.key # <<>> =>
        \A i \in 1..dir.key[1].n :
            Counter(dir.key, i) = Cardinality({s \in released :
                                      s.gen = dir.key[1].gen /\ s.idx = i})

\* Each co-signer of each keygen, seen alone.
Issued(g, i) ==
    {[kid |-> g, leaf |-> s.leaf, com |-> s.com] :
        s \in {t \in released : t.gen = g /\ t.idx = i}}
Cosigner(g, i) ==
    INSTANCE OneTimeSigner WITH
        Keys <- {g}, Commitments <- 1..MaxCommits, issued <- Issued(g, i)

\* One signer process that is not interrupted: every co-signer is a one-time
\* signer, whose signatures leave on ever higher leaves.
CosignersAreOneTime ==
    [][Undisturbed => \A g \in Gen, i \in Index :
          Cosigner(g, i)!Next \/ UNCHANGED Issued(g, i)]_vars
=============================================================================
