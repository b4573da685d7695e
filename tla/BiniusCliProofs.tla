-------------------------- MODULE BiniusCliProofs --------------------------
(***************************************************************************)
(* The Binius64 tool for any number of signer processes, co-signers,       *)
(* keygens and commitments: what verify passes was signed by every         *)
(* co-signer at one leaf on one commitment, although nothing locks the     *)
(* directory and a file may hold words of several writers; leaves are used *)
(* without a gap as long as keygen runs once; and for one undisturbed      *)
(* signer process the counters count and every co-signer is a one-time     *)
(* signer.                                                                 *)
(***************************************************************************)
EXTENDS BiniusCli, SequenceTheorems, FiniteSetTheorems, TLAPS

-----------------------------------------------------------------------------
(* What a file may hold: every word is at its place and was made by some    *)
(* command, though not all by the same one                                 *)

BaseWord == {Hole} \cup Nat \cup [gen : Nat, n : Nat] \cup (Nat \X Nat) \cup Signature
Proof == [label : {"single", "multi"}, pub : Seq(BaseWord), msg : Messages]
Word == BaseWord \cup Proof

IsHead(w) == \E g \in 1..Len(gens) : w = [gen |-> g, n |-> gens[g]]
IsRoot(k, w) ==
    \E g \in 1..Len(gens) : \/ k <= gens[g] /\ w = Root(g, k)
                            \/ k = gens[g] + 1 /\ w = Root(g, 0)
IsSig(w) == w \in Signature /\ w.gen <= Len(gens) /\ w.com <= Len(committed)

\* All co-signers of keygen g signed commitment c at leaf l.
AllSigned(g, l, c) ==
    \A i \in 1..gens[g] : [gen |-> g, idx |-> i, leaf |-> l, com |-> c] \in released

\* A public key and a message that every co-signer signed for.
Backed(pub, msg) ==
    \E g \in 1..Len(gens), l \in 0..(Capacity - 1), c \in 1..Len(committed) :
        /\ Seed(pub) = Root(g, 0)
        /\ Roots(pub) = [i \in 1..gens[g] |-> Root(g, i)]
        /\ committed[c] = msg
        /\ AllSigned(g, l, c)

WordOk(f, k, w) ==
    /\ f = "key" => w = Hole \/ (k = 1 /\ IsHead(w)) \/ (k > 1 /\ w \in Nat)
    /\ f = "pub" => w = Hole \/ IsRoot(k, w)
    /\ f \in {"com", "state"} => w \in 1..Len(committed)
    /\ f = "sig" => w = Hole \/ IsSig(w)
    /\ f = "bsig" => w \in Proof /\ Backed(w.pub, w.msg)

FileOk(f, s) ==
    /\ f \in {"com", "state", "bsig"} => Len(s) <= 1
    /\ \A k \in 1..Len(s) : WordOk(f, k, s[k])

\* A signature in a file that verify or prove may read is out.
Out(s) == \A k \in 1..Len(s) : s[k] = Hole \/ s[k] \in released

-----------------------------------------------------------------------------
(* What a process holds                                                    *)

Commands(p) ==
    IF p = User THEN {"idle", "commit", "prove", "verify"} ELSE {"idle", "keygen", "sign"}

\* What a command knows of the files that it has read.
Known(p) ==
    /\ cmd[p] = "sign" =>
          /\ step[p] >= 1 => KeyOk(mem[p]["key"])
          /\ step[p] = 2 => Len(mem[p]["com"]) = 1
          /\ step[p] >= 3 => \A k \in 1..Len(mem[p]["sig"]) : IsSig(mem[p]["sig"][k])
    /\ cmd[p] = "prove" =>
          /\ step[p] >= 1 => Len(mem[p]["state"]) = 1
          /\ step[p] >= 2 => PubOk(mem[p]["pub"])
          /\ step[p] = 3 => SigOk(mem[p]["sig"], Seed(mem[p]["pub"]), mem[p]["state"][1])
    /\ cmd[p] = "verify" /\ step[p] = 2 => Len(mem[p]["bsig"]) = 1

ProcInv(p) ==
    /\ cmd[p] \in Commands(p)
    /\ step[p] \in Nat /\ offset[p] \in Int /\ offset[p] >= -1
    /\ offset[p] >= 0 => Writing(p)
    /\ cmd[p] = "idle" => step[p] = 0 /\ offset[p] = -1 /\ mem[p] = NoFiles
    /\ \A f \in Files : FileOk(f, mem[p][f])
    /\ Known(p)

WorldInv ==
    /\ scenario \in Scenarios
    /\ Len(gens) <= scenario.gens
    /\ \A a \in accepted : Backed(a.pub, a.msg)

TypeOK ==
    /\ gens \in Seq(1..MaxSigners)
    /\ committed \in Seq(Messages) /\ Len(committed) <= MaxCommits
    /\ released \subseteq Signature
    /\ dir \in [Files -> Seq(Word)]
    /\ mem \in [Procs -> [Files -> Seq(Word)]]
    /\ DOMAIN cmd = Procs /\ DOMAIN step = Procs /\ DOMAIN offset = Procs
    /\ cmd = [p \in Procs |-> cmd[p]] /\ step = [p \in Procs |-> step[p]]
    /\ offset = [p \in Procs |-> offset[p]]

SignedInv ==
    /\ TypeOK /\ WorldInv
    /\ \A f \in Files : FileOk(f, dir[f])
    /\ Out(dir["sig"]) /\ Out(mem[User]["sig"])
    /\ \A p \in Procs : ProcInv(p)

-----------------------------------------------------------------------------
(* Words and files                                                         *)

\* new is old with w at place k: the gap before it is filled, the rest stays.
Wrote(new, old, k, w) ==
    /\ new[k] = w
    /\ k > Len(old) => Len(new) = k
    /\ k <= Len(old) => Len(new) = Len(old)
    /\ \A i \in 1..Len(old) : i # k => new[i] = old[i]
    /\ \A i \in 1..Len(new) : i # k /\ i > Len(old) => new[i] = Hole

\* A word written into a file leaves a file with that word at its place.
LEMMA WriteAtSeq ==
    ASSUME NEW W, Hole \in W, NEW f \in Seq(W), NEW k \in Nat \ {0}, NEW w \in W
    PROVE  WriteAt(f, k, w) \in Seq(W) /\ Wrote(WriteAt(f, k, w), f, k, w)
<1> DEFINE n == IF k > Len(f) THEN k ELSE Len(f)
<1>1. Len(f) \in Nat /\ n \in Nat
  OBVIOUS
<1>2. \A i \in 1..n : (IF i = k THEN w ELSE IF i <= Len(f) THEN f[i] ELSE Hole) \in W
  <2>1. \A i \in 1..Len(f) : f[i] \in W
    OBVIOUS
  <2> QED BY <1>1, <2>1
<1>3. WriteAt(f, k, w) = [i \in 1..n |->
          IF i = k THEN w ELSE IF i <= Len(f) THEN f[i] ELSE Hole]
  BY DEF WriteAt
<1> QED BY <1>1, <1>2, <1>3 DEF Wrote

\* A step adds keygens, commitments and released signatures, and removes none.
Grew ==
    /\ scenario' = scenario
    /\ released \subseteq released'
    /\ gens' = gens \/ \E n \in 1..MaxSigners : gens' = Append(gens, n)
    /\ committed' = committed \/ \E m \in Messages : committed' = Append(committed, m)

\* What Append leaves alone.
LEMMA Extended ==
    ASSUME NEW W, NEW s \in Seq(W), NEW t,
           t = s \/ \E x \in W : t = Append(s, x)
    PROVE  /\ t \in Seq(W) /\ Len(t) \in Nat /\ Len(t) >= Len(s)
           /\ \A i \in 1..Len(s) : t[i] = s[i] /\ s[i] \in W
<1>1. CASE t = s
  BY <1>1
<1>2. CASE \E x \in W : t = Append(s, x)
  BY <1>2
<1> QED BY <1>1, <1>2

\* Keygens and commitments keep their numbers.
LEMMA Grown ==
    ASSUME TypeOK, Grew
    PROVE  /\ Len(gens') \in Nat /\ Len(gens') >= Len(gens)
           /\ \A g \in 1..Len(gens) : gens'[g] = gens[g] /\ gens[g] \in 1..MaxSigners
           /\ gens' \in Seq(1..MaxSigners)
           /\ Len(committed') \in Nat /\ Len(committed') >= Len(committed)
           /\ \A c \in 1..Len(committed) : committed'[c] = committed[c]
           /\ committed' \in Seq(Messages)
<1>1. gens \in Seq(1..MaxSigners) /\ committed \in Seq(Messages)
  BY DEF TypeOK
<1>2. /\ gens' \in Seq(1..MaxSigners) /\ Len(gens') \in Nat /\ Len(gens') >= Len(gens)
      /\ \A g \in 1..Len(gens) : gens'[g] = gens[g] /\ gens[g] \in 1..MaxSigners
  <2>1. gens' = gens \/ \E n \in 1..MaxSigners : gens' = Append(gens, n)
    BY DEF Grew
  <2>2. PICK W, t : W = 1..MaxSigners /\ t = gens'
    OBVIOUS
  <2>3. gens \in Seq(W) /\ (t = gens \/ \E n \in W : t = Append(gens, n))
    BY <1>1, <2>1, <2>2
  <2>4. /\ t \in Seq(W) /\ Len(t) \in Nat /\ Len(t) >= Len(gens)
        /\ \A i \in 1..Len(gens) : t[i] = gens[i] /\ gens[i] \in W
    BY <2>3, Extended
  <2> QED BY <2>2, <2>4
<1>3. /\ committed' \in Seq(Messages) /\ Len(committed') \in Nat
      /\ Len(committed') >= Len(committed)
      /\ \A c \in 1..Len(committed) : committed'[c] = committed[c]
  <2>1. committed' = committed \/ \E m \in Messages : committed' = Append(committed, m)
    BY DEF Grew
  <2>2. PICK t : t = committed'
    OBVIOUS
  <2>3. t = committed \/ \E m \in Messages : t = Append(committed, m)
    BY <2>1, <2>2
  <2>4. /\ t \in Seq(Messages) /\ Len(t) \in Nat /\ Len(t) >= Len(committed)
        /\ \A i \in 1..Len(committed) : t[i] = committed[i]
    BY <1>1, <2>3, Extended
  <2> QED BY <2>2, <2>4
<1> QED BY <1>2, <1>3

\* What every signer signed for stays signed.
LEMMA BackedStays ==
    ASSUME TypeOK, Grew, NEW pub, NEW msg, Backed(pub, msg)
    PROVE  Backed(pub, msg)'
<1>1. PICK g \in 1..Len(gens), l \in 0..(Capacity - 1), c \in 1..Len(committed) :
         /\ Seed(pub) = Root(g, 0)
         /\ Roots(pub) = [i \in 1..gens[g] |-> Root(g, i)]
         /\ committed[c] = msg
         /\ AllSigned(g, l, c)
  BY DEF Backed
<1>2. gens'[g] = gens[g] /\ committed'[c] = committed[c]
  BY Grown
<1>3. g \in 1..Len(gens') /\ c \in 1..Len(committed')
  <2>1. Len(gens) \in Nat /\ Len(committed) \in Nat
    BY DEF TypeOK
  <2> QED BY <2>1, Grown
<1>4. AllSigned(g, l, c)'
  BY <1>1, <1>2 DEF AllSigned, Grew
<1> QED BY <1>1, <1>2, <1>3, <1>4 DEF Backed

\* A well-formed signature stays one.
LEMMA SigStays ==
    ASSUME TypeOK, Grew, NEW w, IsSig(w)
    PROVE  IsSig(w)'
<1>1. Len(gens) \in Nat /\ Len(committed) \in Nat
  BY DEF TypeOK
<1>2. w.gen \in Nat /\ w.com \in Nat
  BY ConstantsAssumption DEF IsSig, Signature, Gen
<1> QED BY <1>1, <1>2, Grown DEF IsSig

\* A word that fits its place goes on fitting it, whoever writes elsewhere.
LEMMA WordStays ==
    ASSUME TypeOK, Grew, NEW f, NEW k, NEW w, WordOk(f, k, w)
    PROVE  WordOk(f, k, w)'
<1>1. Len(gens) \in Nat /\ Len(committed) \in Nat
  BY DEF TypeOK
<1>2. IsHead(w) => IsHead(w)'
  BY <1>1, Grown DEF IsHead
<1>3. IsRoot(k, w) => IsRoot(k, w)'
  <2> SUFFICES ASSUME IsRoot(k, w) PROVE IsRoot(k, w)'
    OBVIOUS
  <2>1. PICK g \in 1..Len(gens) : \/ k <= gens[g] /\ w = Root(g, k)
                                  \/ k = gens[g] + 1 /\ w = Root(g, 0)
    BY DEF IsRoot
  <2>2. g \in 1..Len(gens') /\ gens'[g] = gens[g]
    BY <1>1, Grown
  <2> QED BY <2>1, <2>2 DEF IsRoot
<1>4. IsSig(w) => IsSig(w)'
  BY SigStays
<1>5. w \in 1..Len(committed) => w \in 1..Len(committed')
  BY <1>1, Grown
<1>6. f = "bsig" => w \in Proof /\ Backed(w.pub, w.msg)'
  <2> SUFFICES ASSUME f = "bsig" PROVE w \in Proof /\ Backed(w.pub, w.msg)'
    OBVIOUS
  <2>1. PICK pub, msg : pub = w.pub /\ msg = w.msg
    OBVIOUS
  <2>2. w \in Proof /\ Backed(pub, msg)
    BY <2>1 DEF WordOk
  <2>3. Backed(pub, msg)'
    BY <2>2, BackedStays
  <2> QED BY <2>1, <2>2, <2>3
<1> QED BY <1>2, <1>3, <1>4, <1>5, <1>6 DEF WordOk

\* So does a file that nobody writes.
LEMMA FileStays ==
    ASSUME TypeOK, Grew, NEW f, NEW s, FileOk(f, s)
    PROVE  FileOk(f, s)'
BY WordStays DEF FileOk

-----------------------------------------------------------------------------
(* Processes                                                               *)

\* The tables of reads and writes, spelled out.
LEMMA Tables ==
    /\ Len(ReadsOf["keygen"]) = 0 /\ Len(ReadsOf["commit"]) = 0
    /\ Len(ReadsOf["sign"]) = 2 /\ ReadsOf["sign"][1] = "key" /\ ReadsOf["sign"][2] = "com"
    /\ Len(ReadsOf["prove"]) = 3 /\ ReadsOf["prove"][1] = "state"
    /\ ReadsOf["prove"][2] = "pub" /\ ReadsOf["prove"][3] = "sig"
    /\ Len(ReadsOf["verify"]) = 2 /\ ReadsOf["verify"][1] = "pub"
    /\ ReadsOf["verify"][2] = "bsig"
    /\ Len(WritesOf("keygen")) = 2 /\ WritesOf("keygen")[1] = "key"
    /\ WritesOf("keygen")[2] = "pub"
    /\ Len(WritesOf("commit")) = 2 /\ WritesOf("commit")[1] = "com"
    /\ WritesOf("commit")[2] = "state"
    /\ Len(WritesOf("sign")) = 2 /\ WritesOf("sign")[1] = "sig" /\ WritesOf("sign")[2] = "key"
    /\ Len(WritesOf("prove")) = 1 /\ WritesOf("prove")[1] = "bsig"
    /\ Len(WritesOf("verify")) = 0
<1>1. /\ ReadsOf["keygen"] = <<>> /\ ReadsOf["commit"] = <<>>
      /\ ReadsOf["sign"] = <<"key", "com">> /\ ReadsOf["prove"] = <<"state", "pub", "sig">>
      /\ ReadsOf["verify"] = <<"pub", "bsig">>
  BY DEF ReadsOf, SignReads, ProveReads, VerifyReads
<1>2. /\ WritesOf("keygen") = <<"key", "pub">> /\ WritesOf("commit") = <<"com", "state">>
      /\ WritesOf("sign") = <<"sig", "key">> /\ WritesOf("prove") = <<"bsig">>
      /\ WritesOf("verify") = <<>>
  BY DEF WritesOf, KeygenWrites, CommitWrites, SignWrites, ProveWrites
<1> QED BY <1>1, <1>2

\* What a process reads and writes at each step of its command.
LEMMA Places ==
    ASSUME NEW p, cmd[p] \in {"keygen", "commit", "sign", "prove", "verify"}, step[p] \in Nat
    PROVE  /\ Reading(p) =>
              \/ cmd[p] = "sign" /\ step[p] = 0 /\ ReadsOf[cmd[p]][step[p] + 1] = "key"
              \/ cmd[p] = "sign" /\ step[p] = 1 /\ ReadsOf[cmd[p]][step[p] + 1] = "com"
              \/ cmd[p] = "prove" /\ step[p] = 0 /\ ReadsOf[cmd[p]][step[p] + 1] = "state"
              \/ cmd[p] = "prove" /\ step[p] = 1 /\ ReadsOf[cmd[p]][step[p] + 1] = "pub"
              \/ cmd[p] = "prove" /\ step[p] = 2 /\ ReadsOf[cmd[p]][step[p] + 1] = "sig"
              \/ cmd[p] = "verify" /\ step[p] = 0 /\ ReadsOf[cmd[p]][step[p] + 1] = "pub"
              \/ cmd[p] = "verify" /\ step[p] = 1 /\ ReadsOf[cmd[p]][step[p] + 1] = "bsig"
           /\ Writing(p) =>
              \/ cmd[p] = "keygen" /\ step[p] = 1 /\ Target(p) = "key"
              \/ cmd[p] = "keygen" /\ step[p] = 2 /\ Target(p) = "pub"
              \/ cmd[p] = "commit" /\ step[p] = 1 /\ Target(p) = "com"
              \/ cmd[p] = "commit" /\ step[p] = 2 /\ Target(p) = "state"
              \/ cmd[p] = "sign" /\ step[p] = 3 /\ Target(p) = "sig"
              \/ cmd[p] = "sign" /\ step[p] = 4 /\ Target(p) = "key"
              \/ cmd[p] = "prove" /\ step[p] = 4 /\ Target(p) = "bsig"
           /\ Writing(p) /\ Written(p) < Len(WritesOf(cmd[p])) => step[p] \in {1, 3}
           /\ Writing(p) /\ Written(p) = Len(WritesOf(cmd[p])) => step[p] \in {2, 4}
<1>1. CASE cmd[p] = "keygen"
  <2>1. Reading(p) <=> step[p] < 0
    BY <1>1, Tables DEF Reading
  <2>2. Written(p) = step[p] - 0
    BY <1>1, Tables DEF Written
  <2>3. Len(WritesOf(cmd[p])) = 2
    BY <1>1, Tables
  <2>4. Writing(p) <=> step[p] - 0 \in 1..2
    BY <1>1, <2>2, <2>3 DEF Writing
  <2>5. Writing(p) <=> step[p] \in 1..2
    BY <2>4
  <2>6. step[p] = 1 => Target(p) = "key"
    BY <1>1, <2>2, Tables DEF Target
  <2>7. step[p] = 2 => Target(p) = "pub"
    BY <1>1, <2>2, Tables DEF Target
  <2>8. /\ Writing(p) /\ Written(p) < Len(WritesOf(cmd[p])) => step[p] \in {1, 3}
        /\ Writing(p) /\ Written(p) = Len(WritesOf(cmd[p])) => step[p] \in {2, 4}
    BY <2>2, <2>3, <2>5
  <2>9. Writing(p) =>
                      \/ cmd[p] = "keygen" /\ step[p] = 1 /\ Target(p) = "key"
                      \/ cmd[p] = "keygen" /\ step[p] = 2 /\ Target(p) = "pub"
    BY <1>1, <2>5, <2>6, <2>7
  <2>10. ~ Reading(p)
    BY <2>1
  <2> QED BY <2>8, <2>9, <2>10, Zenon
<1>2. CASE cmd[p] = "commit"
  <2>1. Reading(p) <=> step[p] < 0
    BY <1>2, Tables DEF Reading
  <2>2. Written(p) = step[p] - 0
    BY <1>2, Tables DEF Written
  <2>3. Len(WritesOf(cmd[p])) = 2
    BY <1>2, Tables
  <2>4. Writing(p) <=> step[p] - 0 \in 1..2
    BY <1>2, <2>2, <2>3 DEF Writing
  <2>5. Writing(p) <=> step[p] \in 1..2
    BY <2>4
  <2>6. step[p] = 1 => Target(p) = "com"
    BY <1>2, <2>2, Tables DEF Target
  <2>7. step[p] = 2 => Target(p) = "state"
    BY <1>2, <2>2, Tables DEF Target
  <2>8. /\ Writing(p) /\ Written(p) < Len(WritesOf(cmd[p])) => step[p] \in {1, 3}
        /\ Writing(p) /\ Written(p) = Len(WritesOf(cmd[p])) => step[p] \in {2, 4}
    BY <2>2, <2>3, <2>5
  <2>9. Writing(p) =>
                      \/ cmd[p] = "commit" /\ step[p] = 1 /\ Target(p) = "com"
                      \/ cmd[p] = "commit" /\ step[p] = 2 /\ Target(p) = "state"
    BY <1>2, <2>5, <2>6, <2>7
  <2>10. ~ Reading(p)
    BY <2>1
  <2> QED BY <2>8, <2>9, <2>10, Zenon
<1>3. CASE cmd[p] = "sign"
  <2>1. Reading(p) <=> step[p] < 2
    BY <1>3, Tables DEF Reading
  <2>2. Written(p) = step[p] - 2
    BY <1>3, Tables DEF Written
  <2>3. Len(WritesOf(cmd[p])) = 2
    BY <1>3, Tables
  <2>4. Writing(p) <=> step[p] - 2 \in 1..2
    BY <1>3, <2>2, <2>3 DEF Writing
  <2>5. Writing(p) <=> step[p] \in 3..4
    BY <2>4
  <2>6. step[p] = 3 => Target(p) = "sig"
    BY <1>3, <2>2, Tables DEF Target
  <2>7. step[p] = 4 => Target(p) = "key"
    BY <1>3, <2>2, Tables DEF Target
  <2>8. /\ Writing(p) /\ Written(p) < Len(WritesOf(cmd[p])) => step[p] \in {1, 3}
        /\ Writing(p) /\ Written(p) = Len(WritesOf(cmd[p])) => step[p] \in {2, 4}
    BY <2>2, <2>3, <2>5
  <2>9. Writing(p) =>
                      \/ cmd[p] = "sign" /\ step[p] = 3 /\ Target(p) = "sig"
                      \/ cmd[p] = "sign" /\ step[p] = 4 /\ Target(p) = "key"
    BY <1>3, <2>5, <2>6, <2>7
  <2>10. Reading(p) =>
                      \/ cmd[p] = "sign" /\ step[p] = 0 /\ ReadsOf[cmd[p]][step[p] + 1] = "key"
                      \/ cmd[p] = "sign" /\ step[p] = 1 /\ ReadsOf[cmd[p]][step[p] + 1] = "com"
    BY <1>3, <2>1, Tables
  <2> QED BY <2>8, <2>9, <2>10, Zenon
<1>4. CASE cmd[p] = "prove"
  <2>1. Reading(p) <=> step[p] < 3
    BY <1>4, Tables DEF Reading
  <2>2. Written(p) = step[p] - 3
    BY <1>4, Tables DEF Written
  <2>3. Len(WritesOf(cmd[p])) = 1
    BY <1>4, Tables
  <2>4. Writing(p) <=> step[p] - 3 \in 1..1
    BY <1>4, <2>2, <2>3 DEF Writing
  <2>5. Writing(p) <=> step[p] \in 4..4
    BY <2>4
  <2>6. step[p] = 4 => Target(p) = "bsig"
    BY <1>4, <2>2, Tables DEF Target
  <2>7. /\ Writing(p) /\ Written(p) < Len(WritesOf(cmd[p])) => step[p] \in {1, 3}
        /\ Writing(p) /\ Written(p) = Len(WritesOf(cmd[p])) => step[p] \in {2, 4}
    BY <2>2, <2>3, <2>5
  <2>8. Writing(p) =>
                      \/ cmd[p] = "prove" /\ step[p] = 4 /\ Target(p) = "bsig"
    BY <1>4, <2>5, <2>6
  <2>9. Reading(p) =>
                      \/ cmd[p] = "prove" /\ step[p] = 0 /\ ReadsOf[cmd[p]][step[p] + 1] = "state"
                      \/ cmd[p] = "prove" /\ step[p] = 1 /\ ReadsOf[cmd[p]][step[p] + 1] = "pub"
                      \/ cmd[p] = "prove" /\ step[p] = 2 /\ ReadsOf[cmd[p]][step[p] + 1] = "sig"
    BY <1>4, <2>1, Tables
  <2> QED BY <2>7, <2>8, <2>9, Zenon
<1>5. CASE cmd[p] = "verify"
  BY <1>5, Tables DEF Reading, Writing, Written, Target
<1> QED BY <1>1, <1>2, <1>3, <1>4, <1>5

\* Only process p moves.
OnlyBy(p) ==
    \A q \in Procs \ {p} : /\ cmd'[q] = cmd[q] /\ step'[q] = step[q]
                           /\ offset'[q] = offset[q] /\ mem'[q] = mem[q]

\* A process that does not move keeps its invariant.
LEMMA ProcStays ==
    ASSUME SignedInv, Grew, NEW q \in Procs, cmd'[q] = cmd[q], step'[q] = step[q],
           offset'[q] = offset[q], mem'[q] = mem[q]
    PROVE  ProcInv(q)'
<1>1. ProcInv(q) /\ TypeOK
  BY DEF SignedInv
<1>2. Writing(q) => Writing(q)'
  BY DEF Writing, Written
<1>3. Known(q)'
  <2>1. (\A k \in 1..Len(mem[q]["sig"]) : IsSig(mem[q]["sig"][k])) =>
            (\A k \in 1..Len(mem[q]["sig"]) : IsSig(mem[q]["sig"][k]))'
    <3>1. PICK s : s = mem[q]["sig"]
      OBVIOUS
    <3>2. (\A k \in 1..Len(s) : IsSig(s[k])) => (\A k \in 1..Len(s) : IsSig(s[k]))'
      BY <1>1, SigStays
    <3> QED BY <3>1, <3>2
  <2> QED BY <1>1, <2>1 DEF ProcInv, Known
<1>4. \A f \in Files : FileOk(f, mem[q][f])'
  <2> SUFFICES ASSUME NEW f \in Files PROVE FileOk(f, mem[q][f])'
    OBVIOUS
  <2>1. PICK s : s = mem[q][f]
    OBVIOUS
  <2>2. FileOk(f, s)
    BY <1>1, <2>1 DEF ProcInv
  <2>3. FileOk(f, s)'
    BY <1>1, <2>2, FileStays
  <2>4. mem'[q][f] = s
    BY <2>1
  <2> QED BY <2>3, <2>4
<1>5. Commands(q)' = Commands(q)
  BY DEF Commands
<1> QED BY <1>1, <1>2, <1>3, <1>4, <1>5 DEF ProcInv

\* A step that writes no file keeps the directory good.
LEMMA DirStays ==
    ASSUME SignedInv, Grew, dir' = dir
    PROVE  \A f \in Files : FileOk(f, dir[f])'
<1> SUFFICES ASSUME NEW f \in Files PROVE FileOk(f, dir[f])'
  OBVIOUS
<1>1. PICK s : s = dir[f]
  OBVIOUS
<1>2. FileOk(f, s)'
  BY <1>1, FileStays DEF SignedInv
<1> QED BY <1>1, <1>2

\* A released signature is not taken back.
LEMMA OutStays ==
    ASSUME Grew, NEW s, Out(s)
    PROVE  Out(s)'
BY DEF Out, Grew

\* What a step of p still has to show.
LEMMA Frame ==
    ASSUME SignedInv, Grew, NEW p \in Procs, OnlyBy(p), TypeOK', ProcInv(p)',
           \A f \in Files : FileOk(f, dir[f])', Out(dir["sig"])',
           p = User => Out(mem[User]["sig"])',
           Len(gens') <= scenario'.gens,
           \A a \in accepted' : a \in accepted \/ Backed(a.pub, a.msg)'
    PROVE  SignedInv'
<1>1. Procs' = Procs
  BY DEF Grew, Procs, Signers
<1>2. \A q \in Procs' : ProcInv(q)'
  BY <1>1, ProcStays DEF OnlyBy
<1>3. Out(mem[User]["sig"])'
  <2>1. CASE p # User
    <3>1. PICK s : s = mem[User]["sig"]
      OBVIOUS
    <3>2. mem'[User]["sig"] = s
      BY <2>1, <3>1 DEF OnlyBy, Procs
    <3>3. Out(s)'
      BY <3>1, OutStays DEF SignedInv
    <3> QED BY <3>2, <3>3
  <2> QED BY <2>1
<1>4. \A a \in accepted' : Backed(a.pub, a.msg)'
  <2> SUFFICES ASSUME NEW a \in accepted' PROVE Backed(a.pub, a.msg)'
    OBVIOUS
  <2>1. CASE a \in accepted
    BY <2>1, BackedStays DEF SignedInv, WorldInv
  <2> QED BY <2>1
<1>5. WorldInv'
  BY <1>4 DEF SignedInv, WorldInv, Grew
<1> QED BY <1>2, <1>3, <1>5 DEF SignedInv

\* What an idle process holds.
LEMMA NothingOpened ==
    /\ NoFiles \in [Files -> Seq(Word)]
    /\ \A f \in Files : NoFiles[f] = <<>>
    /\ \A f \in Files : FileOk(f, <<>>)
    /\ Out(<<>>)
BY DEF NoFiles, FileOk, Out

\* A command that returns or is killed leaves an idle process.
LEMMA ExitFrame ==
    ASSUME SignedInv, Grew, NEW p \in Procs, Exit(p)
    PROVE  /\ OnlyBy(p) /\ ProcInv(p)'
           /\ mem' \in [Procs -> [Files -> Seq(Word)]]
           /\ DOMAIN cmd' = Procs /\ DOMAIN step' = Procs /\ DOMAIN offset' = Procs
           /\ cmd' = [q \in Procs |-> cmd'[q]] /\ step' = [q \in Procs |-> step'[q]]
           /\ offset' = [q \in Procs |-> offset'[q]]
           /\ p = User => Out(mem[User]["sig"])'
<1>1. TypeOK
  BY DEF SignedInv
<1>2. cmd'[p] = "idle" /\ step'[p] = 0 /\ offset'[p] = -1 /\ mem'[p] = NoFiles
  BY <1>1 DEF Exit, TypeOK
<1>3. OnlyBy(p)
  BY <1>1 DEF Exit, TypeOK, OnlyBy
<1>4. \A f \in Files : FileOk(f, mem[p][f])'
  <2>1. \A f \in Files : FileOk(f, <<>>)'
    BY DEF FileOk
  <2> QED BY <1>2, <2>1, NothingOpened
<1>5. ProcInv(p)'
  BY <1>2, <1>4 DEF ProcInv, Commands, Known
<1>6. p = User => Out(mem[User]["sig"])'
  BY <1>2, NothingOpened DEF Out, Files
<1>7. mem' \in [Procs -> [Files -> Seq(Word)]]
  BY <1>1, NothingOpened DEF Exit, TypeOK
<1>8. /\ DOMAIN cmd' = Procs /\ DOMAIN step' = Procs /\ DOMAIN offset' = Procs
      /\ cmd' = [q \in Procs |-> cmd'[q]] /\ step' = [q \in Procs |-> step'[q]]
      /\ offset' = [q \in Procs |-> offset'[q]]
  BY <1>1 DEF Exit, TypeOK
<1> QED BY <1>3, <1>5, <1>6, <1>7, <1>8

-----------------------------------------------------------------------------
(* keygen and commit                                                       *)

\* What keygen writes.
KeyFile(g, n) == <<[gen |-> g, n |-> n]>> \o [i \in 1..n |-> 0]

\* The words of a fresh signer_key.bin.
LEMMA KeyWords ==
    ASSUME NEW g \in Nat, NEW n \in 1..MaxSigners
    PROVE  /\ KeyFile(g, n) \in Seq(Word) /\ Len(KeyFile(g, n)) = n + 1
           /\ KeyFile(g, n)[1] = [gen |-> g, n |-> n]
           /\ \A k \in 2..(n + 1) : KeyFile(g, n)[k] = 0
<1> DEFINE zeros == [i \in 1..n |-> 0]
           head == [gen |-> g, n |-> n]
<1>1. n \in Nat /\ n >= 1
  BY ConstantsAssumption
<1>2. head \in Word /\ 0 \in Word
  BY <1>1 DEF Word, BaseWord
<1> HIDE DEF head
<1>3. zeros \in Seq(Word) /\ Len(zeros) = n /\ \A i \in 1..n : zeros[i] = 0
  BY <1>1, <1>2
<1> HIDE DEF zeros
<1>4. <<head>> \in Seq(Word)
  BY <1>2
<1>5. /\ <<head>> \o zeros \in Seq(Word) /\ Len(<<head>> \o zeros) = n + 1
      /\ (<<head>> \o zeros)[1] = head
      /\ \A k \in 2..(n + 1) : (<<head>> \o zeros)[k] = zeros[k - 1]
  BY <1>1, <1>3, <1>4
<1>6. \A k \in 2..(n + 1) : zeros[k - 1] = 0
  BY <1>1, <1>3
<1>7. (<<head>> \o zeros \in Seq(Word)) /\ Len(<<head>> \o zeros) = n + 1
      /\ (<<head>> \o zeros)[1] = head
      /\ \A k \in 2..(n + 1) : (<<head>> \o zeros)[k] = 0
  BY <1>5, <1>6
<1> QED BY <1>7 DEF head, zeros, KeyFile

\* The words of a fresh signer_pub.bin: the roots, then pk_seed.
LEMMA PubWordsAre ==
    ASSUME NEW g \in Nat, NEW n \in 1..MaxSigners
    PROVE  /\ PubWords(g, n) \in Seq(Word) /\ Len(PubWords(g, n)) = n + 1
           /\ PubWords(g, n)[n + 1] = Root(g, 0)
           /\ \A k \in 1..n : PubWords(g, n)[k] = Root(g, k)
<1>1. n \in Nat /\ n >= 1
  BY ConstantsAssumption
<1>2. PubWords(g, n) = [k \in 1..(n + 1) |-> IF k = n + 1 THEN Root(g, 0) ELSE Root(g, k)]
  BY <1>1 DEF PubWords, SeedAt
<1>3. \A k \in 0..(n + 1) : Root(g, k) \in Word
  BY <1>1 DEF Root, Word, BaseWord
<1>4. \A k \in 1..(n + 1) :
         (IF k = n + 1 THEN Root(g, 0) ELSE Root(g, k)) \in Word
  BY <1>1, <1>3
<1> HIDE DEF Root
<1> QED BY <1>1, <1>2, <1>4

\* cmd_keygen makes words that fit their places.
LEMMA KeygenKeeps ==
    ASSUME SignedInv, NEW p \in Signers, NEW n \in 1..MaxSigners, Keygen(p, n)
    PROVE  SignedInv'
<1>1. TypeOK /\ ProcInv(p) /\ WorldInv /\ p \in Procs
  BY DEF SignedInv, Procs
<1>2. Grew
  BY DEF Keygen, Grew
<1>3. p # User
  BY <1>1, ConstantsAssumption DEF WorldInv, Signers
<1>4. PICK g, key, pub : /\ g = Len(gens) + 1 /\ key = KeyFile(g, n)
                         /\ pub = PubWords(g, n)
  OBVIOUS
<1>5. g \in Nat /\ g >= 1 /\ n \in Nat /\ n >= 1
  BY <1>1, <1>4, ConstantsAssumption DEF TypeOK
<1>6. /\ key \in Seq(Word) /\ Len(key) = n + 1
      /\ key[1] = [gen |-> g, n |-> n]
      /\ \A k \in 2..(n + 1) : key[k] = 0
  BY <1>4, <1>5, KeyWords
<1>7. /\ pub \in Seq(Word) /\ Len(pub) = n + 1
      /\ pub[n + 1] = Root(g, 0)
      /\ \A k \in 1..n : pub[k] = Root(g, k)
  BY <1>4, <1>5, PubWordsAre
<1>8. gens' = Append(gens, n) /\ Len(gens') = g /\ gens'[g] = n
  BY <1>1, <1>4, <1>5 DEF Keygen, TypeOK
<1>9. /\ mem' = [mem EXCEPT ![p].key = key, ![p].pub = pub]
      /\ cmd' = [cmd EXCEPT ![p] = "keygen"] /\ step' = [step EXCEPT ![p] = 1]
      /\ cmd[p] = "idle" /\ offset' = offset /\ dir' = dir /\ Len(gens) < scenario.gens
      /\ accepted' = accepted /\ scenario' = scenario /\ released' = released
      /\ committed' = committed
  BY <1>4 DEF Keygen, Begin, KeyFile
<1>10. /\ OnlyBy(p) /\ cmd'[p] = "keygen" /\ step'[p] = 1 /\ offset'[p] = -1
       /\ mem'[p]["key"] = key /\ mem'[p]["pub"] = pub
       /\ \A f \in Files \ {"key", "pub"} : mem'[p][f] = <<>>
  BY <1>1, <1>9 DEF OnlyBy, TypeOK, ProcInv, Files, NoFiles
<1>11. TypeOK'
  <2>1. mem' \in [Procs -> [Files -> Seq(Word)]]
    BY <1>1, <1>6, <1>7, <1>9 DEF TypeOK, Files
  <2>2. gens' \in Seq(1..MaxSigners)
    BY <1>1, <1>2, Grown
  <2>3. /\ DOMAIN cmd' = Procs /\ DOMAIN step' = Procs /\ DOMAIN offset' = Procs
        /\ cmd' = [q \in Procs |-> cmd'[q]] /\ step' = [q \in Procs |-> step'[q]]
        /\ offset' = [q \in Procs |-> offset'[q]]
    BY <1>1, <1>9 DEF TypeOK
  <2> QED BY <1>1, <1>9, <2>1, <2>2, <2>3 DEF TypeOK, Procs, Signers
<1>12. FileOk("key", mem[p]["key"])'
  <2>1. \A k \in 1..(n + 1) : WordOk("key", k, key[k])'
    <3>1. IsHead(key[1])'
      BY <1>5, <1>6, <1>8 DEF IsHead
    <3> QED BY <1>5, <1>6, <3>1 DEF WordOk
  <2> QED BY <1>6, <1>10, <2>1 DEF FileOk
<1>13. FileOk("pub", mem[p]["pub"])'
  <2>1. \A k \in 1..(n + 1) : IsRoot(k, pub[k])'
    <3>1. g \in 1..Len(gens')
      BY <1>5, <1>8
    <3> QED BY <1>5, <1>7, <1>8, <3>1 DEF IsRoot
  <2>2. \A k \in 1..(n + 1) : WordOk("pub", k, pub[k])'
    BY <2>1 DEF WordOk
  <2> QED BY <1>7, <1>10, <2>2 DEF FileOk
<1>14. \A f \in Files : FileOk(f, mem[p][f])'
  <2>1. \A f \in Files : FileOk(f, <<>>)'
    BY DEF FileOk
  <2> QED BY <1>10, <1>12, <1>13, <2>1
<1>15. ProcInv(p)'
  <2>1. Known(p)' /\ cmd'[p] \in Commands(p)
    BY <1>3, <1>10 DEF Known, Commands
  <2> QED BY <1>10, <1>14, <2>1 DEF ProcInv, Commands
<1>16. \A f \in Files : FileOk(f, dir[f])'
  BY <1>1, <1>2, <1>9, DirStays
<1>17. Out(dir["sig"])'
  BY <1>9 DEF SignedInv, Out
<1>18. Len(gens') <= scenario'.gens
  <2>1. scenario.gens \in Nat
    BY <1>1, ConstantsAssumption DEF WorldInv
  <2>2. Len(gens) \in Nat
    BY <1>1 DEF TypeOK
  <2> QED BY <1>4, <1>8, <1>9, <2>1, <2>2
<1> QED BY <1>1, <1>2, <1>3, <1>9, <1>10, <1>11, <1>15, <1>16, <1>17, <1>18, Frame

\* cmd_commit makes an opening that fits its commitment.
LEMMA CommitKeeps ==
    ASSUME SignedInv, NEW m \in Messages, Commit(User, m)
    PROVE  SignedInv'
<1>1. TypeOK /\ ProcInv(User) /\ WorldInv /\ User \in Procs
  BY DEF SignedInv, Procs
<1>2. Grew
  BY DEF Commit, Grew
<1>3. PICK c : c = Len(committed) + 1
  OBVIOUS
<1>4. c \in Nat /\ c >= 1 /\ c <= MaxCommits /\ Len(committed') = c
  BY <1>1, <1>3, ConstantsAssumption DEF TypeOK, Commit
<1>5. /\ mem' = [mem EXCEPT ![User].com = <<c>>, ![User].state = <<c>>]
      /\ cmd' = [cmd EXCEPT ![User] = "commit"] /\ step' = [step EXCEPT ![User] = 1]
      /\ cmd[User] = "idle" /\ offset' = offset /\ dir' = dir /\ gens' = gens
      /\ accepted' = accepted /\ scenario' = scenario /\ released' = released
  BY <1>3 DEF Commit, Begin
<1>6. /\ OnlyBy(User) /\ cmd'[User] = "commit" /\ step'[User] = 1 /\ offset'[User] = -1
      /\ mem'[User]["com"] = <<c>> /\ mem'[User]["state"] = <<c>>
      /\ \A f \in Files \ {"com", "state"} : mem'[User][f] = <<>>
  BY <1>1, <1>5 DEF OnlyBy, TypeOK, ProcInv, Files, NoFiles
<1>7. TypeOK'
  <2>1. <<c>> \in Seq(Word)
    BY <1>4 DEF Word, BaseWord
  <2>2. mem' \in [Procs -> [Files -> Seq(Word)]]
    BY <1>1, <1>5, <2>1 DEF TypeOK, Files
  <2>3. committed' \in Seq(Messages)
    BY <1>1, <1>2, Grown
  <2>4. /\ DOMAIN cmd' = Procs /\ DOMAIN step' = Procs /\ DOMAIN offset' = Procs
        /\ cmd' = [q \in Procs |-> cmd'[q]] /\ step' = [q \in Procs |-> step'[q]]
        /\ offset' = [q \in Procs |-> offset'[q]]
    BY <1>1, <1>5 DEF TypeOK
  <2> QED BY <1>1, <1>4, <1>5, <2>2, <2>3, <2>4 DEF TypeOK, Procs, Signers
<1>8. \A f \in Files : FileOk(f, mem[User][f])'
  <2>1. \A f \in Files : FileOk(f, <<>>)'
    BY DEF FileOk
  <2>2. c \in 1..Len(committed')
    BY <1>4
  <2>3. FileOk("com", <<c>>)' /\ FileOk("state", <<c>>)'
    BY <2>2 DEF FileOk, WordOk
  <2> QED BY <1>6, <2>1, <2>3
<1>9. ProcInv(User)'
  BY <1>6, <1>8 DEF ProcInv, Commands, Known
<1>10. \A f \in Files : FileOk(f, dir[f])'
  BY <1>1, <1>2, <1>5, DirStays
<1>11. Out(dir["sig"])'
  BY <1>5 DEF SignedInv, Out
<1>12. Out(mem[User]["sig"])'
  BY <1>6 DEF Out, Files
<1> QED BY <1>1, <1>2, <1>5, <1>6, <1>7, <1>9, <1>10, <1>11, <1>12, Frame DEF WorldInv

-----------------------------------------------------------------------------
(* Starting, reading and failing                                           *)

\* A command that starts has read nothing.
LEMMA StartKeeps ==
    ASSUME SignedInv, NEW p \in Procs, NEW c \in {"sign", "prove", "verify"},
           c \in Commands(p), cmd[p] = "idle", Begin(p, c),
           UNCHANGED <<dir, step, offset, mem, world>>
    PROVE  SignedInv'
<1>1. TypeOK /\ ProcInv(p) /\ WorldInv
  BY DEF SignedInv
<1>2. Grew /\ gens' = gens /\ accepted' = accepted /\ scenario' = scenario
  BY DEF world, Grew
<1>3. OnlyBy(p) /\ cmd'[p] = c /\ step'[p] = 0 /\ offset'[p] = -1 /\ mem'[p] = NoFiles
  BY <1>1 DEF Begin, OnlyBy, TypeOK, ProcInv
<1>4. TypeOK'
  BY <1>1 DEF Begin, TypeOK, world, Procs, Signers
<1>5. ProcInv(p)'
  <2>1. \A f \in Files : FileOk(f, mem[p][f])'
    BY <1>1, <1>3, NothingOpened DEF FileOk
  <2> QED BY <1>3, <2>1 DEF ProcInv, Known, Commands
<1>6. \A f \in Files : FileOk(f, dir[f])'
  BY <1>1, <1>2, DirStays
<1>7. Out(dir["sig"])'
  BY DEF SignedInv, Out, world
<1>8. p = User => Out(mem[User]["sig"])'
  BY <1>3, NothingOpened DEF Out, Files
<1> QED BY <1>1, <1>2, <1>3, <1>4, <1>5, <1>6, <1>7, <1>8, Frame DEF WorldInv

\* What read may find in a file does not change by being read.
LEMMA ReadKeeps ==
    ASSUME SignedInv, NEW p \in Procs, Read(p)
    PROVE  SignedInv'
<1>1. TypeOK /\ ProcInv(p) /\ WorldInv
  BY DEF SignedInv
<1>2. Grew /\ gens' = gens /\ accepted' = accepted /\ scenario' = scenario
  BY DEF Read, world, Grew
<1>3. PICK f : f = ReadsOf[cmd[p]][step[p] + 1]
  OBVIOUS
<1>4. /\ Wellformed(p, f, dir[f]) /\ mem' = [mem EXCEPT ![p][f] = dir[f]]
      /\ step' = [step EXCEPT ![p] = @ + 1] /\ dir' = dir /\ cmd' = cmd
      /\ offset' = offset
  BY <1>3 DEF Read
<1>5. \/ cmd[p] = "sign" /\ step[p] = 0 /\ f = "key"
      \/ cmd[p] = "sign" /\ step[p] = 1 /\ f = "com"
      \/ cmd[p] = "prove" /\ step[p] = 0 /\ f = "state"
      \/ cmd[p] = "prove" /\ step[p] = 1 /\ f = "pub"
      \/ cmd[p] = "prove" /\ step[p] = 2 /\ f = "sig"
      \/ cmd[p] = "verify" /\ step[p] = 0 /\ f = "pub"
      \/ cmd[p] = "verify" /\ step[p] = 1 /\ f = "bsig"
  <2>1. cmd[p] \in {"keygen", "commit", "sign", "prove", "verify"} /\ step[p] \in Nat
    BY <1>1 DEF ProcInv, Commands, Read, Reading
  <2> QED BY <1>3, <2>1, Places DEF Read
<1>6. f \in Files
  BY <1>5 DEF Files
<1>7. /\ OnlyBy(p) /\ step'[p] = step[p] + 1 /\ mem'[p] = [mem[p] EXCEPT ![f] = dir[f]]
      /\ mem'[p][f] = dir[f] /\ \A h \in Files \ {f} : mem'[p][h] = mem[p][h]
  <2>1. mem \in [Procs -> [Files -> Seq(Word)]]
    BY <1>1 DEF TypeOK
  <2>2. /\ mem'[p] = [mem[p] EXCEPT ![f] = dir[f]]
        /\ \A q \in Procs \ {p} : mem'[q] = mem[q]
    BY <1>4, <2>1
  <2>3. mem'[p][f] = dir[f] /\ \A h \in Files \ {f} : mem'[p][h] = mem[p][h]
    BY <1>6, <2>1, <2>2
  <2>4. step'[p] = step[p] + 1 /\ \A q \in Procs \ {p} : step'[q] = step[q]
    BY <1>1, <1>4 DEF TypeOK
  <2> QED BY <1>4, <2>2, <2>3, <2>4 DEF OnlyBy
<1>8. offset[p] = -1
  <2>1. ~ Writing(p)
    BY <1>5, Places
  <2> QED BY <1>1, <2>1 DEF ProcInv
<1>9. TypeOK'
  <2>1. mem' \in [Procs -> [Files -> Seq(Word)]]
    BY <1>1, <1>4, <1>6 DEF TypeOK
  <2>2. DOMAIN step' = Procs /\ step' = [q \in Procs |-> step'[q]]
    BY <1>1, <1>4 DEF TypeOK
  <2>3. UNCHANGED world
    BY DEF Read
  <2> QED BY <1>1, <1>4, <2>1, <2>2, <2>3 DEF TypeOK, world, Procs, Signers
<1>10. \A h \in Files : FileOk(h, dir[h])'
  BY <1>1, <1>2, <1>4, DirStays
<1>11. Out(dir["sig"])'
  BY <1>4 DEF SignedInv, Out, Read, world
<1>12. \A h \in Files : FileOk(h, mem[p][h])'
  <2> SUFFICES ASSUME NEW h \in Files PROVE FileOk(h, mem[p][h])'
    OBVIOUS
  <2>1. CASE h = f
    BY <1>4, <1>7, <1>10, <2>1
  <2>2. CASE h # f
    <3>1. PICK s : s = mem[p][h]
      OBVIOUS
    <3>2. FileOk(h, s)'
      BY <1>1, <1>2, <3>1, FileStays DEF ProcInv
    <3> QED BY <1>7, <2>2, <3>1, <3>2
  <2> QED BY <2>1, <2>2
<1>13. Known(p)'
  <2>1. cmd'[p] = cmd[p]
    BY <1>4
  <2>2. Known(p)
    BY <1>1 DEF ProcInv
  <2>3. step'[p] = step[p] + 1 /\ step'[p] <= 3 /\ (cmd[p] = "sign" => step'[p] <= 2)
    BY <1>5, <1>7
  <2> QED BY <1>4, <1>5, <1>7, <2>1, <2>2, <2>3 DEF Known, Wellformed, Files
<1>14. ProcInv(p)'
  BY <1>1, <1>4, <1>5, <1>7, <1>8, <1>12, <1>13 DEF ProcInv, Commands
<1>15. p = User => Out(mem[User]["sig"])'
  <2> SUFFICES ASSUME p = User PROVE Out(mem[User]["sig"])'
    OBVIOUS
  <2>1. CASE f = "sig"
    BY <1>4, <1>7, <1>11, <2>1
  <2>2. CASE f # "sig"
    <3>1. mem'[User]["sig"] = mem[User]["sig"]
      BY <1>7, <2>2 DEF Files
    <3>2. PICK s : s = mem[User]["sig"]
      OBVIOUS
    <3>3. Out(s)'
      BY <1>2, <3>2, OutStays DEF SignedInv
    <3> QED BY <3>1, <3>2, <3>3
  <2> QED BY <2>1, <2>2
<1> QED BY <1>1, <1>2, <1>7, <1>9, <1>10, <1>11, <1>14, <1>15, Frame DEF WorldInv

\* A command that is refused or killed.
LEMMA FailureKeeps ==
    ASSUME SignedInv, NEW p \in Procs, Refuse(p) \/ Kill(p)
    PROVE  SignedInv'
<1>1. TypeOK /\ WorldInv
  BY DEF SignedInv
<1>2. /\ Exit(p) /\ dir' = dir /\ scenario' = scenario /\ gens' = gens
      /\ committed' = committed /\ released' = released /\ accepted' = accepted
  BY DEF Refuse, Kill, world
<1>3. Grew
  BY <1>2 DEF Grew
<1>4. TypeOK'
  BY <1>1, <1>2, <1>3, ExitFrame DEF TypeOK, Procs, Signers
<1>5. \A f \in Files : FileOk(f, dir[f])'
  BY <1>2, <1>3, DirStays
<1>6. Out(dir["sig"])'
  BY <1>2 DEF SignedInv, Out
<1> QED BY <1>1, <1>2, <1>3, <1>4, <1>5, <1>6, ExitFrame, Frame DEF WorldInv

-----------------------------------------------------------------------------
(* Writing                                                                 *)

\* A file that is open and empty.
LEMMA OpenKeeps ==
    ASSUME SignedInv, NEW p \in Procs, OpenFile(p)
    PROVE  SignedInv'
<1>1. TypeOK /\ ProcInv(p) /\ WorldInv
  BY DEF SignedInv
<1>2. Grew /\ gens' = gens /\ accepted' = accepted /\ scenario' = scenario
  BY DEF OpenFile, world, Grew
<1>3. PICK f : f = Target(p)
  OBVIOUS
<1>4. /\ dir' = [dir EXCEPT ![f] = <<>>] /\ offset' = [offset EXCEPT ![p] = 0]
      /\ cmd' = cmd /\ step' = step /\ mem' = mem /\ Writing(p)
  BY <1>3 DEF OpenFile
<1>5. OnlyBy(p) /\ offset'[p] = 0
  BY <1>1, <1>4 DEF OnlyBy, TypeOK
<1>6. TypeOK'
  <2>1. dir' \in [Files -> Seq(Word)]
    <3>1. <<>> \in Seq(Word)
      OBVIOUS
    <3> QED BY <1>1, <1>4, <3>1 DEF TypeOK
  <2>2. DOMAIN offset' = Procs /\ offset' = [q \in Procs |-> offset'[q]]
    BY <1>1, <1>4 DEF TypeOK
  <2>3. UNCHANGED world
    BY DEF OpenFile
  <2> QED BY <1>1, <1>4, <2>1, <2>2, <2>3 DEF TypeOK, world, Procs, Signers
<1>7. ProcInv(p)'
  <2>1. Writing(p)'
    BY <1>4 DEF Writing, Written
  <2>2. \A h \in Files : FileOk(h, mem[p][h])'
    <3> SUFFICES ASSUME NEW h \in Files PROVE FileOk(h, mem[p][h])'
      OBVIOUS
    <3>1. PICK s : s = mem[p][h]
      OBVIOUS
    <3>2. FileOk(h, s)'
      BY <1>1, <1>2, <3>1, FileStays DEF ProcInv
    <3> QED BY <1>4, <3>1, <3>2
  <2>3. Known(p)'
    <3>1. PICK s : s = mem[p]["sig"]
      OBVIOUS
    <3>2. (\A k \in 1..Len(s) : IsSig(s[k])) => (\A k \in 1..Len(s) : IsSig(s[k]))'
      BY <1>1, <1>2, SigStays
    <3>3. (\A k \in 1..Len(mem[p]["sig"]) : IsSig(mem[p]["sig"][k])) =>
              (\A k \in 1..Len(mem[p]["sig"]) : IsSig(mem[p]["sig"][k]))'
      BY <1>4, <3>1, <3>2
    <3> QED BY <1>1, <1>4, <3>3 DEF ProcInv, Known
  <2>4. cmd[p] # "idle"
    BY <1>4 DEF Writing
  <2> QED BY <1>1, <1>4, <1>5, <2>1, <2>2, <2>3, <2>4 DEF ProcInv, Commands
<1>8. \A h \in Files : FileOk(h, dir[h])'
  <2> SUFFICES ASSUME NEW h \in Files PROVE FileOk(h, dir[h])'
    OBVIOUS
  <2>1. CASE h = f
    <3>1. dir'[h] = <<>>
      BY <1>1, <1>4, <2>1 DEF TypeOK
    <3> QED BY <3>1 DEF FileOk
  <2>2. CASE h # f
    <3>1. PICK s : s = dir[h]
      OBVIOUS
    <3>2. FileOk(h, s)'
      BY <1>1, <1>2, <3>1, FileStays DEF SignedInv
    <3>3. dir'[h] = s
      BY <1>1, <1>4, <2>2, <3>1 DEF TypeOK
    <3> QED BY <3>2, <3>3
  <2> QED BY <2>1, <2>2
<1>9. Out(dir["sig"])'
  <2>1. dir'["sig"] = <<>> \/ dir'["sig"] = dir["sig"]
    BY <1>1, <1>4 DEF TypeOK, Files
  <2>2. released' = released
    BY DEF OpenFile, world
  <2> QED BY <2>1, <2>2 DEF SignedInv, Out
<1>10. p = User => Out(mem[User]["sig"])'
  BY <1>4 DEF SignedInv, Out, OpenFile, world
<1> QED BY <1>1, <1>2, <1>5, <1>6, <1>7, <1>8, <1>9, <1>10, Frame DEF WorldInv

\* The file that p writes, and where it stands in its command.
Writes(p, f) ==
    \/ cmd[p] = "keygen" /\ step[p] = 1 /\ f = "key"
    \/ cmd[p] = "keygen" /\ step[p] = 2 /\ f = "pub"
    \/ cmd[p] = "commit" /\ step[p] = 1 /\ f = "com"
    \/ cmd[p] = "commit" /\ step[p] = 2 /\ f = "state"
    \/ cmd[p] = "sign" /\ step[p] = 3 /\ f = "sig"
    \/ cmd[p] = "sign" /\ step[p] = 4 /\ f = "key"
    \/ cmd[p] = "prove" /\ step[p] = 4 /\ f = "bsig"

\* What a write of word k does: the word is out, and the next word, the next
\* file or the end of the command follows.
WritesWord(p, f, k, w) ==
    /\ k = offset[p] + 1 /\ w = mem[p][f][k]
    /\ dir'[f] = WriteAt(dir[f], k, w) /\ \A h \in Files \ {f} : dir'[h] = dir[h]
    /\ dir' = [dir EXCEPT ![f] = WriteAt(@, k, w)]
    /\ f = "sig" => released' = released \cup {w}
    /\ f # "sig" => released' = released
    /\ \/ /\ k < Len(mem[p][f])
          /\ offset' = [offset EXCEPT ![p] = k] /\ cmd' = cmd /\ step' = step /\ mem' = mem
       \/ /\ k = Len(mem[p][f]) /\ step[p] \in {1, 3}
          /\ offset' = [offset EXCEPT ![p] = -1] /\ step' = [step EXCEPT ![p] = @ + 1]
          /\ cmd' = cmd /\ mem' = mem
       \/ k = Len(mem[p][f]) /\ step[p] \in {2, 4} /\ Exit(p)

\* What one write of std::fs::write does.
LEMMA WriteIs ==
    ASSUME SignedInv, NEW p \in Procs, WriteWord(p)
    PROVE  /\ Grew /\ UNCHANGED <<scenario, gens, kills, committed, accepted>>
           /\ \E f \in Files, k \in Nat \ {0}, w \in Word :
                 /\ Writes(p, f) /\ WritesWord(p, f, k, w)
                 /\ k \in 1..Len(mem[p][f]) /\ WordOk(f, k, w) /\ Writing(p)
<1>1. TypeOK /\ ProcInv(p) /\ WorldInv
  BY DEF SignedInv
<1>2. Writing(p) /\ offset[p] >= 0 /\ offset[p] \in Nat
  BY <1>1 DEF WriteWord, ProcInv
<1>3. PICK f : f = Target(p)
  OBVIOUS
<1>4. PICK k : k = offset[p] + 1
  OBVIOUS
<1>5. PICK w : w = mem[p][f][k]
  OBVIOUS
<1>6. cmd[p] \in {"keygen", "commit", "sign", "prove", "verify"} /\ step[p] \in Nat
  BY <1>1, <1>2 DEF ProcInv, Commands, Writing
<1>7. Writes(p, f)
  BY <1>2, <1>3, <1>6, Places DEF Writes
<1>8. f \in Files
  BY <1>7 DEF Writes, Files
<1>9. /\ dir' = [dir EXCEPT ![f] = WriteAt(@, k, w)]
      /\ f = "sig" => released' = released \cup {w}
      /\ f # "sig" => released' = released
      /\ \/ /\ k < Len(mem[p][f])
            /\ offset' = [offset EXCEPT ![p] = k] /\ UNCHANGED <<cmd, step, mem>>
         \/ /\ k = Len(mem[p][f]) /\ Written(p) < Len(WritesOf(cmd[p]))
            /\ offset' = [offset EXCEPT ![p] = -1] /\ step' = [step EXCEPT ![p] = @ + 1]
            /\ UNCHANGED <<cmd, mem>>
         \/ k = Len(mem[p][f]) /\ Written(p) = Len(WritesOf(cmd[p])) /\ Exit(p)
  BY <1>3, <1>4, <1>5 DEF WriteWord
<1>10. /\ Written(p) < Len(WritesOf(cmd[p])) => step[p] \in {1, 3}
       /\ Written(p) = Len(WritesOf(cmd[p])) => step[p] \in {2, 4}
  BY <1>2, <1>6, Places
<1>11. UNCHANGED <<scenario, gens, kills, committed, accepted>>
  BY DEF WriteWord
<1>12. Grew
  BY <1>9, <1>11 DEF Grew
<1>13. dir'[f] = WriteAt(dir[f], k, w) /\ \A h \in Files \ {f} : dir'[h] = dir[h]
  BY <1>1, <1>8, <1>9 DEF TypeOK
<1>14. WritesWord(p, f, k, w)
  BY <1>4, <1>5, <1>9, <1>10, <1>13 DEF WritesWord
<1>15. /\ k \in Nat \ {0} /\ k \in 1..Len(mem[p][f])
       /\ w \in Word /\ WordOk(f, k, w)
  <2>1. mem[p][f] \in Seq(Word) /\ FileOk(f, mem[p][f])
    BY <1>1, <1>8 DEF TypeOK, ProcInv
  <2>2. k \in Nat \ {0} /\ k \in 1..Len(mem[p][f])
    BY <1>2, <1>4, <1>9, <2>1
  <2>3. w \in Word /\ WordOk(f, k, w)
    BY <1>5, <2>1, <2>2 DEF FileOk
  <2> QED BY <2>2, <2>3
<1> QED BY <1>2, <1>7, <1>8, <1>11, <1>12, <1>14, <1>15

\* A word written at the writer's own offset is of its place, whoever wrote
\* the words around it.
LEMMA WriteKeeps ==
    ASSUME SignedInv, NEW p \in Procs, WriteWord(p)
    PROVE  SignedInv'
<1>1. TypeOK /\ ProcInv(p) /\ WorldInv
  BY DEF SignedInv
<1>2. Grew /\ UNCHANGED <<scenario, gens, kills, committed, accepted>>
  BY WriteIs
<1>3. PICK f \in Files, k \in Nat \ {0}, w \in Word :
          /\ Writes(p, f) /\ WritesWord(p, f, k, w)
          /\ k \in 1..Len(mem[p][f]) /\ WordOk(f, k, w) /\ Writing(p)
  BY WriteIs
<1>4. WordOk(f, k, w)'
  BY <1>1, <1>2, <1>3, WordStays
<1>5. PICK old : old = dir[f]
  OBVIOUS
<1>6. PICK new : new = WriteAt(old, k, w)
  OBVIOUS
<1>7. old \in Seq(Word) /\ FileOk(f, old) /\ Hole \in Word
  BY <1>1, <1>5 DEF TypeOK, SignedInv, Word, BaseWord
<1>8. /\ new \in Seq(Word) /\ new[k] = w
      /\ k > Len(old) => Len(new) = k
      /\ k <= Len(old) => Len(new) = Len(old)
      /\ \A i \in 1..Len(old) : i # k => new[i] = old[i]
      /\ \A i \in 1..Len(new) : i # k /\ i > Len(old) => new[i] = Hole
  <2>1. Hole \in Word /\ old \in Seq(Word) /\ k \in Nat \ {0} /\ w \in Word
    BY <1>3, <1>4, <1>7
  <2>2. WriteAt(old, k, w) \in Seq(Word) /\ Wrote(WriteAt(old, k, w), old, k, w)
    BY <2>1, WriteAtSeq, Zenon
  <2>3. new \in Seq(Word) /\ Wrote(new, old, k, w)
    BY <1>6, <2>2
  <2> QED BY <2>3 DEF Wrote
<1>9. dir'[f] = new /\ \A h \in Files \ {f} : dir'[h] = dir[h]
  BY <1>3, <1>5, <1>6 DEF WritesWord
<1>10. FileOk(f, new)'
  <2>1. f \in {"com", "state", "bsig"} => k = 1
    <3>1. FileOk(f, mem[p][f])
      BY <1>1, <1>1 DEF ProcInv
    <3>2. Len(mem[p][f]) \in Nat
      BY <1>1, <1>1 DEF TypeOK
    <3> QED BY <1>3, <1>4, <3>1, <3>2 DEF FileOk
  <2>2. f \in {"com", "state", "bsig"} => Len(new) <= 1
    <3>1. f \in {"com", "state", "bsig"} => Len(old) <= 1
      BY <1>7 DEF FileOk
    <3>2. Len(old) \in Nat
      BY <1>7
    <3> QED BY <1>8, <2>1, <3>1, <3>2
  <2>3. FileOk(f, old)'
    BY <1>1, <1>2, <1>7, FileStays
  <2>4. ASSUME NEW i \in 1..Len(new)
        PROVE  WordOk(f, i, new[i])'
    <3>1. CASE i = k
      BY <1>3, <1>4, <1>8, <2>4, <3>1
    <3>2. CASE i # k /\ i <= Len(old)
      <4>1. i \in 1..Len(old) /\ new[i] = old[i]
        BY <1>7, <1>8, <2>4, <3>2
      <4> QED BY <2>3, <4>1 DEF FileOk
    <3>3. CASE i # k /\ ~ (i <= Len(old))
      <4>1. new[i] = Hole
        BY <1>7, <1>8, <2>4, <3>3
      <4>2. f \notin {"com", "state", "bsig"}
        BY <1>3, <1>4, <1>7, <1>8, <2>1, <2>2, <2>4, <3>3
      <4> QED BY <1>3, <4>1, <4>2 DEF WordOk, Writes
    <3> QED BY <3>1, <3>2, <3>3
  <2> QED BY <2>2, <2>4 DEF FileOk
<1>11. \A h \in Files : FileOk(h, dir[h])'
  <2> SUFFICES ASSUME NEW h \in Files PROVE FileOk(h, dir[h])'
    OBVIOUS
  <2>1. CASE h = f
    BY <1>9, <1>10, <2>1
  <2>2. CASE h # f
    <3>1. PICK s : s = dir[h]
      OBVIOUS
    <3>2. FileOk(h, s)'
      BY <1>1, <1>2, <3>1, FileStays DEF SignedInv
    <3> QED BY <1>9, <2>2, <3>1, <3>2
  <2> QED BY <2>1, <2>2
<1>12. Out(dir["sig"])'
  <2>1. CASE f = "sig"
    <3>1. \A i \in 1..Len(old) : old[i] = Hole \/ old[i] \in released'
      BY <1>2, <1>5, <2>1 DEF SignedInv, Out, Grew
    <3>2. w \in released'
      BY <1>3, <2>1 DEF WritesWord
    <3>3. \A i \in 1..Len(new) : new[i] = Hole \/ new[i] \in released'
      BY <1>7, <1>8, <3>1, <3>2
    <3> QED BY <1>9, <2>1, <3>3 DEF Out
  <2>2. CASE f # "sig"
    <3>1. dir'["sig"] = dir["sig"] /\ released' = released
      BY <1>3, <1>9, <2>2 DEF Files, WritesWord
    <3> QED BY <3>1 DEF SignedInv, Out
  <2> QED BY <2>1, <2>2
<1>13. released' \subseteq Signature
  <2>1. f = "sig" => w \in Signature
    <3>1. f = "sig" => IsSig(w)
      BY <1>1, <1>3 DEF ProcInv, Known, Writes, WritesWord
    <3> QED BY <3>1 DEF IsSig
  <2> QED BY <1>1, <1>3, <2>1 DEF TypeOK, WritesWord
<1>14. dir' \in [Files -> Seq(Word)]
  <2>1. dir' = [dir EXCEPT ![f] = new]
    BY <1>3, <1>5, <1>6 DEF WritesWord
  <2> QED BY <1>1, <1>8, <2>1 DEF TypeOK
<1>15. CASE Exit(p)
  <2>1. TypeOK'
    BY <1>1, <1>2, <1>13, <1>14, <1>15, ExitFrame DEF TypeOK, Procs, Signers
  <2> QED BY <1>1, <1>2, <1>11, <1>12, <1>15, <2>1, ExitFrame, Frame DEF WorldInv
<1>16. ASSUME NEW o \in {k, -1}, offset' = [offset EXCEPT ![p] = o],
              UNCHANGED <<cmd, mem>>, OnlyBy(p), step'[p] \in Nat,
              DOMAIN step' = Procs /\ step' = [q \in Procs |-> step'[q]],
              step'[p] = step[p] \/ (step'[p] = step[p] + 1 /\ step[p] \in {1, 3}),
              o = k => step'[p] = step[p]
       PROVE  SignedInv'
  <2>1. TypeOK'
    <3>1. DOMAIN offset' = Procs /\ offset' = [q \in Procs |-> offset'[q]]
      BY <1>1, <1>16 DEF TypeOK
    <3> QED BY <1>1, <1>2, <1>13, <1>14, <1>16, <3>1 DEF TypeOK, Procs, Signers
  <2>2. \A h \in Files : FileOk(h, mem[p][h])'
    <3> SUFFICES ASSUME NEW h \in Files PROVE FileOk(h, mem[p][h])'
      OBVIOUS
    <3>1. PICK s : s = mem[p][h]
      OBVIOUS
    <3>2. FileOk(h, s)'
      BY <1>1, <1>2, <3>1, FileStays DEF ProcInv
    <3> QED BY <1>16, <3>1, <3>2
  <2>3. Known(p)'
    <3>1. PICK s : s = mem[p]["sig"]
      OBVIOUS
    <3>2. (\A i \in 1..Len(s) : IsSig(s[i])) => (\A i \in 1..Len(s) : IsSig(s[i]))'
      BY <1>1, <1>2, SigStays
    <3>3. (\A i \in 1..Len(mem[p]["sig"]) : IsSig(mem[p]["sig"][i])) =>
              (\A i \in 1..Len(mem[p]["sig"]) : IsSig(mem[p]["sig"][i]))'
      BY <1>16, <3>1, <3>2
    <3>4. cmd'[p] = cmd[p] /\ mem'[p] = mem[p]
      BY <1>16
    <3>5. /\ cmd[p] = "sign" => step[p] >= 3 /\ step'[p] >= 3
          /\ cmd[p] = "prove" => step[p] = 4 /\ step'[p] = 4
          /\ cmd[p] # "verify"
      BY <1>3, <1>16 DEF Writes
    <3> QED BY <1>1, <3>3, <3>4, <3>5 DEF ProcInv, Known
  <2>4. offset'[p] = o /\ o \in Int /\ o >= -1
    BY <1>1, <1>3, <1>4, <1>16 DEF TypeOK
  <2>5. o >= 0 => Writing(p)'
    <3>1. o >= 0 => o = k /\ step'[p] = step[p] /\ cmd'[p] = cmd[p]
      BY <1>16
    <3> QED BY <1>3, <3>1 DEF Writing, Written
  <2>6. cmd[p] # "idle" /\ cmd'[p] = cmd[p]
    BY <1>3, <1>16 DEF Writes
  <2>7. ProcInv(p)'
    BY <1>1, <1>16, <2>2, <2>3, <2>4, <2>5, <2>6 DEF ProcInv, Commands
  <2>8. p = User => Out(mem[User]["sig"])'
    <3>1. PICK s : s = mem[User]["sig"]
      OBVIOUS
    <3>2. Out(s)'
      BY <1>2, <3>1, OutStays DEF SignedInv
    <3> QED BY <1>16, <3>1, <3>2
  <2> QED BY <1>1, <1>2, <1>11, <1>12, <1>16, <2>1, <2>7, <2>8, Frame DEF WorldInv
<1>17. CASE offset' = [offset EXCEPT ![p] = k] /\ cmd' = cmd /\ step' = step /\ mem' = mem
  <2>1. OnlyBy(p) /\ step'[p] = step[p] /\ step[p] \in Nat
    BY <1>1, <1>17 DEF OnlyBy, TypeOK, ProcInv
  <2>2. DOMAIN step' = Procs /\ step' = [q \in Procs |-> step'[q]]
    BY <1>1, <1>17 DEF TypeOK
  <2>3. UNCHANGED <<cmd, mem>> /\ k \in {k, -1} /\ step'[p] \in Nat
    BY <1>17, <2>1
  <2>4. offset' = [offset EXCEPT ![p] = k]
    BY <1>17
  <2> QED BY <1>16, <2>1, <2>2, <2>3, <2>4
<1>18. CASE /\ offset' = [offset EXCEPT ![p] = -1] /\ step' = [step EXCEPT ![p] = @ + 1]
            /\ step[p] \in {1, 3} /\ cmd' = cmd /\ mem' = mem
  <2>1. OnlyBy(p) /\ step'[p] = step[p] + 1
    BY <1>1, <1>18 DEF OnlyBy, TypeOK
  <2>2. DOMAIN step' = Procs /\ step' = [q \in Procs |-> step'[q]]
    BY <1>1, <1>18 DEF TypeOK
  <2>3. -1 # k /\ step'[p] \in Nat
    BY <1>3, <1>18, <2>1
  <2> QED BY <1>16, <1>18, <2>1, <2>2, <2>3
<1> QED BY <1>3, <1>15, <1>17, <1>18 DEF WritesWord

-----------------------------------------------------------------------------
(* sign, prove and verify                                                  *)

\* A counter that is read is a number: a hole counts as 0.
LEMMA CounterIs ==
    ASSUME NEW f \in Seq(Word), FileOk("key", f), NEW i \in 1..(Len(f) - 1)
    PROVE  Counter(f, i) \in Nat
<1>1. i + 1 \in 1..Len(f) /\ i + 1 > 1
  OBVIOUS
<1>2. f[i + 1] = Hole \/ f[i + 1] \in Nat
  BY <1>1 DEF FileOk, WordOk
<1> QED BY <1>2 DEF Counter

\* What sign knows of a key that it has read.
LEMMA KeyIs ==
    ASSUME TypeOK, NEW f \in Seq(Word), FileOk("key", f), KeyOk(f)
    PROVE  \E g \in 1..Len(gens) :
              /\ f[1] = [gen |-> g, n |-> gens[g]]
              /\ Len(f) = gens[g] + 1 /\ gens[g] \in 1..MaxSigners /\ gens[g] >= 1
              /\ \A i \in 1..gens[g] : Counter(f, i) \in Nat
<1>1. IsHead(f[1])
  <2>1. 1 \in 1..Len(f)
    BY DEF KeyOk
  <2> QED BY <2>1 DEF FileOk, WordOk, KeyOk
<1>2. PICK g \in 1..Len(gens) : f[1] = [gen |-> g, n |-> gens[g]]
  BY <1>1 DEF IsHead
<1>3. gens[g] \in 1..MaxSigners
  <2>1. gens \in Seq(1..MaxSigners)
    BY DEF TypeOK
  <2> QED BY <2>1, ElementOfSeq
<1>4. gens[g] \in Nat /\ gens[g] >= 1 /\ Len(f) = gens[g] + 1
  BY <1>2, <1>3, ConstantsAssumption DEF KeyOk
<1>5. \A i \in 1..gens[g] : Counter(f, i) \in Nat
  BY <1>4, CounterIs
<1> QED BY <1>2, <1>3, <1>4, <1>5

\* The words that sign stores: the head, then every counter plus 1.
LEMMA AdvancedIs ==
    ASSUME NEW f \in Seq(Word), NEW n \in Nat, n >= 1, Len(f) = n + 1,
           \A i \in 1..n : Counter(f, i) \in Nat
    PROVE  /\ Advanced(f) \in Seq(Word) /\ Len(Advanced(f)) = n + 1
           /\ Advanced(f)[1] = f[1]
           /\ \A i \in 1..n : Advanced(f)[i + 1] = Counter(f, i) + 1
<1>1. Advanced(f) = [k \in 1..(n + 1) |-> IF k = 1 THEN f[1] ELSE Counter(f, k - 1) + 1]
  BY DEF Advanced
<1>2. f[1] \in Word
  OBVIOUS
<1>3. \A k \in 2..(n + 1) : Counter(f, k - 1) + 1 \in Word
  <2> SUFFICES ASSUME NEW k \in 2..(n + 1) PROVE Counter(f, k - 1) + 1 \in Word
    OBVIOUS
  <2>1. k - 1 \in 1..n
    OBVIOUS
  <2>2. Counter(f, k - 1) \in Nat
    BY <2>1
  <2>3. Counter(f, k - 1) + 1 \in Nat
    BY <2>2
  <2> QED BY <2>3 DEF Word, BaseWord
<1>4. \A k \in 1..(n + 1) : (IF k = 1 THEN f[1] ELSE Counter(f, k - 1) + 1) \in Word
  BY <1>2, <1>3
<1>5. /\ Advanced(f) \in Seq(Word) /\ Len(Advanced(f)) = n + 1
      /\ Advanced(f)[1] = f[1]
      /\ \A k \in 2..(n + 1) : Advanced(f)[k] = Counter(f, k - 1) + 1
  BY <1>1, <1>4
<1>6. \A i \in 1..n : i + 1 \in 2..(n + 1) /\ i + 1 - 1 = i
  OBVIOUS
<1> QED BY <1>5, <1>6

\* The signatures of one call of sign.
Signatures(g, n, l, c) == [i \in 1..n |-> [gen |-> g, idx |-> i, leaf |-> l, com |-> c]]

\* What sign writes to memory.
LEMMA SignIs ==
    ASSUME SignedInv, NEW p \in Procs, Sign(p)
    PROVE  \E g \in 1..Len(gens), l \in 0..(Capacity - 1), c \in 1..Len(committed) :
              /\ mem[p]["key"] \in Seq(Word) /\ FileOk("key", mem[p]["key"])
              /\ mem[p]["key"][1] = [gen |-> g, n |-> gens[g]]
              /\ Len(mem[p]["key"]) = gens[g] + 1 /\ gens[g] \in 1..MaxSigners
              /\ gens[g] >= 1 /\ gens[g] \in Nat
              /\ \A i \in 1..gens[g] : Counter(mem[p]["key"], i) = l
              /\ mem[p]["com"][1] = c
              /\ mem' = [mem EXCEPT ![p].sig = Signatures(g, gens[g], l, c),
                                    ![p].key = Advanced(mem[p]["key"])]
<1>1. TypeOK /\ ProcInv(p) /\ WorldInv
  BY DEF SignedInv
<1>2. cmd[p] = "sign" /\ step[p] = 2
  BY Tables DEF Sign, ReadAll
<1>3. PICK key : key = mem[p]["key"]
  OBVIOUS
<1>4. KeyOk(key) /\ FileOk("key", key) /\ key \in Seq(Word)
  BY <1>1, <1>2, <1>3 DEF ProcInv, Known, Files, TypeOK
<1>5. PICK g \in 1..Len(gens) :
          /\ key[1] = [gen |-> g, n |-> gens[g]]
          /\ Len(key) = gens[g] + 1 /\ gens[g] \in 1..MaxSigners /\ gens[g] >= 1
          /\ \A i \in 1..gens[g] : Counter(key, i) \in Nat
  BY <1>1, <1>4, KeyIs
<1>6. PICK n : n = gens[g]
  OBVIOUS
<1>7. key[1].gen = g /\ key[1].n = n /\ n \in Nat /\ n >= 1
  BY <1>5, <1>6, ConstantsAssumption
<1>8. PICK l : l = Counter(key, 1)
  OBVIOUS
<1>9. l \in 0..(Capacity - 1) /\ \A i \in 1..n : Counter(key, i) = l
  <2>1. SignOk(key)
    BY <1>3 DEF Sign
  <2>2. l \in Nat /\ l < Capacity
    BY <1>5, <1>6, <1>7, <1>8, <2>1 DEF SignOk
  <2> QED BY <1>7, <1>8, <2>1, <2>2, ConstantsAssumption DEF SignOk, Lockstep
<1>10. PICK c : c = mem[p]["com"][1]
  OBVIOUS
<1>11. c \in 1..Len(committed)
  <2>1. FileOk("com", mem[p]["com"]) /\ Len(mem[p]["com"]) = 1
    BY <1>1, <1>2 DEF ProcInv, Known, Files
  <2>2. WordOk("com", 1, mem[p]["com"][1])
    BY <2>1 DEF FileOk
  <2> QED BY <1>10, <2>2 DEF WordOk
<1>12. mem' = [mem EXCEPT
           ![p].sig = [i \in 1..key[1].n |->
               [gen |-> key[1].gen, idx |-> i, leaf |-> Counter(key, i), com |-> c]],
           ![p].key = Advanced(key)]
  BY <1>3, <1>10 DEF Sign
<1>13. [i \in 1..key[1].n |->
           [gen |-> key[1].gen, idx |-> i, leaf |-> Counter(key, i), com |-> c]]
       = Signatures(g, n, l, c)
  BY <1>7, <1>9 DEF Signatures
<1>14. mem' = [mem EXCEPT ![p].sig = Signatures(g, n, l, c), ![p].key = Advanced(key)]
  BY <1>12, <1>13, Zenon
<1> QED BY <1>3, <1>4, <1>5, <1>6, <1>7, <1>9, <1>10, <1>11, <1>14

\* cmd_sign makes one signature for every co-signer at one leaf.
LEMMA SignKeeps ==
    ASSUME SignedInv, NEW p \in Signers, Sign(p)
    PROVE  SignedInv'
<1>1. TypeOK /\ ProcInv(p) /\ WorldInv /\ p \in Procs
  BY DEF SignedInv, Procs
<1>2. Grew /\ gens' = gens /\ accepted' = accepted /\ scenario' = scenario
  BY DEF Sign, world, Grew
<1>3. cmd[p] = "sign" /\ step[p] = 2
  BY Tables DEF Sign, ReadAll
<1>4. PICK g \in 1..Len(gens), l \in 0..(Capacity - 1), c \in 1..Len(committed) :
          /\ mem[p]["key"] \in Seq(Word) /\ FileOk("key", mem[p]["key"])
          /\ mem[p]["key"][1] = [gen |-> g, n |-> gens[g]]
          /\ Len(mem[p]["key"]) = gens[g] + 1 /\ gens[g] \in 1..MaxSigners
          /\ gens[g] >= 1 /\ gens[g] \in Nat
          /\ \A i \in 1..gens[g] : Counter(mem[p]["key"], i) = l
          /\ mem[p]["com"][1] = c
          /\ mem' = [mem EXCEPT ![p].sig = Signatures(g, gens[g], l, c),
                                ![p].key = Advanced(mem[p]["key"])]
  BY <1>1, SignIs
<1>5. PICK n, key, sig, adv : /\ n = gens[g] /\ key = mem[p]["key"]
                              /\ sig = Signatures(g, n, l, c) /\ adv = Advanced(key)
  OBVIOUS
<1>6. g \in Nat /\ g >= 1 /\ n \in 1..MaxSigners /\ n \in Nat /\ n >= 1
  BY <1>1, <1>4, <1>5 DEF TypeOK
<1>7. /\ step' = [step EXCEPT ![p] = @ + 1] /\ cmd' = cmd /\ offset' = offset
      /\ dir' = dir /\ committed' = committed /\ released' = released
      /\ mem' = [mem EXCEPT ![p].sig = sig, ![p].key = adv]
  BY <1>4, <1>5 DEF Sign, world
<1>8. /\ OnlyBy(p) /\ step'[p] = 3 /\ mem'[p]["sig"] = sig /\ mem'[p]["key"] = adv
      /\ \A f \in Files \ {"sig", "key"} : mem'[p][f] = mem[p][f]
  <2>1. mem \in [Procs -> [Files -> Seq(Word)]]
    BY <1>1 DEF TypeOK
  <2>2. /\ mem'[p] = [mem[p] EXCEPT !["sig"] = sig, !["key"] = adv]
        /\ \A q \in Procs \ {p} : mem'[q] = mem[q]
    BY <1>1, <1>7, <2>1
  <2>3. mem[p] \in [Files -> Seq(Word)]
    BY <1>1, <2>1
  <2>4. /\ mem'[p]["sig"] = sig /\ mem'[p]["key"] = adv
        /\ \A f \in Files \ {"sig", "key"} : mem'[p][f] = mem[p][f]
    BY <2>2, <2>3 DEF Files
  <2>5. step'[p] = 3 /\ \A q \in Procs \ {p} : step'[q] = step[q]
    BY <1>1, <1>3, <1>7 DEF TypeOK
  <2> QED BY <1>7, <2>2, <2>4, <2>5 DEF OnlyBy
<1>9. /\ adv \in Seq(Word) /\ Len(adv) = n + 1 /\ adv[1] = key[1]
      /\ \A i \in 1..n : adv[i + 1] = l + 1
  <2>1. l \in Nat /\ \A i \in 1..n : Counter(key, i) = l
    BY <1>4, <1>5, ConstantsAssumption
  <2>3. \A i \in 1..n : Counter(key, i) \in Nat
    BY <2>1
  <2>2. key \in Seq(Word) /\ Len(key) = n + 1
    BY <1>4, <1>5
  <2>4. /\ Advanced(key) \in Seq(Word) /\ Len(Advanced(key)) = n + 1
        /\ Advanced(key)[1] = key[1]
        /\ \A i \in 1..n : Advanced(key)[i + 1] = Counter(key, i) + 1
    BY <1>6, <2>2, <2>3, AdvancedIs
  <2> QED BY <1>5, <2>1, <2>4
<1>10. /\ sig \in Seq(Word) /\ Len(sig) = n
       /\ \A i \in 1..n : IsSig(sig[i])
  <2>1. \A i \in 1..n : [gen |-> g, idx |-> i, leaf |-> l, com |-> c] \in Signature
    <3>1. Len(gens) \in Nat /\ Len(gens) <= MaxGens /\ MaxGens \in Nat
      BY <1>1, ConstantsAssumption DEF TypeOK, WorldInv
    <3>2. Len(committed) \in Nat /\ Len(committed) <= MaxCommits /\ MaxCommits \in Nat
      BY <1>1, ConstantsAssumption DEF TypeOK
    <3>3. g \in Gen /\ c \in 1..MaxCommits
      BY <3>1, <3>2 DEF Gen
    <3>4. \A i \in 1..n : i \in Index
      BY <1>6, ConstantsAssumption DEF Index
    <3> QED BY <3>3, <3>4 DEF Signature
  <2>2. sig = [i \in 1..n |-> [gen |-> g, idx |-> i, leaf |-> l, com |-> c]]
    BY <1>5 DEF Signatures
  <2>3. \A i \in 1..n : sig[i] \in Signature /\ sig[i].gen = g /\ sig[i].com = c
    BY <2>1, <2>2
  <2>4. sig \in Seq(Word) /\ Len(sig) = n
    <3>1. \A i \in 1..n : [gen |-> g, idx |-> i, leaf |-> l, com |-> c] \in Word
      BY <2>1 DEF Word, BaseWord
    <3> QED BY <1>6, <2>2, <3>1
  <2>5. \A i \in 1..n : IsSig(sig[i])
    BY <2>3 DEF IsSig
  <2> QED BY <2>4, <2>5
<1>11. TypeOK'
  <2>1. mem' \in [Procs -> [Files -> Seq(Word)]]
    BY <1>1, <1>7, <1>9, <1>10 DEF TypeOK, Files
  <2>2. DOMAIN step' = Procs /\ step' = [q \in Procs |-> step'[q]]
    BY <1>1, <1>7 DEF TypeOK
  <2> QED BY <1>1, <1>2, <1>7, <2>1, <2>2 DEF TypeOK, Procs, Signers
<1>12. FileOk("sig", sig)' /\ \A i \in 1..n : IsSig(sig[i])'
  <2>1. \A i \in 1..n : IsSig(sig[i])'
    BY <1>1, <1>2, <1>10, SigStays
  <2> QED BY <1>10, <2>1 DEF FileOk, WordOk
<1>13. FileOk("key", adv)'
  <2>1. IsHead(adv[1])'
    BY <1>2, <1>4, <1>5, <1>9 DEF IsHead
  <2>2. \A k \in 1..(n + 1) : k > 1 => adv[k] \in Nat
    <3> SUFFICES ASSUME NEW k \in 1..(n + 1), k > 1 PROVE adv[k] \in Nat
      OBVIOUS
    <3>1. k - 1 \in 1..n /\ k - 1 + 1 = k
      BY <1>6
    <3>2. adv[k] = l + 1
      BY <1>9, <3>1
    <3> QED BY <3>2, ConstantsAssumption
  <2>3. \A k \in 1..(n + 1) : k = 1 \/ k > 1
    BY <1>6
  <2> QED BY <1>6, <1>9, <2>1, <2>2, <2>3 DEF FileOk, WordOk
<1>14. \A f \in Files : FileOk(f, mem[p][f])'
  <2> SUFFICES ASSUME NEW f \in Files PROVE FileOk(f, mem[p][f])'
    OBVIOUS
  <2>1. CASE f \in {"sig", "key"}
    BY <1>8, <1>12, <1>13, <2>1
  <2>2. CASE f \notin {"sig", "key"}
    <3>1. PICK s : s = mem[p][f]
      OBVIOUS
    <3>2. FileOk(f, s)'
      BY <1>1, <1>2, <3>1, FileStays DEF ProcInv
    <3> QED BY <1>8, <2>2, <3>1, <3>2
  <2> QED BY <2>1, <2>2
<1>15. Known(p)'
  <2>1. KeyOk(adv)
    <3>1. adv[1] # Hole /\ adv[1].n = n
      <4>1. KeyOk(key)
        BY <1>1, <1>3, <1>5 DEF ProcInv, Known
      <4> QED BY <1>4, <1>5, <1>9, <4>1 DEF KeyOk
    <3> QED BY <1>6, <1>9, <3>1 DEF KeyOk
  <2>2. (\A i \in 1..Len(mem[p]["sig"]) : IsSig(mem[p]["sig"][i]))'
    BY <1>8, <1>10, <1>12
  <2>3. cmd'[p] = "sign" /\ step'[p] = 3 /\ KeyOk(mem[p]["key"])'
    BY <1>3, <1>7, <1>8, <2>1
  <2> QED BY <2>2, <2>3 DEF Known
<1>16. ProcInv(p)'
  <2>1. offset[p] = -1
    <3>1. ~ Writing(p)
      BY <1>3, Places
    <3> QED BY <1>1, <3>1 DEF ProcInv
  <2>2. offset'[p] = -1 /\ cmd'[p] = "sign" /\ step'[p] = 3
    BY <1>3, <1>7, <1>8, <2>1
  <2>3. cmd'[p] \in Commands(p)'
    BY <1>1, <1>3, <2>2 DEF ProcInv, Commands
  <2> QED BY <1>14, <1>15, <2>2, <2>3 DEF ProcInv
<1>17. \A f \in Files : FileOk(f, dir[f])'
  BY <1>1, <1>2, <1>7, DirStays
<1>18. Out(dir["sig"])'
  BY <1>7 DEF SignedInv, Out
<1>19. p # User
  BY <1>1, ConstantsAssumption DEF WorldInv, Signers
<1> QED BY <1>1, <1>2, <1>8, <1>11, <1>16, <1>17, <1>18, <1>19, Frame DEF WorldInv

\* The roots of a public key are its words without the last one.
LEMMA RootsAre ==
    ASSUME NEW f \in Seq(Word), PubOk(f)
    PROVE  /\ Roots(f) = [i \in 1..(Len(f) - 1) |-> f[i]]
           /\ Len(Roots(f)) = Len(f) - 1
           /\ \A i \in 1..(Len(f) - 1) : Roots(f)[i] = f[i]
           /\ Seed(f) = f[Len(f)]
<1>1. PICK n : n = Len(f) /\ n \in Nat /\ n >= 2
  BY DEF PubOk
<1>2. Roots(f) = SubSeq(f, 1, n - 1) \o SubSeq(f, n + 1, n)
  BY <1>1 DEF Roots, SeedAt, RemoveAt
<1>3. SubSeq(f, n + 1, n) = <<>>
  BY <1>1
<1>4. SubSeq(f, 1, n - 1) = [i \in 1..(n - 1) |-> f[i]] /\ SubSeq(f, 1, n - 1) \in Seq(Word)
  <2>1. SubSeq(f, 1, n - 1) = [i \in 1..(n - 1) |-> f[i]]
    BY <1>1
  <2>2. \A i \in 1..(n - 1) : f[i] \in Word
    BY <1>1
  <2>3. [i \in 1..(n - 1) |-> f[i]] \in Seq(Word)
    BY <1>1, <2>2
  <2> QED BY <2>1, <2>3
<1>5. Roots(f) = SubSeq(f, 1, n - 1)
  <2>1. PICK s : s = SubSeq(f, 1, n - 1)
    OBVIOUS
  <2>2. s \o <<>> = s
    BY <1>4, <2>1, ConcatEmptySeq
  <2> QED BY <1>2, <1>3, <2>1, <2>2, Zenon
<1> QED BY <1>1, <1>4, <1>5 DEF Seed, SeedAt

\* A public key of one word per root whose words are all of one keygen.
LEMMA PubIs ==
    ASSUME SignedInv, NEW pub \in Seq(Word), PubOk(pub), FileOk("pub", pub),
           NEW sig \in Seq(Word), FileOk("sig", sig), NEW c,
           SigOk(sig, Seed(pub), c), ProveOk(pub, sig)
    PROVE  \E g \in 1..Len(gens) :
              /\ Seed(pub) = Root(g, 0)
              /\ Roots(pub) = [i \in 1..gens[g] |-> Root(g, i)]
              /\ Len(sig) = gens[g] /\ gens[g] \in Nat /\ gens[g] >= 1
              /\ \A i \in 1..gens[g] :
                    /\ sig[i] # Hole /\ IsSig(sig[i]) /\ sig[i].com = c
                    /\ sig[i].gen = g /\ sig[i].idx = i /\ sig[i].leaf = sig[1].leaf
<1>1. PICK n : n = Len(sig) /\ n \in Nat /\ n >= 1
  BY DEF SigOk
<1>2. /\ Len(pub) = n + 1 /\ Seed(pub) = pub[n + 1]
      /\ Roots(pub) = [i \in 1..n |-> pub[i]]
      /\ \A i \in 1..n : Roots(pub)[i] = pub[i]
  <2>1. Len(pub) \in Nat /\ Len(pub) >= 2
    BY DEF PubOk
  <2>2. Len(sig) = Len(pub) - 1
    BY RootsAre DEF ProveOk
  <2> QED BY <1>1, <2>1, <2>2, RootsAre
<1>3. \A i \in 1..n : /\ sig[i] # Hole /\ IsSig(sig[i]) /\ sig[i].com = c
                      /\ Root(sig[i].gen, 0) = pub[n + 1]
                      /\ Root(sig[i].gen, sig[i].idx) = pub[i]
                      /\ sig[i].leaf = sig[1].leaf
  <2> SUFFICES ASSUME NEW i \in 1..n
               PROVE  /\ sig[i] # Hole /\ IsSig(sig[i]) /\ sig[i].com = c
                      /\ Root(sig[i].gen, 0) = pub[n + 1]
                      /\ Root(sig[i].gen, sig[i].idx) = pub[i]
                      /\ sig[i].leaf = sig[1].leaf
    OBVIOUS
  <2>1. sig[i] # Hole /\ Root(sig[i].gen, 0) = Seed(pub) /\ sig[i].com = c
    BY <1>1 DEF SigOk
  <2>2. IsSig(sig[i])
    BY <1>1, <2>1 DEF FileOk, WordOk
  <2>3. Root(sig[i].gen, sig[i].idx) = Roots(pub)[i] /\ sig[i].leaf = sig[1].leaf
    BY <1>1 DEF ProveOk, SharedEpoch
  <2> QED BY <1>2, <2>1, <2>2, <2>3
<1>4. \A i \in 1..n : sig[i].gen \in 1..MaxGens /\ sig[i].idx \in 1..MaxSigners
  BY <1>3 DEF IsSig, Signature, Gen, Index
<1>5. PICK g : g = sig[1].gen
  OBVIOUS
<1>6. g \in 1..MaxGens /\ pub[n + 1] = Root(g, 0)
  BY <1>1, <1>3, <1>4, <1>5
<1>7. \A i \in 1..n : sig[i].gen = g
  BY <1>3, <1>6 DEF Root
<1>8. pub[n + 1] # Hole
  <2>1. Root(g, 0) \in (1..MaxGens) \X (0..MaxSigners)
    BY <1>6, ConstantsAssumption DEF Root
  <2> QED BY <1>6, <2>1, HoleAssumption
<1>9. g \in 1..Len(gens) /\ n = gens[g]
  <2>1. IsRoot(n + 1, pub[n + 1])
    BY <1>1, <1>2, <1>8 DEF FileOk, WordOk
  <2>2. PICK h \in 1..Len(gens) : \/ n + 1 <= gens[h] /\ pub[n + 1] = Root(h, n + 1)
                                  \/ n + 1 = gens[h] + 1 /\ pub[n + 1] = Root(h, 0)
    BY <2>1 DEF IsRoot
  <2>3. h = g /\ n + 1 = gens[h] + 1
    BY <1>1, <1>6, <2>2 DEF Root
  <2>4. gens[h] \in Nat
    <3>1. gens \in Seq(1..MaxSigners)
      BY DEF SignedInv, TypeOK
    <3>2. gens[h] \in 1..MaxSigners
      BY <3>1, ElementOfSeq
    <3> QED BY <3>2
  <2> QED BY <1>1, <2>3, <2>4
<1>10. \A i \in 1..n : pub[i] = Root(g, i) /\ sig[i].idx = i
  <2> SUFFICES ASSUME NEW i \in 1..n PROVE pub[i] = Root(g, i) /\ sig[i].idx = i
    OBVIOUS
  <2>1. pub[i] = Root(g, sig[i].idx) /\ sig[i].idx \in 1..MaxSigners
    BY <1>3, <1>4, <1>7
  <2>2. Root(g, sig[i].idx) \in (1..MaxGens) \X (0..MaxSigners)
    BY <1>6, <2>1, ConstantsAssumption DEF Root
  <2>3. IsRoot(i, pub[i])
    <3>1. i \in 1..Len(pub)
      BY <1>1, <1>2
    <3> QED BY <2>1, <2>2, <3>1, HoleAssumption DEF FileOk, WordOk
  <2>4. PICK h \in 1..Len(gens) : \/ i <= gens[h] /\ pub[i] = Root(h, i)
                                  \/ i = gens[h] + 1 /\ pub[i] = Root(h, 0)
    BY <2>3 DEF IsRoot
  <2>5. sig[i].idx # 0
    BY <2>1
  <2> QED BY <2>1, <2>4, <2>5 DEF Root
<1>11. Roots(pub) = [i \in 1..n |-> Root(g, i)]
  BY <1>2, <1>10
<1>12. /\ Seed(pub) = Root(g, 0) /\ Len(sig) = n
       /\ \A i \in 1..n :
             /\ sig[i] # Hole /\ IsSig(sig[i]) /\ sig[i].com = c
             /\ sig[i].gen = g /\ sig[i].idx = i /\ sig[i].leaf = sig[1].leaf
  BY <1>1, <1>2, <1>3, <1>6, <1>7, <1>10
<1> QED BY <1>1, <1>9, <1>11, <1>12

\* cmd_prove makes a proof only of a message that every co-signer signed.
LEMMA ProveKeeps ==
    ASSUME SignedInv, Prove(User)
    PROVE  SignedInv'
<1>1. TypeOK /\ ProcInv(User) /\ WorldInv /\ User \in Procs
  BY DEF SignedInv, Procs
<1>2. Grew /\ gens' = gens /\ accepted' = accepted /\ scenario' = scenario
  BY DEF Prove, world, Grew
<1>3. cmd[User] = "prove" /\ step[User] = 3
  BY Tables DEF Prove, ReadAll
<1>4. PICK pub, sig, c : /\ pub = mem[User]["pub"] /\ sig = mem[User]["sig"]
                         /\ c = mem[User]["state"][1]
  OBVIOUS
<1>5. /\ pub \in Seq(Word) /\ FileOk("pub", pub) /\ PubOk(pub)
      /\ sig \in Seq(Word) /\ FileOk("sig", sig) /\ SigOk(sig, Seed(pub), c)
      /\ Out(sig) /\ ProveOk(pub, sig)
  <2>1. mem[User] \in [Files -> Seq(Word)]
    BY <1>1 DEF TypeOK
  <2>2. pub \in Seq(Word) /\ sig \in Seq(Word)
    BY <1>4, <2>1 DEF Files
  <2>3. FileOk("pub", pub) /\ FileOk("sig", sig)
    BY <1>1, <1>4 DEF ProcInv, Files
  <2>4. PubOk(pub) /\ SigOk(sig, Seed(pub), c)
    BY <1>1, <1>3, <1>4 DEF ProcInv, Known
  <2>5. Out(sig) /\ ProveOk(pub, sig)
    BY <1>4 DEF SignedInv, Prove
  <2> QED BY <2>2, <2>3, <2>4, <2>5
<1>6. c \in 1..Len(committed) /\ committed[c] \in Messages
  <2>1. FileOk("state", mem[User]["state"]) /\ Len(mem[User]["state"]) = 1
    BY <1>1, <1>3 DEF ProcInv, Known, Files
  <2>2. WordOk("state", 1, c)
    BY <1>4, <2>1 DEF FileOk
  <2>3. c \in 1..Len(committed)
    BY <2>2 DEF WordOk
  <2>4. committed \in Seq(Messages)
    BY <1>1 DEF TypeOK
  <2> QED BY <2>3, <2>4
<1>7. PICK g \in 1..Len(gens) :
          /\ Seed(pub) = Root(g, 0)
          /\ Roots(pub) = [i \in 1..gens[g] |-> Root(g, i)]
          /\ Len(sig) = gens[g] /\ gens[g] \in Nat /\ gens[g] >= 1
          /\ \A i \in 1..gens[g] :
                /\ sig[i] # Hole /\ IsSig(sig[i]) /\ sig[i].com = c
                /\ sig[i].gen = g /\ sig[i].idx = i /\ sig[i].leaf = sig[1].leaf
  BY <1>5, PubIs
<1>8. PICK l : l = sig[1].leaf
  OBVIOUS
<1>9. l \in 0..(Capacity - 1)
  <2>1. 1 \in 1..gens[g]
    BY <1>7
  <2> QED BY <1>7, <1>8, <2>1 DEF IsSig, Signature
<1>10. AllSigned(g, l, c)
  <2> SUFFICES ASSUME NEW i \in 1..gens[g]
               PROVE  [gen |-> g, idx |-> i, leaf |-> l, com |-> c] \in released
    BY DEF AllSigned
  <2>1. sig[i] \in released
    BY <1>5, <1>7 DEF Out
  <2>2. sig[i] \in Signature
    BY <1>7 DEF IsSig
  <2>3. sig[i] = [gen |-> sig[i].gen, idx |-> sig[i].idx, leaf |-> sig[i].leaf,
                  com |-> sig[i].com]
    BY <2>2 DEF Signature
  <2>4. sig[i] = [gen |-> g, idx |-> i, leaf |-> l, com |-> c]
    BY <1>7, <1>8, <2>3
  <2> QED BY <2>1, <2>4
<1>11. PICK msg : msg = committed[c]
  OBVIOUS
<1>12. Backed(pub, msg)
  BY <1>6, <1>7, <1>9, <1>10, <1>11 DEF Backed
<1>13. PICK b : b = [label |-> Label(pub), pub |-> pub, msg |-> msg]
  OBVIOUS
<1>14. pub \in Seq(BaseWord)
  <2>1. \A k \in 1..Len(pub) : pub[k] \in BaseWord
    <3> SUFFICES ASSUME NEW k \in 1..Len(pub) PROVE pub[k] \in BaseWord
      OBVIOUS
    <3>1. pub[k] = Hole \/ IsRoot(k, pub[k])
      BY <1>5 DEF FileOk, WordOk
    <3>2. k \in Nat
      BY <1>5
    <3>3. \A h \in 1..Len(gens) : Root(h, k) \in BaseWord /\ Root(h, 0) \in BaseWord
      BY <1>1, <3>2 DEF TypeOK, Root, BaseWord
    <3> QED BY <3>1, <3>3 DEF IsRoot, BaseWord
  <2>2. pub = [k \in 1..Len(pub) |-> pub[k]] /\ Len(pub) \in Nat
    BY <1>5
  <2> QED BY <2>1, <2>2
<1>15. b \in Proof /\ b.pub = pub /\ b.msg = msg
  BY <1>6, <1>11, <1>13, <1>14 DEF Proof, Label
<1>16. /\ mem' = [mem EXCEPT ![User].bsig = <<b>>] /\ cmd' = cmd /\ offset' = offset
       /\ step' = [step EXCEPT ![User] = @ + 1] /\ dir' = dir /\ committed' = committed
       /\ released' = released
  BY <1>4, <1>11, <1>13 DEF Prove, world
<1>17. /\ OnlyBy(User) /\ step'[User] = 4 /\ mem'[User]["bsig"] = <<b>>
       /\ \A f \in Files \ {"bsig"} : mem'[User][f] = mem[User][f]
  <2>1. mem \in [Procs -> [Files -> Seq(Word)]]
    BY <1>1 DEF TypeOK
  <2>2. /\ mem'[User] = [mem[User] EXCEPT !["bsig"] = <<b>>]
        /\ \A q \in Procs \ {User} : mem'[q] = mem[q]
    BY <1>1, <1>16, <2>1
  <2>3. /\ mem'[User]["bsig"] = <<b>>
        /\ \A f \in Files \ {"bsig"} : mem'[User][f] = mem[User][f]
    BY <1>1, <2>1, <2>2 DEF Files
  <2>4. step'[User] = 4 /\ \A q \in Procs \ {User} : step'[q] = step[q]
    BY <1>1, <1>3, <1>16 DEF TypeOK
  <2> QED BY <1>16, <2>2, <2>3, <2>4 DEF OnlyBy
<1>18. TypeOK'
  <2>1. <<b>> \in Seq(Word)
    BY <1>15 DEF Word
  <2>2. mem' \in [Procs -> [Files -> Seq(Word)]]
    BY <1>1, <1>16, <2>1 DEF TypeOK, Files
  <2>3. DOMAIN step' = Procs /\ step' = [q \in Procs |-> step'[q]]
    BY <1>1, <1>16 DEF TypeOK
  <2> QED BY <1>1, <1>2, <1>16, <2>2, <2>3 DEF TypeOK, Procs, Signers
<1>19. \A f \in Files : FileOk(f, mem[User][f])'
  <2> SUFFICES ASSUME NEW f \in Files PROVE FileOk(f, mem[User][f])'
    OBVIOUS
  <2>1. CASE f = "bsig"
    <3>1. Backed(b.pub, b.msg)'
      <4>1. Backed(pub, msg)'
        BY <1>1, <1>2, <1>12, BackedStays
      <4> QED BY <1>15, <4>1
    <3>2. WordOk("bsig", 1, b)'
      BY <1>15, <3>1 DEF WordOk
    <3>3. Len(<<b>>) = 1 /\ <<b>>[1] = b
      OBVIOUS
    <3>4. FileOk("bsig", <<b>>)'
      BY <3>2, <3>3 DEF FileOk
    <3> QED BY <1>17, <2>1, <3>4
  <2>2. CASE f # "bsig"
    <3>1. PICK s : s = mem[User][f]
      OBVIOUS
    <3>2. FileOk(f, s)'
      BY <1>1, <1>2, <3>1, FileStays DEF ProcInv
    <3> QED BY <1>17, <2>2, <3>1, <3>2
  <2> QED BY <2>1, <2>2
<1>20. ProcInv(User)'
  <2>1. offset[User] = -1
    <3>1. ~ Writing(User)
      BY <1>3, Places
    <3> QED BY <1>1, <3>1 DEF ProcInv
  <2>2. offset'[User] = -1 /\ cmd'[User] = "prove" /\ step'[User] = 4
    BY <1>3, <1>16, <1>17, <2>1
  <2>3. Known(User)'
    <3>1. Known(User) /\ mem'[User]["state"] = mem[User]["state"]
          /\ mem'[User]["pub"] = mem[User]["pub"]
      BY <1>1, <1>17 DEF ProcInv, Files
    <3> QED BY <1>3, <2>2, <3>1 DEF Known
  <2> QED BY <1>19, <2>2, <2>3 DEF ProcInv, Commands
<1>21. \A f \in Files : FileOk(f, dir[f])'
  BY <1>1, <1>2, <1>16, DirStays
<1>22. Out(dir["sig"])'
  BY <1>16 DEF SignedInv, Out
<1>23. Out(mem[User]["sig"])'
  <2>1. mem'[User]["sig"] = sig
    BY <1>4, <1>17 DEF Files
  <2> QED BY <1>5, <1>16, <2>1 DEF Out
<1> QED BY <1>1, <1>2, <1>17, <1>18, <1>20, <1>21, <1>22, <1>23, Frame DEF WorldInv

\* cmd_verify passes only a proof that some prove has made.
LEMMA VerifyKeeps ==
    ASSUME SignedInv, NEW m \in Messages, Verify(User, m)
    PROVE  SignedInv'
<1>1. TypeOK /\ ProcInv(User) /\ WorldInv /\ User \in Procs
  BY DEF SignedInv, Procs
<1>2. /\ Exit(User) /\ dir' = dir /\ scenario' = scenario /\ gens' = gens
      /\ committed' = committed /\ released' = released
  BY DEF Verify
<1>3. Grew
  BY <1>2 DEF Grew
<1>4. cmd[User] = "verify" /\ step[User] = 2
  BY Tables DEF Verify, ReadAll
<1>5. PICK pub, b : pub = mem[User]["pub"] /\ b = mem[User]["bsig"][1]
  OBVIOUS
<1>6. Backed(b.pub, b.msg)
  <2>1. FileOk("bsig", mem[User]["bsig"]) /\ Len(mem[User]["bsig"]) = 1
    BY <1>1, <1>4 DEF ProcInv, Known, Files
  <2>2. WordOk("bsig", 1, b)
    BY <1>5, <2>1 DEF FileOk
  <2> QED BY <2>2 DEF WordOk
<1>7. \A a \in accepted' : a \in accepted \/ Backed(a.pub, a.msg)'
  <2>1. CASE Passes(pub, b, m)
    <3>1. Backed(pub, m)
      BY <1>6, <2>1 DEF Passes
    <3>2. Backed(pub, m)'
      BY <1>1, <1>3, <3>1, BackedStays
    <3>3. accepted' = accepted \cup {[pub |-> pub, msg |-> m]}
      BY <1>5, <2>1 DEF Verify
    <3> QED BY <3>2, <3>3
  <2>2. CASE ~ Passes(pub, b, m)
    BY <1>5, <2>2 DEF Verify
  <2> QED BY <2>1, <2>2
<1>8. TypeOK'
  BY <1>1, <1>2, <1>3, ExitFrame DEF TypeOK, Procs, Signers
<1>9. \A f \in Files : FileOk(f, dir[f])'
  BY <1>2, <1>3, DirStays
<1>10. Out(dir["sig"])'
  BY <1>2 DEF SignedInv, Out
<1> QED BY <1>1, <1>2, <1>3, <1>7, <1>8, <1>9, <1>10, ExitFrame, Frame DEF WorldInv

-----------------------------------------------------------------------------
(* Every step                                                              *)

\* The empty directory satisfies the invariant.
LEMMA SignedInit == Init => SignedInv
<1> SUFFICES ASSUME Init PROVE SignedInv
  OBVIOUS
<1>1. TypeOK
  <2>1. <<>> \in Seq(1..MaxSigners) /\ <<>> \in Seq(Messages) /\ Len(<<>>) = 0
    OBVIOUS
  <2>2. MaxCommits \in Nat
    BY ConstantsAssumption
  <2>3. dir \in [Files -> Seq(Word)] /\ mem \in [Procs -> [Files -> Seq(Word)]]
    BY NothingOpened DEF Init
  <2> QED BY <2>1, <2>2, <2>3 DEF Init, TypeOK
<1>2. WorldInv
  <2>1. scenario.gens \in Nat /\ Len(gens) = 0
    BY ConstantsAssumption DEF Init
  <2> QED BY <2>1 DEF Init, WorldInv
<1>3. \A f \in Files : FileOk(f, dir[f])
  BY NothingOpened DEF Init
<1>4. ASSUME NEW p \in Procs PROVE ProcInv(p)
  <2>1. cmd[p] = "idle" /\ step[p] = 0 /\ offset[p] = -1 /\ mem[p] = NoFiles
    BY DEF Init
  <2>2. \A f \in Files : FileOk(f, mem[p][f])
    BY <2>1, NothingOpened
  <2> QED BY <2>1, <2>2 DEF ProcInv, Commands, Known
<1>5. Out(dir["sig"]) /\ Out(mem[User]["sig"])
  BY NothingOpened DEF Init, Procs, Files
<1> QED BY <1>1, <1>2, <1>3, <1>4, <1>5 DEF SignedInv

\* A stuttering step keeps it.
LEMMA SignedStutter == SignedInv /\ UNCHANGED vars => SignedInv'
<1> SUFFICES ASSUME SignedInv, UNCHANGED vars PROVE SignedInv'
  OBVIOUS
<1>1. /\ scenario' = scenario /\ dir' = dir /\ cmd' = cmd /\ step' = step
      /\ offset' = offset /\ mem' = mem /\ gens' = gens /\ committed' = committed
      /\ released' = released /\ accepted' = accepted
  BY DEF vars
<1>2. Grew
  BY <1>1 DEF Grew
<1>3. Procs' = Procs /\ User \in Procs
  BY <1>1 DEF Procs, Signers
<1>4. TypeOK'
  BY <1>1 DEF SignedInv, TypeOK, Procs, Signers
<1>5. ProcInv(User)' /\ OnlyBy(User)
  BY <1>1, <1>2, <1>3, ProcStays DEF OnlyBy
<1>6. \A f \in Files : FileOk(f, dir[f])'
  BY <1>1, <1>2, DirStays
<1>7. Out(dir["sig"])' /\ Out(mem[User]["sig"])'
  BY <1>1 DEF SignedInv, Out
<1> QED BY <1>1, <1>2, <1>3, <1>4, <1>5, <1>6, <1>7, Frame DEF SignedInv, WorldInv

\* Every step of every command keeps it.
LEMMA SignedNext == SignedInv /\ [Next]_vars => SignedInv'
<1> SUFFICES ASSUME SignedInv, [Next]_vars PROVE SignedInv'
  OBVIOUS
<1>1. User \in Procs /\ \A p \in Signers : p \in Procs /\ p # User
  BY ConstantsAssumption DEF SignedInv, WorldInv, Procs, Signers
<1>2. ASSUME NEW p \in Signers, NEW n \in 1..MaxSigners, Keygen(p, n) PROVE SignedInv'
  BY <1>2, KeygenKeeps
<1>3. ASSUME NEW p \in Signers, SignStart(p) PROVE SignedInv'
  <2>1. "sign" \in Commands(p)
    BY <1>1 DEF Commands
  <2> QED BY <1>1, <1>3, <2>1, StartKeeps DEF SignStart
<1>4. ASSUME NEW p \in Signers, Sign(p) PROVE SignedInv'
  BY <1>4, SignKeeps
<1>5. ASSUME NEW m \in Messages, Commit(User, m) PROVE SignedInv'
  BY <1>5, CommitKeeps
<1>6. ASSUME NEW m \in Messages, Verify(User, m) PROVE SignedInv'
  BY <1>6, VerifyKeeps
<1>7. CASE ProveStart(User)
  <2>1. "prove" \in Commands(User)
    BY DEF Commands
  <2> QED BY <1>1, <1>7, <2>1, StartKeeps DEF ProveStart
<1>8. CASE Prove(User)
  BY <1>8, ProveKeeps
<1>9. CASE VerifyStart(User)
  <2>1. "verify" \in Commands(User)
    BY DEF Commands
  <2> QED BY <1>1, <1>9, <2>1, StartKeeps DEF VerifyStart
<1>10. ASSUME NEW p \in Procs, Read(p) PROVE SignedInv'
  BY <1>10, ReadKeeps
<1>11. ASSUME NEW p \in Procs, OpenFile(p) PROVE SignedInv'
  BY <1>11, OpenKeeps
<1>12. ASSUME NEW p \in Procs, WriteWord(p) PROVE SignedInv'
  BY <1>12, WriteKeeps
<1>13. ASSUME NEW p \in Procs, Refuse(p) \/ Kill(p) PROVE SignedInv'
  BY <1>13, FailureKeeps
<1>14. CASE UNCHANGED vars
  BY <1>14, SignedStutter
<1> QED BY <1>2, <1>3, <1>4, <1>5, <1>6, <1>7, <1>8, <1>9, <1>10, <1>11, <1>12, <1>13, <1>14
        DEF Next

\* Every word of every file and of every process's memory is one that some
\* command made for that place, and what verify reads is backed.
THEOREM AlwaysSigned == Spec => []SignedInv
BY SignedInit, SignedNext, PTL DEF Spec

\* blindsig verify prints [PASS] only when every co-signer that keygen made has
\* signed, at one leaf and on one commitment to that message: any number of
\* signer processes, mixed and torn files and killed commands included.
THEOREM NothingPassesUnsigned == Spec => []EverySignerSigned
<1>1. SignedInv => EverySignerSigned
  BY DEF SignedInv, WorldInv, Backed, AllSigned, EverySignerSigned
<1> QED BY <1>1, AlwaysSigned, PTL

-----------------------------------------------------------------------------
(* No gap: what the counters promise                                       *)

\* Every co-signer's signature at leaf l is out.
LeafOut(l) ==
    /\ Len(gens) = 1
    /\ \A i \in 1..gens[1] : \E t \in released : t.gen = 1 /\ t.idx = i /\ t.leaf = l

\* A word of signer_key.bin that counts no leaf too many.
Reached(v) == v = Hole \/ v = 0 \/ LeafOut(v - 1)
KeyReached(f) == \A k \in 1..Len(f) : k > 1 => Reached(f[k])

\* A process that is writing the signatures of leaf l.
Answering(p) == cmd[p] = "sign" /\ step[p] = 3
OnTheWay(p) ==
    \E l \in 0..(Capacity - 1), c \in 1..Len(committed) :
        /\ Len(gens) = 1 /\ (l = 0 \/ LeafOut(l - 1))
        /\ mem[p]["sig"] = Signatures(1, gens[1], l, c)
        /\ \A k \in 1..Len(mem[p]["key"]) : k > 1 => mem[p]["key"][k] = l + 1
        /\ \A i \in 1..gens[1] : i <= offset[p] => mem[p]["sig"][i] \in released

ProcGap(p) ==
    /\ Answering(p) => OnTheWay(p)
    /\ ~ Answering(p) => KeyReached(mem[p]["key"])

GapInv ==
    /\ \A s \in released : s.gen <= Len(gens)
    /\ Len(gens) <= 1 =>
          /\ \A s \in released : s.leaf > 0 => LeafOut(s.leaf - 1)
          /\ KeyReached(dir["key"])
          /\ \A p \in Procs : ProcGap(p)

\* What is reached stays reached, as long as keygen runs once.
LEMMA LeafOutStays ==
    ASSUME TypeOK, Grew, Len(gens') <= 1, NEW l, LeafOut(l)
    PROVE  gens' = gens /\ LeafOut(l)'
<1>1. gens' = gens
  <2>1. Len(gens) = 1 /\ gens \in Seq(1..MaxSigners)
    BY DEF LeafOut, TypeOK
  <2>2. ASSUME NEW n \in 1..MaxSigners, gens' = Append(gens, n) PROVE FALSE
    BY <2>1, <2>2
  <2> QED BY <2>2 DEF Grew
<1> QED BY <1>1 DEF LeafOut, Grew

\* A counter that was not too far stays so.
LEMMA ReachedStays ==
    ASSUME TypeOK, Grew, Len(gens') <= 1, NEW v, Reached(v)
    PROVE  Reached(v)'
<1>1. CASE v = Hole \/ v = 0
  BY <1>1 DEF Reached
<1>2. CASE LeafOut(v - 1)
  <2>1. PICK l : l = v - 1
    OBVIOUS
  <2>2. LeafOut(l)'
    BY <1>2, <2>1, LeafOutStays
  <2> QED BY <2>1, <2>2 DEF Reached
<1> QED BY <1>1, <1>2 DEF Reached

\* So does a file of counters.
LEMMA KeyReachedStays ==
    ASSUME TypeOK, Grew, Len(gens') <= 1, NEW f, KeyReached(f)
    PROVE  KeyReached(f)'
BY ReachedStays DEF KeyReached

\* The answer of a signer that does not move keeps its leaf.
LEMMA OnTheWayStays ==
    ASSUME TypeOK, Grew, Len(gens') <= 1, NEW q, OnTheWay(q), mem'[q] = mem[q],
           offset'[q] = offset[q] \/ offset'[q] < 1, offset'[q] \in Int
    PROVE  OnTheWay(q)'
<1>1. PICK l \in 0..(Capacity - 1), c \in 1..Len(committed) :
        /\ Len(gens) = 1 /\ (l = 0 \/ LeafOut(l - 1))
        /\ mem[q]["sig"] = Signatures(1, gens[1], l, c)
        /\ \A k \in 1..Len(mem[q]["key"]) : k > 1 => mem[q]["key"][k] = l + 1
        /\ \A i \in 1..gens[1] : i <= offset[q] => mem[q]["sig"][i] \in released
  BY DEF OnTheWay
<1>2. gens' = gens
  <2>1. gens \in Seq(1..MaxSigners)
    BY DEF TypeOK
  <2>2. ASSUME NEW n \in 1..MaxSigners, gens' = Append(gens, n) PROVE FALSE
    BY <1>1, <2>1, <2>2
  <2> QED BY <2>2 DEF Grew
<1>3. l = 0 \/ LeafOut(l - 1)'
  <2>1. PICK j : j = l - 1
    OBVIOUS
  <2>2. LeafOut(j) => LeafOut(j)'
    BY LeafOutStays
  <2> QED BY <1>1, <2>1, <2>2
<1>4. c \in 1..Len(committed')
  <2>1. Len(committed) \in Nat
    BY DEF TypeOK
  <2> QED BY <2>1, Grown
<1>5. \A i \in 1..gens'[1] : i <= offset'[q] => mem'[q]["sig"][i] \in released'
  <2> SUFFICES ASSUME NEW i \in 1..gens'[1], i <= offset'[q]
               PROVE  mem'[q]["sig"][i] \in released'
    OBVIOUS
  <2>1. i <= offset[q]
    OBVIOUS
  <2> QED BY <1>1, <1>2, <2>1 DEF Grew
<1>6. /\ Len(gens') = 1 /\ mem'[q]["sig"] = Signatures(1, gens'[1], l, c)
      /\ \A k \in 1..Len(mem'[q]["key"]) : k > 1 => mem'[q]["key"][k] = l + 1
  BY <1>1, <1>2 DEF Signatures
<1> QED BY <1>3, <1>4, <1>5, <1>6 DEF OnTheWay

\* A process that does not move leaves no gap.
LEMMA ProcGapStays ==
    ASSUME SignedInv, Grew, Len(gens') <= 1, NEW q \in Procs, ProcGap(q),
           cmd'[q] = cmd[q], step'[q] = step[q], offset'[q] = offset[q], mem'[q] = mem[q]
    PROVE  ProcGap(q)'
<1>1. TypeOK /\ offset[q] \in Int
  BY DEF SignedInv, ProcInv
<1>2. Answering(q)' <=> Answering(q)
  BY DEF Answering
<1>3. Answering(q) => OnTheWay(q)'
  BY <1>1, OnTheWayStays DEF ProcGap
<1>4. ~ Answering(q) => KeyReached(mem[q]["key"])'
  <2>1. PICK f : f = mem[q]["key"]
    OBVIOUS
  <2>2. ~ Answering(q) => KeyReached(f)'
    BY <1>1, <2>1, KeyReachedStays DEF ProcGap
  <2> QED BY <2>1, <2>2
<1> QED BY <1>2, <1>3, <1>4 DEF ProcGap

\* What a step of p still has to show.
LEMMA GapFrame ==
    ASSUME SignedInv, GapInv, Grew, NEW p \in Procs, OnlyBy(p),
           \A s \in released' : s \in released \/ (s.gen \in Nat /\ s.gen <= Len(gens)),
           Len(gens') <= 1 =>
              /\ \A s \in released' : s \in released \/ s.leaf = 0 \/ LeafOut(s.leaf - 1)
              /\ dir'["key"] = dir["key"] \/ KeyReached(dir["key"])'
              /\ ProcGap(p)'
    PROVE  GapInv'
<1>1. TypeOK /\ Len(gens) \in Nat
  BY DEF SignedInv, TypeOK
<1>2. \A s \in released' : s.gen <= Len(gens')
  <2> SUFFICES ASSUME NEW s \in released' PROVE s.gen <= Len(gens')
    OBVIOUS
  <2>1. s \in released => s.gen \in Nat
    BY <1>1, ConstantsAssumption DEF TypeOK, Signature, Gen
  <2>2. s.gen \in Nat /\ s.gen <= Len(gens)
    BY <2>1 DEF GapInv
  <2>3. Len(gens') \in Nat /\ Len(gens') >= Len(gens)
    BY <1>1, Grown
  <2> QED BY <1>1, <2>2, <2>3
<1>3. ASSUME Len(gens') <= 1
      PROVE  /\ \A s \in released' : s.leaf > 0 => LeafOut(s.leaf - 1)'
             /\ KeyReached(dir["key"])'
             /\ \A q \in Procs' : ProcGap(q)'
  <2>1. Len(gens) <= 1
    BY <1>1, <1>3, Grown
  <2>2. \A s \in released' : s.leaf > 0 => LeafOut(s.leaf - 1)'
    <3> SUFFICES ASSUME NEW s \in released', s.leaf > 0 PROVE LeafOut(s.leaf - 1)'
      OBVIOUS
    <3>1. PICK l : l = s.leaf - 1
      OBVIOUS
    <3>2. s.leaf = 0 \/ LeafOut(l)
      BY <1>3, <2>1, <3>1 DEF GapInv
    <3>3. LeafOut(l) => LeafOut(l)'
      BY <1>1, <1>3, LeafOutStays
    <3> QED BY <3>1, <3>2, <3>3
  <2>3. KeyReached(dir["key"])'
    <3>1. CASE dir'["key"] = dir["key"]
      <4>1. PICK f : f = dir["key"]
        OBVIOUS
      <4>2. KeyReached(f)'
        BY <1>1, <1>3, <2>1, <4>1, KeyReachedStays DEF GapInv
      <4> QED BY <3>1, <4>1, <4>2
    <3> QED BY <1>3, <3>1
  <2>4. ASSUME NEW q \in Procs PROVE ProcGap(q)'
    <3>1. CASE q = p
      BY <1>3, <3>1
    <3>2. CASE q # p
      <4>1. ProcGap(q)
        BY <2>1 DEF GapInv
      <4> QED BY <1>3, <3>2, <4>1, ProcGapStays DEF OnlyBy
    <3> QED BY <3>1, <3>2
  <2>5. Procs' = Procs
    BY DEF Grew, Procs, Signers
  <2> QED BY <2>2, <2>3, <2>4, <2>5
<1> QED BY <1>2, <1>3 DEF GapInv

\* A command that has nothing to do with the counters.
LEMMA GapAside ==
    ASSUME SignedInv, GapInv, Grew, NEW p \in Procs, OnlyBy(p), gens' = gens,
           released' = released, dir'["key"] = dir["key"],
           mem'[p]["key"] = <<>> \/ (~ Answering(p) /\ mem'[p]["key"] = mem[p]["key"]),
           ~ Answering(p)'
    PROVE  GapInv'
<1>1. ASSUME Len(gens') <= 1 PROVE ProcGap(p)'
  <2>1. KeyReached(mem[p]["key"])'
    <3>1. CASE mem'[p]["key"] = <<>>
      BY <3>1 DEF KeyReached
    <3>2. CASE ~ Answering(p) /\ mem'[p]["key"] = mem[p]["key"]
      <4>1. PICK f : f = mem[p]["key"]
        OBVIOUS
      <4>2. KeyReached(f)
        BY <1>1, <3>2, <4>1 DEF GapInv, ProcGap
      <4>3. KeyReached(f)'
        BY <1>1, <4>2, KeyReachedStays DEF SignedInv
      <4> QED BY <3>2, <4>1, <4>3
    <3> QED BY <3>1, <3>2
  <2> QED BY <2>1 DEF ProcGap
<1> QED BY <1>1, GapFrame

\* cmd_keygen starts all counters at 0.
LEMMA KeygenGap ==
    ASSUME SignedInv, GapInv, NEW p \in Signers, NEW n \in 1..MaxSigners, Keygen(p, n)
    PROVE  GapInv'
<1>1. TypeOK /\ ProcInv(p) /\ p \in Procs
  BY DEF SignedInv, Procs
<1>2. Grew /\ released' = released /\ dir' = dir
  BY DEF Keygen, Grew
<1>3. PICK g, key, pub : /\ g = Len(gens) + 1 /\ key = KeyFile(g, n)
                         /\ pub = PubWords(g, n)
  OBVIOUS
<1>4. g \in Nat /\ n \in Nat /\ n >= 1
  BY <1>1, <1>3, ConstantsAssumption DEF TypeOK
<1>5. mem' = [mem EXCEPT ![p].key = key, ![p].pub = pub]
  BY <1>3 DEF Keygen, KeyFile
<1>6. OnlyBy(p) /\ cmd'[p] = "keygen" /\ mem'[p]["key"] = key
  <2>1. mem \in [Procs -> [Files -> Seq(Word)]]
    BY <1>1 DEF TypeOK
  <2>2. /\ mem'[p] = [mem[p] EXCEPT !["key"] = key, !["pub"] = pub]
        /\ \A q \in Procs \ {p} : mem'[q] = mem[q]
    BY <1>1, <1>5, <2>1
  <2>3. mem'[p]["key"] = key
    BY <1>1, <2>1, <2>2 DEF Files
  <2>4. cmd'[p] = "keygen" /\ \A q \in Procs \ {p} : cmd'[q] = cmd[q]
    BY <1>1 DEF Keygen, Begin, TypeOK
  <2>5. \A q \in Procs \ {p} : step'[q] = step[q] /\ offset'[q] = offset[q]
    BY <1>1 DEF Keygen, TypeOK
  <2> QED BY <2>2, <2>3, <2>4, <2>5 DEF OnlyBy
<1>7. Len(key) = n + 1 /\ \A k \in 2..(n + 1) : key[k] = 0
  BY <1>3, <1>4, KeyWords
<1>8. ProcGap(p)'
  <2>1. ~ Answering(p)'
    BY <1>6 DEF Answering
  <2>2. \A k \in 1..Len(key) : k > 1 => key[k] = 0
    BY <1>4, <1>7
  <2>3. KeyReached(key)'
    BY <2>2 DEF KeyReached, Reached
  <2> QED BY <1>6, <2>1, <2>3 DEF ProcGap
<1> QED BY <1>1, <1>2, <1>6, <1>8, GapFrame

\* Commands that write no counter leave no gap.
LEMMA AsideGaps ==
    ASSUME SignedInv, GapInv, NEW p \in Procs
    PROVE  /\ p \in Signers /\ SignStart(p) => GapInv'
           /\ \A m \in Messages : p = User /\ Commit(p, m) => GapInv'
           /\ p = User /\ (ProveStart(p) \/ Prove(p) \/ VerifyStart(p)) => GapInv'
           /\ \A m \in Messages : p = User /\ Verify(p, m) => GapInv'
           /\ Refuse(p) \/ Kill(p) => GapInv'
<1>1. TypeOK /\ ProcInv(p)
  BY DEF SignedInv
<1>2. mem \in [Procs -> [Files -> Seq(Word)]]
  BY <1>1 DEF TypeOK
<1>3. ASSUME cmd[p] = "idle", NEW c \in {"sign", "prove", "verify"}, Begin(p, c),
             UNCHANGED <<dir, step, offset, mem, world>>
      PROVE  GapInv'
  <2>1. Grew /\ gens' = gens /\ released' = released /\ dir' = dir /\ mem' = mem
    BY <1>3 DEF world, Grew
  <2>2. OnlyBy(p) /\ cmd'[p] = c /\ step'[p] = 0
    BY <1>1, <1>3 DEF Begin, OnlyBy, TypeOK, ProcInv
  <2>3. mem'[p]["key"] = <<>> /\ ~ Answering(p)'
    BY <1>1, <1>3, <2>1, <2>2 DEF ProcInv, NoFiles, Files, Answering
  <2> QED BY <2>1, <2>2, <2>3, GapAside
<1>4. ASSUME Exit(p), dir' = dir, gens' = gens, released' = released,
             scenario' = scenario, committed' = committed
      PROVE  GapInv'
  <2>1. Grew
    BY <1>4 DEF Grew
  <2>2. OnlyBy(p)
    BY <1>4, <2>1, ExitFrame
  <2>3. cmd'[p] = "idle" /\ mem'[p] = NoFiles
    BY <1>1, <1>4 DEF Exit, TypeOK
  <2>4. mem'[p]["key"] = <<>> /\ ~ Answering(p)'
    BY <2>3 DEF NoFiles, Files, Answering
  <2> QED BY <1>4, <2>1, <2>2, <2>4, GapAside
<1>5. p \in Signers /\ SignStart(p) => GapInv'
  BY <1>3 DEF SignStart
<1>6. ASSUME NEW m \in Messages, p = User, Commit(p, m) PROVE GapInv'
  <2>1. Grew /\ gens' = gens /\ released' = released /\ dir' = dir
    BY <1>6 DEF Commit, Grew
  <2>2. cmd'[p] = "commit" /\ \A q \in Procs \ {p} : cmd'[q] = cmd[q]
    BY <1>1, <1>6 DEF Commit, Begin, TypeOK
  <2>3. \A q \in Procs \ {p} : step'[q] = step[q] /\ offset'[q] = offset[q]
    BY <1>1, <1>6 DEF Commit, TypeOK
  <2>4. mem'[p]["key"] = mem[p]["key"] /\ \A q \in Procs \ {p} : mem'[q] = mem[q]
    BY <1>2, <1>6 DEF Commit, Files
  <2>5. mem[p] = NoFiles
    BY <1>1, <1>6 DEF ProcInv, Commit
  <2>6. mem'[p]["key"] = <<>> /\ ~ Answering(p)' /\ OnlyBy(p)
    BY <2>2, <2>3, <2>4, <2>5 DEF NoFiles, Files, Answering, OnlyBy
  <2> QED BY <2>1, <2>6, GapAside
<1>7. CASE p = User /\ ProveStart(p)
  BY <1>3, <1>7 DEF ProveStart
<1>8. CASE p = User /\ VerifyStart(p)
  BY <1>3, <1>8 DEF VerifyStart
<1>9. CASE p = User /\ Prove(p)
  <2>1. Grew /\ gens' = gens /\ released' = released /\ dir' = dir /\ cmd' = cmd
    BY <1>9 DEF Prove, world, Grew
  <2>2. cmd[p] = "prove"
    BY <1>9 DEF Prove, ReadAll
  <2>3. \A q \in Procs \ {p} : step'[q] = step[q] /\ offset'[q] = offset[q]
    BY <1>1, <1>9 DEF Prove, TypeOK
  <2>4. mem'[p]["key"] = mem[p]["key"] /\ \A q \in Procs \ {p} : mem'[q] = mem[q]
    BY <1>2, <1>9 DEF Prove, Files
  <2>5. ~ Answering(p) /\ ~ Answering(p)' /\ OnlyBy(p)
    BY <2>1, <2>2, <2>3, <2>4 DEF Answering, OnlyBy
  <2> QED BY <2>1, <2>4, <2>5, GapAside
<1>10. ASSUME NEW m \in Messages, p = User, Verify(p, m) PROVE GapInv'
  BY <1>4, <1>10 DEF Verify
<1>11. Refuse(p) \/ Kill(p) => GapInv'
  BY <1>4 DEF Refuse, Kill, world
<1> QED BY <1>5, <1>6, <1>7, <1>8, <1>9, <1>10, <1>11

\* A read counter is as far as the stored one.
LEMMA ReadGap ==
    ASSUME SignedInv, GapInv, NEW p \in Procs, Read(p)
    PROVE  GapInv'
<1>1. TypeOK /\ ProcInv(p) /\ mem \in [Procs -> [Files -> Seq(Word)]]
  BY DEF SignedInv, TypeOK
<1>2. Grew /\ gens' = gens /\ released' = released /\ dir' = dir
  BY DEF Read, world, Grew
<1>3. PICK f : f = ReadsOf[cmd[p]][step[p] + 1]
  OBVIOUS
<1>4. cmd[p] \in {"keygen", "commit", "sign", "prove", "verify"} /\ step[p] \in Nat
  BY <1>1 DEF ProcInv, Commands, Read, Reading
<1>5. /\ f \in {"key", "com", "state", "pub", "sig", "bsig"}
      /\ cmd[p] = "sign" => step[p] <= 1
  BY <1>3, <1>4, Places DEF Read
<1>6. /\ mem' = [mem EXCEPT ![p][f] = dir[f]] /\ step' = [step EXCEPT ![p] = @ + 1]
      /\ cmd' = cmd /\ offset' = offset
  BY <1>3 DEF Read
<1>7. /\ mem'[p]["key"] = IF f = "key" THEN dir["key"] ELSE mem[p]["key"]
      /\ \A q \in Procs \ {p} : mem'[q] = mem[q]
  BY <1>1, <1>5, <1>6 DEF Files
<1>8. step'[p] = step[p] + 1 /\ \A q \in Procs \ {p} : step'[q] = step[q]
  BY <1>1, <1>6 DEF TypeOK
<1>9. OnlyBy(p)
  BY <1>6, <1>7, <1>8 DEF OnlyBy
<1>10. ~ Answering(p) /\ ~ Answering(p)'
  BY <1>4, <1>5, <1>6, <1>8 DEF Answering
<1>11. CASE f = "key"
  <2>1. ASSUME Len(gens') <= 1 PROVE ProcGap(p)'
    <3>1. PICK k : k = dir["key"]
      OBVIOUS
    <3>2. KeyReached(k)
      BY <1>2, <2>1, <3>1 DEF GapInv
    <3>3. KeyReached(k)'
      BY <1>1, <1>2, <2>1, <3>2, KeyReachedStays
    <3> QED BY <1>7, <1>10, <1>11, <3>1, <3>3 DEF ProcGap
  <2> QED BY <1>2, <1>9, <2>1, GapFrame
<1>12. CASE f # "key"
  BY <1>2, <1>7, <1>9, <1>10, <1>12, GapAside
<1> QED BY <1>11, <1>12

\* Truncating signer_key.bin moves no counter.
LEMMA OpenGap ==
    ASSUME SignedInv, GapInv, NEW p \in Procs, OpenFile(p)
    PROVE  GapInv'
<1>1. TypeOK /\ ProcInv(p)
  BY DEF SignedInv
<1>2. Grew /\ gens' = gens /\ released' = released /\ cmd' = cmd /\ step' = step /\ mem' = mem
  BY DEF OpenFile, world, Grew
<1>3. offset'[p] = 0 /\ OnlyBy(p)
  BY <1>1 DEF OpenFile, OnlyBy, TypeOK
<1>4. dir'["key"] = dir["key"] \/ dir'["key"] = <<>>
  BY <1>1 DEF OpenFile, TypeOK, Files
<1>5. dir'["key"] = dir["key"] \/ KeyReached(dir["key"])'
  BY <1>4 DEF KeyReached
<1>6. ASSUME Len(gens') <= 1 PROVE ProcGap(p)'
  <2>1. ProcGap(p)
    BY <1>2, <1>6 DEF GapInv
  <2>2. Answering(p)' <=> Answering(p)
    BY <1>2 DEF Answering
  <2>3. Answering(p) => OnTheWay(p)'
    BY <1>1, <1>2, <1>3, <1>6, <2>1, OnTheWayStays DEF ProcGap
  <2>4. ~ Answering(p) => KeyReached(mem[p]["key"])'
    <3>1. PICK f : f = mem[p]["key"]
      OBVIOUS
    <3>2. ~ Answering(p) => KeyReached(f)'
      BY <1>1, <1>2, <1>6, <2>1, <3>1, KeyReachedStays DEF ProcGap
    <3> QED BY <1>2, <3>1, <3>2
  <2> QED BY <2>2, <2>3, <2>4 DEF ProcGap
<1> QED BY <1>2, <1>3, <1>5, <1>6, GapFrame

\* cmd_sign takes the leaf that the counters have reached.
LEMMA SignGap ==
    ASSUME SignedInv, GapInv, NEW p \in Signers, Sign(p)
    PROVE  GapInv'
<1>1. TypeOK /\ ProcInv(p) /\ WorldInv /\ p \in Procs
  BY DEF SignedInv, Procs
<1>2. /\ Grew /\ gens' = gens /\ released' = released /\ dir' = dir
      /\ committed' = committed /\ cmd' = cmd /\ offset' = offset
  BY DEF Sign, world, Grew
<1>3. cmd[p] = "sign" /\ step[p] = 2
  BY Tables DEF Sign, ReadAll
<1>4. PICK g \in 1..Len(gens), l \in 0..(Capacity - 1), c \in 1..Len(committed) :
          /\ mem[p]["key"] \in Seq(Word) /\ FileOk("key", mem[p]["key"])
          /\ mem[p]["key"][1] = [gen |-> g, n |-> gens[g]]
          /\ Len(mem[p]["key"]) = gens[g] + 1 /\ gens[g] \in 1..MaxSigners
          /\ gens[g] >= 1 /\ gens[g] \in Nat
          /\ \A i \in 1..gens[g] : Counter(mem[p]["key"], i) = l
          /\ mem[p]["com"][1] = c
          /\ mem' = [mem EXCEPT ![p].sig = Signatures(g, gens[g], l, c),
                                ![p].key = Advanced(mem[p]["key"])]
  BY <1>1, SignIs
<1>5. PICK n, key, sig, adv : /\ n = gens[g] /\ key = mem[p]["key"]
                              /\ sig = Signatures(g, n, l, c) /\ adv = Advanced(key)
  OBVIOUS
<1>6. mem' = [mem EXCEPT ![p].sig = sig, ![p].key = adv]
  BY <1>4, <1>5
<1>7. /\ OnlyBy(p) /\ step'[p] = 3 /\ mem'[p]["sig"] = sig /\ mem'[p]["key"] = adv
  <2>1. mem \in [Procs -> [Files -> Seq(Word)]]
    BY <1>1 DEF TypeOK
  <2>2. /\ mem'[p] = [mem[p] EXCEPT !["sig"] = sig, !["key"] = adv]
        /\ \A q \in Procs \ {p} : mem'[q] = mem[q]
    BY <1>1, <1>6, <2>1
  <2>3. mem'[p]["sig"] = sig /\ mem'[p]["key"] = adv
    BY <1>1, <2>1, <2>2 DEF Files
  <2>4. step'[p] = 3 /\ \A q \in Procs \ {p} : step'[q] = step[q]
    BY <1>1, <1>3 DEF TypeOK, Sign
  <2> QED BY <1>2, <2>2, <2>3, <2>4 DEF OnlyBy
<1>8. /\ Len(adv) = n + 1 /\ \A k \in 2..(n + 1) : adv[k] = l + 1
  <2>1. l \in Nat /\ \A i \in 1..n : Counter(key, i) = l
    BY <1>4, <1>5, ConstantsAssumption
  <2>2. \A i \in 1..n : Counter(key, i) \in Nat
    BY <2>1
  <2>3. key \in Seq(Word) /\ Len(key) = n + 1 /\ n \in Nat /\ n >= 1
    BY <1>4, <1>5
  <2>4. /\ Len(Advanced(key)) = n + 1
        /\ \A i \in 1..n : Advanced(key)[i + 1] = Counter(key, i) + 1
    BY <2>2, <2>3, AdvancedIs
  <2>5. \A k \in 2..(n + 1) : k - 1 \in 1..n /\ k - 1 + 1 = k
    BY <2>3
  <2>6. \A k \in 2..(n + 1) : Advanced(key)[k] = Counter(key, k - 1) + 1
    BY <2>4, <2>5
  <2> QED BY <1>5, <2>1, <2>4, <2>5, <2>6
<1>9. ASSUME Len(gens') <= 1 PROVE ProcGap(p)'
  <2>1. g = 1 /\ Len(gens) = 1
    <3>1. gens \in Seq(1..MaxSigners)
      BY <1>1 DEF TypeOK
    <3>2. PICK m : m = Len(gens)
      OBVIOUS
    <3>3. m \in Nat
      BY <3>1, <3>2
    <3>4. m <= 1
      BY <1>2, <1>9, <3>2
    <3>5. g \in 1..m
      BY <3>2
    <3>6. g = 1 /\ m = 1
      BY <3>3, <3>4, <3>5
    <3> QED BY <3>2, <3>6
  <2>2. l = 0 \/ LeafOut(l - 1)
    <3>1. ~ Answering(p)
      BY <1>3 DEF Answering
    <3>2. KeyReached(key)
      <4>1. Len(gens) <= 1
        BY <2>1
      <4>2. ProcGap(p)
        BY <1>1, <4>1 DEF GapInv
      <4> QED BY <1>5, <3>1, <4>2 DEF ProcGap
    <3>3. 2 \in 1..Len(key) /\ 1 \in 1..n /\ Counter(key, 1) = l
      BY <1>4, <1>5
    <3>4. Reached(key[2])
      BY <3>2, <3>3 DEF KeyReached
    <3> QED BY <3>3, <3>4 DEF Counter, Reached
  <2>3. l = 0 \/ LeafOut(l - 1)'
    <3>1. PICK j : j = l - 1
      OBVIOUS
    <3>2. LeafOut(j) => LeafOut(j)'
      BY <1>1, <1>2, <1>9, LeafOutStays
    <3> QED BY <2>2, <3>1, <3>2
  <2>4. offset'[p] = -1
    <3>1. ~ Writing(p)
      BY <1>3, Places
    <3> QED BY <1>1, <1>2, <3>1 DEF ProcInv
  <2>5. mem'[p]["sig"] = Signatures(1, gens'[1], l, c)
    BY <1>2, <1>5, <1>7, <2>1
  <2>6. \A k \in 1..Len(mem'[p]["key"]) : k > 1 => mem'[p]["key"][k] = l + 1
    <3>1. n \in Nat
      BY <1>4, <1>5
    <3> QED BY <1>7, <1>8, <3>1
  <2>7. \A i \in 1..gens'[1] : ~ (i <= offset'[p])
    BY <2>4
  <2>8. OnTheWay(p)'
    BY <1>2, <2>1, <2>3, <2>5, <2>6, <2>7 DEF OnTheWay
  <2>9. Answering(p)'
    BY <1>2, <1>3, <1>7 DEF Answering
  <2> QED BY <2>8, <2>9 DEF ProcGap
<1> QED BY <1>1, <1>2, <1>7, <1>9, GapFrame

\* A counter is stored only when all signatures at its leaf are out.
LEMMA WriteGap ==
    ASSUME SignedInv, GapInv, NEW p \in Procs, WriteWord(p)
    PROVE  GapInv'
<1>1. TypeOK /\ ProcInv(p)
  BY DEF SignedInv
<1>2. Grew /\ UNCHANGED <<scenario, gens, kills, committed, accepted>>
  BY WriteIs
<1>3. PICK f \in Files, k \in Nat \ {0}, w \in Word :
          /\ Writes(p, f) /\ WritesWord(p, f, k, w)
          /\ k \in 1..Len(mem[p][f]) /\ WordOk(f, k, w) /\ Writing(p)
  BY WriteIs
<1>4. OnlyBy(p)
  <2>1. CASE Exit(p)
    BY <1>2, <2>1, ExitFrame
  <2>2. CASE ~ Exit(p)
    BY <1>1, <1>3, <2>2 DEF WritesWord, OnlyBy, TypeOK
  <2> QED BY <2>1, <2>2
<1>5. \/ mem'[p] = NoFiles /\ cmd'[p] = "idle"
      \/ mem'[p] = mem[p] /\ cmd'[p] = cmd[p]
  <2>1. CASE Exit(p)
    BY <1>1, <2>1 DEF Exit, TypeOK
  <2>2. CASE ~ Exit(p)
    BY <1>3, <2>2 DEF WritesWord
  <2> QED BY <2>1, <2>2
<1>6. CASE f # "sig"
  <2>1. released' = released /\ ~ Answering(p)
    BY <1>3, <1>6 DEF WritesWord, Writes, Answering
  <2>2. ~ Answering(p)'
    <3>1. cmd[p] = "sign" => step[p] = 4 /\ f = "key"
      BY <1>3, <1>6 DEF Writes
    <3>2. cmd'[p] = "sign" => step'[p] = step[p] /\ cmd[p] = "sign"
      BY <1>1, <1>3, <3>1 DEF WritesWord, Exit, TypeOK
    <3> QED BY <3>1, <3>2 DEF Answering
  <2>3. ASSUME Len(gens') <= 1
        PROVE  ProcGap(p)' /\ (dir'["key"] = dir["key"] \/ KeyReached(dir["key"])')
    <3>1. PICK key : key = mem[p]["key"]
      OBVIOUS
    <3>2. KeyReached(key)
      BY <1>2, <2>1, <2>3, <3>1 DEF GapInv, ProcGap
    <3>3. KeyReached(key)'
      BY <1>1, <1>2, <2>3, <3>2, KeyReachedStays
    <3>4. mem'[p]["key"] = key \/ mem'[p]["key"] = <<>>
      BY <1>5, <3>1 DEF NoFiles, Files
    <3>5. KeyReached(<<>>)'
      BY DEF KeyReached
    <3>6. ProcGap(p)'
      BY <2>2, <3>3, <3>4, <3>5 DEF ProcGap
    <3>7. CASE f # "key"
      <4>1. dir'["key"] = dir["key"]
        BY <1>3, <3>7 DEF WritesWord, Files
      <4> QED BY <3>6, <4>1
    <3>8. CASE f = "key"
      <4>1. PICK old, new : old = dir["key"] /\ new = WriteAt(old, k, w)
        OBVIOUS
      <4>2. old \in Seq(Word) /\ Hole \in Word
        BY <1>1, <4>1 DEF TypeOK, Files, Word, BaseWord
      <4>3. Wrote(WriteAt(old, k, w), old, k, w) /\ WriteAt(old, k, w) \in Seq(Word)
        BY <4>2, WriteAtSeq, Zenon
      <4>4. Wrote(new, old, k, w) /\ new \in Seq(Word)
        BY <4>1, <4>3
      <4>5. KeyReached(old)'
        <5>1. KeyReached(old)
          BY <1>2, <2>3, <4>1 DEF GapInv
        <5> QED BY <1>1, <1>2, <2>3, <5>1, KeyReachedStays
      <4>6. k > 1 => Reached(w)'
        <5>1. w = key[k] /\ k \in 1..Len(key)
          BY <1>3, <3>1, <3>8 DEF WritesWord
        <5> QED BY <3>3, <5>1 DEF KeyReached
      <4>7. Reached(Hole)'
        BY DEF Reached
      <4>8. KeyReached(new)'
        <5> SUFFICES ASSUME NEW i \in 1..Len(new), i > 1 PROVE Reached(new[i])'
          BY DEF KeyReached
        <5>1. CASE i = k
          BY <4>4, <4>6, <5>1 DEF Wrote
        <5>2. CASE i # k /\ i <= Len(old)
          <6>1. i \in 1..Len(old) /\ new[i] = old[i]
            BY <4>2, <4>4, <5>2 DEF Wrote
          <6> QED BY <4>5, <6>1 DEF KeyReached
        <5>3. CASE i # k /\ ~ (i <= Len(old))
          <6>1. new[i] = Hole
            BY <4>2, <4>4, <5>3 DEF Wrote
          <6> QED BY <4>7, <6>1
        <5> QED BY <5>1, <5>2, <5>3
      <4>9. dir'["key"] = new
        BY <1>3, <3>8, <4>1 DEF WritesWord
      <4> QED BY <3>6, <4>8, <4>9
    <3> QED BY <3>7, <3>8
  <2> QED BY <1>2, <1>4, <2>1, <2>3, GapFrame
<1>7. CASE f = "sig"
  <2>1. Answering(p) /\ released' = released \cup {w} /\ dir'["key"] = dir["key"]
    BY <1>3, <1>7 DEF WritesWord, Writes, Answering, Files
  <2>2. w.gen \in Nat /\ w.gen <= Len(gens)
    <3>1. IsSig(w)
      BY <1>1, <1>3, <1>7 DEF ProcInv, Known, Writes, WritesWord
    <3> QED BY <3>1, ConstantsAssumption DEF IsSig, Signature, Gen
  <2>3. ASSUME Len(gens') <= 1
        PROVE  /\ ProcGap(p)'
               /\ \A s \in released' : s \in released \/ s.leaf = 0 \/ LeafOut(s.leaf - 1)
    <3>1. OnTheWay(p)
      BY <1>2, <2>1, <2>3 DEF GapInv, ProcGap
    <3>2. PICK l \in 0..(Capacity - 1), c \in 1..Len(committed) :
            /\ Len(gens) = 1 /\ (l = 0 \/ LeafOut(l - 1))
            /\ mem[p]["sig"] = Signatures(1, gens[1], l, c)
            /\ \A j \in 1..Len(mem[p]["key"]) : j > 1 => mem[p]["key"][j] = l + 1
            /\ \A i \in 1..gens[1] : i <= offset[p] => mem[p]["sig"][i] \in released
      BY <3>1 DEF OnTheWay
    <3>3. PICK n, sig, key : n = gens[1] /\ sig = mem[p]["sig"] /\ key = mem[p]["key"]
      OBVIOUS
    <3>4. n \in Nat
      <4>1. gens \in Seq(1..MaxSigners)
        BY <1>1 DEF TypeOK
      <4>2. 1 \in 1..Len(gens)
        BY <3>2
      <4>3. gens[1] \in 1..MaxSigners
        BY <4>1, <4>2, ElementOfSeq
      <4> QED BY <3>3, <4>3
    <3>5. /\ sig = [i \in 1..n |-> [gen |-> 1, idx |-> i, leaf |-> l, com |-> c]]
          /\ Len(sig) = n
      BY <3>2, <3>3, <3>4 DEF Signatures
    <3>6. w = sig[k] /\ k \in 1..n /\ k = offset[p] + 1
      BY <1>3, <1>7, <3>3, <3>5 DEF WritesWord
    <3>7. w.leaf = l
      BY <3>5, <3>6
    <3>8. \A s \in released' : s \in released \/ s.leaf = 0 \/ LeafOut(s.leaf - 1)
      BY <2>1, <3>2, <3>7
    <3>9. \A i \in 1..n : i <= k => sig[i] \in released'
      <4>1. \A i \in 1..n : i <= k => i <= offset[p] \/ i = k
        BY <1>1, <3>4, <3>6 DEF ProcInv
      <4> QED BY <2>1, <3>2, <3>3, <3>6, <4>1
    <3>10. l = 0 \/ LeafOut(l - 1)'
      <4>1. PICK j : j = l - 1
        OBVIOUS
      <4>2. LeafOut(j) => LeafOut(j)'
        BY <1>1, <1>2, <2>3, LeafOutStays
      <4> QED BY <3>2, <4>1, <4>2
    <3>11. CASE Exit(p)
      <4>1. cmd'[p] = "idle" /\ mem'[p] = NoFiles
        BY <1>1, <3>11 DEF Exit, TypeOK
      <4>2. ProcGap(p)'
        BY <4>1 DEF ProcGap, Answering, KeyReached, NoFiles, Files
      <4> QED BY <3>8, <4>2
    <3>12. CASE /\ offset' = [offset EXCEPT ![p] = k]
                /\ cmd' = cmd /\ step' = step /\ mem' = mem
      <4>1. offset'[p] = k
        BY <1>1, <3>12 DEF TypeOK
      <4>2. OnTheWay(p)'
        <5>1. /\ Len(gens') = 1 /\ mem'[p]["sig"] = Signatures(1, gens'[1], l, c)
              /\ \A j \in 1..Len(mem'[p]["key"]) : j > 1 => mem'[p]["key"][j] = l + 1
          BY <1>2, <3>2, <3>12
        <5>2. \A i \in 1..gens'[1] : i <= offset'[p] => mem'[p]["sig"][i] \in released'
          BY <1>2, <3>3, <3>9, <3>12, <4>1
        <5> QED BY <1>2, <3>10, <5>1, <5>2 DEF OnTheWay
      <4>3. Answering(p)'
        BY <2>1, <3>12 DEF Answering
      <4> QED BY <3>8, <4>2, <4>3 DEF ProcGap
    <3>13. CASE /\ k = Len(mem[p][f]) /\ step' = [step EXCEPT ![p] = @ + 1]
                /\ cmd' = cmd /\ mem' = mem
      <4>1. k = n
        BY <1>7, <3>3, <3>5, <3>13
      <4>2. LeafOut(l)'
        <5>1. ASSUME NEW i \in 1..n
              PROVE  \E t \in released' : t.gen = 1 /\ t.idx = i /\ t.leaf = l
          <6>1. sig[i] \in released'
            BY <3>4, <3>9, <4>1, <5>1
          <6>2. sig[i] = [gen |-> 1, idx |-> i, leaf |-> l, com |-> c]
            BY <3>5, <5>1
          <6> QED BY <6>1, <6>2
        <5>2. Len(gens') = 1 /\ gens'[1] = n
          BY <1>2, <3>2, <3>3
        <5> QED BY <5>1, <5>2 DEF LeafOut
      <4>3. KeyReached(key)'
        <5>1. ASSUME NEW j \in 1..Len(key), j > 1 PROVE Reached(key[j])'
          <6>1. key[j] = l + 1 /\ key[j] - 1 = l
            BY <3>2, <3>3, <5>1
          <6> QED BY <4>2, <6>1 DEF Reached
        <5> QED BY <5>1 DEF KeyReached
      <4>4. step'[p] = 4
        BY <1>1, <2>1, <3>13 DEF TypeOK, Answering
      <4>5. ~ Answering(p)' /\ mem'[p]["key"] = key
        BY <3>3, <3>13, <4>4 DEF Answering
      <4> QED BY <3>8, <4>3, <4>5 DEF ProcGap
    <3> QED BY <1>3, <3>11, <3>12, <3>13 DEF WritesWord
  <2>4. \A s \in released' : s \in released \/ (s.gen \in Nat /\ s.gen <= Len(gens))
    BY <2>1, <2>2
  <2> QED BY <1>2, <1>4, <2>1, <2>3, <2>4, GapFrame
<1> QED BY <1>6, <1>7

\* No leaf has been used at the start.
LEMMA GapInit == Init => GapInv
BY DEF Init, GapInv, KeyReached, ProcGap, Answering, NoFiles, Files, Procs, Signers

\* Every step keeps GapInv.
LEMMA GapNext == SignedInv /\ GapInv /\ [Next]_vars => GapInv'
<1> SUFFICES ASSUME SignedInv, GapInv, [Next]_vars PROVE GapInv'
  OBVIOUS
<1>1. User \in Procs /\ \A p \in Signers : p \in Procs
  BY DEF Procs
<1>2. ASSUME NEW p \in Signers, NEW n \in 1..MaxSigners, Keygen(p, n) PROVE GapInv'
  BY <1>2, KeygenGap
<1>3. ASSUME NEW p \in Signers, SignStart(p) PROVE GapInv'
  BY <1>1, <1>3, AsideGaps
<1>4. ASSUME NEW p \in Signers, Sign(p) PROVE GapInv'
  BY <1>4, SignGap
<1>5. ASSUME NEW m \in Messages, Commit(User, m) \/ Verify(User, m) PROVE GapInv'
  BY <1>1, <1>5, AsideGaps
<1>6. CASE ProveStart(User) \/ Prove(User) \/ VerifyStart(User)
  BY <1>1, <1>6, AsideGaps
<1>7. ASSUME NEW p \in Procs, Read(p) PROVE GapInv'
  BY <1>7, ReadGap
<1>8. ASSUME NEW p \in Procs, OpenFile(p) PROVE GapInv'
  BY <1>8, OpenGap
<1>9. ASSUME NEW p \in Procs, WriteWord(p) PROVE GapInv'
  BY <1>9, WriteGap
<1>10. ASSUME NEW p \in Procs, Refuse(p) \/ Kill(p) PROVE GapInv'
  BY <1>10, AsideGaps
<1>11. CASE UNCHANGED vars
  <2>1. Grew /\ gens' = gens /\ released' = released /\ dir' = dir
    BY <1>11 DEF vars, Grew
  <2>2. OnlyBy(User) /\ cmd'[User] = cmd[User] /\ step'[User] = step[User]
        /\ offset'[User] = offset[User] /\ mem'[User] = mem[User]
    BY <1>11 DEF vars, OnlyBy
  <2>3. Len(gens') <= 1 => ProcGap(User)'
    BY <1>1, <2>1, <2>2, ProcGapStays DEF GapInv
  <2> QED BY <1>1, <2>1, <2>2, <2>3, GapFrame
<1> QED BY <1>2, <1>3, <1>4, <1>5, <1>6, <1>7, <1>8, <1>9, <1>10, <1>11 DEF Next

\* Signatures are written before counters: as long as keygen runs once, a
\* co-signer comes to leaf l only when all co-signers' signatures at l - 1 are
\* out, whatever else the signer processes do to the files.
THEOREM LeavesWithoutGap == Spec => []NoGap
<1>1. SignedInv /\ GapInv => NoGap
  <2> SUFFICES ASSUME SignedInv, GapInv, NEW s \in released, Len(gens) = 1, s.leaf > 0
               PROVE  \A i \in 1..gens[s.gen] : \E t \in released :
                          t.gen = s.gen /\ t.idx = i /\ t.leaf = s.leaf - 1
    BY DEF NoGap
  <2>1. s.gen = 1
    BY ConstantsAssumption DEF SignedInv, TypeOK, GapInv, Signature, Gen
  <2>2. LeafOut(s.leaf - 1)
    BY DEF GapInv
  <2> QED BY <2>1, <2>2 DEF LeafOut
<1> QED BY <1>1, SignedInit, SignedNext, GapInit, GapNext, PTL DEF Spec

-----------------------------------------------------------------------------
(* One signer process that nothing disturbs                                *)

Sigs(g, i) == {s \in released : s.gen = g /\ s.idx = i}

\* A counter that counts, below which all leaves are.
Counts(g, i, v) ==
    v \in Nat /\ Cardinality(Sigs(g, i)) = v /\ \A s \in Sigs(g, i) : s.leaf < v

\* A signer_key.bin whose counters count.
Exact(f) ==
    \E g \in 1..Len(gens) :
        /\ f # <<>> /\ f[1] = [gen |-> g, n |-> gens[g]] /\ Len(f) = gens[g] + 1
        /\ \A i \in 1..gens[g] : f[i + 1] \in 0..Capacity /\ Counts(g, i, f[i + 1])

IsPrefixOf(f, o, full) == Len(f) = o /\ \A k \in 1..o : f[k] = full[k]

\* The signer is writing an exact key: as much of it as is written is in place.
KeyGoesOut(p) ==
    /\ Exact(mem[p]["key"])
    /\ offset[p] >= 0 => IsPrefixOf(dir["key"], offset[p], mem[p]["key"])

\* The signatures up to the offset are out, and the counters that wait to be
\* written count them.
AnswerGoesOut(p) ==
    \E g \in 1..Len(gens), l \in 0..(Capacity - 1), c \in 1..Len(committed) :
        /\ mem[p]["sig"] = Signatures(g, gens[g], l, c)
        /\ mem[p]["key"][1] = [gen |-> g, n |-> gens[g]]
        /\ Len(mem[p]["key"]) = gens[g] + 1
        /\ \A i \in 1..gens[g] : /\ mem[p]["key"][i + 1] = l + 1
                                 /\ Counts(g, i, IF i <= offset[p] THEN l + 1 ELSE l)

Loose(p) == dir["key"] = <<>> \/ Exact(dir["key"])

SignerCount(p) ==
    /\ cmd[p] = "idle" => Loose(p)
    /\ cmd[p] = "keygen" /\ step[p] = 1 => KeyGoesOut(p)
    /\ cmd[p] = "keygen" /\ step[p] = 2 => Exact(dir["key"])
    /\ cmd[p] = "sign" /\ step[p] = 0 => Loose(p)
    /\ cmd[p] = "sign" /\ step[p] \in {1, 2} =>
           Exact(dir["key"]) /\ mem[p]["key"] = dir["key"]
    /\ cmd[p] = "sign" /\ step[p] = 3 => AnswerGoesOut(p)
    /\ cmd[p] = "sign" /\ step[p] = 4 => KeyGoesOut(p)

CountInv ==
    /\ IsFiniteSet(released)
    /\ kills \in Nat
    /\ Undisturbed => \A p \in Signers : SignerCount(p)

\* A count stays right while nothing is released.
LEMMA CountsStays ==
    ASSUME released' = released, NEW g, NEW i, NEW v
    PROVE  Counts(g, i, v)' <=> Counts(g, i, v)
BY DEF Counts, Sigs

\* So does a whole key file.
LEMMA ExactStays ==
    ASSUME TypeOK, Grew, released' = released, NEW f, Exact(f)
    PROVE  Exact(f)'
<1>1. PICK g \in 1..Len(gens) :
        /\ f # <<>> /\ f[1] = [gen |-> g, n |-> gens[g]] /\ Len(f) = gens[g] + 1
        /\ \A i \in 1..gens[g] : f[i + 1] \in 0..Capacity /\ Counts(g, i, f[i + 1])
  BY DEF Exact
<1>2. Len(gens) \in Nat
  BY DEF TypeOK
<1>3. g \in 1..Len(gens') /\ gens'[g] = gens[g]
  BY <1>2, Grown
<1>4. \A i \in 1..gens[g] : f[i + 1] \in 0..Capacity /\ Counts(g, i, f[i + 1])'
  <2> SUFFICES ASSUME NEW i \in 1..gens[g]
               PROVE  f[i + 1] \in 0..Capacity /\ Counts(g, i, f[i + 1])'
    OBVIOUS
  <2>1. PICK v : v = f[i + 1]
    OBVIOUS
  <2>2. v \in 0..Capacity /\ Counts(g, i, v)
    BY <1>1, <2>1
  <2>3. Counts(g, i, v)'
    BY <2>2, CountsStays
  <2> QED BY <2>1, <2>2, <2>3
<1> QED BY <1>1, <1>3, <1>4 DEF Exact

\* The offset may move from "not open" to 0: no signature is out by that.
LEMMA AnswerStays ==
    ASSUME TypeOK, Grew, released' = released, NEW q, AnswerGoesOut(q), mem'[q] = mem[q],
           offset'[q] = offset[q] \/ (offset[q] < 1 /\ offset'[q] < 1),
           offset[q] \in Int, offset'[q] \in Int
    PROVE  AnswerGoesOut(q)'
<1>1. PICK g \in 1..Len(gens), l \in 0..(Capacity - 1), c \in 1..Len(committed) :
        /\ mem[q]["sig"] = Signatures(g, gens[g], l, c)
        /\ mem[q]["key"][1] = [gen |-> g, n |-> gens[g]]
        /\ Len(mem[q]["key"]) = gens[g] + 1
        /\ \A i \in 1..gens[g] : /\ mem[q]["key"][i + 1] = l + 1
                                 /\ Counts(g, i, IF i <= offset[q] THEN l + 1 ELSE l)
  BY DEF AnswerGoesOut
<1>2. Len(gens) \in Nat /\ Len(committed) \in Nat
  BY DEF TypeOK
<1>3. g \in 1..Len(gens') /\ gens'[g] = gens[g] /\ c \in 1..Len(committed')
  BY <1>2, Grown
<1>4. ASSUME NEW i \in 1..gens[g]
      PROVE  Counts(g, i, IF i <= offset[q] THEN l + 1 ELSE l)'
  <2>1. PICK v : v = IF i <= offset[q] THEN l + 1 ELSE l
    OBVIOUS
  <2>2. v = IF i <= offset'[q] THEN l + 1 ELSE l
    BY <2>1
  <2>3. Counts(g, i, v)'
    BY <1>1, <2>1, CountsStays
  <2> QED BY <2>2, <2>3 DEF Counts, Sigs
<1>5. /\ mem'[q]["sig"] = Signatures(g, gens'[g], l, c)
      /\ mem'[q]["key"][1] = [gen |-> g, n |-> gens'[g]]
      /\ Len(mem'[q]["key"]) = gens'[g] + 1
  BY <1>1, <1>3 DEF Signatures
<1>6. \A i \in 1..gens'[g] : /\ mem'[q]["key"][i + 1] = l + 1
                             /\ Counts(g, i, IF i <= offset[q] THEN l + 1 ELSE l)'
  BY <1>1, <1>3, <1>4
<1> QED BY <1>3, <1>5, <1>6 DEF AnswerGoesOut

\* The signer that does not move keeps its counts.
LEMMA SignerCountStays ==
    ASSUME SignedInv, Grew, released' = released, dir'["key"] = dir["key"],
           NEW q \in Procs, SignerCount(q), cmd'[q] = cmd[q], step'[q] = step[q],
           offset'[q] = offset[q], mem'[q] = mem[q]
    PROVE  SignerCount(q)'
<1>1. TypeOK /\ offset[q] \in Int
  BY DEF SignedInv, ProcInv
<1>2. PICK d, k : d = dir["key"] /\ k = mem[q]["key"]
  OBVIOUS
<1>3. (Exact(d) => Exact(d)') /\ (Exact(k) => Exact(k)')
  BY <1>1, ExactStays
<1>4. Exact(dir["key"]) => Exact(dir["key"])'
  BY <1>2, <1>3
<1>5. Loose(q) => Loose(q)'
  BY <1>4 DEF Loose
<1>6. KeyGoesOut(q) => KeyGoesOut(q)'
  BY <1>2, <1>3 DEF KeyGoesOut, IsPrefixOf
<1>7. AnswerGoesOut(q) => AnswerGoesOut(q)'
  BY <1>1, AnswerStays
<1> QED BY <1>4, <1>5, <1>6, <1>7 DEF SignerCount

\* The one signer process.
LEMMA Alone ==
    ASSUME SignedInv, Undisturbed, NEW p \in Signers
    PROVE  Signers = {p} /\ scenario.kills = 0
<1>1. IsFiniteSet(Signers)
  BY ConstantsAssumption DEF SignedInv, WorldInv, Signers
<1>2. PICK x : Signers = {x}
  BY <1>1, FS_Singleton DEF Undisturbed
<1> QED BY <1>2 DEF Undisturbed

\* What a step of a signer still has to show.
LEMMA CountFrame ==
    ASSUME SignedInv, CountInv, Grew, NEW p \in Signers,
           IsFiniteSet(released'), kills' \in Nat,
           Undisturbed /\ SignerCount(p) => SignerCount(p)'
    PROVE  CountInv'
<1>1. Undisturbed' = Undisturbed /\ Signers' = Signers
  BY DEF Grew, Undisturbed, Signers
<1>2. ASSUME Undisturbed, NEW q \in Signers PROVE SignerCount(q)'
  BY <1>2, Alone DEF CountInv
<1> QED BY <1>1, <1>2 DEF CountInv

\* A step of the user process, or of none.
LEMMA UserFrame ==
    ASSUME SignedInv, CountInv, Grew, OnlyBy(User), released' = released,
           dir'["key"] = dir["key"], kills' \in Nat
    PROVE  CountInv'
<1>1. Undisturbed' = Undisturbed /\ Signers' = Signers
  BY DEF Grew, Undisturbed, Signers
<1>2. ASSUME Undisturbed, NEW q \in Signers PROVE SignerCount(q)'
  <2>1. q # User /\ q \in Procs
    BY ConstantsAssumption DEF SignedInv, WorldInv, Signers, Procs
  <2> QED BY <1>2, <2>1, SignerCountStays DEF CountInv, OnlyBy
<1> QED BY <1>1, <1>2 DEF CountInv

\* The user process touches neither the key nor what has been released.
LEMMA UserCounts ==
    ASSUME SignedInv, CountInv,
           \/ \E m \in Messages : Commit(User, m) \/ Verify(User, m)
           \/ ProveStart(User) \/ Prove(User) \/ VerifyStart(User)
           \/ Read(User) \/ OpenFile(User) \/ WriteWord(User) \/ Refuse(User) \/ Kill(User)
    PROVE  CountInv' /\ released' = released
<1>1. TypeOK /\ ProcInv(User) /\ User \in Procs
  BY DEF SignedInv, Procs
<1>2. mem \in [Procs -> [Files -> Seq(Word)]] /\ dir \in [Files -> Seq(Word)]
  BY <1>1 DEF TypeOK
<1>3. cmd[User] \in {"idle", "commit", "prove", "verify"} /\ step[User] \in Nat
  BY <1>1 DEF ProcInv, Commands
<1>4. kills \in Nat
  BY DEF CountInv
<1>5. ASSUME NEW c \in {"prove", "verify"}, Begin(User, c),
             UNCHANGED <<dir, step, offset, mem, world>>
      PROVE  CountInv' /\ released' = released
  <2>1. Grew /\ released' = released /\ dir' = dir /\ kills' = kills
    BY <1>5 DEF world, Grew
  <2>2. OnlyBy(User)
    BY <1>1, <1>5 DEF Begin, OnlyBy, TypeOK
  <2> QED BY <1>4, <2>1, <2>2, UserFrame
<1>6. ASSUME Exit(User), dir' = dir, gens' = gens, released' = released,
             scenario' = scenario, committed' = committed, kills' \in Nat
      PROVE  CountInv' /\ released' = released
  <2>1. Grew
    BY <1>6 DEF Grew
  <2>2. OnlyBy(User)
    BY <1>1, <1>6, <2>1, ExitFrame
  <2> QED BY <1>6, <2>1, <2>2, UserFrame
<1>7. ASSUME NEW m \in Messages, Commit(User, m)
      PROVE  CountInv' /\ released' = released
  <2>1. Grew /\ released' = released /\ dir' = dir /\ kills' = kills
    BY <1>7 DEF Commit, Grew
  <2>2. \A q \in Procs \ {User} : cmd'[q] = cmd[q]
    BY <1>1, <1>7 DEF Commit, Begin, TypeOK
  <2>3. \A q \in Procs \ {User} : step'[q] = step[q] /\ offset'[q] = offset[q]
    BY <1>1, <1>7 DEF Commit, TypeOK
  <2>4. \A q \in Procs \ {User} : mem'[q] = mem[q]
    BY <1>2, <1>7 DEF Commit
  <2>5. OnlyBy(User)
    BY <2>2, <2>3, <2>4 DEF OnlyBy
  <2> QED BY <1>4, <2>1, <2>5, UserFrame
<1>8. CASE ProveStart(User) \/ VerifyStart(User)
  BY <1>5, <1>8 DEF ProveStart, VerifyStart
<1>9. CASE Prove(User)
  <2>1. Grew /\ released' = released /\ dir' = dir /\ kills' = kills /\ cmd' = cmd
    BY <1>9 DEF Prove, world, Grew
  <2>2. \A q \in Procs \ {User} : step'[q] = step[q] /\ offset'[q] = offset[q]
    BY <1>1, <1>9 DEF Prove, TypeOK
  <2>3. \A q \in Procs \ {User} : mem'[q] = mem[q]
    BY <1>2, <1>9 DEF Prove
  <2>4. OnlyBy(User)
    BY <2>1, <2>2, <2>3 DEF OnlyBy
  <2> QED BY <1>4, <2>1, <2>4, UserFrame
<1>10. ASSUME NEW m \in Messages, Verify(User, m)
       PROVE  CountInv' /\ released' = released
  BY <1>4, <1>6, <1>10 DEF Verify
<1>11. CASE Read(User)
  <2>1. Grew /\ released' = released /\ dir' = dir /\ kills' = kills /\ cmd' = cmd
    BY <1>11 DEF Read, world, Grew
  <2>2. \A q \in Procs \ {User} : step'[q] = step[q] /\ offset'[q] = offset[q]
    BY <1>1, <1>11 DEF Read, world, TypeOK
  <2>3. \A q \in Procs \ {User} : mem'[q] = mem[q]
    BY <1>2, <1>11 DEF Read
  <2>4. OnlyBy(User)
    BY <2>1, <2>2, <2>3 DEF OnlyBy
  <2> QED BY <1>4, <2>1, <2>4, UserFrame
<1>12. CASE OpenFile(User)
  <2>1. Grew /\ released' = released /\ kills' = kills /\ cmd' = cmd /\ mem' = mem
    BY <1>12 DEF OpenFile, world, Grew
  <2>2. \A q \in Procs \ {User} : step'[q] = step[q] /\ offset'[q] = offset[q]
    BY <1>1, <1>12 DEF OpenFile, world, TypeOK
  <2>3. Target(User) # "key"
    BY <1>3, <1>12, Places DEF OpenFile, Writing
  <2>4. dir'["key"] = dir["key"]
    BY <1>2, <1>12, <2>3 DEF OpenFile, Files
  <2>5. OnlyBy(User)
    BY <2>1, <2>2 DEF OnlyBy
  <2> QED BY <1>4, <2>1, <2>4, <2>5, UserFrame
<1>13. CASE WriteWord(User)
  <2>1. Grew /\ UNCHANGED <<scenario, gens, kills, committed, accepted>>
    BY <1>1, <1>13, WriteIs
  <2>2. PICK f \in Files, k \in Nat \ {0}, w \in Word :
          /\ Writes(User, f) /\ WritesWord(User, f, k, w)
          /\ k \in 1..Len(mem[User][f]) /\ WordOk(f, k, w) /\ Writing(User)
    BY <1>1, <1>13, WriteIs
  <2>3. f # "key" /\ f # "sig"
    BY <1>3, <2>2 DEF Writes
  <2>4. dir'["key"] = dir["key"] /\ released' = released
    BY <2>2, <2>3 DEF WritesWord, Files
  <2>5. OnlyBy(User)
    <3>1. CASE Exit(User)
      BY <1>1, <2>1, <3>1, ExitFrame
    <3>2. CASE ~ Exit(User)
      BY <1>1, <2>2, <3>2 DEF WritesWord, OnlyBy, TypeOK
    <3> QED BY <3>1, <3>2
  <2> QED BY <1>4, <2>1, <2>4, <2>5, UserFrame
<1>14. CASE Refuse(User) \/ Kill(User)
  BY <1>4, <1>6, <1>14 DEF Refuse, Kill, world
<1> QED BY <1>7, <1>8, <1>9, <1>10, <1>11, <1>12, <1>13, <1>14

\* A fresh keygen has released nothing.
LEMMA KeygenCounts ==
    ASSUME SignedInv, GapInv, CountInv, NEW p \in Signers, NEW n \in 1..MaxSigners,
           Keygen(p, n)
    PROVE  CountInv' /\ released' = released
<1>1. TypeOK /\ ProcInv(p) /\ p \in Procs
  BY DEF SignedInv, Procs
<1>2. Grew /\ released' = released /\ dir' = dir /\ kills' = kills /\ offset' = offset
  BY DEF Keygen, Grew
<1>3. PICK g, key, pub : /\ g = Len(gens) + 1 /\ key = KeyFile(g, n)
                         /\ pub = PubWords(g, n)
  OBVIOUS
<1>4. g \in Nat /\ g >= 1 /\ n \in Nat /\ n >= 1
  BY <1>1, <1>3, ConstantsAssumption DEF TypeOK
<1>5. mem' = [mem EXCEPT ![p].key = key, ![p].pub = pub]
  BY <1>3 DEF Keygen, KeyFile
<1>6. mem'[p]["key"] = key
  <2>1. mem \in [Procs -> [Files -> Seq(Word)]]
    BY <1>1 DEF TypeOK
  <2>2. mem'[p] = [mem[p] EXCEPT !["key"] = key, !["pub"] = pub]
    BY <1>1, <1>5, <2>1
  <2> QED BY <1>1, <2>1, <2>2 DEF Files
<1>7. cmd'[p] = "keygen" /\ step'[p] = 1 /\ offset'[p] = -1
  <2>1. cmd'[p] = "keygen"
    BY <1>1 DEF Keygen, Begin, TypeOK
  <2>2. step'[p] = 1
    BY <1>1 DEF Keygen, TypeOK
  <2>3. offset[p] = -1
    BY <1>1 DEF Keygen, ProcInv
  <2> QED BY <1>2, <2>1, <2>2, <2>3
<1>8. /\ key # <<>> /\ key[1] = [gen |-> g, n |-> n] /\ Len(key) = n + 1
      /\ \A i \in 1..n : key[i + 1] = 0
  <2>1. /\ Len(key) = n + 1 /\ key[1] = [gen |-> g, n |-> n]
        /\ \A k \in 2..(n + 1) : key[k] = 0
    BY <1>3, <1>4, KeyWords
  <2>2. \A i \in 1..n : i + 1 \in 2..(n + 1)
    BY <1>4
  <2> QED BY <1>4, <2>1, <2>2
<1>9. g \in 1..Len(gens') /\ gens'[g] = n
  <2>1. gens \in Seq(1..MaxSigners) /\ gens' = Append(gens, n)
    BY <1>1 DEF TypeOK, Keygen
  <2> QED BY <1>3, <1>4, <2>1
<1>10. \A i \in 1..n : Counts(g, i, 0)'
  <2> SUFFICES ASSUME NEW i \in 1..n PROVE Counts(g, i, 0)'
    OBVIOUS
  <2>1. \A s \in released : s.gen # g
    <3>1. \A s \in released : s.gen \in Nat /\ s.gen <= Len(gens)
      BY <1>1, ConstantsAssumption DEF GapInv, TypeOK, Signature, Gen
    <3>2. Len(gens) \in Nat
      BY <1>1 DEF TypeOK
    <3> QED BY <1>3, <3>1, <3>2
  <2>2. Sigs(g, i)' = {}
    BY <1>2, <2>1 DEF Sigs
  <2> QED BY <2>2, FS_EmptySet DEF Counts
<1>11. Exact(key)'
  <2>1. \A i \in 1..n : key[i + 1] \in 0..Capacity /\ Counts(g, i, key[i + 1])'
    BY <1>8, <1>10, ConstantsAssumption DEF Counts, Sigs
  <2> QED BY <1>8, <1>9, <2>1 DEF Exact
<1>12. SignerCount(p)'
  <2>1. KeyGoesOut(p)'
    BY <1>6, <1>7, <1>11 DEF KeyGoesOut
  <2> QED BY <1>7, <2>1 DEF SignerCount
<1> QED BY <1>2, <1>12, CountFrame DEF CountInv

\* Starting, reading, truncating and refusing release nothing and keep the counts.
LEMMA SignerReads ==
    ASSUME SignedInv, CountInv, NEW p \in Signers,
           SignStart(p) \/ Read(p) \/ OpenFile(p) \/ Refuse(p) \/ Kill(p)
    PROVE  CountInv' /\ released' = released
<1>1. TypeOK /\ ProcInv(p) /\ p \in Procs /\ p # User
  BY ConstantsAssumption DEF SignedInv, WorldInv, Signers, Procs
<1>2. mem \in [Procs -> [Files -> Seq(Word)]] /\ dir \in [Files -> Seq(Word)]
  BY <1>1 DEF TypeOK
<1>3. cmd[p] \in {"idle", "keygen", "sign"} /\ step[p] \in Nat /\ offset[p] \in Int
  BY <1>1 DEF ProcInv, Commands
<1>4. kills \in Nat /\ IsFiniteSet(released)
  BY DEF CountInv
<1>5. PICK d, k : d = dir["key"] /\ k = mem[p]["key"]
  OBVIOUS
<1>6. ASSUME Grew, released' = released
      PROVE  (Exact(d) => Exact(d)') /\ (Exact(k) => Exact(k)')
  BY <1>1, <1>6, ExactStays
<1>7. CASE SignStart(p)
  <2>1. /\ Grew /\ released' = released /\ dir' = dir /\ kills' = kills
        /\ cmd[p] = "idle" /\ step' = step
    BY <1>7 DEF SignStart, world, Grew
  <2>2. cmd'[p] = "sign" /\ step'[p] = 0
    BY <1>1, <1>7, <2>1 DEF SignStart, Begin, TypeOK, ProcInv
  <2>3. ASSUME SignerCount(p) PROVE SignerCount(p)'
    <3>1. d = <<>> \/ Exact(d)
      BY <1>5, <2>1, <2>3 DEF SignerCount, Loose
    <3>2. dir'["key"] = d /\ (d = <<>> \/ Exact(d)')
      BY <1>5, <1>6, <2>1, <3>1
    <3>3. Loose(p)'
      BY <3>2 DEF Loose
    <3> QED BY <2>2, <3>3 DEF SignerCount
  <2> QED BY <1>4, <2>1, <2>3, CountFrame
<1>8. CASE Read(p)
  <2>1. Grew /\ released' = released /\ dir' = dir /\ kills' = kills /\ cmd' = cmd
    BY <1>8 DEF Read, world, Grew
  <2>2. PICK f : f = ReadsOf[cmd[p]][step[p] + 1]
    OBVIOUS
  <2>3. /\ cmd[p] = "sign"
        /\ \/ step[p] = 0 /\ f = "key"
           \/ step[p] = 1 /\ f = "com"
    BY <1>3, <1>8, <2>2, Places DEF Read, Reading
  <2>4. mem' = [mem EXCEPT ![p][f] = dir[f]]
    BY <1>8, <2>2 DEF Read
  <2>5. mem'[p]["key"] = IF f = "key" THEN d ELSE k
    BY <1>1, <1>2, <1>5, <2>3, <2>4 DEF Files
  <2>6. step'[p] = step[p] + 1
    BY <1>1, <1>8 DEF Read, TypeOK
  <2>7. f = "key" => d # <<>>
    <3>1. Wellformed(p, f, dir[f])
      BY <1>8, <2>2 DEF Read
    <3>2. f = "key" => KeyOk(d)
      BY <1>5, <3>1 DEF Wellformed
    <3> QED BY <3>2 DEF KeyOk
  <2>8. ASSUME SignerCount(p) PROVE SignerCount(p)'
    <3>1. step[p] = 0 => d = <<>> \/ Exact(d)
      BY <1>5, <2>3, <2>8 DEF SignerCount, Loose
    <3>2. step[p] = 1 => Exact(d) /\ k = d
      BY <1>5, <2>3, <2>8 DEF SignerCount
    <3>3. Exact(d)' /\ mem'[p]["key"] = d
      BY <1>6, <2>1, <2>3, <2>5, <2>7, <3>1, <3>2
    <3>4. Exact(dir["key"])' /\ mem'[p]["key"] = dir'["key"]
      BY <1>5, <2>1, <3>3
    <3>5. cmd'[p] = "sign" /\ step'[p] \in {1, 2}
      BY <2>1, <2>3, <2>6
    <3> QED BY <3>4, <3>5 DEF SignerCount
  <2> QED BY <1>4, <2>1, <2>8, CountFrame
<1>9. CASE OpenFile(p)
  <2>1. /\ Grew /\ released' = released /\ kills' = kills /\ cmd' = cmd /\ step' = step
        /\ mem' = mem
    BY <1>9 DEF OpenFile, world, Grew
  <2>2. offset[p] = -1 /\ offset'[p] = 0
    BY <1>1, <1>9 DEF OpenFile, TypeOK
  <2>3. PICK f : f = Target(p)
    OBVIOUS
  <2>4. \/ cmd[p] = "keygen" /\ step[p] = 1 /\ f = "key"
        \/ cmd[p] = "keygen" /\ step[p] = 2 /\ f = "pub"
        \/ cmd[p] = "sign" /\ step[p] = 3 /\ f = "sig"
        \/ cmd[p] = "sign" /\ step[p] = 4 /\ f = "key"
    BY <1>3, <1>9, <2>3, Places DEF OpenFile, Writing
  <2>5. dir'["key"] = IF f = "key" THEN <<>> ELSE d
    BY <1>2, <1>5, <1>9, <2>3, <2>4 DEF OpenFile, Files
  <2>6. ASSUME SignerCount(p) PROVE SignerCount(p)'
    <3>1. CASE f = "key"
      <4>1. KeyGoesOut(p)
        BY <2>4, <2>6, <3>1 DEF SignerCount
      <4>2. Exact(k)
        BY <1>5, <4>1 DEF KeyGoesOut
      <4>3. Exact(k)' /\ mem'[p]["key"] = k
        BY <1>5, <1>6, <2>1, <4>2
      <4>4. IsPrefixOf(dir["key"], offset[p], mem[p]["key"])'
        BY <2>2, <2>5, <3>1 DEF IsPrefixOf
      <4>5. KeyGoesOut(p)'
        BY <4>3, <4>4 DEF KeyGoesOut
      <4> QED BY <2>1, <2>4, <3>1, <4>5 DEF SignerCount
    <3>2. CASE f = "pub"
      <4>1. Exact(d)
        BY <1>5, <2>4, <2>6, <3>2 DEF SignerCount
      <4>2. Exact(d)' /\ dir'["key"] = d
        BY <1>6, <2>1, <2>5, <3>2, <4>1
      <4> QED BY <2>1, <2>4, <3>2, <4>2 DEF SignerCount
    <3>3. CASE f = "sig"
      <4>1. AnswerGoesOut(p)
        BY <2>4, <2>6, <3>3 DEF SignerCount
      <4>2. AnswerGoesOut(p)'
        BY <1>1, <2>1, <2>2, <4>1, AnswerStays
      <4> QED BY <2>1, <2>4, <3>3, <4>2 DEF SignerCount
    <3> QED BY <2>4, <3>1, <3>2, <3>3
  <2> QED BY <1>4, <2>1, <2>6, CountFrame
<1>10. CASE Refuse(p)
  <2>1. Grew /\ released' = released /\ dir' = dir /\ kills' = kills
    BY <1>10 DEF Refuse, world, Grew
  <2>2. cmd'[p] = "idle"
    BY <1>1, <1>10 DEF Refuse, Exit, TypeOK
  <2>3. cmd[p] = "sign" /\ step[p] \in {0, 1, 2}
    <3>1. Reading(p) => cmd[p] = "sign" /\ step[p] \in {0, 1}
      BY <1>3, Places DEF Reading
    <3>2. ReadAll(p, "sign") => cmd[p] = "sign" /\ step[p] = 2
      BY Tables DEF ReadAll
    <3>3. ~ ReadAll(p, "prove")
      BY <1>3 DEF ReadAll
    <3> QED BY <1>10, <3>1, <3>2, <3>3 DEF Refuse, Refused
  <2>4. ASSUME SignerCount(p) PROVE SignerCount(p)'
    <3>1. d = <<>> \/ Exact(d)
      BY <1>5, <2>3, <2>4 DEF SignerCount, Loose
    <3>2. dir'["key"] = d /\ (d = <<>> \/ Exact(d)')
      BY <1>5, <1>6, <2>1, <3>1
    <3>3. Loose(p)'
      BY <3>2 DEF Loose
    <3> QED BY <2>2, <3>3 DEF SignerCount
  <2> QED BY <1>4, <2>1, <2>4, CountFrame
<1>11. CASE Kill(p)
  <2>1. Grew /\ released' = released /\ kills' = kills + 1 /\ kills < scenario.kills
    BY <1>11 DEF Kill, Grew
  <2>2. ~ Undisturbed
    BY <1>4, <2>1 DEF Undisturbed
  <2> QED BY <1>4, <2>1, <2>2, CountFrame
<1> QED BY <1>7, <1>8, <1>9, <1>10, <1>11

\* cmd_sign prepares the next leaf of every co-signer and the counters for it.
LEMMA SignCounts ==
    ASSUME SignedInv, CountInv, NEW p \in Signers, Sign(p)
    PROVE  CountInv' /\ released' = released
<1>1. TypeOK /\ ProcInv(p) /\ p \in Procs
  BY DEF SignedInv, Procs
<1>2. /\ Grew /\ gens' = gens /\ released' = released /\ dir' = dir /\ kills' = kills
      /\ committed' = committed /\ cmd' = cmd /\ offset' = offset
  BY DEF Sign, world, Grew
<1>3. cmd[p] = "sign" /\ step[p] = 2
  BY Tables DEF Sign, ReadAll
<1>4. PICK g \in 1..Len(gens), l \in 0..(Capacity - 1), c \in 1..Len(committed) :
          /\ mem[p]["key"] \in Seq(Word) /\ FileOk("key", mem[p]["key"])
          /\ mem[p]["key"][1] = [gen |-> g, n |-> gens[g]]
          /\ Len(mem[p]["key"]) = gens[g] + 1 /\ gens[g] \in 1..MaxSigners
          /\ gens[g] >= 1 /\ gens[g] \in Nat
          /\ \A i \in 1..gens[g] : Counter(mem[p]["key"], i) = l
          /\ mem[p]["com"][1] = c
          /\ mem' = [mem EXCEPT ![p].sig = Signatures(g, gens[g], l, c),
                                ![p].key = Advanced(mem[p]["key"])]
  BY <1>1, SignIs
<1>5. PICK n, key, sig, adv : /\ n = gens[g] /\ key = mem[p]["key"]
                              /\ sig = Signatures(g, n, l, c) /\ adv = Advanced(key)
  OBVIOUS
<1>6. mem' = [mem EXCEPT ![p].sig = sig, ![p].key = adv]
  BY <1>4, <1>5
<1>7. step'[p] = 3 /\ mem'[p]["sig"] = sig /\ mem'[p]["key"] = adv
  <2>1. mem \in [Procs -> [Files -> Seq(Word)]]
    BY <1>1 DEF TypeOK
  <2>2. mem'[p] = [mem[p] EXCEPT !["sig"] = sig, !["key"] = adv]
    BY <1>1, <1>6, <2>1
  <2>3. mem'[p]["sig"] = sig /\ mem'[p]["key"] = adv
    BY <1>1, <2>1, <2>2 DEF Files
  <2>4. step'[p] = 3
    BY <1>1, <1>3 DEF TypeOK, Sign
  <2> QED BY <2>3, <2>4
<1>8. /\ Len(adv) = n + 1 /\ adv[1] = [gen |-> g, n |-> n]
      /\ \A i \in 1..n : adv[i + 1] = l + 1
  <2>1. \A i \in 1..n : Counter(key, i) = l /\ Counter(key, i) \in Nat
    BY <1>4, <1>5, ConstantsAssumption
  <2>2. key \in Seq(Word) /\ Len(key) = n + 1 /\ n \in Nat /\ n >= 1
    BY <1>4, <1>5
  <2>3. /\ Len(Advanced(key)) = n + 1 /\ Advanced(key)[1] = key[1]
        /\ \A i \in 1..n : Advanced(key)[i + 1] = Counter(key, i) + 1
    BY <2>1, <2>2, AdvancedIs
  <2> QED BY <1>4, <1>5, <2>1, <2>3
<1>9. offset[p] = -1
  <2>1. ~ Writing(p)
    BY <1>3, Places
  <2> QED BY <1>1, <2>1 DEF ProcInv
<1>10. ASSUME SignerCount(p) PROVE SignerCount(p)'
  <2>1. Exact(key)
    BY <1>3, <1>5, <1>10 DEF SignerCount
  <2>2. PICK h \in 1..Len(gens) :
          /\ key # <<>> /\ key[1] = [gen |-> h, n |-> gens[h]] /\ Len(key) = gens[h] + 1
          /\ \A i \in 1..gens[h] : key[i + 1] \in 0..Capacity /\ Counts(h, i, key[i + 1])
    BY <2>1 DEF Exact
  <2>3. h = g
    BY <1>4, <1>5, <2>2
  <2>4. \A i \in 1..n : key[i + 1] = l /\ Counts(g, i, l)
    <3> SUFFICES ASSUME NEW i \in 1..n PROVE key[i + 1] = l /\ Counts(g, i, l)
      OBVIOUS
    <3>1. PICK v : v = key[i + 1]
      OBVIOUS
    <3>2. v \in 0..Capacity /\ Counts(g, i, v)
      BY <1>5, <2>2, <2>3, <3>1
    <3>3. l = IF v = Hole THEN 0 ELSE v
      BY <1>4, <1>5, <3>1 DEF Counter
    <3>4. v = Hole => v = 0
      BY <3>2, HoleAssumption, ConstantsAssumption
    <3> QED BY <3>1, <3>2, <3>3, <3>4
  <2>5. \A i \in 1..n : Counts(g, i, IF i <= offset[p] THEN l + 1 ELSE l)'
    <3> SUFFICES ASSUME NEW i \in 1..n
                 PROVE  Counts(g, i, IF i <= offset[p] THEN l + 1 ELSE l)'
      OBVIOUS
    <3>1. ~ (i <= offset'[p])
      BY <1>2, <1>9
    <3>2. Counts(g, i, l)'
      BY <1>2, <2>4, CountsStays
    <3> QED BY <3>1, <3>2 DEF Counts, Sigs
  <2>6. gens'[g] = n /\ g \in 1..Len(gens') /\ c \in 1..Len(committed')
    BY <1>2, <1>5
  <2>7. mem'[p]["sig"] = Signatures(g, gens'[g], l, c)
    BY <1>5, <1>7, <2>6
  <2>8. /\ mem'[p]["key"][1] = [gen |-> g, n |-> gens'[g]]
        /\ Len(mem'[p]["key"]) = gens'[g] + 1
        /\ \A i \in 1..gens'[g] : /\ mem'[p]["key"][i + 1] = l + 1
                                  /\ Counts(g, i, IF i <= offset[p] THEN l + 1 ELSE l)'
    BY <1>7, <1>8, <2>5, <2>6
  <2>9. AnswerGoesOut(p)'
    BY <2>6, <2>7, <2>8 DEF AnswerGoesOut
  <2> QED BY <1>2, <1>3, <1>7, <2>9 DEF SignerCount
<1> QED BY <1>2, <1>10, CountFrame DEF CountInv

\* One more signature of signer i, above all the others.
LEMMA CountsMore ==
    ASSUME TypeOK, IsFiniteSet(released), NEW s, released' = released \cup {s},
           NEW g, NEW l \in Nat, Counts(g, s.idx, l), s.gen = g, s.leaf = l
    PROVE  Counts(g, s.idx, l + 1)'
<1>1. PICK S : S = Sigs(g, s.idx)
  OBVIOUS
<1>2. Cardinality(S) = l /\ \A t \in S : t.leaf < l
  BY <1>1 DEF Counts
<1>3. s \notin S
  BY <1>2
<1>4. IsFiniteSet(S)
  <2>1. S \in SUBSET released
    BY <1>1 DEF Sigs
  <2> QED BY <2>1, FS_Subset
<1>5. Cardinality(S \cup {s}) = l + 1
  BY <1>2, <1>3, <1>4, FS_AddElement
<1>6. Sigs(g, s.idx)' = S \cup {s}
  BY <1>1 DEF Sigs
<1>7. \A t \in S \cup {s} : t.leaf < l + 1
  <2> SUFFICES ASSUME NEW t \in S \cup {s} PROVE t.leaf < l + 1
    OBVIOUS
  <2>1. CASE t \in S
    <3>1. t.leaf < l
      BY <1>2, <2>1
    <3>2. t.leaf \in Int
      BY <1>1, <2>1, ConstantsAssumption DEF Sigs, TypeOK, Signature
    <3> QED BY <3>1, <3>2
  <2>2. CASE t = s
    BY <2>2
  <2> QED BY <2>1, <2>2
<1> QED BY <1>5, <1>6, <1>7 DEF Counts

\* The others' counters are not concerned.
LEMMA CountsOther ==
    ASSUME NEW s, released' = released \cup {s}, NEW g, NEW i, NEW v,
           Counts(g, i, v), s.gen # g \/ s.idx # i
    PROVE  Counts(g, i, v)'
<1>1. Sigs(g, i)' = Sigs(g, i)
  BY DEF Sigs
<1> QED BY <1>1 DEF Counts

\* A word of xmss_sig.bin adds one signature; its counter waits in memory and
\* is stored afterwards.
LEMMA SignerWrites ==
    ASSUME SignedInv, CountInv, NEW p \in Signers, WriteWord(p)
    PROVE  CountInv'
<1>1. TypeOK /\ ProcInv(p) /\ p \in Procs /\ p # User
  BY ConstantsAssumption DEF SignedInv, WorldInv, Signers, Procs
<1>2. mem \in [Procs -> [Files -> Seq(Word)]] /\ dir \in [Files -> Seq(Word)]
  BY <1>1 DEF TypeOK
<1>3. cmd[p] \in {"idle", "keygen", "sign"} /\ step[p] \in Nat /\ offset[p] \in Int
  BY <1>1 DEF ProcInv, Commands
<1>4. Grew /\ UNCHANGED <<scenario, gens, kills, committed, accepted>>
  BY <1>1, WriteIs
<1>5. PICK f \in Files, k \in Nat \ {0}, w \in Word :
          /\ Writes(p, f) /\ WritesWord(p, f, k, w)
          /\ k \in 1..Len(mem[p][f]) /\ WordOk(f, k, w) /\ Writing(p)
  BY <1>1, WriteIs
<1>6. \/ cmd[p] = "keygen" /\ step[p] = 1 /\ f = "key"
      \/ cmd[p] = "keygen" /\ step[p] = 2 /\ f = "pub"
      \/ cmd[p] = "sign" /\ step[p] = 3 /\ f = "sig"
      \/ cmd[p] = "sign" /\ step[p] = 4 /\ f = "key"
  BY <1>3, <1>5 DEF Writes
<1>7. kills' \in Nat /\ IsFiniteSet(released)
  BY <1>4 DEF CountInv
<1>8. PICK d, key : d = dir["key"] /\ key = mem[p]["key"]
  OBVIOUS
<1>9. d \in Seq(Word) /\ key \in Seq(Word)
  BY <1>1, <1>2, <1>8 DEF Files
<1>10. k = offset[p] + 1 /\ offset[p] >= 0
  BY <1>3, <1>5 DEF WritesWord
<1>11. CASE f = "key"
  <2>1. released' = released
    BY <1>5, <1>11 DEF WritesWord
  <2>2. ASSUME SignerCount(p) PROVE SignerCount(p)'
    <3>1. KeyGoesOut(p)
      BY <1>6, <1>11, <2>2 DEF SignerCount
    <3>2. Exact(key)' /\ IsPrefixOf(d, offset[p], key)
      <4>1. Exact(key) /\ IsPrefixOf(d, offset[p], key)
        BY <1>8, <1>10, <3>1 DEF KeyGoesOut
      <4> QED BY <1>1, <1>4, <2>1, <4>1, ExactStays
    <3>3. PICK new : new = WriteAt(d, k, w)
      OBVIOUS
    <3>4. Wrote(new, d, k, w) /\ new \in Seq(Word)
      <4>1. Hole \in Word
        BY DEF Word, BaseWord
      <4>2. Wrote(WriteAt(d, k, w), d, k, w) /\ WriteAt(d, k, w) \in Seq(Word)
        BY <1>9, <4>1, WriteAtSeq, Zenon
      <4> QED BY <3>3, <4>2
    <3>5. dir'["key"] = new /\ w = key[k]
      BY <1>5, <1>8, <1>11, <3>3 DEF WritesWord
    <3>6. IsPrefixOf(new, k, key)
      <4>1. Len(d) = offset[p] /\ \A i \in 1..offset[p] : d[i] = key[i]
        BY <3>2 DEF IsPrefixOf
      <4>2. Len(new) = k
        BY <1>10, <3>4, <4>1 DEF Wrote
      <4>3. \A i \in 1..k : new[i] = key[i]
        <5> SUFFICES ASSUME NEW i \in 1..k PROVE new[i] = key[i]
          OBVIOUS
        <5>1. CASE i = k
          BY <3>4, <3>5, <5>1 DEF Wrote
        <5>2. CASE i # k
          <6>1. i \in 1..offset[p] /\ i \in 1..Len(d)
            BY <1>3, <1>10, <4>1, <5>2
          <6> QED BY <3>4, <4>1, <5>2, <6>1 DEF Wrote
        <5> QED BY <5>1, <5>2
      <4> QED BY <4>2, <4>3 DEF IsPrefixOf
    <3>7. CASE /\ offset' = [offset EXCEPT ![p] = k]
               /\ cmd' = cmd /\ step' = step /\ mem' = mem
      <4>1. offset'[p] = k /\ mem'[p]["key"] = key
        BY <1>1, <1>8, <3>7 DEF TypeOK
      <4>2. KeyGoesOut(p)'
        BY <3>2, <3>5, <3>6, <4>1 DEF KeyGoesOut, IsPrefixOf
      <4> QED BY <1>6, <1>11, <3>7, <4>2 DEF SignerCount
    <3>8. CASE k = Len(mem[p][f])
      <4>1. new = key
        <5>1. Len(new) = k /\ \A i \in 1..k : new[i] = key[i]
          BY <3>6 DEF IsPrefixOf
        <5>2. Len(key) = k
          BY <1>8, <1>11, <3>8
        <5> QED BY <1>9, <3>4, <5>1, <5>2, SeqEqual
      <4>2. Exact(dir["key"])'
        BY <3>2, <3>5, <4>1
      <4>3. CASE step[p] \in {1, 3} /\ step' = [step EXCEPT ![p] = @ + 1] /\ cmd' = cmd
        <5>1. cmd[p] = "keygen" /\ step[p] = 1
          BY <1>6, <1>11, <4>3
        <5>2. cmd'[p] = "keygen" /\ step'[p] = 2
          BY <1>1, <4>3, <5>1 DEF TypeOK
        <5> QED BY <4>2, <5>2 DEF SignerCount
      <4>4. CASE Exit(p)
        <5>1. cmd'[p] = "idle"
          BY <1>1, <4>4 DEF Exit, TypeOK
        <5> QED BY <4>2, <5>1 DEF SignerCount, Loose
      <4>5. CASE /\ offset' = [offset EXCEPT ![p] = k]
                 /\ cmd' = cmd /\ step' = step /\ mem' = mem
        BY <3>7, <4>5
      <4> QED BY <1>5, <4>3, <4>4, <4>5 DEF WritesWord
    <3> QED BY <1>5, <3>7, <3>8 DEF WritesWord
  <2> QED BY <1>4, <1>7, <2>1, <2>2, CountFrame
<1>12. CASE f = "pub"
  <2>1. released' = released /\ dir'["key"] = d
    BY <1>5, <1>8, <1>12 DEF WritesWord, Files
  <2>2. ASSUME SignerCount(p) PROVE SignerCount(p)'
    <3>1. Exact(d)
      BY <1>6, <1>8, <1>12, <2>2 DEF SignerCount
    <3>2. Exact(dir["key"])'
      <4>1. Exact(d)'
        BY <1>1, <1>4, <2>1, <3>1, ExactStays
      <4> QED BY <2>1, <4>1
    <3>3. \/ cmd'[p] = "keygen" /\ step'[p] = 2
          \/ cmd'[p] = "idle"
      <4>1. CASE Exit(p)
        BY <1>1, <4>1 DEF Exit, TypeOK
      <4>2. CASE ~ Exit(p)
        BY <1>5, <1>6, <1>12, <4>2 DEF WritesWord
      <4> QED BY <4>1, <4>2
    <3> QED BY <3>2, <3>3 DEF SignerCount, Loose
  <2> QED BY <1>4, <1>7, <2>1, <2>2, CountFrame
<1>13. CASE f = "sig"
  <2>1. released' = released \cup {w} /\ cmd[p] = "sign" /\ step[p] = 3
    BY <1>5, <1>6, <1>13 DEF WritesWord
  <2>2. IsFiniteSet(released')
    BY <1>7, <2>1, FS_AddElement
  <2>3. ASSUME SignerCount(p) PROVE SignerCount(p)'
    <3>1. AnswerGoesOut(p)
      BY <2>1, <2>3 DEF SignerCount
    <3>2. PICK g \in 1..Len(gens), l \in 0..(Capacity - 1), c \in 1..Len(committed) :
            /\ mem[p]["sig"] = Signatures(g, gens[g], l, c)
            /\ key[1] = [gen |-> g, n |-> gens[g]] /\ Len(key) = gens[g] + 1
            /\ \A i \in 1..gens[g] : /\ key[i + 1] = l + 1
                                     /\ Counts(g, i, IF i <= offset[p] THEN l + 1 ELSE l)
      BY <1>8, <3>1 DEF AnswerGoesOut
    <3>3. PICK n, sig : n = gens[g] /\ sig = mem[p]["sig"]
      OBVIOUS
    <3>4. n \in Nat /\ n >= 1
      <4>1. gens \in Seq(1..MaxSigners)
        BY <1>1 DEF TypeOK
      <4>2. gens[g] \in 1..MaxSigners
        BY <4>1, ElementOfSeq
      <4> QED BY <3>3, <4>2
    <3>5. /\ sig = [i \in 1..n |-> [gen |-> g, idx |-> i, leaf |-> l, com |-> c]]
          /\ Len(sig) = n
      BY <3>2, <3>3, <3>4 DEF Signatures
    <3>6. w = sig[k] /\ k \in 1..n
      BY <1>5, <1>13, <3>3, <3>5 DEF WritesWord
    <3>7. w.gen = g /\ w.idx = k /\ w.leaf = l /\ l \in Nat
      BY <3>5, <3>6, ConstantsAssumption
    <3>8. \A i \in 1..n : Counts(g, i, IF i <= k THEN l + 1 ELSE l)'
      <4> SUFFICES ASSUME NEW i \in 1..n PROVE Counts(g, i, IF i <= k THEN l + 1 ELSE l)'
        OBVIOUS
      <4>1. Counts(g, i, IF i <= offset[p] THEN l + 1 ELSE l)
        BY <3>2, <3>3
      <4>2. CASE i = k
        <5>1. Counts(g, w.idx, l)
          BY <1>3, <1>10, <3>7, <4>1, <4>2
        <5>2. Counts(g, w.idx, l + 1)'
          BY <1>1, <1>7, <2>1, <3>7, <5>1, CountsMore
        <5> QED BY <3>7, <4>2, <5>2
      <4>3. CASE i # k
        <5>1. PICK v : v = IF i <= k THEN l + 1 ELSE l
          OBVIOUS
        <5>2. v = IF i <= offset[p] THEN l + 1 ELSE l
          BY <1>3, <1>10, <4>3, <5>1
        <5>3. Counts(g, i, v)
          BY <4>1, <5>2
        <5>4. Counts(g, i, v)'
          BY <2>1, <3>7, <4>3, <5>3, CountsOther
        <5> QED BY <5>1, <5>4
      <4> QED BY <4>2, <4>3
    <3>9. g \in 1..Len(gens') /\ gens'[g] = n /\ c \in 1..Len(committed')
      BY <1>4, <3>3
    <3>10. CASE /\ offset' = [offset EXCEPT ![p] = k]
                /\ cmd' = cmd /\ step' = step /\ mem' = mem
      <4>1. offset'[p] = k /\ mem'[p]["key"] = key /\ mem'[p]["sig"] = sig
        BY <1>1, <1>8, <3>3, <3>10 DEF TypeOK
      <4>2. mem'[p]["sig"] = Signatures(g, gens'[g], l, c)
        BY <3>2, <3>3, <3>9, <4>1
      <4>3. \A i \in 1..gens'[g] : Counts(g, i, IF i <= offset[p] THEN l + 1 ELSE l)'
        BY <3>8, <3>9, <4>1 DEF Counts, Sigs
      <4>4. /\ mem'[p]["key"][1] = [gen |-> g, n |-> gens'[g]]
            /\ Len(mem'[p]["key"]) = gens'[g] + 1
            /\ \A i \in 1..gens'[g] : mem'[p]["key"][i + 1] = l + 1
        BY <3>2, <3>3, <3>9, <4>1
      <4>5. AnswerGoesOut(p)'
        BY <3>9, <4>2, <4>3, <4>4 DEF AnswerGoesOut
      <4> QED BY <2>1, <3>10, <4>5 DEF SignerCount
    <3>11. CASE /\ k = Len(mem[p][f]) /\ offset' = [offset EXCEPT ![p] = -1]
                /\ step' = [step EXCEPT ![p] = @ + 1] /\ cmd' = cmd /\ mem' = mem
      <4>1. offset'[p] = -1 /\ step'[p] = 4 /\ cmd'[p] = "sign" /\ mem'[p]["key"] = key
        BY <1>1, <1>8, <2>1, <3>11 DEF TypeOK
      <4>2. k = n
        BY <1>13, <3>3, <3>5, <3>11
      <4>3. \A i \in 1..n : key[i + 1] \in 0..Capacity /\ Counts(g, i, key[i + 1])'
        <5> SUFFICES ASSUME NEW i \in 1..n
                     PROVE  key[i + 1] \in 0..Capacity /\ Counts(g, i, key[i + 1])'
          OBVIOUS
        <5>1. key[i + 1] = l + 1
          BY <3>2, <3>3
        <5>2. Counts(g, i, l + 1)'
          BY <3>4, <3>8, <4>2
        <5> QED BY <3>7, <5>1, <5>2, ConstantsAssumption
      <4>4. Exact(key)'
        <5>1. key # <<>> /\ key[1] = [gen |-> g, n |-> n] /\ Len(key) = n + 1
          BY <3>2, <3>3, <3>4
        <5> QED BY <3>9, <4>3, <5>1 DEF Exact
      <4>5. KeyGoesOut(p)'
        BY <4>1, <4>4 DEF KeyGoesOut
      <4> QED BY <4>1, <4>5 DEF SignerCount
    <3> QED BY <1>5, <2>1, <3>10, <3>11 DEF WritesWord
  <2> QED BY <1>4, <1>7, <2>2, <2>3, CountFrame
<1> QED BY <1>6, <1>11, <1>12, <1>13

\* Nothing is released and no key is there at the start.
LEMMA CountInit == Init => CountInv
<1> SUFFICES ASSUME Init PROVE CountInv
  OBVIOUS
<1>1. released = {} /\ kills = 0 /\ \A p \in Signers : cmd[p] = "idle" /\ dir["key"] = <<>>
  BY DEF Init, Procs, NoFiles, Files
<1> QED BY <1>1, FS_EmptySet DEF CountInv, SignerCount, Loose

\* Every step keeps CountInv.
LEMMA CountNext == SignedInv /\ GapInv /\ CountInv /\ [Next]_vars => CountInv'
<1> SUFFICES ASSUME SignedInv, GapInv, CountInv, [Next]_vars PROVE CountInv'
  OBVIOUS
<1>1. ASSUME NEW p \in Signers, NEW n \in 1..MaxSigners, Keygen(p, n) PROVE CountInv'
  BY <1>1, KeygenCounts
<1>2. ASSUME NEW p \in Signers, Sign(p) PROVE CountInv'
  BY <1>2, SignCounts
<1>3. ASSUME NEW p \in Signers,
             SignStart(p) \/ Read(p) \/ OpenFile(p) \/ Refuse(p) \/ Kill(p)
      PROVE  CountInv'
  BY <1>3, SignerReads
<1>4. ASSUME NEW p \in Signers, WriteWord(p) PROVE CountInv'
  BY <1>4, SignerWrites
<1>5. CASE \/ \E m \in Messages : Commit(User, m) \/ Verify(User, m)
           \/ ProveStart(User) \/ Prove(User) \/ VerifyStart(User)
           \/ Read(User) \/ OpenFile(User) \/ WriteWord(User) \/ Refuse(User) \/ Kill(User)
  BY <1>5, UserCounts
<1>6. CASE UNCHANGED vars
  <2>1. Grew /\ released' = released /\ dir' = dir /\ kills' = kills
    BY <1>6 DEF vars, Grew
  <2>2. OnlyBy(User)
    BY <1>6 DEF vars, OnlyBy
  <2> QED BY <2>1, <2>2, UserFrame DEF CountInv
<1> QED BY <1>1, <1>2, <1>3, <1>4, <1>5, <1>6 DEF Next, Procs

\* One signer process that nothing disturbs: between commands every counter of
\* signer_key.bin is the number of signatures that its co-signer has released.
THEOREM CountersAreExact == Spec => []CountersCount
<1>1. SignedInv /\ CountInv => CountersCount
  <2> SUFFICES ASSUME SignedInv, CountInv, Undisturbed,
                      \A p \in Signers : cmd[p] = "idle", dir["key"] # <<>>
               PROVE  \A i \in 1..dir["key"][1].n :
                          Counter(dir["key"], i) = Cardinality({s \in released :
                              s.gen = dir["key"][1].gen /\ s.idx = i})
    BY DEF CountersCount
  <2>1. PICK p : p \in Signers
    <3>1. IsFiniteSet(Signers)
      BY ConstantsAssumption DEF SignedInv, WorldInv, Signers
    <3> QED BY <3>1, FS_Singleton DEF Undisturbed
  <2>2. PICK d : d = dir["key"]
    OBVIOUS
  <2>3. Exact(d)
    BY <2>1, <2>2 DEF CountInv, SignerCount, Loose
  <2>4. PICK g \in 1..Len(gens) :
          /\ d[1] = [gen |-> g, n |-> gens[g]]
          /\ \A i \in 1..gens[g] : d[i + 1] \in 0..Capacity /\ Counts(g, i, d[i + 1])
    BY <2>3 DEF Exact
  <2>5. ASSUME NEW i \in 1..gens[g]
        PROVE  Counter(d, i) = Cardinality({s \in released : s.gen = g /\ s.idx = i})
    <3>1. PICK v : v = d[i + 1]
      OBVIOUS
    <3>2. v \in 0..Capacity /\ Cardinality(Sigs(g, i)) = v
      BY <2>4, <3>1 DEF Counts
    <3>3. v = Hole => v = 0
      BY <3>2, HoleAssumption, ConstantsAssumption
    <3>4. Counter(d, i) = v
      BY <3>1, <3>3 DEF Counter
    <3> QED BY <3>2, <3>4 DEF Sigs
  <2>6. d[1].gen = g /\ d[1].n = gens[g]
    BY <2>4
  <2> QED BY <2>2, <2>5, <2>6
<1> QED BY <1>1, SignedInit, SignedNext, GapInit, GapNext, CountInit, CountNext, PTL DEF Spec

-----------------------------------------------------------------------------
(* Each co-signer is a one-time signer                                     *)

\* The leaf of a signature that leaves is above those of its co-signer's others.
LEMMA ReleaseIs ==
    ASSUME SignedInv, CountInv, Undisturbed, NEW p \in Signers, WriteWord(p)
    PROVE  \/ released' = released
           \/ \E w \in Signature : /\ released' = released \cup {w}
                                   /\ \A s \in Sigs(w.gen, w.idx) : s.leaf < w.leaf
<1>1. TypeOK /\ ProcInv(p) /\ p \in Procs
  BY DEF SignedInv, Procs
<1>2. PICK f \in Files, k \in Nat \ {0}, w \in Word :
          /\ Writes(p, f) /\ WritesWord(p, f, k, w)
          /\ k \in 1..Len(mem[p][f]) /\ WordOk(f, k, w) /\ Writing(p)
  BY <1>1, WriteIs
<1>3. CASE f # "sig"
  BY <1>2, <1>3 DEF WritesWord
<1>4. CASE f = "sig"
  <2>1. released' = released \cup {w} /\ cmd[p] = "sign" /\ step[p] = 3
    BY <1>2, <1>4 DEF WritesWord, Writes
  <2>2. AnswerGoesOut(p)
    BY <2>1 DEF CountInv, SignerCount
  <2>3. PICK g \in 1..Len(gens), l \in 0..(Capacity - 1), c \in 1..Len(committed) :
          /\ mem[p]["sig"] = Signatures(g, gens[g], l, c)
          /\ \A i \in 1..gens[g] : Counts(g, i, IF i <= offset[p] THEN l + 1 ELSE l)
    BY <2>2 DEF AnswerGoesOut
  <2>4. PICK n, sig : n = gens[g] /\ sig = mem[p]["sig"]
    OBVIOUS
  <2>5. n \in Nat
    <3>1. gens \in Seq(1..MaxSigners)
      BY <1>1 DEF TypeOK
    <3>2. gens[g] \in 1..MaxSigners
      BY <3>1, ElementOfSeq
    <3> QED BY <2>4, <3>2
  <2>6. /\ sig = [i \in 1..n |-> [gen |-> g, idx |-> i, leaf |-> l, com |-> c]]
        /\ Len(sig) = n
    BY <2>3, <2>4, <2>5 DEF Signatures
  <2>7. w = sig[k] /\ k \in 1..n /\ k = offset[p] + 1
    BY <1>2, <1>4, <2>4, <2>6 DEF WritesWord
  <2>8. w = [gen |-> g, idx |-> k, leaf |-> l, com |-> c]
    BY <2>6, <2>7
  <2>9. w \in Signature
    <3>1. IsSig(w)
      <4>1. \A j \in 1..Len(mem[p]["sig"]) : IsSig(mem[p]["sig"][j])
        BY <1>1, <2>1 DEF ProcInv, Known
      <4> QED BY <2>4, <2>6, <2>7, <4>1
    <3> QED BY <3>1 DEF IsSig
  <2>10. ~ (k <= offset[p])
    BY <1>1, <2>7 DEF ProcInv
  <2>11. Counts(g, k, l)
    BY <2>3, <2>4, <2>7, <2>10
  <2> QED BY <2>1, <2>8, <2>9, <2>11 DEF Counts
<1> QED BY <1>3, <1>4

\* A signature above the others of its co-signer is an Issue of OneTimeSigner.
LEMMA IssuedMore ==
    ASSUME NEW w \in Signature, released' = released \cup {w},
           \A s \in Sigs(w.gen, w.idx) : s.leaf < w.leaf, NEW g \in Gen, NEW i \in Index
    PROVE  Cosigner(g, i)!Next \/ Issued(g, i)' = Issued(g, i)
<1>1. CASE w.gen = g /\ w.idx = i
  <2>1. Issued(g, i)' = Issued(g, i) \cup {[kid |-> g, leaf |-> w.leaf, com |-> w.com]}
    BY <1>1 DEF Issued
  <2>2. \A s \in Issued(g, i) : s.leaf < w.leaf
    BY <1>1 DEF Issued, Sigs
  <2>3. w.leaf \in 0..(Capacity - 1) /\ w.com \in 1..MaxCommits
    BY DEF Signature
  <2>4. Cosigner(g, i)!Issue(g, w.leaf, w.com)
    BY <2>1, <2>2 DEF Cosigner!Issue
  <2> QED BY <2>3, <2>4 DEF Cosigner!Next
<1>2. CASE ~ (w.gen = g /\ w.idx = i)
  BY <1>2 DEF Issued
<1> QED BY <1>1, <1>2

\* Every step of an undisturbed tool is a step or a stutter of OneTimeSigner.
LEMMA OneTimeNext ==
    ASSUME SignedInv, GapInv, CountInv, [Next]_vars, Undisturbed,
           NEW g \in Gen, NEW i \in Index
    PROVE  Cosigner(g, i)!Next \/ Issued(g, i)' = Issued(g, i)
<1>1. ASSUME released' = released PROVE Issued(g, i)' = Issued(g, i)
  BY <1>1 DEF Issued
<1>2. ASSUME NEW p \in Signers, WriteWord(p)
      PROVE  Cosigner(g, i)!Next \/ Issued(g, i)' = Issued(g, i)
  <2>1. CASE released' = released
    BY <1>1, <2>1
  <2>2. CASE \E w \in Signature : /\ released' = released \cup {w}
                                  /\ \A s \in Sigs(w.gen, w.idx) : s.leaf < w.leaf
    BY <2>2, IssuedMore
  <2> QED BY <1>2, <2>1, <2>2, ReleaseIs
<1>3. ASSUME NEW p \in Signers, NEW n \in 1..MaxSigners, Keygen(p, n)
      PROVE  released' = released
  BY <1>3, KeygenCounts
<1>4. ASSUME NEW p \in Signers, Sign(p) PROVE released' = released
  BY <1>4, SignCounts
<1>5. ASSUME NEW p \in Signers,
             SignStart(p) \/ Read(p) \/ OpenFile(p) \/ Refuse(p) \/ Kill(p)
      PROVE  released' = released
  BY <1>5, SignerReads
<1>6. CASE \/ \E m \in Messages : Commit(User, m) \/ Verify(User, m)
           \/ ProveStart(User) \/ Prove(User) \/ VerifyStart(User)
           \/ Read(User) \/ OpenFile(User) \/ WriteWord(User) \/ Refuse(User) \/ Kill(User)
  BY <1>1, <1>6, UserCounts
<1>7. CASE UNCHANGED vars
  BY <1>1, <1>7 DEF vars
<1> QED BY <1>1, <1>2, <1>3, <1>4, <1>5, <1>6, <1>7 DEF Next, Procs

\* One signer process that nothing disturbs: every co-signer of every keygen
\* steps as OneTimeSigner, on ever higher leaves.
THEOREM CosignersNeverReuse == Spec => CosignersAreOneTime
<1>1. SignedInv /\ GapInv /\ CountInv /\ [Next]_vars =>
          [Undisturbed => \A g \in Gen, i \in Index :
              Cosigner(g, i)!Next \/ UNCHANGED Issued(g, i)]_vars
  BY OneTimeNext
<1> QED BY <1>1, SignedInit, SignedNext, GapInit, GapNext, CountInit, CountNext, PTL
        DEF Spec, CosignersAreOneTime
=============================================================================
