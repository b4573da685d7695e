---------------------------- MODULE KkwCliProofs ----------------------------
(***************************************************************************)
(* Proofs about KkwCli, for any scenarios, messages, leaves, key pairs and *)
(* commitments: types are preserved, every blind signature is backed by a  *)
(* released signature of its key on its message, and the counter of an     *)
(* undisturbed signer counts the signatures of its key.                    *)
(***************************************************************************)
EXTENDS KkwCli, FiniteSetTheorems, TLAPS

-----------------------------------------------------------------------------
(* Types                                                                   *)

Com == 1..MaxCommits
KeyOf == [kid : Kid, next : 0..Capacity]
SigOf == [kid : Kid, leaf : 0..(Capacity - 1), com : Com]
BlindSigOf == [kid : Kid, msg : Messages]

\* A file, in the directory or in memory: absent, or holding one value of S.
File(S) == {{}} \cup {{x} : x \in S}

Artefacts == [key : File(KeyOf), pub : File(Kid), com : File(Com),
              state : File(Com), sig : File(SigOf), bsig : File(BlindSigOf)]

SignerSteps == {"gen_key", "gen_pub", "sign_key", "sign_com", "sign_tree",
                "sign_sig", "sign_next"}
UserSteps == {"com_com", "com_state", "prove_state", "prove_pub", "prove_sig",
              "prove_check", "prove_out", "verify_pub", "verify_sig"}

TypeOK ==
    /\ scenario \in Scenarios
    /\ dir \in Artefacts
    /\ pc \in [Procs -> {"idle"} \cup SignerSteps \cup UserSteps]
    /\ mem \in [Procs -> Artefacts]
    /\ filling \in SUBSET Procs
    /\ kids \in 0..scenario.keys
    /\ kills \in 0..scenario.kills
    /\ committed \in Seq(Messages) /\ Len(committed) <= MaxCommits
    /\ released \in SUBSET SigOf
    /\ accepted \in SUBSET BlindSigOf

-----------------------------------------------------------------------------
(* Inductive invariants                                                    *)

\* Keygen and sign run in signer processes only, the rest in the user's;
\* write_file is under way only at its own steps.
RoleInv ==
    /\ pc[User] \notin SignerSteps
    /\ \A p \in Signers : pc[p] \notin UserSteps
    /\ \A p \in filling : pc[p] \in WriteSteps

\* Commitments and keys that appear anywhere have been drawn.
Drawn(a, coms, keys) ==
    /\ a.com \cup a.state \subseteq 1..coms
    /\ \A s \in a.sig : s.com \in 1..coms /\ s.kid <= keys
    /\ \A k \in a.key : k.kid <= keys

DrawnInv ==
    /\ Drawn(dir, Len(committed), kids)
    /\ \A p \in Procs : Drawn(mem[p], Len(committed), kids)
    /\ \A s \in released : s.com \in 1..Len(committed) /\ s.kid <= kids

\* A blind signature of some key on the message that s's commitment opens to.
Backed(b) == \E s \in released : s.kid = b.kid /\ Opening(s.com) = b.msg

\* Every signature outside sign is released, every blind signature backed.
BackedInv ==
    /\ dir.sig \subseteq released
    /\ \A p \in Procs : pc[p] # "sign_sig" => mem[p].sig \subseteq released
    /\ \A b \in dir.bsig \cup accepted : Backed(b)
    /\ \A p \in Procs : \A b \in mem[p].bsig : Backed(b)

IInv == TypeOK /\ RoleInv /\ DrawnInv /\ BackedInv

-----------------------------------------------------------------------------
(* Each action preserves the invariant                                     *)

USE DEF At, Goto, world, Signers, Procs

\* A process that holds nothing holds artefacts of the right types.
LEMMA NothingType == Nothing \in Artefacts
BY DEF Nothing, Artefacts, File

\* A process that begins a command.
LEMMA StartStep ==
    ASSUME IInv, NEW p \in Procs,
           \/ p \in Signers /\ SignStart(p)
           \/ p = User /\ (ProveStart(p) \/ VerifyStart(p))
    PROVE  IInv'
<1> USE DEF IInv, SignStart, ProveStart, VerifyStart
<1>1. p = User \/ p # User
  OBVIOUS
<1>2. TypeOK'
  BY DEF TypeOK, SignerSteps, UserSteps
<1>3. RoleInv'
  BY ConstantsAssumption DEF RoleInv, TypeOK, SignerSteps, UserSteps, WriteSteps, Target
<1>4. DrawnInv' /\ BackedInv'
  BY DEF DrawnInv, Drawn, BackedInv, Backed, Opening, TypeOK
<1>5. QED
  BY <1>2, <1>3, <1>4

\* A process that reads an artefact.
LEMMA ReadStep ==
    ASSUME IInv, NEW p \in Procs,
           \/ p \in Signers /\ (SignKey(p) \/ SignCom(p))
           \/ p = User /\ \/ ProveState(p) \/ ProvePub(p) \/ ProveSig(p)
                          \/ VerifyPub(p)
    PROVE  IInv'
<1> USE DEF IInv, SignKey, SignCom, ProveState, ProvePub, ProveSig, VerifyPub,
            Read
<1>1. /\ UNCHANGED <<scenario, dir, filling, kids, kills, committed, released,
                     accepted>>
      /\ p \notin filling
      /\ \E f \in {"key", "com", "state", "pub", "sig"} :
            mem' = [mem EXCEPT ![p][f] = dir[f]]
      /\ pc[p] # "sign_sig"
      /\ \/ /\ p \in Signers
            /\ pc' = [pc EXCEPT ![p] = "sign_com"]
               \/ pc' = [pc EXCEPT ![p] = "sign_tree"]
         \/ /\ p = User
            /\ \E there \in {"prove_pub", "prove_sig", "prove_check",
                             "verify_sig"} : pc' = [pc EXCEPT ![p] = there]
  BY DEF RoleInv, WriteSteps, Target
<1>2. /\ mem'[p] \in Artefacts /\ mem'[p].bsig = mem[p].bsig
      /\ mem'[p].key \in {mem[p].key, dir.key}
      /\ mem'[p].com \in {mem[p].com, dir.com}
      /\ mem'[p].state \in {mem[p].state, dir.state}
      /\ mem'[p].sig \in {mem[p].sig, dir.sig}
      /\ mem' \in [Procs -> Artefacts]
      /\ \A q \in Procs : q # p => mem'[q] = mem[q]
  BY <1>1 DEF TypeOK, Artefacts
<1> HIDE DEF SignKey, SignCom, ProveState, ProvePub, ProveSig, VerifyPub
<1>3. TypeOK'
  BY <1>1, <1>2 DEF TypeOK, SignerSteps, UserSteps
<1>4. RoleInv'
  BY <1>1, ConstantsAssumption DEF RoleInv, TypeOK, SignerSteps, UserSteps
<1>5. DrawnInv'
  BY <1>1, <1>2 DEF DrawnInv, Drawn
<1>6. BackedInv'
  BY <1>1, <1>2 DEF BackedInv, Backed, Opening, TypeOK
<1>7. QED
  BY <1>3, <1>4, <1>5, <1>6

\* A process that ends its command without writing.
LEMMA EndStep ==
    ASSUME IInv, NEW p \in Procs,
           Refuse(p) \/ Kill(p) \/ (\E m \in Messages : VerifySig(p, m))
    PROVE  IInv'
<1>1. /\ Exit(p)
      /\ UNCHANGED <<scenario, dir, kids, committed, released>>
      /\ kills' = kills \/ (kills < scenario.kills /\ kills' = kills + 1)
      /\ accepted' \subseteq accepted \cup dir.bsig
  <2>1. CASE Refuse(p)
    BY <2>1 DEF Refuse
  <2>2. CASE Kill(p)
    BY <2>2 DEF Kill
  <2>3. CASE \E m \in Messages : VerifySig(p, m)
    BY <2>3 DEF VerifySig
  <2>4. QED
    BY <2>1, <2>2, <2>3
<1> USE DEF IInv, Exit
<1>2. scenario.kills \in Nat
  BY ConstantsAssumption DEF TypeOK
<1>3. TypeOK'
  BY <1>1, <1>2, NothingType DEF TypeOK, Artefacts, File
<1>4. RoleInv'
  BY <1>1 DEF RoleInv, TypeOK, SignerSteps, UserSteps
<1>5. DrawnInv'
  BY <1>1 DEF DrawnInv, Drawn, Nothing, TypeOK
<1>6. BackedInv'
  BY <1>1 DEF BackedInv, Backed, Opening, TypeOK, Nothing
<1>7. QED
  BY <1>3, <1>4, <1>5, <1>6

\* keygen draws a key pair that no one has drawn.
LEMMA KeygenStep ==
    ASSUME IInv, NEW p \in Signers, Keygen(p)
    PROVE  IInv'
<1> USE DEF IInv, Keygen
<1>1. /\ {Key(kids + 1, 0)} \in File(KeyOf) /\ {kids + 1} \in File(Kid)
      /\ kids \in Nat /\ kids + 1 \in 0..scenario.keys
      /\ Key(kids + 1, 0).kid = kids + 1
  <2>1. scenario.keys \in 0..MaxKeys /\ kids \in 0..scenario.keys
    BY ConstantsAssumption DEF TypeOK
  <2>2. kids \in Nat /\ kids + 1 \in 0..scenario.keys /\ kids + 1 \in Kid
    BY <2>1, ConstantsAssumption DEF Kid
  <2>3. Key(kids + 1, 0) \in KeyOf
    BY <2>2, ConstantsAssumption DEF Key, KeyOf
  <2>4. QED
    BY <2>2, <2>3 DEF File, Key
<1>2. /\ mem'[p].key = {Key(kids + 1, 0)} /\ mem'[p] \in Artefacts
      /\ mem'[p].com = mem[p].com /\ mem'[p].state = mem[p].state
      /\ mem'[p].sig = mem[p].sig /\ mem'[p].bsig = mem[p].bsig
      /\ \A q \in Procs : q # p => mem'[q] = mem[q]
      /\ mem' \in [Procs -> Artefacts]
  BY <1>1 DEF TypeOK, Artefacts
<1>3. TypeOK'
  BY <1>1, <1>2 DEF TypeOK, SignerSteps
<1>4. RoleInv'
  BY ConstantsAssumption DEF RoleInv, TypeOK, SignerSteps, UserSteps,
     WriteSteps, Target
<1>5. \A a \in Artefacts : Drawn(a, Len(committed), kids)
         => Drawn(a, Len(committed), kids + 1)
  BY <1>1, ConstantsAssumption
  DEF Drawn, Artefacts, File, KeyOf, SigOf, Kid
<1>6. DrawnInv'
  <2>1. Drawn(mem'[p], Len(committed'), kids')
    <3>1. Drawn(mem[p], Len(committed), kids + 1)
      BY <1>5 DEF DrawnInv, TypeOK
    <3>2. QED
      BY <1>1, <1>2, <3>1 DEF Drawn
  <2>2. \A s \in released' : s.com \in 1..Len(committed') /\ s.kid <= kids'
    BY <1>1, ConstantsAssumption DEF DrawnInv, TypeOK, SigOf, Kid
  <2>3. Drawn(dir', Len(committed'), kids')
    BY <1>5 DEF DrawnInv, TypeOK
  <2>4. \A q \in Procs : q # p => Drawn(mem'[q], Len(committed'), kids')
    BY <1>2, <1>5 DEF DrawnInv, TypeOK
  <2>5. QED
    BY <2>1, <2>2, <2>3, <2>4 DEF DrawnInv
<1>7. BackedInv'
  BY <1>2 DEF BackedInv, Backed, Opening, TypeOK
<1>8. QED
  BY <1>3, <1>4, <1>6, <1>7

\* sign makes a signature on the commitment it read; it is not out yet.
LEMMA SignTreeStep ==
    ASSUME IInv, NEW p \in Signers, SignTree(p)
    PROVE  IInv'
<1> USE DEF IInv, SignTree
<1>1. PICK k \in mem[p].key, c \in mem[p].com :
         /\ k.next < Capacity
         /\ mem' = [mem EXCEPT ![p].sig = {Sig(k, c)},
                               ![p].key = {Key(k.kid, k.next + 1)}]
  OBVIOUS
<1>2. k \in KeyOf /\ c \in Com
  BY DEF TypeOK, Artefacts, File
<1>3. {Sig(k, c)} \in File(SigOf) /\ {Key(k.kid, k.next + 1)} \in File(KeyOf)
  BY <1>1, <1>2, ConstantsAssumption DEF File, SigOf, KeyOf, Sig, Key
<1>4. /\ mem'[p].key = {Key(k.kid, k.next + 1)} /\ mem'[p].sig = {Sig(k, c)}
      /\ mem'[p] \in Artefacts
      /\ mem'[p].com = mem[p].com /\ mem'[p].state = mem[p].state
      /\ mem'[p].bsig = mem[p].bsig
      /\ \A q \in Procs : q # p => mem'[q] = mem[q]
      /\ mem' \in [Procs -> Artefacts]
  BY <1>1, <1>3 DEF TypeOK, Artefacts
<1>5. TypeOK'
  BY <1>4 DEF TypeOK, SignerSteps
<1>6. RoleInv'
  BY ConstantsAssumption DEF RoleInv, TypeOK, SignerSteps, UserSteps,
     WriteSteps, Target
<1>7. DrawnInv'
  <2>1. scenario' = scenario /\ dir' = dir /\ kids' = kids /\ committed' = committed /\ released' = released
    OBVIOUS
  <2>2. Drawn(mem[p], Len(committed), kids)
    BY DEF DrawnInv
  <2>3. Drawn(mem'[p], Len(committed), kids)
    BY <1>1, <1>4, <2>2 DEF Drawn, Sig, Key
  <2>4. DrawnInv
    OBVIOUS
  <2> HIDE DEF IInv, SignTree
  <2> QED BY <1>4, <2>1, <2>3, <2>4 DEF DrawnInv, Drawn
<1>8. BackedInv'
  <2>1. /\ scenario' = scenario /\ dir' = dir /\ committed' = committed /\ released' = released
        /\ accepted' = accepted /\ pc' = [pc EXCEPT ![p] = "sign_sig"]
    OBVIOUS
  <2>2. BackedInv /\ pc \in [Procs -> {"idle"} \cup SignerSteps \cup UserSteps]
    BY DEF TypeOK
  <2> HIDE DEF IInv, SignTree
  <2>3. \A q \in Procs : q # p => pc'[q] = pc[q] /\ mem'[q] = mem[q]
    BY <1>4, <2>1, <2>2
  <2>4. pc'[p] = "sign_sig"
    BY <2>1, <2>2
  <2> QED BY <1>4, <2>1, <2>2, <2>3, <2>4 DEF BackedInv, Backed, Opening
<1>9. QED
  BY <1>5, <1>6, <1>7, <1>8

\* Appending a commitment leaves the earlier ones as they were.
LEMMA CommitStep ==
    ASSUME IInv, NEW m \in Messages, Commit(User, m)
    PROVE  IInv'
<1> USE DEF IInv, Commit
<1>1. /\ committed' \in Seq(Messages) /\ Len(committed) \in Nat
      /\ Len(committed') = Len(committed) + 1 /\ Len(committed') <= MaxCommits
      /\ \A n \in 1..Len(committed) : committed'[n] = committed[n]
      /\ 1..Len(committed) \subseteq 1..Len(committed')
      /\ FreshCom \in 1..Len(committed')
  BY ConstantsAssumption DEF TypeOK, FreshCom
<1>2. {FreshCom} \in File(Com)
  BY <1>1, ConstantsAssumption DEF File, Com
<1>3. /\ mem'[User].com = {FreshCom} /\ mem'[User].state = {FreshCom}
      /\ mem'[User] \in Artefacts
      /\ mem'[User].key = mem[User].key /\ mem'[User].sig = mem[User].sig
      /\ mem'[User].bsig = mem[User].bsig
      /\ \A q \in Procs : q # User => mem'[q] = mem[q]
      /\ mem' \in [Procs -> Artefacts]
  BY <1>2 DEF TypeOK, Artefacts
<1>4. TypeOK'
  BY <1>1, <1>3 DEF TypeOK, UserSteps
<1>5. RoleInv'
  BY ConstantsAssumption DEF RoleInv, TypeOK, SignerSteps, UserSteps,
     WriteSteps, Target
<1>6. DrawnInv'
  BY <1>1, <1>3 DEF DrawnInv, Drawn
<1>7. ASSUME NEW b, Backed(b) PROVE Backed(b)'
  BY <1>1, <1>7 DEF Backed, Opening, DrawnInv
<1>8. BackedInv'
  BY <1>3, <1>7 DEF BackedInv, TypeOK
<1>9. QED
  BY <1>4, <1>5, <1>6, <1>8

\* prove: the response it checked is released, is on the commitment it opens
\* and under the key it names: both are single values.
LEMMA ProveCheckStep ==
    ASSUME IInv, ProveCheck(User)
    PROVE  IInv'
<1> USE DEF IInv, ProveCheck
<1>1. PICK s \in mem[User].sig : s.kid \in mem[User].pub /\ s.com \in mem[User].state
  BY DEF SignatureValid
<1>2. /\ mem[User].pub = {s.kid} /\ mem[User].state = {s.com}
      /\ s.kid \in Kid
  BY <1>1 DEF TypeOK, Artefacts, File
<1>3. s \in released
  BY <1>1 DEF BackedInv
<1>4. committed[s.com] \in Messages
  BY <1>3 DEF DrawnInv, TypeOK
<1> DEFINE b == BlindSig(s.kid, committed[s.com])
<1>5. {b} \in File(BlindSigOf) /\ b.kid = s.kid /\ b.msg = committed[s.com]
  BY <1>2, <1>4 DEF File, BlindSigOf, BlindSig
<1> DEFINE proof == {BlindSig(k, Opening(c)) :
                        k \in mem[User].pub, c \in mem[User].state}
<1>6. proof = {b} /\ mem' = [mem EXCEPT ![User].bsig = proof]
  BY <1>2 DEF Opening
<1> HIDE DEF b, proof
<1>7. /\ mem'[User].bsig = {b} /\ mem'[User] \in Artefacts
      /\ mem'[User].key = mem[User].key /\ mem'[User].sig = mem[User].sig
      /\ mem'[User].com = mem[User].com /\ mem'[User].state = mem[User].state
      /\ \A q \in Procs : q # User => mem'[q] = mem[q]
      /\ mem' \in [Procs -> Artefacts]
  BY <1>5, <1>6 DEF TypeOK, Artefacts
<1>8. TypeOK'
  BY <1>7 DEF TypeOK, UserSteps
<1>9. RoleInv'
  BY ConstantsAssumption DEF RoleInv, TypeOK, SignerSteps, UserSteps,
     WriteSteps, Target
<1>10. DrawnInv'
  BY <1>7 DEF DrawnInv, Drawn
<1>11. Backed(b)
  BY <1>3, <1>5 DEF Backed, Opening
<1>12. BackedInv'
  <2>1. /\ scenario' = scenario /\ dir' = dir /\ committed' = committed
        /\ released' = released /\ accepted' = accepted
    OBVIOUS
  <2>2. BackedInv /\ \A q \in Procs : pc'[q] # "sign_sig" => pc[q] # "sign_sig" \/ q = User
    BY DEF TypeOK
  <2>3. pc[User] # "sign_sig"
    BY DEF RoleInv, SignerSteps
  <2>4. \A x : Backed(x) => Backed(x)'
    BY <2>1 DEF Backed, Opening
  <2> HIDE DEF IInv
  <2>5. \A q \in Procs : pc'[q] # "sign_sig" => mem'[q].sig \subseteq released
    BY <1>7, <2>2, <2>3 DEF BackedInv
  <2>6. \A q \in Procs : \A x \in mem'[q].bsig : Backed(x)
    BY <1>7, <1>11, <2>2 DEF BackedInv
  <2> QED BY <2>1, <2>2, <2>4, <2>5, <2>6 DEF BackedInv
<1>13. QED
  BY <1>8, <1>9, <1>10, <1>12

\* A write_file truncates its artefact.
LEMMA OpenFileStep ==
    ASSUME IInv, NEW p \in Procs, OpenFile(p)
    PROVE  IInv'
<1> USE DEF IInv, OpenFile
<1>1. /\ dir' \in Artefacts
      /\ \A f \in {"key", "com", "state", "sig", "bsig"} :
            dir'[f] = dir[f] \/ dir'[f] = {}
  BY DEF TypeOK, Artefacts, File, WriteSteps, Target
<1>2. TypeOK'
  BY <1>1 DEF TypeOK
<1>3. RoleInv'
  BY DEF RoleInv
<1>4. DrawnInv'
  BY <1>1 DEF DrawnInv, Drawn
<1>5. BackedInv'
  BY <1>1 DEF BackedInv, Backed, Opening
<1>6. QED
  BY <1>2, <1>3, <1>4, <1>5

\* What a write_file does when it fills its artefact: the response, and no
\* other artefact, is released.
LEMMA FillEffect ==
    ASSUME IInv, NEW p \in Procs, FillFile(p)
    PROVE  /\ pc[p] \in WriteSteps
           /\ dir' = [dir EXCEPT ![Target[pc[p]]] = mem[p][Target[pc[p]]]]
           /\ released' = IF pc[p] = "sign_sig" THEN released \cup mem[p].sig
                                                ELSE released
           /\ pc' = [pc EXCEPT ![p] = AfterWrite[pc[p]]]
           /\ mem' = mem \/ mem' = [mem EXCEPT ![p] = Nothing]
           /\ filling' = filling \ {p}
           /\ UNCHANGED <<scenario, kids, kills, committed, accepted>>
BY DEF IInv, RoleInv, TypeOK, FillFile, Exit

\* A write_file fills its artefact and the command goes on or returns.
LEMMA FillFileStep ==
    ASSUME IInv, NEW p \in Procs, FillFile(p)
    PROVE  IInv'
<1> USE FillEffect DEF IInv
<1>1. /\ dir' \in Artefacts
      /\ \A f \in {"key", "com", "state", "sig", "bsig"} :
            dir'[f] = dir[f] \/ dir'[f] = mem[p][f]
      /\ dir'.sig = dir.sig \/ (pc[p] = "sign_sig" /\ dir'.sig = mem[p].sig)
  BY DEF TypeOK, Artefacts, WriteSteps, Target
<1>2. /\ mem' \in [Procs -> Artefacts]
      /\ \A q \in Procs : mem'[q] = mem[q] \/ mem'[q] = Nothing
      /\ \A q \in Procs : q # p => mem'[q] = mem[q] /\ pc'[q] = pc[q]
  BY NothingType DEF TypeOK
<1>3. /\ pc[p] \in SignerSteps => pc'[p] \in {"idle"} \cup SignerSteps
      /\ pc[p] \in UserSteps => pc'[p] \in {"idle"} \cup UserSteps
      /\ pc[p] \in SignerSteps \cup UserSteps
      /\ pc'[p] # "sign_sig"
  BY DEF TypeOK, WriteSteps, Target, AfterWrite, SignerSteps, UserSteps
<1>4. /\ released \subseteq released' /\ released' \subseteq released \cup mem[p].sig
      /\ pc[p] = "sign_sig" => mem[p].sig \subseteq released'
  OBVIOUS
<1>5. mem[p].sig \subseteq SigOf
  BY DEF TypeOK, Artefacts, File
<1>6. TypeOK'
  <2>1. pc' \in [Procs -> {"idle"} \cup SignerSteps \cup UserSteps]
    BY <1>3 DEF TypeOK
  <2>2. released' \in SUBSET SigOf
    BY <1>4, <1>5 DEF TypeOK
  <2>3. filling' \in SUBSET Procs
    BY DEF TypeOK
  <2>4. UNCHANGED <<scenario, kids, kills, committed, accepted>>
    OBVIOUS
  <2> HIDE FillEffect DEF IInv
  <2> QED BY <1>1, <1>2, <2>1, <2>2, <2>3, <2>4 DEF IInv, TypeOK, SigOf, BlindSigOf
<1>7. RoleInv'
  BY <1>2, <1>3 DEF RoleInv, TypeOK, SignerSteps, UserSteps
<1>8. DrawnInv'
  BY <1>1, <1>2, <1>4 DEF DrawnInv, Drawn, Nothing
<1>9. BackedInv'
  <2>1. \A b : Backed(b) => Backed(b)'
    BY <1>4 DEF Backed, Opening
  <2>2. dir'.sig \subseteq released'
    BY <1>1, <1>4 DEF BackedInv
  <2>3. \A q \in Procs : pc'[q] # "sign_sig" => mem'[q].sig \subseteq released'
    BY <1>2, <1>4 DEF BackedInv, Nothing
  <2>4. \A b \in dir'.bsig \cup accepted' : Backed(b)'
    BY <1>1, <2>1 DEF BackedInv
  <2>5. \A q \in Procs : \A b \in mem'[q].bsig : Backed(b)'
    BY <1>2, <2>1 DEF BackedInv, Nothing
  <2>6. QED
    BY <2>2, <2>3, <2>4, <2>5 DEF BackedInv
<1>10. QED
  BY <1>6, <1>7, <1>8, <1>9

-----------------------------------------------------------------------------
(* The invariant                                                           *)

\* An empty directory and idle processes.
LEMMA IInvInit == Init => IInv
<1> SUFFICES ASSUME Init PROVE IInv
  OBVIOUS
<1> USE DEF Init
<1>1. scenario.keys \in Nat /\ scenario.kills \in Nat
  BY ConstantsAssumption
<1>2. committed \in Seq(Messages) /\ Len(committed) = 0
  OBVIOUS
<1>3. TypeOK
  BY <1>1, <1>2, NothingType, ConstantsAssumption DEF TypeOK
<1>4. RoleInv
  BY DEF RoleInv, SignerSteps, UserSteps
<1>5. DrawnInv /\ BackedInv
  BY <1>2 DEF DrawnInv, Drawn, BackedInv, Nothing
<1>6. QED
  BY <1>3, <1>4, <1>5 DEF IInv

\* Every step preserves the invariant.
LEMMA IInvNext == IInv /\ [Next]_vars => IInv'
<1> SUFFICES ASSUME IInv, [Next]_vars PROVE IInv'
  OBVIOUS
<1>1. ASSUME NEW p \in Signers, SignerStep(p) PROVE IInv'
  BY <1>1, StartStep, ReadStep, KeygenStep, SignTreeStep DEF SignerStep
<1>2. ASSUME UserStep(User) PROVE IInv'
  BY <1>2, StartStep, ReadStep, CommitStep, ProveCheckStep, EndStep
  DEF UserStep
<1>3. ASSUME NEW p \in Procs, OpenFile(p) \/ FillFile(p) \/ Refuse(p) \/ Kill(p)
      PROVE  IInv'
  BY <1>3, OpenFileStep, FillFileStep, EndStep
<1>4. ASSUME UNCHANGED vars PROVE IInv'
  BY <1>4 DEF vars, IInv, TypeOK, RoleInv, DrawnInv, Drawn, BackedInv, Backed,
     Opening
<1>5. QED
  BY <1>1, <1>2, <1>3, <1>4 DEF Next

\* The invariant holds in every reachable state.
LEMMA Invariance == Spec => []IInv
BY IInvInit, IInvNext, PTL DEF Spec

(***************************************************************************)
(* Type correctness: in particular no signature is on a leaf at or above   *)
(* the capacity of its key (the exhaustion test of blind_signer_sign), and *)
(* every blind signature is on a message that was committed to.            *)
(***************************************************************************)
THEOREM KkwTypeCorrect == Spec => []TypeOK
<1>1. IInv => TypeOK
  BY DEF IInv
<1>2. QED
  BY <1>1, Invariance, PTL

(***************************************************************************)
(* Whatever is interrupted or interleaved, every readable blind_sig.bin    *)
(* and every message that verify passed is backed by a released signature  *)
(* of that key on a commitment to that message (xmss_verify in cmd_prove,  *)
(* blind_verify_sig in cmd_verify of cli.c).                               *)
(***************************************************************************)
THEOREM EveryBlindSigBacked == Spec => []BlindSigBacked
<1>1. IInv => BlindSigBacked
  BY DEF IInv, BackedInv, Backed, BlindSigBacked
<1>2. QED
  BY <1>1, Invariance, PTL

-----------------------------------------------------------------------------
(* The counter of an undisturbed signer                                    *)

\* The key k has signed with exactly the leaves below its counter.
Issued(kid) == {s \in released : s.kid = kid}
Counted(k) ==
    /\ k.next = Cardinality(Issued(k.kid))
    /\ \A s \in Issued(k.kid) : s.leaf < k.next

CountInv ==
    /\ IsFiniteSet(released)
    /\ Undisturbed =>
          /\ LeafUsedOnce
          /\ \A p \in Signers :
                /\ pc[p] # "sign_next" => \A k \in dir.key : Counted(k)
                /\ pc[p] \in {"gen_key", "sign_com", "sign_tree", "sign_next"}
                      => \A k \in mem[p].key : Counted(k)
                /\ pc[p] = "sign_sig" =>
                      \A s \in mem[p].sig :
                         /\ Counted(Key(s.kid, s.leaf))
                         /\ mem[p].key = {Key(s.kid, s.leaf + 1)}
                /\ pc[p] = "sign_sig" => mem[p].sig # {}

\* An undisturbed tool has one signer process and kills no command.
LEMMA OneSigner ==
    ASSUME IInv, Undisturbed, NEW p \in Signers
    PROVE  Signers = {p} /\ ~ (kills < scenario.kills)
<1>1. IsFiniteSet(Signers)
  BY ConstantsAssumption DEF IInv, TypeOK
<1>2. \E x : Signers = {x}
  BY <1>1, FS_Singleton DEF Undisturbed
<1>3. scenario.kills = 0 /\ kills \in 0..0
  BY DEF Undisturbed, IInv, TypeOK
<1>4. QED
  BY <1>2, <1>3

\* The next signature of a counted key: it is on a fresh leaf, the key with
\* the advanced counter is counted, and every other key stays as it was.
LEMMA CountedNext ==
    ASSUME IInv, IsFiniteSet(released), LeafUsedOnce, NEW s \in SigOf,
           Counted(Key(s.kid, s.leaf)), released' = released \cup {s}
    PROVE  /\ IsFiniteSet(released') /\ LeafUsedOnce'
           /\ Counted(Key(s.kid, s.leaf + 1))'
<1> s.leaf \in Nat /\ \A t \in released : t.leaf \in Nat
  BY ConstantsAssumption DEF IInv, TypeOK, SigOf
<1>1. \A t \in released : t.kid = s.kid => t.leaf < s.leaf
  BY DEF Counted, Issued, Key
<1>2. s \notin Issued(s.kid) /\ s.leaf = Cardinality(Issued(s.kid))
  BY DEF Counted, Issued, Key
<1>3. Issued(s.kid)' = Issued(s.kid) \cup {s}
  BY DEF Issued
<1>4. IsFiniteSet(Issued(s.kid))
  BY FS_Subset DEF Issued
<1>5. Cardinality(Issued(s.kid)') = s.leaf + 1
  BY <1>2, <1>3, <1>4, FS_AddElement
<1>6. IsFiniteSet(released')
  BY FS_AddElement
<1>7. LeafUsedOnce'
  BY <1>1 DEF LeafUsedOnce
<1>8. \A t \in Issued(s.kid)' : t.leaf < s.leaf + 1
  BY <1>1 DEF Issued
<1>9. QED
  BY <1>5, <1>6, <1>7, <1>8 DEF Counted, Key

\* A step that touches neither the signer nor its key.
LEMMA CountElsewhere ==
    ASSUME CountInv, UNCHANGED <<scenario, released>>,
           dir'.key \subseteq dir.key,
           \A p \in Signers : pc'[p] = pc[p] /\ mem'[p] = mem[p]
    PROVE  CountInv'
<1>1. \A k : Counted(k) => Counted(k)'
  BY DEF Counted, Issued
<1>2. LeafUsedOnce => LeafUsedOnce'
  BY DEF LeafUsedOnce
<1>3. Undisturbed' <=> Undisturbed
  BY DEF Undisturbed
<1>4. QED
  BY <1>1, <1>2, <1>3 DEF CountInv

\* The user's commands.
LEMMA CountUserStep ==
    ASSUME IInv, CountInv,
           UserStep(User) \/ OpenFile(User) \/ FillFile(User) \/ Refuse(User)
           \/ Kill(User)
    PROVE  CountInv'
<1>1. UNCHANGED scenario
  BY DEF UserStep, Commit, ProveStart, ProveState, ProvePub, ProveSig,
     ProveCheck, VerifyStart, VerifyPub, VerifySig, Read, OpenFile, FillFile,
     Refuse, Kill
<1>2. User \notin Signers
  BY ConstantsAssumption DEF IInv, TypeOK
<1>3. \A p \in Signers : pc'[p] = pc[p] /\ mem'[p] = mem[p]
  BY <1>2 DEF UserStep, Commit, ProveStart, ProveState, ProvePub, ProveSig,
     ProveCheck, VerifyStart, VerifyPub, VerifySig, Read, OpenFile, FillFile,
     Refuse, Kill, Exit, IInv, TypeOK
<1>4. UNCHANGED released /\ dir'.key \subseteq dir.key
  <2>1. CASE UserStep(User) \/ Refuse(User) \/ Kill(User)
    BY <2>1 DEF UserStep, Commit, ProveStart, ProveState, ProvePub, ProveSig,
       ProveCheck, VerifyStart, VerifyPub, VerifySig, Read, Refuse, Kill
  <2>2. CASE OpenFile(User)
    BY <2>2 DEF OpenFile, IInv, TypeOK, Artefacts, WriteSteps, Target
  <2>3. CASE FillFile(User)
    <3>1. pc[User] \in {"com_com", "com_state", "prove_out"}
      BY <2>3, FillEffect DEF IInv, RoleInv, SignerSteps, WriteSteps, Target
    <3>2. Target[pc[User]] \in {"com", "state", "bsig"} /\ UNCHANGED released
      BY <2>3, <3>1, FillEffect DEF Target
    <3>3. QED
      BY <2>3, <3>2, FillEffect DEF IInv, TypeOK, Artefacts
  <2>4. QED
    BY <2>1, <2>2, <2>3
<1>5. QED
  BY <1>1, <1>3, <1>4, CountElsewhere

\* A signer's step that releases nothing and leaves the directory alone.
LEMMA CountSignerStep ==
    ASSUME IInv, CountInv, NEW p \in Signers,
           SignerStep(p) \/ Refuse(p) \/ Kill(p)
    PROVE  CountInv'
<1>1. UNCHANGED <<scenario, released, dir>>
  BY DEF SignerStep, Keygen, SignStart, SignKey, SignCom, SignTree, Read,
     Refuse, Kill
<1> SUFFICES ASSUME Undisturbed PROVE CountInv'
  BY <1>1 DEF CountInv, Undisturbed
<1>2. Signers = {p} /\ ~ Kill(p)
  BY OneSigner DEF Kill
<1>3. \A k : Counted(k) => Counted(k)'
  BY <1>1 DEF Counted, Issued
<1>4. LeafUsedOnce' /\ IsFiniteSet(released')
  BY <1>1 DEF CountInv, LeafUsedOnce
<1>5. pc'[p] # "sign_next" /\ pc[p] # "sign_next"
  BY <1>2 DEF SignerStep, Keygen, SignStart, SignKey, SignCom, SignTree, Read,
     Refuse, Refused, Exit, IInv, TypeOK
<1>6. \A k \in dir'.key : Counted(k)'
  BY <1>1, <1>3, <1>5 DEF CountInv
<1>7. /\ pc'[p] \in {"gen_key", "sign_com", "sign_tree", "sign_next"}
            => \A k \in mem'[p].key : Counted(k)'
      /\ pc'[p] = "sign_sig" =>
            \A s \in mem'[p].sig :
               /\ Counted(Key(s.kid, s.leaf))'
               /\ mem'[p].key = {Key(s.kid, s.leaf + 1)}
      /\ pc'[p] = "sign_sig" => mem'[p].sig # {}
  <2>1. CASE Keygen(p)
    <3>1. pc'[p] = "gen_key" /\ mem'[p].key = {Key(kids + 1, 0)}
      BY <2>1 DEF Keygen, IInv, TypeOK, Artefacts
    <3>2. Issued(kids + 1) = {}
      <4>1. kids \in Nat
        BY ConstantsAssumption DEF IInv, TypeOK
      <4>2. QED
        BY <4>1 DEF Issued, IInv, DrawnInv
    <3>3. Counted(Key(kids + 1, 0))
      BY <3>2, FS_EmptySet DEF Counted, Key
    <3>4. QED
      BY <1>3, <3>1, <3>3
  <2>2. CASE SignStart(p) \/ Refuse(p)
    BY <2>2 DEF SignStart, Refuse, Exit, IInv, TypeOK
  <2>3. CASE SignKey(p)
    <3>1. pc'[p] = "sign_com" /\ mem'[p].key = dir.key
      BY <2>3 DEF SignKey, Read, IInv, TypeOK, Artefacts
    <3>2. QED
      BY <1>1, <1>6, <3>1
  <2>4. CASE SignCom(p)
    <3>1. pc[p] = "sign_com" /\ pc'[p] = "sign_tree" /\ mem'[p].key = mem[p].key
      BY <2>4 DEF SignCom, Read, IInv, TypeOK, Artefacts
    <3>2. QED
      BY <1>3, <3>1 DEF CountInv
  <2>5. CASE SignTree(p)
    <3>1. PICK k \in mem[p].key, c \in mem[p].com :
             mem' = [mem EXCEPT ![p].sig = {Sig(k, c)},
                                ![p].key = {Key(k.kid, k.next + 1)}]
      BY <2>5 DEF SignTree
    <3>2. /\ mem'[p].sig = {Sig(k, c)} /\ mem'[p].key = {Key(k.kid, k.next + 1)}
          /\ pc[p] = "sign_tree" /\ pc'[p] = "sign_sig"
      BY <2>5, <3>1 DEF SignTree, IInv, TypeOK, Artefacts
    <3>3. Counted(k)
      BY <3>2 DEF CountInv
    <3>4. Counted(Key(k.kid, k.next))
      BY <3>3 DEF Counted, Key
    <3>5. Sig(k, c).kid = k.kid /\ Sig(k, c).leaf = k.next
      BY DEF Sig
    <3>6. QED
      BY <1>3, <3>2, <3>4, <3>5
  <2>6. QED
    BY <1>2, <2>1, <2>2, <2>3, <2>4, <2>5 DEF SignerStep
<1>8. QED
  BY <1>1, <1>2, <1>4, <1>6, <1>7 DEF CountInv

\* The signer truncates a file.
LEMMA CountOpenStep ==
    ASSUME IInv, CountInv, NEW p \in Signers, OpenFile(p)
    PROVE  CountInv'
<1>1. UNCHANGED <<scenario, released, pc, mem>>
  BY DEF OpenFile
<1>2. dir'.key \subseteq dir.key
  BY DEF OpenFile, IInv, TypeOK, Artefacts, WriteSteps, Target
<1>3. QED
  BY <1>1, <1>2, CountElsewhere

\* A write_file releases at most one signature.
LEMMA ReleasedFinite ==
    ASSUME IInv, IsFiniteSet(released), NEW p \in Procs, FillFile(p)
    PROVE  IsFiniteSet(released')
<1>1. \A s : IsFiniteSet(released \cup {s})
  BY FS_AddElement
<1>2. mem[p].sig = {} \/ \E s \in SigOf : mem[p].sig = {s}
  BY DEF IInv, TypeOK, Artefacts, File
<1>3. released' = released \/ released' = released \cup mem[p].sig
  BY DEF FillFile
<1>4. CASE mem[p].sig = {}
  BY <1>3, <1>4
<1>5. CASE \E s \in SigOf : mem[p].sig = {s}
  BY <1>1, <1>3, <1>5
<1>6. QED
  BY <1>2, <1>4, <1>5

\* The signer fills a file: the response consumes a leaf that the key in
\* memory has already passed, and that key is written next.
LEMMA CountFillStep ==
    ASSUME IInv, CountInv, NEW p \in Signers, FillFile(p)
    PROVE  CountInv'
<1> USE FillEffect
<1> SUFFICES ASSUME Undisturbed PROVE CountInv'
  <2>1. UNCHANGED scenario
    OBVIOUS
  <2>2. ~ Undisturbed => ~ Undisturbed'
    BY <2>1 DEF Undisturbed
  <2>3. IsFiniteSet(released')
    BY ReleasedFinite DEF CountInv
  <2>4. QED
    BY <2>2, <2>3 DEF CountInv
<1>1. Signers = {p} /\ Signers' = {p}
  BY OneSigner
<1>2. pc[p] \in {"gen_key", "gen_pub", "sign_sig", "sign_next"}
  BY DEF IInv, RoleInv, UserSteps, WriteSteps, Target
<1>3. CASE pc[p] = "sign_sig"
  <2>1. PICK s \in SigOf : mem[p].sig = {s}
    BY <1>3 DEF CountInv, IInv, TypeOK, Artefacts, File
  <2>2. /\ released' = released \cup {s} /\ pc'[p] = "sign_next" /\ mem' = mem
        /\ Counted(Key(s.kid, s.leaf)) /\ mem[p].key = {Key(s.kid, s.leaf + 1)}
    BY <1>3, <2>1 DEF CountInv, IInv, TypeOK, AfterWrite, FillFile
  <2>3. /\ IsFiniteSet(released') /\ LeafUsedOnce'
        /\ Counted(Key(s.kid, s.leaf + 1))'
    BY <2>2, CountedNext DEF CountInv
  <2>4. QED
    BY <1>1, <2>2, <2>3 DEF CountInv
<1>4. CASE pc[p] # "sign_sig"
  <2>1. UNCHANGED released
    BY <1>4
  <2>2. \A k : Counted(k) => Counted(k)'
    BY <2>1 DEF Counted, Issued
  <2>3. pc'[p] \in {"gen_pub", "idle"}
    BY <1>2, <1>4 DEF IInv, TypeOK, AfterWrite
  <2>4. \A k \in dir'.key : Counted(k)
    <3>1. CASE pc[p] = "gen_pub"
      <4>1. dir'.key = dir.key
        BY <3>1 DEF Target, IInv, TypeOK, Artefacts
      <4>2. QED
        BY <3>1, <4>1 DEF CountInv
    <3>2. CASE pc[p] \in {"gen_key", "sign_next"}
      <4>1. dir'.key = mem[p].key
        BY <3>2 DEF Target, IInv, TypeOK, Artefacts
      <4>2. QED
        BY <3>2, <4>1 DEF CountInv
    <3>3. QED
      BY <1>2, <1>4, <3>1, <3>2
  <2>5. LeafUsedOnce' /\ IsFiniteSet(released')
    BY <2>1 DEF CountInv, LeafUsedOnce
  <2>6. QED
    BY <1>1, <2>2, <2>3, <2>4, <2>5 DEF CountInv
<1>5. QED
  BY <1>3, <1>4

(***************************************************************************)
(* One signer process that is never interrupted: whenever it is idle, the  *)
(* counter in signer_key.bin is the number of signatures of its key, and   *)
(* no leaf was used twice, for any number of keys, leaves and commands     *)
(* (blind_signer_sign, then the two write_file calls of cmd_sign).         *)
(***************************************************************************)
THEOREM CounterIsExact == Spec => []CounterCounts
<1>1. Init => CountInv
  BY FS_EmptySet DEF Init, CountInv, LeafUsedOnce, Nothing
<1>2. IInv /\ CountInv /\ [Next]_vars => CountInv'
  <2> SUFFICES ASSUME IInv, CountInv, [Next]_vars PROVE CountInv'
    OBVIOUS
  <2>1. ASSUME NEW p \in Signers, SignerStep(p) PROVE CountInv'
    BY <2>1, CountSignerStep
  <2>2. ASSUME UserStep(User) PROVE CountInv'
    BY <2>2, CountUserStep
  <2>3. ASSUME NEW p \in Procs, OpenFile(p) \/ FillFile(p) \/ Refuse(p) \/ Kill(p)
        PROVE  CountInv'
    BY <2>3, CountUserStep, CountSignerStep, CountOpenStep, CountFillStep
  <2>4. ASSUME UNCHANGED vars PROVE CountInv'
    BY <2>4, CountElsewhere DEF vars
  <2>5. QED
    BY <2>1, <2>2, <2>3, <2>4 DEF Next
<1>3. IInv /\ CountInv => CounterCounts
  <2> SUFFICES ASSUME IInv, CountInv, Undisturbed,
                      \A p \in Signers : pc[p] = "idle"
               PROVE  /\ LeafUsedOnce
                      /\ \A k \in dir.key :
                            /\ k.next = Cardinality({s \in released : s.kid = k.kid})
                            /\ k.next <= Capacity
    BY DEF CounterCounts
  <2>1. \E p : Signers = {p}
    <3>1. IsFiniteSet(Signers)
      BY ConstantsAssumption DEF IInv, TypeOK
    <3>2. QED
      BY <3>1, FS_Singleton DEF Undisturbed
  <2>2. LeafUsedOnce /\ \A k \in dir.key : k.next = Cardinality({s \in released : s.kid = k.kid})
    BY <2>1 DEF CountInv, Counted, Issued
  <2>3. \A k \in dir.key : k.next <= Capacity
    <3>1. dir.key \subseteq KeyOf
      BY DEF IInv, TypeOK, Artefacts, File
    <3>2. \A k \in KeyOf : k.next <= Capacity
      BY ConstantsAssumption DEF KeyOf
    <3>3. QED
      BY <3>1, <3>2
  <2>4. QED
    BY <2>2, <2>3
<1>4. QED
  BY <1>1, <1>2, <1>3, Invariance, PTL DEF Spec
=============================================================================
