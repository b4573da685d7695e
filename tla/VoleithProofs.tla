--------------------------- MODULE VoleithProofs ---------------------------
(***************************************************************************)
(* Proofs about voleith, for every value of the parameters.                *)
(*                                                                         *)
(* About the tool, VoleithCli: types are preserved, no leaf signs twice,   *)
(* the tool implements OneTimeSigner, a public key never outlives its      *)
(* secret key, the durable key never goes back, no commitment is published *)
(* before its opening is stored, and verify passes no more messages than   *)
(* sign released signatures.                                               *)
(*                                                                         *)
(* About the statement, VoleithStatement: the gadgets for adding,          *)
(* comparing and decoding wires compute what they are named for, the       *)
(* constraints hold only for the chain ends of the signature under a leaf  *)
(* of the signer's tree, and they hold for the honest witness.             *)
(*                                                                         *)
(* About the hash, KeccakCircuit: the two contexts share the order of the  *)
(* witness and of the constraints.                                         *)
(***************************************************************************)
EXTENDS VoleithCli, VoleithStatement, KeccakCircuit, SumTheorems, FiniteSetTheorems,
        FunctionTheorems, SequenceTheorems, TLAPS

-----------------------------------------------------------------------------
(* Part 1: the tool                                                        *)

-----------------------------------------------------------------------------
(* The inductive invariant                                                 *)

\* At most one process is between Lock::Lock and Lock::~Lock.
LockInv == \A p \in Procs : pc[p] \in LockedSteps => lock = {p}

\* Leaf l of key k is above every leaf that k has released.
Fresh(k, l) == \A s \in released : s.kid = k => s.leaf < l

\* The directory d holds key k with leaf l already consumed.
Consumed(d, k, l) == \E h \in d.key : h.kid = k /\ l < h.next

\* A released leaf is consumed in the durable key.
ReleasedInv == \A s \in released : Consumed(dur, s.kid, s.leaf)

\* The visible key is the durable one, at the same leaf or further on.
AheadInv == \A k \in dur.key : \E l \in vis.key :
               l.kid = k.kid /\ k.next <= l.next

\* A public key is there only when its secret key is durable.
PubInv == \A d \in {vis, dur} : \A i \in d.pub : \E k \in dur.key : k.kid = i

\* keygen: the key in memory is the one written, and is durable before the
\* public key is created.
GenInv(p) ==
    /\ pc[p] = "gen_key" => vis.key = {} /\ vis.pub = {}
    /\ pc[p] = "gen_key_sync" => vis.key = mem[p].key
    /\ pc[p] = "gen_pub" =>
          \A k \in mem[p].key : \E l \in dur.key : l.kid = k.kid

\* sign: the leaf in memory is fresh, and durably consumed before it signs.
SignInv(p) ==
    /\ pc[p] = "sign_reserve" => mem[p].key = vis.key
    /\ pc[p] = "sign_key_sync" =>
          \A k \in mem[p].key :
             k.next < Capacity /\ Fresh(k.kid, k.next) /\ Consumed(vis, k.kid, k.next)
    /\ pc[p] = "sign_tree" =>
          \A k \in mem[p].key :
             k.next < Capacity /\ Fresh(k.kid, k.next) /\ Consumed(dur, k.kid, k.next)
    /\ pc[p] = "sign_sig" =>
          \A s \in mem[p].sig :
             Fresh(s.kid, s.leaf) /\ Consumed(dur, s.kid, s.leaf)

\* Commitments in files and in memory have been made.
ComInv ==
    /\ \A d \in {vis, dur} : d.state \cup d.com \subseteq 1..Len(committed)
    /\ \A p \in Procs : mem[p].com \subseteq 1..Len(committed)

IInv ==
    /\ TypeOK
    /\ ComInv
    /\ LockInv
    /\ ReleasedInv
    /\ AheadInv
    /\ PubInv
    /\ \A p \in Procs : GenInv(p) /\ SignInv(p)

-----------------------------------------------------------------------------
(* Each action preserves the invariant                                     *)

USE DEF At, Goto, history

\* While one process is between Lock::Lock and Lock::~Lock, no other is.
LEMMA Exclusion ==
    ASSUME IInv, NEW p \in Procs, NEW q \in Procs, p # q,
           pc[p] \in LockedSteps
    PROVE  pc[q] \notin LockedSteps
BY DEF IInv, LockInv

\* A process that only moves on: commands that begin, and the lock.
LEMMA MoveStep ==
    ASSUME IInv, NEW p \in Procs,
           \/ GenStart(p) \/ SignStart(p) \/ ProveStart(p) \/ VerifyStart(p)
           \/ GenLock(p) \/ SignLock(p)
    PROVE  IInv'
<1> USE DEF IInv, GenStart, SignStart, ProveStart, VerifyStart, GenLock,
            SignLock, TakeLock
<1>1. TypeOK'
  BY DEF TypeOK, LockedSteps, FreeSteps
<1>2. ComInv' /\ LockInv'
  BY DEF ComInv, LockInv, LockedSteps, FreeSteps, TypeOK
<1>3. ReleasedInv' /\ AheadInv' /\ PubInv'
  BY DEF ReleasedInv, AheadInv, PubInv, Consumed
<1>4. \A q \in Procs : GenInv(q)' /\ SignInv(q)'
  BY DEF GenInv, SignInv, Consumed, Fresh, TypeOK
<1>5. QED
  BY <1>1, <1>2, <1>3, <1>4

\* A process that reads an artefact.
LEMMA ReadStep ==
    ASSUME IInv, NEW p \in Procs,
           \/ SignCom(p) \/ SignKey(p) \/ ProvePub(p) \/ ProveState(p)
           \/ ProveSig(p) \/ VerifyPub(p)
    PROVE  IInv'
<1> USE DEF IInv, SignCom, SignKey, ProvePub, ProveState, ProveSig, VerifyPub
<1>1. TypeOK'
  <2>1. mem' \in [Procs -> Memory]
    <3>1. CASE SignCom(p)
      BY <3>1 DEF TypeOK, Directory, Memory
    <3>2. CASE SignKey(p)
      BY <3>2 DEF TypeOK, Directory, Memory
    <3>3. CASE ProvePub(p)
      BY <3>3 DEF TypeOK, Directory, Memory
    <3>4. CASE ProveState(p)
      BY <3>4 DEF TypeOK, Directory, Memory
    <3>5. CASE ProveSig(p)
      BY <3>5 DEF TypeOK, Directory, Memory
    <3>6. CASE VerifyPub(p)
      BY <3>6 DEF TypeOK, Directory, Memory
    <3> QED BY <3>1, <3>2, <3>3, <3>4, <3>5, <3>6
  <2>2. pc' \in [Procs -> LockedSteps \cup FreeSteps]
    BY DEF TypeOK, LockedSteps, FreeSteps
  <2>3. UNCHANGED <<vis, dur, lock, history>>
    OBVIOUS
  <2>4. QED
    BY <2>1, <2>2, <2>3 DEF TypeOK
<1>2. ComInv'
  BY DEF ComInv, TypeOK, Memory
<1>3. LockInv'
  BY DEF LockInv, LockedSteps, TypeOK
<1>4. ReleasedInv' /\ AheadInv' /\ PubInv'
  BY DEF ReleasedInv, AheadInv, PubInv, Consumed
<1>5. \A q \in Procs : GenInv(q)' /\ SignInv(q)'
  BY DEF GenInv, SignInv, Consumed, Fresh, TypeOK, Memory
<1>6. QED
  BY <1>1, <1>2, <1>3, <1>4, <1>5

\* A process that runs no command holds nothing.
LEMMA EmptyMemoryType == EmptyMemory \in Memory
BY DEF EmptyMemory, Memory, File

\* A process that ends without touching a file.
LEMMA EndStep ==
    ASSUME IInv, NEW p \in Procs,
           \/ Refuse(p) \/ Fail(p) \/ (\E m \in Messages : VerifySig(p, m))
    PROVE  IInv'
<1> USE DEF IInv, Exit
<1>1. /\ Exit(p)
      /\ UNCHANGED <<vis, dur, kids, committed, released>>
      /\ \/ UNCHANGED accepted
         \/ \E m \in Messages : accepted' = accepted \cup
               {b \in vis.bsig : b.kid \in mem[p].pub /\ b.msg = m}
  BY DEF Refuse, Fail, VerifySig
<1>2. accepted' \in SUBSET BlindSig
  BY <1>1 DEF TypeOK, Directory, File
<1>3. TypeOK'
  BY <1>1, <1>2, EmptyMemoryType DEF TypeOK, FreeSteps
<1>4. ComInv'
  BY <1>1 DEF ComInv, TypeOK, EmptyMemory
<1>5. LockInv'
  BY <1>1 DEF LockInv, LockedSteps, TypeOK
<1>6. ReleasedInv' /\ AheadInv' /\ PubInv'
  BY <1>1 DEF ReleasedInv, AheadInv, PubInv, Consumed
<1>7. \A q \in Procs : GenInv(q)' /\ SignInv(q)'
  BY <1>1 DEF GenInv, SignInv, Consumed, Fresh, TypeOK
<1>8. QED
  BY <1>3, <1>4, <1>5, <1>6, <1>7

\* A process that replaces one of the user's artefacts.
LEMMA UserWriteStep ==
    ASSUME IInv, NEW p \in Procs, ComState(p) \/ ComCom(p) \/ ProveWrite(p)
    PROVE  IInv'
<1> USE DEF IInv, Replace
<1>1. /\ UNCHANGED <<dur, lock, mem, kids, committed, released, accepted>>
      /\ vis' \in Directory
      /\ vis'.key = vis.key /\ vis'.pub = vis.pub
      /\ vis'.state \cup vis'.com \subseteq 1..Len(committed)
      /\ \E there \in {"com_state_sync", "com_com_sync", "prove_sync"} :
            Goto(p, there)
      /\ pc[p] \in {"com_state", "com_com", "prove_write"}
  <2>1. CASE ComState(p)
    BY <2>1 DEF ComState, ComInv, TypeOK, Directory, Memory
  <2>2. CASE ComCom(p)
    BY <2>2 DEF ComCom, ComInv, TypeOK, Directory, Memory
  <2>3. CASE ProveWrite(p)
    <3> DEFINE proof == {[kid |-> k, msg |-> committed[c]] :
                            k \in mem[p].pub, c \in mem[p].com}
    <3>1. \A c \in mem[p].com : committed[c] \in Messages
      BY DEF TypeOK, ComInv
    <3>2. proof \in File(BlindSig)
      BY <3>1 DEF TypeOK, Memory, File, BlindSig
    <3>3. vis' = [vis EXCEPT !["bsig"] = proof]
      BY <2>3 DEF ProveWrite
    <3> HIDE DEF proof
    <3>4. vis' \in Directory /\ vis'.key = vis.key /\ vis'.pub = vis.pub
          /\ vis'.state = vis.state /\ vis'.com = vis.com
      BY <3>2, <3>3 DEF TypeOK, Directory
    <3>5. QED
      BY <2>3, <3>4 DEF ProveWrite, ComInv
  <2>4. QED
    BY <2>1, <2>2, <2>3
<1>2. TypeOK'
  BY <1>1 DEF TypeOK, FreeSteps
<1>3. ComInv'
  BY <1>1 DEF ComInv
<1>4. LockInv'
  BY <1>1 DEF LockInv, LockedSteps, TypeOK
<1>5. ReleasedInv' /\ AheadInv' /\ PubInv'
  BY <1>1 DEF ReleasedInv, AheadInv, PubInv, Consumed
<1>6. \A q \in Procs : GenInv(q)' /\ SignInv(q)'
  BY <1>1 DEF GenInv, SignInv, Consumed, Fresh, TypeOK
<1>7. QED
  BY <1>2, <1>3, <1>4, <1>5, <1>6

\* commit starts with an opening of its own.
LEMMA ComStartStep ==
    ASSUME IInv, NEW p \in Procs, NEW m \in Messages, ComStart(p, m)
    PROVE  IInv'
<1> USE DEF IInv, ComStart
<1>1. {Len(committed) + 1} \in File(Com)
  BY ConstantsAssumption DEF TypeOK, File, Com
<1>2. /\ committed' \in Seq(Messages)
      /\ Len(committed) \in Nat
      /\ Len(committed') = Len(committed) + 1
      /\ Len(committed') <= MaxCommits
  BY ConstantsAssumption DEF TypeOK
<1>3. mem' \in [Procs -> Memory]
  BY <1>1 DEF TypeOK, Memory
<1>4. TypeOK'
  BY <1>2, <1>3 DEF TypeOK, FreeSteps
<1>5. ComInv'
  BY <1>2 DEF ComInv, TypeOK, Memory
<1>6. LockInv'
  BY DEF LockInv, LockedSteps, TypeOK
<1>7. ReleasedInv' /\ AheadInv' /\ PubInv'
  BY DEF ReleasedInv, AheadInv, PubInv, Consumed
<1>8. \A q \in Procs : GenInv(q)' /\ SignInv(q)'
  BY DEF GenInv, SignInv, Consumed, Fresh, TypeOK
<1>9. QED
  BY <1>4, <1>5, <1>6, <1>7, <1>8

\* keygen goes on only when neither of its artefacts is there.
LEMMA GenCheckStep ==
    ASSUME IInv, NEW p \in Procs, GenCheck(p)
    PROVE  IInv'
<1> USE DEF IInv, GenCheck
<1>1. {[kid |-> kids + 1, next |-> 0]} \in File(Key)
  BY ConstantsAssumption DEF TypeOK, File, Key, Kid
<1>2. mem' \in [Procs -> Memory]
  BY <1>1 DEF TypeOK, Memory
<1>3. kids' \in 0..MaxKeys
  BY ConstantsAssumption DEF TypeOK
<1>4. TypeOK'
  BY <1>2, <1>3 DEF TypeOK, LockedSteps
<1>5. ComInv' /\ LockInv'
  BY DEF ComInv, LockInv, LockedSteps, TypeOK, Memory
<1>6. ReleasedInv' /\ AheadInv' /\ PubInv'
  BY DEF ReleasedInv, AheadInv, PubInv, Consumed
<1>7. ASSUME NEW q \in Procs, q # p PROVE GenInv(q)' /\ SignInv(q)'
  <2>1. pc'[q] = pc[q] /\ mem'[q] = mem[q] /\ UNCHANGED <<vis, dur, released>>
    BY <1>7 DEF TypeOK
  <2>2. GenInv(q) /\ SignInv(q)
    OBVIOUS
  <2> HIDE DEF IInv, GenCheck
  <2>3. GenInv(q)'
    BY <2>1, <2>2 DEF GenInv
  <2>4. SignInv(q)'
    BY <2>1, <2>2 DEF SignInv, Consumed, Fresh
  <2>5. QED
    BY <2>3, <2>4
<1>8. GenInv(p)' /\ SignInv(p)'
  BY DEF GenInv, SignInv, TypeOK
<1>9. QED
  BY <1>4, <1>5, <1>6, <1>7, <1>8

\* keygen creates the key file: no key was there, so none was durable.
LEMMA GenKeyStep ==
    ASSUME IInv, NEW p \in Procs, GenKey(p)
    PROVE  IInv'
<1> USE DEF IInv, GenKey, Replace
<1>1. /\ vis' \in Directory
      /\ vis'.key = mem[p].key /\ vis'.pub = vis.pub
      /\ vis'.state = vis.state /\ vis'.com = vis.com
  BY DEF TypeOK, Directory, Memory
<1>2. dur.key = {}
  BY DEF GenInv, AheadInv
<1>3. \A q \in Procs : q # p => pc'[q] \notin LockedSteps
  BY Exclusion DEF LockedSteps, TypeOK
<1>4. TypeOK'
  BY <1>1 DEF TypeOK, LockedSteps
<1>5. ComInv' /\ LockInv'
  BY <1>1 DEF ComInv, LockInv, LockedSteps, TypeOK
<1>6. ReleasedInv' /\ AheadInv' /\ PubInv'
  BY <1>1, <1>2 DEF ReleasedInv, AheadInv, PubInv, Consumed
<1>7. \A q \in Procs : GenInv(q)'
  BY <1>1, <1>3 DEF GenInv, LockedSteps, TypeOK
<1>8. \A q \in Procs : SignInv(q)'
  BY <1>3 DEF SignInv, LockedSteps, TypeOK
<1>9. QED
  BY <1>4, <1>5, <1>6, <1>7, <1>8

\* keygen writes signer_pub.bin beside the key that it has stored.
LEMMA GenPubStep ==
    ASSUME IInv, NEW p \in Procs, GenPub(p)
    PROVE  IInv'
<1> USE DEF IInv, GenPub, Replace
<1>1. {k.kid : k \in mem[p].key} \in File(Kid)
  BY DEF TypeOK, File, Key, Memory
<1>2. /\ vis' \in Directory
      /\ vis'.key = vis.key /\ vis'.pub = {k.kid : k \in mem[p].key}
      /\ vis'.state = vis.state /\ vis'.com = vis.com
  BY <1>1 DEF TypeOK, Directory
<1>3. TypeOK'
  BY <1>2 DEF TypeOK, LockedSteps
<1>4. ComInv' /\ LockInv'
  BY <1>2 DEF ComInv, LockInv, LockedSteps, TypeOK
<1>5. ReleasedInv' /\ AheadInv'
  BY <1>2 DEF ReleasedInv, AheadInv, Consumed
<1>6. PubInv'
  <2>1. \A i \in vis'.pub : \E k \in dur.key : k.kid = i
    BY <1>2 DEF GenInv
  <2>2. QED
    BY <2>1 DEF PubInv
<1>7. \A q \in Procs : q # p => pc'[q] \notin LockedSteps
  BY Exclusion DEF LockedSteps, TypeOK
<1>8. \A q \in Procs : GenInv(q)' /\ SignInv(q)'
  BY <1>7 DEF GenInv, SignInv, LockedSteps, TypeOK
<1>9. QED
  BY <1>3, <1>4, <1>5, <1>6, <1>8

\* sign advances the visible key.  The lock keeps every other writer of the
\* key out since it was read, so the key in memory is the visible one.
LEMMA SignReserveStep ==
    ASSUME IInv, NEW p \in Procs, SignReserve(p)
    PROVE  IInv'
<1> USE DEF IInv, SignReserve, Replace
<1>1. PICK k \in mem[p].key :
         /\ k.next # Capacity
         /\ vis' = [vis EXCEPT !["key"] = {[k EXCEPT !.next = k.next + 1]}]
  OBVIOUS
<1> DEFINE j == [k EXCEPT !.next = k.next + 1]
<1>2. k \in Key /\ vis.key = {k} /\ mem[p].key = {k}
  BY DEF TypeOK, Memory, File, SignInv
<1>3. j \in Key /\ j.kid = k.kid /\ j.next = k.next + 1 /\ k.next < Capacity
      /\ k.next \in Nat
  BY <1>1, <1>2, ConstantsAssumption DEF Key
<1>4. {j} \in File(Key) /\ vis' = [vis EXCEPT !["key"] = {j}]
  BY <1>1, <1>3 DEF File
<1> HIDE DEF j
<1>5. /\ vis' \in Directory
      /\ vis'.key = {j} /\ vis'.pub = vis.pub
      /\ vis'.state = vis.state /\ vis'.com = vis.com
  BY <1>4 DEF TypeOK, Directory
<1>6. UNCHANGED <<dur, lock, mem, released, committed>>
  OBVIOUS
<1>7. \A q \in Procs : q # p => pc'[q] \notin LockedSteps
  BY Exclusion DEF LockedSteps, TypeOK
<1>8. TypeOK'
  BY <1>5 DEF TypeOK, LockedSteps
<1>9. ComInv' /\ LockInv'
  BY <1>5 DEF ComInv, LockInv, LockedSteps, TypeOK
<1>10. ReleasedInv' /\ PubInv'
  BY <1>5, <1>6 DEF ReleasedInv, PubInv, Consumed
<1>11. dur.key \subseteq Key
  BY DEF TypeOK, Directory, File
<1>12. AheadInv'
  BY <1>2, <1>3, <1>5, <1>6, <1>11 DEF AheadInv, Key
<1>13. Fresh(k.kid, k.next)
  <2> SUFFICES ASSUME NEW s \in released, s.kid = k.kid
               PROVE  s.leaf < k.next
    BY DEF Fresh
  <2>1. PICK h \in dur.key : h.kid = s.kid /\ s.leaf < h.next
    BY DEF ReleasedInv, Consumed
  <2>2. h.next <= k.next
    BY <1>2, <2>1 DEF AheadInv
  <2>3. s \in Sig
    BY DEF TypeOK
  <2>4. QED
    BY <1>3, <1>11, <2>1, <2>2, <2>3 DEF Key, Sig
<1>14. Consumed(vis, k.kid, k.next)'
  BY <1>3, <1>5 DEF Consumed
<1>15. \A q \in Procs : GenInv(q)'
  BY <1>7 DEF GenInv, LockedSteps, TypeOK
<1>16. \A q \in Procs : q # p => SignInv(q)'
  BY <1>7 DEF SignInv, LockedSteps, TypeOK
<1>17. SignInv(p)'
  BY <1>2, <1>3, <1>6, <1>13, <1>14 DEF SignInv, Fresh, Consumed, TypeOK
<1>18. QED
  BY <1>8, <1>9, <1>10, <1>12, <1>15, <1>16, <1>17

\* The signature is computed in memory, for the leaf that is reserved.
LEMMA SignTreeStep ==
    ASSUME IInv, NEW p \in Procs, SignTree(p)
    PROVE  IInv'
<1> USE DEF IInv, SignTree
<1>1. PICK k \in mem[p].key, c \in mem[p].com :
         mem' = [mem EXCEPT ![p].sig =
                    {[kid |-> k.kid, leaf |-> k.next, com |-> c]}]
  OBVIOUS
<1> DEFINE s == [kid |-> k.kid, leaf |-> k.next, com |-> c]
<1>2. /\ k \in Key /\ c \in Com /\ k.next < Capacity
      /\ Fresh(k.kid, k.next) /\ Consumed(dur, k.kid, k.next)
  BY DEF TypeOK, Memory, File, SignInv
<1>3. s \in Sig
  BY <1>2, ConstantsAssumption DEF Key, Sig
<1>4. s.kid = k.kid /\ s.leaf = k.next /\ {s} \in File(Sig)
      /\ mem' = [mem EXCEPT ![p].sig = {s}]
  BY <1>1, <1>3 DEF File
<1> HIDE DEF s
<1>5. TypeOK'
  BY <1>4 DEF TypeOK, Memory, LockedSteps
<1>6. ComInv' /\ LockInv'
  BY <1>4 DEF ComInv, LockInv, LockedSteps, TypeOK, Memory
<1>7. ReleasedInv' /\ AheadInv' /\ PubInv'
  BY DEF ReleasedInv, AheadInv, PubInv, Consumed
<1>8. \A q \in Procs : GenInv(q)'
  BY DEF GenInv, TypeOK
<1>9. \A q \in Procs : q # p => SignInv(q)'
  BY DEF SignInv, Consumed, Fresh, TypeOK
<1>10. mem'[p].sig = {s} /\ pc'[p] = "sign_sig"
  BY <1>4 DEF TypeOK, Memory
<1>11. SignInv(p)'
  BY <1>2, <1>4, <1>10 DEF SignInv, Consumed, Fresh
<1>12. QED
  BY <1>5, <1>6, <1>7, <1>8, <1>9, <1>11

\* sign releases the signature; its leaf is consumed in the durable key.
LEMMA SignSigStep ==
    ASSUME IInv, NEW p \in Procs, SignSig(p)
    PROVE  IInv'
<1> USE DEF IInv, SignSig, Replace
<1>1. mem[p].sig \subseteq Sig
  BY DEF TypeOK, Memory, File
<1>2. /\ vis' \in Directory
      /\ vis'.key = vis.key /\ vis'.pub = vis.pub
      /\ vis'.state = vis.state /\ vis'.com = vis.com
  BY DEF TypeOK, Directory, Memory
<1>3. \A q \in Procs : q # p => pc'[q] \notin LockedSteps
  BY Exclusion DEF LockedSteps, TypeOK
<1>4. TypeOK'
  BY <1>1, <1>2 DEF TypeOK, LockedSteps
<1>5. ComInv' /\ LockInv'
  BY <1>2 DEF ComInv, LockInv, LockedSteps, TypeOK
<1>6. ReleasedInv' /\ AheadInv' /\ PubInv'
  BY <1>2 DEF ReleasedInv, AheadInv, PubInv, SignInv, Consumed
<1>7. \A q \in Procs : GenInv(q)'
  BY <1>2, <1>3 DEF GenInv, LockedSteps, TypeOK
<1>8. \A q \in Procs : SignInv(q)'
  BY <1>3 DEF SignInv, LockedSteps, TypeOK
<1>9. QED
  BY <1>4, <1>5, <1>6, <1>7, <1>8

\* The durable directory catches up, wholly or in one entry.  What is
\* consumed or published stays so because the visible key is ahead.
LEMMA CatchUp ==
    ASSUME IInv, dur' \in Directory, UNCHANGED <<vis, released>>,
           dur'.key \in {dur.key, vis.key},
           dur'.pub \in {dur.pub, vis.pub}
    PROVE  /\ ReleasedInv' /\ AheadInv' /\ PubInv'
           /\ \A k \in dur.key : \E l \in dur'.key :
                 l.kid = k.kid /\ k.next <= l.next
           /\ \A i, l : i \in Kid /\ l \in Nat /\ Consumed(dur, i, l)
                 => Consumed(dur, i, l)'
<1> USE DEF IInv
<1>1. dur.key \subseteq Key /\ vis.key \subseteq Key
  BY DEF TypeOK, Directory, File
<1>2. \A k \in dur.key : \E l \in dur'.key : l.kid = k.kid /\ k.next <= l.next
  BY <1>1 DEF AheadInv, Key
<1>3. \A i, l : i \in Kid /\ l \in Nat /\ Consumed(dur, i, l)
                 => Consumed(dur, i, l)'
  <2> SUFFICES ASSUME NEW i \in Kid, NEW l \in Nat, Consumed(dur, i, l)
               PROVE  Consumed(dur, i, l)'
    OBVIOUS
  <2>1. PICK h \in dur.key : h.kid = i /\ l < h.next
    BY DEF Consumed
  <2>2. PICK g \in dur'.key : g.kid = h.kid /\ h.next <= g.next
    BY <1>2, <2>1
  <2>3. h \in Key /\ g \in Key
    BY <1>1
  <2>4. l < g.next
    BY <2>1, <2>2, <2>3, ConstantsAssumption DEF Key
  <2>5. QED
    BY <2>1, <2>2, <2>4 DEF Consumed
<1>4. ReleasedInv'
  <2>1. released \subseteq Sig
    BY DEF TypeOK
  <2>2. QED
    BY <1>3, <2>1, ConstantsAssumption DEF ReleasedInv, Sig
<1>5. AheadInv'
  BY <1>1 DEF AheadInv, Key
<1>6. PubInv'
  <2> SUFFICES ASSUME NEW i, i \in vis.pub \/ i \in dur'.pub
               PROVE  \E k \in dur'.key : k.kid = i
    BY DEF PubInv
  <2>1. PICK k \in dur.key : k.kid = i
    BY DEF PubInv
  <2>2. QED
    BY <1>2, <2>1
<1>7. QED
  BY <1>2, <1>3, <1>4, <1>5, <1>6

\* The system may write any file back before fsync asks for it.
LEMMA WritebackStep ==
    ASSUME IInv, NEW f \in DOMAIN vis, Writeback(f)
    PROVE  IInv'
<1> USE DEF IInv, Writeback
<1>1. /\ dur' \in Directory
      /\ dur'.key \in {dur.key, vis.key} /\ dur'.pub \in {dur.pub, vis.pub}
      /\ dur'.state \in {dur.state, vis.state} /\ dur'.com \in {dur.com, vis.com}
  BY DEF TypeOK, Directory
<1>2. ReleasedInv' /\ AheadInv' /\ PubInv'
  BY <1>1, CatchUp
<1>3. TypeOK' /\ LockInv'
  BY <1>1 DEF TypeOK, LockInv
<1>4. ComInv'
  BY <1>1 DEF ComInv
<1>5. ASSUME NEW q \in Procs PROVE GenInv(q)'
  <2>1. \A k \in dur.key : \E l \in dur'.key : l.kid = k.kid
    BY <1>1, CatchUp
  <2>2. QED
    BY <2>1 DEF GenInv
<1>6. ASSUME NEW q \in Procs PROVE SignInv(q)'
  <2>1. mem[q].key \subseteq Key /\ mem[q].sig \subseteq Sig
    BY DEF TypeOK, Memory, File
  <2>2. \A i \in Kid, l \in Nat : Consumed(dur, i, l) => Consumed(dur, i, l)'
    BY <1>1, CatchUp
  <2>3. QED
    BY <2>1, <2>2, ConstantsAssumption DEF SignInv, Fresh, Consumed, Key, Sig
<1>7. QED
  BY <1>2, <1>3, <1>4, <1>5, <1>6

\* A successful fsync of the directory; the write returns.
LEMMA SyncDirStep ==
    ASSUME IInv, NEW p \in Procs, SyncDir(p)
    PROVE  IInv'
<1> USE DEF IInv, SyncDir, Exit
<1>1. dur' = vis /\ UNCHANGED <<vis, released, committed>>
  OBVIOUS
<1>2. vis \in Directory
  BY DEF TypeOK
<1>3. ReleasedInv' /\ AheadInv' /\ PubInv'
  BY <1>1, <1>2, CatchUp
<1>4. TypeOK'
  BY EmptyMemoryType DEF TypeOK, SyncSteps, AfterSync, LockedSteps, FreeSteps
<1>5. ComInv'
  BY DEF ComInv, TypeOK, EmptyMemory
<1>6. LockInv'
  BY DEF LockInv, LockedSteps, SyncSteps, AfterSync, TypeOK
<1>7. ASSUME NEW q \in Procs PROVE GenInv(q)'
  <2>1. \A k \in dur.key : \E l \in dur'.key : l.kid = k.kid
    BY <1>1, <1>2, CatchUp
  <2>2. CASE q = p
    BY <1>1, <2>2 DEF GenInv, SyncSteps, AfterSync, TypeOK
  <2>3. CASE q # p
    BY <1>1, <2>1, <2>3 DEF GenInv, TypeOK
  <2>4. QED
    BY <2>2, <2>3
<1>8. ASSUME NEW q \in Procs PROVE SignInv(q)'
  <2>1. mem[q].key \subseteq Key /\ mem[q].sig \subseteq Sig
    BY DEF TypeOK, Memory, File
  <2>2. \A i \in Kid, l \in Nat : Consumed(dur, i, l) => Consumed(dur, i, l)'
    BY <1>1, <1>2, CatchUp
  <2>3. CASE q = p
    BY <1>1, <2>3 DEF SignInv, Fresh, Consumed, SyncSteps, AfterSync, TypeOK
  <2>4. CASE q # p
    <3>1. pc'[q] = pc[q] /\ mem'[q] = mem[q]
      BY <2>4 DEF TypeOK
    <3>2. QED
      BY <1>1, <2>1, <2>2, <3>1, ConstantsAssumption
      DEF SignInv, Fresh, Consumed, Key, Sig
  <2>5. QED
    BY <2>3, <2>4
<1>9. QED
  BY <1>3, <1>4, <1>5, <1>6, <1>7, <1>8

\* A power loss leaves what was durable.
LEMMA PowerLossStep ==
    ASSUME IInv, PowerLoss
    PROVE  IInv'
<1> USE DEF IInv, PowerLoss
<1>1. TypeOK'
  BY EmptyMemoryType DEF TypeOK, FreeSteps
<1>2. ComInv' /\ LockInv'
  BY DEF ComInv, LockInv, LockedSteps, EmptyMemory
<1>3. ReleasedInv'
  BY DEF ReleasedInv, Consumed
<1>4. AheadInv'
  <2>1. dur.key \subseteq Key
    BY DEF TypeOK, Directory, File
  <2>2. QED
    BY <2>1 DEF AheadInv, Key
<1>5. PubInv'
  BY DEF PubInv
<1>6. \A q \in Procs : GenInv(q)' /\ SignInv(q)'
  BY DEF GenInv, SignInv
<1>7. QED
  BY <1>1, <1>2, <1>3, <1>4, <1>5, <1>6

-----------------------------------------------------------------------------
(* The invariant                                                           *)

\* An empty directory satisfies the invariant.
LEMMA IInvInit == Init => IInv
<1> SUFFICES ASSUME Init PROVE IInv
  OBVIOUS
<1> USE DEF Init
<1>1. EmptyDirectory \in Directory
  BY DEF EmptyDirectory, Directory, File
<1>2. committed \in Seq(Messages) /\ Len(committed) = 0
  OBVIOUS
<1>3. TypeOK
  BY <1>1, <1>2, EmptyMemoryType, ConstantsAssumption DEF TypeOK, FreeSteps
<1>4. ComInv /\ LockInv
  BY DEF ComInv, LockInv, LockedSteps, EmptyDirectory, EmptyMemory
<1>5. ReleasedInv /\ AheadInv /\ PubInv
  BY DEF ReleasedInv, AheadInv, PubInv, EmptyDirectory
<1>6. \A p \in Procs : GenInv(p) /\ SignInv(p)
  BY DEF GenInv, SignInv
<1>7. QED
  BY <1>3, <1>4, <1>5, <1>6 DEF IInv

\* Every step keeps the invariant.
LEMMA IInvNext == IInv /\ [Next]_vars => IInv'
<1> SUFFICES ASSUME IInv, [Next]_vars PROVE IInv'
  OBVIOUS
<1>1. ASSUME NEW p \in Procs, Start(p) PROVE IInv'
  BY <1>1, MoveStep, ComStartStep DEF Start
<1>2. ASSUME NEW p \in Procs, Step(p) PROVE IInv'
  BY <1>2, MoveStep, ReadStep, EndStep, UserWriteStep, GenCheckStep,
     GenKeyStep, GenPubStep, SignReserveStep, SignTreeStep, SignSigStep,
     SyncDirStep DEF Step
<1>3. ASSUME Crash PROVE IInv'
  BY <1>3, EndStep, WritebackStep, PowerLossStep DEF Crash
<1>4. ASSUME UNCHANGED vars PROVE IInv'
  BY <1>4 DEF vars, IInv, TypeOK, ComInv, LockInv, ReleasedInv, AheadInv,
     PubInv, GenInv, SignInv, Consumed, Fresh
<1>5. QED
  BY <1>1, <1>2, <1>3, <1>4 DEF Next

\* The invariant holds throughout.
LEMMA Invariance == Spec => []IInv
BY IInvInit, IInvNext, PTL DEF Spec

\* Only SignSig releases a signature; only a directory fsync or a writeback
\* changes what is durable.
LEMMA Frame ==
    ASSUME [Next]_vars
    PROVE  /\ released' = released \/ \E p \in Procs : SignSig(p)
           /\ \/ dur' = dur
              \/ \E p \in Procs : SyncDir(p)
              \/ \E f \in DOMAIN vis : Writeback(f)
<1>1. ASSUME NEW p \in Procs, Start(p) PROVE UNCHANGED <<dur, released>>
  BY <1>1 DEF Start, GenStart, ComStart, SignStart, ProveStart, VerifyStart
<1>2. ASSUME NEW p \in Procs, Step(p)
      PROVE  /\ UNCHANGED released \/ SignSig(p)
             /\ UNCHANGED dur \/ SyncDir(p)
  BY <1>2 DEF Step, GenLock, GenCheck, GenKey, GenPub, ComState, ComCom,
     SignLock, SignCom, SignKey, SignReserve, SignTree, SignSig, ProvePub,
     ProveState, ProveSig, ProveWrite, VerifyPub, VerifySig, SyncDir, Refuse,
     TakeLock
<1>3. ASSUME Crash
      PROVE  /\ UNCHANGED released
             /\ UNCHANGED dur \/ \E f \in DOMAIN vis : Writeback(f)
  BY <1>3 DEF Crash, Fail, Writeback, PowerLoss
<1>4. QED
  BY <1>1, <1>2, <1>3 DEF Next, vars

(***************************************************************************)
(* Type correctness: in particular next_leaf never passes the capacity of  *)
(* the key (the exhaustion test of Signer::sign) and every blind signature *)
(* is about a message that was committed to.                               *)
(***************************************************************************)
THEOREM TypeCorrect == Spec => []TypeOK
<1>1. IInv => TypeOK
  BY DEF IInv
<1>2. QED
  BY <1>1, Invariance, PTL

(***************************************************************************)
(* The public key in the directory always has its secret key beside it,    *)
(* for every interleaving, failure and power loss (keygen of cli.cpp).     *)
(***************************************************************************)
THEOREM PublicKeyHasSecret == Spec => []PubHasKey
<1>1. IInv => PubHasKey
  <2> SUFFICES ASSUME IInv, NEW d \in {vis, dur}, NEW i \in d.pub
               PROVE  i \in {k.kid : k \in d.key}
    BY DEF PubHasKey
  <2>1. PICK k \in dur.key : k.kid = i
    BY DEF IInv, PubInv
  <2>2. QED
    BY <2>1 DEF IInv, AheadInv
<1>2. QED
  BY <1>1, Invariance, PTL

(***************************************************************************)
(* The tool implements the abstract one-time signer (sign of cli.cpp with  *)
(* Signer::sign): a step that releases a signature is an Issue step on a   *)
(* leaf above all earlier ones, and every other step is a stutter.         *)
(***************************************************************************)
THEOREM Refinement == Spec => ImplementsOneTimeSigner
<1>1. Init => Abstract!Init
  BY DEF Init, Abstract!Init
<1>2. IInv /\ [Next]_vars => [Abstract!Next]_released
  <2> SUFFICES ASSUME IInv, [Next]_vars, ~ UNCHANGED released
               PROVE  Abstract!Next
    OBVIOUS
  <2>1. PICK p \in Procs : SignSig(p)
    BY Frame
  <2>2. PICK s \in Sig : mem[p].sig = {s}
    BY <2>1 DEF SignSig, IInv, TypeOK, Memory, File
  <2>3. \A t \in released : t.kid = s.kid => t.leaf < s.leaf
    BY <2>1, <2>2 DEF SignSig, IInv, SignInv, Fresh
  <2>4. s = [kid |-> s.kid, leaf |-> s.leaf, com |-> s.com]
        /\ s.kid \in Kid /\ s.leaf \in 0..(Capacity - 1) /\ s.com \in Com
    BY DEF Sig
  <2>5. Abstract!Issue(s.kid, s.leaf, s.com)
    BY <2>1, <2>2, <2>3, <2>4 DEF Abstract!Issue, SignSig
  <2>6. QED
    BY <2>4, <2>5 DEF Abstract!Next
<1>3. QED
  BY <1>1, <1>2, Invariance, PTL
  DEF Spec, ImplementsOneTimeSigner, Abstract!Spec

\* One step of the abstract signer keeps its leaves one-time.
LEMMA OneTimeStep ==
    ASSUME released \subseteq Sig, LeafUsedOnce,
           NEW s \in Sig, \A t \in released : t.kid = s.kid => t.leaf < s.leaf
    PROVE  \A t, u \in released \cup {s} :
              t.kid = u.kid /\ t.leaf = u.leaf => t = u
BY ConstantsAssumption DEF LeafUsedOnce, Abstract!OneTime, Sig

(***************************************************************************)
(* No leaf of a key ever signs two commitments, whatever runs beside sign, *)
(* dies in it or cuts its power.                                           *)
(***************************************************************************)
THEOREM NoLeafReuse == Spec => []LeafUsedOnce
<1>1. Init => LeafUsedOnce
  BY DEF Init, LeafUsedOnce, Abstract!OneTime
<1>2. IInv /\ LeafUsedOnce /\ [Next]_vars => LeafUsedOnce'
  <2> SUFFICES ASSUME IInv, LeafUsedOnce, [Next]_vars, ~ UNCHANGED released
               PROVE  LeafUsedOnce'
    BY DEF LeafUsedOnce, Abstract!OneTime
  <2>1. PICK p \in Procs : SignSig(p)
    BY Frame
  <2>2. PICK s \in Sig : mem[p].sig = {s}
    BY <2>1 DEF SignSig, IInv, TypeOK, Memory, File
  <2>3. \A t \in released : t.kid = s.kid => t.leaf < s.leaf
    BY <2>1, <2>2 DEF SignSig, IInv, SignInv, Fresh
  <2>4. released' = released \cup {s} /\ released \subseteq Sig
    BY <2>1, <2>2 DEF SignSig, IInv, TypeOK
  <2>5. QED
    BY <2>2, <2>3, <2>4, OneTimeStep DEF LeafUsedOnce, Abstract!OneTime
<1>3. QED
  BY <1>1, <1>2, Invariance, PTL DEF Spec

(***************************************************************************)
(* No step loses, replaces or rolls back the durable signing key.          *)
(***************************************************************************)
THEOREM KeyNeverRollsBack == Spec => NoRollback
<1>1. IInv /\ [Next]_vars =>
         [\A k \in dur.key : \E l \in dur'.key :
             l.kid = k.kid /\ k.next <= l.next]_vars
  <2> SUFFICES ASSUME IInv, [Next]_vars, NEW k \in dur.key
               PROVE  \E l \in dur'.key : l.kid = k.kid /\ k.next <= l.next
    OBVIOUS
  <2>1. k \in Key
    BY DEF IInv, TypeOK, Directory, File
  <2>2. \/ dur' = dur \/ (\E p \in Procs : SyncDir(p))
        \/ (\E f \in DOMAIN vis : Writeback(f))
    BY Frame
  <2>3. dur'.key \in {dur.key, vis.key}
    BY <2>2 DEF SyncDir, Writeback, IInv, TypeOK, Directory
  <2>4. QED
    BY <2>1, <2>3 DEF IInv, AheadInv, Key
<1>2. QED
  BY <1>1, Invariance, PTL DEF Spec, NoRollback

-----------------------------------------------------------------------------
(* The opening of a commitment is stored before the commitment             *)

\* One user process works in the directory, as the tool's README has it.
SingleUser == \A u, v \in Users : u = v

\* Steps at which commit holds its commitment.
ComSteps == {"com_state", "com_state_sync", "com_com", "com_com_sync"}

\* No commitment in the directory is newer than the durable opening, and the
\* one that commit holds is the newest.
OpenInv ==
    /\ \A o \in dur.state : \E v \in vis.state : o <= v
    /\ \A d \in {vis, dur} : \A c \in d.com : \E o \in dur.state : c <= o
    /\ \A p \in Procs : pc[p] \in ComSteps =>
          p \in Users /\ mem[p].com = {Len(committed)}
    /\ \A p \in Procs : pc[p] = "com_state_sync" => vis.state = mem[p].com
    /\ \A p \in Procs : pc[p] = "com_com" =>
          \A c \in mem[p].com : \E o \in dur.state : c <= o

\* A step of another command, or one that ends commit.
LEMMA OpenElsewhere ==
    ASSUME OpenInv, UNCHANGED <<dur, committed>>,
           vis'.state = vis.state, vis'.com = vis.com,
           \A q \in Procs : pc'[q] \in ComSteps =>
              pc'[q] = pc[q] /\ mem'[q].com = mem[q].com
    PROVE  OpenInv'
BY DEF OpenInv, ComSteps

\* Every step of keygen, sign, prove and verify, and every failing one.
LEMMA OpenOtherStep ==
    ASSUME IInv, OpenInv, NEW p \in Procs,
           \/ GenStart(p) \/ SignStart(p) \/ ProveStart(p) \/ VerifyStart(p)
           \/ GenLock(p) \/ SignLock(p) \/ SignCom(p) \/ SignKey(p)
           \/ ProvePub(p) \/ ProveState(p) \/ ProveSig(p) \/ VerifyPub(p)
           \/ GenCheck(p) \/ GenKey(p) \/ GenPub(p)
           \/ SignReserve(p) \/ SignTree(p) \/ SignSig(p) \/ ProveWrite(p)
           \/ Refuse(p) \/ Fail(p) \/ (\E m \in Messages : VerifySig(p, m))
    PROVE  OpenInv'
<1> USE DEF GenStart, SignStart, ProveStart, VerifyStart, GenLock, SignLock,
            TakeLock, SignCom, SignKey, ProvePub, ProveState, ProveSig,
            VerifyPub, GenCheck, GenKey, GenPub, SignReserve, SignTree, SignSig,
            ProveWrite, Refuse, Fail, VerifySig
<1>1. UNCHANGED <<dur, committed>>
  OBVIOUS
<1>2. vis'.state = vis.state /\ vis'.com = vis.com
  BY DEF Replace, IInv, TypeOK, Directory
<1>3. pc'[p] \notin ComSteps
  BY DEF Exit, IInv, TypeOK, ComSteps
<1>4. \A q \in Procs : q # p => pc'[q] = pc[q] /\ mem'[q] = mem[q]
  BY DEF Exit, IInv, TypeOK
<1>5. QED
  BY <1>1, <1>2, <1>3, <1>4, OpenElsewhere

\* commit draws a number above every earlier one.
LEMMA OpenStartStep ==
    ASSUME SingleUser, IInv, OpenInv, NEW p \in Procs, NEW m \in Messages,
           ComStart(p, m)
    PROVE  OpenInv'
<1> USE DEF ComStart
<1>1. /\ Len(committed') = Len(committed) + 1
      /\ mem'[p].com = {Len(committed) + 1} /\ pc'[p] = "com_state"
      /\ UNCHANGED <<vis, dur>> /\ p \in Users
  BY DEF IInv, TypeOK, Memory
<1>2. \A q \in Procs : q # p => pc'[q] \notin ComSteps
  BY <1>1 DEF SingleUser, OpenInv, IInv, TypeOK, ComSteps
<1>3. QED
  BY <1>1, <1>2 DEF OpenInv, ComSteps

\* commit replaces the visible opening by a newer one.
LEMMA OpenStateStep ==
    ASSUME SingleUser, IInv, OpenInv, NEW p \in Procs, ComState(p)
    PROVE  OpenInv'
<1> USE DEF ComState, Replace
<1>1. /\ vis'.state = mem[p].com /\ vis'.com = vis.com
      /\ pc'[p] = "com_state_sync" /\ mem[p].com = {Len(committed)}
      /\ UNCHANGED <<dur, mem, committed>> /\ p \in Users
  BY DEF OpenInv, ComSteps, IInv, TypeOK, Directory
<1>2. \A q \in Procs : q # p => pc'[q] \notin ComSteps
  BY <1>1 DEF SingleUser, OpenInv, IInv, TypeOK, ComSteps
<1>3. \A o \in dur.state : o <= Len(committed)
  BY DEF IInv, TypeOK, ComInv
<1>4. QED
  BY <1>1, <1>2, <1>3 DEF OpenInv, ComSteps

\* The commitment is published when its opening is durable.
LEMMA OpenComStep ==
    ASSUME SingleUser, IInv, OpenInv, NEW p \in Procs, ComCom(p)
    PROVE  OpenInv'
<1> USE DEF ComCom, Replace
<1>1. /\ vis'.com = mem[p].com /\ vis'.state = vis.state
      /\ pc'[p] = "com_com_sync"
      /\ UNCHANGED <<dur, mem, committed>> /\ p \in Users
  BY DEF OpenInv, ComSteps, IInv, TypeOK, Directory
<1>2. \A q \in Procs : q # p => pc'[q] \notin ComSteps
  BY <1>1 DEF SingleUser, OpenInv, IInv, TypeOK, ComSteps
<1>3. QED
  BY <1>1, <1>2 DEF OpenInv, ComSteps

\* When the durable directory catches up, an opening is replaced by a newer
\* one only.
LEMMA OpenCatchUp ==
    ASSUME IInv, OpenInv, UNCHANGED <<vis, committed>>,
           dur'.state \in {dur.state, vis.state},
           dur'.com \in {dur.com, vis.com}
    PROVE  /\ \A o \in dur'.state : \E v \in vis'.state : o <= v
           /\ \A d \in {vis', dur'} : \A c \in d.com :
                 \E o \in dur'.state : c <= o
           /\ \A c \in Com : (\E o \in dur.state : c <= o) =>
                 \E o \in dur'.state : c <= o
<1>1. /\ dur.state \subseteq Com /\ vis.state \subseteq Com
      /\ dur.com \subseteq Com /\ vis.com \subseteq Com
  BY DEF IInv, TypeOK, Directory, File
<1>2. \A c \in Com : (\E o \in dur.state : c <= o) =>
         \E o \in dur'.state : c <= o
  BY <1>1, ConstantsAssumption DEF OpenInv, Com
<1>3. \A o \in dur'.state : \E v \in vis'.state : o <= v
  BY <1>1, ConstantsAssumption DEF OpenInv, Com
<1>4. \A d \in {vis', dur'} : \A c \in d.com : \E o \in dur'.state : c <= o
  <2> SUFFICES ASSUME NEW c, c \in vis.com \/ c \in dur.com
               PROVE  \E o \in dur'.state : c <= o
    OBVIOUS
  <2>1. c \in Com /\ \E o \in dur.state : c <= o
    BY <1>1 DEF OpenInv
  <2>2. QED
    BY <1>2, <2>1
<1>5. QED
  BY <1>2, <1>3, <1>4

\* The kernel may write the opening or the commitment back first.
LEMMA OpenWritebackStep ==
    ASSUME IInv, OpenInv, NEW f \in DOMAIN vis, Writeback(f)
    PROVE  OpenInv'
<1> USE DEF Writeback
<1>1. /\ UNCHANGED <<vis, pc, mem, committed>>
      /\ dur'.state \in {dur.state, vis.state}
      /\ dur'.com \in {dur.com, vis.com}
  BY DEF IInv, TypeOK, Directory
<1>2. \A q \in Procs : mem[q].com \subseteq Com
  BY DEF IInv, TypeOK, Memory, File
<1>3. \A q \in Procs : pc'[q] = "com_com" =>
         \A c \in mem'[q].com : \E o \in dur'.state : c <= o
  BY <1>1, <1>2, OpenCatchUp DEF OpenInv
<1>4. QED
  BY <1>1, <1>3, OpenCatchUp DEF OpenInv, ComSteps

\* After the directory fsync of commit its opening is durable.
LEMMA OpenSyncStep ==
    ASSUME IInv, OpenInv, NEW p \in Procs, SyncDir(p)
    PROVE  OpenInv'
<1> USE DEF SyncDir
<1>1. UNCHANGED <<vis, committed>> /\ dur' = vis
  OBVIOUS
<1>2. \A q \in Procs : mem[q].com \subseteq Com
  BY DEF IInv, TypeOK, Memory, File
<1>3. \A q \in Procs : q # p => pc'[q] = pc[q] /\ mem'[q] = mem[q]
  BY DEF Exit, IInv, TypeOK
<1>4. pc'[p] \in ComSteps =>
         /\ pc[p] = "com_state_sync" /\ pc'[p] = "com_com"
         /\ mem'[p] = mem[p]
  BY DEF Exit, SyncSteps, AfterSync, ComSteps, IInv, TypeOK
<1>5. ASSUME NEW q \in Procs, pc'[q] = "com_com", NEW c \in mem'[q].com
      PROVE  \E o \in dur'.state : c <= o
  <2>1. CASE q # p
    BY <1>1, <1>2, <1>3, <1>5, <2>1, OpenCatchUp DEF OpenInv
  <2>2. CASE q = p
    <3>1. c \in vis.state /\ c \in Com
      BY <1>2, <1>4, <1>5, <2>2 DEF OpenInv, ComSteps
    <3>2. QED
      BY <1>1, <3>1, ConstantsAssumption DEF Com
  <2>3. QED
    BY <2>1, <2>2
<1>6. \A q \in Procs : pc'[q] \in ComSteps =>
         q \in Users /\ mem'[q].com = {Len(committed')}
  BY <1>1, <1>3, <1>4 DEF OpenInv, ComSteps
<1>7. \A q \in Procs : pc'[q] = "com_state_sync" => vis'.state = mem'[q].com
  BY <1>1, <1>3, <1>4 DEF OpenInv, ComSteps
<1>8. QED
  BY <1>1, <1>5, <1>6, <1>7, OpenCatchUp DEF OpenInv

\* After a power loss the durable directory is the visible one.
LEMMA OpenPowerLossStep ==
    ASSUME IInv, OpenInv, PowerLoss
    PROVE  OpenInv'
<1>1. vis' = dur /\ dur' = dur /\ \A q \in Procs : pc'[q] = "idle"
  BY DEF PowerLoss
<1>2. dur.state \subseteq Com
  BY DEF IInv, TypeOK, Directory, File
<1>3. \A o \in dur.state : o <= o
  BY <1>2, ConstantsAssumption DEF Com
<1>4. QED
  BY <1>1, <1>3 DEF OpenInv, ComSteps

(***************************************************************************)
(* With one user process, a commitment that can be read has its opening or *)
(* that of a later commitment beside it, whatever fails and whenever power *)
(* is lost: commit in cli.cpp stores the opening, synced, first.           *)
(***************************************************************************)
THEOREM OpeningIsStoredFirst ==
    ASSUME SingleUser
    PROVE  Spec => []OpeningStoredFirst
<1>1. Init => OpenInv
  BY DEF Init, OpenInv, ComSteps, EmptyDirectory
<1>2. IInv /\ OpenInv /\ [Next]_vars => OpenInv'
  <2> SUFFICES ASSUME IInv, OpenInv, [Next]_vars PROVE OpenInv'
    OBVIOUS
  <2>1. ASSUME NEW p \in Procs, Start(p) PROVE OpenInv'
    BY <2>1, SingleUser, OpenOtherStep, OpenStartStep DEF Start
  <2>2. ASSUME NEW p \in Procs, Step(p) PROVE OpenInv'
    BY <2>2, SingleUser, OpenOtherStep, OpenStateStep, OpenComStep,
       OpenSyncStep DEF Step
  <2>3. ASSUME Crash PROVE OpenInv'
    BY <2>3, OpenOtherStep, OpenWritebackStep, OpenPowerLossStep DEF Crash
  <2>4. ASSUME UNCHANGED vars PROVE OpenInv'
    BY <2>4 DEF vars, OpenInv, ComSteps
  <2>5. QED
    BY <2>1, <2>2, <2>3, <2>4 DEF Next
<1>3. IInv /\ OpenInv => OpeningStoredFirst
  <2> SUFFICES ASSUME IInv, OpenInv, NEW d \in {vis, dur}, NEW c \in d.com
               PROVE  \E o \in d.state : c <= o
    BY DEF OpeningStoredFirst
  <2>1. dur.state \subseteq Com /\ vis.state \subseteq Com
        /\ vis.com \subseteq Com /\ dur.com \subseteq Com
    BY DEF IInv, TypeOK, Directory, File
  <2>2. PICK o \in dur.state : c <= o
    BY DEF OpenInv
  <2>3. PICK v \in vis.state : o <= v
    BY <2>2 DEF OpenInv
  <2>4. o \in Nat /\ v \in Nat /\ c \in Nat
    BY <2>1, <2>2, <2>3, ConstantsAssumption DEF Com
  <2>5. QED
    BY <2>2, <2>3, <2>4
<1>4. QED
  BY <1>1, <1>2, <1>3, Invariance, PTL DEF Spec

-----------------------------------------------------------------------------
(* Blind signatures are backed by released signatures                      *)

\* An accepted or readable blind signature has a released signature of its
\* key on a commitment to its message; responses are released signatures.
BackedInv ==
    /\ IsFiniteSet(released)
    /\ \A s \in released : s.com \in 1..Len(committed)
    /\ \A p \in Procs : \A s \in mem[p].sig : s.com \in 1..Len(committed)
    /\ \A d \in {vis, dur} : d.sig \subseteq released
    /\ \A p \in Procs : pc[p] = "prove_write" => mem[p].sig \subseteq released
    /\ \A b \in vis.bsig \cup dur.bsig \cup accepted :
          \E s \in released : s.kid = b.kid /\ committed[s.com] = b.msg

\* A step that releases, accepts and proves nothing.
LEMMA BackedElsewhere ==
    ASSUME BackedInv, UNCHANGED <<committed, released, accepted>>,
           vis'.sig \in {vis.sig, dur.sig}, dur'.sig \in {vis.sig, dur.sig},
           vis'.bsig \in {vis.bsig, dur.bsig},
           dur'.bsig \in {vis.bsig, dur.bsig},
           \A q \in Procs : \A s \in mem'[q].sig : s \in mem[q].sig,
           \A q \in Procs : pc'[q] = "prove_write" => pc[q] = "prove_write"
    PROVE  BackedInv'
BY DEF BackedInv

\* Steps that verify nothing and release nothing keep the count.
LEMMA BackedOtherStep ==
    ASSUME IInv, BackedInv, NEW p \in Procs,
           \/ GenStart(p) \/ SignStart(p) \/ ProveStart(p) \/ VerifyStart(p)
           \/ GenLock(p) \/ SignLock(p) \/ SignCom(p) \/ SignKey(p)
           \/ ProvePub(p) \/ ProveState(p) \/ VerifyPub(p)
           \/ GenCheck(p) \/ GenKey(p) \/ GenPub(p)
           \/ ComState(p) \/ ComCom(p) \/ SignReserve(p) \/ SyncDir(p)
           \/ Refuse(p) \/ Fail(p)
    PROVE  BackedInv'
<1> USE DEF GenStart, SignStart, ProveStart, VerifyStart, GenLock, SignLock,
            TakeLock, SignCom, SignKey, ProvePub, ProveState, VerifyPub,
            GenCheck, GenKey, GenPub, ComState, ComCom, SignReserve, SyncDir,
            Refuse, Fail
<1>1. UNCHANGED <<committed, released, accepted>>
  OBVIOUS
<1>2. /\ vis'.sig = vis.sig /\ vis'.bsig = vis.bsig
      /\ dur'.sig \in {vis.sig, dur.sig} /\ dur'.bsig \in {vis.bsig, dur.bsig}
  BY DEF Replace, IInv, TypeOK, Directory
<1>3. mem'[p].sig \subseteq mem[p].sig
  BY DEF Exit, EmptyMemory, IInv, TypeOK, Memory
<1>4. pc'[p] # "prove_write"
  BY DEF Exit, SyncSteps, AfterSync, IInv, TypeOK
<1>5. \A q \in Procs : q # p => pc'[q] = pc[q] /\ mem'[q] = mem[q]
  BY DEF Exit, IInv, TypeOK
<1>6. QED
  BY <1>1, <1>2, <1>3, <1>4, <1>5, BackedElsewhere

\* Appending a commitment leaves the earlier ones as they were.
LEMMA BackedStartStep ==
    ASSUME IInv, BackedInv, NEW p \in Procs, NEW m \in Messages,
           ComStart(p, m)
    PROVE  BackedInv'
<1> USE DEF ComStart
<1>1. /\ Len(committed') = Len(committed) + 1 /\ Len(committed) \in Nat
      /\ \A n \in 1..Len(committed) : committed'[n] = committed[n]
  BY DEF IInv, TypeOK
<1>2. /\ UNCHANGED <<vis, dur, released, accepted>>
      /\ \A q \in Procs : mem'[q].sig = mem[q].sig
      /\ \A q \in Procs : pc'[q] = "prove_write" => pc[q] = "prove_write"
  BY DEF IInv, TypeOK, Memory
<1>3. 1..Len(committed) \subseteq 1..Len(committed')
  BY <1>1
<1>4. QED
  BY <1>1, <1>2, <1>3 DEF BackedInv

\* A signature is made on the commitment that sign read.
LEMMA BackedTreeStep ==
    ASSUME IInv, BackedInv, NEW p \in Procs, SignTree(p)
    PROVE  BackedInv'
<1> USE DEF SignTree
<1>1. PICK k \in mem[p].key, c \in mem[p].com :
         mem' = [mem EXCEPT ![p].sig =
                    {[kid |-> k.kid, leaf |-> k.next, com |-> c]}]
  OBVIOUS
<1>2. \A s \in mem'[p].sig : s.com \in 1..Len(committed)
  BY <1>1 DEF IInv, TypeOK, ComInv, Memory
<1>3. \A q \in Procs : q # p => pc'[q] = pc[q] /\ mem'[q] = mem[q]
  BY <1>1 DEF IInv, TypeOK
<1>4. pc'[p] # "prove_write"
  BY DEF IInv, TypeOK
<1>5. UNCHANGED <<vis, dur, committed, released, accepted>>
  OBVIOUS
<1>6. QED
  BY <1>2, <1>3, <1>4, <1>5 DEF BackedInv

\* The response in the directory is a released signature.
LEMMA BackedSigStep ==
    ASSUME IInv, BackedInv, NEW p \in Procs, SignSig(p)
    PROVE  BackedInv'
<1> USE DEF SignSig, Replace
<1>1. /\ vis'.sig = mem[p].sig /\ vis'.bsig = vis.bsig
      /\ released' = released \cup mem[p].sig
      /\ UNCHANGED <<dur, mem, committed, accepted>>
      /\ \A q \in Procs : pc'[q] = "prove_write" => pc[q] = "prove_write"
  BY DEF IInv, TypeOK, Directory
<1>2. IsFiniteSet(released')
  <2>1. mem[p].sig = {} \/ \E s \in Sig : mem[p].sig = {s}
    BY DEF IInv, TypeOK, Memory, File
  <2>2. IsFiniteSet(released)
    BY DEF BackedInv
  <2>3. \A s : IsFiniteSet(released \cup {s})
    BY <2>2, FS_AddElement
  <2>4. released' = released \/ \E s : released' = released \cup {s}
    BY <1>1, <2>1
  <2>5. QED
    BY <2>2, <2>3, <2>4
<1>3. QED
  BY <1>1, <1>2 DEF BackedInv

\* prove reads a released signature.
LEMMA BackedReadStep ==
    ASSUME IInv, BackedInv, NEW p \in Procs, ProveSig(p)
    PROVE  BackedInv'
<1> USE DEF ProveSig
<1>1. mem'[p].sig = vis.sig
  BY DEF IInv, TypeOK, Memory
<1>2. \A q \in Procs : q # p => pc'[q] = pc[q] /\ mem'[q] = mem[q]
  BY DEF IInv, TypeOK
<1>3. UNCHANGED <<vis, dur, committed, released, accepted>>
  OBVIOUS
<1>4. QED
  BY <1>1, <1>2, <1>3 DEF BackedInv

\* The response that prove checked is on the commitment it opens, under the
\* public key it names: both are single values.
LEMMA BackedProveStep ==
    ASSUME IInv, BackedInv, NEW p \in Procs, ProveWrite(p)
    PROVE  BackedInv'
<1> USE DEF ProveWrite, Replace
<1>1. PICK s \in mem[p].sig : s.kid \in mem[p].pub /\ s.com \in mem[p].com
  BY DEF ResponseValid
<1>2. mem[p].pub = {s.kid} /\ mem[p].com = {s.com}
  BY <1>1 DEF IInv, TypeOK, Memory, File
<1>3. /\ vis'.bsig = {[kid |-> k, msg |-> committed[c]] :
                         k \in mem[p].pub, c \in mem[p].com}
      /\ vis'.sig = vis.sig
      /\ UNCHANGED <<dur, mem, committed, released, accepted>>
      /\ \A q \in Procs : pc'[q] = "prove_write" => pc[q] = "prove_write"
  BY DEF IInv, TypeOK, Directory
<1>4. s \in released
  BY <1>1 DEF BackedInv
<1>5. \A b \in vis'.bsig : b.kid = s.kid /\ b.msg = committed[s.com]
  BY <1>2, <1>3
<1>6. QED
  BY <1>3, <1>4, <1>5 DEF BackedInv

\* verify accepts what is in the directory only.
LEMMA BackedVerifyStep ==
    ASSUME IInv, BackedInv, NEW p \in Procs, NEW m \in Messages,
           VerifySig(p, m)
    PROVE  BackedInv'
<1> USE DEF VerifySig, Exit
<1>1. /\ UNCHANGED <<vis, dur, committed, released>>
      /\ accepted' \subseteq accepted \cup vis.bsig
  OBVIOUS
<1>2. \A q \in Procs : mem'[q].sig \subseteq mem[q].sig
  BY DEF EmptyMemory, IInv, TypeOK
<1>3. \A q \in Procs : pc'[q] = "prove_write" =>
         pc[q] = "prove_write" /\ mem'[q] = mem[q]
  BY DEF IInv, TypeOK
<1>4. QED
  BY <1>1, <1>2, <1>3 DEF BackedInv

\* A power loss brings back artefacts that were there before.
LEMMA BackedCrashStep ==
    ASSUME IInv, BackedInv, (\E f \in DOMAIN vis : Writeback(f)) \/ PowerLoss
    PROVE  BackedInv'
<1>1. CASE \E f \in DOMAIN vis : Writeback(f)
  BY <1>1, BackedElsewhere DEF Writeback, IInv, TypeOK, Directory
<1>2. CASE PowerLoss
  BY <1>2, BackedElsewhere DEF PowerLoss, EmptyMemory
<1>3. QED
  BY <1>1, <1>2

\* Every step keeps blind signatures backed.
LEMMA BackedInductive == IInv /\ BackedInv /\ [Next]_vars => BackedInv'
<1> SUFFICES ASSUME IInv, BackedInv, [Next]_vars PROVE BackedInv'
  OBVIOUS
<1>1. ASSUME NEW p \in Procs, Start(p) PROVE BackedInv'
  BY <1>1, BackedOtherStep, BackedStartStep DEF Start
<1>2. ASSUME NEW p \in Procs, Step(p) PROVE BackedInv'
  BY <1>2, BackedOtherStep, BackedTreeStep, BackedSigStep, BackedReadStep,
     BackedProveStep, BackedVerifyStep DEF Step
<1>3. ASSUME Crash PROVE BackedInv'
  BY <1>3, BackedOtherStep, BackedCrashStep DEF Crash
<1>4. ASSUME UNCHANGED vars PROVE BackedInv'
  BY <1>4 DEF vars, BackedInv
<1>5. QED
  BY <1>1, <1>2, <1>3, <1>4 DEF Next

\* A set every element of which is the image of one of R is no larger.
LEMMA NoMoreThan ==
    ASSUME NEW R, IsFiniteSet(R), NEW S, NEW g \in [R -> S],
           NEW M, \A m \in M : \E r \in R : g[r] = m
    PROVE  Cardinality(M) <= Cardinality(R)
<1> DEFINE T == {g[r] : r \in R}
<1>1. g \in [R -> T]
  OBVIOUS
<1>2. g \in Surjection(R, T)
  BY <1>1, Fun_IsSurj
<1>3. IsFiniteSet(T) /\ Cardinality(T) <= Cardinality(R)
  BY <1>2, FS_Surjection
<1>4. M \in SUBSET T
  OBVIOUS
<1> HIDE DEF T
<1>5. IsFiniteSet(M) /\ Cardinality(M) <= Cardinality(T)
  BY <1>3, <1>4, FS_Subset
<1>6. Cardinality(M) \in Nat /\ Cardinality(T) \in Nat /\ Cardinality(R) \in Nat
  BY <1>3, <1>5, FS_CardinalityType
<1>7. QED
  BY <1>3, <1>5, <1>6

(***************************************************************************)
(* One-more unforgeability at the level of the artefacts, for any number   *)
(* of users and signers: under a key, verify passes no more messages than  *)
(* sign released signatures (unblind checks the response it proves about   *)
(* against the commitment it opens; sign releases before the user can      *)
(* read).                                                                  *)
(***************************************************************************)
THEOREM NoOneMore == Spec => []OneMore
<1>1. Init => BackedInv
  BY FS_EmptySet DEF Init, BackedInv, EmptyDirectory, EmptyMemory
<1>2. BackedInv => OneMore
  <2> SUFFICES ASSUME BackedInv, NEW k \in Kid
               PROVE  Cardinality({a.msg : a \in {b \in accepted : b.kid = k}})
                         <= Cardinality({s \in released : s.kid = k})
    BY DEF OneMore
  <2> DEFINE R == {s \in released : s.kid = k}
             g == [s \in R |-> committed[s.com]]
             M == {a.msg : a \in {b \in accepted : b.kid = k}}
  <2>1. IsFiniteSet(R)
    BY FS_Subset DEF BackedInv
  <2>2. g \in [R -> {committed[s.com] : s \in R}]
    OBVIOUS
  <2>3. \A m \in M : \E s \in R : g[s] = m
    BY DEF BackedInv
  <2> HIDE DEF R, g, M
  <2>4. Cardinality(M) <= Cardinality(R)
    BY <2>1, <2>2, <2>3, NoMoreThan
  <2>5. QED
    BY <2>4 DEF R, M
<1>3. QED
  BY <1>1, <1>2, BackedInductive, Invariance, PTL DEF Spec

-----------------------------------------------------------------------------
(* Part 2: the statement                                                   *)

-----------------------------------------------------------------------------
(* Powers of two                                                           *)

\* 1, and twice as much at each step.
LEMMA Pow2Def ==
  /\ Pow2[0] = 1
  /\ \A n \in Nat : Pow2[n + 1] = 2 * Pow2[n]
  /\ \A n \in Nat : Pow2[n] \in Nat \ {0}
<1>1. Pow2 = [n \in Nat |-> IF n = 0 THEN 1 ELSE 2 * Pow2[n - 1]]
  BY PowersExist, Zenon DEF Pow2
<1> QED BY <1>1, PowersOfTwo, Zenon

\* Powers of two are positive.
LEMMA Pow2Type == \A n \in Nat : Pow2[n] \in Nat \ {0}
BY Pow2Def

\* 2^(a+b) = 2^a * 2^b.
LEMMA Pow2Sum ==
  ASSUME NEW a \in Nat, NEW b \in Nat
  PROVE  Pow2[a + b] = Pow2[a] * Pow2[b]
<1> DEFINE T == {n \in Nat : Pow2[a + n] = Pow2[a] * Pow2[n]}
<1>1. 0 \in T
  BY Pow2Def, Pow2Type
<1>2. ASSUME NEW n \in T PROVE n + 1 \in T
  <2>1. n \in Nat /\ a + n \in Nat /\ a + (n + 1) = (a + n) + 1
        /\ Pow2[a + n] = Pow2[a] * Pow2[n]
    OBVIOUS
  <2>2. Pow2[n + 1] = 2 * Pow2[n] /\ Pow2[a + (n + 1)] = 2 * Pow2[a + n]
    BY <2>1, Pow2Def
  <2>3. Pow2[a] \in Nat /\ Pow2[n] \in Nat
    BY <2>1, Pow2Type
  <2>4. Pow2[a + (n + 1)] = Pow2[a] * Pow2[n + 1]
    BY <2>1, <2>2, <2>3
  <2> QED BY <2>1, <2>4
<1>3. T = Nat
  <2> HIDE DEF T
  <2>1. T \in SUBSET Nat
    BY DEF T
  <2> QED BY <1>1, <1>2, <2>1, NatSetInduction
<1> QED BY <1>3

\* Powers of two grow.
LEMMA Pow2Mono ==
  ASSUME NEW a \in Nat, NEW b \in Nat, a <= b
  PROVE  Pow2[a] <= Pow2[b]
<1>1. Pow2[a] \in Nat \ {0} /\ Pow2[b - a] \in Nat \ {0} /\ Pow2[b] \in Nat \ {0}
  BY Pow2Type
<1>2. Pow2[b] = Pow2[a] * Pow2[b - a]
  <2>1. b - a \in Nat /\ a + (b - a) = b
    OBVIOUS
  <2> QED BY <2>1, Pow2Sum
<1>3. \A p, q \in Nat \ {0} : p <= p * q
  OBVIOUS
<1> QED BY <1>1, <1>2, <1>3

-----------------------------------------------------------------------------
(* Bits                                                                    *)

\* Every number has a quotient and a remainder.
LEMMA DivMod ==
  ASSUME NEW x \in Nat, NEW d \in Nat \ {0}
  PROVE  /\ x \div d \in Nat /\ x % d \in 0..(d - 1)
         /\ x = (x \div d) * d + (x % d)
<1> DEFINE y == x \div d
           r == x % d
<1>1. y \in Nat /\ r \in 0..(d - 1)
  OBVIOUS
<1>2. r = x - d * y
  OBVIOUS
<1> HIDE DEF y, r
<1>3. x = y * d + r
  BY <1>1, <1>2
<1> QED BY <1>1, <1>3 DEF y, r

\* The low bits of a number, one bit further.
LEMMA ModDouble ==
  ASSUME NEW x \in Nat, NEW p \in Nat \ {0}
  PROVE  /\ (x \div p) % 2 \in {0, 1}
         /\ x % (2 * p) = (x % p) + ((x \div p) % 2) * p
<1> DEFINE y == x \div p
           r == x % p
           k == y \div 2
           b == y % 2
<1>1. y \in Nat /\ r \in 0..(p - 1) /\ x = y * p + r
  BY DivMod
<1> HIDE DEF y, r
<1>2. k \in Nat /\ b \in {0, 1} /\ y = k * 2 + b
  BY <1>1
<1> HIDE DEF k, b
<1> DEFINE s == b * p + r
           d == 2 * p
<1>3. s \in Nat /\ d \in Nat \ {0} /\ s < d
  BY <1>1, <1>2
<1>4. (k * 2 + b) * p = k * (2 * p) + b * p
  BY <1>2
<1>5. x = k * d + s
  BY <1>1, <1>2, <1>4
<1> HIDE DEF s, d
<1>6. x % d = s
  BY <1>2, <1>3, <1>5, DivUnique
<1> QED BY <1>1, <1>2, <1>6 DEF s, d, y, r, b

\* The low bits of a number, one bit in front.
LEMMA ModHalf ==
  ASSUME NEW y \in Nat, NEW q \in Nat \ {0}
  PROVE  y % (2 * q) = 2 * ((y \div 2) % q) + (y % 2)
<1> DEFINE h == y \div 2
           b == y % 2
           k == h \div q
           r == h % q
<1>1. h \in Nat /\ b \in {0, 1} /\ y = 2 * h + b
  OBVIOUS
<1> HIDE DEF h, b
<1>2. k \in Nat /\ r \in 0..(q - 1) /\ h = k * q + r
  BY <1>1, DivMod
<1> HIDE DEF k, r
<1> DEFINE s == 2 * r + b
           d == 2 * q
<1>3. s \in Nat /\ d \in Nat \ {0} /\ s < d
  BY <1>1, <1>2
<1>4. 2 * (k * q) = k * (2 * q)
  BY <1>2
<1>5. y = k * d + s
  BY <1>1, <1>2, <1>4
<1> HIDE DEF s, d
<1>6. y % d = s
  BY <1>1, <1>2, <1>3, <1>5, DivUnique
<1> USE DEF s, d, r
<1>7. y % (2 * q) = 2 * (h % q) + b
  BY <1>6
<1>8. h = y \div 2 /\ b = y % 2
  BY DEF h, b
<1> QED BY <1>7, <1>8, Zenon

\* The low bits of a number: none, one more, and all.
LEMMA LowBits ==
  ASSUME NEW x \in Nat
  PROVE  /\ x % Pow2[0] = 0
         /\ \A i \in Nat : /\ BitOf(x, i) \in {0, 1}
                           /\ x % Pow2[i] \in 0..(Pow2[i] - 1)
                           /\ x % Pow2[i + 1] = (x % Pow2[i]) + BitOf(x, i) * Pow2[i]
         /\ \A i \in Nat : x < Pow2[i] => x % Pow2[i] = x
<1>1. x % Pow2[0] = 0
  BY Pow2Def
<1>2. ASSUME NEW i \in Nat
      PROVE  /\ BitOf(x, i) \in {0, 1}
             /\ x % Pow2[i] \in 0..(Pow2[i] - 1)
             /\ x % Pow2[i + 1] = (x % Pow2[i]) + BitOf(x, i) * Pow2[i]
             /\ x < Pow2[i] => x % Pow2[i] = x
  <2> DEFINE p == Pow2[i]
  <2>1. p \in Nat \ {0} /\ Pow2[i + 1] = 2 * p
    BY Pow2Def, Pow2Type
  <2> HIDE DEF p
  <2>2. (x \div p) % 2 \in {0, 1} /\ x % (2 * p) = (x % p) + ((x \div p) % 2) * p
    BY <2>1, ModDouble
  <2>3. x % p \in 0..(p - 1)
    BY <2>1, DivMod
  <2>4. x < p => x % p = x
    BY <2>1
  <2>5. BitOf(x, i) = (x \div p) % 2
    BY DEF BitOf, p
  <2>6. x % Pow2[i + 1] = (x % p) + BitOf(x, i) * p
    BY <2>1, <2>2, <2>5
  <2> QED BY <2>2, <2>3, <2>4, <2>5, <2>6 DEF p
<1> QED BY <1>1, <1>2

-----------------------------------------------------------------------------
(* Wires                                                                   *)

\* One stage of the adder.
LEMMA BitAdder ==
  ASSUME NEW p \in {0, 1}, NEW q \in {0, 1}, NEW c \in {0, 1}
  PROVE  /\ SumBit(p, q, c) \in {0, 1} /\ CarryBit(p, q, c) \in {0, 1}
         /\ p + q + c = SumBit(p, q, c) + 2 * CarryBit(p, q, c)
BY DEF SumBit, CarryBit

\* What the first i stages of the adder compute.
AddLow(a, b, i) ==
    LET carry == IF (a % Pow2[i]) + (b % Pow2[i]) < Pow2[i] THEN 0 ELSE 1
    IN  [sum |-> (a % Pow2[i]) + (b % Pow2[i]) - carry * Pow2[i], carry |-> carry]

\* One stage more.
LEMMA AddLowStep ==
  ASSUME NEW a \in Nat, NEW b \in Nat, NEW i \in Nat
  PROVE  LET acc == AddLow(a, b, i)
             p == BitOf(a, i)
             q == BitOf(b, i)
         IN  AddLow(a, b, i + 1)
             = [sum |-> acc.sum + SumBit(p, q, acc.carry) * Pow2[i],
                carry |-> CarryBit(p, q, acc.carry)]
<1> DEFINE w == Pow2[i]
           u == a % Pow2[i]
           v == b % Pow2[i]
           p == BitOf(a, i)
           q == BitOf(b, i)
           c == IF u + v < w THEN 0 ELSE 1
           s == SumBit(p, q, c)
           d == CarryBit(p, q, c)
           uu == a % Pow2[i + 1]
           vv == b % Pow2[i + 1]
           ww == Pow2[i + 1]
           cc == IF uu + vv < ww THEN 0 ELSE 1
<1>1. /\ w \in Nat \ {0} /\ ww = 2 * w
      /\ u \in 0..(w - 1) /\ v \in 0..(w - 1)
      /\ p \in {0, 1} /\ q \in {0, 1}
      /\ uu = u + p * w /\ vv = v + q * w
  BY Pow2Def, Pow2Type, LowBits
<1>2. c \in {0, 1} /\ u + v - c * w \in 0..(w - 1)
  <2> HIDE DEF w, u, v
  <2> QED BY <1>1
<1>3. s \in {0, 1} /\ d \in {0, 1} /\ p + q + c = s + 2 * d
  <2> HIDE DEF p, q, c
  <2> QED BY <1>1, <1>2, BitAdder
<1>4. cc = d /\ uu + vv - cc * ww = (u + v - c * w) + s * w
  <2> HIDE DEF w, u, v, p, q, c, s, d, uu, vv, ww
  <2>1. /\ p * w = IF p = 0 THEN 0 ELSE w
        /\ q * w = IF q = 0 THEN 0 ELSE w
        /\ c * w = IF c = 0 THEN 0 ELSE w
        /\ s * w = IF s = 0 THEN 0 ELSE w
    BY <1>1, <1>2, <1>3
  <2>2. uu + vv = (u + v - c * w) + s * w + (IF d = 0 THEN 0 ELSE ww)
    BY <1>1, <1>2, <1>3, <2>1
  <2>3. (u + v - c * w) + s * w \in 0..(ww - 1)
    BY <1>1, <1>2, <1>3, <2>1
  <2>4. cc = d
    BY <1>1, <1>3, <2>2, <2>3
  <2>5. cc * ww = IF d = 0 THEN 0 ELSE ww
    BY <1>1, <1>3, <2>4
  <2>6. uu \in Int /\ vv \in Int
    BY <1>1, <2>1
  <2> QED BY <1>1, <2>2, <2>3, <2>4, <2>5, <2>6
<1>5. AddLow(a, b, i) = [sum |-> u + v - c * w, carry |-> c]
  BY DEF AddLow
<1>6. AddLow(a, b, i + 1) = [sum |-> uu + vv - cc * ww, carry |-> cc]
  BY DEF AddLow
<1> HIDE DEF u, v, w, c, uu, vv, cc, ww
<1>7. AddLow(a, b, i).sum = u + v - c * w /\ AddLow(a, b, i).carry = c
  BY <1>5
<1>8. AddLow(a, b, i + 1) = [sum |-> (u + v - c * w) + s * w, carry |-> d]
  BY <1>4, <1>6
<1> QED BY <1>7, <1>8 DEF w

\* The adder adds.
LEMMA AddIs ==
  ASSUME NEW a \in Nat, NEW b \in Nat, NEW n \in Nat
  PROVE  Add(a, b, n) = AddLow(a, b, n)
<1> DEFINE next(r, i) == [sum |-> r.sum + SumBit(BitOf(a, i), BitOf(b, i), r.carry) * Pow2[i],
                          carry |-> CarryBit(BitOf(a, i), BitOf(b, i), r.carry)]
           zero == [sum |-> 0, carry |-> 0]
           low == [i \in 0..n |-> AddLow(a, b, i)]
           acc == CHOOSE g : g = [i \in 0..n |-> IF i = 0 THEN zero ELSE next(g[i - 1], i - 1)]
<1>1. Add(a, b, n) = acc[n]
  BY DEF Add
<1>2. AddLow(a, b, 0) = zero
  BY LowBits, Pow2Def DEF AddLow
<1>3. \A i \in Nat : AddLow(a, b, i + 1) = next(AddLow(a, b, i), i)
  BY AddLowStep
<1> HIDE DEF next, zero
<1>4. \A i \in 0..n : i # 0 => i - 1 \in 0..n /\ i - 1 \in Nat /\ (i - 1) + 1 = i
  OBVIOUS
<1>5. low = [i \in 0..n |-> IF i = 0 THEN zero ELSE next(low[i - 1], i - 1)]
  <2>1. ASSUME NEW i \in 0..n
        PROVE  AddLow(a, b, i) = IF i = 0 THEN zero ELSE next(low[i - 1], i - 1)
    <3>1. CASE i = 0
      BY <1>2, <3>1
    <3>2. CASE i # 0
      <4>1. low[i - 1] = AddLow(a, b, i - 1)
        BY <1>4, <3>2
      <4>2. AddLow(a, b, i) = next(AddLow(a, b, i - 1), i - 1)
        BY <1>3, <1>4, <3>2
      <4> HIDE DEF low
      <4> QED BY <3>2, <4>1, <4>2
    <3> QED BY <3>1, <3>2
  <2> QED BY <2>1, Zenon
<1> HIDE DEF low
<1>6. acc = [i \in 0..n |-> IF i = 0 THEN zero ELSE next(acc[i - 1], i - 1)]
  BY <1>5, Zenon
<1> HIDE DEF acc
<1> DEFINE T == {i \in Nat : i <= n => acc[i] = AddLow(a, b, i)}
<1>7. 0 \in T
  BY <1>2, <1>6
<1>8. ASSUME NEW i \in T PROVE i + 1 \in T
  <2>1. i \in Nat /\ (i <= n => acc[i] = AddLow(a, b, i))
    OBVIOUS
  <2>2. ASSUME i + 1 <= n PROVE acc[i + 1] = AddLow(a, b, i + 1)
    <3>1. i + 1 \in 0..n /\ i + 1 # 0 /\ (i + 1) - 1 = i /\ i <= n
      BY <2>1, <2>2
    <3>2. acc[i + 1] = next(acc[i], i)
      BY <1>6, <3>1
    <3> QED BY <1>3, <2>1, <3>1, <3>2
  <2> QED BY <2>1, <2>2
<1>9. T = Nat
  <2> HIDE DEF T
  <2>1. T \in SUBSET Nat
    BY DEF T
  <2> QED BY <1>7, <1>8, <2>1, NatSetInduction
<1>10. n \in T
  BY <1>9
<1> QED BY <1>1, <1>10

\* What it adds when nothing overflows, and when something does.
LEMMA AddFits ==
  ASSUME NEW a \in Nat, NEW b \in Nat, NEW n \in Nat, a < Pow2[n], b < Pow2[n]
  PROVE  /\ Add(a, b, n).carry = 0 <=> a + b < Pow2[n]
         /\ a + b < Pow2[n] => Add(a, b, n).sum = a + b
<1>1. a % Pow2[n] = a /\ b % Pow2[n] = b
  BY LowBits
<1>2. Add(a, b, n) = AddLow(a, b, n) /\ Pow2[n] \in Nat
  BY AddIs, Pow2Type
<1>3. AddLow(a, b, n).carry = IF a + b < Pow2[n] THEN 0 ELSE 1
  BY <1>1 DEF AddLow
<1>4. a + b < Pow2[n] => AddLow(a, b, n).sum = a + b - 0 * Pow2[n]
  BY <1>1 DEF AddLow
<1> QED BY <1>2, <1>3, <1>4

\* The comparison of a bit more.
LEMMA LessLow ==
  ASSUME NEW a \in Nat, NEW b \in Nat, NEW i \in Nat
  PROVE  a % Pow2[i + 1] < b % Pow2[i + 1]
         <=> \/ BitOf(a, i) = BitOf(b, i) /\ a % Pow2[i] < b % Pow2[i]
             \/ BitOf(a, i) = 0 /\ BitOf(b, i) = 1
<1> DEFINE w == Pow2[i]
           u == a % Pow2[i]
           v == b % Pow2[i]
           p == BitOf(a, i)
           q == BitOf(b, i)
           uu == a % Pow2[i + 1]
           vv == b % Pow2[i + 1]
<1>1. /\ w \in Nat \ {0}
      /\ u \in 0..(w - 1) /\ v \in 0..(w - 1)
      /\ p \in {0, 1} /\ q \in {0, 1}
      /\ uu = u + p * w /\ vv = v + q * w
  BY Pow2Type, LowBits
<1> HIDE DEF w, u, v, p, q, uu, vv
<1>2. p * w = (IF p = 0 THEN 0 ELSE w) /\ q * w = (IF q = 0 THEN 0 ELSE w)
  BY <1>1
<1>3. uu < vv <=> (p = q /\ u < v) \/ (p = 0 /\ q = 1)
  BY <1>1, <1>2
<1> QED BY <1>3 DEF u, v, p, q, uu, vv

\* The comparison of two wires compares numbers.
LEMMA LessIs ==
  ASSUME NEW a \in Index, NEW b \in Index
  PROVE  Less(a, b) <=> a < b
<1> DEFINE n == IndexBits
           next(r, i) == \/ BitOf(a, i) = BitOf(b, i) /\ r
                         \/ BitOf(a, i) = 0 /\ BitOf(b, i) = 1
           Low(i) == a % Pow2[i] < b % Pow2[i]
           low == [i \in 0..n |-> Low(i)]
           less == CHOOSE g : g = [i \in 0..n |-> IF i = 0 THEN FALSE ELSE next(g[i - 1], i - 1)]
<1>1. Less(a, b) = less[n]
  BY DEF Less
<1>2. n \in Nat /\ a \in Nat /\ b \in Nat /\ a < Pow2[n] /\ b < Pow2[n]
  BY ParametersAssumption, Pow2Type DEF Index
<1>3. Low(0) = FALSE
  BY <1>2, LowBits
<1>4. \A i \in Nat : Low(i + 1) = next(Low(i), i)
  <2>1. ASSUME NEW i \in Nat PROVE Low(i + 1) <=> next(Low(i), i)
    BY <1>2, LessLow
  <2>2. \A i \in Nat : Low(i) \in BOOLEAN /\ next(Low(i), i) \in BOOLEAN
    OBVIOUS
  <2> HIDE DEF Low, next
  <2> QED BY <2>1, <2>2
<1>5. \A i : Low(i) \in BOOLEAN
  OBVIOUS
<1> HIDE DEF next, Low
<1>6. \A i \in 0..n : i # 0 => i - 1 \in 0..n /\ i - 1 \in Nat /\ (i - 1) + 1 = i
  BY <1>2
<1>7. low = [i \in 0..n |-> IF i = 0 THEN FALSE ELSE next(low[i - 1], i - 1)]
  <2>1. ASSUME NEW i \in 0..n
        PROVE  Low(i) = IF i = 0 THEN FALSE ELSE next(low[i - 1], i - 1)
    <3>1. CASE i = 0
      BY <1>3, <3>1
    <3>2. CASE i # 0
      <4>1. low[i - 1] = Low(i - 1)
        BY <1>6, <3>2
      <4>2. Low(i) = next(Low(i - 1), i - 1)
        BY <1>4, <1>6, <3>2
      <4> HIDE DEF low
      <4> QED BY <3>2, <4>1, <4>2, Zenon
    <3> QED BY <3>1, <3>2
  <2> QED BY <2>1, Zenon
<1> HIDE DEF low
<1>8. less = [i \in 0..n |-> IF i = 0 THEN FALSE ELSE next(less[i - 1], i - 1)]
  BY <1>7, Zenon
<1> HIDE DEF less, n
<1> DEFINE T == {i \in Nat : i <= n => less[i] = Low(i)}
<1>9. 0 \in T
  <2>1. 0 \in 0..n
    BY <1>2
  <2>2. less[0] = FALSE
    BY <1>8, <2>1, Zenon
  <2> QED BY <1>3, <2>2
<1>10. ASSUME NEW i \in T PROVE i + 1 \in T
  <2>1. i \in Nat /\ (i <= n => less[i] = Low(i))
    OBVIOUS
  <2>2. ASSUME i + 1 <= n PROVE less[i + 1] = Low(i + 1)
    <3>1. i + 1 \in 0..n /\ i + 1 # 0 /\ (i + 1) - 1 = i /\ i <= n
      BY <1>2, <2>1, <2>2
    <3>2. less[i + 1] = next(less[(i + 1) - 1], (i + 1) - 1)
      BY <1>8, <3>1, Zenon
    <3>3. less[i + 1] = next(Low(i), i)
      BY <2>1, <3>1, <3>2, Zenon
    <3> QED BY <1>4, <2>1, <3>3, Zenon
  <2>3. i + 1 \in Nat
    BY <2>1
  <2> QED BY <2>2, <2>3
<1>11. T = Nat
  <2> HIDE DEF T
  <2>1. T \in SUBSET Nat
    BY DEF T
  <2> QED BY <1>9, <1>10, <2>1, NatSetInduction
<1>12. less[n] = Low(n)
  <2>1. n \in T /\ n <= n
    BY <1>11, <1>2
  <2> QED BY <2>1
<1>13. Low(n) <=> a < b
  <2>1. a % Pow2[n] = a /\ b % Pow2[n] = b
    BY <1>2, LowBits
  <2> QED BY <2>1 DEF Low
<1> QED BY <1>1, <1>12, <1>13, Zenon

\* The prefixes that are left after bit FlagBits - 1 - i: that of the index,
\* if a chain begins with it.
Prefix(index, i) == (index \div Pow2[FlagBits - 1 - i]) % Pow2[i + 1]
FlagsLow(index, i) ==
    IF Prefix(index, i) * Pow2[FlagBits - 1 - i] < NumChains THEN {Prefix(index, i)} ELSE {}

\* A prefix is dropped when no chain begins with it.
LEMMA PrefixCount ==
  ASSUME NEW f \in Nat, NEW p \in Nat \ {0}
  PROVE  f < (NumChains + p - 1) \div p <=> f * p < NumChains
<1> DEFINE N == NumChains
           y == N + p - 1
           z == y \div p
<1>1. N \in Nat /\ y \in Nat /\ y = N + p - 1
  BY ParametersAssumption
<1>2. z \in Nat /\ p * z <= y /\ y < p * z + p
  BY <1>1
<1> HIDE DEF N, y, z
<1>3. f < z => f * p < N
  <2>1. f < z => p * (f + 1) <= p * z
    BY <1>2
  <2>2. p * (f + 1) = f * p + p
    OBVIOUS
  <2>3. f * p \in Nat /\ p * z \in Nat
    BY <1>2
  <2> QED BY <1>1, <1>2, <2>1, <2>2, <2>3
<1>4. f >= z => f * p >= N
  <2>1. f >= z => f * p >= p * z
    BY <1>2
  <2>2. f * p \in Nat /\ p * z \in Nat
    BY <1>2
  <2> QED BY <1>1, <1>2, <2>1, <2>2
<1>5. f * p \in Nat
  OBVIOUS
<1>6. f < z <=> f * p < N
  BY <1>1, <1>2, <1>3, <1>4, <1>5
<1> QED BY <1>6 DEF N, y, z

\* One bit more.
LEMMA FlagsStep ==
  ASSUME NEW index \in Nat, NEW i \in Nat, i + 1 <= FlagBits - 1
  PROVE  LET bit == FlagBits - 1 - (i + 1)
         IN  FlagsLow(index, i + 1)
             = {f \in {2 * g + BitOf(index, bit) : g \in FlagsLow(index, i)} :
                   f < (NumChains + Pow2[bit] - 1) \div Pow2[bit]}
<1> DEFINE bit == FlagBits - 1 - (i + 1)
           p == Pow2[bit]
           y == index \div p
           q == Pow2[i + 1]
           b == BitOf(index, bit)
           v == Prefix(index, i)
           vv == Prefix(index, i + 1)
<1>1. /\ bit \in Nat /\ FlagBits - 1 - i = bit + 1 /\ i + 1 \in Nat
      /\ FlagBits - 1 - (i + 1) = bit
  BY ParametersAssumption
<1> HIDE DEF bit
<1>2. p \in Nat \ {0} /\ q \in Nat \ {0} /\ Pow2[bit + 1] = 2 * p /\ Pow2[(i + 1) + 1] = 2 * q
  BY <1>1, Pow2Def, Pow2Type
<1>3. y \in Nat /\ index \div (2 * p) = y \div 2
  <2> HIDE DEF p
  <2> QED BY <1>2
<1>4. v = (y \div 2) % q
  BY <1>1, <1>2, <1>3 DEF Prefix
<1>5. vv = y % (2 * q)
  BY <1>1, <1>2 DEF Prefix
<1>6. b = y % 2
  BY DEF BitOf
<1>7. vv = 2 * v + b
  <2> HIDE DEF y, q, v, vv, b
  <2> QED BY <1>2, <1>3, <1>4, <1>5, <1>6, ModHalf
<1>8. v \in Nat /\ b \in {0, 1} /\ vv \in Nat
  <2> HIDE DEF y, q, v, vv, b
  <2>1. v \in Nat /\ b \in {0, 1}
    BY <1>2, <1>3, <1>4, <1>6
  <2> QED BY <1>7, <2>1
<1>9. FlagsLow(index, i) = IF v * (2 * p) < NumChains THEN {v} ELSE {}
  BY <1>1, <1>2 DEF FlagsLow
<1>10. FlagsLow(index, i + 1) = IF vv * p < NumChains THEN {vv} ELSE {}
  BY <1>1 DEF FlagsLow
<1>11. vv < (NumChains + p - 1) \div p <=> vv * p < NumChains
  BY <1>2, <1>8, PrefixCount
<1>12. vv * p < NumChains => v * (2 * p) < NumChains
  <2> HIDE DEF p, v, vv, b
  <2>1. (2 * v + b) * p = v * (2 * p) + b * p
    BY <1>2, <1>8
  <2>2. b * p \in Nat /\ v * (2 * p) \in Nat
    BY <1>2, <1>8
  <2> QED BY <1>7, <2>1, <2>2, ParametersAssumption
<1>13. {2 * g + b : g \in FlagsLow(index, i)} = IF v * (2 * p) < NumChains THEN {vv} ELSE {}
  <2> HIDE DEF p, v, vv, b
  <2> QED BY <1>7, <1>9
<1> HIDE DEF p, v, vv, b
<1>14. FlagsLow(index, i + 1)
       = {f \in {2 * g + b : g \in FlagsLow(index, i)} : f < (NumChains + p - 1) \div p}
  BY <1>10, <1>11, <1>12, <1>13
<1> QED BY <1>14 DEF p, b, bit

\* The flags of an index select the chain of its low bits, if there is one.
LEMMA FlagsAre ==
  ASSUME NEW index \in Nat
  PROVE  Flags(index) = IF index % Pow2[FlagBits] < NumChains
                        THEN {index % Pow2[FlagBits]} ELSE {}
<1> DEFINE n == FlagBits - 1
           Heads(bit) == (NumChains + Pow2[bit] - 1) \div Pow2[bit]
           next(r, i) == {f \in {2 * g + BitOf(index, n - i) : g \in r} : f < Heads(n - i)}
           base == {BitOf(index, n)}
           low == [i \in 0..n |-> FlagsLow(index, i)]
           flags == CHOOSE g : g = [i \in 0..n |-> IF i = 0 THEN base ELSE next(g[i - 1], i)]
<1>1. Flags(index) = flags[n]
  BY DEF Flags
<1>2. n \in Nat /\ n + 1 = FlagBits
  BY ParametersAssumption
<1>3. FlagsLow(index, 0) = base
  <2>1. n - 0 = n /\ 0 + 1 = 1 /\ Pow2[n] \in Nat /\ Pow2[0] = 1 /\ Pow2[0 + 1] = 2 * Pow2[0]
    BY <1>2, Pow2Type, Pow2Def
  <2>2. Prefix(index, 0) = BitOf(index, n)
    BY <2>1 DEF Prefix, BitOf
  <2>3. BitOf(index, n) \in {0, 1}
    BY <1>2, LowBits
  <2>4. BitOf(index, n) * Pow2[n] < NumChains
    <3>1. Pow2[n] < NumChains
      BY ParametersAssumption
    <3>2. 0 < NumChains
      BY ParametersAssumption
    <3> HIDE DEF n
    <3> QED BY <2>1, <2>3, <3>1, <3>2
  <2> QED BY <2>1, <2>2, <2>4 DEF FlagsLow
<1>4. \A i \in Nat : i + 1 <= n => FlagsLow(index, i + 1) = next(FlagsLow(index, i), i + 1)
  BY FlagsStep
<1> HIDE DEF next, base, n
<1>5. \A i \in 0..n : i # 0 => i - 1 \in 0..n /\ i - 1 \in Nat /\ (i - 1) + 1 = i /\ i <= n
  BY <1>2
<1>6. low = [i \in 0..n |-> IF i = 0 THEN base ELSE next(low[i - 1], i)]
  <2>1. ASSUME NEW i \in 0..n
        PROVE  FlagsLow(index, i) = IF i = 0 THEN base ELSE next(low[i - 1], i)
    <3>1. CASE i = 0
      BY <1>3, <3>1
    <3>2. CASE i # 0
      <4>1. low[i - 1] = FlagsLow(index, i - 1)
        BY <1>5, <3>2
      <4>2. FlagsLow(index, i) = next(FlagsLow(index, i - 1), i)
        <5>1. i - 1 \in Nat /\ (i - 1) + 1 = i /\ i <= n
          BY <1>5, <3>2
        <5>2. FlagsLow(index, (i - 1) + 1) = next(FlagsLow(index, i - 1), (i - 1) + 1)
          BY <1>4, <5>1
        <5> QED BY <5>1, <5>2
      <4> HIDE DEF low
      <4> QED BY <3>2, <4>1, <4>2, Zenon
    <3> QED BY <3>1, <3>2
  <2> QED BY <2>1, Zenon
<1> HIDE DEF low
<1>7. flags = [i \in 0..n |-> IF i = 0 THEN base ELSE next(flags[i - 1], i)]
  BY <1>6, Zenon
<1> HIDE DEF flags
<1> DEFINE T == {i \in Nat : i <= n => flags[i] = FlagsLow(index, i)}
<1>8. 0 \in T
  BY <1>2, <1>3, <1>7
<1>9. ASSUME NEW i \in T PROVE i + 1 \in T
  <2>1. i \in Nat /\ (i <= n => flags[i] = FlagsLow(index, i))
    OBVIOUS
  <2>2. ASSUME i + 1 <= n PROVE flags[i + 1] = FlagsLow(index, i + 1)
    <3>1. i + 1 \in 0..n /\ i + 1 # 0 /\ (i + 1) - 1 = i /\ i <= n
      BY <1>2, <2>1, <2>2
    <3>2. flags[i + 1] = next(flags[i], i + 1)
      BY <1>7, <3>1
    <3> QED BY <1>4, <2>1, <2>2, <3>1, <3>2
  <2> QED BY <2>1, <2>2
<1>10. T = Nat
  <2> HIDE DEF T
  <2>1. T \in SUBSET Nat
    BY DEF T
  <2> QED BY <1>8, <1>9, <2>1, NatSetInduction
<1>11. flags[n] = FlagsLow(index, n)
  <2>1. n \in T /\ n <= n
    BY <1>10, <1>2
  <2> QED BY <2>1
<1>12. FlagBits - 1 - n = 0 /\ Pow2[0] = 1
  BY <1>2, Pow2Def, ParametersAssumption
<1>13. index % Pow2[FlagBits] \in Nat
  <2>1. FlagBits \in Nat /\ Pow2[FlagBits] \in Nat \ {0}
    BY Pow2Type, ParametersAssumption
  <2>2. index % Pow2[FlagBits] \in 0..(Pow2[FlagBits] - 1)
    BY <2>1, DivMod
  <2> QED BY <2>1, <2>2
<1>14. Prefix(index, n) = index % Pow2[FlagBits]
  <2>1. index \div 1 = index
    OBVIOUS
  <2> QED BY <1>2, <1>12, <2>1 DEF Prefix
<1> QED BY <1>1, <1>11, <1>12, <1>13, <1>14 DEF FlagsLow

\* No bit of an index is set past those that the flags decode.
HighBitsZero(index) == \A i \in FlagBits..(IndexBits - 1) : BitOf(index, i) = 0

\* These are the indices that the flags decode as they are.
LEMMA HighBits ==
  ASSUME NEW index \in Index
  PROVE  HighBitsZero(index) <=> index < Pow2[FlagBits]
<1>1. /\ FlagBits \in Nat /\ IndexBits \in Nat /\ FlagBits <= IndexBits
      /\ index \in Nat /\ index < Pow2[IndexBits]
  BY ParametersAssumption, Pow2Type DEF Index
<1>2. ASSUME HighBitsZero(index) PROVE index < Pow2[FlagBits]
  <2> DEFINE T == {i \in Nat : FlagBits + i <= IndexBits
                               => index % Pow2[FlagBits + i] = index % Pow2[FlagBits]}
  <2>1. 0 \in T
    BY <1>1
  <2>2. ASSUME NEW i \in T PROVE i + 1 \in T
    <3>1. i \in Nat /\ (FlagBits + i <= IndexBits
                        => index % Pow2[FlagBits + i] = index % Pow2[FlagBits])
      OBVIOUS
    <3>2. ASSUME FlagBits + (i + 1) <= IndexBits
          PROVE  index % Pow2[FlagBits + (i + 1)] = index % Pow2[FlagBits]
      <4> DEFINE k == FlagBits + i
      <4>1. /\ k \in Nat /\ FlagBits + (i + 1) = k + 1 /\ k <= IndexBits
            /\ k \in FlagBits..(IndexBits - 1)
        BY <1>1, <3>1, <3>2
      <4>2. index % Pow2[k] = index % Pow2[FlagBits]
        BY <3>1, <4>1
      <4> HIDE DEF k
      <4>3. index % Pow2[k + 1] = (index % Pow2[k]) + BitOf(index, k) * Pow2[k]
        BY <1>1, <4>1, LowBits
      <4>4. BitOf(index, k) = 0
        BY <1>2, <4>1 DEF HighBitsZero
      <4>5. Pow2[k] \in Nat /\ index % Pow2[k] \in Int
        <5>1. Pow2[k] \in Nat
          BY <4>1, Pow2Type
        <5>2. index % Pow2[k] \in 0..(Pow2[k] - 1)
          BY <1>1, <4>1, LowBits
        <5> QED BY <5>1, <5>2
      <4>6. index % Pow2[k + 1] = index % Pow2[k]
        BY <4>3, <4>4, <4>5
      <4> QED BY <4>1, <4>2, <4>6
    <3> QED BY <3>1, <3>2
  <2>3. T = Nat
    <3> HIDE DEF T
    <3>1. T \in SUBSET Nat
      BY DEF T
    <3> QED BY <2>1, <2>2, <3>1, NatSetInduction
  <2>4. IndexBits - FlagBits \in Nat /\ FlagBits + (IndexBits - FlagBits) = IndexBits
    BY <1>1
  <2>5. IndexBits - FlagBits \in T
    <3> HIDE DEF T
    <3> QED BY <2>3, <2>4
  <2>6. index % Pow2[IndexBits] = index % Pow2[FlagBits]
    BY <1>1, <2>4, <2>5
  <2>7. index % Pow2[IndexBits] = index
    BY <1>1, LowBits
  <2>8. index % Pow2[FlagBits] \in 0..(Pow2[FlagBits] - 1) /\ Pow2[FlagBits] \in Nat
    BY <1>1, LowBits, Pow2Type
  <2> QED BY <1>1, <2>6, <2>7, <2>8
<1>3. ASSUME index < Pow2[FlagBits] PROVE HighBitsZero(index)
  <2>1. ASSUME NEW i \in FlagBits..(IndexBits - 1) PROVE BitOf(index, i) = 0
    <3>1. i \in Nat /\ FlagBits <= i
      BY <1>1
    <3>2. Pow2[i] \in Nat \ {0} /\ index < Pow2[i]
      <4>1. Pow2[FlagBits] <= Pow2[i]
        BY <1>1, <3>1, Pow2Mono
      <4> QED BY <1>1, <1>3, <3>1, <4>1, Pow2Type
    <3>3. index \div Pow2[i] = 0
      BY <1>1, <3>2
    <3> QED BY <3>3 DEF BitOf
  <2> QED BY <2>1 DEF HighBitsZero
<1> QED BY <1>2, <1>3

\* Every chain has an index.
LEMMA ChainInIndex == Chain \subseteq Index
<1>1. /\ FlagBits \in Nat /\ IndexBits \in Nat /\ FlagBits <= IndexBits
      /\ NumChains \in Nat /\ NumChains <= Pow2[FlagBits]
  BY ParametersAssumption
<1>2. Pow2[FlagBits] <= Pow2[IndexBits] /\ Pow2[FlagBits] \in Nat /\ Pow2[IndexBits] \in Nat
  BY <1>1, Pow2Mono, Pow2Type
<1> QED BY <1>1, <1>2 DEF Chain, Index

\* The indices that the constraints on flags and high bits leave are the chains.
LEMMA IndexOfChain ==
  ASSUME NEW index \in Index
  PROVE  /\ HighBitsZero(index) /\ Cardinality(Flags(index)) = 1 <=> index \in Chain
         /\ index \in Chain => Flags(index) = {index} /\ Selected(index) = index
<1>1. /\ FlagBits \in Nat /\ index \in Nat /\ NumChains \in Nat
      /\ NumChains <= Pow2[FlagBits] /\ Pow2[FlagBits] \in Nat
  BY ParametersAssumption, Pow2Type DEF Index
<1>2. index < Pow2[FlagBits] => index % Pow2[FlagBits] = index
  BY <1>1, LowBits
<1>3. index \in Chain <=> index < NumChains
  BY <1>1 DEF Chain
<1>4. index \in Chain => Flags(index) = {index} /\ Selected(index) = index
  <2>1. ASSUME index \in Chain PROVE Flags(index) = {index}
    BY <1>1, <1>2, <1>3, <2>1, FlagsAre
  <2> QED BY <2>1 DEF Selected
<1>5. HighBitsZero(index) /\ Cardinality(Flags(index)) = 1 => index \in Chain
  <2>1. ASSUME HighBitsZero(index), Cardinality(Flags(index)) = 1 PROVE index \in Chain
    <3>1. index % Pow2[FlagBits] = index
      BY <1>2, <2>1, HighBits
    <3>2. Flags(index) # {}
      BY <2>1, FS_EmptySet
    <3> QED BY <1>1, <1>3, <3>1, <3>2, FlagsAre
  <2> QED BY <2>1
<1>6. index \in Chain => HighBitsZero(index) /\ Cardinality(Flags(index)) = 1
  <2>1. ASSUME index \in Chain PROVE HighBitsZero(index) /\ Cardinality(Flags(index)) = 1
    <3>1. HighBitsZero(index)
      BY <1>1, <1>3, <2>1, HighBits
    <3>2. Cardinality({index}) = 1
      BY FS_Singleton
    <3> QED BY <1>4, <2>1, <3>1, <3>2
  <2> QED BY <2>1
<1> QED BY <1>4, <1>5, <1>6

-----------------------------------------------------------------------------
(* Positions and sums                                                      *)

\* What the parameters say in numbers.
LEMMA ParameterFacts ==
  /\ NumChains \in Nat \ {0} /\ Rows \in Nat \ {0} /\ Height \in Nat
  /\ MaxPos \in Nat \ {0} /\ Pow2[PosBits] = MaxPos + 1
  /\ SumBits \in Nat /\ PosBits \in Nat /\ NumChains * MaxPos < Pow2[SumBits]
  /\ Pow2[SumBits] \in Nat
<1>1. PosBits \in Nat /\ 1 <= PosBits /\ SumBits \in Nat
  BY ParametersAssumption
<1>2. Pow2[1] = 2
  <2>1. 0 + 1 = 1
    OBVIOUS
  <2> QED BY <2>1, Pow2Def
<1>3. Pow2[1] <= Pow2[PosBits]
  BY <1>1, Pow2Mono
<1>4. Pow2[PosBits] \in Nat /\ Pow2[SumBits] \in Nat
  BY <1>1, Pow2Type
<1>5. MaxPos \in Nat \ {0} /\ Pow2[PosBits] = MaxPos + 1
  BY <1>2, <1>3, <1>4 DEF MaxPos
<1> QED BY <1>1, <1>4, <1>5, ParametersAssumption

\* A position can be stepped on unless it is the last one.
LEMMA NextPosition ==
  ASSUME NEW x \in 0..MaxPos
  PROVE  /\ Add(x, 1, PosBits).carry = 0 <=> x < MaxPos
         /\ x < MaxPos => Add(x, 1, PosBits).sum = x + 1
<1>1. x \in Nat /\ x < Pow2[PosBits] /\ 1 < Pow2[PosBits] /\ PosBits \in Nat /\ 1 \in Nat
  BY ParameterFacts
<1>2. /\ Add(x, 1, PosBits).carry = 0 <=> x + 1 < Pow2[PosBits]
      /\ x + 1 < Pow2[PosBits] => Add(x, 1, PosBits).sum = x + 1
  BY <1>1, AddFits
<1>3. x + 1 < Pow2[PosBits] <=> x < MaxPos
  BY ParameterFacts
<1> QED BY <1>2, <1>3

\* The chains are a finite set.
LEMMA ChainsFinite == IsFiniteSet(Chain) /\ Cardinality(Chain) = NumChains
<1>1. NumChains \in Nat \ {0}
  BY ParameterFacts
<1>2. IsFiniteSet(0..(NumChains - 1)) /\ Cardinality(0..(NumChains - 1)) = NumChains - 1 - 0 + 1
  BY <1>1, FS_Interval
<1> QED BY <1>1, <1>2 DEF Chain

\* The sum over the first c chains, for values up to MaxPos.
LEMMA FirstChains ==
  ASSUME NEW f, \A c \in Chain : f[c] \in 0..MaxPos
  PROVE  /\ Total(f, 0..(0 - 1)) = 0
         /\ \A c \in 0..NumChains : Total(f, 0..(c - 1)) \in 0..(c * MaxPos)
         /\ \A c \in Chain :
               Total(f, 0..((c + 1) - 1)) = Total(f, 0..(c - 1)) + f[c]
<1> DEFINE S(c) == 0..(c - 1)
<1>1. NumChains \in Nat /\ MaxPos \in Nat
  BY ParameterFacts
<1>2. \A c \in Chain : f[c] \in 0..MaxPos
  OBVIOUS
<1>3. S(0) = {}
  OBVIOUS
<1>4. Total(f, S(0)) = 0
  BY <1>3, TotalEmpty
<1>5. ASSUME NEW c \in Chain
      PROVE  Total(f, S(c + 1)) = Total(f, S(c)) + f[c]
  <2>1. c \in Nat /\ c < NumChains
    BY <1>1 DEF Chain
  <2>2. S(c + 1) = S(c) \cup {c} /\ c \notin S(c) /\ S(c + 1) \subseteq Chain
    BY <1>1, <2>1 DEF Chain
  <2>3. IsFiniteSet(S(c))
    BY <2>1, FS_Interval
  <2> HIDE DEF S
  <2>4. \A x \in S(c) \cup {c} : f[x] \in Int
    BY <1>1, <1>2, <2>2
  <2>5. Total(f, S(c) \cup {c}) = f[c] + Total(f, S(c))
    BY <2>2, <2>3, <2>4, TotalAdd
  <2>6. Total(f, S(c)) \in Int /\ f[c] \in Int
    BY <2>3, <2>4, TotalStep
  <2>7. Total(f, S(c + 1)) = Total(f, S(c) \cup {c})
    BY <2>2
  <2> QED BY <2>5, <2>6, <2>7
<1> HIDE DEF S
<1>6. \A c \in 0..NumChains : Total(f, S(c)) \in 0..(c * MaxPos)
  <2> DEFINE T == {c \in Nat : c <= NumChains => Total(f, S(c)) \in 0..(c * MaxPos)}
  <2>1. 0 \in T
    <3>1. 0 \in 0..(0 * MaxPos)
      BY <1>1
    <3> QED BY <1>4, <3>1
  <2>2. ASSUME NEW c \in T PROVE c + 1 \in T
    <3>1. c \in Nat /\ (c <= NumChains => Total(f, S(c)) \in 0..(c * MaxPos))
      OBVIOUS
    <3>2. ASSUME c + 1 <= NumChains
          PROVE  Total(f, S(c + 1)) \in 0..((c + 1) * MaxPos)
      <4>1. c \in Chain /\ c <= NumChains
        BY <1>1, <3>1, <3>2 DEF Chain
      <4>2. Total(f, S(c + 1)) = Total(f, S(c)) + f[c]
        BY <1>5, <4>1
      <4>3. f[c] \in 0..MaxPos /\ Total(f, S(c)) \in 0..(c * MaxPos)
        BY <1>2, <3>1, <4>1
      <4>4. (c + 1) * MaxPos = c * MaxPos + MaxPos /\ c * MaxPos \in Nat
        BY <1>1, <3>1
      <4> QED BY <1>1, <4>2, <4>3, <4>4
    <3> QED BY <3>1, <3>2
  <2>3. T = Nat
    <3> HIDE DEF T
    <3>1. T \in SUBSET Nat
      BY DEF T
    <3> QED BY <2>1, <2>2, <3>1, NatSetInduction
  <2>4. \A c \in 0..NumChains : c \in Nat /\ c <= NumChains
    BY <1>1
  <2> QED BY <2>3, <2>4
<1> QED BY <1>4, <1>5, <1>6 DEF S

\* The sum of the coordinates on wires is the sum of the coordinates.
LEMMA CoordSumIs ==
  ASSUME coords \in [Chain -> 0..MaxPos]
  PROVE  CoordSum = Total(coords, Chain)
<1> DEFINE n == NumChains
           next(r, c) == Add(r, coords[c], SumBits).sum
           first(c) == Total(coords, 0..(c - 1))
           low == [c \in 0..n |-> first(c)]
           sum == CHOOSE g : g = [c \in 0..n |-> IF c = 0 THEN 0 ELSE next(g[c - 1], c - 1)]
<1>1. CoordSum = sum[n]
  BY DEF CoordSum
<1>2. n \in Nat /\ first(n) = Total(coords, Chain)
  BY ParameterFacts DEF Chain
<1>3. \A c \in Chain : coords[c] \in 0..MaxPos
  OBVIOUS
<1>4. first(0) = 0
  BY <1>3, FirstChains
<1>5. ASSUME NEW c \in Nat, c + 1 <= n PROVE first(c + 1) = next(first(c), c)
  <2>1. c \in Chain /\ c \in 0..NumChains /\ c + 1 \in 0..NumChains
    BY <1>2, <1>5 DEF Chain
  <2>2. /\ first(c) \in 0..(c * MaxPos) /\ first(c + 1) \in 0..((c + 1) * MaxPos)
        /\ first(c + 1) = first(c) + coords[c]
    BY <2>1, <1>3, FirstChains
  <2>3. (c + 1) * MaxPos <= NumChains * MaxPos /\ (c + 1) * MaxPos \in Nat
        /\ NumChains * MaxPos \in Nat
    <3>1. \A a, b, m \in Nat : a <= b => a * m <= b * m /\ a * m \in Nat /\ b * m \in Nat
      OBVIOUS
    <3> QED BY <1>2, <1>5, <3>1, ParameterFacts
  <2>4. coords[c] \in Nat /\ first(c) \in Nat
    <3>1. coords[c] \in 0..MaxPos
      BY <2>1
    <3>2. c * MaxPos \in Nat
      BY ParameterFacts
    <3> HIDE DEF first
    <3> QED BY <2>2, <3>1, <3>2, ParameterFacts
  <2>5. first(c) + coords[c] < Pow2[SumBits]
    <3> HIDE DEF first
    <3> QED BY <2>2, <2>3, <2>4, ParameterFacts
  <2> HIDE DEF first
  <2>6. first(c) < Pow2[SumBits] /\ coords[c] < Pow2[SumBits]
    BY <2>4, <2>5, ParameterFacts
  <2>7. Add(first(c), coords[c], SumBits).sum = first(c) + coords[c]
    BY <2>4, <2>5, <2>6, ParameterFacts, AddFits
  <2> QED BY <2>2, <2>7
<1> HIDE DEF next, first, n
<1>6. \A c \in 0..n : c # 0 => c - 1 \in 0..n /\ c - 1 \in Nat /\ (c - 1) + 1 = c /\ c <= n
  BY <1>2
<1>7. low = [c \in 0..n |-> IF c = 0 THEN 0 ELSE next(low[c - 1], c - 1)]
  <2>1. ASSUME NEW c \in 0..n
        PROVE  first(c) = IF c = 0 THEN 0 ELSE next(low[c - 1], c - 1)
    <3>1. CASE c = 0
      BY <1>4, <3>1
    <3>2. CASE c # 0
      <4>1. low[c - 1] = first(c - 1)
        BY <1>6, <3>2
      <4>2. first(c) = next(first(c - 1), c - 1)
        <5>1. c - 1 \in Nat /\ (c - 1) + 1 = c /\ c <= n
          BY <1>6, <3>2
        <5>2. first((c - 1) + 1) = next(first(c - 1), c - 1)
          BY <1>5, <5>1
        <5> QED BY <5>1, <5>2
      <4> HIDE DEF low
      <4> QED BY <3>2, <4>1, <4>2, Zenon
    <3> QED BY <3>1, <3>2
  <2> QED BY <2>1, Zenon
<1> HIDE DEF low
<1>8. sum = [c \in 0..n |-> IF c = 0 THEN 0 ELSE next(sum[c - 1], c - 1)]
  BY <1>7, Zenon
<1> HIDE DEF sum
<1> DEFINE T == {c \in Nat : c <= n => sum[c] = first(c)}
<1>9. 0 \in T
  BY <1>2, <1>4, <1>8
<1>10. ASSUME NEW c \in T PROVE c + 1 \in T
  <2>1. c \in Nat /\ (c <= n => sum[c] = first(c))
    OBVIOUS
  <2>2. ASSUME c + 1 <= n PROVE sum[c + 1] = first(c + 1)
    <3>1. c + 1 \in 0..n /\ c + 1 # 0 /\ (c + 1) - 1 = c /\ c <= n
      BY <1>2, <2>1, <2>2
    <3>2. sum[c + 1] = next(sum[c], c)
      BY <1>8, <3>1
    <3> QED BY <1>5, <2>1, <2>2, <3>1, <3>2
  <2> QED BY <2>1, <2>2
<1>11. T = Nat
  <2> HIDE DEF T
  <2>1. T \in SUBSET Nat
    BY DEF T
  <2> QED BY <1>9, <1>10, <2>1, NatSetInduction
<1>12. n \in T /\ n <= n
  BY <1>11, <1>2
<1>13. sum[n] = first(n)
  BY <1>12
<1> QED BY <1>1, <1>2, <1>13

-----------------------------------------------------------------------------
(* The inductive invariant of the statement                                *)

\* The node of chain c at a position.
NodeAt(c, pos) ==
    [base |-> c, tweaks |-> [k \in 1..(pos - coords[c]) |-> <<c, coords[c] + k>>]]

\* The rows that the chains need, that the chains before c need, and that have
\* been spent on each chain.
Needed == [c \in Chain |-> MaxPos - coords[c]]
NeededBefore(c) == Total(Needed, 0..(c - 1))
Walked ==
    [c \in Chain |->
        IF row > 0 /\ c = previous.idx THEN previous.pos - coords[c]
        ELSE IF ends[c] # {} THEN MaxPos - coords[c] ELSE 0]

\* The latest row has walked its chain from the signature node to its position.
LatestRow ==
    /\ previous.idx \in Chain
    /\ previous.pos \in (coords[previous.idx] + 1)..MaxPos
    /\ previous.out = NodeAt(previous.idx, previous.pos)
    /\ ends[previous.idx] # {} <=> previous.pos = MaxPos

\* Every row is spent on a chain, an end is that of the chain, and the chains
\* past the latest row are as the digest left them.
RowsInv ==
    /\ Total(Needed, Chain) = Rows
    /\ row \in 0..Rows
    /\ ends \in [Chain -> {{}} \cup {{EndFromSig(c)} : c \in Chain}]
    /\ \A c \in Chain : ends[c] \subseteq {EndFromSig(c)}
    /\ \A c \in Chain : coords[c] = MaxPos => ends[c] # {}
    /\ \A c \in Chain : (row > 0 => previous.idx < c) /\ ends[c] # {} => coords[c] = MaxPos
    /\ row > 0 => LatestRow
    /\ Total(Walked, Chain) = row

\* A node that is not junk is the node above the leaf, in the signer's tree.
PathInv ==
    /\ level \in 0..Height
    /\ idx \in 0..(Pow2[Height - level] - 1)
    /\ node # OtherNode => genuine /\ node = TreeNode(level, idx)

\* The witness of primary_witness has laid the rows of the chains in order and
\* carries the node of the tree.
HonestInv ==
    honest =>
        /\ phase = "rows" /\ row > 0 =>
              row = NeededBefore(previous.idx) + (previous.pos - coords[previous.idx])
        /\ phase = "tree" /\ genuine => node = TreeNode(level, idx)

StatementInv ==
    /\ coords \in [Chain -> 0..MaxPos]
    /\ phase \in {"digest", "rows", "tree", "done", "unsat"}
    /\ phase = "digest" => row = 0
    /\ phase \in {"digest", "rows"} => level = 0
    /\ phase = "rows" => RowsInv
    /\ phase = "tree" => PathInv
    /\ HonestInv
    /\ StatementSound

\* Nodes of a chain: the first, the next and the last.
LEMMA NodeFacts ==
  ASSUME coords \in [Chain -> 0..MaxPos], NEW c \in Chain
  PROVE  /\ SigNode(c) = NodeAt(c, coords[c])
         /\ EndFromSig(c) = NodeAt(c, MaxPos)
         /\ \A pos \in coords[c]..MaxPos : Hash(NodeAt(c, pos), c, pos + 1) = NodeAt(c, pos + 1)
<1>1. coords[c] \in Nat /\ MaxPos \in Nat /\ coords[c] <= MaxPos
  BY ParameterFacts
<1>2. SigNode(c) = NodeAt(c, coords[c])
  <2>1. [k \in 1..(coords[c] - coords[c]) |-> <<c, coords[c] + k>>] = <<>>
    BY <1>1
  <2> QED BY <2>1 DEF SigNode, NodeAt
<1>3. EndFromSig(c) = NodeAt(c, MaxPos)
  BY DEF EndFromSig, NodeAt
<1>4. ASSUME NEW pos \in coords[c]..MaxPos
      PROVE  Hash(NodeAt(c, pos), c, pos + 1) = NodeAt(c, pos + 1)
  <2> DEFINE a == coords[c]
             n == pos - a
             s == [k \in 1..n |-> <<c, a + k>>]
             t == [k \in 1..(n + 1) |-> <<c, a + k>>]
  <2>1. n \in Nat /\ a \in Nat /\ pos + 1 = a + (n + 1) /\ (pos + 1) - a = n + 1
    BY <1>1
  <2>2. s \in Seq(Chain \X Int) /\ Len(s) = n
    <3> HIDE DEF n, a
    <3>1. \A k \in 1..n : <<c, a + k>> \in Chain \X Int
      BY <2>1
    <3> QED BY <2>1, <3>1
  <2>3. Append(s, <<c, pos + 1>>) = t
    <3> DEFINE e == <<c, pos + 1>>
    <3>1. e = <<c, a + (n + 1)>> /\ e \in Chain \X Int
      BY <2>1
    <3>2. Append(s, e) = [k \in 1..(n + 1) |-> IF k <= n THEN s[k] ELSE e]
      <4> HIDE DEF s, e, n
      <4> QED BY <2>1, <2>2, <3>1
    <3>3. \A k \in 1..(n + 1) : (IF k <= n THEN s[k] ELSE e) = <<c, a + k>>
      <4> HIDE DEF n, a, e
      <4>1. \A k \in 1..(n + 1) : k <= n => k \in 1..n
        BY <2>1
      <4>2. \A k \in 1..n : s[k] = <<c, a + k>>
        OBVIOUS
      <4>3. \A k \in 1..(n + 1) : ~(k <= n) => k = n + 1
        BY <2>1
      <4> HIDE DEF s
      <4> QED BY <3>1, <4>1, <4>2, <4>3
    <3> HIDE DEF s, e, n, a
    <3>4. Append(s, e) = t
      BY <3>2, <3>3, Zenon
    <3> QED BY <3>4 DEF e
  <2>4. NodeAt(c, pos) = [base |-> c, tweaks |-> s]
    BY DEF NodeAt
  <2>5. NodeAt(c, pos + 1) = [base |-> c, tweaks |-> t]
    BY <2>1 DEF NodeAt
  <2> HIDE DEF s, t
  <2>6. Hash(NodeAt(c, pos), c, pos + 1) = [base |-> c, tweaks |-> Append(s, <<c, pos + 1>>)]
    BY <2>4 DEF Hash
  <2> QED BY <2>3, <2>5, <2>6
<1> QED BY <1>2, <1>3, <1>4

\* What the chains need is what the digest is checked for.
LEMMA NeededFacts ==
  ASSUME coords \in [Chain -> 0..MaxPos]
  PROVE  /\ \A c \in Chain : Needed[c] = MaxPos - coords[c] /\ Needed[c] \in 0..MaxPos
         /\ CoordSum = TargetSum <=> Total(Needed, Chain) = Rows
<1> DEFINE all == [c \in Chain |-> MaxPos]
<1>1. \A c \in Chain : coords[c] \in 0..MaxPos
  OBVIOUS
<1>2. \A c \in Chain : Needed[c] = MaxPos - coords[c] /\ Needed[c] \in 0..MaxPos
  BY <1>1, ParameterFacts DEF Needed
<1>3. \A c \in Chain : coords[c] \in Int /\ Needed[c] \in Int /\ all[c] = coords[c] + Needed[c]
  <2>1. \A c \in Chain : all[c] = MaxPos
    OBVIOUS
  <2> HIDE DEF all
  <2> QED BY <1>1, <1>2, <2>1, ParameterFacts
<1>4. Total(all, Chain) = NumChains * MaxPos
  <2>1. MaxPos \in Int /\ \A c \in Chain : all[c] = MaxPos
    BY ParameterFacts
  <2> HIDE DEF all
  <2> QED BY <2>1, ChainsFinite, TotalConstant
<1> HIDE DEF all
<1>5. Total(all, Chain) = Total(coords, Chain) + Total(Needed, Chain)
  BY <1>3, ChainsFinite, TotalSum
<1>6. Total(coords, Chain) \in Int /\ Total(Needed, Chain) \in Int
  BY <1>3, ChainsFinite, TotalStep
<1>7. CoordSum = Total(coords, Chain)
  BY CoordSumIs
<1>8. NumChains * MaxPos \in Int /\ Rows \in Int
  BY ParameterFacts
<1>9. CoordSum = TargetSum <=> Total(Needed, Chain) = Rows
  BY <1>4, <1>5, <1>6, <1>7, <1>8 DEF TargetSum
<1> QED BY <1>2, <1>9

\* The chain that a row walks, and where it walks it to.
LEMMA RowFacts ==
  ASSUME coords \in [Chain -> 0..MaxPos], RowsInv, NEW index \in Index, RowOk(index)
  PROVE  LET from == IF Same(index) THEN previous.pos ELSE coords[index]
         IN  /\ index \in Chain /\ Selected(index) = index
             /\ row > 0 /\ ~Same(index) => previous.idx < index /\ previous.pos = MaxPos
             /\ from \in coords[index]..(MaxPos - 1)
             /\ Position(index).sum = from + 1
             /\ OutNode(index) = NodeAt(index, from + 1)
<1> DEFINE from == IF Same(index) THEN previous.pos ELSE coords[index]
<1>1. index \in Chain /\ Selected(index) = index
  BY IndexOfChain DEF RowOk, HighBitsZero
<1>2. Same(index) => row > 0 /\ index = previous.idx
  BY DEF Same
<1>3. index \in Nat /\ coords[index] \in 0..MaxPos /\ MaxPos \in Nat /\ row \in Nat
  BY <1>1, ParameterFacts DEF Chain, RowsInv
<1>4. row > 0 => LatestRow
  BY DEF RowsInv
<1>5. row > 0 => /\ previous.idx \in Chain /\ previous.idx \in Nat /\ previous.idx \in Index
                 /\ previous.pos \in (coords[previous.idx] + 1)..MaxPos
                 /\ coords[previous.idx] \in 0..MaxPos
                 /\ previous.out = NodeAt(previous.idx, previous.pos)
  <2>1. ASSUME row > 0 PROVE previous.idx \in Chain /\ previous.idx \in Nat
    BY <1>4, <2>1, ParameterFacts DEF LatestRow, Chain
  <2>2. Chain \subseteq Index
    BY ChainInIndex
  <2> QED BY <1>4, <2>1, <2>2 DEF LatestRow
<1>6. from \in coords[index]..MaxPos /\ from \in 0..MaxPos
  BY <1>2, <1>3, <1>5
<1>7. row > 0 /\ ~Same(index) => previous.idx < index /\ previous.pos = MaxPos
  <2>1. ASSUME row > 0, ~Same(index) PROVE previous.idx < index /\ previous.pos = MaxPos
    <3>1. previous.pos = MaxPos /\ ~Less(index, previous.idx)
      BY <2>1 DEF RowOk
    <3>2. ~(index < previous.idx)
      BY <1>5, <2>1, <3>1, LessIs
    <3>3. index # previous.idx
      BY <2>1 DEF Same
    <3> QED BY <1>3, <1>5, <2>1, <3>1, <3>2, <3>3
  <2> QED BY <2>1
<1>8. Position(index) = Add(from, 1, PosBits)
  BY <1>1 DEF Position
<1> HIDE DEF from
<1>9. from < MaxPos /\ Position(index).sum = from + 1
  <2>1. Add(from, 1, PosBits).carry = 0
    BY <1>8 DEF RowOk
  <2> QED BY <1>6, <1>8, <2>1, NextPosition
<1>10. from \in coords[index]..(MaxPos - 1)
  BY <1>3, <1>6, <1>9
<1>11. OutNode(index) = NodeAt(index, from + 1)
  <2>1. OutNode(index) = Hash(IF Same(index) THEN previous.out ELSE SigNode(index), index, from + 1)
    BY <1>1, <1>9 DEF OutNode
  <2>2. (IF Same(index) THEN previous.out ELSE SigNode(index)) = NodeAt(index, from)
    <3>1. CASE Same(index)
      BY <1>2, <1>5, <3>1 DEF from
    <3>2. CASE ~Same(index)
      BY <1>1, <3>2, NodeFacts DEF from
    <3> QED BY <3>1, <3>2
  <2>3. Hash(NodeAt(index, from), index, from + 1) = NodeAt(index, from + 1)
    BY <1>1, <1>6, NodeFacts
  <2> QED BY <2>1, <2>2, <2>3
<1> QED BY <1>1, <1>7, <1>9, <1>10, <1>11 DEF from

-----------------------------------------------------------------------------
(* The steps of the statement                                              *)

\* The entries of Walked, before and after a step.
LEMMA WalkedAt ==
  \A c \in Chain :
     /\ Walked[c] = IF row > 0 /\ c = previous.idx THEN previous.pos - coords[c]
                    ELSE IF ends[c] # {} THEN MaxPos - coords[c] ELSE 0
     /\ Walked'[c] = IF row' > 0 /\ c = previous'.idx THEN previous'.pos - coords'[c]
                     ELSE IF ends'[c] # {} THEN MaxPos - coords'[c] ELSE 0
<1> SUFFICES ASSUME NEW c \in Chain
             PROVE  /\ Walked[c] = IF row > 0 /\ c = previous.idx THEN previous.pos - coords[c]
                                   ELSE IF ends[c] # {} THEN MaxPos - coords[c] ELSE 0
                    /\ Walked'[c] = IF row' > 0 /\ c = previous'.idx
                                    THEN previous'.pos - coords'[c]
                                    ELSE IF ends'[c] # {} THEN MaxPos - coords'[c] ELSE 0
  OBVIOUS
<1>1. Walked[c] = IF row > 0 /\ c = previous.idx THEN previous.pos - coords[c]
                  ELSE IF ends[c] # {} THEN MaxPos - coords[c] ELSE 0
  BY DEF Walked
<1>2. Walked'[c] = IF row' > 0 /\ c = previous'.idx THEN previous'.pos - coords'[c]
                   ELSE IF ends'[c] # {} THEN MaxPos - coords'[c] ELSE 0
  BY DEF Walked
<1> QED BY <1>1, <1>2

\* What depends on the coordinates only does not change with them as they are.
LEMMA CoordsStay ==
  ASSUME coords' = coords
  PROVE  /\ Needed' = Needed
         /\ \A c : NeededBefore(c)' = NeededBefore(c)
         /\ \A c : EndFromSig(c)' = EndFromSig(c)
         /\ \A c, pos : NodeAt(c, pos)' = NodeAt(c, pos)
<1>1. Needed' = Needed
  BY DEF Needed
<1> QED BY <1>1 DEF NeededBefore, EndFromSig, NodeAt

\* The entries are between none and what the chain needs.
LEMMA WalkedType ==
  ASSUME coords \in [Chain -> 0..MaxPos], RowsInv
  PROVE  \A c \in Chain : Walked[c] \in Nat /\ Walked[c] <= Needed[c]
<1> SUFFICES ASSUME NEW c \in Chain PROVE Walked[c] \in Nat /\ Walked[c] <= Needed[c]
  OBVIOUS
<1>1. coords[c] \in 0..MaxPos /\ MaxPos \in Nat /\ Needed[c] = MaxPos - coords[c]
  BY NeededFacts, ParameterFacts
<1>2. row > 0 /\ c = previous.idx => previous.pos \in (coords[c] + 1)..MaxPos
  BY DEF RowsInv, LatestRow
<1>3. Walked[c] = IF row > 0 /\ c = previous.idx THEN previous.pos - coords[c]
                  ELSE IF ends[c] # {} THEN MaxPos - coords[c] ELSE 0
  BY WalkedAt
<1> QED BY <1>1, <1>2, <1>3

\* Nothing is laid yet.
LEMMA StatementInvInit == StatementInit => StatementInv
<1> SUFFICES ASSUME StatementInit PROVE StatementInv
  OBVIOUS
<1>1. phase = "digest" /\ row = 0 /\ level = 0 /\ coords \in [Chain -> 0..MaxPos]
  BY DEF StatementInit
<1> QED BY <1>1 DEF StatementInv, HonestInv, StatementSound

\* Only a chain that is complete already has its end.
LEMMA StatementInvDigest == ASSUME StatementInv, Digest PROVE StatementInv'
<1>1. /\ phase = "digest" /\ coords \in [Chain -> 0..MaxPos] /\ row = 0 /\ level = 0
      /\ coords' = coords /\ row' = 0 /\ level' = 0
      /\ phase' \in {"rows", "unsat"} /\ (phase' = "rows" => CoordSum = TargetSum)
      /\ ends' = [c \in Chain |-> IF coords[c] = MaxPos THEN {SigNode(c)} ELSE {}]
  BY DEF StatementInv, Digest
<1>2. ASSUME phase' = "rows" PROVE RowsInv'
  <2>1. Total(Needed', Chain) = Rows
    BY <1>1, <1>2, NeededFacts, CoordsStay
  <2>2. \A c \in Chain : /\ coords[c] = MaxPos => ends'[c] = {EndFromSig(c)}
                         /\ coords[c] # MaxPos => ends'[c] = {}
    <3>1. \A c \in Chain : coords[c] = MaxPos => SigNode(c) = EndFromSig(c)
      BY <1>1, NodeFacts
    <3> QED BY <1>1, <3>1
  <2>3. ends' \in [Chain -> {{}} \cup {{EndFromSig(c)} : c \in Chain}]
    <3>1. ends' = [c \in Chain |-> ends'[c]]
      BY <1>1
    <3>2. \A c \in Chain : ends'[c] \in {{}} \cup {{EndFromSig(d)} : d \in Chain}
      BY <2>2
    <3> QED BY <3>1, <3>2, Zenon
  <2>4. \A c \in Chain : Walked'[c] = 0
    <3> SUFFICES ASSUME NEW c \in Chain PROVE Walked'[c] = 0
      OBVIOUS
    <3>1. Walked'[c] = IF ends'[c] # {} THEN MaxPos - coords[c] ELSE 0
      BY <1>1, WalkedAt
    <3> QED BY <1>1, <2>2, <3>1, ParameterFacts
  <2>5. Total(Walked', Chain) = 0
    <3>1. Total(Walked', Chain) = Cardinality(Chain) * 0
      BY <2>4, ChainsFinite, TotalConstant
    <3> QED BY <3>1, ChainsFinite, ParameterFacts
  <2>6. row' \in 0..Rows /\ ~(row' > 0)
    BY <1>1, ParameterFacts
  <2>7. \A c : EndFromSig(c)' = EndFromSig(c)
    BY <1>1, CoordsStay
  <2> QED BY <1>1, <2>1, <2>2, <2>3, <2>5, <2>6, <2>7 DEF RowsInv
<1>3. HonestInv'
  BY <1>1 DEF HonestInv
<1>4. StatementSound'
  BY <1>1 DEF StatementSound
<1> QED BY <1>1, <1>2, <1>3, <1>4 DEF StatementInv

\* The row is spent on the chain it names.
LEMMA RowSpent ==
  ASSUME coords \in [Chain -> 0..MaxPos], RowsInv, NEW index \in Index, Row(index)
  PROVE  /\ RowsInv'
         /\ previous'.idx = index
         /\ previous'.pos = (IF Same(index) THEN previous.pos ELSE coords[index]) + 1
<1> DEFINE from == IF Same(index) THEN previous.pos ELSE coords[index]
           pos == from + 1
<1>1. /\ index \in Chain /\ Selected(index) = index
      /\ row > 0 /\ ~Same(index) => previous.idx < index /\ previous.pos = MaxPos
      /\ from \in coords[index]..(MaxPos - 1)
      /\ Position(index).sum = pos
      /\ OutNode(index) = NodeAt(index, pos)
  BY RowFacts DEF Row
<1>2. Same(index) <=> row > 0 /\ index = previous.idx
  BY DEF Same
<1>3. from = IF Same(index) THEN previous.pos ELSE coords[index]
  OBVIOUS
<1> HIDE DEF from
<1>4. /\ coords[index] \in 0..MaxPos /\ MaxPos \in Nat /\ index \in Nat /\ row \in Nat
      /\ from \in Nat /\ from < MaxPos /\ pos \in (coords[index] + 1)..MaxPos
  BY <1>1, ParameterFacts DEF RowsInv, Chain
<1>5. /\ row < Rows /\ row' = row + 1 /\ coords' = coords
      /\ previous'.idx = index /\ previous'.pos = pos /\ previous'.out = NodeAt(index, pos)
      /\ ends' = IF pos = MaxPos THEN [ends EXCEPT ![index] = {NodeAt(index, pos)}] ELSE ends
  BY <1>1 DEF Row
<1>6. \A c \in Chain : /\ NodeAt(c, MaxPos) = EndFromSig(c) /\ EndFromSig(c)' = EndFromSig(c)
                       /\ \A p : NodeAt(c, p)' = NodeAt(c, p)
  BY <1>5, NodeFacts, CoordsStay
<1> HIDE DEF pos
<1>7. /\ ends \in [Chain -> {{}} \cup {{EndFromSig(c)} : c \in Chain}]
      /\ \A c \in Chain : ends[c] \subseteq {EndFromSig(c)}
      /\ \A c \in Chain : coords[c] = MaxPos => ends[c] # {}
      /\ \A c \in Chain : (row > 0 => previous.idx < c) /\ ends[c] # {} => coords[c] = MaxPos
      /\ row > 0 => LatestRow
  BY DEF RowsInv
<1>8. ends[index] = {}
  <2>1. CASE Same(index)
    BY <1>2, <1>3, <1>4, <1>7, <2>1 DEF LatestRow
  <2>2. CASE ~Same(index)
    <3>1. (row > 0 => previous.idx < index) /\ coords[index] # MaxPos
      BY <1>1, <1>3, <1>4, <2>2
    <3> QED BY <1>1, <1>7, <3>1
  <2> QED BY <2>1, <2>2
<1>9. /\ \A c \in Chain : c # index => ends'[c] = ends[c]
      /\ ends'[index] = IF pos = MaxPos THEN {EndFromSig(index)} ELSE {}
      /\ ends' \in [Chain -> {{}} \cup {{EndFromSig(c)} : c \in Chain}]
  <2>1. CASE pos = MaxPos
    <3>1. ends' = [ends EXCEPT ![index] = {EndFromSig(index)}]
      BY <1>1, <1>5, <1>6, <2>1
    <3> QED BY <1>1, <1>7, <2>1, <3>1
  <2>2. CASE pos # MaxPos
    BY <1>5, <1>7, <1>8, <2>2
  <2> QED BY <2>1, <2>2
<1>10. Total(Walked', Chain) = Total(Walked, Chain) + 1
  <2>1. Walked[index] = from - coords[index]
    <3>1. CASE Same(index)
      <4>1. Walked[index] = previous.pos - coords[index]
        BY <1>1, <1>2, <3>1, WalkedAt
      <4> QED BY <1>3, <3>1, <4>1
    <3>2. CASE ~Same(index)
      <4>1. Walked[index] = 0
        BY <1>1, <1>2, <1>8, <3>2, WalkedAt
      <4> QED BY <1>3, <1>4, <3>2, <4>1
    <3> QED BY <3>1, <3>2
  <2>2. Walked'[index] = pos - coords[index]
    <3>1. row' > 0
      BY <1>4, <1>5
    <3> QED BY <1>1, <1>5, <3>1, WalkedAt
  <2>3. Walked'[index] = Walked[index] + 1
    BY <1>4, <2>1, <2>2 DEF pos
  <2>4. ASSUME NEW c \in Chain \ {index} PROVE Walked'[c] = Walked[c]
    <3>1. Walked'[c] = IF ends[c] # {} THEN MaxPos - coords[c] ELSE 0
      BY <1>5, <1>9, WalkedAt
    <3>2. CASE row > 0 /\ c = previous.idx
      <4>1. ~Same(index)
        BY <1>2, <3>2
      <4>2. previous.pos = MaxPos /\ ends[c] # {}
        BY <1>1, <1>7, <3>2, <4>1 DEF LatestRow
      <4>3. Walked[c] = previous.pos - coords[c]
        BY <3>2, WalkedAt
      <4> QED BY <3>1, <4>2, <4>3
    <3>3. CASE ~(row > 0 /\ c = previous.idx)
      BY <3>1, <3>3, WalkedAt
    <3> QED BY <3>2, <3>3
  <2>5. \A c \in Chain : Walked[c] \in Int
    BY WalkedType
  <2> QED BY <1>1, <2>3, <2>4, <2>5, ChainsFinite, TotalIncrement
<1>11. Total(Walked', Chain) = row'
  BY <1>5, <1>10 DEF RowsInv
<1>12. Total(Needed', Chain) = Rows
  BY <1>5, CoordsStay DEF RowsInv
<1>13. \A c \in Chain : ends'[c] \subseteq {EndFromSig(c)}
  BY <1>7, <1>9
<1>14. \A c \in Chain : coords[c] = MaxPos => ends'[c] # {}
  <2>1. coords[index] # MaxPos
    BY <1>4
  <2> QED BY <1>7, <1>9, <2>1
<1>15. \A c \in Chain : index < c /\ ends'[c] # {} => coords[c] = MaxPos
  <2> SUFFICES ASSUME NEW c \in Chain, index < c, ends'[c] # {} PROVE coords[c] = MaxPos
    OBVIOUS
  <2>1. c \in Nat /\ c # index
    BY <1>4 DEF Chain
  <2>2. row > 0 => previous.idx < c
    <3>1. row > 0 => previous.idx \in Chain /\ (previous.idx < index \/ previous.idx = index)
      BY <1>1, <1>2, <1>7 DEF LatestRow
    <3> QED BY <1>4, <2>1, <3>1 DEF Chain
  <2> QED BY <1>7, <1>9, <2>1, <2>2
<1>16. LatestRow'
  BY <1>1, <1>4, <1>5, <1>6, <1>9 DEF LatestRow
<1>17. row' \in 0..Rows
  BY <1>4, <1>5, ParameterFacts
<1>18. RowsInv'
  <2>1. ends' \in [Chain -> {{}} \cup {{EndFromSig(c)'} : c \in Chain}]
    <3>1. {{EndFromSig(c)'} : c \in Chain} = {{EndFromSig(c)} : c \in Chain}
      BY <1>6
    <3> QED BY <1>9, <3>1
  <2>2. \A c \in Chain : ends'[c] \subseteq {EndFromSig(c)'}
    BY <1>6, <1>13
  <2>3. \A c \in Chain : coords'[c] = MaxPos => ends'[c] # {}
    BY <1>5, <1>14
  <2>4. row' > 0
    BY <1>4, <1>5
  <2>5. \A c \in Chain : (row' > 0 => previous'.idx < c) /\ ends'[c] # {} => coords'[c] = MaxPos
    BY <1>5, <1>15, <2>4
  <2> QED BY <1>11, <1>12, <1>16, <1>17, <2>1, <2>2, <2>3, <2>5 DEF RowsInv
<1> QED BY <1>5, <1>18 DEF pos, from

\* A row is RowSpent; what it does to the honest witness is HonestRow.
LEMMA StatementInvRow ==
  ASSUME StatementInv, NEW index \in Index, Row(index), HonestInv' PROVE StatementInv'
<1>1. /\ phase = "rows" /\ coords \in [Chain -> 0..MaxPos] /\ RowsInv /\ level = 0
      /\ coords' = coords /\ phase' = "rows" /\ level' = 0
  BY DEF StatementInv, Row
<1>2. RowsInv'
  BY <1>1, RowSpent
<1>3. StatementSound'
  BY <1>1 DEF StatementSound
<1> QED BY <1>1, <1>2, <1>3 DEF StatementInv

\* When the last row ends its chain, every chain has been walked to its end:
\* the rows spent are as many as the chains need, and none is spent twice.
LEMMA AllWalked ==
  ASSUME coords \in [Chain -> 0..MaxPos], RowsInv, row = Rows, previous.pos = MaxPos
  PROVE  \A c \in Chain : ends[c] = {EndFromSig(c)}
<1>1. \A c \in Chain : Walked[c] \in Int /\ Needed[c] \in Int /\ Walked[c] <= Needed[c]
  BY WalkedType, NeededFacts, ParameterFacts
<1>2. Total(Walked, Chain) = Total(Needed, Chain)
  BY DEF RowsInv
<1>3. \A c \in Chain : Walked[c] = Needed[c]
  BY <1>1, <1>2, ChainsFinite, TotalBelow
<1>4. ASSUME NEW c \in Chain PROVE ends[c] # {}
  <2>1. row > 0 => LatestRow
    BY DEF RowsInv
  <2>2. row > 0
    BY ParameterFacts
  <2>3. CASE c = previous.idx
    BY <2>1, <2>2, <2>3 DEF LatestRow
  <2>4. CASE c # previous.idx /\ ends[c] = {}
    <3>1. Walked[c] = 0
      BY <2>4, WalkedAt
    <3>2. MaxPos - coords[c] = 0
      BY <1>3, <3>1, NeededFacts
    <3>3. coords[c] = MaxPos
      <4>1. coords[c] \in 0..MaxPos
        OBVIOUS
      <4> QED BY <3>2, <4>1, ParameterFacts
    <3> QED BY <3>3 DEF RowsInv
  <2> QED BY <2>3, <2>4
<1>5. \A c \in Chain : ends[c] \subseteq {EndFromSig(c)}
  BY DEF RowsInv
<1> QED BY <1>4, <1>5

\* All chains are walked; the leaf is in the tree if the ends make it up.
LEMMA StatementInvLeaf ==
  ASSUME StatementInv, NEW e \in 0..(Pow2[Height] - 1), Leaf(e) PROVE StatementInv'
<1>1. /\ phase = "rows" /\ row = Rows /\ previous.pos = MaxPos /\ level = 0
      /\ coords \in [Chain -> 0..MaxPos] /\ RowsInv
      /\ phase' = "tree" /\ idx' = e /\ node' = (IF genuine THEN TreeNode(0, e) ELSE OtherNode)
      /\ coords' = coords /\ genuine' = genuine /\ ends' = ends /\ level' = 0
  BY DEF StatementInv, Leaf
<1>2. \A c \in Chain : ends'[c] = {EndFromSig(c)'}
  BY <1>1, AllWalked, CoordsStay
<1>3. PathInv'
  <2>1. 0 \in 0..Height /\ Height - 0 = Height
    BY ParameterFacts
  <2>2. node' # OtherNode => genuine' /\ node' = TreeNode(0, e)
    BY <1>1
  <2> QED BY <1>1, <2>1, <2>2 DEF PathInv, OtherNode, TreeNode
<1>4. HonestInv'
  BY <1>1 DEF HonestInv, TreeNode
<1>5. StatementSound'
  BY <1>1, <1>2 DEF StatementSound
<1> QED BY <1>1, <1>3, <1>4, <1>5 DEF StatementInv

\* Both halves of the climb: a node that is not junk has the node at hand below
\* it, at its place; and the sibling of the tree leads to a node of the tree.
LEMMA ClimbFacts ==
  ASSUME PathInv, NEW sibling, Climb(sibling)
  PROVE  /\ level + 1 \in 0..Height
         /\ idx \div 2 \in 0..(Pow2[Height - (level + 1)] - 1)
         /\ node' # OtherNode
               => node = TreeNode(level, idx) /\ node' = TreeNode(level + 1, idx \div 2)
         /\ node = TreeNode(level, idx) /\ sibling = HonestSibling
               => node' = TreeNode(level + 1, idx \div 2)
<1> DEFINE i == idx \div 2
           left == IF idx % 2 = 1 THEN sibling ELSE node
           right == IF left = node THEN sibling ELSE node
<1>1. level \in 0..Height /\ level < Height /\ Height \in Nat
  BY ParameterFacts DEF Climb, PathInv
<1>2. level + 1 \in 0..Height
  BY <1>1
<1>3. idx \in Nat /\ i \in 0..(Pow2[Height - (level + 1)] - 1)
  <2> DEFINE n == Height - (level + 1)
  <2>1. n \in Nat /\ Height - level = n + 1
    BY <1>1
  <2> HIDE DEF n
  <2>2. Pow2[n + 1] = 2 * Pow2[n] /\ Pow2[n] \in Nat
    BY <2>1, Pow2Def, Pow2Type
  <2>3. idx \in 0..(2 * Pow2[n] - 1)
    BY <2>1, <2>2 DEF PathInv
  <2>4. idx \in Nat /\ i \in 0..(Pow2[n] - 1)
    BY <2>2, <2>3
  <2> QED BY <2>4 DEF n
<1>4. /\ idx % 2 = 0 => idx = 2 * i
      /\ idx % 2 # 0 => idx % 2 = 1 /\ idx = 2 * i + 1
      /\ i \in Nat
  BY <1>3
<1>5. node' = IF left = TreeNode(level, 2 * i) /\ right = TreeNode(level, 2 * i + 1)
              THEN TreeNode(level + 1, i) ELSE OtherNode
  BY DEF Climb, TreeHash
<1>6. /\ left = (IF idx % 2 = 1 THEN sibling ELSE node)
      /\ right = (IF left = node THEN sibling ELSE node)
  OBVIOUS
<1> HIDE DEF i, left, right
<1>7. node' # OtherNode => /\ left = TreeNode(level, 2 * i) /\ right = TreeNode(level, 2 * i + 1)
                           /\ node' = TreeNode(level + 1, i)
  BY <1>5
<1>8. TreeNode(level, 2 * i) # TreeNode(level, 2 * i + 1)
  BY <1>4 DEF TreeNode
<1>9. node' # OtherNode => node = TreeNode(level, idx)
  <2>1. CASE idx % 2 = 0
    <3>1. left = node
      BY <1>6, <2>1
    <3> QED BY <1>4, <1>7, <2>1, <3>1
  <2>2. CASE idx % 2 # 0
    <3>1. left = sibling
      BY <1>4, <1>6, <2>2
    <3>2. right = node
      BY <1>6, <3>1
    <3> QED BY <1>4, <1>7, <2>2, <3>2
  <2> QED BY <2>1, <2>2
<1>10. node = TreeNode(level, idx) /\ sibling = HonestSibling => node' = TreeNode(level + 1, i)
  <2> SUFFICES ASSUME node = TreeNode(level, idx), sibling = HonestSibling
               PROVE  left = TreeNode(level, 2 * i) /\ right = TreeNode(level, 2 * i + 1)
    BY <1>5
  <2>1. CASE idx % 2 = 0
    <3>1. left = node /\ right = sibling
      BY <1>6, <2>1
    <3>2. sibling = TreeNode(level, idx + 1)
      BY <2>1 DEF HonestSibling
    <3> QED BY <1>4, <2>1, <3>1, <3>2
  <2>2. CASE idx % 2 # 0
    <3>1. left = sibling /\ right = node
      BY <1>4, <1>6, <2>2
    <3>2. sibling = TreeNode(level, idx - 1)
      BY <2>2 DEF HonestSibling
    <3>3. idx - 1 = 2 * i
      BY <1>4, <2>2
    <3> QED BY <1>4, <2>2, <3>1, <3>2, <3>3
  <2> QED BY <2>1, <2>2
<1> QED BY <1>2, <1>3, <1>7, <1>9, <1>10 DEF i

\* A climb is ClimbFacts.
LEMMA StatementInvClimb ==
  ASSUME StatementInv, NEW sibling, Climb(sibling) PROVE StatementInv'
<1>1. /\ phase = "tree" /\ coords \in [Chain -> 0..MaxPos] /\ PathInv
      /\ coords' = coords /\ phase' = "tree" /\ genuine' = genuine /\ ends' = ends
      /\ idx' = idx \div 2 /\ level' = level + 1
      /\ honest' = (honest /\ sibling = HonestSibling)
  BY DEF StatementInv, Climb
<1>2. /\ level + 1 \in 0..Height
      /\ idx \div 2 \in 0..(Pow2[Height - (level + 1)] - 1)
      /\ node' # OtherNode => node = TreeNode(level, idx) /\ node' = TreeNode(level + 1, idx \div 2)
      /\ node = TreeNode(level, idx) /\ sibling = HonestSibling
            => node' = TreeNode(level + 1, idx \div 2)
  BY <1>1, ClimbFacts
<1>3. TreeNode(level, idx) # OtherNode
  <2>1. level \in 0..Height /\ Height \in Nat
    BY <1>1, ParameterFacts DEF PathInv
  <2> QED BY <2>1 DEF TreeNode, OtherNode
<1>4. PathInv'
  <2>1. node' # OtherNode => genuine' /\ node' = TreeNode(level', idx')
    BY <1>1, <1>2, <1>3 DEF PathInv
  <2>2. level' \in 0..Height /\ idx' \in 0..(Pow2[Height - level'] - 1)
    BY <1>1, <1>2
  <2> QED BY <2>1, <2>2 DEF PathInv, OtherNode, TreeNode
<1>5. HonestInv'
  <2> SUFFICES ASSUME honest', genuine' PROVE node' = TreeNode(level', idx')
    BY <1>1 DEF HonestInv, TreeNode
  <2>1. node = TreeNode(level, idx)
    BY <1>1 DEF StatementInv, HonestInv
  <2> QED BY <1>1, <1>2, <2>1
<1>6. StatementSound'
  <2>1. \A c \in Chain : ends[c] = {EndFromSig(c)}
    BY <1>1 DEF StatementInv, StatementSound
  <2> QED BY <1>1, <2>1, CoordsStay DEF StatementSound
<1> QED BY <1>1, <1>4, <1>5, <1>6 DEF StatementInv

\* The root is the only node of the last level.
LEMMA StatementInvFinish == ASSUME StatementInv, Finish PROVE StatementInv'
<1>1. /\ phase = "tree" /\ coords \in [Chain -> 0..MaxPos] /\ PathInv /\ level = Height
      /\ phase' = (IF node = Root THEN "done" ELSE "unsat")
      /\ coords' = coords /\ genuine' = genuine /\ ends' = ends /\ idx' = idx
  BY DEF StatementInv, Finish
<1>2. Root # OtherNode
  BY ParameterFacts DEF Root, OtherNode, TreeNode
<1>3. idx = 0
  <2>1. Height - level = 0 /\ Pow2[0] = 1
    BY <1>1, ParameterFacts, Pow2Def
  <2> QED BY <1>1, <2>1 DEF PathInv
<1>4. StatementSound'
  <2>1. \A c \in Chain : ends[c] = {EndFromSig(c)}
    BY <1>1 DEF StatementInv, StatementSound
  <2>2. phase' = "done" => genuine' /\ idx' = 0
    BY <1>1, <1>2, <1>3 DEF PathInv
  <2> QED BY <1>1, <2>1, <2>2, CoordsStay DEF StatementSound
<1>5. HonestInv'
  BY <1>1 DEF HonestInv
<1> QED BY <1>1, <1>4, <1>5 DEF StatementInv

-----------------------------------------------------------------------------
(* The honest witness                                                      *)

\* Rows needed by the chains before each chain, in order.
LEMMA NeededBeforeFacts ==
  ASSUME coords \in [Chain -> 0..MaxPos]
  PROVE  /\ NeededBefore(0) = 0 /\ NeededBefore(NumChains) = Total(Needed, Chain)
         /\ \A c \in 0..NumChains : NeededBefore(c) \in Nat
         /\ \A c \in Chain : NeededBefore(c + 1) = NeededBefore(c) + (MaxPos - coords[c])
         /\ \A c, d \in 0..NumChains : c <= d => NeededBefore(c) <= NeededBefore(d)
<1>1. NumChains \in Nat /\ MaxPos \in Nat /\ \A c \in Chain : coords[c] \in 0..MaxPos
  BY ParameterFacts
<1>2. \A c \in Chain : Needed[c] = MaxPos - coords[c] /\ Needed[c] \in 0..MaxPos
  BY NeededFacts
<1>3. /\ NeededBefore(0) = 0
      /\ \A c \in 0..NumChains : NeededBefore(c) \in 0..(c * MaxPos)
      /\ \A c \in Chain : NeededBefore(c + 1) = NeededBefore(c) + Needed[c]
  BY <1>2, FirstChains DEF NeededBefore
<1>4. NeededBefore(NumChains) = Total(Needed, Chain)
  BY DEF NeededBefore, Chain
<1>5. ASSUME NEW c \in 0..NumChains PROVE NeededBefore(c) \in Nat
  <2>1. c * MaxPos \in Nat
    BY <1>1
  <2> QED BY <1>3, <2>1
<1>6. ASSUME NEW c \in 0..NumChains, NEW d \in 0..NumChains, c <= d
      PROVE  NeededBefore(c) <= NeededBefore(d)
  <2> DEFINE T == {k \in Nat : c + k <= NumChains => NeededBefore(c) <= NeededBefore(c + k)}
  <2>1. 0 \in T
    BY <1>1, <1>5
  <2>2. ASSUME NEW k \in T PROVE k + 1 \in T
    <3>1. k \in Nat /\ (c + k <= NumChains => NeededBefore(c) <= NeededBefore(c + k))
      OBVIOUS
    <3>2. ASSUME c + (k + 1) <= NumChains
          PROVE  NeededBefore(c) <= NeededBefore(c + (k + 1))
      <4>1. c + k \in Chain /\ c + k \in 0..NumChains /\ c + (k + 1) = (c + k) + 1
        BY <1>1, <3>1, <3>2 DEF Chain
      <4>2. NeededBefore((c + k) + 1) = NeededBefore(c + k) + Needed[c + k]
        BY <1>3, <4>1
      <4>3. Needed[c + k] \in Nat /\ NeededBefore(c + k) \in Nat /\ NeededBefore(c) \in Nat
        BY <1>1, <1>2, <1>5, <4>1
      <4>4. NeededBefore(c) <= NeededBefore(c + k)
        BY <1>1, <3>1, <4>1
      <4> QED BY <4>1, <4>2, <4>3, <4>4
    <3> QED BY <3>1, <3>2
  <2>3. T = Nat
    <3> HIDE DEF T
    <3>1. T \in SUBSET Nat
      BY DEF T
    <3> QED BY <2>1, <2>2, <3>1, NatSetInduction
  <2>4. d - c \in T /\ c + (d - c) = d /\ d <= NumChains
    <3>1. d - c \in Nat /\ c + (d - c) = d /\ d <= NumChains
      BY <1>1, <1>6
    <3> HIDE DEF T
    <3> QED BY <2>3, <3>1
  <2> QED BY <2>4
<1>7. \A c \in Chain : NeededBefore(c + 1) = NeededBefore(c) + (MaxPos - coords[c])
  BY <1>2, <1>3
<1> QED BY <1>3, <1>4, <1>5, <1>6, <1>7

\* The chain that a row of the honest schedule walks.
Turn(c, r) == NeededBefore(c) < r /\ r <= NeededBefore(c + 1)
TurnOf(r) == CHOOSE c \in Chain : Turn(c, r)

\* Every row is the turn of one chain.
LEMMA TurnExists ==
  ASSUME coords \in [Chain -> 0..MaxPos], NEW r \in 1..NeededBefore(NumChains)
  PROVE  \E c \in Chain : Turn(c, r)
<1> DEFINE T == {k \in Nat : k <= NumChains /\ r <= NeededBefore(k)
                             => \E c \in Chain : Turn(c, r)}
<1>1. NumChains \in Nat /\ NeededBefore(0) = 0
      /\ \A c \in 0..NumChains : NeededBefore(c) \in Nat
  BY NeededBeforeFacts, ParameterFacts
<1>2. 0 \in T
  BY <1>1
<1>3. ASSUME NEW k \in T PROVE k + 1 \in T
  <2>1. k \in Nat /\ (k <= NumChains /\ r <= NeededBefore(k) => \E c \in Chain : Turn(c, r))
    OBVIOUS
  <2>2. ASSUME k + 1 <= NumChains, r <= NeededBefore(k + 1)
        PROVE  \E c \in Chain : Turn(c, r)
    <3>1. k \in Chain /\ k \in 0..NumChains
      BY <1>1, <2>1, <2>2 DEF Chain
    <3>2. NeededBefore(k) \in Nat /\ r \in Nat
      BY <1>1, <3>1
    <3>3. CASE r <= NeededBefore(k)
      BY <1>1, <2>1, <2>2, <3>3
    <3>4. CASE NeededBefore(k) < r
      BY <2>2, <3>1, <3>4 DEF Turn
    <3> QED BY <3>2, <3>3, <3>4
  <2> QED BY <2>1, <2>2
<1>4. T = Nat
  <2> HIDE DEF T
  <2>1. T \in SUBSET Nat
    BY DEF T
  <2> QED BY <1>2, <1>3, <2>1, NatSetInduction
<1>5. NumChains \in T /\ NumChains <= NumChains
  <2> HIDE DEF T
  <2> QED BY <1>1, <1>4
<1>6. r <= NeededBefore(NumChains)
  BY <1>1
<1> QED BY <1>5, <1>6

\* And of no other.
LEMMA TurnUnique ==
  ASSUME coords \in [Chain -> 0..MaxPos], NEW r \in Nat, NEW c \in Chain, Turn(c, r)
  PROVE  TurnOf(r) = c
<1>1. ASSUME NEW d \in Chain, Turn(d, r) PROVE d = c
  <2>1. /\ c \in Nat /\ d \in Nat /\ c \in 0..NumChains /\ d \in 0..NumChains
        /\ c + 1 \in 0..NumChains /\ d + 1 \in 0..NumChains
    BY ParameterFacts DEF Chain
  <2>2. /\ NeededBefore(c) \in Nat /\ NeededBefore(d) \in Nat
        /\ NeededBefore(c + 1) \in Nat /\ NeededBefore(d + 1) \in Nat
    BY <2>1, NeededBeforeFacts
  <2>3. /\ c + 1 <= d => NeededBefore(c + 1) <= NeededBefore(d)
        /\ d + 1 <= c => NeededBefore(d + 1) <= NeededBefore(c)
    BY <2>1, NeededBeforeFacts
  <2>4. NeededBefore(c) < r /\ r <= NeededBefore(c + 1)
        /\ NeededBefore(d) < r /\ r <= NeededBefore(d + 1)
    BY <1>1 DEF Turn
  <2> QED BY <2>1, <2>2, <2>3, <2>4
<1>2. TurnOf(r) \in Chain /\ Turn(TurnOf(r), r)
  BY DEF TurnOf
<1> QED BY <1>1, <1>2

\* The schedule of primary_witness gives each chain its turns.
LEMMA ScheduleIs ==
  ASSUME coords \in [Chain -> 0..MaxPos]
  PROVE  HonestSchedule = [r \in 1..NeededBefore(NumChains) |-> TurnOf(r)]
<1> DEFINE n == NumChains
           next(s, c) == s \o [j \in 1..(MaxPos - coords[c]) |-> c]
           first(c) == [r \in 1..NeededBefore(c) |-> TurnOf(r)]
           low == [c \in 0..n |-> first(c)]
           rows == CHOOSE g : g = [c \in 0..n |-> IF c = 0 THEN <<>> ELSE next(g[c - 1], c - 1)]
<1>1. HonestSchedule = rows[n]
  BY DEF HonestSchedule
<1>2. n \in Nat
  BY ParameterFacts
<1>3. first(0) = <<>>
  BY NeededBeforeFacts
<1>4. ASSUME NEW c \in Nat, c + 1 <= n PROVE first(c + 1) = next(first(c), c)
  <2> DEFINE s == first(c)
             m == MaxPos - coords[c]
             t == [j \in 1..m |-> c]
             k == NeededBefore(c)
  <2>1. c \in Chain /\ c \in 0..NumChains /\ coords[c] \in 0..MaxPos
    BY <1>2, <1>4 DEF Chain
  <2>2. k \in Nat /\ m \in Nat /\ NeededBefore(c + 1) = k + m
    BY <2>1, NeededBeforeFacts, ParameterFacts
  <2>3. \A r \in 1..k : TurnOf(r) = s[r]
    OBVIOUS
  <2>4. \A r \in (k + 1)..(k + m) : TurnOf(r) = c
    <3> SUFFICES ASSUME NEW r \in (k + 1)..(k + m) PROVE TurnOf(r) = c
      OBVIOUS
    <3>1. r \in Nat /\ k < r /\ r <= k + m
      <4> HIDE DEF k, m
      <4> QED BY <2>2
    <3>2. Turn(c, r)
      BY <2>2, <3>1 DEF Turn
    <3> QED BY <2>1, <3>1, <3>2, TurnUnique
  <2>5. s \o t = [r \in 1..(k + m) |-> IF r <= k THEN s[r] ELSE t[r - k]]
    <3> DEFINE V == {TurnOf(r) : r \in 1..k} \cup {c}
               u == s \o t
    <3>1. s \in Seq(V) /\ Len(s) = k
      <4>1. s = [r \in 1..k |-> TurnOf(r)] /\ \A r \in 1..k : TurnOf(r) \in V
        OBVIOUS
      <4> HIDE DEF s, k, V
      <4> QED BY <2>2, <4>1
    <3>2. t \in Seq(V) /\ Len(t) = m
      <4>1. c \in V
        OBVIOUS
      <4> HIDE DEF m, V
      <4> QED BY <2>2, <4>1
    <3> HIDE DEF s, t, V, k, m
    <3>3. u \in Seq(V) /\ Len(u) = k + m
          /\ \A r \in 1..(k + m) : u[r] = IF r <= k THEN s[r] ELSE t[r - k]
      BY <3>1, <3>2, ConcatProperties
    <3>4. u \in [1..(k + m) -> V]
      <4> HIDE DEF u
      <4> QED BY <3>3, LenProperties
    <3>5. u = [r \in 1..(k + m) |-> u[r]]
      <4> HIDE DEF u
      <4> QED BY <3>4
    <3> HIDE DEF u
    <3>6. u = [r \in 1..(k + m) |-> IF r <= k THEN s[r] ELSE t[r - k]]
      BY <3>3, <3>5, Zenon
    <3> QED BY <3>6 DEF u
  <2>6. \A r \in 1..(k + m) : TurnOf(r) = IF r <= k THEN s[r] ELSE t[r - k]
    <3>1. \A r \in 1..(k + m) : r <= k => r \in 1..k
      <4> HIDE DEF k, m
      <4> QED BY <2>2
    <3>2. \A r \in 1..(k + m) : ~(r <= k) => r \in (k + 1)..(k + m) /\ r - k \in 1..m
      <4> HIDE DEF k, m
      <4> QED BY <2>2
    <3>3. \A j \in 1..m : t[j] = c
      OBVIOUS
    <3> HIDE DEF s, t, k, m
    <3> QED BY <2>3, <2>4, <3>1, <3>2, <3>3
  <2>7. first(c + 1) = [r \in 1..(k + m) |-> TurnOf(r)]
    BY <2>2
  <2> HIDE DEF s, t, k, m
  <2>8. first(c + 1) = s \o t
    <3>1. [r \in 1..(k + m) |-> TurnOf(r)]
          = [r \in 1..(k + m) |-> IF r <= k THEN s[r] ELSE t[r - k]]
      BY <2>6, Zenon
    <3> HIDE DEF first
    <3> QED BY <2>5, <2>7, <3>1, Zenon
  <2> QED BY <2>8 DEF s, t, m
<1> HIDE DEF next, first, n
<1>5. \A c \in 0..n : c # 0 => c - 1 \in 0..n /\ c - 1 \in Nat /\ (c - 1) + 1 = c /\ c <= n
  BY <1>2
<1>6. low = [c \in 0..n |-> IF c = 0 THEN <<>> ELSE next(low[c - 1], c - 1)]
  <2>1. ASSUME NEW c \in 0..n
        PROVE  first(c) = IF c = 0 THEN <<>> ELSE next(low[c - 1], c - 1)
    <3>1. CASE c = 0
      BY <1>3, <3>1
    <3>2. CASE c # 0
      <4>1. low[c - 1] = first(c - 1)
        BY <1>5, <3>2
      <4>2. first(c) = next(first(c - 1), c - 1)
        <5>1. c - 1 \in Nat /\ (c - 1) + 1 = c /\ c <= n
          BY <1>5, <3>2
        <5>2. first((c - 1) + 1) = next(first(c - 1), c - 1)
          BY <1>4, <5>1
        <5> QED BY <5>1, <5>2
      <4> HIDE DEF low
      <4> QED BY <3>2, <4>1, <4>2, Zenon
    <3> QED BY <3>1, <3>2
  <2> QED BY <2>1, Zenon
<1> HIDE DEF low
<1>7. rows = [c \in 0..n |-> IF c = 0 THEN <<>> ELSE next(rows[c - 1], c - 1)]
  BY <1>6, Zenon
<1> HIDE DEF rows
<1> DEFINE T == {c \in Nat : c <= n => rows[c] = first(c)}
<1>8. 0 \in T
  BY <1>2, <1>3, <1>7
<1>9. ASSUME NEW c \in T PROVE c + 1 \in T
  <2>1. c \in Nat /\ (c <= n => rows[c] = first(c))
    OBVIOUS
  <2>2. ASSUME c + 1 <= n PROVE rows[c + 1] = first(c + 1)
    <3>1. c + 1 \in 0..n /\ c + 1 # 0 /\ (c + 1) - 1 = c /\ c <= n
      BY <1>2, <2>1, <2>2
    <3>2. rows[c + 1] = next(rows[c], c)
      BY <1>7, <3>1
    <3> QED BY <1>4, <2>1, <2>2, <3>1, <3>2
  <2> QED BY <2>1, <2>2
<1>10. T = Nat
  <2> HIDE DEF T
  <2>1. T \in SUBSET Nat
    BY DEF T
  <2> QED BY <1>8, <1>9, <2>1, NatSetInduction
<1>11. n \in T /\ n <= n
  <2> HIDE DEF T
  <2> QED BY <1>10, <1>2
<1>12. rows[n] = first(n)
  BY <1>11
<1> QED BY <1>1, <1>12 DEF first, n

\* Row by row, on a digest with the target sum.
LEMMA ScheduleFacts ==
  ASSUME coords \in [Chain -> 0..MaxPos], Total(Needed, Chain) = Rows
  PROVE  /\ Len(HonestSchedule) = Rows
         /\ \A r \in 1..Rows : HonestSchedule[r] \in Chain /\ Turn(HonestSchedule[r], r)
<1>1. NeededBefore(NumChains) = Rows /\ Rows \in Nat
  BY NeededBeforeFacts, ParameterFacts
<1>2. HonestSchedule = [r \in 1..Rows |-> TurnOf(r)]
  BY <1>1, ScheduleIs
<1>3. Len(HonestSchedule) = Rows
  BY <1>1, <1>2
<1>4. ASSUME NEW r \in 1..Rows PROVE TurnOf(r) \in Chain /\ Turn(TurnOf(r), r)
  <2>1. \E c \in Chain : Turn(c, r)
    BY <1>1, TurnExists
  <2> QED BY <2>1 DEF TurnOf
<1>5. \A r \in 1..Rows : HonestSchedule[r] = TurnOf(r)
  BY <1>2
<1> QED BY <1>3, <1>4, <1>5

\* The place of a row within the turns of its chain.
RowsLaid == row > 0 => row = NeededBefore(previous.idx) + (previous.pos - coords[previous.idx])

\* The next row of the schedule walks the latest chain on, or begins the next
\* one that needs a row.
LEMMA NextTurn ==
  ASSUME coords \in [Chain -> 0..MaxPos], RowsInv, RowsLaid, row < Rows,
         NEW c, c = HonestSchedule[row + 1]
  PROVE  /\ c \in Chain /\ c \in Index
         /\ IF Same(c)
            THEN previous.pos \in coords[c]..(MaxPos - 1)
                 /\ row = NeededBefore(c) + (previous.pos - coords[c])
            ELSE /\ coords[c] \in 0..(MaxPos - 1) /\ row = NeededBefore(c)
                 /\ row > 0 => previous.idx < c /\ previous.pos = MaxPos
<1>1. row \in Nat /\ row + 1 \in 1..Rows /\ MaxPos \in Nat
  BY ParameterFacts DEF RowsInv
<1>2. c \in Chain /\ Turn(c, row + 1)
  BY <1>1, ScheduleFacts DEF RowsInv
<1>3. c \in Index /\ c \in Nat /\ c \in 0..NumChains /\ c + 1 \in 0..NumChains
  BY <1>2, ChainInIndex, ParameterFacts DEF Chain
<1>4. /\ NeededBefore(c) \in Nat /\ coords[c] \in 0..MaxPos
      /\ NeededBefore(c + 1) = NeededBefore(c) + (MaxPos - coords[c])
  BY <1>2, <1>3, NeededBeforeFacts
<1>5. NeededBefore(c) < row + 1 /\ row + 1 <= NeededBefore(c + 1)
  BY <1>2 DEF Turn
<1>6. Same(c) <=> row > 0 /\ c = previous.idx
  BY DEF Same
<1>7. CASE row = 0
  BY <1>1, <1>2, <1>3, <1>4, <1>5, <1>6, <1>7
<1>8. CASE row > 0
  <2> DEFINE p == previous.idx
  <2>1. /\ p \in Chain /\ previous.pos \in (coords[p] + 1)..MaxPos
        /\ row = NeededBefore(p) + (previous.pos - coords[p])
    BY <1>8 DEF RowsInv, LatestRow, RowsLaid
  <2> HIDE DEF p
  <2>2. p \in Nat /\ p \in 0..NumChains /\ p + 1 \in 0..NumChains /\ coords[p] \in 0..MaxPos
    BY <2>1, ParameterFacts DEF Chain
  <2>3. /\ NeededBefore(p) \in Nat
        /\ NeededBefore(p + 1) = NeededBefore(p) + (MaxPos - coords[p])
    BY <2>1, <2>2, NeededBeforeFacts
  <2>4. row <= NeededBefore(p + 1) /\ (row = NeededBefore(p + 1) => previous.pos = MaxPos)
        /\ NeededBefore(p) < row
    BY <1>1, <2>1, <2>2, <2>3
  <2>5. CASE c = p
    <3>1. row = NeededBefore(c) + (previous.pos - coords[c])
          /\ previous.pos \in (coords[c] + 1)..MaxPos
      BY <2>1, <2>5
    <3>2. previous.pos < MaxPos
      BY <1>1, <1>4, <1>5, <3>1
    <3>3. previous.pos \in coords[c]..(MaxPos - 1)
      BY <1>1, <1>4, <3>1, <3>2
    <3>4. Same(c)
      BY <1>6, <1>8, <2>5 DEF p
    <3> QED BY <1>2, <1>3, <3>1, <3>3, <3>4
  <2>6. CASE c < p
    <3>1. NeededBefore(c + 1) <= NeededBefore(p)
      BY <1>3, <2>2, <2>6, NeededBeforeFacts
    <3> QED BY <1>1, <1>4, <1>5, <2>3, <2>4, <3>1
  <2>7. CASE p < c
    <3>1. NeededBefore(p + 1) <= NeededBefore(c)
      BY <1>3, <2>2, <2>7, NeededBeforeFacts
    <3>2. row = NeededBefore(p + 1) /\ row = NeededBefore(c) /\ previous.pos = MaxPos
      BY <1>1, <1>4, <1>5, <2>2, <2>3, <2>4, <3>1
    <3>3. coords[c] \in 0..(MaxPos - 1)
      BY <1>1, <1>4, <1>5, <3>2
    <3>4. ~Same(c) /\ previous.idx < c
      BY <1>3, <1>6, <2>2, <2>7 DEF p
    <3> QED BY <1>2, <1>3, <3>2, <3>3, <3>4
  <2> QED BY <1>3, <2>2, <2>5, <2>6, <2>7
<1> QED BY <1>1, <1>7, <1>8

\* Laying it keeps the count.
LEMMA HonestRow ==
  ASSUME StatementInv, NEW index \in Index, Row(index) PROVE HonestInv'
<1>1. /\ phase = "rows" /\ coords \in [Chain -> 0..MaxPos] /\ RowsInv /\ HonestInv
      /\ phase' = "rows" /\ coords' = coords /\ row < Rows /\ row' = row + 1
      /\ honest' = (honest /\ index = HonestSchedule[row + 1])
  BY DEF StatementInv, Row
<1> SUFFICES ASSUME honest'
             PROVE  RowsLaid'
  BY <1>1 DEF HonestInv, RowsLaid
<1>2. honest /\ index = HonestSchedule[row + 1] /\ RowsLaid
  BY <1>1 DEF HonestInv, RowsLaid
<1>3. /\ index \in Chain
      /\ IF Same(index)
         THEN previous.pos \in coords[index]..(MaxPos - 1)
              /\ row = NeededBefore(index) + (previous.pos - coords[index])
         ELSE coords[index] \in 0..(MaxPos - 1) /\ row = NeededBefore(index)
  BY <1>1, <1>2, NextTurn
<1>4. /\ previous'.idx = index
      /\ previous'.pos = (IF Same(index) THEN previous.pos ELSE coords[index]) + 1
  BY <1>1, RowSpent
<1>5. NeededBefore(index) \in Nat /\ coords[index] \in Nat /\ MaxPos \in Nat
  <2>1. index \in 0..NumChains /\ coords[index] \in 0..MaxPos
    BY <1>1, <1>3, ParameterFacts DEF Chain
  <2> QED BY <1>1, <2>1, NeededBeforeFacts, ParameterFacts
<1>6. row + 1 = NeededBefore(index) + (previous'.pos - coords[index])
  <2>1. CASE Same(index)
    BY <1>3, <1>4, <1>5, <2>1
  <2>2. CASE ~Same(index)
    BY <1>3, <1>4, <1>5, <2>2
  <2> QED BY <2>1, <2>2
<1>7. NeededBefore(previous.idx)' = NeededBefore(index)
  <2>1. Needed' = Needed
    BY <1>1, CoordsStay
  <2> QED BY <1>4, <2>1 DEF NeededBefore
<1> QED BY <1>1, <1>4, <1>6, <1>7 DEF RowsLaid

\* And the constraints accept it.
LEMMA NextRowOk ==
  ASSUME coords \in [Chain -> 0..MaxPos], RowsInv, RowsLaid, row < Rows
  PROVE  RowOk(HonestSchedule[row + 1])
<1> DEFINE c == HonestSchedule[row + 1]
           from == IF Same(c) THEN previous.pos ELSE coords[c]
<1>1. /\ c \in Chain /\ c \in Index
      /\ IF Same(c)
         THEN previous.pos \in coords[c]..(MaxPos - 1)
         ELSE /\ coords[c] \in 0..(MaxPos - 1)
              /\ row > 0 => previous.idx < c /\ previous.pos = MaxPos
  BY NextTurn
<1> HIDE DEF c
<1>2. HighBitsZero(c) /\ Cardinality(Flags(c)) = 1 /\ Selected(c) = c
  BY <1>1, IndexOfChain
<1>3. coords[c] \in 0..MaxPos /\ MaxPos \in Nat /\ c \in Nat
  BY <1>1, ParameterFacts DEF Chain
<1>4. from \in coords[c]..MaxPos /\ from \in 0..MaxPos /\ from < MaxPos
  BY <1>1, <1>3
<1>5. Position(c) = Add(from, 1, PosBits)
  BY <1>2 DEF Position
<1>6. Same(c) => c = previous.idx /\ row > 0
  BY DEF Same
<1>7. row > 0 => LatestRow
  BY DEF RowsInv
<1>8. (IF Same(c) THEN previous.out ELSE SigNode(c)) = NodeAt(c, from)
  <2>1. CASE Same(c)
    BY <1>6, <1>7, <2>1 DEF LatestRow
  <2>2. CASE ~Same(c)
    BY <1>1, <2>2, NodeFacts
  <2> QED BY <2>1, <2>2
<1>9. row > 0 => ~Less(c, previous.idx)
  <2> SUFFICES ASSUME row > 0 PROVE ~Less(c, previous.idx)
    OBVIOUS
  <2>1. previous.idx \in Index /\ previous.idx \in Nat
    BY <1>7, ChainInIndex, ParameterFacts DEF LatestRow, Chain
  <2>2. ~(c < previous.idx)
    <3>1. CASE Same(c)
      BY <1>3, <1>6, <3>1
    <3>2. CASE ~Same(c)
      BY <1>1, <1>3, <2>1, <3>2
    <3> QED BY <3>1, <3>2
  <2> QED BY <1>1, <2>1, <2>2, LessIs
<1>10. row > 0 => (~Same(c) => previous.pos = MaxPos)
  BY <1>1
<1> HIDE DEF from
<1>11. Position(c).carry = 0 /\ Position(c).sum = from + 1
  BY <1>4, <1>5, NextPosition
<1>12. Position(c).sum = MaxPos => ends[c] \subseteq {OutNode(c)}
  <2>1. OutNode(c) = NodeAt(c, from + 1)
    <3>1. OutNode(c) = Hash(NodeAt(c, from), c, from + 1)
      BY <1>2, <1>8, <1>11 DEF OutNode, from
    <3> QED BY <1>1, <1>4, <3>1, NodeFacts
  <2>2. from + 1 = MaxPos => OutNode(c) = EndFromSig(c)
    BY <1>1, <2>1, NodeFacts
  <2>3. ends[c] \subseteq {EndFromSig(c)}
    BY <1>1 DEF RowsInv
  <2> QED BY <1>11, <2>2, <2>3
<1>13. RowOk(c)
  BY <1>2, <1>9, <1>10, <1>11, <1>12 DEF RowOk, HighBitsZero
<1> QED BY <1>13 DEF c

\* When the schedule is full, its last row has ended its chain.
LEMMA LastTurn ==
  ASSUME coords \in [Chain -> 0..MaxPos], RowsInv, RowsLaid, row = Rows
  PROVE  previous.pos = MaxPos
<1> DEFINE p == previous.idx
<1>1. row > 0 /\ row \in Nat /\ MaxPos \in Nat
  BY ParameterFacts
<1>2. /\ p \in Chain /\ previous.pos \in (coords[p] + 1)..MaxPos
      /\ row = NeededBefore(p) + (previous.pos - coords[p])
  BY <1>1 DEF RowsInv, LatestRow, RowsLaid
<1> HIDE DEF p
<1>3. p \in 0..NumChains /\ p + 1 \in 0..NumChains /\ coords[p] \in 0..MaxPos
      /\ p + 1 <= NumChains /\ NumChains \in 0..NumChains
  BY <1>2, ParameterFacts DEF Chain
<1>4. /\ NeededBefore(p) \in Nat
      /\ NeededBefore(p + 1) = NeededBefore(p) + (MaxPos - coords[p])
      /\ NeededBefore(p + 1) <= NeededBefore(NumChains)
  BY <1>2, <1>3, NeededBeforeFacts
<1>5. NeededBefore(NumChains) = row
  BY NeededBeforeFacts DEF RowsInv
<1> QED BY <1>1, <1>2, <1>3, <1>4, <1>5

\* What the property asks of the honest witness is NextRowOk and LastTurn.
LEMMA HonestFromInv == StatementInv => HonestWitnessHolds
<1> SUFFICES ASSUME StatementInv, honest
             PROVE  /\ phase = "rows" =>
                         IF row < Rows
                         THEN Len(HonestSchedule) = Rows /\ RowOk(HonestSchedule[row + 1])
                         ELSE previous.pos = MaxPos
                    /\ phase = "tree" /\ genuine => node = TreeNode(level, idx)
  BY DEF HonestWitnessHolds
<1>1. ASSUME phase = "rows"
      PROVE  IF row < Rows
             THEN Len(HonestSchedule) = Rows /\ RowOk(HonestSchedule[row + 1])
             ELSE previous.pos = MaxPos
  <2>1. coords \in [Chain -> 0..MaxPos] /\ RowsInv /\ RowsLaid
    BY <1>1 DEF StatementInv, HonestInv, RowsLaid
  <2>2. CASE row < Rows
    <3>1. Len(HonestSchedule) = Rows
      BY <2>1, ScheduleFacts DEF RowsInv
    <3>2. RowOk(HonestSchedule[row + 1])
      BY <2>1, <2>2, NextRowOk
    <3> QED BY <2>2, <3>1, <3>2
  <2>3. CASE ~(row < Rows)
    <3>1. row = Rows
      BY <2>1, <2>3, ParameterFacts DEF RowsInv
    <3> QED BY <2>1, <2>3, <3>1, LastTurn
  <2> QED BY <2>2, <2>3
<1>2. phase = "tree" /\ genuine => node = TreeNode(level, idx)
  BY DEF StatementInv, HonestInv
<1> QED BY <1>1, <1>2

-----------------------------------------------------------------------------
(* Theorems about the statement                                            *)

\* The invariant speaks of the variables only.
LEMMA StatementInvStutter ==
  ASSUME StatementInv, UNCHANGED statementVars PROVE StatementInv'
<1>1. /\ coords' = coords /\ genuine' = genuine /\ phase' = phase /\ row' = row
      /\ previous' = previous /\ ends' = ends /\ level' = level /\ idx' = idx
      /\ node' = node /\ honest' = honest
  BY DEF statementVars
<1>2. Needed' = Needed /\ (\A c : NeededBefore(c)' = NeededBefore(c))
      /\ (\A c : EndFromSig(c)' = EndFromSig(c)) /\ (\A c, p : NodeAt(c, p)' = NodeAt(c, p))
  BY <1>1, CoordsStay
<1>3. Walked' = Walked
  BY <1>1 DEF Walked
<1>4. phase = "rows" => RowsInv'
  BY <1>1, <1>2, <1>3 DEF StatementInv, RowsInv, LatestRow
<1>5. phase = "tree" => PathInv'
  BY <1>1 DEF StatementInv, PathInv, OtherNode, TreeNode
<1>6. HonestInv'
  <2>1. NeededBefore(previous.idx)' = NeededBefore(previous'.idx)
    BY <1>1, <1>2
  <2> QED BY <1>1, <1>2, <2>1 DEF StatementInv, HonestInv, TreeNode
<1>7. StatementSound'
  BY <1>1, <1>2 DEF StatementInv, StatementSound
<1> QED BY <1>1, <1>4, <1>5, <1>6, <1>7 DEF StatementInv

\* Step by step.
LEMMA StatementInvNext == StatementInv /\ [StatementNext]_statementVars => StatementInv'
<1> SUFFICES ASSUME StatementInv, [StatementNext]_statementVars PROVE StatementInv'
  OBVIOUS
<1>1. CASE Digest
  BY <1>1, StatementInvDigest
<1>2. CASE \E index \in Index : Row(index)
  BY <1>2, HonestRow, StatementInvRow
<1>3. CASE \E e \in 0..(Pow2[Height] - 1) : Leaf(e)
  BY <1>3, StatementInvLeaf
<1>4. CASE \E sibling \in Tree \cup {OtherNode} : Climb(sibling)
  BY <1>4, StatementInvClimb
<1>5. CASE Finish
  BY <1>5, StatementInvFinish
<1>6. CASE UNCHANGED statementVars
  BY <1>6, StatementInvStutter
<1> QED BY <1>1, <1>2, <1>3, <1>4, <1>5, <1>6 DEF StatementNext

\* The statement keeps its invariant: the rows laid so far are spent, one by
\* one, on chains that need them, and the tree nodes are those above the leaf.
THEOREM StatementInvariant == StatementSpec => []StatementInv
<1> QED BY StatementInvInit, StatementInvNext, PTL DEF StatementSpec

\* Circuit::statement is sound for every number of chains, widths of the wires,
\* length of the schedule and height of the tree: a witness that meets its
\* constraints has every chain end that xmss_wots_pk_from_sig computes from the
\* signature, under a leaf of the signer's tree.
THEOREM VoleithStatementSound == StatementSpec => []StatementSound
<1>1. StatementInv => StatementSound
  BY DEF StatementInv
<1> QED BY <1>1, StatementInvariant, PTL

\* And complete: what primary_witness writes fills the schedule and satisfies
\* every constraint, on every digest that sign accepts.
THEOREM PrimaryWitnessAccepted == StatementSpec => []HonestWitnessHolds
<1> QED BY StatementInvariant, HonestFromInv, PTL

-----------------------------------------------------------------------------
(* Part 3: the hash                                                        *)

\* Blocks of a permutation, those of n, and the constraints of n.
PermBlocks(n) == IF degree = 16 THEN 4 * n ELSE 3 * n
PermConstraints(n) ==
    IF degree = 16 THEN 6400 * n
    ELSE IF degree = 32 THEN 4800 * n
    ELSE 3200 * n + (IF n = NumBlocks THEN 1600 * (n - 1) + 8 * input.out ELSE 1600 * n)

\* The width of the k-th block: all of the state, and at degree 64 every third
\* is what the permutation keeps.
Width(k) == IF degree = 64 /\ k % 3 = 0 THEN Keep(k \div 3) ELSE 1600

\* The groups of the permutation at hand that have ended.
Groups == IF degree = 16 THEN round \div 6 ELSE IF degree = 32 THEN round \div 8 ELSE round \div 9
GroupStart ==
    round \in IF degree = 16 THEN {0, 6, 12, 18} ELSE IF degree = 32 THEN {0, 8, 16} ELSE {0, 9, 18}

\* Types.
BlocksOf(w) == {w[i] : i \in DOMAIN w}

KeccakTypes ==
    /\ degree \in {16, 32, 64}
    /\ input \in Inputs
    /\ absorbed \in 0..NumBlocks
    /\ cons \in [native : Int, auth : Int]
    /\ witness \in Seq(BlocksOf(witness))
    /\ taken \in Seq(Int)

\* Both contexts follow the same layout.
WidthInv ==
    /\ \A k \in 1..Len(witness) : witness[k].width = Width(k)
    /\ \A k \in 1..Len(taken) : taken[k] = Width(k)
    /\ Len(taken) <= Len(witness)

\* What NativeContext has allocated and counted for the blocks that are absorbed.
NativeInv ==
    /\ stage = "native" =>
          /\ Len(witness) = PermBlocks(absorbed) /\ cons.native = PermConstraints(absorbed)
          /\ Len(taken) = 0 /\ cons.auth = 0
    /\ stage # "native" =>
          /\ Len(witness) = PermBlocks(NumBlocks) /\ cons.native = PermConstraints(NumBlocks)

\* How far AuthContext has come: whole permutations, whole groups, and a snapshot.
AuthInv ==
    /\ stage \in {"absorb", "done"} =>
          /\ Len(taken) = PermBlocks(absorbed) /\ cons.auth = PermConstraints(absorbed)
    /\ stage = "done" => absorbed = NumBlocks
    /\ stage \in {"forward", "take", "digest", "backward", "meet"} =>
          /\ absorbed >= 1 /\ GroupStart
          /\ Len(taken) = PermBlocks(absorbed - 1) + Groups
                          + IF stage \in {"backward", "meet"} THEN 1 ELSE 0
          /\ cons.auth = PermConstraints(absorbed - 1) + 1600 * Groups
    /\ stage \in {"take", "backward", "meet"} => ~AtDigest
    /\ stage = "digest" => AtDigest

\* The inductive invariant.
KeccakInv == KeccakTypes /\ WidthInv /\ NativeInv /\ AuthInv

\* The padded input fills at least one block.
LEMMA BlocksPositive ==
  ASSUME input \in Inputs
  PROVE  NumBlocks \in Nat /\ NumBlocks >= 1 /\ input.out \in 1..136
<1>1. input.len \in Nat /\ input.out \in 1..136
  BY KeccakAssumption
<1> DEFINE q == (input.len + 1 + 135) \div 136
<1>2. q \in Nat /\ q >= 1
  BY <1>1
<1> HIDE DEF q
<1>3. (q * 136) \div 136 = q
  BY <1>2
<1> QED BY <1>1, <1>2, <1>3 DEF NumBlocks, PaddedBytes, q

LEMMA StrideIs ==
  ASSUME degree \in {16, 32, 64}
  PROVE  /\ Stride = IF degree = 16 THEN 6 ELSE IF degree = 32 THEN 8 ELSE 9
         /\ Snapshots = IF degree = 16 THEN 4 ELSE IF degree = 32 THEN 3 ELSE 2
<1>1. Stride = IF degree = 16 THEN 6 ELSE IF degree = 32 THEN 8 ELSE 9
  BY DEF Stride
<1> QED BY <1>1 DEF Snapshots

\* What NativeContext::permute allocates.
LEMMA NativeBlocksAre ==
  ASSUME degree \in {16, 32, 64}, NEW trace, NEW keep \in Int
  PROVE  LET w == NativeBlocks(trace, keep)
         IN  /\ w \in Seq(BlocksOf(w))
             /\ Len(w) = PermBlocks(1)
             /\ \A i \in 1..Len(w) : w[i].width = IF degree = 64 /\ i = 3 THEN keep ELSE 1600
<1> DEFINE t == [j \in 1..Snapshots |-> [width |-> 1600, ones |-> trace[j * TraceRounds]]]
           last == [width |-> keep, ones |-> FirstBits(trace[24], keep)]
           e == IF degree = 64 THEN <<last>> ELSE <<>>
           w == NativeBlocks(trace, keep)
           S == BlocksOf(t) \cup {last}
<1>1. w = t \o e
  BY DEF NativeBlocks
<1>2. Snapshots \in Nat
  BY StrideIs
<1>3. DOMAIN t = 1..Snapshots /\ \A i \in 1..Snapshots : t[i].width = 1600 /\ t[i] \in S
  BY DEF BlocksOf
<1>4. t \in [1..Snapshots -> S]
  <2>1. t = [i \in 1..Snapshots |-> t[i]]
    OBVIOUS
  <2> HIDE DEF t, S
  <2> QED BY <1>3, <2>1
<1>5. last \in S /\ last.width = keep
  OBVIOUS
<1> HIDE DEF t, last, S, w
<1>6. t \in Seq(S) /\ Len(t) = Snapshots
  BY <1>2, <1>4
<1>7. e \in Seq(S) /\ Len(e) = (IF degree = 64 THEN 1 ELSE 0)
      /\ \A i \in 1..Len(e) : e[i] = last
  BY <1>5
<1> HIDE DEF e
<1>8. w \in Seq(S) /\ Len(w) = Len(t) + Len(e)
      /\ \A i \in 1..Len(w) : w[i] = IF i <= Len(t) THEN t[i] ELSE e[i - Len(t)]
  BY <1>1, <1>6, <1>7, ConcatProperties
<1>9. w \in Seq(BlocksOf(w))
  <2>1. DOMAIN w = 1..Len(w) /\ w \in [1..Len(w) -> S] /\ Len(w) \in Nat
    BY <1>8
  <2>2. \A i \in 1..Len(w) : w[i] \in BlocksOf(w)
    BY <2>1 DEF BlocksOf
  <2>3. w \in [1..Len(w) -> BlocksOf(w)]
    BY <2>1, <2>2
  <2> QED BY <2>1, <2>3
<1>10. Len(w) = PermBlocks(1)
  BY <1>6, <1>7, <1>8, StrideIs DEF PermBlocks
<1>11. ASSUME NEW i \in 1..Len(w)
       PROVE  w[i].width = IF degree = 64 /\ i = 3 THEN keep ELSE 1600
  <2>1. i \in Int /\ 1 <= i /\ i <= PermBlocks(1) /\ Len(t) = Snapshots
    BY <1>6, <1>10
  <2>2. CASE i <= Len(t)
    <3>1. w[i] = t[i] /\ i \in 1..Snapshots
      BY <1>8, <2>1, <2>2
    <3>2. ~(degree = 64 /\ i = 3)
      BY <2>1, <2>2, StrideIs
    <3> QED BY <1>3, <3>1, <3>2
  <2>3. CASE ~(i <= Len(t))
    <3>1. degree = 64 /\ i = 3
      BY <2>1, <2>3, StrideIs DEF PermBlocks
    <3>2. w[i] = e[i - Len(t)] /\ i - Len(t) \in 1..Len(e)
      BY <1>7, <1>8, <2>1, <2>3, <3>1, StrideIs
    <3> QED BY <1>5, <1>7, <3>1, <3>2
  <2> QED BY <2>2, <2>3
<1> QED BY <1>9, <1>10, <1>11 DEF w

LEMMA KeccakInvInit == KeccakInit => KeccakInv
<1> SUFFICES ASSUME KeccakInit PROVE KeccakInv
  OBVIOUS
<1>1. degree \in {16, 32, 64} /\ input \in Inputs
  BY KeccakAssumption DEF KeccakInit
<1>2. NumBlocks \in Nat /\ NumBlocks >= 1 /\ input.out \in 1..136
  BY <1>1, BlocksPositive
<1>3. absorbed \in 0..NumBlocks /\ absorbed = 0
  BY <1>2 DEF KeccakInit
<1>4. witness = <<>> /\ taken = <<>> /\ stage = "native" /\ cons = [native |-> 0, auth |-> 0]
  BY DEF KeccakInit
<1>5. KeccakTypes
  BY <1>1, <1>3, <1>4 DEF KeccakTypes
<1>6. WidthInv
  BY <1>4 DEF WidthInv
<1>7. NativeInv
  BY <1>2, <1>3, <1>4 DEF NativeInv, PermBlocks, PermConstraints
<1>8. AuthInv
  BY <1>4 DEF AuthInv
<1> QED BY <1>5, <1>6, <1>7, <1>8 DEF KeccakInv

\* What the layout is made from does not change.
LEMMA LayoutStable ==
  ASSUME KeccakInv, UNCHANGED <<degree, input>>
  PROVE  /\ NumBlocks' = NumBlocks /\ NumBlocks \in Nat /\ NumBlocks >= 1
         /\ input.out \in 1..136
         /\ \A k : Width(k)' = Width(k)
<1>1. NumBlocks' = NumBlocks
  BY DEF NumBlocks, PaddedBytes
<1>2. NumBlocks \in Nat /\ NumBlocks >= 1 /\ input.out \in 1..136
  BY BlocksPositive DEF KeccakInv, KeccakTypes
<1>3. \A k : Width(k)' = Width(k)
  BY <1>1 DEF Width, Keep
<1> QED BY <1>1, <1>2, <1>3

LEMMA OfThree ==
  \A a \in Nat : \A i \in {1, 2, 3} :
     (i = 3 <=> (3 * a + i) % 3 = 0) /\ (i = 3 => (3 * a + i) \div 3 = a + 1)
OBVIOUS

LEMMA NativePermuteStep ==
  ASSUME KeccakInv, NativePermute
  PROVE  KeccakInv'
<1> DEFINE keep == Keep(absorbed + 1)
           trace == Keccak(Xor(state, InputBlock(absorbed + 1)))
           blocks == NativeBlocks(trace, keep)
           total == cons.native + 1600 * Snapshots + (IF degree = 64 THEN keep ELSE 0)
<1>1. /\ stage = "native" /\ stage' = "native" /\ absorbed < NumBlocks /\ absorbed' = absorbed + 1
      /\ witness' = witness \o blocks /\ taken' = taken
      /\ cons' = [cons EXCEPT !.native = total]
      /\ UNCHANGED <<degree, input>>
  BY DEF NativePermute
<1>2. /\ NumBlocks' = NumBlocks /\ NumBlocks \in Nat /\ NumBlocks >= 1 /\ input.out \in 1..136
      /\ \A k : Width(k)' = Width(k)
  BY <1>1, LayoutStable
<1>3. /\ degree \in {16, 32, 64} /\ absorbed \in Nat /\ cons \in [native : Int, auth : Int]
      /\ witness \in Seq(BlocksOf(witness)) /\ taken \in Seq(Int)
      /\ Len(witness) = PermBlocks(absorbed) /\ cons.native = PermConstraints(absorbed)
      /\ Len(taken) = 0 /\ cons.auth = 0
      /\ \A k \in 1..Len(witness) : witness[k].width = Width(k)
  BY <1>1, <1>2 DEF KeccakInv, KeccakTypes, WidthInv, NativeInv
<1>4. keep \in Int /\ keep = IF absorbed + 1 = NumBlocks THEN 8 * input.out ELSE 1600
  BY <1>2 DEF Keep
<1> HIDE DEF trace, keep, blocks, total
<1>5. /\ blocks \in Seq(BlocksOf(blocks)) /\ Len(blocks) = PermBlocks(1)
      /\ \A i \in 1..Len(blocks) : blocks[i].width = IF degree = 64 /\ i = 3 THEN keep ELSE 1600
  BY <1>3, <1>4, NativeBlocksAre DEF blocks
<1>6. /\ witness' \in Seq(BlocksOf(witness')) /\ Len(witness') = Len(witness) + Len(blocks)
      /\ \A k \in 1..Len(witness') :
            witness'[k] = IF k <= Len(witness) THEN witness[k] ELSE blocks[k - Len(witness)]
  <2> DEFINE S == BlocksOf(witness) \cup BlocksOf(blocks)
             w == witness'
  <2>1. witness \in Seq(S) /\ blocks \in Seq(S)
    BY <1>3, <1>5
  <2> HIDE DEF S
  <2>2. w \in Seq(S) /\ Len(w) = Len(witness) + Len(blocks)
        /\ \A k \in 1..Len(w) : w[k] = IF k <= Len(witness) THEN witness[k] ELSE blocks[k - Len(witness)]
    BY <1>1, <2>1, ConcatProperties
  <2> HIDE DEF w
  <2>3. DOMAIN w = 1..Len(w) /\ w \in [1..Len(w) -> S] /\ Len(w) \in Nat
    BY <2>2
  <2>4. \A i \in 1..Len(w) : w[i] \in BlocksOf(w)
    BY <2>3 DEF BlocksOf
  <2>5. w \in [1..Len(w) -> BlocksOf(w)]
    BY <2>3, <2>4
  <2>6. w \in Seq(BlocksOf(w))
    BY <2>3, <2>5
  <2> QED BY <2>2, <2>6 DEF w
<1>7. Len(witness') = PermBlocks(absorbed + 1)
  BY <1>3, <1>5, <1>6 DEF PermBlocks
<1>8. ASSUME NEW k \in 1..Len(witness') PROVE witness'[k].width = Width(k)
  <2>1. k \in Int /\ 1 <= k /\ k <= PermBlocks(absorbed + 1)
    BY <1>3, <1>7 DEF PermBlocks
  <2>2. CASE k <= Len(witness)
    <3>1. k \in 1..Len(witness)
      BY <1>3, <2>1, <2>2
    <3> QED BY <1>3, <1>6, <2>2, <3>1
  <2>3. CASE ~(k <= Len(witness))
    <3>1. PICK i : i = k - Len(witness)
      OBVIOUS
    <3>2. i \in 1..Len(blocks) /\ witness'[k] = blocks[i]
      BY <1>3, <1>5, <1>6, <2>1, <2>3, <3>1 DEF PermBlocks
    <3>3. degree = 64 => (i = 3 <=> k % 3 = 0) /\ (i = 3 => k \div 3 = absorbed + 1)
      <4>1. SUFFICES ASSUME degree = 64
                     PROVE  (i = 3 <=> k % 3 = 0) /\ (i = 3 => k \div 3 = absorbed + 1)
        OBVIOUS
      <4>2. i \in {1, 2, 3} /\ k = 3 * absorbed + i /\ absorbed \in Nat
        BY <1>3, <1>5, <2>1, <3>1, <3>2, <4>1 DEF PermBlocks
      <4> QED BY <4>2, OfThree
    <3> QED BY <1>5, <3>2, <3>3 DEF Width, keep
  <2> QED BY <2>2, <2>3
<1>9. cons'.native = PermConstraints(absorbed + 1) /\ cons'.auth = 0 /\ cons' \in [native : Int, auth : Int]
  <2>1. cons.native \in Int /\ cons.native = PermConstraints(absorbed) /\ cons.auth = 0
        /\ cons \in [native : Int, auth : Int]
        /\ degree \in {16, 32, 64} /\ absorbed \in Nat /\ absorbed < NumBlocks
        /\ NumBlocks \in Nat /\ input.out \in Int
    <3>1. cons \in [native : Int, auth : Int] /\ cons.native = PermConstraints(absorbed) /\ cons.auth = 0
      BY <1>3
    <3>2. cons.native \in Int
      BY <3>1
    <3>3. degree \in {16, 32, 64} /\ absorbed \in Nat
      BY <1>3
    <3>4. absorbed < NumBlocks
      BY <1>1
    <3>5. NumBlocks \in Nat /\ input.out \in Int
      BY <1>2
    <3> QED BY <3>1, <3>2, <3>3, <3>4, <3>5
  <2>2. Snapshots = IF degree = 16 THEN 4 ELSE IF degree = 32 THEN 3 ELSE 2
    BY <2>1, StrideIs
  <2>3. total = PermConstraints(absorbed + 1) /\ total \in Int
    <3>1. CASE degree = 16
      <4>1. Snapshots = 4
        BY <2>2, <3>1
      <4> QED BY <2>1, <3>1, <4>1 DEF PermConstraints, total
    <3>2. CASE degree = 32
      <4>1. Snapshots = 3
        BY <2>2, <3>2
      <4> QED BY <2>1, <3>2, <4>1 DEF PermConstraints, total
    <3>3. CASE degree = 64
      <4>1. Snapshots = 2
        BY <2>2, <3>3
      <4> QED BY <1>4, <2>1, <3>3, <4>1 DEF PermConstraints, total
    <3> QED BY <2>1, <3>1, <3>2, <3>3
  <2> QED BY <1>1, <2>1, <2>3
<1>10. KeccakTypes'
  BY <1>1, <1>2, <1>3, <1>6, <1>9 DEF KeccakTypes, KeccakInv
<1>11. WidthInv'
  <2>1. Len(taken') <= Len(witness')
    BY <1>1, <1>3, <1>7 DEF PermBlocks
  <2>2. \A k \in 1..Len(taken') : taken'[k] = Width(k)'
    BY <1>1, <1>3
  <2> QED BY <1>2, <1>8, <2>1, <2>2 DEF WidthInv
<1>12. NativeInv'
  <2>1. PermBlocks(absorbed)' = PermBlocks(absorbed + 1)
    BY <1>1 DEF PermBlocks
  <2>2. PermConstraints(absorbed)' = PermConstraints(absorbed + 1)
    BY <1>1, <1>2 DEF PermConstraints
  <2> QED BY <1>1, <1>3, <1>7, <1>9, <2>1, <2>2 DEF NativeInv
<1>13. AuthInv'
  BY <1>1 DEF AuthInv
<1> QED BY <1>10, <1>11, <1>12, <1>13 DEF KeccakInv

\* The authenticated evaluation reads what the native one wrote.
LEMMA Reading ==
  ASSUME KeccakInv, UNCHANGED <<degree, input, witness>>, stage # "native", stage' # "native",
         cons' \in [native : Int, auth : Int], cons'.native = cons.native,
         absorbed' \in 0..NumBlocks,
         taken' \in Seq(Int), Len(taken') <= Len(witness),
         \A k \in 1..Len(taken') : taken'[k] = Width(k)
  PROVE  KeccakTypes' /\ WidthInv' /\ NativeInv'
<1>1. /\ NumBlocks' = NumBlocks
      /\ \A k : Width(k)' = Width(k)
  BY LayoutStable
<1>2. KeccakTypes'
  <2>1. degree' \in {16, 32, 64} /\ input' \in Inputs
    BY DEF KeccakInv, KeccakTypes
  <2>2. witness' \in Seq(BlocksOf(witness'))
    BY DEF KeccakInv, KeccakTypes, BlocksOf
  <2>3. absorbed' \in 0..NumBlocks'
    BY <1>1
  <2> QED BY <2>1, <2>2, <2>3 DEF KeccakTypes
<1>3. WidthInv'
  <2>1. \A k \in 1..Len(witness') : witness'[k].width = Width(k)
    BY DEF KeccakInv, WidthInv
  <2> QED BY <1>1, <2>1 DEF WidthInv
<1>4. NativeInv'
  <2>1. PermBlocks(NumBlocks)' = PermBlocks(NumBlocks)
    BY <1>1 DEF PermBlocks
  <2>2. PermConstraints(NumBlocks)' = PermConstraints(NumBlocks)
    BY <1>1 DEF PermConstraints
  <2>3. Len(witness) = PermBlocks(NumBlocks) /\ cons.native = PermConstraints(NumBlocks)
    BY DEF KeccakInv, NativeInv
  <2> QED BY <2>1, <2>2, <2>3 DEF NativeInv
<1> QED BY <1>2, <1>3, <1>4

\* Facts about numbers that the steps need.
LEMMA ReadingFacts ==
  ASSUME KeccakInv
  PROVE  /\ degree \in {16, 32, 64} /\ absorbed \in Nat /\ absorbed <= NumBlocks
         /\ NumBlocks \in Nat /\ NumBlocks >= 1 /\ input.out \in Int
         /\ taken \in Seq(Int) /\ Len(taken) \in Nat /\ Len(taken) <= Len(witness)
         /\ \A k \in 1..Len(taken) : taken[k] = Width(k)
         /\ cons \in [native : Int, auth : Int] /\ cons.auth \in Int
<1>1. NumBlocks \in Nat /\ NumBlocks >= 1 /\ input.out \in 1..136
  BY BlocksPositive DEF KeccakInv, KeccakTypes
<1>2. degree \in {16, 32, 64} /\ absorbed \in Nat /\ absorbed <= NumBlocks
  BY <1>1 DEF KeccakInv, KeccakTypes
<1>3. taken \in Seq(Int) /\ Len(taken) \in Nat
  BY DEF KeccakInv, KeccakTypes
<1>4. Len(taken) <= Len(witness) /\ \A k \in 1..Len(taken) : taken[k] = Width(k)
  BY DEF KeccakInv, WidthInv
<1>5. cons \in [native : Int, auth : Int] /\ cons.auth \in Int
  BY DEF KeccakInv, KeccakTypes
<1>6. input.out \in Int
  BY <1>1
<1> QED BY <1>1, <1>2, <1>3, <1>4, <1>5, <1>6, Zenon

LEMMA NativeReturnStep ==
  ASSUME KeccakInv, NativeReturn
  PROVE  KeccakInv'
<1>1. /\ stage = "native" /\ stage' = "absorb" /\ absorbed = NumBlocks /\ absorbed' = 0
      /\ UNCHANGED <<degree, input, witness, taken, cons>>
  BY DEF NativeReturn
<1>2. /\ NumBlocks' = NumBlocks /\ \A k : Width(k)' = Width(k)
  BY <1>1, LayoutStable
<1>3. KeccakTypes'
  <2>1. degree' \in {16, 32, 64} /\ input' \in Inputs /\ cons' \in [native : Int, auth : Int]
        /\ taken' \in Seq(Int)
    BY <1>1 DEF KeccakInv, KeccakTypes
  <2>2. witness' \in Seq(BlocksOf(witness'))
    BY <1>1 DEF KeccakInv, KeccakTypes, BlocksOf
  <2>3. absorbed' \in 0..NumBlocks'
    BY <1>1, <1>2, ReadingFacts
  <2> QED BY <2>1, <2>2, <2>3 DEF KeccakTypes
<1>4. WidthInv'
  BY <1>1, <1>2 DEF KeccakInv, WidthInv
<1>5. NativeInv'
  <2>1. PermBlocks(NumBlocks)' = PermBlocks(NumBlocks)
    BY <1>1, <1>2 DEF PermBlocks
  <2>2. PermConstraints(NumBlocks)' = PermConstraints(NumBlocks)
    BY <1>1, <1>2 DEF PermConstraints
  <2>3. Len(witness) = PermBlocks(NumBlocks) /\ cons.native = PermConstraints(NumBlocks)
    BY <1>1 DEF KeccakInv, NativeInv
  <2> QED BY <1>1, <2>1, <2>2, <2>3 DEF NativeInv
<1>6. AuthInv'
  <2>1. Len(taken') = 0 /\ cons'.auth = 0 /\ absorbed' = 0
    BY <1>1 DEF KeccakInv, NativeInv
  <2>2. NumBlocks' \in Nat /\ NumBlocks' >= 1
    BY <1>2, ReadingFacts
  <2>3. PermBlocks(absorbed)' = 0 /\ PermConstraints(absorbed)' = 0
    BY <2>1, <2>2 DEF PermBlocks, PermConstraints
  <2> QED BY <1>1, <2>1, <2>3 DEF AuthInv
<1> QED BY <1>3, <1>4, <1>5, <1>6 DEF KeccakInv

LEMMA AbsorbBlockStep ==
  ASSUME KeccakInv, AbsorbBlock
  PROVE  KeccakInv'
<1>1. /\ stage = "absorb" /\ stage' = "forward" /\ absorbed < NumBlocks /\ absorbed' = absorbed + 1
      /\ round' = 0 /\ UNCHANGED <<degree, input, witness, taken, cons>>
  BY DEF AbsorbBlock
<1>2. absorbed' \in 0..NumBlocks
  BY <1>1, ReadingFacts
<1>3. KeccakTypes' /\ WidthInv' /\ NativeInv'
  BY <1>1, <1>2, Reading, ReadingFacts
<1>4. AuthInv'
  <2>1. Len(taken) = PermBlocks(absorbed) /\ cons.auth = PermConstraints(absorbed)
    BY <1>1 DEF KeccakInv, AuthInv
  <2>2. NumBlocks' = NumBlocks /\ degree \in {16, 32, 64} /\ absorbed \in Nat
    BY <1>1, LayoutStable, ReadingFacts
  <2>3. absorbed' >= 1 /\ absorbed' - 1 = absorbed
    BY <1>1, <2>2
  <2>4. PermBlocks(absorbed - 1)' = Len(taken)
    BY <1>1, <2>1, <2>3 DEF PermBlocks
  <2>5. PermConstraints(absorbed - 1)' = cons.auth
    BY <1>1, <2>1, <2>2, <2>3 DEF PermConstraints
  <2>6. GroupStart' /\ Groups' = 0
    BY <1>1, <2>2 DEF GroupStart, Groups
  <2>7. Len(taken) \in Nat /\ cons.auth \in Int
    BY ReadingFacts
  <2> QED BY <1>1, <2>3, <2>4, <2>5, <2>6, <2>7 DEF AuthInv
<1> QED BY <1>3, <1>4 DEF KeccakInv

LEMMA ForwardRoundStep ==
  ASSUME KeccakInv, ForwardRound
  PROVE  KeccakInv'
<1>1. /\ stage = "forward" /\ stage' \in {"forward", "take", "digest"}
      /\ stage' = "take" => ~AtDigest
      /\ stage' = "digest" => AtDigest
      /\ UNCHANGED <<degree, input, absorbed, round, witness, taken, cons>>
  BY DEF ForwardRound
<1>2. absorbed' \in 0..NumBlocks
  BY <1>1, ReadingFacts
<1>3. KeccakTypes' /\ WidthInv' /\ NativeInv'
  BY <1>1, <1>2, Reading, ReadingFacts
<1>4. AuthInv'
  <2>1. /\ absorbed >= 1 /\ GroupStart
        /\ Len(taken) = PermBlocks(absorbed - 1) + Groups + 0
        /\ cons.auth = PermConstraints(absorbed - 1) + 1600 * Groups
    BY <1>1 DEF KeccakInv, AuthInv
  <2>2. NumBlocks' = NumBlocks
    BY <1>1, LayoutStable
  <2>3. PermBlocks(absorbed - 1)' = PermBlocks(absorbed - 1)
    BY <1>1 DEF PermBlocks
  <2>4. PermConstraints(absorbed - 1)' = PermConstraints(absorbed - 1)
    BY <1>1, <2>2 DEF PermConstraints
  <2>5. (GroupStart' <=> GroupStart) /\ Groups' = Groups /\ (AtDigest' <=> AtDigest)
    BY <1>1 DEF GroupStart, Groups, AtDigest
  <2> QED BY <1>1, <2>1, <2>3, <2>4, <2>5 DEF AuthInv
<1> QED BY <1>3, <1>4 DEF KeccakInv

\* The block that is taken off next.
LEMMA NextBlock ==
  ASSUME KeccakInv, stage \in {"take", "digest"}
  PROVE  Width(Len(taken) + 1) = IF stage = "digest" THEN Keep(absorbed) ELSE 1600
<1>1. /\ absorbed >= 1 /\ GroupStart
      /\ Len(taken) = PermBlocks(absorbed - 1) + Groups + 0
      /\ stage = "take" => ~AtDigest
      /\ stage = "digest" => AtDigest
  BY DEF KeccakInv, AuthInv
<1>2. degree \in {16, 32, 64} /\ absorbed \in Nat
  BY ReadingFacts
<1>3. CASE degree # 64
  BY <1>1, <1>3 DEF Width, AtDigest
<1>4. CASE degree = 64
  <2>1. PICK i \in {1, 2, 3} : Len(taken) + 1 = 3 * (absorbed - 1) + i /\ (i = 3 <=> stage = "digest")
    <3>1. PermBlocks(absorbed - 1) = 3 * (absorbed - 1)
      BY <1>4 DEF PermBlocks
    <3>2. round \in {0, 9, 18} /\ (round = 18 <=> stage = "digest")
      BY <1>1, <1>4 DEF GroupStart, AtDigest
    <3>3. Groups = IF round = 0 THEN 0 ELSE IF round = 9 THEN 1 ELSE 2
      BY <1>4, <3>2 DEF Groups
    <3> QED BY <1>1, <1>2, <3>1, <3>2, <3>3
  <2>2. absorbed - 1 \in Nat
    BY <1>1, <1>2
  <2>3. (i = 3 <=> (3 * (absorbed - 1) + i) % 3 = 0)
        /\ (i = 3 => (3 * (absorbed - 1) + i) \div 3 = absorbed - 1 + 1)
    BY <2>1, <2>2, OfThree
  <2>4. absorbed - 1 + 1 = absorbed
    BY <1>2
  <2> QED BY <1>4, <2>1, <2>3, <2>4 DEF Width
<1> QED BY <1>3, <1>4

LEMMA TakeEffect ==
  ASSUME KeccakInv, NEW width \in Int, Take(width), width = Width(Len(taken) + 1)
  PROVE  /\ taken' \in Seq(Int) /\ Len(taken') = Len(taken) + 1 /\ Len(taken') <= Len(witness)
         /\ \A k \in 1..Len(taken') : taken'[k] = Width(k)
<1>1. taken' = Append(taken, width) /\ Len(taken) < Len(witness)
  BY DEF Take
<1>2. taken \in Seq(Int) /\ Len(taken) \in Nat /\ \A k \in 1..Len(taken) : taken[k] = Width(k)
  BY ReadingFacts
<1>3. taken' \in Seq(Int) /\ Len(taken') = Len(taken) + 1
      /\ \A k \in 1..Len(taken') : taken'[k] = IF k <= Len(taken) THEN taken[k] ELSE width
  BY <1>1, <1>2
<1>4. Len(witness) \in Nat
  BY DEF KeccakInv, KeccakTypes
<1>5. Len(taken') <= Len(witness)
  BY <1>1, <1>2, <1>3, <1>4
<1>6. ASSUME NEW k \in 1..Len(taken') PROVE taken'[k] = Width(k)
  <2>1. k \in 1..Len(taken) \/ k = Len(taken) + 1
    BY <1>2, <1>3
  <2>2. k = Len(taken) + 1 => ~(k <= Len(taken))
    BY <1>2
  <2>3. k \in 1..Len(taken) => k <= Len(taken)
    BY <1>2
  <2> QED BY <1>2, <1>3, <2>1, <2>2, <2>3
<1> QED BY <1>3, <1>5, <1>6

LEMMA TakeSnapshotStep ==
  ASSUME KeccakInv, TakeSnapshot
  PROVE  KeccakInv'
<1>1. /\ stage = "take" /\ stage' = "backward" /\ Take(1600)
      /\ UNCHANGED <<degree, input, absorbed, round, witness, cons>>
  BY DEF TakeSnapshot
<1>2. /\ taken' \in Seq(Int) /\ Len(taken') = Len(taken) + 1 /\ Len(taken') <= Len(witness)
      /\ \A k \in 1..Len(taken') : taken'[k] = Width(k)
  BY <1>1, NextBlock, TakeEffect
<1>3. absorbed' \in 0..NumBlocks
  BY <1>1, ReadingFacts
<1>4. KeccakTypes' /\ WidthInv' /\ NativeInv'
  BY <1>1, <1>2, <1>3, Reading, ReadingFacts
<1>5. AuthInv'
  <2>1. /\ absorbed >= 1 /\ GroupStart /\ ~AtDigest
        /\ Len(taken) = PermBlocks(absorbed - 1) + Groups + 0
        /\ cons.auth = PermConstraints(absorbed - 1) + 1600 * Groups
    BY <1>1 DEF KeccakInv, AuthInv
  <2>2. NumBlocks' = NumBlocks
    BY <1>1, LayoutStable
  <2>3. PermBlocks(absorbed - 1)' = PermBlocks(absorbed - 1)
    BY <1>1 DEF PermBlocks
  <2>4. PermConstraints(absorbed - 1)' = PermConstraints(absorbed - 1)
    BY <1>1, <2>2 DEF PermConstraints
  <2>5. (GroupStart' <=> GroupStart) /\ Groups' = Groups /\ (AtDigest' <=> AtDigest)
    BY <1>1 DEF GroupStart, Groups, AtDigest
  <2>6. PermBlocks(absorbed - 1) \in Int /\ Groups \in Int
    <3>1. degree \in {16, 32, 64} /\ absorbed \in Nat
      BY ReadingFacts
    <3> QED BY <2>1, <3>1 DEF PermBlocks, Groups, GroupStart
  <2>7. Len(taken') = PermBlocks(absorbed - 1) + Groups + 1
    BY <1>2, <2>1, <2>6
  <2> QED BY <1>1, <2>1, <2>3, <2>4, <2>5, <2>7 DEF AuthInv
<1> QED BY <1>4, <1>5 DEF KeccakInv

LEMMA BackwardRoundStep ==
  ASSUME KeccakInv, BackwardRound
  PROVE  KeccakInv'
<1>1. /\ stage = "backward" /\ stage' \in {"backward", "meet"}
      /\ UNCHANGED <<degree, input, absorbed, round, witness, taken, cons>>
  BY DEF BackwardRound
<1>2. absorbed' \in 0..NumBlocks
  BY <1>1, ReadingFacts
<1>3. KeccakTypes' /\ WidthInv' /\ NativeInv'
  BY <1>1, <1>2, Reading, ReadingFacts
<1>4. AuthInv'
  <2>1. /\ absorbed >= 1 /\ GroupStart /\ ~AtDigest
        /\ Len(taken) = PermBlocks(absorbed - 1) + Groups + 1
        /\ cons.auth = PermConstraints(absorbed - 1) + 1600 * Groups
    BY <1>1 DEF KeccakInv, AuthInv
  <2>2. NumBlocks' = NumBlocks
    BY <1>1, LayoutStable
  <2>3. PermBlocks(absorbed - 1)' = PermBlocks(absorbed - 1)
    BY <1>1 DEF PermBlocks
  <2>4. PermConstraints(absorbed - 1)' = PermConstraints(absorbed - 1)
    BY <1>1, <2>2 DEF PermConstraints
  <2>5. (GroupStart' <=> GroupStart) /\ Groups' = Groups /\ (AtDigest' <=> AtDigest)
    BY <1>1 DEF GroupStart, Groups, AtDigest
  <2> QED BY <1>1, <2>1, <2>3, <2>4, <2>5 DEF AuthInv
<1> QED BY <1>3, <1>4 DEF KeccakInv

\* A group that ends is followed by the next one, by the next block or by the end.
LEMMA NextGroupStep ==
  ASSUME KeccakInv, NextGroup, UNCHANGED <<degree, input, absorbed>>,
         absorbed >= 1, GroupStart,
         Len(taken') = PermBlocks(absorbed - 1) + Groups + 1,
         cons'.auth = PermConstraints(absorbed - 1) + 1600 * Groups
                      + (IF AtDigest THEN Keep(absorbed) ELSE 1600)
  PROVE  AuthInv' /\ stage' # "native"
<1>1. /\ degree \in {16, 32, 64} /\ absorbed \in Nat /\ absorbed <= NumBlocks
      /\ NumBlocks \in Nat /\ input.out \in Int
  BY ReadingFacts
<1>2. NumBlocks' = NumBlocks
  BY LayoutStable
<1> DEFINE more == round + Stride < 24
<1>3. /\ round' = round + Stride
      /\ stage' = IF more THEN "forward" ELSE IF absorbed < NumBlocks THEN "absorb" ELSE "done"
  BY DEF NextGroup
<1>4. Stride = IF degree = 16 THEN 6 ELSE IF degree = 32 THEN 8 ELSE 9
  BY <1>1, StrideIs
<1> DEFINE n == Len(taken')
           c == cons'.auth
           a == absorbed
<1>20. more => /\ GroupStart' /\ Groups' = Groups + 1 /\ Groups \in Int /\ ~AtDigest
               /\ PermBlocks(a - 1) \in Int /\ PermConstraints(a - 1) \in Int
  <2>1. SUFFICES ASSUME more
                 PROVE  /\ GroupStart' /\ Groups' = Groups + 1 /\ Groups \in Int /\ ~AtDigest
                        /\ PermBlocks(a - 1) \in Int /\ PermConstraints(a - 1) \in Int
    OBVIOUS
  <2>2. PermBlocks(a - 1) \in Int /\ PermConstraints(a - 1) \in Int
    BY <1>1 DEF PermBlocks, PermConstraints
  <2>3. CASE degree = 16
    <3>1. round \in {0, 6, 12, 18} /\ Stride = 6
      BY <1>4, <2>3 DEF GroupStart
    <3>2. round \in {0, 6, 12} /\ round' \in {6, 12, 18} /\ round' = round + 6
      BY <1>3, <2>1, <3>1
    <3> QED BY <2>2, <2>3, <3>2 DEF GroupStart, Groups, AtDigest
  <2>4. CASE degree = 32
    <3>1. round \in {0, 8, 16} /\ Stride = 8
      BY <1>4, <2>4 DEF GroupStart
    <3>2. round \in {0, 8} /\ round' \in {8, 16} /\ round' = round + 8
      BY <1>3, <2>1, <3>1
    <3> QED BY <2>2, <2>4, <3>2 DEF GroupStart, Groups, AtDigest
  <2>5. CASE degree = 64
    <3>1. round \in {0, 9, 18} /\ Stride = 9
      BY <1>4, <2>5 DEF GroupStart
    <3>2. round \in {0, 9} /\ round' \in {9, 18} /\ round' = round + 9
      BY <1>3, <2>1, <3>1
    <3> QED BY <2>2, <2>5, <3>2 DEF GroupStart, Groups, AtDigest
  <2> QED BY <1>1, <2>3, <2>4, <2>5
<1>21. /\ n = PermBlocks(a - 1) + Groups + 1
       /\ ~AtDigest => c = PermConstraints(a - 1) + 1600 * Groups + 1600
  OBVIOUS
<1>5. more => /\ GroupStart' /\ n = PermBlocks(a - 1) + Groups'
              /\ c = PermConstraints(a - 1) + 1600 * Groups'
  <2>1. SUFFICES ASSUME more
                 PROVE  /\ GroupStart' /\ n = PermBlocks(a - 1) + Groups'
                        /\ c = PermConstraints(a - 1) + 1600 * Groups'
    OBVIOUS
  <2>2. /\ GroupStart' /\ Groups' = Groups + 1 /\ Groups \in Int /\ ~AtDigest
        /\ PermBlocks(a - 1) \in Int /\ PermConstraints(a - 1) \in Int
    BY <1>20, <2>1
  <2> HIDE DEF n, c, a, more
  <2>3. n = PermBlocks(a - 1) + Groups'
    BY <1>21, <2>2
  <2>4. c = PermConstraints(a - 1) + 1600 * Groups'
    BY <1>21, <2>2
  <2> QED BY <2>2, <2>3, <2>4
<1>6. ~more => n = PermBlocks(a) /\ c = PermConstraints(a)
  <2>1. SUFFICES ASSUME ~more PROVE n = PermBlocks(a) /\ c = PermConstraints(a)
    OBVIOUS
  <2>2. CASE degree = 16
    <3>1. round \in {0, 6, 12, 18} /\ Stride = 6
      BY <1>4, <2>2 DEF GroupStart
    <3>2. round = 18
      BY <2>1, <3>1
    <3>3. Groups = 3 /\ ~AtDigest
      BY <2>2, <3>2 DEF Groups, AtDigest
    <3> QED BY <1>1, <2>2, <3>3 DEF PermBlocks, PermConstraints
  <2>3. CASE degree = 32
    <3>1. round \in {0, 8, 16} /\ Stride = 8
      BY <1>4, <2>3 DEF GroupStart
    <3>2. round = 16
      BY <2>1, <3>1
    <3>3. Groups = 2 /\ ~AtDigest
      BY <2>3, <3>2 DEF Groups, AtDigest
    <3> QED BY <1>1, <2>3, <3>3 DEF PermBlocks, PermConstraints
  <2>4. CASE degree = 64
    <3>1. round \in {0, 9, 18} /\ Stride = 9
      BY <1>4, <2>4 DEF GroupStart
    <3>2. round = 18
      BY <2>1, <3>1
    <3>3. Groups = 2 /\ AtDigest
      BY <2>4, <3>2 DEF Groups, AtDigest
    <3> QED BY <1>1, <2>4, <3>3 DEF PermBlocks, PermConstraints, Keep
  <2> QED BY <1>1, <2>2, <2>3, <2>4
<1>7. PermBlocks(absorbed)' = PermBlocks(a) /\ PermBlocks(absorbed - 1)' = PermBlocks(a - 1)
  BY DEF PermBlocks
<1>8. PermConstraints(absorbed)' = PermConstraints(a)
      /\ PermConstraints(absorbed - 1)' = PermConstraints(a - 1)
  BY <1>2 DEF PermConstraints
<1>9. PermBlocks(a - 1) + Groups' + 0 = PermBlocks(a - 1) + Groups' \/ ~more
  <2>1. more => Groups' \in Int
    BY <1>1, <1>5 DEF Groups, GroupStart
  <2> QED BY <1>1, <2>1 DEF PermBlocks
<1>10. stage' # "native"
  BY <1>3
<1> HIDE DEF more
<1>11. stage' = "done" => absorbed' = NumBlocks'
  BY <1>1, <1>2, <1>3
<1>12. AuthInv'
  <2>1. CASE more
    <3>1. stage' = "forward" /\ absorbed' >= 1
      BY <1>3, <2>1
    <3> QED BY <1>5, <1>7, <1>8, <1>9, <2>1, <3>1 DEF AuthInv
  <2>2. CASE ~more
    <3>1. stage' \in {"absorb", "done"}
      BY <1>3, <2>2
    <3> QED BY <1>6, <1>7, <1>8, <1>11, <2>2, <3>1 DEF AuthInv
  <2> QED BY <2>1, <2>2
<1> QED BY <1>10, <1>12

LEMMA MeetStep ==
  ASSUME KeccakInv, Meet
  PROVE  KeccakInv'
<1>1. /\ stage = "meet" /\ cons' = [cons EXCEPT !.auth = cons.auth + 1600]
      /\ UNCHANGED <<degree, input, absorbed, witness, taken>>
      /\ NextGroup \/ stage' = "unsat"
  BY DEF Meet
<1>2. absorbed' \in 0..NumBlocks
  BY <1>1, ReadingFacts
<1>3. cons' \in [native : Int, auth : Int] /\ cons'.native = cons.native
      /\ cons'.auth = cons.auth + 1600
  <2>1. cons \in [native : Int, auth : Int] /\ cons.auth + 1600 \in Int
    BY ReadingFacts
  <2> QED BY <1>1, <2>1
<1>4. /\ absorbed >= 1 /\ GroupStart /\ ~AtDigest
      /\ Len(taken) = PermBlocks(absorbed - 1) + Groups + 1
      /\ cons.auth = PermConstraints(absorbed - 1) + 1600 * Groups
  BY <1>1 DEF KeccakInv, AuthInv
<1>5. AuthInv' /\ stage' # "native"
  <2>1. CASE NextGroup
    BY <1>1, <1>3, <1>4, <2>1, NextGroupStep
  <2>2. CASE stage' = "unsat"
    BY <2>2 DEF AuthInv
  <2> QED BY <1>1, <2>1, <2>2
<1>6. KeccakTypes' /\ WidthInv' /\ NativeInv'
  BY <1>1, <1>2, <1>3, <1>5, Reading, ReadingFacts
<1> QED BY <1>5, <1>6 DEF KeccakInv

LEMMA CompareDigestStep ==
  ASSUME KeccakInv, CompareDigest
  PROVE  KeccakInv'
<1>1. /\ stage = "digest" /\ Take(Keep(absorbed))
      /\ cons' = [cons EXCEPT !.auth = cons.auth + Keep(absorbed)]
      /\ UNCHANGED <<degree, input, absorbed, witness>>
      /\ NextGroup \/ stage' = "unsat"
  BY DEF CompareDigest
<1>2. absorbed' \in 0..NumBlocks
  BY <1>1, ReadingFacts
<1>3. Keep(absorbed) \in Int
  BY ReadingFacts DEF Keep
<1>4. cons' \in [native : Int, auth : Int] /\ cons'.native = cons.native
      /\ cons'.auth = cons.auth + Keep(absorbed)
  <2>1. cons \in [native : Int, auth : Int] /\ cons.auth + Keep(absorbed) \in Int
    BY <1>3, ReadingFacts
  <2> QED BY <1>1, <2>1
<1>5. /\ taken' \in Seq(Int) /\ Len(taken') = Len(taken) + 1 /\ Len(taken') <= Len(witness)
      /\ \A k \in 1..Len(taken') : taken'[k] = Width(k)
  BY <1>1, <1>3, NextBlock, TakeEffect
<1>6. /\ absorbed >= 1 /\ GroupStart /\ AtDigest
      /\ Len(taken) = PermBlocks(absorbed - 1) + Groups + 0
      /\ cons.auth = PermConstraints(absorbed - 1) + 1600 * Groups
  BY <1>1 DEF KeccakInv, AuthInv
<1>7. Len(taken') = PermBlocks(absorbed - 1) + Groups + 1
  <2>1. degree \in {16, 32, 64} /\ absorbed \in Nat
    BY ReadingFacts
  <2>2. PermBlocks(absorbed - 1) \in Int /\ Groups \in Int
    BY <1>6, <2>1 DEF PermBlocks, Groups, GroupStart
  <2> QED BY <1>5, <1>6, <2>2
<1>8. AuthInv' /\ stage' # "native"
  <2>1. CASE NextGroup
    BY <1>1, <1>4, <1>6, <1>7, <2>1, NextGroupStep
  <2>2. CASE stage' = "unsat"
    BY <2>2 DEF AuthInv
  <2> QED BY <1>1, <2>1, <2>2
<1>9. KeccakTypes' /\ WidthInv' /\ NativeInv'
  BY <1>1, <1>2, <1>4, <1>5, <1>8, Reading
<1> QED BY <1>8, <1>9 DEF KeccakInv

LEMMA KeccakInvNext == KeccakInv /\ [KeccakNext]_keccakVars => KeccakInv'
<1> SUFFICES ASSUME KeccakInv, [KeccakNext]_keccakVars PROVE KeccakInv'
  OBVIOUS
<1>1. CASE NativePermute BY <1>1, NativePermuteStep
<1>2. CASE NativeReturn BY <1>2, NativeReturnStep
<1>3. CASE AbsorbBlock BY <1>3, AbsorbBlockStep
<1>4. CASE ForwardRound BY <1>4, ForwardRoundStep
<1>5. CASE TakeSnapshot BY <1>5, TakeSnapshotStep
<1>6. CASE BackwardRound BY <1>6, BackwardRoundStep
<1>7. CASE Meet BY <1>7, MeetStep
<1>8. CASE CompareDigest BY <1>8, CompareDigestStep
<1>9. CASE UNCHANGED keccakVars
  <2>1. UNCHANGED <<degree, input, stage, absorbed, round, witness, taken, cons>>
    BY <1>9 DEF keccakVars
  <2>2. NumBlocks' = NumBlocks /\ \A k : Width(k)' = Width(k)
    BY <2>1, LayoutStable
  <2>3. KeccakTypes'
    BY <2>1, <2>2 DEF KeccakInv, KeccakTypes, BlocksOf
  <2>4. WidthInv'
    BY <2>1, <2>2 DEF KeccakInv, WidthInv
  <2>5. NativeInv' /\ AuthInv'
    BY <2>1, <2>2 DEF KeccakInv, NativeInv, AuthInv, PermBlocks, PermConstraints, Groups,
                      GroupStart, AtDigest
  <2> QED BY <2>3, <2>4, <2>5 DEF KeccakInv
<1> QED
  BY <1>1, <1>2, <1>3, <1>4, <1>5, <1>6, <1>7, <1>8, <1>9 DEF KeccakNext

LEMMA KeccakInvariance == KeccakSpec => []KeccakInv
BY KeccakInvInit, KeccakInvNext, PTL DEF KeccakSpec

(***************************************************************************)
(* The comment on the two contexts: whatever the input, the degree and     *)
(* what the prover puts into the witness, AuthContext allocates the blocks *)
(* that NativeContext wrote, width by width, and when it ends it has read  *)
(* them all and counted as many constraints.                               *)
(***************************************************************************)
THEOREM ContextsShareOrder == KeccakSpec => []SameOrder
<1>1. KeccakInv => SameOrder
  <2> SUFFICES ASSUME KeccakInv PROVE SameOrder
    OBVIOUS
  <2>1. ASSUME NEW i \in 1..Len(taken) PROVE taken[i] = witness[i].width
    <3>1. Len(taken) \in Nat /\ Len(taken) <= Len(witness) /\ taken[i] = Width(i)
      BY ReadingFacts
    <3>2. Len(witness) \in Nat
      BY DEF KeccakInv, KeccakTypes
    <3>3. i \in 1..Len(witness)
      BY <3>1, <3>2
    <3> QED BY <3>1, <3>3 DEF KeccakInv, WidthInv
  <2>2. stage = "done" => Len(taken) = Len(witness) /\ cons.auth = cons.native
    BY DEF KeccakInv, NativeInv, AuthInv
  <2> QED BY <2>1, <2>2 DEF SameOrder
<1>2. QED
  BY <1>1, KeccakInvariance, PTL
=============================================================================
