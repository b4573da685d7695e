------------------------------ MODULE KkwCli ------------------------------
(***************************************************************************)
(* The command line tool of the KKW backend (kkw/src/cli.c with            *)
(* kkw/src/protocol.c) over one artefact directory: keygen and sign run by *)
(* signer processes, commit, prove and verify by the user's process.       *)
(*                                                                         *)
(* Unlike the VOLE tool there is no lock, no temporary file and no fsync:  *)
(* write_file truncates the artefact and then fills it.  A file is the set *)
(* of what a reader gets from it: {x} when it holds x, {} when it is       *)
(* absent, truncated or cut short (every reader checks the length and      *)
(* rejects these).  Key, public key, commitment and signature are smaller  *)
(* than one stdio buffer and filled by a single write.  user_state.bin     *)
(* carries the message and may take several; nobody but the user's process *)
(* writes or reads it, and a part of it is rejected, so that it too counts *)
(* as filled at once.  A process may be killed at any step.                *)
(*                                                                         *)
(* Cryptography is symbolic, as in VoleithCli.                             *)
(***************************************************************************)
EXTENDS Naturals, Sequences, FiniteSets

CONSTANTS
    User,        \* the process that runs the user's and verifier's commands
    Messages,    \* contents of message files
    Capacity,    \* 2^height, the leaves of a key
    MaxKeys,     \* bound: key pairs that keygen may generate
    MaxCommits,  \* bound: commitments that commit may make
    Scenarios    \* who runs keygen and sign and what may happen to them

ASSUME ConstantsAssumption ==
    /\ Capacity \in Nat \ {0}
    /\ MaxKeys \in Nat /\ MaxCommits \in Nat
    /\ \A s \in Scenarios :
          /\ User \notin s.signers /\ IsFiniteSet(s.signers)
          /\ s.keys \in 0..MaxKeys /\ s.kills \in Nat

VARIABLES
    scenario,   \* the signer processes, and bounds: keygens, failing commands
    dir,        \* the artefact files
    pc,         \* the step each process is at
    filling,    \* processes between fopen("wb") and fclose in write_file
    mem,        \* what each process holds in memory, by artefact
    kids,       \* key pairs generated so far
    kills,      \* commands that failed half-way so far
    committed,  \* committed[n] is the message that commitment n opens to
    released,   \* history: XMSS signatures that appeared in xmss_sig.bin
    accepted    \* history: (key, message) pairs that verify passed

vars == <<scenario, dir, pc, filling, mem, kids, kills, committed, released,
          accepted>>
world == <<scenario, kids, kills, committed, released, accepted>>

Signers == scenario.signers
Procs == {User} \cup Signers

-----------------------------------------------------------------------------
(* Artefacts                                                               *)

Kid == 1..MaxKeys
Key(kid, next) == [kid |-> kid, next |-> next]
Sig(key, c) == [kid |-> key.kid, leaf |-> key.next, com |-> c]
BlindSig(kid, m) == [kid |-> kid, msg |-> m]

\* A commitment is its number; user_state.bin holds the message beside it.
FreshCom == Len(committed) + 1
Opening(c) == committed[c]

Nothing == [key |-> {}, pub |-> {}, com |-> {},
            state |-> {}, sig |-> {}, bsig |-> {}]

-----------------------------------------------------------------------------
(* Steps of a process                                                      *)

\* The write_file calls of the commands: the artefact each one writes, and
\* the step after it ("idle": the command returns).
Target == [gen_key  |-> "key", gen_pub   |-> "pub",
           com_com  |-> "com", com_state |-> "state",
           sign_sig |-> "sig", sign_next |-> "key",
           prove_out |-> "bsig"]

AfterWrite == [gen_key  |-> "gen_pub",   gen_pub   |-> "idle",
               com_com  |-> "com_state", com_state |-> "idle",
               sign_sig |-> "sign_next", sign_next |-> "idle",
               prove_out |-> "idle"]

WriteSteps == DOMAIN Target

At(p, here) == pc[p] = here
Goto(p, there) == pc' = [pc EXCEPT ![p] = there]

\* The process returns from main, or dies.
Exit(p) ==
    /\ Goto(p, "idle")
    /\ mem' = [mem EXCEPT ![p] = Nothing]
    /\ filling' = filling \ {p}

\* read_file and the decoder behind it: the artefact is there and whole.
Read(p, here, f, there) ==
    /\ At(p, here)
    /\ dir[f] # {}
    /\ mem' = [mem EXCEPT ![p][f] = dir[f]]
    /\ Goto(p, there)
    /\ UNCHANGED <<dir, filling, world>>

\* write_file: fopen(path, "wb") truncates.
OpenFile(p) ==
    /\ pc[p] \in WriteSteps
    /\ p \notin filling
    /\ dir' = [dir EXCEPT ![Target[pc[p]]] = {}]
    /\ filling' = filling \cup {p}
    /\ UNCHANGED <<pc, mem, world>>

\* write_file: fwrite and fclose.  xmss_sig.bin is the signer's answer: once
\* it is filled the signature is out.
FillFile(p) ==
    /\ p \in filling
    /\ dir' = [dir EXCEPT ![Target[pc[p]]] = mem[p][Target[pc[p]]]]
    /\ released' = IF At(p, "sign_sig") THEN released \cup mem[p].sig
                                        ELSE released
    /\ IF AfterWrite[pc[p]] = "idle"
       THEN Exit(p)
       ELSE /\ Goto(p, AfterWrite[pc[p]])
            /\ filling' = filling \ {p}
            /\ UNCHANGED mem
    /\ UNCHANGED <<scenario, kids, kills, committed, accepted>>

-----------------------------------------------------------------------------
(* keygen and sign                                                         *)

\* blind_keygen draws fresh seeds and builds the tree; nothing looks whether
\* a key is there already.
Keygen(p) ==
    /\ At(p, "idle")
    /\ kids < scenario.keys
    /\ kids' = kids + 1
    /\ mem' = [mem EXCEPT ![p].key = {Key(kids + 1, 0)},
                          ![p].pub = {kids + 1}]
    /\ Goto(p, "gen_key")
    /\ UNCHANGED <<scenario, dir, filling, kills, committed, released, accepted>>

SignStart(p) ==
    /\ At(p, "idle")
    /\ Goto(p, "sign_key")
    /\ UNCHANGED <<dir, filling, mem, world>>

SignKey(p) == Read(p, "sign_key", "key", "sign_com")
SignCom(p) == Read(p, "sign_com", "com", "sign_tree")

\* Variant: next_leaf is not advanced.
SignSameLeaf(p) ==
    /\ At(p, "sign_tree")
    /\ \E k \in mem[p].key, c \in mem[p].com :
          /\ k.next < Capacity
          /\ mem' = [mem EXCEPT
                ![p].sig = {Sig(k, c)}]
    /\ Goto(p, "sign_sig")
    /\ UNCHANGED <<dir, filling, world>>

\* blind_signer_sign: the next leaf signs, and the key in memory advances.
SignTree(p) ==
    /\ At(p, "sign_tree")
    /\ \E k \in mem[p].key, c \in mem[p].com :
          /\ k.next < Capacity
          /\ mem' = [mem EXCEPT
                ![p].sig = {Sig(k, c)},
                ![p].key = {Key(k.kid, k.next + 1)}]
    /\ Goto(p, "sign_sig")
    /\ UNCHANGED <<dir, filling, world>>

-----------------------------------------------------------------------------
(* commit, prove and verify                                                *)

\* blind_user_commit: a fresh commitment to the message of the file.
Commit(p, m) ==
    /\ At(p, "idle")
    /\ Len(committed) < MaxCommits
    /\ committed' = Append(committed, m)
    /\ mem' = [mem EXCEPT ![p].com = {FreshCom},
                          ![p].state = {FreshCom}]
    /\ Goto(p, "com_com")
    /\ UNCHANGED <<scenario, dir, filling, kids, kills, released, accepted>>

ProveStart(p) ==
    /\ At(p, "idle")
    /\ Goto(p, "prove_state")
    /\ UNCHANGED <<dir, filling, mem, world>>

ProveState(p) == Read(p, "prove_state", "state", "prove_pub")
ProvePub(p) == Read(p, "prove_pub", "pub", "prove_sig")
ProveSig(p) == Read(p, "prove_sig", "sig", "prove_check")

\* Variant: the signature is not checked against the commitment of the state.
SignatureUnderKey(pub, state, sig) ==
    \E s \in sig : s.kid \in pub

\* xmss_verify on the digest of the commitment in user_state.bin.
SignatureValid(pub, state, sig) ==
    \E s \in sig : s.kid \in pub /\ s.com \in state

\* The check, and blind_user_prove for the statement (public key, message).
ProveCheck(p) ==
    /\ At(p, "prove_check")
    /\ SignatureValid(mem[p].pub, mem[p].state, mem[p].sig)
    /\ mem' = [mem EXCEPT ![p].bsig =
                  {BlindSig(k, Opening(c)) :
                      k \in mem[p].pub, c \in mem[p].state}]
    /\ Goto(p, "prove_out")
    /\ UNCHANGED <<dir, filling, world>>

VerifyStart(p) ==
    /\ At(p, "idle")
    /\ Goto(p, "verify_pub")
    /\ UNCHANGED <<dir, filling, mem, world>>

VerifyPub(p) == Read(p, "verify_pub", "pub", "verify_sig")

\* blind_verify_sig: [PASS] when the proof is about this key and message.
VerifySig(p, m) ==
    /\ At(p, "verify_sig")
    /\ dir.bsig # {}
    /\ accepted' = accepted \cup
          {b \in dir.bsig : b.kid \in mem[p].pub /\ b.msg = m}
    /\ Exit(p)
    /\ UNCHANGED <<scenario, dir, kids, kills, committed, released>>

-----------------------------------------------------------------------------
(* Failures                                                                *)

\* The error returns of the commands that depend on what they read.
Refused(p) ==
    \/ At(p, "sign_key") /\ dir.key = {}
    \/ At(p, "sign_com") /\ dir.com = {}
    \/ At(p, "sign_tree") /\ \A k \in mem[p].key : k.next >= Capacity
    \/ At(p, "prove_state") /\ dir.state = {}
    \/ At(p, "prove_pub") /\ dir.pub = {}
    \/ At(p, "prove_sig") /\ dir.sig = {}
    \/ At(p, "prove_check")
          /\ ~ SignatureValid(mem[p].pub, mem[p].state, mem[p].sig)
    \/ At(p, "verify_pub") /\ dir.pub = {}
    \/ At(p, "verify_sig") /\ dir.bsig = {}

Refuse(p) ==
    /\ Refused(p)
    /\ Exit(p)
    /\ UNCHANGED <<dir, world>>

\* The command is killed, or a call fails: what it was filling stays
\* truncated, what it had not written yet keeps its old contents.
Kill(p) ==
    /\ pc[p] # "idle"
    /\ kills < scenario.kills
    /\ kills' = kills + 1
    /\ Exit(p)
    /\ UNCHANGED <<scenario, dir, kids, committed, released, accepted>>

-----------------------------------------------------------------------------

Init ==
    /\ scenario \in Scenarios
    /\ dir = Nothing
    /\ pc = [p \in Procs |-> "idle"]
    /\ filling = {}
    /\ mem = [p \in Procs |-> Nothing]
    /\ kids = 0
    /\ kills = 0
    /\ committed = <<>>
    /\ released = {}
    /\ accepted = {}

SignerStep(p) ==
    \/ Keygen(p) \/ SignStart(p) \/ SignKey(p) \/ SignCom(p) \/ SignTree(p)

UserStep(p) ==
    \/ \E m \in Messages : Commit(p, m)
    \/ ProveStart(p) \/ ProveState(p) \/ ProvePub(p) \/ ProveSig(p)
    \/ ProveCheck(p)
    \/ VerifyStart(p) \/ VerifyPub(p)
    \/ \E m \in Messages : VerifySig(p, m)

Next ==
    \/ \E p \in Signers : SignerStep(p)
    \/ UserStep(User)
    \/ \E p \in Procs : OpenFile(p) \/ FillFile(p) \/ Refuse(p) \/ Kill(p)

Spec == Init /\ [][Next]_vars

-----------------------------------------------------------------------------
(* Properties                                                              *)

(***************************************************************************)
(* No leaf signs twice: what the comment at the head of kkw/src/xmss.h     *)
(* asks of the stateful signer.                                            *)
(***************************************************************************)
LeafUsedOnce ==
    \A s, t \in released : s.kid = t.kid /\ s.leaf = t.leaf => s = t

Undisturbed == Cardinality(Signers) = 1 /\ scenario.kills = 0

(***************************************************************************)
(* One signer process that is never interrupted: while it is idle, the     *)
(* counter in signer_key.bin is the number of signatures its key has       *)
(* issued (README, "sign -> xmss_sig.bin; next_leaf++"), no more than the  *)
(* key has leaves, and no leaf was used twice, however often keygen        *)
(* replaced the key.                                                       *)
(***************************************************************************)
CounterCounts ==
    Undisturbed /\ (\A p \in Signers : pc[p] = "idle") =>
        /\ LeafUsedOnce
        /\ \A k \in dir.key :
              /\ k.next = Cardinality({s \in released : s.kid = k.kid})
              /\ k.next <= Capacity

(***************************************************************************)
(* One-more unforgeability over the artefacts: whatever is interrupted or  *)
(* interleaved, every readable blind_sig.bin, and every message that       *)
(* verify ever passed, is backed by a signature of that very key on a      *)
(* commitment to that very message; no signature backs two messages.       *)
(***************************************************************************)
BlindSigBacked ==
    \A b \in dir.bsig \cup accepted : \E s \in released :
        s.kid = b.kid /\ Opening(s.com) = b.msg
=============================================================================
