---------------------------- MODULE VoleithCli ----------------------------
(***************************************************************************)
(* The command line tool of the VOLE-in-the-head backend                   *)
(* (voleith/src/cli.cpp, voleith/src/protocol.cpp): keygen, commit, sign,  *)
(* prove and verify, run by any number of concurrent processes over one    *)
(* artefact directory.                                                     *)
(*                                                                         *)
(* Every process executes one command at a time; its program counter names *)
(* the system call it is about to make.  A process may fail or be killed   *)
(* at any step, and the machine may lose power at any time.                *)
(*                                                                         *)
(* The directory exists twice: `vis' is what processes read (the page      *)
(* cache), `dur' is what a power loss leaves.  A file is the set of what   *)
(* it holds: {} when it is absent, {x} when it holds x.  A rename changes  *)
(* vis; a successful fsync of the directory copies vis to dur; the kernel  *)
(* may write an entry back by itself at any time.  The contents of a file  *)
(* are synced before its rename, so an entry never names a torn file.      *)
(*                                                                         *)
(* Cryptography is symbolic.  A key pair is a number and a next_leaf, a    *)
(* commitment is a number n whose opening is to the message committed[n],  *)
(* an XMSS signature is the triple it was made from, and a blind signature *)
(* is the pair (key, message) of the statement that its proof is about.    *)
(***************************************************************************)
EXTENDS Naturals, Sequences, FiniteSets

CONSTANTS
    Procs,       \* processes that run commands
    Users,       \* those that run commit: one user per directory at a time
    Messages,    \* contents of message files
    Capacity,    \* 2^height, the leaves of a key
    MaxKeys,     \* bound: key pairs that keygen may generate
    MaxCommits   \* bound: commitments that commit may make

ASSUME ConstantsAssumption ==
    /\ Users \subseteq Procs
    /\ Capacity \in Nat \ {0}
    /\ MaxKeys \in Nat
    /\ MaxCommits \in Nat

VARIABLES
    vis,        \* the directory as processes see it
    dur,        \* the directory as a power loss leaves it
    lock,       \* holder of the flock on signer.lock: {} or {p}
    pc,         \* the step each process is at
    mem,        \* what each process holds in memory
    kids,       \* key pairs generated so far (each one fresh)
    committed,  \* messages committed to; committed[n] opens commitment n
    released,   \* history: XMSS signatures that appeared in xmss_sig.bin
    accepted    \* history: (key, message) pairs that verify passed

vars == <<vis, dur, lock, pc, mem, kids, committed, released, accepted>>
history == <<kids, committed, released, accepted>>

-----------------------------------------------------------------------------
(* Artefacts                                                               *)

Kid == 1..MaxKeys
Key == [kid : Kid, next : 0..Capacity]
Com == 1..MaxCommits
Sig == [kid : Kid, leaf : 0..(Capacity - 1), com : Com]
BlindSig == [kid : Kid, msg : Messages]

\* An artefact file: absent, or holding one value of S.
File(S) == {{}} \cup {{x} : x \in S}

Directory == [key : File(Key), pub : File(Kid), state : File(Com),
              com : File(Com), sig : File(Sig), bsig : File(BlindSig)]

EmptyDirectory == [key |-> {}, pub |-> {}, state |-> {},
                   com |-> {}, sig |-> {}, bsig |-> {}]

Memory == [key : File(Key), pub : File(Kid), com : File(Com), sig : File(Sig)]

EmptyMemory == [key |-> {}, pub |-> {}, com |-> {}, sig |-> {}]

-----------------------------------------------------------------------------
(* Steps of a process                                                      *)

\* After the directory fsync of a write: the step that follows, by writer.
AfterSync == [gen_key_sync  |-> "gen_pub",    gen_pub_sync  |-> "idle",
              com_state_sync |-> "com_com",   com_com_sync  |-> "idle",
              sign_key_sync |-> "sign_tree",  sign_sig_sync |-> "idle",
              prove_sync    |-> "idle"]

SyncSteps == DOMAIN AfterSync

\* Steps taken while the process holds signer.lock.
LockedSteps == {"gen_check", "gen_key", "gen_key_sync", "gen_pub",
                "gen_pub_sync", "sign_com", "sign_key", "sign_reserve",
                "sign_key_sync", "sign_tree", "sign_sig", "sign_sig_sync"}

FreeSteps == {"idle", "gen_lock", "sign_lock", "com_state", "com_state_sync",
              "com_com", "com_com_sync", "prove_pub", "prove_state",
              "prove_sig", "prove_write", "prove_sync",
              "verify_pub", "verify_sig"}

At(p, here) == pc[p] = here
Goto(p, there) == pc' = [pc EXCEPT ![p] = there]

\* Variant: the lock outlives the command.
ExitHoldingLock(p) ==
    /\ Goto(p, "idle")
    /\ mem' = [mem EXCEPT ![p] = EmptyMemory]
    /\ UNCHANGED lock

\* The process ends: its memory is gone and its lock, if any, is released
\* (the destructor of Lock, or the kernel when the process dies).
Exit(p) ==
    /\ Goto(p, "idle")
    /\ mem' = [mem EXCEPT ![p] = EmptyMemory]
    /\ lock' = lock \ {p}

\* write() up to its rename: temporary file, fsync, close, rename.
Replace(f, content) == vis' = [vis EXCEPT ![f] = content]

\* write() from the rename on: open the directory, fsync it.  What follows
\* is the statement after the write; "idle" means that the command returns.
SyncDir(p) ==
    /\ pc[p] \in SyncSteps
    /\ dur' = vis
    /\ IF AfterSync[pc[p]] = "idle"
       THEN Exit(p)
       ELSE Goto(p, AfterSync[pc[p]]) /\ UNCHANGED <<mem, lock>>
    /\ UNCHANGED <<vis, history>>

\* Lock::Lock: flock(LOCK_EX) blocks until no process holds the lock.
TakeLock(p, here, there) ==
    /\ At(p, here)
    /\ lock = {}
    /\ lock' = {p}
    /\ Goto(p, there)
    /\ UNCHANGED <<vis, dur, mem, history>>

-----------------------------------------------------------------------------
(* keygen                                                                  *)

\* Bound: no more keygens are under way than key identities are left.
GenPending == {q \in Procs : pc[q] \in {"gen_lock", "gen_check"}}

GenStart(p) ==
    /\ At(p, "idle")
    /\ kids + Cardinality(GenPending) < MaxKeys
    /\ Goto(p, "gen_lock")
    /\ UNCHANGED <<vis, dur, lock, mem, history>>

GenLock(p) == TakeLock(p, "gen_lock", "gen_check")

\* Variant: keygen overwrites what is there.
GenCheckOverwrite(p) ==
    /\ At(p, "gen_check")
    /\ kids < MaxKeys
    /\ kids' = kids + 1
    /\ mem' = [mem EXCEPT ![p].key = {[kid |-> kids + 1, next |-> 0]}]
    /\ Goto(p, "gen_key")
    /\ UNCHANGED <<vis, dur, lock, committed, released, accepted>>

\* Both artefacts must be absent; Signer::generate draws fresh seeds.
GenCheck(p) ==
    /\ At(p, "gen_check")
    /\ vis.key = {} /\ vis.pub = {}
    /\ kids < MaxKeys
    /\ kids' = kids + 1
    /\ mem' = [mem EXCEPT ![p].key = {[kid |-> kids + 1, next |-> 0]}]
    /\ Goto(p, "gen_key")
    /\ UNCHANGED <<vis, dur, lock, committed, released, accepted>>

\* Variant: signer_pub.bin is written before the key is durable.
GenKeyUnsynced(p) ==
    /\ At(p, "gen_key")
    /\ Replace("key", mem[p].key)
    /\ Goto(p, "gen_pub")
    /\ UNCHANGED <<dur, lock, mem, history>>

GenKey(p) ==
    /\ At(p, "gen_key")
    /\ Replace("key", mem[p].key)
    /\ Goto(p, "gen_key_sync")
    /\ UNCHANGED <<dur, lock, mem, history>>

GenPub(p) ==
    /\ At(p, "gen_pub")
    /\ Replace("pub", {k.kid : k \in mem[p].key})
    /\ Goto(p, "gen_pub_sync")
    /\ UNCHANGED <<dur, lock, mem, history>>

-----------------------------------------------------------------------------
(* commit                                                                  *)

\* commit(): fresh randomness makes every commitment a new one.
ComStart(p, m) ==
    /\ At(p, "idle")
    /\ p \in Users
    /\ Len(committed) < MaxCommits
    /\ committed' = Append(committed, m)
    /\ mem' = [mem EXCEPT ![p].com = {Len(committed) + 1}]
    /\ Goto(p, "com_state")
    /\ UNCHANGED <<vis, dur, lock, kids, released, accepted>>

\* Variant: the commitment is published before its opening is stored.
ComStateLate(p) ==
    /\ At(p, "com_state")
    /\ Replace("com", mem[p].com)
    /\ Goto(p, "com_state_sync")
    /\ UNCHANGED <<dur, lock, mem, history>>

ComState(p) ==
    /\ At(p, "com_state")
    /\ Replace("state", mem[p].com)
    /\ Goto(p, "com_state_sync")
    /\ UNCHANGED <<dur, lock, mem, history>>

ComCom(p) ==
    /\ At(p, "com_com")
    /\ Replace("com", mem[p].com)
    /\ Goto(p, "com_com_sync")
    /\ UNCHANGED <<dur, lock, mem, history>>

-----------------------------------------------------------------------------
(* sign                                                                    *)

SignStart(p) ==
    /\ At(p, "idle")
    /\ Goto(p, "sign_lock")
    /\ UNCHANGED <<vis, dur, lock, mem, history>>

\* Variant: sign does not wait for the lock.
SignLockShared(p) ==
    /\ At(p, "sign_lock")
    /\ lock' = lock \cup {p}
    /\ Goto(p, "sign_com")
    /\ UNCHANGED <<vis, dur, mem, history>>

SignLock(p) == TakeLock(p, "sign_lock", "sign_com")

SignCom(p) ==
    /\ At(p, "sign_com")
    /\ vis.com # {}
    /\ mem' = [mem EXCEPT ![p].com = vis.com]
    /\ Goto(p, "sign_key")
    /\ UNCHANGED <<vis, dur, lock, history>>

\* decode_secret, and the constructor of Signer with its validate_key.
SignKey(p) ==
    /\ At(p, "sign_key")
    /\ \E k \in vis.key : k.next <= Capacity
    /\ mem' = [mem EXCEPT ![p].key = vis.key]
    /\ Goto(p, "sign_reserve")
    /\ UNCHANGED <<vis, dur, lock, history>>

\* Variant: no exhaustion test.
SignReserveUnbounded(p) ==
    /\ At(p, "sign_reserve")
    /\ \E k \in mem[p].key : Replace("key", {[k EXCEPT !.next = k.next + 1]})
    /\ Goto(p, "sign_key_sync")
    /\ UNCHANGED <<dur, lock, mem, history>>

\* Variant: the reservation is not synced before the leaf signs.
SignReserveUnsynced(p) ==
    /\ At(p, "sign_reserve")
    /\ \E k \in mem[p].key :
          /\ k.next # Capacity
          /\ Replace("key", {[k EXCEPT !.next = k.next + 1]})
    /\ Goto(p, "sign_tree")
    /\ UNCHANGED <<dur, lock, mem, history>>

\* Signer::sign up to persist: next_leaf is advanced and the key replaced.
SignReserve(p) ==
    /\ At(p, "sign_reserve")
    /\ \E k \in mem[p].key :
          /\ k.next # Capacity
          /\ Replace("key", {[k EXCEPT !.next = k.next + 1]})
    /\ Goto(p, "sign_key_sync")
    /\ UNCHANGED <<dur, lock, mem, history>>

\* xmss_keypair_sign on the reserved leaf.
SignTree(p) ==
    /\ At(p, "sign_tree")
    /\ \E k \in mem[p].key, c \in mem[p].com :
          mem' = [mem EXCEPT ![p].sig =
                    {[kid |-> k.kid, leaf |-> k.next, com |-> c]}]
    /\ Goto(p, "sign_sig")
    /\ UNCHANGED <<vis, dur, lock, history>>

\* The response is published: from here on the user can read it.
SignSig(p) ==
    /\ At(p, "sign_sig")
    /\ Replace("sig", mem[p].sig)
    /\ released' = released \cup mem[p].sig
    /\ Goto(p, "sign_sig_sync")
    /\ UNCHANGED <<dur, lock, mem, kids, committed, accepted>>

-----------------------------------------------------------------------------
(* prove                                                                   *)

ProveStart(p) ==
    /\ At(p, "idle")
    /\ Goto(p, "prove_pub")
    /\ UNCHANGED <<vis, dur, lock, mem, history>>

ProvePub(p) ==
    /\ At(p, "prove_pub")
    /\ vis.pub # {}
    /\ mem' = [mem EXCEPT ![p].pub = vis.pub]
    /\ Goto(p, "prove_state")
    /\ UNCHANGED <<vis, dur, lock, history>>

ProveState(p) ==
    /\ At(p, "prove_state")
    /\ vis.state # {}
    /\ mem' = [mem EXCEPT ![p].com = vis.state]
    /\ Goto(p, "prove_sig")
    /\ UNCHANGED <<vis, dur, lock, history>>

ProveSig(p) ==
    /\ At(p, "prove_sig")
    /\ vis.sig # {}
    /\ mem' = [mem EXCEPT ![p].sig = vis.sig]
    /\ Goto(p, "prove_write")
    /\ UNCHANGED <<vis, dur, lock, history>>

\* Variant: the response is not checked against the user's commitment.
ResponseUnderKey(pub, com, sig) ==
    \E s \in sig : s.kid \in pub

\* xmss_verify in primary_witness: the response signs this commitment under
\* this public key.
ResponseValid(pub, com, sig) ==
    \E s \in sig : s.kid \in pub /\ s.com \in com

\* unblind (primary_witness, then the proof) and the write of its result.
ProveWrite(p) ==
    /\ At(p, "prove_write")
    /\ ResponseValid(mem[p].pub, mem[p].com, mem[p].sig)
    /\ Replace("bsig", {[kid |-> k, msg |-> committed[c]] :
                           k \in mem[p].pub, c \in mem[p].com})
    /\ Goto(p, "prove_sync")
    /\ UNCHANGED <<dur, lock, mem, history>>

-----------------------------------------------------------------------------
(* verify                                                                  *)

VerifyStart(p) ==
    /\ At(p, "idle")
    /\ Goto(p, "verify_pub")
    /\ UNCHANGED <<vis, dur, lock, mem, history>>

VerifyPub(p) ==
    /\ At(p, "verify_pub")
    /\ vis.pub # {}
    /\ mem' = [mem EXCEPT ![p].pub = vis.pub]
    /\ Goto(p, "verify_sig")
    /\ UNCHANGED <<vis, dur, lock, history>>

\* verify_signature: the proof is checked against the statement made of the
\* public key and the message; a proof of another statement fails.
VerifySig(p, m) ==
    /\ At(p, "verify_sig")
    /\ vis.bsig # {}
    /\ accepted' = accepted \cup
          {b \in vis.bsig : b.kid \in mem[p].pub /\ b.msg = m}
    /\ Exit(p)
    /\ UNCHANGED <<vis, dur, kids, committed, released>>

-----------------------------------------------------------------------------
(* Failures                                                                *)

\* Conditions on which a command throws.
Refused(p) ==
    \/ At(p, "gen_check") /\ (vis.key # {} \/ vis.pub # {})
    \/ At(p, "sign_com") /\ vis.com = {}
    \/ At(p, "sign_key") /\ ~ \E k \in vis.key : k.next <= Capacity
    \/ At(p, "sign_reserve") /\ \A k \in mem[p].key : k.next = Capacity
    \/ At(p, "prove_pub") /\ vis.pub = {}
    \/ At(p, "prove_state") /\ vis.state = {}
    \/ At(p, "prove_sig") /\ vis.sig = {}
    \/ At(p, "prove_write")
          /\ ~ ResponseValid(mem[p].pub, mem[p].com, mem[p].sig)
    \/ At(p, "verify_pub") /\ vis.pub = {}
    \/ At(p, "verify_sig") /\ vis.bsig = {}

Refuse(p) ==
    /\ Refused(p)
    /\ Exit(p)
    /\ UNCHANGED <<vis, dur, history>>

\* An I/O call, the random source or an allocation fails, or the process is
\* killed: an exception unwinds to main, or the kernel closes the lock.
Fail(p) ==
    /\ pc[p] # "idle"
    /\ Exit(p)
    /\ UNCHANGED <<vis, dur, history>>

\* The kernel writes one directory entry back.
Writeback(f) ==
    /\ dur' = [dur EXCEPT ![f] = vis[f]]
    /\ UNCHANGED <<vis, lock, pc, mem, history>>

PowerLoss ==
    /\ vis' = dur
    /\ lock' = {}
    /\ pc' = [p \in Procs |-> "idle"]
    /\ mem' = [p \in Procs |-> EmptyMemory]
    /\ UNCHANGED <<dur, history>>

-----------------------------------------------------------------------------

Init ==
    /\ vis = EmptyDirectory
    /\ dur = EmptyDirectory
    /\ lock = {}
    /\ pc = [p \in Procs |-> "idle"]
    /\ mem = [p \in Procs |-> EmptyMemory]
    /\ kids = 0
    /\ committed = <<>>
    /\ released = {}
    /\ accepted = {}

\* A command begins: the operator's choice, never forced.
Start(p) ==
    \/ GenStart(p)
    \/ \E m \in Messages : ComStart(p, m)
    \/ SignStart(p)
    \/ ProveStart(p)
    \/ VerifyStart(p)

\* A command that has begun takes its next step.
Step(p) ==
    \/ GenLock(p) \/ GenCheck(p) \/ GenKey(p) \/ GenPub(p)
    \/ ComState(p) \/ ComCom(p)
    \/ SignLock(p) \/ SignCom(p) \/ SignKey(p) \/ SignReserve(p)
    \/ SignTree(p) \/ SignSig(p)
    \/ ProvePub(p) \/ ProveState(p) \/ ProveSig(p) \/ ProveWrite(p)
    \/ VerifyPub(p) \/ (\E m \in Messages : VerifySig(p, m))
    \/ SyncDir(p)
    \/ Refuse(p)

Crash ==
    \/ \E p \in Procs : Fail(p)
    \/ \E f \in DOMAIN vis : Writeback(f)
    \/ PowerLoss

Next ==
    \/ \E p \in Procs : Start(p)
    \/ \E p \in Procs : Step(p)
    \/ Crash

Spec == Init /\ [][Next]_vars

(***************************************************************************)
(* Fairness: a running process is scheduled (WF), and flock eventually     *)
(* wakes a waiter when the lock is free again and again (SF).  Starting a  *)
(* command, failing and losing power are never forced.                     *)
(***************************************************************************)
Fairness ==
    \A p \in Procs : /\ WF_vars(Step(p))
                     /\ SF_vars(GenLock(p))
                     /\ SF_vars(SignLock(p))

FairSpec == Spec /\ Fairness

-----------------------------------------------------------------------------
(* Properties                                                              *)

\* Type invariant of the directory, the lock and the processes.
TypeOK ==
    /\ vis \in Directory
    /\ dur \in Directory
    /\ lock \in SUBSET Procs
    /\ pc \in [Procs -> LockedSteps \cup FreeSteps]
    /\ mem \in [Procs -> Memory]
    /\ kids \in 0..MaxKeys
    /\ committed \in Seq(Messages) /\ Len(committed) <= MaxCommits
    /\ released \in SUBSET Sig
    /\ accepted \in SUBSET BlindSig

(***************************************************************************)
(* The tool implements OneTimeSigner: whatever the interleaving, wherever  *)
(* a process dies and whenever power is lost, a signature that reaches     *)
(* xmss_sig.bin is on a leaf above every leaf its key released before      *)
(* (Signer::sign persists the advanced key, synced, before it signs).      *)
(***************************************************************************)
Abstract == INSTANCE OneTimeSigner
                WITH Keys <- Kid, Commitments <- Com, issued <- released
ImplementsOneTimeSigner == Abstract!Spec

(***************************************************************************)
(* No leaf of a key ever signs two commitments: the safety half that the   *)
(* XMSS security argument needs of `sign'.                                 *)
(***************************************************************************)
LeafUsedOnce == Abstract!OneTime

(***************************************************************************)
(* One-more unforgeability at the level of the artefacts: under any key,   *)
(* verify passes no more messages than sign released signatures.  prove    *)
(* checks the response against the state it opens, so every blind          *)
(* signature accounts for a released signature of its own.                 *)
(***************************************************************************)
OneMore ==
    \A k \in Kid :
        Cardinality({a.msg : a \in {b \in accepted : b.kid = k}})
            <= Cardinality({s \in released : s.kid = k})

(***************************************************************************)
(* A published public key always has its secret key beside it, before and  *)
(* after a power loss: keygen makes the secret key durable before it       *)
(* creates signer_pub.bin.                                                 *)
(***************************************************************************)
PubHasKey ==
    \A d \in {vis, dur} : d.pub \subseteq {k.kid : k \in d.key}

(***************************************************************************)
(* No commitment can be read before its opening is stored: beside a        *)
(* commitment that the signer may sign there is its own opening or that of *)
(* a later commitment, also after a power loss, because commit writes      *)
(* user_state.bin, synced, before commitment.bin.  That is all the order   *)
(* gives.  user_state.bin has room for one opening: a second commit that   *)
(* dies between its two writes has replaced the opening of the first       *)
(* commitment, which is still there to be signed.                          *)
(***************************************************************************)
OpeningStoredFirst ==
    \A d \in {vis, dur} : \A c \in d.com : \E o \in d.state : c <= o

(***************************************************************************)
(* The durable signing key is never lost, replaced by another or rolled    *)
(* back to an earlier next_leaf, by any command or crash.                  *)
(***************************************************************************)
NoRollback ==
    [][\A k \in dur.key : \E l \in dur'.key :
          l.kid = k.kid /\ k.next <= l.next]_vars

(***************************************************************************)
(* Every command that has begun returns: no error path keeps signer.lock.  *)
(***************************************************************************)
CommandsReturn ==
    \A p \in Procs : pc[p] # "idle" ~> pc[p] = "idle"
=============================================================================
