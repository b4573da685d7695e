---------------------------- MODULE LongfellowCli ----------------------------
(***************************************************************************)
(* The Longfellow tool (longfellow/bin/cli.cc and protocol.cc): processes  *)
(* run keygen, commit, sign, prove and verify over one directory, and      *)
(* prove and verify open the circuit through the shared cache              *)
(* (CircuitCache).                                                         *)
(*                                                                         *)
(* A command reads its files whole, one after the other, and then writes   *)
(* its own one after the other.  write_file truncates the file in place    *)
(* and fills it.  An artefact that stays in the stream's buffer is written *)
(* by the destructor of the stream, which has nobody to report a full disk *)
(* to: the command goes on, and sign may lose a signature and still        *)
(* advance its key.                                                        *)
(*                                                                         *)
(* Proofs and hashes are symbolic: a commitment is a number that stands    *)
(* for one message, a proof is what it was made from.                      *)
(***************************************************************************)
EXTENDS CircuitCache, FiniteSets

CONSTANTS
    Messages,
    Capacity,   \* one-time signatures of a key, 2^height
    Absent,     \* a file that does not exist
    Torn,       \* a file that is empty or cut short
    Scenarios   \* who runs what, what may fail, and what is there at the start

ASSUME CapacityAssumption == Capacity \in Nat \ {0}
ASSUME ProcsAssumption == IsFiniteSet(Procs)

VARIABLES
    scene,     \* the scenario
    dir,       \* the artefacts in the directory
    job,       \* the command that a process runs
    budget,    \* commands, kills and full disks that are left in the scenario
    msgOf,     \* history: the message of each commitment made so far
    keys,      \* history: number of keys generated so far
    released,  \* history: signatures written to xmss_sig.bin
    killed     \* history: some process was killed

toolVars == <<scene, dir, job, budget, msgOf, keys, released, killed>>

Files == {"key", "pub", "com", "state", "sig", "proof"}

\* Whether write_file notices that the disk is full: only if f.write itself has
\* to write.  A proof is longer than any buffer.  A signature and the state of a
\* longer message fit in the buffer of some standard libraries and not of
\* others.
Reported(f) ==
    CASE f = "proof" -> {TRUE}
      [] f \in {"sig", "state"} -> BOOLEAN
      [] OTHER -> {FALSE}

\* The artefacts, as the readers of protocol.cc return them.
SignerKey(k, leaf) == [key |-> k, leaf |-> leaf]
SignerPub(k) == [key |-> k]
Commitment(c) == [com |-> c]
UserState(c, m) == [com |-> c, msg |-> m]
XmssSig(k, leaf, c) == [key |-> k, leaf |-> leaf, com |-> c]

-----------------------------------------------------------------------------
(* Commands                                                                *)

NoMessage == CHOOSE m \in Messages : TRUE
Job(cmd, m, reads, writes) ==
    [cmd |-> cmd, msg |-> m, reads |-> reads, mem |-> [f \in Files |-> Absent],
     writes |-> writes, open |-> FALSE]
NoJob == Job("none", NoMessage, <<>>, <<>>)

SetJob(p, j) == job' = [job EXCEPT ![p] = j]
Write(f, data) == [file |-> f, data |-> data]
Writing(p, writes) == SetJob(p, Job("write", NoMessage, <<>>, writes))

\* main calls run, which calls the command.
Begin(p, cmd) ==
    /\ job[p].cmd = "none"
    /\ cmd \in scene.may[p]
    /\ budget.commands > 0
    /\ budget' = [budget EXCEPT !.commands = @ - 1]
    /\ UNCHANGED <<scene, dir, released, killed>>

Keygen(p) ==
    /\ Begin(p, "keygen")
    /\ keys' = keys + 1
    /\ Writing(p, <<Write("key", SignerKey(keys + 1, 0)), Write("pub", SignerPub(keys + 1))>>)
    /\ UNCHANGED <<cacheVars, msgOf>>

Commit(p, m) ==
    LET c == Len(msgOf) + 1
    IN  /\ Begin(p, "commit")
        /\ msgOf' = Append(msgOf, m)
        /\ Writing(p, <<Write("com", Commitment(c)), Write("state", UserState(c, m))>>)
        /\ UNCHANGED <<cacheVars, keys>>

Sign(p) ==
    /\ Begin(p, "sign")
    /\ SetJob(p, Job("sign", NoMessage, <<"key", "com">>, <<>>))
    /\ UNCHANGED <<cacheVars, msgOf, keys>>

Prove(p) ==
    /\ Begin(p, "prove")
    /\ OpenCircuit(p)
    /\ SetJob(p, Job("prove", NoMessage, <<"state", "pub", "sig">>, <<>>))
    /\ UNCHANGED <<msgOf, keys>>

Verify(p, m) ==
    /\ Begin(p, "verify")
    /\ OpenCircuit(p)
    /\ SetJob(p, Job("verify", m, <<"proof", "pub">>, <<>>))
    /\ UNCHANGED <<msgOf, keys>>

-----------------------------------------------------------------------------
(* Reading                                                                 *)

\* A command that ends gives its circuit up.
Leave(p) == IF pc[p] = "open" THEN Return(p) ELSE UNCHANGED cacheVars

\* The command has its circuit, if it needs one, and reads its next file.
Reading(p) ==
    /\ job[p].reads # <<>>
    /\ pc[p] \in {"idle", "open"}
    /\ UNCHANGED <<scene, dir, budget, msgOf, keys, released, killed>>

\* Any bytes are taken for a proof; the other artefacts have a size.
Readable(f) == dir[f] # Absent /\ (dir[f] = Torn => f = "proof")

ReadFile(p) ==
    LET f == Head(job[p].reads)
    IN  /\ Reading(p)
        /\ Readable(f)
        /\ SetJob(p, [job[p] EXCEPT !.reads = Tail(@), !.mem[f] = dir[f]])
        /\ UNCHANGED cacheVars

\* The file is missing or has the wrong size.
ReadFails(p) ==
    /\ Reading(p)
    /\ ~ Readable(Head(job[p].reads))
    /\ SetJob(p, NoJob)
    /\ Leave(p)

-----------------------------------------------------------------------------
(* What the commands compute from what they have read                      *)

Ready(p, cmd) ==
    /\ job[p].cmd = cmd
    /\ job[p].reads = <<>>
    /\ UNCHANGED <<scene, dir, budget, msgOf, keys, released, killed>>

\* signer_sign takes the next leaf.
SignerSign(p) ==
    LET key == job[p].mem["key"]
        com == job[p].mem["com"].com
    IN  /\ Ready(p, "sign")
        /\ key.leaf < Capacity
        /\ Writing(p, <<Write("sig", XmssSig(key.key, key.leaf, com)),
                        Write("key", SignerKey(key.key, key.leaf + 1))>>)
        /\ UNCHANGED cacheVars

SignerExhausted(p) ==
    /\ Ready(p, "sign")
    /\ job[p].mem["key"].leaf >= Capacity
    /\ SetJob(p, NoJob)
    /\ UNCHANGED cacheVars

\* The signature is one on this commitment, and its root is that of the key.
SignatureFits(p) ==
    LET mem == job[p].mem
    IN  mem["sig"].com = mem["state"].com /\ mem["sig"].key = mem["pub"].key

UserProve(p) ==
    LET mem == job[p].mem
    IN  /\ Ready(p, "prove")
        /\ pc[p] = "open"
        /\ SignatureFits(p)
        /\ Writing(p, <<Write("proof", [key |-> mem["pub"].key, msg |-> mem["state"].msg,
                                        circuit |-> got[p]])>>)
        /\ Return(p)

ProveRefused(p) ==
    /\ Ready(p, "prove")
    /\ pc[p] = "open"
    /\ ~ SignatureFits(p)
    /\ SetJob(p, NoJob)
    /\ Return(p)

\* blind_verify: the public inputs are the message and the signer's key, the
\* transcript depends on the circuit.
Passes(p) ==
    LET proof == job[p].mem["proof"]
    IN  /\ proof # Torn
        /\ proof.msg = job[p].msg
        /\ proof.key = job[p].mem["pub"].key
        /\ proof.circuit = got[p]

VerifyBlindSig(p) ==
    /\ Ready(p, "verify")
    /\ pc[p] = "open"
    /\ SetJob(p, NoJob)
    /\ Return(p)

-----------------------------------------------------------------------------
(* Writing                                                                 *)

\* Variant: what is written goes to the file only when it is whole.
TruncateNot(p) ==
    /\ job[p].writes # <<>>
    /\ ~ job[p].open
    /\ SetJob(p, [job[p] EXCEPT !.open = TRUE])
    /\ UNCHANGED <<cacheVars, scene, dir, budget, msgOf, keys, released, killed>>

Truncate(p) ==
    /\ job[p].writes # <<>>
    /\ ~ job[p].open
    /\ dir' = [dir EXCEPT ![Head(job[p].writes).file] = Torn]
    /\ SetJob(p, [job[p] EXCEPT !.open = TRUE])
    /\ UNCHANGED <<cacheVars, scene, budget, msgOf, keys, released, killed>>

\* write_file has returned: the next file, or the end of the command.
Written(p) ==
    SetJob(p, IF Len(job[p].writes) = 1 THEN NoJob
              ELSE [job[p] EXCEPT !.writes = Tail(@), !.open = FALSE])

\* A state or a proof may be shorter than what another process wrote into the
\* file after it was truncated here.
Fill(p) ==
    LET w == Head(job[p].writes)
    IN  /\ job[p].open
        /\ \E left \in {w.data} \cup
                (IF w.file \in {"state", "proof"} /\ dir[w.file] # Torn THEN {Torn} ELSE {}) :
              dir' = [dir EXCEPT ![w.file] = left]
        /\ released' = released \cup (IF w.file = "sig" THEN {w.data} ELSE {})
        /\ Written(p)
        /\ UNCHANGED <<cacheVars, scene, budget, msgOf, keys, killed>>

\* The disk is full.
DiskFull(p) ==
    LET f == Head(job[p].writes).file
    IN  /\ job[p].open
        /\ budget.faults > 0
        /\ budget' = [budget EXCEPT !.faults = @ - 1]
        /\ \E reported \in Reported(f) :
              IF reported THEN SetJob(p, NoJob) ELSE Written(p)
        /\ UNCHANGED <<cacheVars, scene, dir, msgOf, keys, released, killed>>

KillCommand(p) ==
    /\ job[p].cmd # "none"
    /\ budget.kills > 0
    /\ budget' = [budget EXCEPT !.kills = @ - 1]
    /\ killed' = TRUE
    /\ SetJob(p, NoJob)
    /\ IF pc[p] \in {"load", "build", "save"} THEN Kill(p) ELSE Leave(p)
    /\ UNCHANGED <<scene, dir, msgOf, keys, released>>

-----------------------------------------------------------------------------

\* A key, a commitment, a signature on it, and a blind signature made from it.
ReadyDirectory ==
    [key |-> SignerKey(1, 1), pub |-> SignerPub(1), com |-> Commitment(1),
     state |-> UserState(1, NoMessage), sig |-> XmssSig(1, 0, 1),
     proof |-> [key |-> 1, msg |-> NoMessage, circuit |-> "new"]]

ToolInit ==
    /\ CacheInit
    /\ scene \in Scenarios
    /\ scene.warm => file = WholeFile("new")
    /\ dir = IF scene.ready THEN ReadyDirectory ELSE [f \in Files |-> Absent]
    /\ job = [p \in Procs |-> NoJob]
    /\ budget = scene.budget
    /\ msgOf = IF scene.ready THEN <<NoMessage>> ELSE <<>>
    /\ keys = IF scene.ready THEN 1 ELSE 0
    /\ released = IF scene.ready THEN {XmssSig(1, 0, 1)} ELSE {}
    /\ killed = FALSE

\* The steps that a command which has begun takes by itself.
Run(p) ==
    \/ CacheStep(p) /\ UNCHANGED toolVars
    \/ ReadFile(p) \/ ReadFails(p)
    \/ SignerSign(p) \/ SignerExhausted(p)
    \/ UserProve(p) \/ ProveRefused(p)
    \/ VerifyBlindSig(p)
    \/ Truncate(p) \/ Fill(p)

ToolNext ==
    \E p \in Procs :
        \/ Keygen(p) \/ Sign(p) \/ Prove(p)
        \/ \E m \in Messages : Commit(p, m) \/ Verify(p, m)
        \/ Run(p)
        \/ DiskFull(p)
        \/ KillCommand(p)

allVars == <<cacheVars, toolVars>>

ToolSpec == ToolInit /\ [][ToolNext]_allVars

\* The scheduler runs a command that has begun.  Nobody has to begin one, and
\* nothing has to fail.
FairTool == ToolSpec /\ \A p \in Procs : WF_allVars(Run(p))

-----------------------------------------------------------------------------
(* Properties                                                              *)

\* verify says the truth whatever state the cache was in, whoever rewrote it
\* meanwhile, and whatever failed: a whole proof passes exactly for the message
\* and the key it was made for, and it was made from a signature that the
\* signer released on a commitment to that message.
VerdictRight ==
    \A p \in Procs :
        LET proof == job[p].mem["proof"]
            pub == job[p].mem["pub"]
        IN  /\ job[p].cmd = "verify" /\ job[p].reads = <<>> /\ pc[p] = "open"
            /\ proof # Torn
            => /\ Passes(p) <=> proof.key = pub.key /\ proof.msg = job[p].msg
               /\ Passes(p) => \E s \in released : s.key = pub.key /\ msgOf[s.com] = job[p].msg

\* A full disk never makes a leaf sign twice: with one process that signs and
\* none killed, whichever of its files is lost and whether write_file noticed it
\* or not, no leaf of a key signs two commitments.
FullDiskKeepsLeaves ==
    /\ Cardinality({p \in Procs : "sign" \in scene.may[p]}) = 1
    /\ ~ killed
    => \A s, t \in released : s.key = t.key /\ s.leaf = t.leaf => s.com = t.com

\* Every command ends, whatever others do to the cache and the directory.
CommandReturns == \A p \in Procs : job[p].cmd # "none" ~> job[p].cmd = "none"
=============================================================================
