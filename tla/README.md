# Hash-based blind signatures in TLA+

A verification project for the four implementations of one hash-based blind
signature in this repository: `kkw/` (C), `voleith/` (C/C++), `longfellow/`
(C++) and `binius64/` (Rust). It models the parts whose correctness depends on
order, failure, concurrency or index arithmetic, checks them with TLC on small
instances and proves the most important results with TLAPS for every value of
the constants.

## The system

A user commits to a message, the signer signs the commitment with the next
one-time leaf of an XMSS tree, and the user proves in zero knowledge that it
holds such a signature. Each backend builds one tool, `blindsig`, with five
commands over the same artefact files in one directory.

| Part | State | Operations |
|---|---|---|
| command line tools (`kkw/src/cli.c`, `voleith/src/cli.cpp`, `longfellow/bin/cli.cc`, `binius64/src/bin/blindsig.rs`) | `signer_key.bin` (seeds, height, `next_leaf`), `signer_pub.bin`, `commitment.bin`, `user_state.bin`, `xmss_sig.bin`, `blind_sig.bin`; voleith also `signer.lock` | keygen, commit, sign, prove, verify |
| XMSS tree (`kkw/src/xmss.c`, copies in the others) | top levels, one bottom subtree, `cached_subtree`, root | new, sign, verify |
| target-sum WOTS+ | none (coordinates of a digest, chains) | grind a nonce, sign, recover the public key |
| KKW proof (`kkw/src/kkw_prove.c`, `kkw_verify.c`, `shared.c`) | instances, per-thread buffers, hash arrays, challenge, proof file | prove in two passes, verify |
| KKW circuit (`circuits.c`, `pooled_chains.inc`, `MPC_*_functions.c`) | masked words, packed positions, gate counter | build the schedule, evaluate, check |
| VOLE-in-the-head, Longfellow and Binius64 proofs | library state | prove, verify |
| Longfellow statement (`blind_stmt.h`, `native_witness.cc`) | rows of a witness, constraints between them | fill the witness, assert |
| Longfellow circuit cache (`circuit_cache.cc`) | one file shared by all processes | build or load |
| Binius64 multi-signature (`protocol_multi/`) | n keys with one `pk_seed`, one counter each | sign at a shared epoch, aggregate, verify |
| Halevi-Micali commitment, hashes, random source | none | pure functions and system calls |

The tools call the protocol layer (`protocol.c`, `protocol.cpp`, ...), which
calls the tree and the proof. Tools of different processes meet only in the
artefact directory; threads meet in the OpenMP loops of the tree and of the KKW
prover and verifier.

What is hard here:

* the signer is stateful, and a leaf that signs two commitments breaks the
  scheme. Every crash, failed write or overlap of two `sign` commands is a
  chance for that;
* `commit` and `keygen` each write two files, and a crash between them must not
  lose the half that matters;
* the pooled chain circuit takes its schedule from the prover and must be right
  for every schedule, with four counters packed into a word;
* the tree reuses one buffer for every subtree, filled by parallel loops;
* the KKW verifier is a list of recomputations, each of which carries a part of
  the cut-and-choose argument;
* the Longfellow statement has the same pool as rows of a witness, tied together
  by equations only;
* `signer_pub.bin` and `signer_key.bin` of binius64 get the number of signers
  from their length, so a torn file looks like another key;
* the circuit cache is rewritten in place under its readers;
* the VOLE circuit runs Keccak from both ends of a group of rounds towards the
  middle, twice, in two contexts that must agree bit by bit, and its statement
  says of no chain that it is walked;
* the KKW gates let the verifier recover carries bit by bit from what the hidden
  party broadcast;
* the longfellow tool does not notice a full disk for its small files;
* reader and writer of the proof file loop over a challenge that decides which
  fields are there at all.

`PROJECT.json` lists the hazards one by one, at their lines.

## Modules

| Module | Models | Kind |
|---|---|---|
| `OneTimeSigner` | what a signer promises: leaves in increasing order, none twice | abstract specification |
| `VoleithCli` | `voleith/src/cli.cpp`, `protocol.cpp` | detailed, implements `OneTimeSigner` |
| `VoleithProofs` | | theorems on `VoleithCli`, `VoleithStatement` and `KeccakCircuit`, which it extends side by side |
| `KkwCli` | `kkw/src/cli.c`, `protocol.c` | detailed |
| `KkwCliProofs` | | theorems on `KkwCli` |
| `PooledChains` | `kkw/src/pooled_chains.inc`, `kkw_build_schedule` | detailed, against `xmss_wots_pk_from_sig` |
| `KkwXmssProofs` | | theorems on `PooledChains` and on `XmssTree`, which it extends side by side |
| `XmssTree` | `kkw/src/xmss.c` | detailed, against the plain Merkle tree |
| `KkwProof` | `kkw_prove.c`, `kkw_verify.c`, `shared.c` | prover, forger and verifier |
| `KkwProofProofs` | | theorems on `KkwProof` and the gates of `MpcGates` that it extends |
| `LongfellowChains` | `assert_xmss` in `blind_stmt.h`, `fill_parts` | detailed, against `compute_wots_pk_hashes` |
| `LongfellowChainsProofs` | | theorems on `LongfellowChains` |
| `BiniusCli` | `blindsig.rs`, `serialize.rs`, `protocol*/` | detailed; each co-signer implements `OneTimeSigner` when undisturbed |
| `BiniusCliProofs` | | theorems on `BiniusCli` |
| `CircuitCache` | `longfellow/src/circuit_cache.cc` | component of `LongfellowCli` |
| `LongfellowCli` | `longfellow/bin/cli.cc`, `protocol.cc` | detailed, composes the tool with the cache |
| `LongfellowCliProofs` | | theorems on `CircuitCache` and `LongfellowCli` |
| `MpcGates` | `MPC_prove_functions.c`, `MPC_verify_functions.c` | operators, part of `KkwProof` |
| `Fips202` | Keccak and SHAKE256 as FIPS 202 defines them | reference |
| `KeccakCircuit` | `shake` and the contexts in `voleith/src/circuit.hpp`, `keccak_constraints.hpp` | detailed, against `Fips202` |
| `VoleithStatement` | `statement` in `circuit.hpp`, `primary_witness` | detailed, against `xmss_wots_pk_from_sig` and the tree |
| `SumTheorems` | | lemmas on sums over finite sets, recursive functions and powers of two, for `KkwXmssProofs`, `LongfellowChainsProofs`, `VoleithProofs` and `KkwProofProofs` |
| `MC*` | instances for TLC | |

### VoleithCli

Every process runs one command at a time; `pc` names the system call it is
about to make, and one action is one such call with the code around it. The
directory exists twice: `vis` is what processes read and `dur` is what a power
loss leaves. `write()` is two steps, the rename (`Replace`) and the fsync of
the directory (`SyncDir`, which copies `vis` to `dur`). The kernel may write an
entry back by itself (`Writeback`). The temporary file is synced before the
rename, so no state has a torn artefact. `Fail` is an exception or a kill at
any step; `Refuse` is an error return that depends on what was read; both end
in `Exit`, which frees the lock. Key pairs and commitments are numbers, since
fresh randomness makes each a new one; a signature is the triple it was made
from; a blind signature is the statement it proves.

Assumed: a successful fsync of the directory makes every earlier rename in it
durable; the proof system is sound and the signature unforgeable; one user
process commits at a time (two interleaved `commit` commands of one user
overwrite each other's state by design of the file names).

### KkwCli

The same commands with the kkw tool's own order and its own `write_file`:
`OpenFile` truncates, `FillFile` fills. There is no lock and no check for an
existing key. `Kill` is a kill or a failing call. Power loss is not modelled,
because a kill is enough to show what the order of the writes allows. An
artefact is filled by one write: key, public key, commitment and signature are
smaller than a stdio buffer; `user_state.bin`, which carries the message, may not be,
but only the user's process touches it and rejects a part of it; a partly written
proof is the subject of `KkwProof`.

The module has a set of scenarios (signer processes, keygens, commands that may
fail); each behaviour takes place in one of them, chosen in `Init`. What holds of
one undisturbed process and what holds of racing ones is so checked in one run.
`BiniusCli` has the same.

### PooledChains

`kkw_build_schedule` step by step, or any schedule bytes instead, and then
`pool_chains` step by step. A node is the sequence of tweaks hashed into it, so
"the same node" means the same hashes in the same order. `AddLane` is the
32-bit addition with its carries between lanes: that no carry happens is a
result, not an assumption. Masks and shares are below this level.

### XmssTree

Iterations of a parallel loop are single steps in any order; a loop ends when
all of its iterations have. Hashes are terms. `Merkle` is the reference: the
tree of the full height, level by level. The shift `1 << n` is the recursive
function `Pow2`, so that a proof can unfold it. The variables, `TreeInit`, `TreeNext`
and `TreeSpec` have names of their own because `KkwXmssProofs` extends this module
beside `PooledChains`.

### KkwProof

Pass 1 and pass 2 of `kkw_prove` on several threads with their own buffers,
the shuffle of `kkw_fs_expand` with every outcome of the generator, the file,
and `kkw_verify`. A forger without a witness takes the prover's place: it binds
any combination of lies in h*, sees the challenge and answers, revising at most
one round. Lies are in the auxiliary bits, the broadcasts of a party or the
output share of a party. The verifier's parallel loops write disjoint entries
and are one step. Failing allocations in the verifier (which end in rejection)
and the grinding are left out.

### LongfellowChains

The witness of the WOTS+ part is a table of rows: chain index, count, position
and input node, all chosen by the prover, together with the claimed chain ends.
The model lays the rows one by one and goes on only when every constraint that
`assert_xmss` puts on the row and its neighbour holds, so its behaviours are the
satisfying assignments. `pk` is what the constraints laid so far say of a chain
end: nothing, or the one node it must be. `HonestRow` is what `fill_parts`
writes next. `step_count` and `step_position` are sums modulo `ByteSize`. The
tree path, the commitment and the SHA-256 blocks of the statement are left out.

### BiniusCli

Tables say which files a command reads and writes, in order (`SignReads`,
`SignWrites` and the others, collected in `ReadsOf` and `WritesOf`); `Read`,
`OpenFile` and `WriteWord` do it. A file is read in one step: `std::fs::read` asks for
its whole length in the first call, and a file that changes between that call and the
one that finds the end is not modelled (word by word, the run has more than 22 million
states). `std::fs::write` truncates
and then writes from offset 0, so a file is a sequence of words, and two writers
may mix or leave a hole. The proof, a commitment and an opening are one word,
because every other length is rejected (`read_commitment`, `read_user_state`,
`VerifierTranscript::finalize`). The kernel usually writes a small file at once;
the model lets a reader, another writer or a full disk come between any two
words, which is all that `std::fs::write` promises. `signer_key.bin` is one word for the seeds,
`pk_seed` and height, then one per counter.

Assumed beside the soundness of the cryptography: a prefix of `signer_key.bin`
that has the length of a file of fewer signers takes random bytes for its height
and its counter, which are out of range with overwhelming probability, so that
the key is refused; the signer's nonce generator is a function of `sk_seed`
(`Signer::from_key`), so the same leaf and commitment give the same signature.
`HoleAssumption` states one thing more for the proofs: a word of zero bytes, which
a hole in a file reads as, is no root, no seed and no counter but 0.

### CircuitCache and LongfellowCli

`CircuitCache` is `build_or_load_circuit` by several processes. A reader goes
through the chunks of the file while writers truncate it and write at their own
offsets. A load succeeds exactly on a whole file of the program's version: the
frame of zstd and the identity check of `CircuitReader` (`enforce_circuit_id`,
external) reject every other one. The initial file is absent, current, or of an
earlier format version whose circuit is longer. The module has no specification
of its own: `LongfellowCli` extends it, and its `prove` and `verify` begin with
`OpenCircuit`, take the steps of `CacheStep` and end with `Return`.

A command of `LongfellowCli` reads its files one by one, computes, and writes its
files one by one (`job`). `write_file` truncates in place; `std::ofstream` holds
an artefact that is shorter than its buffer until the destructor, so that its
check after `f.write` sees nothing (`Reported`). A proof is longer than any buffer;
`xmss_sig.bin` (1212 bytes) and `user_state.bin` fit in the buffer of some standard
libraries and are written straight away by others, so their loss may be noticed or
not; that of the other files never is. `DiskFull` lets the next write fail. Proofs carry the version of the circuit they were made
with, because the transcript depends on it. Scenarios as in `KkwCli`.

### MpcGates

The masked AND and ADD of the prover, of the preprocessing (the same gate on zero
words) and of the verifier with a hidden party, on words of `W` bits; a word is the
set of its bits. `W` may be up to 32, because the five shifts of `prefix_xor_shift`
reach no further. The loop of `mpc_ADD_verify` over the bits of the carries is a
recursive function, `Value` the number that a word is. `Recomputes` and `Binds` say for a hidden party what `KkwProof` takes for granted: `KkwProof`
extends this module and states both for every challenge it draws. They are
constants: TLC computes them once, and `KkwProofProofs` proves them. The BLAKE3 rounds and the field
multiplication above the gates are left out.

### KeccakCircuit

`Circuit::shake` first with `NativeContext`, which runs the permutation and writes
snapshots, then with `AuthContext`, which reads them back, computes forward and
backward and compares. One action is one Keccak round or one block of the
witness. Every bit of the state is there, at the three degrees that the build
offers. An authenticated bit is the bit it commits to; that the proof system
checks the constraints is assumed. A prover may flip bits of the blocks it commits
to: a member of `Flips`, a set of sets of bits, in as many blocks as it likes; the run
has one bit of each lane, the last bit of a digest and of the state, two of one column, a
whole lane and the whole state. Which rounds leave a snapshot comes from the build
(`KECCAK_TRACE_ROUNDS` in `voleith/CMakeLists.txt`, for the patched permutation of
`voleith/cmake/pomfrit-trace.patch`) and not from the circuit's own `kKeccakStride`,
so the model has both numbers (`TraceRounds`, `Stride`) and the run shows that they
agree.
The permutation of FAEST, which `NativeContext` calls, is that of `Fips202`,
where offsets and constants are derived and not tabulated, so that the tables of
`keccak_constraints.hpp` are checked against something else.

### VoleithStatement

As in `LongfellowChains`, the model lays the rows one by one and keeps what
satisfies the constraints, here with the wires' own arithmetic: `chain_flags`
decodes an index by doubling, `less` and `add` go bit by bit. They are recursive
functions, and `StatementInit`, `StatementNext` and `StatementSpec` have names of
their own, so that `VoleithProofs` can reason about them beside `VoleithCli` and
`KeccakCircuit`. A chain end that no row has fixed is the prover's. Then the authentication path is
climbed with any siblings, and the last node is compared with the root.

## Runs

| Run | Bounds | Shows |
|---|---|---|
| `voleith_crash` | 2 processes (1 user), 2 messages, 2 keys, 2 leaves, 2 commitments | with failures and power loss at every step: `LeafUsedOnce`, `NoRollback`, `PubHasKey`, `OpeningStoredFirst`, `OneMore`, and the refinement of `OneTimeSigner` |
| `voleith_live` | 2 processes, 1 key, 1 leaf, 1 commitment | every command returns |
| `voleith_statement` | 5 chains of 3 steps, 6 rows, indices of 4 bits of which 3 count, 4 leaves | soundness of the statement for every witness, completeness of the honest one |
| `keccak_circuit` | degrees 16, 32, 64; inputs of 2, 135 and 136 bytes; the sets of bits of `Falsified` flipped, in any blocks | the digest is exact, the honest witness meets, both contexts keep one order |
| `kkw_tool` | 2 leaves, 2 messages; 1 signer process, 2 keys, no kill, or 2 signer processes, 1 key, 1 kill | undisturbed, the counter is exact, never above the capacity, and no leaf repeats (`CounterCounts`); `BlindSigBacked` holds in both |
| `kkw_crash` | 1 signer, 1 kill | **violation** of `LeafUsedOnce` |
| `kkw_proof` | 3 parties, 3 instances, 2 rounds, 2 threads; words of 3 bits, 2 sharings, 2 tapes | completeness, file format, soundness of the checks, and the gates for every challenge |
| `pooled_chains` | 5 chains of 2 steps, 3 slots, lanes and bytes of 6 values | the checks of the circuit for all digests and all schedules |
| `xmss_tree` | heights 1..4 of 5 levels, all splits, all orders of leaves | coherent cache, root independent of the split, signatures verify |
| `longfellow_chains` | 4 chains of 3 steps, 5 rows, bytes of 6 values | soundness of the rows for every witness, completeness of the honest one |
| `longfellow_tool` | 2 processes, 2 messages, 2 leaves, 2 (old: 3) chunks; 3 to 5 commands, 1 kill or 2 full disks | verify says the truth, the cache repairs itself, a full disk repeats no leaf, every command returns |
| `binius_tool` | up to 2 co-signers, 2 leaves, 2 commitments; 1 signer process, 2 keygens, no kill, or 2 signer processes, 1 keygen, 1 kill | undisturbed, counters in lockstep and exact, every co-signer a one-time signer; in both, what verify passes was signed by every co-signer, and no leaf is skipped |

Why these bounds reach the interesting cases: two processes are enough for each
race (a third adds no new pair); two leaves let a key run out and a leaf repeat;
two keys let a keygen follow another. Five chains need two words of lanes, the
second with three spare ones, and bytes of six values include one that names no
chain; 2 + 3 < 6 is the code's static assertion in small. Heights up to 4 give
up to four subtrees and one padded level above the tallest tree. Three
instances of which two are chosen include opened and checked ones and make the
shuffle swap; three parties include party 0 and another one, hidden or not.
With four chains of three steps and five rows up to two chains need no step,
the longest run fills three rows, and a byte of six values is just enough to
count them. Two co-signers make a file of three words whose prefix of two reads
as one signer; two commitments let two answers mix in `xmss_sig.bin`. A
second keygen comes only in the undisturbed scenario. `NoGap` is stated for one
keygen, because two keygens that race a sign may leave one key's counters behind
another key's seeds. An old cache file that is one chunk longer shows a tail that survives
a write without truncation; a third command in the race for the cache opens it
after the other two, and two full disks lose a signer's key and the public key
that follows it. An index of four bits has one that `chain_flags` does not
decode and must be zero, three that give eight prefixes for five chains, and
six rows leave digests in which up to three chains need no step. Three inputs of
SHAKE256 are one with a short digest, one whose padding is a single byte and one
that pads a block of its own; the state of Keccak is not scaled, since its tables
are what is checked. With three bits a word has two carries, of which one
depends on the other, and the top bit that has none; two sharings with different
masks are enough because the gates are linear in everything but the products,
whose public factors are all enumerated.

Runs that end (`pooled_chains`, `longfellow_chains`, `voleith_statement`,
`keccak_circuit`, `kkw_proof`, `longfellow_tool`) do not check deadlock: a proof is
made once, a witness that violates a constraint stops, and the commands of a
scenario are bounded. In the other tools the operator can always start another
command.

Fairness is used in two runs. `longfellow_tool` (`FairTool`) assumes weak fairness
for the next step of a command that has begun, nothing more: no step of it waits
for another process, so the scheduler alone makes it go on. In `voleith_live`:
weak fairness for the next step of a running process, strong fairness for the
acquisition of the lock (`flock` wakes waiters when the lock is free again and
again). Starting a command, failing and losing power are never forced.

### The disagreement

`kkw/src/xmss.h:6` says "Reusing a leaf invalidates the one-time-signature
security argument" and the README describes `sign` as "xmss_sig.bin;
next_leaf++". The kkw tool writes `xmss_sig.bin` before `signer_key.bin`, so a
failure between the two writes leaves a released signature and the old counter
(`kkw_crash`); two overlapping `sign` commands, which read the same counter, do
the same without a failure. The longfellow and binius64 tools write in the same
order. A full disk alone does not repeat a leaf in the longfellow tool
(`FullDiskKeepsLeaves`): the key is truncated first and then lost. The voleith
tool takes a lock and stores the advanced key, synced, before it signs, and for
it the absence of reuse is a theorem. For the other three it is a theorem only
with one signer process and no killed command: `CounterIsExact` (kkw),
`CosignersNeverReuse` (binius64) and, full disks included,
`LeavesSurviveAFullDisk` (longfellow).

## Proofs

TLC checks the small instances of the table above; the theorems hold for every
value of the constants that satisfies the named assumptions of the modules.

### VoleithProofs

The tool, for any sets of processes, users and messages and any capacity and bounds, from
`ConstantsAssumption`:

* `TypeCorrect`, `PublicKeyHasSecret`, `NoLeafReuse`: invariants;
* `KeyNeverRollsBack`: an action property;
* `Refinement`: `Spec => OneTimeSigner!Spec`;
* `NoOneMore`: verify passes no more messages under a key than sign has released
  signatures;
* `OpeningIsStoredFirst`: beside a commitment in the directory stands its own opening
  or a later commit's, so none becomes readable before its opening was stored. It
  assumes `SingleUser`, as the file names do. It does not say that the opening is kept:
  `user_state.bin` holds one opening, and a second `commit` that dies between
  `cli.cpp:141` and `cli.cpp:142` leaves the first commitment readable with its opening
  replaced. The run reaches that state.

The invariants are not inductive as they stand. The strengthening `IInv` says in
addition: who is inside a locked step holds the lock (`LockInv`); every leaf
that a released signature used is consumed in the *durable* key
(`ReleasedInv`); the visible key has the identity of the durable one and is at
or ahead of it (`AheadInv`); a public key exists only when its secret key is
durable (`PubInv`); keygen's key is the one it wrote, and is durable before the
public key appears (`GenInv`); a process in sign holds the key it read, whose
leaf no signature has used and which is consumed visibly and then durably
before it signs (`SignInv`); and the commitments in files and in memory have
been made (`ComInv`, for the refinement). `SignInv` is what the order of
`write` and
`xmss_keypair_sign` buys: between `sign_key_sync` and `sign_sig` the durable
counter is above the leaf in memory, so a power loss cannot return it.

`OpeningIsStoredFirst` adds `OpenInv`: no commitment in either directory is newer than
the durable opening, and commit holds the newest one while it writes. `NoOneMore`
adds `BackedInv`: every blind signature in a file and every accepted message has a
released signature of its key behind it. Choosing one for each message is an
injection, and the cardinalities follow.

The statement, for any number of chains, any widths of the wires that hold an index,
a position and the sum, any number of rows and any height, from
`ParametersAssumption` alone:

* `StatementInvariant`: while rows are laid, each of them has been spent on a chain
  that needs it (`RowsInv`: `Walked` sums to `row`), the latest one has walked its
  chain from the signature node to its position (`LatestRow`), and the chains past
  it are as the digest left them; while the tree is climbed, a node that is not
  junk is the one above the leaf in the signer's tree (`PathInv`);
* `VoleithStatementSound`: the coordinates have the target sum, so the chains need
  as many rows as there are; no chain gets more than it needs; hence each gets
  exactly that (`AllWalked`). It is the argument that the code leaves to the order of
  the indices and never states;
* `PrimaryWitnessAccepted`: the schedule of `primary_witness` gives each chain its
  turns one after the other (`ScheduleIs`, `NextTurn`), each of them meets the
  constraints of a row (`NextRowOk`), and the last one completes its chain
  (`LastTurn`).

The hash, for any inputs, whatever bits the prover flips in whichever blocks, and for the degrees 16, 32 and 64,
which are all that the build offers, from `KeccakAssumption`:

* `ContextsShareOrder`: the two contexts have the same layout. `KeccakInv` computes
  it: `Width` is the width of each block from its place alone, and both contexts
  follow it (`WidthInv`); `PermBlocks` and `PermConstraints` are the blocks and the
  constraints of whole permutations, which `NativeContext` has at every block of the
  input (`NativeInv`) and `AuthContext` reaches group by group, with one snapshot
  more while it computes backward (`AuthInv`). At degree 64 the last group of the
  last block has no snapshot and as many constraints as the digest has bits; this is
  where the two counts could part.

All rests on what the gadgets compute: `add` adds modulo the width, without carry
when the sum fits (`AddIs`, `AddFits`); `less` compares (`LessIs`); `chain_flags` is
the one flag of a chain's index, and with the high bits zero a single flag means
that the index is a chain (`FlagsAre`, `IndexOfChain`); the sum of the coordinates
does not overflow its wire (`CoordSumIs`). Their recursive functions are shown to
have solutions (`RecursionExists` of `SumTheorems`, or a closed form) before their
equations are used.

### KkwCliProofs

For all scenarios with finitely many signer processes:

* `KkwTypeCorrect`;
* `EveryBlindSigBacked`: in every scenario, races and kills included. `IInv` adds
  to the types the commands of each role (`RoleInv`), that keys and commitments in
  files and memory have been drawn (`DrawnInv`), and that every signature and every
  blind signature on the way is backed (`BackedInv`);
* `CounterIsExact`: with one signer process and no kill. `CountInv` follows the key
  from file to memory and back: it is exact (`Counted`: its counter is the number of
  its signatures and all leaves are below it) everywhere but between the write of
  the signature and the write of the key, where the advanced one in memory is.

### KkwProofProofs

For any number of threads, instances, rounds and parties:

* `ChallengeIncreases`: for every outcome of the generator;
* `WitnessNeeded`, `FinishedProofAccepted`, `WholeFileOnly`;
* `SoundUpToTheChallenge`: a proof accepted without a witness told the truth in
  every opened instance and lied in every chosen one where the challenge does not
  look.

`IInv` says what each pass has done: an instance, later a round, is still to be
taken, in the hands of one thread with its own scratch, or hashed (`Pass1Inv`,
`Pass2Inv`); h* binds the lies from then on (`BoundInv`); the swaps of the shuffle
keep the entries different (`ShuffleInv`), so that the sorted ones strictly increase
(`ChallengeInv`); the stream is about the challenge (`WrittenInv`); and the verdict
is that of `Accepts` (`VerdictInv`). Both loops rest on the same argument: threads
do not share scratch, and no iteration is taken twice. Soundness is the cut-and-choose
argument on top: equal hashes mean equal views, so an opened instance is honest
and a chosen one lies for the hidden party only.

What these arguments take for granted of the gates is proved from `GateAssumption`
alone, for any number of parties from two, words of up to 32 bits, and whatever the
shares and tapes hold:

* `GatesAlwaysExact`: the prover's AND and ADD compute the operation on the words,
  the preprocessing arrives at the same aux bits and masks without the input, and
  the verifier at the prover's result and at the broadcasts of the other parties,
  with aux bits or, when party 0 is hidden, without;
* `GatesAlwaysBind`: with the right aux bits, a hidden party's broadcast that the
  verifier would also accept with another party hidden gives the right result.

The sum of the broadcasts is bit for bit the product of the unmasked words plus the
mask of the result (`JointIs`, `ProductBit`, from the parity of a symmetric
difference, `OddXor`), and a verifier makes all broadcasts but one (`SlotsSeen`).
That settles AND. For ADD the broadcasts depend on the carries, which depend on the
broadcasts below them. A word ripples (`Ripple`) when its bit 0 is clear and each
next bit is its last one plus the bit of a given word function at that place, and
when the function works bit by bit there is one such word at most (`RippleUnique`).
The carries of an addition ripple (`CarriesRipple`, from the number that a word is:
`LowNext`, `HighPart`, `CarryNext`), their mask does because `prefix_xor_shift`
doubles a window with each shift (`WindowDoubles`, `PrefixRipples`), and so their
sum, which the prover computes in one go, ripples with what the parties broadcast
(`ProverRipples`). What the loop of `mpc_ADD_verify` builds ripples with the same
when it is told the hidden party's broadcast (`VerifyAddIs`, `AddSeen`), so it is
the same word. And two verifiers that accept the same broadcasts ripple with their
sum, whatever that is, so they have the same carries, which makes the broadcast of
each hidden party the one that the other verifier computed (`AddBinds`).

### KkwXmssProofs

The pooled chains, for any number of chains, steps, slots and lane width that satisfy the two static
assertions:

* `PooledTypeCorrect`;
* `LanesNeverWrap`: the comment on the packed counters. A lane holds its
  coordinate plus the steps of its chain, which is at most `MaxSteps` plus the
  slots used, below the lane size, so the carry condition is never met;
* `PooledChainsSound`: with a clear check word every node is the one that
  `xmss_wots_pk_from_sig` computes. The inductive invariant adds that the node
  of a chain is always the sequence of the tweaks from its coordinate on
  (`PrefixInv`), that no more steps were made than the slots used
  (`StepsInv`), and what a clear check means at the end (`FinalInv`);
* `ClearCheckMeansTargetSum`: with a clear check the steps of all chains sum to
  the slots (`StepsCounted`), so the coordinates have the target sum;
* `HonestSchedulePasses`: `kkw_build_schedule` has made a slot for each step it has
  come to (`BuildInv`), and the circuit takes them one by one (`HonestInv`).

The signer's tree, for any number of levels, any real height up to it, any subtree
height and any messages, from `HeightsAssumption` alone:

* `TreeInvariant`: `TreeInv` says at every step of a build which slots hold nodes of
  the reference tree: while a subtree is being built, the levels that are finished
  and the iterations of the running loop that have ended (`SubtreeInv`); for a new
  key, the roots of the earlier subtrees, and for a signature, the whole top
  (`RequestInv`); the rows of the top (`TopInv`); between calls, all of it
  (`ReadyInv`). It must be that fine: the buffer is used again for each subtree, so
  during a build its upper levels are another subtree's, and only the barrier at the
  end of each parallel loop keeps them from being read;
* `BufferCoherent`, `RootIsMerkle`: read off from it between calls;
* `SignedLeavesVerify`: what is returned is the leaf's true path (`ResultInv`), and the
  verifier, climbing it, meets the ancestors of the leaf up to the real root and then
  the upper siblings with index 0 (`TruePathVerifies`).

Two things carry these: node `j` of level `h` of subtree `s` is node
`s * 2^(subH - h) + j` of the tree, which halves to its parent's (`NodeParent`); and
the sibling of an ancestor below a subtree's root is in the same subtree
(`SiblingInSubtree`), so that the path can be read from the one subtree in the buffer.
The lemmas on indices are about any integers (`DivDiv`, `InBlock`, `BlockOf`); the
recursive functions (`Pow2`, `Merkle`, `climb`, `walk`) are shown to have solutions, by
induction over sets, before their equations are used.

### LongfellowChainsProofs

For any number of chains, steps and rows that a byte can count:

* `ChainRowsSound`: a witness that satisfies every constraint has the chain ends
  of `compute_wots_pk_hashes`. The inductive invariant says that the run at hand
  has made as many steps as its count, from its signature node on, with the
  positions after its coordinate (`RunInv`, where `ScheduleLen < ByteSize` keeps
  the count from wrapping); that a chain end that is fixed is the right one
  (`PkInv`); that a run that has ended fixed one (`ClosedInv`); and that at the
  end all are fixed (`DoneInv`). The soundness of the chain ends does not need
  the target sum;
* `RowsLeaveNothingOver`: each chain has exactly one run if it needs steps and none
  if not. The rows laid for all chains sum to the rows used, a chain that is done
  has at least what it needs, and by the target sum nothing is left for a second
  run (`RowsInv`);
* `HonestRowsFit`: `fill_parts` walks the chains in order and has closed exactly
  those before the one at hand that need steps (`HonestInv`).

### SumTheorems

`PooledChains`, `LongfellowChains` and the proofs about `VoleithStatement` add with
`MapThenSumSet` of the community modules, a recursive function over sets. What it computes (the empty sum, one
element more, equal terms, bounds, constant terms) is shown from its definition by
induction over sets of numbers and families of subsets, which rests on the minimum
of a well-founded relation and needs no operator parameter. The same induction shows
that a function defined step by step exists (`RecursionExists`), hence the powers of
two (`PowersExist`, `PowersOfTwo`), and that quotients are unique (`DivUnique`).

### LongfellowCliProofs

For any finite set of processes and any number of chunks:

* `CacheRepairsItself`: `CacheInv` splits in two. Until somebody truncates the file,
  readers have seen parts of it (`Untouched`); afterwards every chunk in it is of
  this version and at its place, and what the last process to truncate has written
  is there (`Rewritten`);
* `VerifyIsTruthful`: every artefact in a file or on its way to one is genuine
  (`GenuineInv`: a whole proof has a released signature of its key over a
  commitment to its message), whatever is in the cache;
* `LeavesSurviveAFullDisk`: whichever of its files the signer loses, noticed or not;
  with one signer and no kill the key in the file is fresh,
  above every leaf it signed with, or the signer is about to overwrite it; after a
  full disk it is torn (`LeafInv`).

### BiniusCliProofs

From `ConstantsAssumption` and `HoleAssumption`, for any scenarios with finitely
many signer processes, any number of co-signers, leaves and commitments:

* `AlwaysSigned`, `NothingPassesUnsigned`: in every scenario. `SignedInv` says of
  every word of every file and every memory that some command made it for that
  place, or that it is a hole, and what each command knows of the files it has
  read. Mixed signatures of two answers and torn files are covered by that, because
  it speaks of words and never of files;
* `LeavesWithoutGap`: while keygen runs once. A counter stands only where all
  signatures of the leaf below are out (`GapInv`). A signer may have read any mixture
  of counters, and signs only when they are equal;
* `CountersAreExact`: with one signer and no kill, `CountInv` follows the counters
  word by word through each write of keygen and sign;
* `CosignersNeverReuse`: from the same invariant, every co-signer's projection takes
  steps of `OneTimeSigner` or stutters.

### Only model-checked

* `CommandsReturn` and `CommandReturns`: liveness is out of the prover's reach;
* `DigestExact`, `HonestMeets`: TLC evaluates Keccak bit by bit. Both rest on the
  rounds running backward being the inverse of those running forward, a computation
  over 1600 bits that the provers do not carry out.

Only the type invariant of `VoleithCli` is a property of a run; the other modules'
are parts of their inductive invariants.

## Not modelled

* the arithmetic of the proof systems over GF(2^128) and the vendored libraries:
  TLC cannot enumerate it. So `voleith/src/proof.cpp`, `longfellow/src/prover.cc`
  and the salted proof of binius64 are symbolic in the tool modules;
* the Halevi-Micali commitment, whose binding and hiding are computational, with
  its product in the VOLE statement and in the KKW circuit;
* the BLAKE3 rounds and the wiring of `building_views` and `verify` above the
  gates, and the SHA-256 blocks of the Longfellow statement;
* the trees of longfellow and binius64, built like that of kkw, and the circuits
  of binius64;
* the grinding loops, whose end is a matter of probability;
* benchmarks and tests.

## Plan

Done: `VoleithCli`, `KkwCli`, `PooledChains`, `KkwProof`, `LongfellowChains`,
`BiniusCli`, `LongfellowCli` with `CircuitCache`, `XmssTree`, `VoleithStatement` and
`MpcGates`, all with their proofs; `KeccakCircuit`, checked, with its layout proved.
Next, in this order:

1. the tree path of the Longfellow statement and the trees of longfellow and
   binius64, against `XmssTree`;
2. `Wots`: two target-sum codewords are never comparable, so a signature yields
   no other;
3. the BLAKE3 compression of the KKW circuit over `MpcGates`, against the
   compression function itself.
