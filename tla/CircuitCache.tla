---------------------------- MODULE CircuitCache ----------------------------
(***************************************************************************)
(* The circuit cache of the Longfellow tool                                *)
(* (longfellow/src/circuit_cache.cc): prove and verify of any number of    *)
(* processes open one file at a default path.  build_or_load_circuit reads *)
(* the file; if that does not yield a circuit it compiles the circuit,     *)
(* truncates the file and writes it.                                       *)
(*                                                                         *)
(* The file is a sequence of chunks (half a megabyte is neither read nor   *)
(* written by one system call).  Readers and writers go through it at      *)
(* their own offsets, nothing locks it, and a writer may be killed.  The   *)
(* file may be there from an earlier version of the program, whose circuit *)
(* is one chunk longer.                                                    *)
(***************************************************************************)
EXTENDS Integers, Sequences

CONSTANTS
    Procs,   \* processes of the tool
    Chunks,  \* chunks of the file of this version
    Hole     \* a chunk of zero bytes

ASSUME ChunksAssumption == Chunks \in Nat \ {0}

VARIABLES
    file,    \* the chunks of the cache file, <<>> also when it is absent
    pc,      \* "idle", "load", "build", "save" or "open"
    seen,    \* what a process in load has read so far
    offset,  \* chunks that a process in save has written
    got,     \* version of the circuit that a process has obtained
    served,  \* history: some process has obtained the circuit
    owner,   \* history: the process that truncated the file last
    torn     \* history: that process was killed before it had written all

cacheVars == <<file, pc, seen, offset, got, served, owner, torn>>

Versions == {"old", "new"}
WholeFile(v) ==
    [k \in 1..(IF v = "new" THEN Chunks ELSE Chunks + 1) |-> [ver |-> v, part |-> k]]

Goto(p, there) == pc' = [pc EXCEPT ![p] = there]

-----------------------------------------------------------------------------

\* build_or_load_circuit is called; load_circuit opens the file.
OpenCircuit(p) ==
    /\ pc[p] = "idle"
    /\ seen' = [seen EXCEPT ![p] = <<>>]
    /\ Goto(p, "load")
    /\ UNCHANGED <<file, offset, got, served, owner, torn>>

\* The next chunk is read.
ReadChunk(p) ==
    /\ pc[p] = "load"
    /\ Len(seen[p]) < Len(file)
    /\ seen' = [seen EXCEPT ![p] = Append(@, file[Len(@) + 1])]
    /\ UNCHANGED <<file, pc, offset, got, served, owner, torn>>

\* Variant: the format version is not compared.
LoadOkAnyVersion(data) == \E v \in Versions : data = WholeFile(v)

\* Magic and format version are those of this program; the frame decompresses
\* to its size and the circuit has the identity it claims.
LoadOk(data) ==
    /\ Len(data) > 0
    /\ data[1] # Hole /\ data[1].ver = "new"
    /\ \E v \in Versions : data = WholeFile(v)

\* The end of the file: a hit.
Load(p) ==
    /\ pc[p] = "load"
    /\ Len(seen[p]) >= Len(file)
    /\ LoadOk(seen[p])
    /\ got' = [got EXCEPT ![p] = seen[p][1].ver]
    /\ served' = TRUE
    /\ Goto(p, "open")
    /\ UNCHANGED <<file, seen, offset, owner, torn>>

\* Variant: a miss is tried again.
LoadAgain(p) ==
    /\ pc[p] = "load"
    /\ Len(seen[p]) >= Len(file)
    /\ ~ LoadOk(seen[p])
    /\ seen' = [seen EXCEPT ![p] = <<>>]
    /\ UNCHANGED <<file, pc, offset, got, served, owner, torn>>

\* The end of the file: a miss.
LoadFails(p) ==
    /\ pc[p] = "load"
    /\ Len(seen[p]) >= Len(file)
    /\ ~ LoadOk(seen[p])
    /\ Goto(p, "build")
    /\ UNCHANGED <<file, seen, offset, got, served, owner, torn>>

\* Variant: the file is not truncated.
SaveStartKeep(p) ==
    /\ pc[p] = "build"
    /\ offset' = [offset EXCEPT ![p] = 0]
    /\ owner' = p
    /\ torn' = FALSE
    /\ Goto(p, "save")
    /\ UNCHANGED <<file, seen, got, served>>

\* The circuit is built, and save_circuit truncates the file.
SaveStart(p) ==
    /\ pc[p] = "build"
    /\ file' = <<>>
    /\ offset' = [offset EXCEPT ![p] = 0]
    /\ owner' = p
    /\ torn' = FALSE
    /\ Goto(p, "save")
    /\ UNCHANGED <<seen, got, served>>

\* A chunk written at position k.
WriteAt(f, k, w) ==
    [i \in 1..(IF k > Len(f) THEN k ELSE Len(f)) |->
        IF i = k THEN w ELSE IF i <= Len(f) THEN f[i] ELSE Hole]

WriteChunk(p) ==
    /\ pc[p] = "save"
    /\ offset[p] < Chunks
    /\ file' = WriteAt(file, offset[p] + 1, WholeFile("new")[offset[p] + 1])
    /\ offset' = [offset EXCEPT ![p] = @ + 1]
    /\ UNCHANGED <<pc, seen, got, served, owner, torn>>

\* The file is closed, and the circuit that was built is returned.
SaveReturn(p) ==
    /\ pc[p] = "save"
    /\ offset[p] = Chunks
    /\ got' = [got EXCEPT ![p] = "new"]
    /\ served' = TRUE
    /\ Goto(p, "open")
    /\ UNCHANGED <<file, seen, offset, owner, torn>>

\* The command ends.
Return(p) ==
    /\ pc[p] = "open"
    /\ Goto(p, "idle")
    /\ UNCHANGED <<file, seen, offset, got, served, owner, torn>>

\* The process is killed, or the disk is full and save_circuit throws.
Kill(p) ==
    /\ pc[p] \in {"load", "build", "save"}
    /\ torn' = (torn \/ (pc[p] = "save" /\ owner = p /\ offset[p] < Chunks))
    /\ Goto(p, "idle")
    /\ UNCHANGED <<file, seen, offset, got, served, owner>>

-----------------------------------------------------------------------------

\* The file is absent, or left by this version or by an earlier one.
CacheInit ==
    /\ file \in {<<>>} \cup {WholeFile(v) : v \in Versions}
    /\ pc = [p \in Procs |-> "idle"]
    /\ seen = [p \in Procs |-> <<>>]
    /\ offset = [p \in Procs |-> 0]
    /\ got = [p \in Procs |-> "new"]
    /\ served = FALSE
    /\ owner = CHOOSE p \in Procs : TRUE
    /\ torn = FALSE

\* One step of build_or_load_circuit.
CacheStep(p) ==
    \/ ReadChunk(p) \/ Load(p) \/ LoadFails(p)
    \/ SaveStart(p) \/ WriteChunk(p) \/ SaveReturn(p)

-----------------------------------------------------------------------------
(* Properties                                                              *)

\* The cache repairs itself: whatever readers, writers and kills came before,
\* once a circuit was obtained, and when nobody is opening it and the last
\* process to truncate the file has written all of it, the file is whole and of
\* this version, so that the next open is a hit.
CacheSettles ==
    served /\ ~ torn /\ (\A p \in Procs : pc[p] \in {"idle", "open"}) =>
        file = WholeFile("new")
=============================================================================
