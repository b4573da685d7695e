------------------------ MODULE LongfellowCliProofs ------------------------
(***************************************************************************)
(* Proofs about LongfellowCli and CircuitCache, for any number of          *)
(* processes, chunks, messages and leaves and for every scenario: the      *)
(* circuit cache repairs itself, verify says the truth, and a full disk    *)
(* never makes a leaf sign twice.                                          *)
(***************************************************************************)
EXTENDS LongfellowCli, FiniteSetTheorems, SequenceTheorems, TLAPS

-----------------------------------------------------------------------------
(* The cache                                                               *)

Chunk == {Hole} \cup [ver : Versions, part : 1..(Chunks + 1)]

CacheTypeOK ==
    /\ file \in Seq(Chunk)
    /\ pc \in [Procs -> {"idle", "load", "build", "save", "open"}]
    /\ seen \in [Procs -> Seq(Chunk)]
    /\ offset \in [Procs -> 0..Chunks]
    /\ got \in [Procs -> {"new"}]
    /\ served \in BOOLEAN /\ torn \in BOOLEAN

\* Nobody has truncated the file since it was found: readers have seen parts
\* of it, and only a whole file of this version was a hit.
Untouched ==
    /\ ~ torn
    /\ \A p \in Procs : pc[p] # "save"
    /\ \A p \in Procs : pc[p] = "load" =>
          Len(seen[p]) <= Len(file) /\ \A i \in 1..Len(seen[p]) : seen[p][i] = file[i]
    /\ served => file = WholeFile("new")

\* Somebody has: only chunks of this version are written and each at its
\* place, and what the process that truncated last has written is there.
Rewritten ==
    /\ owner \in Procs
    /\ Len(file) <= Chunks
    /\ \A i \in 1..Len(file) : file[i] \in {Hole, WholeFile("new")[i]}
    /\ ~ torn /\ pc[owner] = "save" =>
          /\ offset[owner] <= Len(file)
          /\ \A i \in 1..offset[owner] : file[i] = WholeFile("new")[i]
    /\ ~ torn /\ pc[owner] # "save" => file = WholeFile("new")

CacheInv == CacheTypeOK /\ (Untouched \/ Rewritten)

\* A file of this version and what it is made of.
LEMMA WholeFiles ==
  /\ WholeFile("new") \in Seq(Chunk) /\ WholeFile("old") \in Seq(Chunk)
  /\ Len(WholeFile("new")) = Chunks
  /\ \A k \in 1..Chunks : WholeFile("new")[k] = [ver |-> "new", part |-> k]
  /\ \A d : LoadOk(d) => d = WholeFile("new") /\ d[1].ver = "new"
<1> USE ChunksAssumption
<1>1. \A v \in Versions : \A k \in 1..(Chunks + 1) : [ver |-> v, part |-> k] \in Chunk
  BY DEF Chunk
<1>2. WholeFile("new") = [k \in 1..Chunks |-> [ver |-> "new", part |-> k]]
  BY DEF WholeFile
<1>3. WholeFile("old") = [k \in 1..(Chunks + 1) |-> [ver |-> "old", part |-> k]]
  BY DEF WholeFile
<1>4. WholeFile("new") \in Seq(Chunk) /\ WholeFile("old") \in Seq(Chunk)
  BY <1>1, <1>2, <1>3 DEF Versions
<1>5. Len(WholeFile("new")) = Chunks
  BY <1>2
<1>6. ASSUME NEW d, LoadOk(d) PROVE d = WholeFile("new") /\ d[1].ver = "new"
  <2>1. PICK v \in Versions : d = WholeFile(v)
    BY <1>6 DEF LoadOk
  <2>2. d[1].ver = "new"
    BY <1>6 DEF LoadOk
  <2>3. v # "old"
    BY <2>1, <2>2, <1>3
  <2>4. QED
    BY <2>1, <2>2, <2>3 DEF Versions
<1>7. QED
  BY <1>2, <1>4, <1>5, <1>6

\* The cache is found as an earlier run of some version left it.
LEMMA CacheInvInit == CacheInit => CacheInv
<1> SUFFICES ASSUME CacheInit PROVE CacheInv
  OBVIOUS
<1>1. file \in Seq(Chunk)
  <2>1. file = <<>> \/ file = WholeFile("new") \/ file = WholeFile("old")
    BY Zenon DEF CacheInit, Versions
  <2>2. <<>> \in Seq(Chunk)
    OBVIOUS
  <2>3. QED
    BY <2>1, <2>2, WholeFiles
<1>2. CacheTypeOK
  <2>1. <<>> \in Seq(Chunk) /\ 0 \in 0..Chunks
    BY ChunksAssumption
  <2>2. pc \in [Procs -> {"idle", "load", "build", "save", "open"}] /\ got \in [Procs -> {"new"}]
    BY DEF CacheInit
  <2>3. seen \in [Procs -> Seq(Chunk)] /\ offset \in [Procs -> 0..Chunks]
    BY <2>1 DEF CacheInit
  <2>4. served \in BOOLEAN /\ torn \in BOOLEAN
    BY DEF CacheInit
  <2>5. QED
    BY <1>1, <2>2, <2>3, <2>4 DEF CacheTypeOK
<1>3. Untouched
  BY DEF CacheInit, Untouched
<1>4. QED
  BY <1>2, <1>3 DEF CacheInv

\* A process opens the file to read it.
LEMMA OpenCircuitStep ==
  ASSUME CacheInv, NEW p \in Procs, OpenCircuit(p)
  PROVE  CacheInv'
<1> USE DEF OpenCircuit, Goto
<1>1. CacheTypeOK'
  BY DEF CacheInv, CacheTypeOK
<1>2. Untouched => Untouched'
  BY DEF CacheInv, CacheTypeOK, Untouched
<1>3. Rewritten => Rewritten'
  BY DEF CacheInv, CacheTypeOK, Rewritten
<1>4. QED
  BY <1>1, <1>2, <1>3 DEF CacheInv

\* A reader sees the next chunk of the file.
LEMMA ReadChunkStep ==
  ASSUME CacheInv, NEW p \in Procs, ReadChunk(p)
  PROVE  CacheInv'
<1> USE DEF ReadChunk
<1> DEFINE next == file[Len(seen[p]) + 1]
<1>1. seen[p] \in Seq(Chunk) /\ next \in Chunk /\ pc[p] = "load"
  BY DEF CacheInv, CacheTypeOK
<1>2. seen' = [seen EXCEPT ![p] = Append(seen[p], next)]
  BY DEF CacheInv, CacheTypeOK
<1>3. Append(seen[p], next) \in Seq(Chunk)
  BY <1>1
<1>4. CacheTypeOK'
  BY <1>2, <1>3 DEF CacheInv, CacheTypeOK
<1>5. ASSUME Untouched PROVE Untouched'
  <2>1. ASSUME NEW q \in Procs, pc[q] = "load"
        PROVE  /\ Len(seen'[q]) <= Len(file)
               /\ \A i \in 1..Len(seen'[q]) : seen'[q][i] = file[i]
    <3>1. CASE q # p
      BY <2>1, <3>1, <1>2, <1>5 DEF CacheInv, CacheTypeOK, Untouched
    <3>2. CASE q = p
      <4>1. seen'[q] = Append(seen[p], next)
        BY <3>2, <1>2 DEF CacheInv, CacheTypeOK
      <4>2. \A i \in 1..Len(seen[p]) : seen[p][i] = file[i]
        BY <1>5, <1>1 DEF Untouched
      <4>3. file \in Seq(Chunk) /\ Len(seen[p]) < Len(file)
        BY DEF CacheInv, CacheTypeOK
      <4> HIDE DEF next
      <4>4. Len(seen'[q]) = Len(seen[p]) + 1
        BY <4>1, <1>1
      <4>5. \A i \in 1..(Len(seen[p]) + 1) :
               seen'[q][i] = IF i = Len(seen[p]) + 1 THEN next ELSE seen[p][i]
        BY <4>1, <1>1
      <4> USE DEF next
      <4>6. QED
        BY <4>2, <4>3, <4>4, <4>5
    <3>3. QED
      BY <3>1, <3>2
  <2>2. QED
    BY <2>1, <1>5 DEF Untouched
<1>6. Rewritten => Rewritten'
  BY DEF Rewritten
<1>7. QED
  BY <1>4, <1>5, <1>6 DEF CacheInv

\* A hit: what was read is a whole file of this version.
LEMMA LoadStep ==
  ASSUME CacheInv, NEW p \in Procs, Load(p)
  PROVE  CacheInv'
<1> USE DEF Load, Goto
<1>1. seen[p] = WholeFile("new") /\ seen[p][1].ver = "new"
  BY WholeFiles
<1>2. CacheTypeOK'
  BY <1>1 DEF CacheInv, CacheTypeOK
<1>3. ASSUME Untouched PROVE Untouched'
  <2>1. file \in Seq(Chunk) /\ seen[p] \in Seq(Chunk)
    BY DEF CacheInv, CacheTypeOK
  <2>2. Len(seen[p]) = Len(file) /\ \A i \in 1..Len(seen[p]) : seen[p][i] = file[i]
    BY <1>3, <2>1 DEF Untouched
  <2>3. file = seen[p]
    BY <2>1, <2>2, SeqEqual
  <2>4. QED
    BY <1>1, <1>3, <2>3 DEF CacheInv, CacheTypeOK, Untouched
<1>4. Rewritten => Rewritten'
  BY DEF CacheInv, CacheTypeOK, Rewritten
<1>5. QED
  BY <1>2, <1>3, <1>4 DEF CacheInv

\* A miss.
LEMMA LoadFailsStep ==
  ASSUME CacheInv, NEW p \in Procs, LoadFails(p)
  PROVE  CacheInv'
<1> USE DEF LoadFails, Goto
<1>1. CacheTypeOK'
  BY DEF CacheInv, CacheTypeOK
<1>2. Untouched => Untouched'
  BY DEF CacheInv, CacheTypeOK, Untouched
<1>3. Rewritten => Rewritten'
  BY DEF CacheInv, CacheTypeOK, Rewritten
<1>4. QED
  BY <1>1, <1>2, <1>3 DEF CacheInv

\* The file is truncated.
LEMMA SaveStartStep ==
  ASSUME CacheInv, NEW p \in Procs, SaveStart(p)
  PROVE  CacheInv'
<1> USE DEF SaveStart, Goto
<1>1. <<>> \in Seq(Chunk) /\ 0 \in 0..Chunks
  BY ChunksAssumption
<1>2. CacheTypeOK'
  BY <1>1 DEF CacheInv, CacheTypeOK
<1>3. Rewritten'
  BY ChunksAssumption DEF CacheInv, CacheTypeOK, Rewritten
<1>4. QED
  BY <1>2, <1>3 DEF CacheInv

\* What a write beyond the end or within the file leaves.
LEMMA WriteAtEffect ==
  ASSUME NEW f \in Seq(Chunk), NEW k \in Nat \ {0}, NEW w \in Chunk
  PROVE  /\ WriteAt(f, k, w) \in Seq(Chunk)
         /\ Len(WriteAt(f, k, w)) = IF k > Len(f) THEN k ELSE Len(f)
         /\ \A i \in 1..Len(WriteAt(f, k, w)) :
               WriteAt(f, k, w)[i] = IF i = k THEN w ELSE IF i <= Len(f) THEN f[i] ELSE Hole
<1> DEFINE n == IF k > Len(f) THEN k ELSE Len(f)
           g(i) == IF i = k THEN w ELSE IF i <= Len(f) THEN f[i] ELSE Hole
<1>1. n \in Nat
  OBVIOUS
<1>2. \A i \in 1..n : g(i) \in Chunk
  BY DEF Chunk
<1>3. WriteAt(f, k, w) = [i \in 1..n |-> g(i)]
  BY DEF WriteAt
<1> HIDE DEF n, g
<1>4. WriteAt(f, k, w) \in Seq(Chunk) /\ Len(WriteAt(f, k, w)) = n
  BY <1>1, <1>2, <1>3
<1>5. \A i \in 1..n : WriteAt(f, k, w)[i] = g(i)
  BY <1>3
<1>6. QED
  BY <1>4, <1>5 DEF n, g

\* A chunk is written at its place, by the process that truncated last or by
\* another.
LEMMA WriteChunkStep ==
  ASSUME CacheInv, NEW p \in Procs, WriteChunk(p)
  PROVE  CacheInv'
<1> USE DEF WriteChunk
<1> DEFINE k == offset[p] + 1
           w == WholeFile("new")[k]
<1>1. k \in 1..Chunks /\ file \in Seq(Chunk) /\ file' = WriteAt(file, k, w)
  BY ChunksAssumption DEF CacheInv, CacheTypeOK
<1>2. w = [ver |-> "new", part |-> k] /\ w \in Chunk
  BY <1>1, WholeFiles, ChunksAssumption DEF Chunk, Versions
<1>3. /\ file' \in Seq(Chunk)
      /\ Len(file') = IF k > Len(file) THEN k ELSE Len(file)
      /\ \A i \in 1..Len(file') :
            file'[i] = IF i = k THEN w ELSE IF i <= Len(file) THEN file[i] ELSE Hole
  <2>1. k \in Nat \ {0}
    BY <1>1
  <2> HIDE DEF k, w, WriteChunk
  <2>2. file \in Seq(Chunk) /\ w \in Chunk
    BY <1>1, <1>2
  <2>3. /\ WriteAt(file, k, w) \in Seq(Chunk)
        /\ Len(WriteAt(file, k, w)) = IF k > Len(file) THEN k ELSE Len(file)
        /\ \A i \in 1..Len(WriteAt(file, k, w)) :
              WriteAt(file, k, w)[i] = IF i = k THEN w ELSE IF i <= Len(file) THEN file[i] ELSE Hole
    BY <2>1, <2>2, WriteAtEffect
  <2>4. QED
    BY <1>1, <2>3
<1>4. offset' = [offset EXCEPT ![p] = k] /\ offset[p] \in 0..Chunks /\ pc[p] = "save"
  BY DEF CacheInv, CacheTypeOK
<1>5. CacheTypeOK'
  BY <1>1, <1>3, <1>4 DEF CacheInv, CacheTypeOK
<1>6. Rewritten
  BY <1>4 DEF CacheInv, Untouched
<1>7. owner \in Procs /\ Len(file) <= Chunks /\ Len(file') <= Chunks
  BY <1>1, <1>3, <1>6, ChunksAssumption DEF Rewritten
<1>8. \A i \in 1..Len(file') : file'[i] \in {Hole, WholeFile("new")[i]}
  BY <1>1, <1>3, <1>6 DEF Rewritten
<1> HIDE DEF w
<1>9. ASSUME ~ torn, pc[owner] = "save"
      PROVE  /\ offset'[owner] <= Len(file')
             /\ \A i \in 1..offset'[owner] : file'[i] = WholeFile("new")[i]
  <2>1. offset[owner] \in 0..Chunks /\ offset[owner] <= Len(file)
    BY <1>6, <1>9 DEF Rewritten, CacheInv, CacheTypeOK
  <2>2. \A i \in 1..offset[owner] : file[i] = WholeFile("new")[i]
    BY <1>6, <1>9 DEF Rewritten
  <2>3. offset'[owner] = IF owner = p THEN k ELSE offset[owner]
    BY <1>4, <1>7 DEF CacheInv, CacheTypeOK
  <2>4. \A i \in 1..offset'[owner] : i \in 1..Len(file') /\ (i = k \/ i \in 1..offset[owner])
    BY <1>1, <1>3, <2>1, <2>3
  <2>5. \A i \in 1..Len(file) : i \in 1..Len(file')
    BY <1>1, <1>3
  <2>6. ASSUME NEW i \in 1..offset'[owner] PROVE file'[i] = WholeFile("new")[i]
    BY <1>1, <1>3, <2>1, <2>2, <2>4 DEF w
  <2>7. QED
    BY <1>1, <1>3, <2>1, <2>3, <2>6
<1>10. ASSUME ~ torn, pc[owner] # "save" PROVE file' = WholeFile("new")
  <2>1. file = WholeFile("new") /\ Len(file) = Chunks
    BY <1>6, <1>10, WholeFiles DEF Rewritten
  <2>2. Len(file') = Chunks
    BY <1>1, <1>3, <2>1
  <2>3. \A i \in 1..Chunks : file'[i] = WholeFile("new")[i]
    BY <1>3, <2>1, <2>2 DEF w
  <2>4. QED
    BY <1>3, <2>2, <2>3, WholeFiles, SeqEqual
<1>11. QED
  BY <1>5, <1>7, <1>8, <1>9, <1>10 DEF CacheInv, Rewritten

\* The file is written: if it is that of the process that truncated last, it
\* is whole.
LEMMA SaveReturnStep ==
  ASSUME CacheInv, NEW p \in Procs, SaveReturn(p)
  PROVE  CacheInv'
<1> USE DEF SaveReturn, Goto
<1>1. CacheTypeOK'
  BY DEF CacheInv, CacheTypeOK
<1>2. Rewritten
  BY DEF CacheInv, Untouched
<1>3. CASE owner = p /\ ~ torn
  <2>1. file \in Seq(Chunk) /\ Len(file) = Chunks /\ pc[owner] = "save" /\ offset[owner] = Chunks
    BY <1>2, <1>3, ChunksAssumption DEF Rewritten, CacheInv, CacheTypeOK
  <2>2. \A i \in 1..Chunks : file[i] = WholeFile("new")[i]
    BY <1>2, <1>3, <2>1 DEF Rewritten
  <2>3. file = WholeFile("new")
    BY <2>1, <2>2, WholeFiles, SeqEqual
  <2>4. QED
    BY <1>1, <1>2, <1>3, <2>3 DEF CacheInv, CacheTypeOK, Rewritten
<1>4. CASE owner # p \/ torn
  <2>1. Rewritten'
    BY <1>2, <1>4 DEF CacheInv, CacheTypeOK, Rewritten
  <2>2. QED
    BY <1>1, <2>1 DEF CacheInv
<1>5. QED
  BY <1>3, <1>4

\* The command gives its circuit up.
LEMMA ReturnStep ==
  ASSUME CacheInv, NEW p \in Procs, Return(p)
  PROVE  CacheInv'
<1> USE DEF Return, Goto
<1>1. CacheTypeOK'
  BY DEF CacheInv, CacheTypeOK
<1>2. Untouched => Untouched'
  BY DEF CacheInv, CacheTypeOK, Untouched
<1>3. Rewritten => Rewritten'
  BY DEF CacheInv, CacheTypeOK, Rewritten
<1>4. QED
  BY <1>1, <1>2, <1>3 DEF CacheInv

\* A process that is killed while it writes leaves a part of the file only if
\* it was the last to truncate it.
LEMMA KillStep ==
  ASSUME CacheInv, NEW p \in Procs, Kill(p)
  PROVE  CacheInv'
<1> USE DEF Kill, Goto
<1>1. CacheTypeOK'
  BY DEF CacheInv, CacheTypeOK
<1>2. Untouched => Untouched'
  BY DEF CacheInv, CacheTypeOK, Untouched
<1>3. ASSUME Rewritten PROVE Rewritten'
  <2>1. CASE pc[p] = "save" /\ owner = p /\ ~ torn'
    <3>1. file \in Seq(Chunk) /\ ~ torn /\ offset[owner] = Chunks
      <4>1. ~ torn /\ ~ (offset[p] < Chunks)
        BY <2>1
      <4>2. file \in Seq(Chunk) /\ offset[p] \in 0..Chunks
        BY DEF CacheInv, CacheTypeOK
      <4>3. QED
        BY <2>1, <4>1, <4>2, ChunksAssumption
    <3>2. Len(file) = Chunks /\ \A i \in 1..Chunks : file[i] = WholeFile("new")[i]
      BY <1>3, <2>1, <3>1, ChunksAssumption DEF Rewritten
    <3>3. file = WholeFile("new")
      BY <3>1, <3>2, WholeFiles, SeqEqual
    <3>4. QED
      BY <1>3, <2>1, <3>3 DEF CacheInv, CacheTypeOK, Rewritten
  <2>2. CASE ~ (pc[p] = "save" /\ owner = p) \/ torn'
    BY <1>3, <2>2 DEF CacheInv, CacheTypeOK, Rewritten
  <2>3. QED
    BY <2>1, <2>2
<1>4. QED
  BY <1>1, <1>2, <1>3 DEF CacheInv

-----------------------------------------------------------------------------
(* The artefacts                                                           *)

Texts == Messages \cup {NoMessage}

Data ==
    {Absent, Torn} \cup [key : Nat, leaf : Nat] \cup [key : Nat] \cup [com : Nat]
    \cup [com : Nat, msg : Texts] \cup [key : Nat, leaf : Nat, com : Nat]
    \cup [key : Nat, msg : Texts, circuit : {"new"}]

Writes == [file : Files, data : Data]

Jobs ==
    [cmd : {"none", "sign", "prove", "verify", "write"}, msg : Texts,
     reads : Seq(Files), mem : [Files -> Data],
     writes : Seq(Writes), open : BOOLEAN]

ToolTypeOK ==
    /\ dir \in [Files -> Data]
    /\ job \in [Procs -> Jobs]
    /\ keys \in Nat
    /\ msgOf \in Seq(Texts)
    /\ released \subseteq [key : 1..keys, leaf : Nat, com : 1..Len(msgOf)]
    /\ killed \in BOOLEAN

\* What a whole file may hold: keys and commitments that were made, signatures
\* that were released, and proofs that have such a signature behind them.
Genuine(f, d) ==
    /\ f = "key" => d \in [key : 1..keys, leaf : Nat]
    /\ f = "pub" => d \in [key : 1..keys]
    /\ f = "com" => d \in [com : 1..Len(msgOf)]
    /\ f = "state" => d \in [com : 1..Len(msgOf), msg : Texts] /\ d.msg = msgOf[d.com]
    /\ f = "sig" => d \in released
    /\ f = "proof" =>
          /\ d \in [key : Nat, msg : Texts, circuit : {"new"}]
          /\ \E s \in released : s.key = d.key /\ msgOf[s.com] = d.msg

\* What may be written to a file: a signature is not released yet.
MayWrite(w) ==
    IF w.file = "sig" THEN w.data \in [key : 1..keys, leaf : Nat, com : 1..Len(msgOf)]
    ELSE Genuine(w.file, w.data)

\* The commands write their files in these orders.
WritePlan(ws) ==
    \/ ws = <<>>
    \/ Len(ws) = 1 /\ ws[1].file \in {"key", "pub", "state", "proof"}
    \/ Len(ws) = 2 /\ <<ws[1].file, ws[2].file>> \in
                          {<<"key", "pub">>, <<"com", "state">>, <<"sig", "key">>}

\* What a command has read of the files that it needs, in order.
ReadPlan(j) ==
    /\ j.cmd \in {"none", "write"} => j.reads = <<>>
    /\ j.cmd = "sign" =>
          /\ j.reads \in {<<"key", "com">>, <<"com">>, <<>>}
          /\ j.reads # <<"key", "com">> => Genuine("key", j.mem["key"])
          /\ j.reads = <<>> => Genuine("com", j.mem["com"])
    /\ j.cmd = "prove" =>
          /\ j.reads \in {<<"state", "pub", "sig">>, <<"pub", "sig">>, <<"sig">>, <<>>}
          /\ j.reads # <<"state", "pub", "sig">> => Genuine("state", j.mem["state"])
          /\ j.reads \in {<<"sig">>, <<>>} => Genuine("pub", j.mem["pub"])
          /\ j.reads = <<>> => Genuine("sig", j.mem["sig"])
    /\ j.cmd = "verify" =>
          /\ j.reads \in {<<"proof", "pub">>, <<"pub">>, <<>>}
          /\ j.reads # <<"proof", "pub">> =>
                j.mem["proof"] = Torn \/ Genuine("proof", j.mem["proof"])

JobOK(j) ==
    /\ ReadPlan(j)
    /\ WritePlan(j.writes)
    /\ \A i \in 1..Len(j.writes) : MayWrite(j.writes[i])
    /\ j.cmd # "write" => j.writes = <<>>
    /\ j.open => j.writes # <<>>

GenuineInv ==
    /\ \A f \in Files : dir[f] \notin {Absent, Torn} => Genuine(f, dir[f])
    /\ \A p \in Procs : JobOK(job[p])

ToolInv == ToolTypeOK /\ GenuineInv

\* Lists of files to read, and what is left of them after the next file.
LEMMA ReadLists ==
  /\ Head(<<"key", "com">>) = "key" /\ Tail(<<"key", "com">>) = <<"com">>
  /\ Head(<<"com">>) = "com" /\ Tail(<<"com">>) = <<>>
  /\ Head(<<"state", "pub", "sig">>) = "state"
  /\ Tail(<<"state", "pub", "sig">>) = <<"pub", "sig">>
  /\ Head(<<"pub", "sig">>) = "pub" /\ Tail(<<"pub", "sig">>) = <<"sig">>
  /\ Head(<<"sig">>) = "sig" /\ Tail(<<"sig">>) = <<>>
  /\ Head(<<"proof", "pub">>) = "proof" /\ Tail(<<"proof", "pub">>) = <<"pub">>
  /\ Head(<<"pub">>) = "pub" /\ Tail(<<"pub">>) = <<>>
  /\ <<"key", "com">> # <<"com">> /\ <<"key", "com">> # <<>> /\ <<"com">> # <<>>
  /\ <<"proof", "pub">> # <<"pub">> /\ <<"proof", "pub">> # <<>> /\ <<"pub">> # <<>>
  /\ <<"state", "pub", "sig">> \notin {<<"pub", "sig">>, <<"sig">>, <<>>}
  /\ <<"pub", "sig">> \notin {<<"sig">>, <<>>} /\ <<"sig">> # <<>>
OBVIOUS

\* An idle process.
LEMMA IdleJob == NoJob \in Jobs /\ JobOK(NoJob) /\ JobOK(NoJob)'
<1> DEFINE mem == [f \in Files |-> Absent]
<1>1. mem \in [Files -> Data]
  BY DEF Data
<1>2. /\ <<>> \in Seq(Files) /\ <<>> \in Seq(Writes)
      /\ NoMessage \in Texts
  BY DEF Texts
<1>3. NoJob = [cmd |-> "none", msg |-> NoMessage, reads |-> <<>>, mem |-> mem,
               writes |-> <<>>, open |-> FALSE]
  BY DEF NoJob, Job
<1> HIDE DEF mem
<1>4. NoJob \in Jobs
  BY <1>1, <1>2, <1>3 DEF Jobs
<1>5. NoJob.cmd = "none" /\ NoJob.reads = <<>> /\ NoJob.writes = <<>> /\ NoJob.open = FALSE
  BY <1>3
<1>6. JobOK(NoJob)
  BY <1>5 DEF JobOK, ReadPlan, WritePlan
<1>7. JobOK(NoJob)'
  BY <1>5 DEF JobOK, ReadPlan, WritePlan
<1>8. QED
  BY <1>4, <1>6, <1>7

\* A command that begins to read.
LEMMA ReadJob ==
  ASSUME NEW cmd, NEW m \in Texts, NEW rs,
         <<cmd, rs>> \in {<<"sign", <<"key", "com">>>>, <<"prove", <<"state", "pub", "sig">>>>,
                          <<"verify", <<"proof", "pub">>>>}
  PROVE  LET j == Job(cmd, m, rs, <<>>)
         IN  j \in Jobs /\ JobOK(j)' /\ j.cmd = cmd /\ j.writes = <<>> /\ j.reads = rs
<1> DEFINE mem == [f \in Files |-> Absent]
           j == Job(cmd, m, rs, <<>>)
<1>1. mem \in [Files -> Data]
  BY DEF Data
<1>2. \/ cmd = "sign" /\ rs = <<"key", "com">>
      \/ cmd = "prove" /\ rs = <<"state", "pub", "sig">>
      \/ cmd = "verify" /\ rs = <<"proof", "pub">>
  OBVIOUS
<1>3. rs \in Seq(Files) /\ <<>> \in Seq(Writes)
  <2>1. /\ <<"key", "com">> \in Seq(Files) /\ <<"state", "pub", "sig">> \in Seq(Files)
        /\ <<"proof", "pub">> \in Seq(Files) /\ <<>> \in Seq(Writes)
    BY DEF Files
  <2>2. QED
    BY <1>2, <2>1
<1>4. j = [cmd |-> cmd, msg |-> m, reads |-> rs, mem |-> mem, writes |-> <<>>, open |-> FALSE]
  BY DEF Job
<1> HIDE DEF mem, j
<1>5. j \in Jobs
  BY <1>1, <1>2, <1>3, <1>4 DEF Jobs
<1>6. j.cmd = cmd /\ j.reads = rs /\ j.writes = <<>> /\ j.open = FALSE
  BY <1>4
<1>7. JobOK(j)'
  BY <1>2, <1>6, ReadLists DEF JobOK, ReadPlan, WritePlan
<1>8. QED
  BY <1>5, <1>6, <1>7 DEF j

\* A command that begins to write two files.
LEMMA WriteJob ==
  ASSUME NEW f \in Files, NEW g \in Files, NEW d \in Data, NEW e \in Data,
         <<f, g>> \in {<<"key", "pub">>, <<"com", "state">>, <<"sig", "key">>}
  PROVE  LET j == Job("write", NoMessage, <<>>, <<Write(f, d), Write(g, e)>>)
         IN  /\ j \in Jobs
             /\ MayWrite(Write(f, d))' /\ MayWrite(Write(g, e))' => JobOK(j)'
             /\ j.cmd = "write" /\ j.reads = <<>> /\ j.open = FALSE /\ Len(j.writes) = 2
             /\ j.writes[1] = Write(f, d) /\ j.writes[2] = Write(g, e)
<1> DEFINE mem == [i \in Files |-> Absent]
           ws == <<Write(f, d), Write(g, e)>>
           j == Job("write", NoMessage, <<>>, ws)
<1>1. mem \in [Files -> Data]
  BY DEF Data
<1>2. /\ <<>> \in Seq(Files) /\ ws \in Seq(Writes)
      /\ NoMessage \in Texts
  BY DEF Texts, Write, Writes
<1>3. j = [cmd |-> "write", msg |-> NoMessage, reads |-> <<>>, mem |-> mem, writes |-> ws,
           open |-> FALSE]
  BY DEF Job
<1>4. Len(ws) = 2 /\ ws[1] = Write(f, d) /\ ws[2] = Write(g, e)
  OBVIOUS
<1>5. Write(f, d).file = f /\ Write(g, e).file = g
  BY DEF Write
<1> HIDE DEF mem, ws, j
<1>6. j \in Jobs
  BY <1>1, <1>2, <1>3 DEF Jobs
<1>7. j.cmd = "write" /\ j.reads = <<>> /\ j.writes = ws /\ j.open = FALSE
  BY <1>3
<1>8. ASSUME MayWrite(Write(f, d))', MayWrite(Write(g, e))' PROVE JobOK(j)'
  <2>1. ReadPlan(j)'
    BY <1>7 DEF ReadPlan
  <2>2. WritePlan(j.writes)
    BY <1>4, <1>5, <1>7 DEF WritePlan
  <2>3. \A i \in 1..Len(j.writes) : MayWrite(j.writes[i])'
    <3>1. \A i \in 1..2 : i = 1 \/ i = 2
      OBVIOUS
    <3>2. QED
      BY <1>4, <1>7, <1>8, <3>1
  <2>4. QED
    BY <1>4, <1>7, <2>1, <2>2, <2>3 DEF JobOK
<1>9. QED
  BY <1>4, <1>6, <1>7, <1>8 DEF j, ws

\* The pairs of files that a command writes.
Paired(f, g) ==
    \/ f = "key" /\ g = "pub"
    \/ f = "com" /\ g = "state"
    \/ f = "sig" /\ g = "key"

\* A command that is to write f and then g.
WritesBoth(j, f, d, g, e) ==
    /\ j = Job("write", NoMessage, <<>>, <<Write(f, d), Write(g, e)>>)
    /\ j.cmd = "write" /\ j.open = FALSE /\ Len(j.writes) = 2
    /\ j.writes[1].file = f /\ j.writes[1].data = d
    /\ j.writes[2].file = g /\ j.writes[2].data = e

\* There is such a command for every pair.
LEMMA WriteForm ==
  ASSUME NEW f, NEW g, NEW d \in Data, NEW e \in Data, Paired(f, g)
  PROVE  \E j \in Jobs : WritesBoth(j, f, d, g, e)
<1> DEFINE r == Job("write", NoMessage, <<>>, <<Write(f, d), Write(g, e)>>)
<1>1. r \in Jobs
  <2>1. f \in Files /\ g \in Files
    BY DEF Files, Paired
  <2>2. <<f, g>> \in {<<"key", "pub">>, <<"com", "state">>, <<"sig", "key">>}
    BY DEF Paired
  <2>3. QED
    BY <2>1, <2>2, WriteJob
<1>2. /\ r.cmd = "write" /\ r.open = FALSE /\ r.writes = <<Write(f, d), Write(g, e)>>
  BY DEF Job
<1>3. PICK j \in Jobs : j = r
  BY <1>1
<1> HIDE DEF r
<1>4. /\ j.cmd = "write" /\ j.open = FALSE /\ j.writes = <<Write(f, d), Write(g, e)>>
  BY <1>2, <1>3
<1>5. /\ Len(j.writes) = 2
      /\ j.writes[1].file = f /\ j.writes[1].data = d
      /\ j.writes[2].file = g /\ j.writes[2].data = e
  BY <1>4 DEF Write
<1>6. QED
  BY <1>3, <1>4, <1>5 DEF r, WritesBoth

\* prove begins to write its proof.
LEMMA ProofJob ==
  ASSUME NEW d \in Data
  PROVE  LET j == Job("write", NoMessage, <<>>, <<Write("proof", d)>>)
         IN  /\ j \in Jobs
             /\ MayWrite(Write("proof", d))' => JobOK(j)'
             /\ j.cmd = "write" /\ Len(j.writes) = 1 /\ j.writes[1].file = "proof"
<1> DEFINE mem == [i \in Files |-> Absent]
           ws == <<Write("proof", d)>>
           j == Job("write", NoMessage, <<>>, ws)
<1>1. mem \in [Files -> Data]
  BY DEF Data
<1>2. /\ <<>> \in Seq(Files) /\ ws \in Seq(Writes)
      /\ NoMessage \in Texts
  BY DEF Texts, Write, Writes, Files
<1>3. j = [cmd |-> "write", msg |-> NoMessage, reads |-> <<>>, mem |-> mem, writes |-> ws,
           open |-> FALSE]
  BY DEF Job
<1>4. Len(ws) = 1 /\ ws[1] = Write("proof", d) /\ ws[1].file = "proof"
  BY DEF Write
<1> HIDE DEF mem, ws, j
<1>5. j \in Jobs
  BY <1>1, <1>2, <1>3 DEF Jobs
<1>6. j.cmd = "write" /\ j.reads = <<>> /\ j.writes = ws /\ j.open = FALSE
  BY <1>3
<1>7. ASSUME MayWrite(Write("proof", d))' PROVE JobOK(j)'
  <2>1. ReadPlan(j)'
    BY <1>6 DEF ReadPlan
  <2>2. WritePlan(j.writes)
    BY <1>4, <1>6 DEF WritePlan
  <2>3. \A i \in 1..Len(j.writes) : MayWrite(j.writes[i])'
    <3>1. \A i \in 1..1 : i = 1
      OBVIOUS
    <3>2. QED
      BY <1>4, <1>6, <1>7, <3>1
  <2>4. QED
    BY <1>6, <2>1, <2>2, <2>3 DEF JobOK
<1>8. QED
  BY <1>4, <1>5, <1>6, <1>7 DEF j, ws

\* Keys and commitments are only added and signatures only released.
Grows ==
    /\ keys' \in {keys, keys + 1}
    /\ msgOf' = msgOf \/ \E m \in Messages : msgOf' = Append(msgOf, m)
    /\ released \subseteq released'

\* What is genuine stays so.
LEMMA GenuineKept ==
  ASSUME ToolTypeOK, Grows
  PROVE  /\ \A f, d : Genuine(f, d) => Genuine(f, d)'
         /\ \A w : MayWrite(w) => MayWrite(w)'
         /\ \A j : JobOK(j) => JobOK(j)'
<1>1. /\ keys \in Nat /\ keys' \in Nat /\ keys' >= keys
      /\ msgOf \in Seq(Texts)
  BY DEF ToolTypeOK, Grows
<1>2. /\ msgOf' \in Seq(Texts)
      /\ Len(msgOf') >= Len(msgOf)
      /\ \A c \in 1..Len(msgOf) : msgOf'[c] = msgOf[c]
  <2>1. CASE msgOf' = msgOf
    BY <1>1, <2>1
  <2>2. ASSUME NEW m \in Messages, msgOf' = Append(msgOf, m)
        PROVE  <1>2!:
    BY <1>1, <2>2 DEF Texts
  <2>3. QED
    BY <2>1, <2>2 DEF Grows
<1>3. 1..keys \subseteq 1..keys' /\ 1..Len(msgOf) \subseteq 1..Len(msgOf')
  BY <1>1, <1>2
<1>4. \A s \in released : s \in released' /\ s.com \in 1..Len(msgOf)
  BY DEF Grows, ToolTypeOK
<1>5. ASSUME NEW f, NEW d, Genuine(f, d) PROVE Genuine(f, d)'
  <2>1. f = "key" => d \in [key : 1..keys', leaf : Nat]
    BY <1>3, <1>5 DEF Genuine
  <2>2. f = "pub" => d \in [key : 1..keys']
    BY <1>3, <1>5 DEF Genuine
  <2>3. f = "com" => d \in [com : 1..Len(msgOf')]
    BY <1>3, <1>5 DEF Genuine
  <2>4. f = "state" => d \in [com : 1..Len(msgOf'), msg : Texts] /\ d.msg = msgOf'[d.com]
    BY <1>2, <1>3, <1>5 DEF Genuine
  <2>5. f = "sig" => d \in released'
    BY <1>4, <1>5 DEF Genuine
  <2>6. f = "proof" => \E s \in released' : s.key = d.key /\ msgOf'[s.com] = d.msg
    BY <1>2, <1>4, <1>5 DEF Genuine
  <2>7. f = "proof" => d \in [key : Nat, msg : Texts, circuit : {"new"}]
    BY <1>5 DEF Genuine
  <2>8. QED
    BY <2>1, <2>2, <2>3, <2>4, <2>5, <2>6, <2>7 DEF Genuine
<1>6. ASSUME NEW w, MayWrite(w) PROVE MayWrite(w)'
  <2>1. CASE w.file = "sig"
    BY <1>3, <1>6, <2>1 DEF MayWrite
  <2>2. CASE w.file # "sig"
    BY <1>5, <1>6, <2>2 DEF MayWrite
  <2>3. QED
    BY <2>1, <2>2
<1>7. ASSUME NEW j, JobOK(j) PROVE JobOK(j)'
  <2>1. ReadPlan(j)'
    BY <1>5, <1>7 DEF JobOK, ReadPlan
  <2>2. \A i \in 1..Len(j.writes) : MayWrite(j.writes[i])'
    BY <1>6, <1>7 DEF JobOK
  <2>3. QED
    BY <1>7, <2>1, <2>2 DEF JobOK
<1>8. QED
  BY <1>5, <1>6, <1>7

\* One process has a new job.
LEMMA NewJobEffect ==
  ASSUME ToolInv, Grows, NEW p \in Procs, NEW j \in Jobs, SetJob(p, j), JobOK(j)'
  PROVE  /\ job' = [job EXCEPT ![p] = j] /\ job' \in [Procs -> Jobs]
         /\ job'[p] = j /\ \A q \in Procs : q # p => job'[q] = job[q]
         /\ \A q \in Procs : JobOK(job[q])'
<1>1. /\ job' = [job EXCEPT ![p] = j] /\ job' \in [Procs -> Jobs]
      /\ job'[p] = j /\ \A q \in Procs : q # p => job'[q] = job[q]
  BY DEF SetJob, ToolInv, ToolTypeOK
<1>2. ASSUME NEW q \in Procs PROVE JobOK(job[q])'
  <2>1. CASE q = p
    BY <1>1, <2>1 DEF JobOK, ReadPlan
  <2>2. CASE q # p
    BY <1>1, <2>2, GenuineKept DEF ToolInv, GenuineInv
  <2>3. QED
    BY <2>1, <2>2
<1>3. QED
  BY <1>1, <1>2

\* What a step of process p has to show: its new job, and what it wrote.
LEMMA StepKeeps ==
  ASSUME ToolInv, Grows, NEW p \in Procs, NEW j \in Jobs, SetJob(p, j), JobOK(j)',
         dir' \in [Files -> Data],
         \A f \in Files : dir'[f] \in {dir[f], Absent, Torn} \/ Genuine(f, dir[f])',
         released' \subseteq released \cup [key : 1..keys, leaf : Nat, com : 1..Len(msgOf)],
         killed' \in BOOLEAN
  PROVE  ToolInv'
<1>1. /\ keys \in Nat /\ keys' \in Nat /\ 1..keys \subseteq 1..keys'
      /\ msgOf' \in Seq(Texts) /\ 1..Len(msgOf) \subseteq 1..Len(msgOf')
  <2>1. keys \in Nat /\ keys' \in {keys, keys + 1} /\ msgOf \in Seq(Texts)
    BY DEF ToolInv, ToolTypeOK, Grows
  <2>2. CASE msgOf' = msgOf
    BY <2>1, <2>2
  <2>3. ASSUME NEW m \in Messages, msgOf' = Append(msgOf, m) PROVE <1>1!:
    BY <2>1, <2>3 DEF Texts
  <2>4. QED
    BY <2>2, <2>3 DEF Grows
<1>2. released' \subseteq [key : 1..keys', leaf : Nat, com : 1..Len(msgOf')]
  BY <1>1 DEF ToolInv, ToolTypeOK
<1>3. job' \in [Procs -> Jobs] /\ \A q \in Procs : JobOK(job[q])'
  BY NewJobEffect
<1>4. ToolTypeOK'
  BY <1>1, <1>2, <1>3 DEF ToolTypeOK
<1>5. ASSUME NEW f \in Files, dir'[f] \notin {Absent, Torn} PROVE Genuine(f, dir[f])'
  <2>1. CASE dir'[f] = dir[f]
    <3>1. Genuine(f, dir[f])
      BY <1>5, <2>1 DEF ToolInv, GenuineInv
    <3>2. \A d : Genuine(f, d) => Genuine(f, d)'
      BY GenuineKept DEF ToolInv
    <3>3. QED
      BY <2>1, <3>1, <3>2 DEF Genuine
  <2>2. CASE dir'[f] # dir[f]
    BY <1>5, <2>2
  <2>3. QED
    BY <2>1, <2>2
<1>6. QED
  BY <1>3, <1>4, <1>5 DEF ToolInv, GenuineInv

\* Nothing of the tool changes but one job.
LEMMA JobKeeps ==
  ASSUME ToolInv, NEW p \in Procs, NEW j \in Jobs, SetJob(p, j), JobOK(j)',
         UNCHANGED <<dir, released, keys, msgOf>>, killed' \in BOOLEAN
  PROVE  ToolInv'
<1>1. Grows
  BY DEF Grows
<1>2. dir' \in [Files -> Data] /\ \A f \in Files : dir'[f] = dir[f]
  BY DEF ToolInv, ToolTypeOK
<1>3. released' \subseteq released \cup [key : 1..keys, leaf : Nat, com : 1..Len(msgOf)]
  OBVIOUS
<1>4. QED
  BY <1>1, <1>2, <1>3, StepKeeps

\* A command that ends.
LEMMA EndStep ==
  ASSUME ToolInv, NEW p \in Procs, SetJob(p, NoJob),
         UNCHANGED <<dir, released, keys, msgOf>>, killed' \in BOOLEAN
  PROVE  ToolInv'
BY IdleJob, JobKeeps

\* A command begins.
LEMMA BeginStep ==
  ASSUME ToolInv, NEW p \in Procs,
         Keygen(p) \/ Sign(p) \/ Prove(p) \/ \E m \in Messages : Commit(p, m) \/ Verify(p, m)
  PROVE  ToolInv'
<1>0. keys \in Nat /\ msgOf \in Seq(Texts) /\ dir \in [Files -> Data] /\ killed \in BOOLEAN
  BY DEF ToolInv, ToolTypeOK
<1>1. ASSUME Keygen(p) PROVE ToolInv'
  <2>0. PICK k \in Nat : k = keys + 1
    BY <1>0
  <2> DEFINE d == SignerKey(k, 0)
             e == SignerPub(k)
             j == Job("write", NoMessage, <<>>, <<Write("key", d), Write("pub", e)>>)
  <2>1. d \in [key : Nat, leaf : Nat] /\ e \in [key : Nat]
    BY <1>0 DEF SignerKey, SignerPub
  <2>2. d \in Data /\ e \in Data
    BY <2>1 DEF Data
  <2>3. keys' = keys + 1 /\ UNCHANGED <<msgOf, dir, released, killed>> /\ SetJob(p, j)
    BY <1>1, <2>0 DEF Keygen, Begin, Writing
  <2>4. d \in [key : 1..keys', leaf : Nat] /\ e \in [key : 1..keys']
    BY <1>0, <2>0, <2>3 DEF SignerKey, SignerPub
  <2>5. MayWrite(Write("key", d))' /\ MayWrite(Write("pub", e))'
    <3> HIDE DEF d, e
    <3>1. QED
      BY <2>4 DEF MayWrite, Write, Genuine
  <2>6. "key" \in Files /\ "pub" \in Files
    BY DEF Files
  <2> HIDE DEF d, e
  <2>7. j \in Jobs /\ JobOK(j)'
    BY <2>2, <2>5, <2>6, WriteJob
  <2>8. Grows
    BY <2>3 DEF Grows
  <2> HIDE DEF j
  <2>9. QED
    BY <1>0, <2>3, <2>7, <2>8, StepKeeps
<1>2. ASSUME NEW m \in Messages, Commit(p, m) PROVE ToolInv'
  <2>0. PICK c \in Nat : c = Len(msgOf) + 1
    BY <1>0
  <2> DEFINE d == Commitment(c)
             e == UserState(c, m)
             j == Job("write", NoMessage, <<>>, <<Write("com", d), Write("state", e)>>)
  <2>1. c \in Nat /\ m \in Texts
    BY <1>0 DEF Texts
  <2>2. d \in Data /\ e \in Data
    <3>1. d \in [com : Nat] /\ e \in [com : Nat, msg : Texts]
      BY <2>1 DEF Commitment, UserState
    <3>2. QED
      BY <3>1 DEF Data
  <2>3. msgOf' = Append(msgOf, m) /\ UNCHANGED <<keys, dir, released, killed>> /\ SetJob(p, j)
    BY <1>2, <2>0 DEF Commit, Begin, Writing
  <2>4. c \in 1..Len(msgOf') /\ msgOf'[c] = m
    BY <1>0, <2>0, <2>1, <2>3
  <2>5. /\ d \in [com : 1..Len(msgOf')]
        /\ e \in [com : 1..Len(msgOf'), msg : Texts] /\ e.msg = msgOf'[e.com]
    BY <2>1, <2>4 DEF Commitment, UserState
  <2>6. MayWrite(Write("com", d))' /\ MayWrite(Write("state", e))'
    <3> HIDE DEF d, e
    <3>1. QED
      BY <2>5 DEF MayWrite, Write, Genuine
  <2>7. "com" \in Files /\ "state" \in Files
    BY DEF Files
  <2> HIDE DEF d, e
  <2>8. j \in Jobs /\ JobOK(j)'
    BY <2>2, <2>6, <2>7, WriteJob
  <2>9. Grows
    BY <2>3 DEF Grows
  <2> HIDE DEF j
  <2>10. QED
    BY <1>0, <2>3, <2>8, <2>9, StepKeeps
<1>3. ASSUME NEW cmd, NEW m \in Texts, NEW rs,
             <<cmd, rs>> \in {<<"sign", <<"key", "com">>>>, <<"prove", <<"state", "pub", "sig">>>>,
                              <<"verify", <<"proof", "pub">>>>},
             SetJob(p, Job(cmd, m, rs, <<>>)), UNCHANGED <<dir, released, killed, msgOf, keys>>
      PROVE  ToolInv'
  <2>1. Job(cmd, m, rs, <<>>) \in Jobs /\ JobOK(Job(cmd, m, rs, <<>>))'
    BY <1>3, ReadJob
  <2>2. QED
    BY <1>0, <1>3, <2>1, JobKeeps
<1>4. NoMessage \in Texts /\ Messages \subseteq Texts
  BY DEF Texts
<1>5. Sign(p) => ToolInv'
  BY <1>3, <1>4 DEF Sign, Begin
<1>6. Prove(p) => ToolInv'
  BY <1>3, <1>4 DEF Prove, Begin
<1>7. \A m \in Messages : Verify(p, m) => ToolInv'
  BY <1>3, <1>4 DEF Verify, Begin
<1>8. QED
  BY <1>1, <1>2, <1>5, <1>6, <1>7

\* A list of two entries.
LEMMA TwoEntries ==
  ASSUME NEW S, NEW s \in Seq(S), Len(s) = 2
  PROVE  Tail(s) = <<s[2]>> /\ s[2] \in S /\ <<s[2]>> \in Seq(S) /\ Head(s) = s[1]
<1>1. Tail(s) \in Seq(S) /\ Len(Tail(s)) = 1 /\ Tail(s)[1] = s[2] /\ s[2] \in S
  OBVIOUS
<1>2. <<s[2]>> \in Seq(S) /\ Len(<<s[2]>>) = 1 /\ <<s[2]>>[1] = s[2]
  BY <1>1
<1>3. \A i \in 1..1 : i = 1
  OBVIOUS
<1> DEFINE t == Tail(s)
           u == <<s[2]>>
<1>4. t \in Seq(S) /\ u \in Seq(S) /\ Len(t) = 1 /\ Len(u) = 1 /\ \A i \in 1..1 : t[i] = u[i]
  BY <1>1, <1>2, <1>3
<1>5. t = u
  <2> HIDE DEF t, u
  <2>1. QED
    BY <1>4, SeqEqual
<1>6. Head(s) = s[1]
  OBVIOUS
<1>7. QED
  BY <1>1, <1>2, <1>5, <1>6

\* What a read changes of a job.
LEMMA ReadChanges ==
  ASSUME NEW j \in Jobs, NEW f \in Files, NEW d \in Data, Tail(j.reads) \in Seq(Files)
  PROVE  LET r == [j EXCEPT !.reads = Tail(@), !.mem[f] = d]
         IN  /\ r \in Jobs
             /\ r.cmd = j.cmd /\ r.reads = Tail(j.reads) /\ r.writes = j.writes
             /\ r.open = j.open
             /\ \A g \in Files : r.mem[g] = IF g = f THEN d ELSE j.mem[g]
<1> DEFINE q == [j EXCEPT !.reads = Tail(@)]
           r == [j EXCEPT !.reads = Tail(@), !.mem[f] = d]
<1>1. q \in Jobs
  BY DEF Jobs
<1>2. /\ q.cmd = j.cmd /\ q.reads = Tail(j.reads) /\ q.mem = j.mem /\ q.writes = j.writes
      /\ q.open = j.open
  BY DEF Jobs
<1>3. r = [q EXCEPT !.mem[f] = d]
  OBVIOUS
<1> HIDE DEF q, r
<1>4. r \in Jobs
  BY <1>1, <1>3 DEF Jobs
<1>5. /\ r.cmd = q.cmd /\ r.reads = q.reads /\ r.writes = q.writes /\ r.open = q.open
      /\ \A g \in Files : r.mem[g] = IF g = f THEN d ELSE q.mem[g]
  BY <1>1, <1>3 DEF Jobs
<1>6. QED
  BY <1>2, <1>4, <1>5 DEF r

\* A command reads its next file.
LEMMA ReadFileStep ==
  ASSUME ToolInv, NEW p \in Procs, ReadFile(p)
  PROVE  ToolInv'
<1> DEFINE f == Head(job[p].reads)
           r == [job[p] EXCEPT !.reads = Tail(@), !.mem[f] = dir[f]]
<1>1. /\ job[p] \in Jobs /\ JobOK(job[p]) /\ dir \in [Files -> Data] /\ killed \in BOOLEAN
      /\ \A g \in Files : dir[g] \notin {Absent, Torn} => Genuine(g, dir[g])
  BY DEF ToolInv, ToolTypeOK, GenuineInv
<1>2. /\ job[p].reads # <<>> /\ Readable(f) /\ SetJob(p, r)
      /\ UNCHANGED <<dir, released, keys, msgOf, killed>>
  BY DEF ReadFile, Reading
<1>3. job[p].reads \in Seq(Files)
  BY <1>1 DEF Jobs
<1>4. f \in Files /\ Tail(job[p].reads) \in Seq(Files) /\ dir[f] \in Data
  BY <1>1, <1>2, <1>3
<1> HIDE DEF f
<1>5. PICK d \in Data : d = dir[f]
  BY <1>4
<1>6. /\ r \in Jobs
      /\ r.cmd = job[p].cmd /\ r.reads = Tail(job[p].reads) /\ r.writes = job[p].writes
      /\ r.open = job[p].open
      /\ \A g \in Files : r.mem[g] = IF g = f THEN dir[f] ELSE job[p].mem[g]
  BY <1>1, <1>4, <1>5, ReadChanges, ZenonT(40)
<1> HIDE DEF r
<1>9. /\ f # "proof" => Genuine(f, dir[f])
      /\ f = "proof" => dir[f] = Torn \/ Genuine(f, dir[f])
  BY <1>1, <1>2, <1>4 DEF Readable
<1>10. /\ "key" \in Files /\ "com" \in Files /\ "state" \in Files /\ "pub" \in Files
       /\ "sig" \in Files /\ "proof" \in Files
  BY DEF Files
<1>11. ReadPlan(r)
  <2>1. ReadPlan(job[p])
    BY <1>1 DEF JobOK
  <2>2. CASE job[p].cmd \in {"none", "write"}
    BY <1>2, <2>1, <2>2 DEF ReadPlan
  <2>3. CASE job[p].cmd = "sign"
    <3>1. CASE job[p].reads = <<"key", "com">>
      BY <1>6, <1>9, <1>10, <2>3, <3>1, ReadLists DEF ReadPlan, f
    <3>2. CASE job[p].reads = <<"com">>
      BY <1>6, <1>9, <1>10, <2>1, <2>3, <3>2, ReadLists DEF ReadPlan, f
    <3>3. QED
      BY <1>2, <2>1, <2>3, <3>1, <3>2 DEF ReadPlan
  <2>4. CASE job[p].cmd = "prove"
    <3>1. CASE job[p].reads = <<"state", "pub", "sig">>
      BY <1>6, <1>9, <1>10, <2>4, <3>1, ReadLists DEF ReadPlan, f
    <3>2. CASE job[p].reads = <<"pub", "sig">>
      BY <1>6, <1>9, <1>10, <2>1, <2>4, <3>2, ReadLists DEF ReadPlan, f
    <3>3. CASE job[p].reads = <<"sig">>
      BY <1>6, <1>9, <1>10, <2>1, <2>4, <3>3, ReadLists DEF ReadPlan, f
    <3>4. QED
      BY <1>2, <2>1, <2>4, <3>1, <3>2, <3>3 DEF ReadPlan
  <2>5. CASE job[p].cmd = "verify"
    <3>1. CASE job[p].reads = <<"proof", "pub">>
      BY <1>6, <1>9, <1>10, <2>5, <3>1, ReadLists DEF ReadPlan, f
    <3>2. CASE job[p].reads = <<"pub">>
      BY <1>6, <1>9, <1>10, <2>1, <2>5, <3>2, ReadLists DEF ReadPlan, f
    <3>3. QED
      BY <1>2, <2>1, <2>5, <3>1, <3>2 DEF ReadPlan
  <2>6. job[p].cmd \in {"none", "sign", "prove", "verify", "write"}
    BY <1>1 DEF Jobs
  <2>7. QED
    BY <2>2, <2>3, <2>4, <2>5, <2>6
<1>12. JobOK(r)
  BY <1>1, <1>6, <1>11 DEF JobOK
<1>13. PICK j \in Jobs : j = r
  BY <1>6
<1>14. Grows
  BY <1>2 DEF Grows
<1>15. JobOK(j) => JobOK(j)'
  BY <1>14, GenuineKept DEF ToolInv
<1>16. QED
  BY <1>1, <1>2, <1>12, <1>13, <1>15, JobKeeps

\* A file cannot be read, the key has no leaf left, the signature does not fit,
\* or verify has its verdict.
LEMMA LeaveStep ==
  ASSUME ToolInv, NEW p \in Procs,
         ReadFails(p) \/ SignerExhausted(p) \/ ProveRefused(p) \/ VerifyBlindSig(p)
           \/ KillCommand(p)
  PROVE  ToolInv'
<1>1. killed \in BOOLEAN
  BY DEF ToolInv, ToolTypeOK
<1>2. /\ SetJob(p, NoJob) /\ UNCHANGED <<dir, released, keys, msgOf>>
      /\ killed' = killed \/ killed' = TRUE
  BY DEF ReadFails, Reading, SignerExhausted, ProveRefused, VerifyBlindSig, Ready, KillCommand
<1>3. QED
  BY <1>1, <1>2, EndStep

\* sign has computed its signature.
LEMMA SignerSignStep ==
  ASSUME ToolInv, NEW p \in Procs, SignerSign(p)
  PROVE  ToolInv'
<1> DEFINE key == job[p].mem["key"]
           com == job[p].mem["com"].com
<1>1. /\ JobOK(job[p]) /\ killed \in BOOLEAN /\ keys \in Nat
      /\ job[p].cmd = "sign" /\ job[p].reads = <<>>
  BY DEF ToolInv, ToolTypeOK, GenuineInv, SignerSign, Ready
<1>2. key \in [key : 1..keys, leaf : Nat] /\ com \in 1..Len(msgOf)
  BY <1>1, ReadLists DEF JobOK, ReadPlan, Genuine
<1>3. msgOf \in Seq(Texts)
  BY DEF ToolInv, ToolTypeOK
<1>4. PICK k \in Nat, l \in Nat, c \in Nat : k = key.key /\ l = key.leaf /\ c = com
  BY <1>1, <1>2, <1>3
<1> DEFINE d == XmssSig(k, l, c)
           e == SignerKey(k, l + 1)
           j == Job("write", NoMessage, <<>>, <<Write("sig", d), Write("key", e)>>)
<1>5. SetJob(p, j) /\ UNCHANGED <<dir, released, keys, msgOf, killed>>
  BY <1>4 DEF SignerSign, Ready, Writing
<1> HIDE DEF key, com
<1>6. d \in [key : 1..keys', leaf : Nat, com : 1..Len(msgOf')] /\ e \in [key : 1..keys', leaf : Nat]
  BY <1>2, <1>4, <1>5 DEF XmssSig, SignerKey
<1>7. d \in Data /\ e \in Data
  <2>1. d \in [key : Nat, leaf : Nat, com : Nat] /\ e \in [key : Nat, leaf : Nat]
    BY <1>4 DEF XmssSig, SignerKey
  <2>2. QED
    BY <2>1 DEF Data
<1> HIDE DEF d, e
<1>8. MayWrite(Write("sig", d))' /\ MayWrite(Write("key", e))'
  BY <1>6 DEF MayWrite, Write, Genuine
<1>9. "sig" \in Files /\ "key" \in Files
  BY DEF Files
<1>10. j \in Jobs /\ JobOK(j)'
  BY <1>7, <1>8, <1>9, WriteJob
<1> HIDE DEF j
<1>11. QED
  BY <1>1, <1>5, <1>10, JobKeeps

\* prove has computed its proof, from a signature that the signer released.
LEMMA UserProveStep ==
  ASSUME ToolInv, CacheInv, NEW p \in Procs, UserProve(p)
  PROVE  ToolInv'
<1> DEFINE pub == job[p].mem["pub"]
           state == job[p].mem["state"]
           sig == job[p].mem["sig"]
<1>1. /\ JobOK(job[p]) /\ killed \in BOOLEAN /\ keys \in Nat
      /\ job[p].cmd = "prove" /\ job[p].reads = <<>>
  BY DEF ToolInv, ToolTypeOK, GenuineInv, UserProve, Ready
<1>2. Genuine("state", state) /\ Genuine("pub", pub) /\ Genuine("sig", sig)
  BY <1>1, ReadLists DEF JobOK, ReadPlan
<1>3. sig.com = state.com /\ sig.key = pub.key /\ got[p] = "new"
  BY DEF UserProve, SignatureFits, CacheInv, CacheTypeOK
<1>4. PICK k \in Nat, m \in Texts : k = pub.key /\ m = state.msg
  BY <1>1, <1>2 DEF Genuine
<1> DEFINE d == [key |-> k, msg |-> m, circuit |-> "new"]
           j == Job("write", NoMessage, <<>>, <<Write("proof", d)>>)
<1>5. SetJob(p, j) /\ UNCHANGED <<dir, released, keys, msgOf, killed>>
  BY <1>3, <1>4 DEF UserProve, Ready, Writing
<1> HIDE DEF pub, state, sig
<1>6. d \in [key : Nat, msg : Texts, circuit : {"new"}] /\ d.key = k /\ d.msg = m
  OBVIOUS
<1>7. d \in Data
  BY <1>6 DEF Data
<1>8. sig \in released' /\ sig.key = k /\ msgOf'[sig.com] = m
  BY <1>2, <1>3, <1>4, <1>5 DEF Genuine
<1> HIDE DEF d
<1>9. MayWrite(Write("proof", d))'
  BY <1>6, <1>8 DEF MayWrite, Write, Genuine
<1>10. j \in Jobs /\ JobOK(j)'
  BY <1>7, <1>9, ProofJob
<1> HIDE DEF j
<1>11. QED
  BY <1>1, <1>5, <1>10, JobKeeps

\* A file is truncated.
LEMMA TruncateStep ==
  ASSUME ToolInv, NEW p \in Procs, Truncate(p)
  PROVE  ToolInv'
<1> DEFINE r == [job[p] EXCEPT !.open = TRUE]
           f == Head(job[p].writes).file
<1>1. /\ job[p] \in Jobs /\ JobOK(job[p]) /\ dir \in [Files -> Data] /\ killed \in BOOLEAN
  BY DEF ToolInv, ToolTypeOK, GenuineInv
<1>2. /\ job[p].writes # <<>> /\ SetJob(p, r) /\ dir' = [dir EXCEPT ![f] = Torn]
      /\ UNCHANGED <<released, keys, msgOf, killed>>
  BY DEF Truncate
<1>3. r \in Jobs /\ r.cmd = job[p].cmd /\ r.reads = job[p].reads /\ r.writes = job[p].writes
      /\ r.mem = job[p].mem
  BY <1>1 DEF Jobs
<1>4. JobOK(r)
  BY <1>1, <1>2, <1>3 DEF JobOK, ReadPlan
<1> HIDE DEF r
<1>5. PICK j \in Jobs : j = r
  BY <1>3
<1>6. Grows
  BY <1>2 DEF Grows
<1>7. JobOK(j) => JobOK(j)'
  BY <1>6, GenuineKept DEF ToolInv
<1>8. dir' \in [Files -> Data] /\ \A g \in Files : dir'[g] \in {dir[g], Absent, Torn}
  BY <1>1, <1>2 DEF Data
<1>9. released' \subseteq released \cup [key : 1..keys, leaf : Nat, com : 1..Len(msgOf)]
  BY <1>2
<1>10. QED
  BY <1>1, <1>2, <1>4, <1>5, <1>6, <1>7, <1>8, <1>9, StepKeeps

\* What is left of a job when write_file has returned.
Rest(j) ==
    IF Len(j.writes) = 1 THEN NoJob ELSE [j EXCEPT !.writes = Tail(@), !.open = FALSE]

\* It is a list of the same plan, without its first entry.
LEMMA RestOfJob ==
  ASSUME NEW j \in Jobs, JobOK(j), j.writes # <<>>
  PROVE  /\ Rest(j) \in Jobs /\ JobOK(Rest(j))
         /\ Len(j.writes) = 1 => Rest(j) = NoJob
         /\ Len(j.writes) = 2 =>
               /\ Rest(j).writes = <<j.writes[2]>> /\ Rest(j).open = FALSE
               /\ Rest(j).cmd = "write"
         /\ Len(j.writes) \in {1, 2}
<1>1. /\ Len(j.writes) \in {1, 2} /\ WritePlan(j.writes) /\ j.cmd = "write"
      /\ j.writes \in Seq(Writes)
  BY DEF JobOK, WritePlan, Jobs
<1>2. CASE Len(j.writes) = 1
  BY <1>1, <1>2, IdleJob DEF Rest
<1>3. CASE Len(j.writes) = 2
  <2>1. Tail(j.writes) = <<j.writes[2]>>
    BY <1>1, <1>3, TwoEntries
  <2>2. Tail(j.writes) \in Seq(Writes)
    BY <1>1, <1>3
  <2>3. Rest(j) = [j EXCEPT !.writes = Tail(j.writes), !.open = FALSE]
    BY <1>3 DEF Rest
  <2>4. /\ Rest(j) \in Jobs /\ Rest(j).cmd = "write" /\ Rest(j).reads = j.reads
        /\ Rest(j).writes = <<j.writes[2]>> /\ Rest(j).open = FALSE
    <3> HIDE DEF Rest
    <3>1. /\ Rest(j) \in Jobs /\ Rest(j).cmd = j.cmd /\ Rest(j).reads = j.reads
          /\ Rest(j).writes = Tail(j.writes) /\ Rest(j).open = FALSE
      BY <2>2, <2>3 DEF Jobs
    <3>2. QED
      BY <1>1, <2>1, <3>1
  <2>5. ReadPlan(Rest(j))
    BY <1>1, <2>4 DEF JobOK, ReadPlan
  <2>6. WritePlan(<<j.writes[2]>>)
    <3>1. j.writes[2].file \in {"pub", "state", "key"}
      BY <1>1, <1>3 DEF WritePlan
    <3>2. QED
      BY <3>1 DEF WritePlan
  <2>7. \A i \in 1..Len(Rest(j).writes) : MayWrite(Rest(j).writes[i])
    <3>1. MayWrite(j.writes[2])
      BY <1>3 DEF JobOK
    <3>2. Len(Rest(j).writes) = 1 /\ Rest(j).writes[1] = j.writes[2] /\ \A i \in 1..1 : i = 1
      BY <2>4
    <3>3. QED
      BY <3>1, <3>2
  <2>8. QED
    BY <1>3, <2>4, <2>5, <2>6, <2>7 DEF JobOK
<1>4. QED
  BY <1>1, <1>2, <1>3

\* A file is filled, by this process alone or with what another left.
LEMMA FillStep ==
  ASSUME ToolInv, NEW p \in Procs, Fill(p)
  PROVE  ToolInv'
<1> DEFINE w == Head(job[p].writes)
<1>1. /\ job[p] \in Jobs /\ JobOK(job[p]) /\ dir \in [Files -> Data] /\ killed \in BOOLEAN
      /\ job[p].open
  BY DEF ToolInv, ToolTypeOK, GenuineInv, Fill
<1>2. job[p].writes # <<>> /\ job[p].writes \in Seq(Writes)
  BY <1>1 DEF JobOK, Jobs
<1>3. w = job[p].writes[1] /\ w \in Writes /\ MayWrite(w)
  <2>1. 1 \in 1..Len(job[p].writes) /\ w = job[p].writes[1]
    BY <1>2
  <2>2. w \in Writes
    BY <1>2, <2>1, ElementOfSeq
  <2>3. QED
    BY <1>1, <2>1, <2>2 DEF JobOK
<1>4. Rest(job[p]) \in Jobs /\ JobOK(Rest(job[p]))
  BY <1>1, <1>2, RestOfJob
<1>5. SetJob(p, Rest(job[p])) /\ UNCHANGED <<keys, msgOf, killed>>
  BY DEF Fill, Written, Rest
<1>6. PICK left \in {w.data, Torn} : dir' = [dir EXCEPT ![w.file] = left]
  BY DEF Fill
<1>7. released' = released \cup (IF w.file = "sig" THEN {w.data} ELSE {})
  BY DEF Fill
<1> HIDE DEF w
<1>8. Grows
  BY <1>5, <1>7 DEF Grows
<1>9. PICK j \in Jobs : j = Rest(job[p])
  BY <1>4
<1>10. JobOK(j) => JobOK(j)'
  BY <1>8, GenuineKept DEF ToolInv
<1>11. dir' \in [Files -> Data]
  <2>1. Torn \in Data
    BY DEF Data
  <2>2. left \in Data
    BY <1>3, <1>6, <2>1 DEF Writes
  <2>3. QED
    BY <1>1, <1>6, <2>2
<1>12. ASSUME NEW f \in Files PROVE dir'[f] \in {dir[f], Absent, Torn} \/ Genuine(f, dir[f])'
  <2>1. CASE f # w.file \/ left = Torn
    BY <1>1, <1>3, <1>6, <2>1
  <2>2. CASE f = w.file /\ left = w.data /\ f = "sig"
    BY <1>1, <1>3, <1>6, <1>7, <2>2 DEF Genuine
  <2>3. CASE f = w.file /\ left = w.data /\ f # "sig"
    <3>1. PICK d : d = w.data
      OBVIOUS
    <3>2. Genuine(f, d)
      BY <1>3, <2>3, <3>1 DEF MayWrite
    <3>3. Genuine(f, d)'
      BY <1>8, <3>2, GenuineKept DEF ToolInv
    <3>4. dir'[f] = d
      BY <1>1, <1>3, <1>6, <2>3, <3>1
    <3>5. QED
      BY <3>3, <3>4 DEF Genuine
  <2>4. QED
    BY <1>6, <2>1, <2>2, <2>3
<1>13. released' \subseteq released \cup [key : 1..keys, leaf : Nat, com : 1..Len(msgOf)]
  BY <1>3, <1>7 DEF MayWrite
<1>14. QED
  BY <1>1, <1>4, <1>5, <1>8, <1>9, <1>10, <1>11, <1>12, <1>13, StepKeeps

\* A full disk leaves the file torn; the command ends or goes on.
LEMMA DiskFullStep ==
  ASSUME ToolInv, NEW p \in Procs, DiskFull(p)
  PROVE  ToolInv'
<1>1. /\ job[p] \in Jobs /\ JobOK(job[p]) /\ killed \in BOOLEAN /\ job[p].open
      /\ UNCHANGED <<dir, keys, msgOf, killed, released>>
  BY DEF ToolInv, ToolTypeOK, GenuineInv, DiskFull
<1>2. SetJob(p, NoJob) \/ SetJob(p, Rest(job[p]))
  BY DEF DiskFull, Written, Rest
<1>3. Rest(job[p]) \in Jobs /\ JobOK(Rest(job[p]))
  BY <1>1, RestOfJob DEF JobOK
<1>4. PICK j \in Jobs : j = Rest(job[p])
  BY <1>3
<1>5. JobOK(j) => JobOK(j)'
  BY <1>1, GenuineKept DEF ToolInv, Grows
<1>6. QED
  BY <1>1, <1>2, <1>3, <1>4, <1>5, JobKeeps, EndStep

-----------------------------------------------------------------------------
(* The invariant                                                           *)

\* Every step of the tool is one of the cache, or leaves it alone.
LEMMA CacheInvNext ==
  ASSUME CacheInv, [ToolNext]_allVars
  PROVE  CacheInv'
<1>1. ASSUME UNCHANGED cacheVars PROVE CacheInv'
  BY <1>1 DEF CacheInv, CacheTypeOK, Untouched, Rewritten, cacheVars
<1>2. ASSUME NEW p \in Procs,
             \/ OpenCircuit(p) \/ CacheStep(p) \/ Leave(p) \/ Return(p) \/ Kill(p)
             \/ UNCHANGED cacheVars
      PROVE  CacheInv'
  BY <1>1, <1>2, OpenCircuitStep, ReadChunkStep, LoadStep, LoadFailsStep, SaveStartStep,
     WriteChunkStep, SaveReturnStep, ReturnStep, KillStep
  DEF CacheStep, Leave
<1>3. ASSUME NEW p \in Procs, Keygen(p) \/ Sign(p) \/ Prove(p) PROVE CacheInv'
  BY <1>2, <1>3 DEF Keygen, Sign, Prove
<1>4. ASSUME NEW p \in Procs, NEW m \in Messages, Commit(p, m) \/ Verify(p, m) PROVE CacheInv'
  BY <1>2, <1>4 DEF Commit, Verify
<1>5. ASSUME NEW p \in Procs, Run(p) PROVE CacheInv'
  BY <1>2, <1>5
  DEF Run, ReadFile, ReadFails, SignerSign, SignerExhausted, UserProve, ProveRefused,
      VerifyBlindSig, Truncate, Fill
<1>6. ASSUME NEW p \in Procs, DiskFull(p) \/ KillCommand(p) PROVE CacheInv'
  BY <1>2, <1>6 DEF DiskFull, KillCommand
<1>7. UNCHANGED allVars => UNCHANGED cacheVars
  BY DEF allVars
<1>8. QED
  BY <1>1, <1>3, <1>4, <1>5, <1>6, <1>7 DEF ToolNext

\* At the start the directory is empty, or that of a session that went well.
LEMMA ToolInvInit == ToolInit => ToolInv
<1> SUFFICES ASSUME ToolInit PROVE ToolInv
  OBVIOUS
<1>1. /\ \A p \in Procs : job[p] = NoJob
      /\ job \in [Procs -> Jobs]
  BY IdleJob DEF ToolInit
<1>2. killed \in BOOLEAN
  BY DEF ToolInit
<1>3. \A p \in Procs : JobOK(job[p])
  BY <1>1, IdleJob
<1>4. NoMessage \in Texts
  BY DEF Texts
<1>5. CASE scene.ready
  <2>1. /\ dir = ReadyDirectory /\ msgOf = <<NoMessage>> /\ keys = 1
        /\ released = {XmssSig(1, 0, 1)}
    BY <1>5 DEF ToolInit
  <2>2. msgOf \in Seq(Texts) /\ Len(msgOf) = 1 /\ msgOf[1] = NoMessage /\ 1 \in 1..Len(msgOf)
    BY <1>4, <2>1
  <2>3. /\ dir["key"] \in [key : 1..keys, leaf : Nat]
        /\ dir["pub"] \in [key : 1..keys]
        /\ dir["com"] \in [com : 1..Len(msgOf)]
        /\ dir["state"] \in [com : 1..Len(msgOf), msg : Texts]
        /\ dir["state"].msg = msgOf[dir["state"].com]
        /\ dir["sig"] = XmssSig(1, 0, 1)
        /\ dir["proof"] = [key |-> 1, msg |-> NoMessage, circuit |-> "new"]
    BY <1>4, <2>1, <2>2
    DEF ReadyDirectory, SignerKey, SignerPub, Commitment, UserState
  <2>4. released \subseteq [key : 1..keys, leaf : Nat, com : 1..Len(msgOf)]
    BY <2>1, <2>2 DEF XmssSig
  <2>5. dir["proof"] \in [key : Nat, msg : Texts, circuit : {"new"}]
    BY <1>4, <2>3
  <2>6. Genuine("proof", dir["proof"])
    <3>1. /\ XmssSig(1, 0, 1) \in released /\ XmssSig(1, 0, 1).key = 1
          /\ msgOf[XmssSig(1, 0, 1).com] = NoMessage
      BY <2>1, <2>2 DEF XmssSig
    <3>2. dir["proof"].key = 1 /\ dir["proof"].msg = NoMessage
      BY <2>3
    <3>3. QED
      BY <2>5, <3>1, <3>2 DEF Genuine
  <2>7. \A f \in Files : Genuine(f, dir[f])
    BY <2>1, <2>3, <2>6 DEF Genuine, Files
  <2>8. dir \in [Files -> Data]
    <3>1. dir = [f \in Files |-> dir[f]]
      BY <2>1 DEF ReadyDirectory, Files
    <3>2. dir["key"] \in [key : Nat, leaf : Nat] /\ dir["pub"] \in [key : Nat]
      BY <2>1, <2>3
    <3>3. dir["com"] \in [com : Nat] /\ dir["state"] \in [com : Nat, msg : Texts]
      BY <2>2, <2>3
    <3>4. dir["sig"] \in [key : Nat, leaf : Nat, com : Nat]
      BY <2>3 DEF XmssSig
    <3>5. ASSUME NEW f \in Files PROVE dir[f] \in Data
      BY <2>5, <3>2, <3>3, <3>4 DEF Data, Files
    <3>6. QED
      BY <3>1, <3>5
  <2>9. QED
    BY <1>1, <1>2, <1>3, <2>1, <2>2, <2>4, <2>7, <2>8 DEF ToolInv, ToolTypeOK, GenuineInv
<1>6. CASE ~ scene.ready
  <2>1. dir = [f \in Files |-> Absent] /\ msgOf = <<>> /\ keys = 0 /\ released = {}
    BY <1>6 DEF ToolInit
  <2>2. dir \in [Files -> Data] /\ msgOf \in Seq(Texts)
    BY <2>1 DEF Data
  <2>3. \A f \in Files : dir[f] = Absent
    BY <2>1
  <2>4. QED
    BY <1>1, <1>2, <1>3, <2>1, <2>2, <2>3 DEF ToolInv, ToolTypeOK, GenuineInv
<1>7. QED
  BY <1>5, <1>6

\* Every step keeps what is in the directory and in the jobs genuine.
LEMMA ToolInvNext ==
  ASSUME ToolInv, CacheInv, [ToolNext]_allVars
  PROVE  ToolInv'
<1>1. ASSUME UNCHANGED toolVars PROVE ToolInv'
  <2>1. \A f, d : Genuine(f, d) => Genuine(f, d)'
    BY <1>1 DEF toolVars, Genuine
  <2>2. \A w : MayWrite(w) => MayWrite(w)'
    BY <1>1, <2>1 DEF toolVars, MayWrite
  <2>3. \A j : ReadPlan(j) => ReadPlan(j)'
    BY <1>1, <2>1 DEF ReadPlan
  <2>4. \A j : JobOK(j) => JobOK(j)'
    BY <2>2, <2>3 DEF JobOK
  <2>5. ToolTypeOK'
    BY <1>1 DEF toolVars, ToolInv, ToolTypeOK
  <2>6. GenuineInv'
    BY <1>1, <2>1, <2>4 DEF toolVars, ToolInv, GenuineInv
  <2> QED BY <2>5, <2>6 DEF ToolInv
<1>2. ASSUME NEW p \in Procs,
             Keygen(p) \/ Sign(p) \/ Prove(p) \/ \E m \in Messages : Commit(p, m) \/ Verify(p, m)
      PROVE  ToolInv'
  BY <1>2, BeginStep
<1>3. ASSUME NEW p \in Procs, Run(p) PROVE ToolInv'
  BY <1>1, <1>3, ReadFileStep, LeaveStep, SignerSignStep, UserProveStep, TruncateStep, FillStep
  DEF Run
<1>4. ASSUME NEW p \in Procs, DiskFull(p) \/ KillCommand(p) PROVE ToolInv'
  BY <1>4, DiskFullStep, LeaveStep
<1>5. UNCHANGED allVars => UNCHANGED toolVars
  BY DEF allVars
<1>6. QED
  BY <1>1, <1>2, <1>3, <1>4, <1>5 DEF ToolNext

\* Both invariants hold in every reachable state.
LEMMA Invariance == ToolSpec => [](CacheInv /\ ToolInv)
<1>1. ToolInit => CacheInv /\ ToolInv
  BY CacheInvInit, ToolInvInit DEF ToolInit
<1>2. CacheInv /\ ToolInv /\ [ToolNext]_allVars => (CacheInv /\ ToolInv)'
  BY CacheInvNext, ToolInvNext
<1>3. QED
  BY <1>1, <1>2, PTL DEF ToolSpec

(***************************************************************************)
(* The circuit cache repairs itself, whoever reads, writes and is killed   *)
(* (build_or_load_circuit and save_circuit, which nothing locks): a hit    *)
(* was a whole file that nobody had truncated since, or a rewritten one    *)
(* holds all that the process wrote which truncated it last.               *)
(***************************************************************************)
THEOREM CacheRepairsItself == ToolSpec => []CacheSettles
<1>1. CacheInv => CacheSettles
  BY DEF CacheInv, CacheSettles, Untouched, Rewritten
<1>2. QED
  BY <1>1, Invariance, PTL

(***************************************************************************)
(* cmd_verify tells the truth: both sides have the circuit of this         *)
(* version, whatever the cache held, and a proof that is whole was made    *)
(* from a signature that cmd_sign wrote to xmss_sig.bin on a commitment to *)
(* its message.                                                            *)
(***************************************************************************)
THEOREM VerifyIsTruthful == ToolSpec => []VerdictRight
<1>1. ASSUME CacheInv, ToolInv PROVE VerdictRight
  <2> SUFFICES ASSUME NEW p \in Procs, job[p].cmd = "verify", job[p].reads = <<>>,
                      job[p].mem["proof"] # Torn
               PROVE  LET proof == job[p].mem["proof"]
                          pub == job[p].mem["pub"]
                      IN  /\ Passes(p) <=> proof.key = pub.key /\ proof.msg = job[p].msg
                          /\ Passes(p) => \E s \in released :
                                 s.key = pub.key /\ msgOf[s.com] = job[p].msg
    BY DEF VerdictRight
  <2>1. Genuine("proof", job[p].mem["proof"])
    BY <1>1, ReadLists DEF ToolInv, GenuineInv, JobOK, ReadPlan
  <2>2. /\ job[p].mem["proof"].circuit = "new"
        /\ \E s \in released : /\ s.key = job[p].mem["proof"].key
                               /\ msgOf[s.com] = job[p].mem["proof"].msg
    BY <2>1 DEF Genuine
  <2>3. got[p] = "new"
    BY <1>1 DEF CacheInv, CacheTypeOK
  <2>4. QED
    BY <2>2, <2>3 DEF Passes
<1>2. QED
  BY <1>1, Invariance, PTL

-----------------------------------------------------------------------------
(* Leaves                                                                  *)

\* No signature was released at a leaf of key k from l on.
Fresh(k, l) == \A s \in released : s.key = k => s.leaf < l

\* The keys that a command has read or is to write.
Holds(j) ==
    {j.writes[i].data.key : i \in {n \in 1..Len(j.writes) : j.writes[n].file \in {"key", "sig"}}}
    \cup (IF j.cmd = "sign" /\ j.reads # <<"key", "com">> THEN {j.mem["key"].key} ELSE {})

\* The signer's file is older than what was released: it is written next.
ToBeWritten(j, k) ==
    /\ j.writes # <<>> /\ ~ j.open
    /\ j.writes[1].file = "key" /\ j.writes[1].data.key = k

\* What a command is to sign or to write.
LeafOK(j) ==
    /\ j.cmd = "sign" /\ j.reads # <<"key", "com">> =>
          Fresh(j.mem["key"].key, j.mem["key"].leaf)
    /\ \A i \in 1..Len(j.writes) : j.writes[i].file \in {"key", "sig"} =>
          Fresh(j.writes[i].data.key, j.writes[i].data.leaf)
    /\ Len(j.writes) = 2 /\ j.writes[1].file = "sig" =>
          /\ j.writes[2].data.key = j.writes[1].data.key
          /\ j.writes[2].data.leaf > j.writes[1].data.leaf

Sole(p0) == \A p \in Procs : "sign" \in scene.may[p] => p = p0

\* With p0 as the only process that signs, and nobody killed.
LeafInvOf(p0) ==
    /\ \A p \in Procs : p # p0 => job[p].cmd # "sign"
    /\ \A p \in Procs : p # p0 => \A i \in 1..Len(job[p].writes) : job[p].writes[i].file # "sig"
    /\ \A p \in Procs : LeafOK(job[p])
    /\ \A p, q \in Procs : p # q => Holds(job[p]) \cap Holds(job[q]) = {}
    /\ dir["key"] \notin {Absent, Torn} =>
          /\ Fresh(dir["key"].key, dir["key"].leaf) \/ ToBeWritten(job[p0], dir["key"].key)
          /\ \A q \in Procs \ {p0} : dir["key"].key \notin Holds(job[q])
    /\ \A s, t \in released : s.key = t.key /\ s.leaf = t.leaf => s.com = t.com

LeafInv == \A p0 \in Procs : Sole(p0) /\ ~ killed => LeafInvOf(p0)

\* Known keys only.
LEMMA HoldsKnown ==
  ASSUME ToolInv
  PROVE  /\ \A q \in Procs : Holds(job[q]) \subseteq 1..keys
         /\ dir["key"] \notin {Absent, Torn} =>
               dir["key"].key \in 1..keys /\ dir["key"].leaf \in Nat
         /\ keys \in Nat
         /\ \A s \in released : s.key \in 1..keys /\ s.leaf \in Nat
<1>1. keys \in Nat /\ \A s \in released : s.key \in 1..keys /\ s.leaf \in Nat
  BY DEF ToolInv, ToolTypeOK
<1>2. dir["key"] \notin {Absent, Torn} => dir["key"].key \in 1..keys /\ dir["key"].leaf \in Nat
  <2>1. "key" \in Files
    BY DEF Files
  <2>2. dir["key"] \notin {Absent, Torn} => Genuine("key", dir["key"])
    BY <2>1 DEF ToolInv, GenuineInv
  <2>3. QED
    BY <2>2 DEF Genuine
<1>3. ASSUME NEW q \in Procs, NEW k \in Holds(job[q]) PROVE k \in 1..keys
  <2>1. JobOK(job[q])
    BY DEF ToolInv, GenuineInv
  <2>2. CASE \E i \in 1..Len(job[q].writes) :
                job[q].writes[i].file \in {"key", "sig"} /\ k = job[q].writes[i].data.key
    BY <2>1, <2>2 DEF JobOK, MayWrite, Genuine
  <2>3. CASE job[q].cmd = "sign" /\ job[q].reads # <<"key", "com">> /\ k = job[q].mem["key"].key
    BY <2>1, <2>3 DEF JobOK, ReadPlan, Genuine
  <2>4. QED
    BY <2>2, <2>3 DEF Holds
<1>4. QED
  BY <1>1, <1>2, <1>3

\* What a step that releases nothing has to show.
LEMMA LeafKeeps ==
  ASSUME ToolInv, NEW p0 \in Procs, LeafInvOf(p0),
         NEW p \in Procs, NEW j \in Jobs, SetJob(p, j), UNCHANGED released,
         LeafOK(j),
         p # p0 => j.cmd # "sign" /\ \A i \in 1..Len(j.writes) : j.writes[i].file # "sig",
         \A q \in Procs : q # p => Holds(j) \cap Holds(job[q]) = {},
         dir'["key"] = dir["key"] \/ dir'["key"] \in {Absent, Torn},
         dir'["key"] \notin {Absent, Torn} =>
            /\ p = p0 => ~ ToBeWritten(job[p0], dir["key"].key)
            /\ p # p0 => dir["key"].key \notin Holds(j)
  PROVE  LeafInvOf(p0)'
<1>1. job'[p] = j /\ \A q \in Procs : q # p => job'[q] = job[q]
  BY DEF SetJob, ToolInv, ToolTypeOK
<1>2. \A q \in Procs : q # p0 =>
         /\ job'[q].cmd # "sign"
         /\ \A i \in 1..Len(job'[q].writes) : job'[q].writes[i].file # "sig"
  BY <1>1 DEF LeafInvOf
<1>3. ASSUME NEW q \in Procs PROVE LeafOK(job[q])'
  <2>1. PICK r : r = job'[q]
    OBVIOUS
  <2>2. LeafOK(r)
    BY <1>1, <2>1 DEF LeafInvOf
  <2>3. LeafOK(r)'
    BY <2>2 DEF LeafOK, Fresh
  <2>4. QED
    BY <2>1, <2>3 DEF LeafOK, Fresh
<1>4. \A q, r \in Procs : q # r => Holds(job'[q]) \cap Holds(job'[r]) = {}
  BY <1>1 DEF LeafInvOf
<1>5. ASSUME dir'["key"] \notin {Absent, Torn}
      PROVE  /\ Fresh(dir["key"].key, dir["key"].leaf)' \/ ToBeWritten(job'[p0], dir'["key"].key)
             /\ \A q \in Procs \ {p0} : dir'["key"].key \notin Holds(job'[q])
  <2>1. dir'["key"] = dir["key"]
    BY <1>5
  <2>2. \/ Fresh(dir["key"].key, dir["key"].leaf)
        \/ p # p0 /\ ToBeWritten(job[p0], dir["key"].key)
    BY <1>5, <2>1 DEF LeafInvOf
  <2>3. \A q \in Procs \ {p0} : dir["key"].key \notin Holds(job[q])
    BY <1>5, <2>1 DEF LeafInvOf
  <2>4. \A q \in Procs \ {p0} : dir'["key"].key \notin Holds(job'[q])
    BY <1>1, <1>5, <2>1, <2>3
  <2>5. Fresh(dir["key"].key, dir["key"].leaf)' \/ ToBeWritten(job'[p0], dir'["key"].key)
    BY <1>1, <2>1, <2>2 DEF Fresh
  <2>6. QED
    BY <2>4, <2>5
<1>6. \A s, t \in released' : s.key = t.key /\ s.leaf = t.leaf => s.com = t.com
  BY DEF LeafInvOf
<1>7. QED
  BY <1>2, <1>3, <1>4, <1>5, <1>6 DEF LeafInvOf, Holds, ToBeWritten

\* A command that neither has read a key nor is to write one.
LEMMA HarmlessJob ==
  ASSUME NEW j, j.cmd = "sign" => j.reads = <<"key", "com">>,
         \A i \in 1..Len(j.writes) : j.writes[i].file \notin {"key", "sig"}
  PROVE  LeafOK(j) /\ Holds(j) = {}
<1>1. Holds(j) = {}
  BY DEF Holds
<1>2. LeafOK(j)
  <2>1. Len(j.writes) = 2 => 1 \in 1..Len(j.writes)
    OBVIOUS
  <2>2. QED
    BY <2>1 DEF LeafOK
<1>3. QED
  BY <1>1, <1>2

\* A command that has not come to its writes takes a harmless job.
LEMMA HarmlessStep ==
  ASSUME ToolInv, NEW p0 \in Procs, LeafInvOf(p0), NEW p \in Procs, NEW j \in Jobs,
         SetJob(p, j), UNCHANGED <<released, dir>>,
         job[p].writes = <<>> \/ job[p].open,
         p # p0 => j.cmd # "sign",
         j.cmd = "sign" => j.reads = <<"key", "com">>,
         \A i \in 1..Len(j.writes) : j.writes[i].file \notin {"key", "sig"}
  PROVE  LeafInvOf(p0)'
<1>1. LeafOK(j) /\ Holds(j) = {}
  BY HarmlessJob
<1>2. \A k : ~ ToBeWritten(job[p], k)
  BY DEF ToBeWritten
<1>3. dir'["key"] = dir["key"]
  OBVIOUS
<1>4. QED
  BY <1>1, <1>2, <1>3, LeafKeeps

\* A command begins: keygen's key is one that nobody has, and only p0 signs.
LEMMA LeafBegin ==
  ASSUME ToolInv, NEW p0 \in Procs, LeafInvOf(p0), Sole(p0), NEW p \in Procs,
         Keygen(p) \/ Sign(p) \/ Prove(p) \/ \E m \in Messages : Commit(p, m) \/ Verify(p, m)
  PROVE  LeafInvOf(p0)'
<1>1. job[p].cmd = "none" /\ job[p].writes = <<>> /\ UNCHANGED <<released, dir>>
  <2>1. job[p].cmd = "none" /\ UNCHANGED <<released, dir>>
    BY DEF Keygen, Sign, Prove, Commit, Verify, Begin
  <2>2. QED
    BY <2>1 DEF ToolInv, GenuineInv, JobOK
<1>2. /\ "key" \in Files /\ "pub" \in Files /\ "com" \in Files /\ "state" \in Files
      /\ NoMessage \in Texts /\ Messages \subseteq Texts
      /\ msgOf \in Seq(Texts)
  BY DEF Files, Texts, ToolInv, ToolTypeOK
<1>3. ASSUME Keygen(p) PROVE LeafInvOf(p0)'
  <2>1. PICK k \in Nat : k = keys + 1
    BY HoldsKnown
  <2> DEFINE d == SignerKey(k, 0)
             e == SignerPub(k)
  <2>2. d \in Data /\ e \in Data
    <3>1. d \in [key : Nat, leaf : Nat] /\ e \in [key : Nat]
      BY DEF SignerKey, SignerPub
    <3>2. QED
      BY <3>1 DEF Data
  <2>3. SetJob(p, Job("write", NoMessage, <<>>, <<Write("key", d), Write("pub", e)>>))
    BY <1>3, <2>1 DEF Keygen, Writing
  <2>4. d.key = k /\ d.leaf = 0
    BY DEF SignerKey
  <2> HIDE DEF d, e
  <2>5. PICK j \in Jobs : WritesBoth(j, "key", d, "pub", e)
    <3>1. Paired("key", "pub")
      BY DEF Paired
    <3>2. QED
      BY <2>2, <3>1, WriteForm
  <2>6. /\ \A i \in 1..2 : i = 1 \/ i = 2
        /\ SetJob(p, j) /\ j.cmd = "write" /\ Len(j.writes) = 2
        /\ j.writes[1].file = "key" /\ j.writes[1].data = d /\ j.writes[2].file = "pub"
    BY <2>3, <2>5 DEF WritesBoth
  <2>7. Fresh(k, 0)
    BY <2>1, HoldsKnown DEF Fresh
  <2>8. LeafOK(j)
    BY <2>4, <2>6, <2>7 DEF LeafOK
  <2>9. Holds(j) \subseteq {k}
    <3>1. \A i \in 1..Len(j.writes) : j.writes[i].file \in {"key", "sig"} => j.writes[i].data.key = k
      BY <2>4, <2>6
    <3>2. ASSUME NEW x \in Holds(j) PROVE x = k
      <4>1. PICK i \in 1..Len(j.writes) :
               j.writes[i].file \in {"key", "sig"} /\ x = j.writes[i].data.key
        <5>1. j.cmd # "sign"
          BY <2>6
        <5>2. QED
          BY <3>2, <5>1 DEF Holds
      <4>2. QED
        BY <3>1, <4>1
    <3>3. QED
      BY <3>2
  <2>10. \A q \in Procs : Holds(j) \cap Holds(job[q]) = {}
    <3>1. k \notin 1..keys /\ \A q \in Procs : Holds(job[q]) \subseteq 1..keys
      BY <2>1, HoldsKnown
    <3>2. QED
      BY <2>9, <3>1
  <2>11. dir["key"] \notin {Absent, Torn} => dir["key"].key \notin Holds(j)
    BY <2>1, <2>9, HoldsKnown
  <2>12. \A i \in 1..Len(j.writes) : j.writes[i].file # "sig"
    BY <2>6
  <2>13. \A l : ~ ToBeWritten(job[p], l)
    BY <1>1 DEF ToBeWritten
  <2>14. UNCHANGED released /\ dir'["key"] = dir["key"]
    BY <1>1
  <2>15. QED
    BY <2>6, <2>8, <2>10, <2>11, <2>12, <2>13, <2>14, LeafKeeps
<1>4. ASSUME NEW m \in Messages, Commit(p, m) PROVE LeafInvOf(p0)'
  <2>1. PICK c \in Nat : c = Len(msgOf) + 1
    BY <1>2
  <2> DEFINE d == Commitment(c)
             e == UserState(c, m)
  <2>2. d \in Data /\ e \in Data
    <3>1. d \in [com : Nat] /\ e \in [com : Nat, msg : Texts]
      BY <1>2 DEF Commitment, UserState
    <3>2. QED
      BY <3>1 DEF Data
  <2>3. SetJob(p, Job("write", NoMessage, <<>>, <<Write("com", d), Write("state", e)>>))
    BY <1>4, <2>1 DEF Commit, Writing
  <2> HIDE DEF d, e
  <2>4. PICK j \in Jobs : WritesBoth(j, "com", d, "state", e)
    <3>1. Paired("com", "state")
      BY DEF Paired
    <3>2. QED
      BY <2>2, <3>1, WriteForm
  <2>5. /\ \A i \in 1..2 : i = 1 \/ i = 2
        /\ SetJob(p, j) /\ j.cmd = "write" /\ Len(j.writes) = 2
        /\ j.writes[1].file = "com" /\ j.writes[2].file = "state"
    BY <2>3, <2>4 DEF WritesBoth
  <2>6. \A i \in 1..Len(j.writes) : j.writes[i].file \notin {"key", "sig"}
    BY <2>5
  <2>7. QED
    BY <1>1, <2>5, <2>6, HarmlessStep
<1>5. ASSUME NEW cmd, NEW m \in Texts, NEW rs,
             <<cmd, rs>> \in {<<"sign", <<"key", "com">>>>, <<"prove", <<"state", "pub", "sig">>>>,
                              <<"verify", <<"proof", "pub">>>>},
             cmd = "sign" => p = p0,
             SetJob(p, Job(cmd, m, rs, <<>>))
      PROVE  LeafInvOf(p0)'
  <2> DEFINE j == Job(cmd, m, rs, <<>>)
  <2>1. j \in Jobs /\ j.cmd = cmd /\ j.writes = <<>> /\ j.reads = rs
    BY <1>5, ReadJob
  <2> HIDE DEF j
  <2>2. cmd = "sign" => rs = <<"key", "com">>
    BY <1>5
  <2>3. \A i \in 1..Len(j.writes) : j.writes[i].file \notin {"key", "sig"}
    BY <2>1
  <2>4. SetJob(p, j)
    BY <1>5 DEF j
  <2>5. QED
    BY <1>1, <1>5, <2>1, <2>2, <2>3, <2>4, HarmlessStep
<1>6. ASSUME Sign(p) PROVE LeafInvOf(p0)'
  <2>1. p = p0
    BY <1>6 DEF Sign, Begin, Sole
  <2>2. QED
    BY <1>2, <1>5, <1>6, <2>1 DEF Sign
<1>7. Prove(p) => LeafInvOf(p0)'
  BY <1>2, <1>5 DEF Prove
<1>8. \A m \in Messages : Verify(p, m) => LeafInvOf(p0)'
  BY <1>2, <1>5 DEF Verify
<1>9. QED
  BY <1>3, <1>4, <1>6, <1>7, <1>8

\* A command that ends without a write.
LEMMA LeafLeave ==
  ASSUME ToolInv, NEW p0 \in Procs, LeafInvOf(p0), NEW p \in Procs,
         ReadFails(p) \/ SignerExhausted(p) \/ ProveRefused(p) \/ VerifyBlindSig(p)
  PROVE  LeafInvOf(p0)'
<1>1. /\ SetJob(p, NoJob) /\ UNCHANGED <<released, dir>>
      /\ job[p].reads # <<>> \/ job[p].cmd \in {"sign", "prove", "verify"}
  BY DEF ReadFails, Reading, SignerExhausted, ProveRefused, VerifyBlindSig, Ready
<1>2. job[p].writes = <<>>
  BY <1>1 DEF ToolInv, GenuineInv, JobOK, ReadPlan
<1>3. NoJob \in Jobs /\ NoJob.cmd = "none" /\ NoJob.writes = <<>>
  BY IdleJob DEF NoJob, Job
<1>4. \A i \in 1..Len(NoJob.writes) : NoJob.writes[i].file \notin {"key", "sig"}
  BY <1>3
<1>5. QED
  BY <1>1, <1>2, <1>3, <1>4, HarmlessStep

\* The signer reads its key, which nobody else has and which is up to date.
LEMMA LeafRead ==
  ASSUME ToolInv, NEW p0 \in Procs, LeafInvOf(p0), NEW p \in Procs, ReadFile(p)
  PROVE  LeafInvOf(p0)'
<1> DEFINE f == Head(job[p].reads)
           r == [job[p] EXCEPT !.reads = Tail(@), !.mem[f] = dir[f]]
<1>1. /\ job[p] \in Jobs /\ JobOK(job[p]) /\ dir \in [Files -> Data]
      /\ job[p].reads # <<>> /\ Readable(f) /\ SetJob(p, r)
      /\ UNCHANGED <<dir, released>>
  BY DEF ToolInv, ToolTypeOK, GenuineInv, ReadFile, Reading
<1>2. job[p].reads \in Seq(Files)
  BY <1>1 DEF Jobs
<1>3. f \in Files /\ Tail(job[p].reads) \in Seq(Files) /\ dir[f] \in Data
  BY <1>1, <1>2
<1> HIDE DEF f
<1>4. PICK d \in Data : d = dir[f]
  BY <1>3
<1>5. /\ r \in Jobs
      /\ r.cmd = job[p].cmd /\ r.reads = Tail(job[p].reads) /\ r.writes = job[p].writes
      /\ r.open = job[p].open
      /\ \A g \in Files : r.mem[g] = IF g = f THEN dir[f] ELSE job[p].mem[g]
  BY <1>1, <1>3, <1>4, ReadChanges
<1> HIDE DEF r
<1>6. PICK j \in Jobs : j = r
  BY <1>5
<1>7. /\ job[p].cmd \in {"sign", "prove", "verify"} /\ job[p].writes = <<>>
      /\ \A i \in 1..Len(j.writes) : j.writes[i].file \notin {"key", "sig"}
  <2>1. job[p].cmd \in {"sign", "prove", "verify"}
    BY <1>1 DEF JobOK, ReadPlan, Jobs
  <2>2. job[p].writes = <<>>
    BY <1>1, <2>1 DEF JobOK
  <2>3. QED
    BY <1>5, <1>6, <2>1, <2>2
<1>8. SetJob(p, j) /\ p # p0 => job[p].cmd # "sign"
  BY <1>1, <1>6 DEF LeafInvOf
<1>9. CASE job[p].cmd # "sign"
  BY <1>1, <1>5, <1>6, <1>7, <1>8, <1>9, HarmlessStep
<1>10. CASE job[p].cmd = "sign"
  <2>1. p = p0 /\ SetJob(p, j)
    BY <1>1, <1>6, <1>8, <1>10
  <2>2. "key" \in Files /\ "com" \in Files
    BY DEF Files
  <2>3. j.cmd = "sign" /\ j.reads # <<"key", "com">> /\ j.writes = <<>>
    BY <1>1, <1>5, <1>6, <1>7, <1>10, ReadLists DEF JobOK, ReadPlan
  <2>4. Holds(j) = {j.mem["key"].key}
    BY <2>3 DEF Holds
  <2>5. \A k : ~ ToBeWritten(job[p], k)
    BY <1>7 DEF ToBeWritten
  <2>6. CASE job[p].reads = <<"key", "com">>
    <3>1. j.mem["key"] = dir["key"] /\ dir["key"] \notin {Absent, Torn}
      BY <1>1, <1>5, <1>6, <2>2, <2>6, ReadLists DEF f, Readable
    <3>2. Fresh(j.mem["key"].key, j.mem["key"].leaf)
      BY <2>1, <2>5, <3>1 DEF LeafInvOf
    <3>3. LeafOK(j)
      BY <2>3, <3>2 DEF LeafOK
    <3>4. \A q \in Procs : q # p => Holds(j) \cap Holds(job[q]) = {}
      BY <2>1, <2>4, <3>1 DEF LeafInvOf
    <3>5. dir'["key"] = dir["key"]
      BY <1>1
    <3>6. QED
      BY <1>1, <2>1, <2>5, <3>3, <3>4, <3>5, LeafKeeps
  <2>7. CASE job[p].reads # <<"key", "com">>
    <3>1. job[p].reads = <<"com">>
      BY <1>1, <1>10, <2>7 DEF JobOK, ReadPlan
    <3>2. j.mem["key"] = job[p].mem["key"]
      BY <1>5, <1>6, <2>2, <3>1, ReadLists DEF f
    <3>3. LeafOK(job[p])
      BY DEF LeafInvOf
    <3>4. LeafOK(j)
      BY <1>10, <2>3, <2>7, <3>2, <3>3 DEF LeafOK
    <3>5. Holds(job[p]) = {job[p].mem["key"].key}
      BY <1>7, <1>10, <2>7 DEF Holds
    <3>6. \A q \in Procs : q # p => Holds(j) \cap Holds(job[q]) = {}
      BY <2>4, <3>2, <3>5 DEF LeafInvOf
    <3>7. dir'["key"] = dir["key"]
      BY <1>1
    <3>8. QED
      BY <1>1, <2>1, <2>5, <3>4, <3>6, <3>7, LeafKeeps
  <2>8. QED
    BY <2>6, <2>7
<1>11. QED
  BY <1>9, <1>10

\* sign has its signature: the leaf and the next one are fresh.
LEMMA LeafSign ==
  ASSUME ToolInv, NEW p0 \in Procs, LeafInvOf(p0), NEW p \in Procs, SignerSign(p)
  PROVE  LeafInvOf(p0)'
<1> DEFINE key == job[p].mem["key"]
           com == job[p].mem["com"].com
<1>1. /\ JobOK(job[p]) /\ LeafOK(job[p]) /\ msgOf \in Seq(Texts)
      /\ job[p].cmd = "sign" /\ job[p].reads = <<>> /\ job[p].writes = <<>>
      /\ UNCHANGED <<released, dir>> /\ p = p0
  <2>1. /\ JobOK(job[p]) /\ LeafOK(job[p]) /\ msgOf \in Seq(Texts)
        /\ job[p].cmd = "sign" /\ job[p].reads = <<>> /\ UNCHANGED <<released, dir>>
    BY DEF ToolInv, ToolTypeOK, GenuineInv, LeafInvOf, SignerSign, Ready
  <2>2. QED
    BY <2>1 DEF LeafInvOf, JobOK
<1>2. key \in [key : 1..keys, leaf : Nat] /\ com \in 1..Len(msgOf) /\ keys \in Nat
  BY <1>1, ReadLists, HoldsKnown DEF JobOK, ReadPlan, Genuine
<1>3. PICK k \in Nat, l \in Nat, c \in Nat : k = key.key /\ l = key.leaf /\ c = com
  BY <1>1, <1>2
<1> DEFINE d == XmssSig(k, l, c)
           e == SignerKey(k, l + 1)
<1>4. SetJob(p, Job("write", NoMessage, <<>>, <<Write("sig", d), Write("key", e)>>))
  BY <1>3 DEF SignerSign, Writing
<1>5. /\ Fresh(k, l) /\ Holds(job[p]) = {k}
  <2>1. job[p].reads # <<"key", "com">>
    BY <1>1, ReadLists
  <2>2. QED
    BY <1>1, <1>3, <2>1 DEF LeafOK, Holds
<1> HIDE DEF key, com
<1>6. d \in Data /\ e \in Data /\ d.key = k /\ d.leaf = l /\ e.key = k /\ e.leaf = l + 1
  <2>1. d \in [key : Nat, leaf : Nat, com : Nat] /\ e \in [key : Nat, leaf : Nat]
    BY <1>3 DEF XmssSig, SignerKey
  <2>2. QED
    BY <2>1 DEF Data, XmssSig, SignerKey
<1> HIDE DEF d, e
<1>7. PICK j \in Jobs : WritesBoth(j, "sig", d, "key", e)
  <2>1. Paired("sig", "key")
    BY DEF Paired
  <2>2. QED
    BY <1>6, <2>1, WriteForm
<1>8. /\ SetJob(p, j) /\ \A i \in 1..2 : i = 1 \/ i = 2
      /\ j.cmd = "write" /\ Len(j.writes) = 2
      /\ j.writes[1].file = "sig" /\ j.writes[1].data = d
      /\ j.writes[2].file = "key" /\ j.writes[2].data = e
  BY <1>4, <1>7 DEF WritesBoth
<1>9. LeafOK(j)
  <2>1. Fresh(k, l + 1)
    BY <1>3, <1>5, HoldsKnown DEF Fresh
  <2>2. l + 1 > l
    BY <1>3
  <2>3. QED
    BY <1>5, <1>6, <1>8, <2>1, <2>2 DEF LeafOK
<1>10. Holds(j) \subseteq {k}
  <2>1. \A i \in 1..Len(j.writes) : j.writes[i].data.key = k
    BY <1>6, <1>8
  <2>2. j.cmd # "sign"
    BY <1>8
  <2>3. QED
    BY <2>1, <2>2 DEF Holds
<1>11. \A q \in Procs : q # p => Holds(j) \cap Holds(job[q]) = {}
  BY <1>5, <1>10 DEF LeafInvOf
<1>12. \A i : ~ ToBeWritten(job[p], i)
  BY <1>1 DEF ToBeWritten
<1>13. UNCHANGED released /\ dir'["key"] = dir["key"]
  BY <1>1
<1>14. QED
  BY <1>1, <1>8, <1>9, <1>11, <1>12, <1>13, LeafKeeps

\* prove has its proof.
LEMMA LeafProve ==
  ASSUME ToolInv, CacheInv, NEW p0 \in Procs, LeafInvOf(p0), NEW p \in Procs, UserProve(p)
  PROVE  LeafInvOf(p0)'
<1> DEFINE pub == job[p].mem["pub"]
           state == job[p].mem["state"]
<1>1. /\ JobOK(job[p]) /\ keys \in Nat /\ job[p].cmd = "prove" /\ job[p].reads = <<>>
      /\ job[p].writes = <<>> /\ UNCHANGED <<released, dir>> /\ got[p] = "new"
  <2>1. /\ JobOK(job[p]) /\ keys \in Nat /\ job[p].cmd = "prove" /\ job[p].reads = <<>>
        /\ UNCHANGED <<released, dir>> /\ got[p] = "new"
    BY DEF ToolInv, ToolTypeOK, GenuineInv, UserProve, Ready, CacheInv, CacheTypeOK
  <2>2. QED
    BY <2>1 DEF JobOK
<1>2. Genuine("state", state) /\ Genuine("pub", pub)
  BY <1>1, ReadLists DEF JobOK, ReadPlan
<1>3. PICK k \in Nat, m \in Texts : k = pub.key /\ m = state.msg
  BY <1>1, <1>2 DEF Genuine
<1> DEFINE d == [key |-> k, msg |-> m, circuit |-> "new"]
           r == Job("write", NoMessage, <<>>, <<Write("proof", d)>>)
<1>4. SetJob(p, r)
  BY <1>1, <1>3 DEF UserProve, Writing
<1>5. d \in Data
  <2>1. d \in [key : Nat, msg : Texts, circuit : {"new"}]
    OBVIOUS
  <2>2. QED
    BY <2>1 DEF Data
<1> HIDE DEF d
<1>6. r \in Jobs /\ r.cmd = "write" /\ Len(r.writes) = 1 /\ r.writes[1].file = "proof"
  BY <1>5, ProofJob
<1> HIDE DEF r
<1>7. \A i \in 1..Len(r.writes) : r.writes[i].file \notin {"key", "sig"}
  BY <1>6
<1>8. QED
  BY <1>1, <1>4, <1>6, <1>7, HarmlessStep

\* A file is truncated: the signer's own is out of date only while it is torn.
LEMMA LeafTruncate ==
  ASSUME ToolInv, NEW p0 \in Procs, LeafInvOf(p0), NEW p \in Procs, Truncate(p)
  PROVE  LeafInvOf(p0)'
<1> DEFINE r == [job[p] EXCEPT !.open = TRUE]
           f == Head(job[p].writes).file
<1>1. /\ job[p] \in Jobs /\ dir \in [Files -> Data] /\ LeafOK(job[p])
      /\ job[p].writes # <<>> /\ SetJob(p, r) /\ dir' = [dir EXCEPT ![f] = Torn]
      /\ UNCHANGED released
  BY DEF ToolInv, ToolTypeOK, LeafInvOf, Truncate
<1>2. r \in Jobs /\ r.cmd = job[p].cmd /\ r.reads = job[p].reads /\ r.writes = job[p].writes
      /\ r.mem = job[p].mem
  BY <1>1 DEF Jobs
<1> HIDE DEF r
<1>3. PICK j \in Jobs : j = r
  BY <1>2
<1>4. LeafOK(j) /\ Holds(j) = Holds(job[p])
  BY <1>1, <1>2, <1>3 DEF LeafOK, Holds
<1>5. f = job[p].writes[1].file
  <2>1. job[p].writes \in Seq(Writes)
    BY <1>1 DEF Jobs
  <2>2. QED
    BY <1>1, <2>1
<1>6. dir'["key"] = IF f = "key" THEN Torn ELSE dir["key"]
  BY <1>1 DEF Files
<1>7. f # "key" => \A k : ~ ToBeWritten(job[p], k)
  BY <1>5 DEF ToBeWritten
<1>8. p # p0 => j.cmd # "sign" /\ \A i \in 1..Len(j.writes) : j.writes[i].file # "sig"
  BY <1>2, <1>3 DEF LeafInvOf
<1>9. \A q \in Procs : q # p => Holds(j) \cap Holds(job[q]) = {}
  BY <1>4 DEF LeafInvOf
<1>10. dir["key"] \notin {Absent, Torn} /\ p # p0 => dir["key"].key \notin Holds(j)
  BY <1>4 DEF LeafInvOf
<1>11. QED
  BY <1>1, <1>3, <1>4, <1>6, <1>7, <1>8, <1>9, <1>10, LeafKeeps
\* What is left of a job once write_file has returned.
LEMMA LeafRest ==
  ASSUME ToolInv, NEW p0 \in Procs, LeafInvOf(p0), NEW p \in Procs, job[p].open
  PROVE  /\ Rest(job[p]) \in Jobs /\ LeafOK(Rest(job[p]))
         /\ Holds(Rest(job[p])) \subseteq Holds(job[p])
         /\ Rest(job[p]).cmd # "sign"
         /\ p # p0 => \A i \in 1..Len(Rest(job[p]).writes) : Rest(job[p]).writes[i].file # "sig"
         /\ Len(Rest(job[p]).writes) \in {0, 1}
         /\ Len(Rest(job[p]).writes) = 1 =>
               Len(job[p].writes) = 2 /\ Rest(job[p]).writes[1] = job[p].writes[2]
         /\ ~ Rest(job[p]).open
<1>1. /\ job[p] \in Jobs /\ JobOK(job[p]) /\ LeafOK(job[p]) /\ job[p].writes # <<>>
      /\ p # p0 => \A i \in 1..Len(job[p].writes) : job[p].writes[i].file # "sig"
  BY DEF ToolInv, ToolTypeOK, GenuineInv, JobOK, LeafInvOf
<1>2. PICK j \in Jobs : j = Rest(job[p])
  BY <1>1, RestOfJob
<1>3. /\ Len(job[p].writes) \in {1, 2}
      /\ Len(job[p].writes) = 1 => j = NoJob
      /\ Len(job[p].writes) = 2 =>
            j.writes = <<job[p].writes[2]>> /\ j.open = FALSE /\ j.cmd = "write"
  BY <1>1, <1>2, RestOfJob
<1>4. NoJob.cmd = "none" /\ NoJob.writes = <<>> /\ ~ NoJob.open
  BY DEF NoJob, Job
<1>5. \A i \in 1..1 : i = 1
  OBVIOUS
<1>6. CASE Len(job[p].writes) = 1
  <2>1. j.cmd = "none" /\ j.writes = <<>> /\ ~ j.open /\ Len(j.writes) = 0
    BY <1>3, <1>4, <1>6
  <2>2. \A i \in 1..Len(j.writes) : j.writes[i].file \notin {"key", "sig"}
    BY <2>1
  <2>3. LeafOK(j) /\ Holds(j) = {}
    BY <2>1, <2>2, HarmlessJob
  <2>4. QED
    BY <1>2, <2>1, <2>2, <2>3
<1>7. CASE Len(job[p].writes) = 2
  <2>1. j.cmd = "write" /\ Len(j.writes) = 1 /\ j.writes[1] = job[p].writes[2] /\ ~ j.open
    BY <1>3, <1>7
  <2>2. \A i \in 1..Len(j.writes) : j.writes[i] = job[p].writes[2]
    BY <1>5, <2>1
  <2>3. 2 \in 1..Len(job[p].writes)
    BY <1>7
  <2>4. LeafOK(j)
    BY <1>1, <2>1, <2>2, <2>3 DEF LeafOK
  <2>5. ASSUME NEW x \in Holds(j) PROVE x \in Holds(job[p])
    <3>1. j.writes[1].file \in {"key", "sig"} /\ x = j.writes[1].data.key
      BY <2>1, <2>2, <2>5 DEF Holds
    <3>2. QED
      BY <2>1, <2>3, <3>1 DEF Holds
  <2>6. QED
    BY <1>1, <1>2, <1>7, <2>1, <2>2, <2>3, <2>4, <2>5
<1>8. QED
  BY <1>3, <1>6, <1>7

\* A step to the rest of a job that neither writes the key nor releases.
LEMMA LeafGoesOn ==
  ASSUME ToolInv, NEW p0 \in Procs, LeafInvOf(p0), NEW p \in Procs, job[p].open,
         SetJob(p, Rest(job[p])), UNCHANGED released, dir'["key"] = dir["key"]
  PROVE  LeafInvOf(p0)'
<1>1. PICK j \in Jobs : j = Rest(job[p])
  BY LeafRest
<1>2. /\ LeafOK(j) /\ Holds(j) \subseteq Holds(job[p]) /\ SetJob(p, j)
      /\ p # p0 => j.cmd # "sign" /\ \A i \in 1..Len(j.writes) : j.writes[i].file # "sig"
  BY <1>1, LeafRest
<1>3. \A q \in Procs : q # p => Holds(j) \cap Holds(job[q]) = {}
  BY <1>2 DEF LeafInvOf
<1>4. dir["key"] \notin {Absent, Torn} =>
         /\ p = p0 => ~ ToBeWritten(job[p0], dir["key"].key)
         /\ p # p0 => dir["key"].key \notin Holds(j)
  BY <1>2 DEF LeafInvOf, ToBeWritten
<1>5. QED
  BY <1>2, <1>3, <1>4, LeafKeeps

\* A full disk loses a file; the command ends or goes on.
LEMMA LeafDiskFull ==
  ASSUME ToolInv, NEW p0 \in Procs, LeafInvOf(p0), NEW p \in Procs, DiskFull(p)
  PROVE  LeafInvOf(p0)'
<1>1. job[p].open /\ UNCHANGED <<dir, released>> /\ (SetJob(p, NoJob) \/ SetJob(p, Rest(job[p])))
  BY DEF DiskFull, Written, Rest
<1>2. NoJob \in Jobs /\ NoJob.cmd = "none" /\ NoJob.writes = <<>>
  BY IdleJob DEF NoJob, Job
<1>3. \A i \in 1..Len(NoJob.writes) : NoJob.writes[i].file \notin {"key", "sig"}
  BY <1>2
<1>4. CASE SetJob(p, NoJob)
  BY <1>1, <1>2, <1>3, <1>4, HarmlessStep
<1>5. CASE SetJob(p, Rest(job[p]))
  BY <1>1, <1>5, LeafGoesOn
<1>6. QED
  BY <1>1, <1>4, <1>5

\* The signer's key is written: it is up to date and nobody else has it.
LEMMA LeafFillKey ==
  ASSUME ToolInv, NEW p0 \in Procs, LeafInvOf(p0), NEW p \in Procs, job[p].open,
         SetJob(p, Rest(job[p])), UNCHANGED released,
         job[p].writes[1].file = "key", dir'["key"] = job[p].writes[1].data
  PROVE  LeafInvOf(p0)'
<1> DEFINE w == job[p].writes[1]
<1>1. job[p] \in Jobs /\ JobOK(job[p]) /\ LeafOK(job[p]) /\ job[p].writes # <<>>
  BY DEF ToolInv, ToolTypeOK, GenuineInv, JobOK, LeafInvOf
<1>2. PICK j \in Jobs : j = Rest(job[p])
  BY LeafRest
<1>3. /\ LeafOK(j) /\ j.cmd # "sign"
      /\ p # p0 => \A i \in 1..Len(j.writes) : j.writes[i].file # "sig"
      /\ Len(j.writes) \in {0, 1}
      /\ Len(j.writes) = 1 => Len(job[p].writes) = 2 /\ j.writes[1] = job[p].writes[2]
  BY <1>2, LeafRest
<1>4. \A i \in 1..Len(j.writes) : j.writes[i].file \notin {"key", "sig"}
  <2>1. Len(job[p].writes) = 2 => job[p].writes[2].file = "pub"
    BY <1>1 DEF JobOK, WritePlan
  <2>2. \A i \in 1..1 : i = 1
    OBVIOUS
  <2>3. QED
    BY <1>3, <2>1, <2>2
<1>5. Holds(j) = {}
  BY <1>3, <1>4 DEF Holds
<1>6. 1 \in 1..Len(job[p].writes)
  BY <1>1 DEF JobOK, WritePlan
<1>7. Fresh(w.data.key, w.data.leaf) /\ w.data.key \in Holds(job[p])
  BY <1>1, <1>6 DEF LeafOK, Holds
<1>8. job'[p] = j /\ \A q \in Procs : q # p => job'[q] = job[q]
  BY <1>2 DEF SetJob, ToolInv, ToolTypeOK
<1>9. \A q \in Procs : Holds(job'[q]) \subseteq Holds(job[q])
  BY <1>5, <1>8
<1>10. \A q, r \in Procs : q # r => Holds(job'[q]) \cap Holds(job'[r]) = {}
  BY <1>9 DEF LeafInvOf
<1>11. ASSUME NEW q \in Procs PROVE LeafOK(job[q])'
  <2>1. PICK r : r = job'[q]
    OBVIOUS
  <2>2. LeafOK(r)
    BY <1>3, <1>8, <2>1 DEF LeafInvOf
  <2>3. LeafOK(r)'
    BY <2>2 DEF LeafOK, Fresh
  <2>4. QED
    BY <2>1, <2>3 DEF LeafOK, Fresh
<1>12. \A q \in Procs : q # p0 =>
         /\ job'[q].cmd # "sign"
         /\ \A i \in 1..Len(job'[q].writes) : job'[q].writes[i].file # "sig"
  BY <1>3, <1>8 DEF LeafInvOf
<1>13. Fresh(dir["key"].key, dir["key"].leaf)'
  BY <1>7 DEF Fresh
<1>14. \A q \in Procs \ {p0} : dir'["key"].key \notin Holds(job'[q])
  BY <1>5, <1>7, <1>8 DEF LeafInvOf
<1>15. \A s, t \in released' : s.key = t.key /\ s.leaf = t.leaf => s.com = t.com
  BY DEF LeafInvOf
<1>16. QED
  BY <1>10, <1>11, <1>12, <1>13, <1>14, <1>15 DEF LeafInvOf, Holds

\* A signature is released at a fresh leaf: the key is written next, and no
\* other process has it.
LEMMA LeafRelease ==
  ASSUME ToolInv, NEW p0 \in Procs, LeafInvOf(p0), NEW p \in Procs, job[p].open,
         SetJob(p, Rest(job[p])), job[p].writes[1].file = "sig",
         released' = released \cup {job[p].writes[1].data}, dir'["key"] = dir["key"]
  PROVE  LeafInvOf(p0)'
<1> DEFINE w == job[p].writes[1]
           v == job[p].writes[2]
<1>1. job[p] \in Jobs /\ JobOK(job[p]) /\ LeafOK(job[p]) /\ job[p].writes # <<>>
  BY DEF ToolInv, ToolTypeOK, GenuineInv, JobOK, LeafInvOf
<1>2. Len(job[p].writes) = 2 /\ v.file = "key" /\ 1 \in 1..2 /\ 2 \in 1..2
  BY <1>1 DEF JobOK, WritePlan
<1>3. p = p0
  BY <1>2 DEF LeafInvOf
<1>4. PICK k, l, n : k = w.data.key /\ l = w.data.leaf /\ n = v.data.leaf
  OBVIOUS
<1>5. l \in Nat /\ n \in Nat /\ n > l /\ v.data.key = k
  BY <1>1, <1>2, <1>4 DEF JobOK, MayWrite, Genuine, LeafOK
<1>6. Fresh(k, l) /\ k \in Holds(job[p])
  BY <1>1, <1>2, <1>4 DEF LeafOK, Holds
<1>7. PICK j \in Jobs : j = Rest(job[p])
  BY LeafRest
<1>8. /\ j.cmd = "write" /\ j.open = FALSE /\ j.writes = <<v>>
  BY <1>1, <1>2, <1>7, RestOfJob
<1>9. Len(j.writes) = 1 /\ j.writes[1] = v /\ \A i \in 1..1 : i = 1
  BY <1>8
<1> HIDE DEF w, v
<1>10. job'[p] = j /\ \A q \in Procs : q # p => job'[q] = job[q]
  BY <1>7 DEF SetJob, ToolInv, ToolTypeOK
<1>11. /\ released' = released \cup {w.data}
       /\ \A s \in released : s.leaf \in Nat
  BY HoldsKnown DEF w
<1>12. \A i, m : Fresh(i, m) /\ i # k => Fresh(i, m)'
  BY <1>4, <1>11 DEF Fresh
<1>13. Fresh(k, n)'
  <2>1. \A s \in released' : s.key = k => s.leaf \in Nat /\ s.leaf <= l
    BY <1>4, <1>5, <1>6, <1>11 DEF Fresh
  <2>2. QED
    BY <1>5, <2>1 DEF Fresh
<1>14. Holds(j) \subseteq {k}
  <2>1. j.cmd # "sign" /\ \A i \in 1..Len(j.writes) : j.writes[i].data.key = k
    BY <1>5, <1>8, <1>9
  <2>2. QED
    BY <2>1 DEF Holds
<1>15. LeafOK(j)'
  BY <1>2, <1>4, <1>5, <1>8, <1>9, <1>13 DEF LeafOK
<1>16. ASSUME NEW q \in Procs PROVE LeafOK(job[q])'
  <2>1. CASE q = p
    BY <1>10, <1>15, <2>1 DEF LeafOK, Fresh
  <2>2. CASE q # p
    <3>1. LeafOK(job[q]) /\ k \notin Holds(job[q])
      BY <1>6, <2>2 DEF LeafInvOf
    <3>2. PICK r : r = job[q]
      OBVIOUS
    <3>3. LeafOK(r)'
      BY <1>12, <3>1, <3>2 DEF LeafOK, Holds
    <3>4. QED
      BY <1>10, <2>2, <3>2, <3>3 DEF LeafOK, Fresh
  <2>3. QED
    BY <2>1, <2>2
<1>17. \A q \in Procs : Holds(job'[q]) \subseteq Holds(job[q])
  BY <1>6, <1>10, <1>14
<1>18. \A q, r \in Procs : q # r => Holds(job'[q]) \cap Holds(job'[r]) = {}
  BY <1>17 DEF LeafInvOf
<1>19. ASSUME dir'["key"] \notin {Absent, Torn}
       PROVE  /\ Fresh(dir["key"].key, dir["key"].leaf)' \/ ToBeWritten(job'[p0], dir'["key"].key)
              /\ \A q \in Procs \ {p0} : dir'["key"].key \notin Holds(job'[q])
  <2>1. /\ Fresh(dir["key"].key, dir["key"].leaf)
        /\ \A q \in Procs \ {p0} : dir["key"].key \notin Holds(job[q])
    BY <1>3, <1>19 DEF LeafInvOf, ToBeWritten
  <2>2. PICK i, m : i = dir["key"].key /\ m = dir["key"].leaf
    OBVIOUS
  <2>3. i # k => Fresh(i, m)'
    BY <1>12, <2>1, <2>2
  <2>4. i = k => ToBeWritten(job'[p0], i)
    <3>1. j.writes # <<>> /\ ~ j.open /\ j.writes[1].file = "key" /\ j.writes[1].data.key = k
      BY <1>2, <1>5, <1>8, <1>9
    <3>2. job'[p0] = j
      BY <1>3, <1>10
    <3>3. QED
      BY <3>1, <3>2 DEF ToBeWritten
  <2>5. QED
    BY <1>17, <2>1, <2>2, <2>3, <2>4 DEF Fresh
<1>20. \A q \in Procs : q # p0 =>
         /\ job'[q].cmd # "sign"
         /\ \A i \in 1..Len(job'[q].writes) : job'[q].writes[i].file # "sig"
  BY <1>3, <1>10 DEF LeafInvOf
<1>21. \A s, t \in released' : s.key = t.key /\ s.leaf = t.leaf => s.com = t.com
  BY <1>4, <1>5, <1>6, <1>11 DEF LeafInvOf, Fresh
<1>22. QED
  BY <1>16, <1>18, <1>19, <1>20, <1>21 DEF LeafInvOf, Holds, ToBeWritten

\* A file is filled.
LEMMA LeafFill ==
  ASSUME ToolInv, NEW p0 \in Procs, LeafInvOf(p0), NEW p \in Procs, Fill(p)
  PROVE  LeafInvOf(p0)'
<1> DEFINE w == Head(job[p].writes)
<1>1. /\ job[p] \in Jobs /\ JobOK(job[p]) /\ job[p].open /\ dir \in [Files -> Data]
      /\ SetJob(p, Rest(job[p]))
      /\ released' = released \cup (IF w.file = "sig" THEN {w.data} ELSE {})
  BY DEF ToolInv, ToolTypeOK, GenuineInv, Fill, Written, Rest
<1>2. job[p].writes # <<>> /\ job[p].writes \in Seq(Writes)
  BY <1>1 DEF JobOK, Jobs
<1>3. w = job[p].writes[1] /\ w \in Writes
  <2>1. 1 \in 1..Len(job[p].writes) /\ w = job[p].writes[1]
    BY <1>2
  <2>2. QED
    BY <1>2, <2>1, ElementOfSeq
<1>4. PICK left \in {w.data, Torn} :
         /\ dir' = [dir EXCEPT ![w.file] = left]
         /\ w.file \notin {"state", "proof"} => left = w.data
  BY DEF Fill
<1> HIDE DEF w
<1>5. dir'["key"] = IF w.file = "key" THEN left ELSE dir["key"]
  BY <1>1, <1>4 DEF Files
<1>6. CASE w.file = "key"
  BY <1>1, <1>3, <1>4, <1>5, <1>6, LeafFillKey
<1>7. CASE w.file = "sig"
  BY <1>1, <1>3, <1>5, <1>7, LeafRelease
<1>8. CASE w.file \notin {"key", "sig"}
  BY <1>1, <1>5, <1>8, LeafGoesOn
<1>9. QED
  BY <1>6, <1>7, <1>8

\* At the start only a signature at leaf 0 of key 1 may have been released.
LEMMA LeafInvInit == ToolInit => LeafInv
<1> SUFFICES ASSUME ToolInit, NEW p0 \in Procs PROVE LeafInvOf(p0)
  BY DEF LeafInv
<1>1. NoJob.cmd = "none" /\ NoJob.writes = <<>>
  BY DEF NoJob, Job
<1>2. \A i \in 1..Len(NoJob.writes) : NoJob.writes[i].file \notin {"key", "sig"}
  BY <1>1
<1>3. LeafOK(NoJob) /\ Holds(NoJob) = {}
  BY <1>1, <1>2, HarmlessJob
<1>4. \A p \in Procs : job[p] = NoJob
  BY DEF ToolInit
<1>5. \A p \in Procs : LeafOK(job[p]) /\ Holds(job[p]) = {}
  BY <1>3, <1>4
<1>6. CASE scene.ready
  <2>1. dir["key"].key = 1 /\ dir["key"].leaf = 1 /\ released = {XmssSig(1, 0, 1)}
    BY <1>6 DEF ToolInit, ReadyDirectory, SignerKey
  <2>2. Fresh(dir["key"].key, dir["key"].leaf)
    BY <2>1 DEF Fresh, XmssSig
  <2>3. QED
    BY <1>1, <1>2, <1>4, <1>5, <2>1, <2>2 DEF LeafInvOf
<1>7. CASE ~ scene.ready
  <2>1. dir["key"] = Absent /\ released = {}
    BY <1>7 DEF ToolInit, Files
  <2>2. QED
    BY <1>1, <1>2, <1>4, <1>5, <2>1 DEF LeafInvOf
<1>8. QED
  BY <1>6, <1>7

\* Every step keeps the leaves fresh, as long as nobody is killed.
LEMMA LeafInvNext ==
  ASSUME ToolInv, CacheInv, LeafInv, [ToolNext]_allVars
  PROVE  LeafInv'
<1>1. CASE UNCHANGED toolVars
  <2>1. UNCHANGED <<scene, dir, job, released, killed>>
    BY <1>1 DEF toolVars
  <2>2. ASSUME NEW p0 \in Procs, LeafInvOf(p0) PROVE LeafInvOf(p0)'
    <3>1. \A p \in Procs : LeafOK(job[p])'
      BY <2>1, <2>2 DEF LeafInvOf, LeafOK, Fresh
    <3>2. Fresh(dir["key"].key, dir["key"].leaf) => Fresh(dir["key"].key, dir["key"].leaf)'
      BY <2>1 DEF Fresh
    <3>3. \A p, q \in Procs : p # q => Holds(job'[p]) \cap Holds(job'[q]) = {}
      BY <2>1, <2>2 DEF LeafInvOf
    <3>4. dir'["key"] \notin {Absent, Torn} =>
            /\ Fresh(dir["key"].key, dir["key"].leaf)' \/ ToBeWritten(job'[p0], dir'["key"].key)
            /\ \A q \in Procs \ {p0} : dir'["key"].key \notin Holds(job'[q])
      BY <2>1, <2>2, <3>2 DEF LeafInvOf
    <3>5. /\ \A p \in Procs : p # p0 => job'[p].cmd # "sign"
          /\ \A p \in Procs : p # p0 =>
                \A i \in 1..Len(job'[p].writes) : job'[p].writes[i].file # "sig"
          /\ \A s, t \in released' : s.key = t.key /\ s.leaf = t.leaf => s.com = t.com
      BY <2>1, <2>2 DEF LeafInvOf
    <3>6. QED
      BY <3>1, <3>3, <3>4, <3>5 DEF LeafInvOf, Holds, ToBeWritten
  <2>3. \A p0 \in Procs : Sole(p0)' /\ ~ killed' => Sole(p0) /\ ~ killed
    BY <2>1 DEF Sole
  <2>4. QED
    BY <2>2, <2>3 DEF LeafInv
<1>2. ASSUME NEW p \in Procs, NEW p0 \in Procs,
             \/ Keygen(p) \/ Sign(p) \/ Prove(p)
             \/ \E m \in Messages : Commit(p, m) \/ Verify(p, m)
             \/ Run(p) /\ ~ UNCHANGED toolVars
             \/ DiskFull(p),
             Sole(p0)', ~ killed'
      PROVE  LeafInvOf(p0)'
  <2>1. UNCHANGED <<scene, killed>>
    BY <1>2
    DEF Keygen, Sign, Prove, Commit, Verify, Begin, Run, ReadFile, ReadFails, Reading, SignerSign,
        SignerExhausted, UserProve, ProveRefused, VerifyBlindSig, Ready, Truncate, Fill, DiskFull
  <2>2. LeafInvOf(p0) /\ Sole(p0)
    BY <1>2, <2>1 DEF LeafInv, Sole
  <2>3. CASE Keygen(p) \/ Sign(p) \/ Prove(p) \/ \E m \in Messages : Commit(p, m) \/ Verify(p, m)
    BY <2>2, <2>3, LeafBegin
  <2>4. CASE Run(p) /\ ~ UNCHANGED toolVars
    BY <2>2, <2>4, LeafRead, LeafLeave, LeafSign, LeafProve, LeafTruncate, LeafFill DEF Run
  <2>5. CASE DiskFull(p)
    BY <2>2, <2>5, LeafDiskFull
  <2>6. QED
    BY <1>2, <2>3, <2>4, <2>5
<1>3. ASSUME NEW p \in Procs, KillCommand(p) PROVE LeafInv'
  BY <1>3 DEF KillCommand, LeafInv
<1>4. UNCHANGED allVars => UNCHANGED toolVars
  BY DEF allVars
<1>5. ASSUME NEW p \in Procs,
             \/ Keygen(p) \/ Sign(p) \/ Prove(p)
             \/ \E m \in Messages : Commit(p, m) \/ Verify(p, m)
             \/ Run(p) \/ DiskFull(p)
      PROVE  LeafInv'
  BY <1>1, <1>2, <1>5 DEF LeafInv
<1>6. QED
  BY <1>1, <1>3, <1>4, <1>5 DEF ToolNext

(***************************************************************************)
(* A full disk never makes a leaf sign twice (cmd_sign writes xmss_sig.bin *)
(* before signer_key.bin, and write_file may not see that the disk is full *)
(* for either): with one process that signs and none killed, a key that    *)
(* was not stored whole is not read again, and one that was is past every  *)
(* leaf that was released.                                                 *)
(***************************************************************************)
THEOREM LeavesSurviveAFullDisk == ToolSpec => []FullDiskKeepsLeaves
<1>1. ToolInit => CacheInv /\ ToolInv /\ LeafInv
  BY CacheInvInit, ToolInvInit, LeafInvInit DEF ToolInit
<1>2. CacheInv /\ ToolInv /\ LeafInv /\ [ToolNext]_allVars => (CacheInv /\ ToolInv /\ LeafInv)'
  BY CacheInvNext, ToolInvNext, LeafInvNext
<1>3. LeafInv => FullDiskKeepsLeaves
  <2> SUFFICES ASSUME LeafInv, ~ killed,
                      Cardinality({p \in Procs : "sign" \in scene.may[p]}) = 1
               PROVE  \A s, t \in released : s.key = t.key /\ s.leaf = t.leaf => s.com = t.com
    BY DEF FullDiskKeepsLeaves
  <2> DEFINE S == {p \in Procs : "sign" \in scene.may[p]}
  <2>1. IsFiniteSet(S)
    BY ProcsAssumption, FS_Subset
  <2>2. PICK p0 : S = {p0}
    <3> HIDE DEF S
    <3>1. Cardinality(S) = 1
      BY DEF S
    <3>2. QED
      BY <2>1, <3>1, FS_Singleton
  <2>3. p0 \in Procs /\ Sole(p0)
    BY <2>2 DEF Sole
  <2>4. QED
    BY <2>3 DEF LeafInv, LeafInvOf
<1>4. QED
  BY <1>1, <1>2, <1>3, PTL DEF ToolSpec
=============================================================================
