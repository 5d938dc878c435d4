----------------------- MODULE AnalyticsIngestProofs -----------------------
(***************************************************************************)
(* Proofs about the ingest worker, for any inodes, sizes of lines, chunks  *)
(* and batches, and any number of rolls, truncations, crashes and failures.*)
(***************************************************************************)
EXTENDS TLAPS, AnalyticsIngest, FiniteSetTheorems, SequenceTheorems, WellFoundedInduction

Byte == Version \X (1..MaxSize)
Steps == {"down", "opening", "idle", "drain", "read", "parse", "flush", "persist",
          "flushLast", "persistLast", "stat", "open", "save"}
Positions == [ino : Ino \union {NoFile}, offset : 0..MaxSize, of : 0..MaxVersion]

\* Steps of a drain, with a file open.
Draining == {"drain", "read", "parse", "flush", "persist", "flushLast", "persistLast"}

\* Inodes and the versions they hold: no two hold the same one.
FilesSound ==
    /\ path \in Ino \union {NoFile}
    /\ file \in [Ino -> 0..MaxVersion]
    /\ size \in [Version -> 0..MaxSize]
    /\ versions \in 0..MaxVersion
    /\ truncated \in BOOLEAN
    /\ openIno \in Ino \union {NoFile}
    /\ path # NoFile => file[path] > 0
    /\ openIno # NoFile => file[openIno] > 0
    /\ \A i \in Ino : file[i] <= versions
    /\ \A i, j \in Ino : file[i] = file[j] /\ file[i] > 0 => i = j

\* The worker's memory.
WorkerSound ==
    /\ pc \in Steps
    /\ again \in BOOLEAN
    /\ offset \in 0..MaxSize
    /\ limit \in 0..MaxSize
    /\ partial \in Seq(Byte)
    /\ Len(partial) <= offset
    /\ batch \in Seq(Line)
    /\ Len(batch) <= BatchSize
    /\ pc # "flush" => Len(batch) < BatchSize
    /\ pc \in {"down", "opening"} => openIno = NoFile /\ partial = <<>> /\ batch = <<>>
    /\ pc \in Draining => openIno # NoFile
    /\ pc = "open" => path # openIno \/ path = NoFile

StoreSound ==
    /\ counted \in [Line -> Nat]
    /\ saved \in Positions
    /\ dropped \subseteq Line
    /\ crashes \in 0..MaxCrashes
    /\ failures \in 0..MaxFailures

TypeInv == FilesSound /\ WorkerSound /\ StoreSound

-----------------------------------------------------------------------------
(* Types                                                                   *)

LEMMA Positive ==
    /\ LineLen \in Nat /\ LineLen > 0 /\ Chunk \in Nat /\ Chunk > 0
    /\ BatchSize \in Nat /\ BatchSize > 0
    /\ MaxVersion \in Nat /\ MaxSize \in Nat /\ MaxCrashes \in Nat /\ MaxFailures \in Nat
BY SizeAssumption

LEMMA EmptyIsSeq == ASSUME NEW S PROVE <<>> \in Seq(S) /\ Len(<<>>) = 0
OBVIOUS

LEMMA TypesImplied == TypeInv => TypeOK
BY DEF TypeInv, FilesSound, WorkerSound, StoreSound, TypeOK, Steps, Byte, Positions

LEMMA TypeInit == Init => TypeInv
<1> SUFFICES ASSUME Init PROVE TypeInv
  OBVIOUS
<1>1. FilesSound
  <2>1. /\ path = NoFile /\ openIno = NoFile /\ versions = 0 /\ truncated = FALSE
        /\ file = [i \in Ino |-> 0] /\ size = [v \in Version |-> 0]
    BY DEF Init
  <2>2. 0 \in 0..MaxVersion /\ 0 \in 0..MaxSize
    BY Positive
  <2>3. file \in [Ino -> 0..MaxVersion] /\ size \in [Version -> 0..MaxSize]
    BY <2>1, <2>2
  <2>4. \A i \in Ino : file[i] = 0
    BY <2>1
  <2>5. \A i \in Ino : file[i] <= versions
    BY <2>1, <2>4
  <2>6. \A i, j \in Ino : file[i] = file[j] /\ file[i] > 0 => i = j
    BY <2>4
  <2>7. versions \in 0..MaxVersion /\ truncated \in BOOLEAN
    BY <2>1, <2>2
  <2> QED
    BY <2>1, <2>3, <2>5, <2>6, <2>7 DEF FilesSound
<1>2. WorkerSound
  <2>1. /\ pc = "down" /\ again = FALSE /\ openIno = NoFile /\ offset = 0 /\ limit = 0
        /\ partial = <<>> /\ batch = <<>>
    BY DEF Init
  <2>2. /\ partial \in Seq(Byte) /\ Len(partial) = 0
        /\ batch \in Seq(Line) /\ Len(batch) = 0
    BY <2>1, EmptyIsSeq
  <2>3. /\ offset \in 0..MaxSize /\ limit \in 0..MaxSize
        /\ Len(partial) <= offset /\ Len(batch) < BatchSize /\ Len(batch) <= BatchSize
    BY <2>1, <2>2, Positive
  <2>4. /\ pc \in Steps /\ ~(pc \in Draining) /\ pc # "open" /\ again \in BOOLEAN
    BY <2>1 DEF Steps, Draining
  <2> QED
    BY <2>1, <2>2, <2>3, <2>4, Zenon DEF WorkerSound
<1>3. StoreSound
  BY Positive DEF Init, StoreSound, NothingSaved, Positions
<1> QED
  BY <1>1, <1>2, <1>3 DEF TypeInv

\* The version of a file that is open or at the path.
LEMMA FileFacts ==
    ASSUME FilesSound, NEW i \in {path, openIno}, i # NoFile
    PROVE  i \in Ino /\ file[i] \in Version /\ size[file[i]] \in 0..MaxSize
<1>1. i \in Ino /\ file[i] \in 0..MaxVersion /\ file[i] > 0
  BY DEF FilesSound
<1>2. file[i] \in Version
  BY <1>1, Positive DEF Version
<1> QED
  BY <1>1, <1>2 DEF FilesSound

LEMMA CreateFiles ==
    ASSUME FilesSound, NEW i \in Ino, Create(i)
    PROVE  FilesSound'
<1>1. /\ path' = i /\ versions' = versions + 1 /\ versions < MaxVersion /\ i # openIno
      /\ file' = [file EXCEPT ![i] = versions + 1]
      /\ UNCHANGED <<size, truncated, openIno>>
  BY DEF Create, Free, tailVars
<1>2. versions' \in 0..MaxVersion /\ versions' > 0 /\ versions \in Nat
  BY <1>1, Positive DEF FilesSound
<1>3. /\ file'[i] = versions' /\ \A k \in Ino \ {i} : file'[k] = file[k]
      /\ file' \in [Ino -> 0..MaxVersion]
  BY <1>1, <1>2 DEF FilesSound
<1>4. \A k \in Ino : file[k] < versions'
  BY <1>1, <1>2 DEF FilesSound
<1>5. \A k \in Ino : file'[k] <= versions'
  BY <1>1, <1>2, <1>3, <1>4 DEF FilesSound
<1>6. ASSUME NEW k \in Ino, NEW m \in Ino, file'[k] = file'[m], file'[k] > 0
      PROVE  k = m
  BY <1>2, <1>3, <1>4, <1>6 DEF FilesSound
<1> QED
  BY <1>1, <1>2, <1>3, <1>5, <1>6, NoFileAssumption DEF FilesSound

LEMMA TruncateFiles ==
    ASSUME FilesSound, Truncate
    PROVE  FilesSound'
<1>1. /\ path # NoFile /\ versions' = versions + 1 /\ versions < MaxVersion
      /\ file' = [file EXCEPT ![path] = versions + 1]
      /\ path' = path /\ size' = size /\ openIno' = openIno /\ truncated' = TRUE
  BY DEF Truncate, tailVars
<1>2. versions' \in 0..MaxVersion /\ versions' > 0 /\ versions \in Nat /\ path \in Ino
  BY <1>1, Positive DEF FilesSound
<1>3. /\ file'[path] = versions' /\ \A k \in Ino \ {path} : file'[k] = file[k]
      /\ file' \in [Ino -> 0..MaxVersion]
  BY <1>1, <1>2 DEF FilesSound
<1>4. \A k \in Ino : file[k] < versions'
  BY <1>1, <1>2 DEF FilesSound
<1>5. \A k \in Ino : file'[k] <= versions'
  BY <1>1, <1>2, <1>3, <1>4 DEF FilesSound
<1>6. ASSUME NEW k \in Ino, NEW m \in Ino, file'[k] = file'[m], file'[k] > 0
      PROVE  k = m
  BY <1>2, <1>3, <1>4, <1>6 DEF FilesSound
<1> QED
  BY <1>1, <1>2, <1>3, <1>5, <1>6 DEF FilesSound

LEMMA CaddyTypes ==
    ASSUME TypeInv, Caddy
    PROVE  TypeInv'
<1>1. FilesSound'
  <2>1. CASE \E i \in Ino : Create(i)
    BY <2>1, CreateFiles DEF TypeInv
  <2>2. CASE RollAway
    BY <2>2 DEF RollAway, TypeInv, FilesSound, tailVars
  <2>3. ASSUME NEW n \in 1..LineLen, Write(n)
        PROVE  FilesSound'
    <3>1. file[path] \in Version /\ size[file[path]] \in 0..MaxSize
      BY <2>3, FileFacts DEF Write, TypeInv
    <3>2. size[file[path]] + n \in 0..MaxSize
      BY <2>3, <3>1, Positive DEF Write
    <3>3. size' = [size EXCEPT ![file[path]] = size[file[path]] + n]
      BY <2>3 DEF Write
    <3> QED
      BY <2>3, <3>1, <3>2, <3>3 DEF Write, TypeInv, FilesSound, tailVars
  <2>4. CASE Truncate
    BY <2>4, TruncateFiles DEF TypeInv
  <2> QED
    BY <2>1, <2>2, <2>3, <2>4 DEF Caddy
<1>2. UNCHANGED <<pc, tailVars, drainVars, dbVars, dropped, crashes, failures>>
  BY DEF Caddy, Create, RollAway, Write, Truncate
<1>3. pc = "open" => path' # openIno \/ path' = NoFile
  <2>1. path' = path \/ path' = NoFile \/ (path' \in Ino /\ path' # openIno)
    BY DEF Caddy, Create, RollAway, Write, Truncate, Free
  <2> QED
    BY <2>1 DEF TypeInv, WorkerSound
<1>4. WorkerSound'
  BY <1>2, <1>3 DEF TypeInv, WorkerSound, tailVars, drainVars
<1>5. StoreSound'
  BY <1>2 DEF TypeInv, StoreSound, dbVars
<1> QED
  BY <1>1, <1>4, <1>5 DEF TypeInv

\* Steps of the worker leave the files alone; it opens the one at the path.
LEMMA FilesKept ==
    ASSUME FilesSound, caddyVars' = caddyVars, openIno' \in {openIno, path, NoFile}
    PROVE  FilesSound'
BY DEF FilesSound, caddyVars

LEMMA CrashTypes ==
    ASSUME TypeInv, Crash
    PROVE  TypeInv'
<1>1. FilesSound'
  BY FilesKept DEF Crash, TypeInv
<1>2. WorkerSound'
  <2>1. /\ pc' = "down" /\ again' = FALSE /\ openIno' = NoFile /\ offset' = 0 /\ limit' = 0
        /\ partial' = <<>> /\ batch' = <<>>
    BY DEF Crash
  <2>2. /\ partial' \in Seq(Byte) /\ Len(partial') = 0
        /\ batch' \in Seq(Line) /\ Len(batch') = 0
    BY <2>1, EmptyIsSeq
  <2>3. /\ offset' \in 0..MaxSize /\ limit' \in 0..MaxSize
        /\ Len(partial') <= offset' /\ Len(batch') < BatchSize /\ Len(batch') <= BatchSize
    BY <2>1, <2>2, Positive
  <2>4. /\ pc' \in Steps /\ ~(pc' \in Draining) /\ pc' # "open" /\ again' \in BOOLEAN
    BY <2>1 DEF Steps, Draining
  <2> QED
    BY <2>1, <2>2, <2>3, <2>4, Zenon DEF WorkerSound
<1>3. StoreSound'
  BY Positive DEF Crash, TypeInv, StoreSound, dbVars
<1> QED
  BY <1>1, <1>2, <1>3 DEF TypeInv

LEMMA AfterReadsStep ==
    ASSUME AfterReads
    PROVE  pc' \in {"flushLast", "save", "stat"}
BY DEF AfterReads

\* A position to save.
LEMMA TailStateType ==
    ASSUME TypeInv, openIno # NoFile
    PROVE  TailState \in Positions
<1>1. openIno \in Ino /\ file[openIno] \in 0..MaxVersion
  BY DEF TypeInv, FilesSound
<1>2. Len(partial) \in Nat /\ Len(partial) <= offset /\ offset \in 0..MaxSize
  BY DEF TypeInv, WorkerSound
<1>3. offset - Len(partial) \in 0..MaxSize
  BY <1>2, Positive
<1> QED
  BY <1>1, <1>3 DEF TailState, Positions

LEMMA BytesType ==
    ASSUME NEW v \in Version, NEW m \in Nat, NEW n \in Nat, m <= n, n <= MaxSize
    PROVE  Bytes(v, m, n) \in Seq(Byte) /\ Len(Bytes(v, m, n)) = n - m
<1>1. n - m \in Nat
  OBVIOUS
<1>2. \A i \in 1..(n - m) : <<v, m + i>> \in Byte
  BY Positive DEF Byte
<1> QED
  BY <1>1, <1>2 DEF Bytes

\* A set of numbers that is finite and not empty has a least one.
LEMMA HasLeast ==
    ASSUME NEW D, D \subseteq Nat, IsFiniteSet(D), D # {}
    PROVE  \E d \in D : \A e \in D : d <= e
<1> DEFINE UpTo(d) == {e \in D : e <= d}
           Segments == {UpTo(d) : d \in D}
           R == StrictSubsetOrdering(D)
<1>1. IsWellFoundedOn(R, SUBSET D)
  BY FS_StrictSubsetOrderingWellFounded, FS_FiniteSubsetsOfFinite
<1>2. Segments \subseteq SUBSET D /\ Segments # {}
  OBVIOUS
<1>3. PICK A \in Segments : \A B \in Segments : ~(<<B, A>> \in R)
  <2> HIDE DEF R, Segments
  <2> QED
    BY <1>1, <1>2, WFMin
<1>4. PICK d \in D : A = UpTo(d)
  BY <1>3
<1>5. ASSUME NEW e \in D, e < d
      PROVE  FALSE
  <2>1. UpTo(e) \in Segments
    OBVIOUS
  <2>2. ASSUME NEW z \in D, z <= e
        PROVE  z <= d
    BY <1>5, <2>2
  <2>3. d <= d /\ ~(d <= e)
    BY <1>5
  <2>5. UpTo(e) \subseteq UpTo(d) /\ d \in UpTo(d) /\ d \notin UpTo(e)
    BY <2>2, <2>3
  <2>4. <<UpTo(e), UpTo(d)>> \in R
    BY <2>5 DEF StrictSubsetOrdering
  <2> QED
    BY <1>3, <1>4, <2>1, <2>4
<1> QED
  BY <1>5

LEMMA FirstNewlineFacts ==
    ASSUME partial \in Seq(Byte), Newlines # {}
    PROVE  /\ FirstNewline \in Newlines /\ FirstNewline \in 1..Len(partial)
           /\ \A i \in Newlines : FirstNewline <= i
<1>1. Newlines \subseteq 1..Len(partial) /\ Len(partial) \in Nat
  BY DEF Newlines
<1>2. IsFiniteSet(Newlines) /\ Newlines \subseteq Nat
  <2>1. IsFiniteSet(1..Len(partial))
    BY <1>1, FS_Interval
  <2>2. IsFiniteSet(Newlines)
    BY <1>1, <2>1, FS_Subset
  <2> QED
    BY <1>1, <2>2
<1>3. \E i \in Newlines : \A j \in Newlines : i <= j
  BY <1>2, HasLeast
<1> QED
  BY <1>1, <1>3 DEF FirstNewline

LEMMA ParseTypes ==
    ASSUME TypeInv, Parse
    PROVE  WorkerSound'
<1> DEFINE k == FirstNewline
           lines == Parsed(SubSeq(partial, 1, k))
<1>1. /\ partial \in Seq(Byte) /\ Len(partial) <= offset /\ offset \in 0..MaxSize
      /\ batch \in Seq(Line) /\ Len(batch) < BatchSize /\ openIno # NoFile
      /\ Len(partial) \in Nat /\ Len(batch) \in Nat
  BY DEF Parse, TypeInv, WorkerSound, Draining
<1>2. k \in 1..Len(partial)
  BY <1>1, FirstNewlineFacts DEF Parse
<1>3. partial' = SubSeq(partial, k + 1, Len(partial))
  BY DEF Parse
<1>4. /\ batch' = (IF lines = {} THEN batch ELSE Append(batch, CHOOSE l \in lines : TRUE))
      /\ pc' = IF Len(batch') >= BatchSize THEN "flush" ELSE "parse"
      /\ UNCHANGED <<openIno, offset, again, limit>>
  BY DEF Parse
<1> HIDE DEF k
<1>5. partial' \in Seq(Byte) /\ Len(partial') <= offset
  BY <1>1, <1>2, <1>3
<1>6. lines # {} => (CHOOSE l \in lines : TRUE) \in Line
  BY DEF Parsed
<1> HIDE DEF lines
<1>7. batch' \in Seq(Line) /\ Len(batch') <= BatchSize
  BY <1>1, <1>4, <1>6, Positive
<1> QED
  BY <1>1, <1>4, <1>5, <1>7, Positive DEF WorkerSound, Steps, Draining, TypeInv

LEMMA ReadTypes ==
    ASSUME TypeInv, Read
    PROVE  WorkerSound'
<1> DEFINE v == file[openIno]
           n == offset + Readable
<1>1. /\ openIno # NoFile /\ partial \in Seq(Byte) /\ Len(partial) <= offset
      /\ offset \in 0..MaxSize /\ limit \in 0..MaxSize /\ Len(partial) \in Nat
      /\ batch \in Seq(Line) /\ Len(batch) < BatchSize
  BY DEF Read, TypeInv, WorkerSound, Draining
<1>2. v \in Version /\ size[v] \in 0..MaxSize
  BY <1>1, FileFacts DEF TypeInv
<1>3. Readable \in Nat /\ n <= size[v] /\ n \in 0..MaxSize /\ offset <= n
  <2>1. Readable > 0
    BY DEF Read
  <2>2. Readable \in Int /\ Readable <= size[v] - offset
    <3>1. Readable = Least(Least(Chunk, limit - offset), size[v] - offset)
      BY DEF Readable
    <3> HIDE DEF v, n
    <3> QED
      BY <1>1, <1>2, <3>1, Positive DEF Least
  <2> DEFINE r == Readable
  <2> HIDE DEF v, r
  <2>3. /\ r \in Int /\ r > 0 /\ r <= size[v] - offset /\ n = offset + r
        /\ offset \in Nat /\ offset <= MaxSize /\ size[v] \in Nat /\ size[v] <= MaxSize
        /\ MaxSize \in Nat
    BY <1>1, <1>2, <2>1, <2>2, Positive DEF r
  <2> HIDE DEF n
  <2>4. r \in Nat /\ n <= size[v] /\ n \in 0..MaxSize /\ offset <= n
    BY <2>3
  <2> QED
    BY <2>4 DEF r
<1>4. /\ partial' = partial \o Bytes(v, offset, n) /\ offset' = n /\ pc' = "parse"
      /\ UNCHANGED <<caddyVars, openIno, drainVars>>
  BY DEF Read
<1> HIDE DEF v, n
<1>5. Bytes(v, offset, n) \in Seq(Byte) /\ Len(Bytes(v, offset, n)) = n - offset
  <2>1. n \in Nat /\ n <= MaxSize /\ offset \in Nat
    BY <1>1, <1>3
  <2> QED
    BY <1>2, <1>3, <2>1, BytesType
<1>6. partial' \in Seq(Byte) /\ Len(partial') = Len(partial) + (n - offset)
  BY <1>1, <1>4, <1>5
<1>7. Len(partial') <= offset'
  BY <1>1, <1>3, <1>4, <1>6
<1> QED
  BY <1>1, <1>3, <1>4, <1>6, <1>7
     DEF WorkerSound, Steps, Draining, TypeInv, drainVars, caddyVars

LEMMA WorkerTypes ==
    ASSUME TypeInv, Worker \/ ReadFails \/ FlushFails \/ PersistFails
    PROVE  TypeInv'
<1>1. FilesSound /\ WorkerSound /\ StoreSound
  BY DEF TypeInv
<1>2. caddyVars' = caddyVars /\ openIno' \in {openIno, path}
  BY DEF Worker, ReadFails, FlushFails, PersistFails, InitStat, InitOpen, Tick, Drain, Read,
         ReadsEnd, Parse, ParseEnds, Flush, Persist, Save, Stat, Open, OpenPath, tailVars
<1>3. FilesSound'
  BY <1>1, <1>2, FilesKept
<1>4. WorkerSound'
  <2>1. CASE InitStat
    <3>1. offset' \in 0..MaxSize
      <4>1. saved.offset \in 0..MaxSize
        BY <1>1 DEF StoreSound, Positions
      <4> QED
        BY <1>1, <2>1, <4>1, Positive DEF InitStat, WorkerSound
    <3>2. partial = <<>> /\ Len(partial) = 0 /\ pc' \in {"idle", "opening"}
      BY <1>1, <2>1 DEF InitStat, WorkerSound
    <3> QED
      BY <1>1, <2>1, <3>1, <3>2, Positive DEF InitStat, WorkerSound, drainVars, Steps, Draining
  <2>2. CASE InitOpen
    BY <1>1, <2>2, Positive DEF InitOpen, OpenPath, WorkerSound, drainVars, Steps, Draining
  <2>3. CASE Tick \/ ReadsEnd \/ ParseEnds \/ Stat
    BY <1>1, <2>3, AfterReadsStep
       DEF Tick, ReadsEnd, ParseEnds, Stat, WorkerSound, tailVars, drainVars, caddyVars, Steps,
           Draining, AfterReads
  <2>4. CASE ReadFails
    BY <1>1, <2>4 DEF ReadFails, AfterReads, WorkerSound, tailVars, drainVars, caddyVars, Steps,
                      Draining
  <2>5. CASE Drain
    <3>1. limit' \in 0..MaxSize
      BY <1>1, <2>5, FileFacts DEF Drain, WorkerSound, Draining
    <3>2. \/ offset' = 0 /\ partial' = <<>>
          \/ offset' = offset /\ partial' = partial
      BY <2>5 DEF Drain
    <3>3. /\ offset' \in 0..MaxSize /\ partial' \in Seq(Byte)
          /\ Len(partial') \in Nat /\ Len(partial') <= offset'
      <4>1. CASE offset' = 0 /\ partial' = <<>>
        <5>1. partial' \in Seq(Byte) /\ Len(partial') = 0
          BY <4>1, EmptyIsSeq
        <5> QED
          BY <4>1, <5>1, Positive
      <4>2. CASE offset' = offset /\ partial' = partial
        BY <1>1, <4>2 DEF WorkerSound
      <4> QED
        BY <3>2, <4>1, <4>2
    <3> QED
      BY <1>1, <2>5, <3>1, <3>3 DEF Drain, WorkerSound, caddyVars, Steps, Draining
  <2>6. CASE Flush \/ FlushFails
    <3>1. batch' = <<>> /\ batch' \in Seq(Line) /\ Len(batch') = 0
      BY <2>6, EmptyIsSeq DEF Flush, FlushFails
    <3> QED
      BY <1>1, <2>6, <3>1, Positive
         DEF Flush, FlushFails, WorkerSound, tailVars, caddyVars, Steps, Draining
  <2>7. CASE Persist \/ Save \/ PersistFails
    BY <1>1, <2>7
       DEF Persist, Save, PersistFails, WorkerSound, tailVars, drainVars, caddyVars, Steps,
           Draining
  <2>8. CASE Open
    <3>1. \/ offset' = 0 /\ partial' = <<>>
          \/ offset' = offset /\ partial' = partial
      BY <2>8 DEF Open, OpenPath
    <3>2. /\ offset' \in 0..MaxSize /\ partial' \in Seq(Byte)
          /\ Len(partial') \in Nat /\ Len(partial') <= offset'
      <4>1. CASE offset' = 0 /\ partial' = <<>>
        <5>1. partial' \in Seq(Byte) /\ Len(partial') = 0
          BY <4>1, EmptyIsSeq
        <5> QED
          BY <4>1, <5>1, Positive
      <4>2. CASE offset' = offset /\ partial' = partial
        BY <1>1, <4>2 DEF WorkerSound
      <4> QED
        BY <3>1, <4>1, <4>2
    <3> QED
      BY <1>1, <2>8, <3>2 DEF Open, OpenPath, WorkerSound, caddyVars, Steps, Draining
  <2> QED
    BY <2>1, <2>2, <2>3, <2>4, <2>5, <2>6, <2>7, <2>8, ParseTypes, ReadTypes DEF Worker
<1>5. StoreSound'
  <2>1. counted' \in [Line -> Nat]
    <3>1. CASE Flush
      <4>1. \A l \in Line : Cardinality({i \in DOMAIN batch : batch[i] = l}) \in Nat
        <5> SUFFICES ASSUME NEW l \in Line
                     PROVE  Cardinality({i \in DOMAIN batch : batch[i] = l}) \in Nat
          OBVIOUS
        <5>1. Len(batch) \in Nat /\ DOMAIN batch = 1..Len(batch)
          BY <1>1 DEF WorkerSound
        <5>2. IsFiniteSet(1..Len(batch))
          BY <5>1, FS_Interval
        <5>3. IsFiniteSet({i \in DOMAIN batch : batch[i] = l})
          BY <5>1, <5>2, FS_Subset
        <5> QED
          BY <5>3, FS_CardinalityType
      <4>2. counted' = [l \in Line |->
                          counted[l] + Cardinality({i \in DOMAIN batch : batch[i] = l})]
        BY <3>1 DEF Flush
      <4> QED
        BY <1>1, <4>1, <4>2 DEF StoreSound
    <3>2. CASE ~Flush
      BY <1>1, <3>2
         DEF Worker, ReadFails, FlushFails, PersistFails, InitStat, InitOpen, Tick, Drain, Read,
             ReadsEnd, Parse, ParseEnds, Persist, Save, Stat, Open, dbVars, StoreSound
    <3> QED
      BY <3>1, <3>2
  <2>2. saved' \in Positions
    <3>1. saved' = saved \/ (openIno # NoFile /\ saved' = TailState)
      BY <1>1
         DEF Worker, ReadFails, FlushFails, PersistFails, InitStat, InitOpen, Tick, Drain, Read,
             ReadsEnd, Parse, ParseEnds, Flush, Persist, Save, Stat, Open, dbVars, WorkerSound,
             Draining
    <3> QED
      BY <1>1, <3>1, TailStateType DEF StoreSound
  <2>3. dropped' \subseteq Line
    <3>1. {batch[i] : i \in DOMAIN batch} \subseteq Line
      BY <1>1 DEF WorkerSound
    <3>2. dropped' = dropped \/ dropped' = dropped \union {batch[i] : i \in DOMAIN batch}
      BY DEF Worker, ReadFails, FlushFails, PersistFails, InitStat, InitOpen, Tick, Drain, Read,
             ReadsEnd, Parse, ParseEnds, Flush, Persist, Save, Stat, Open
    <3> QED
      BY <1>1, <3>1, <3>2 DEF StoreSound
  <2>4. crashes' = crashes
    BY DEF Worker, ReadFails, FlushFails, PersistFails, InitStat, InitOpen, Tick, Drain, Read,
           ReadsEnd, Parse, ParseEnds, Flush, Persist, Save, Stat, Open
  <2>5. failures' = failures \/ (failures < MaxFailures /\ failures' = failures + 1)
    BY DEF Worker, ReadFails, FlushFails, PersistFails, InitStat, InitOpen, Tick, Drain, Read,
           ReadsEnd, Parse, ParseEnds, Flush, Persist, Save, Stat, Open
  <2>6. failures' \in 0..MaxFailures
    BY <1>1, <2>5, Positive DEF StoreSound
  <2> QED
    BY <1>1, <2>1, <2>2, <2>3, <2>4, <2>6 DEF StoreSound
<1> QED
  BY <1>3, <1>4, <1>5 DEF TypeInv

LEMMA TypeStep == TypeInv /\ [Next]_vars => TypeInv'
<1>1. ASSUME TypeInv, UNCHANGED vars
      PROVE  TypeInv'
  BY <1>1 DEF TypeInv, FilesSound, WorkerSound, StoreSound, vars, caddyVars, tailVars, drainVars,
              dbVars
<1> QED
  BY <1>1, CaddyTypes, WorkerTypes, CrashTypes DEF Next, Failure

-----------------------------------------------------------------------------
(* A line is counted at most once in a run of the server                   *)

\* Where a line ends, and its newline.
End(l) == l[2] * LineLen
Newline(l) == <<l[1], End(l)>>

\* How often a line is in a sequence.
Occurrences(s, l) == Cardinality({i \in DOMAIN s : s[i] = l})

\* How often a line went into the counters, or is about to.
Taken(l) == counted[l] + Occurrences(batch, l)

\* The worker may still read the end of the line: its file is to come, or at
\* the path and not open yet, or open and not read so far, or shrunk.
Ahead(l) ==
    \/ l[1] > versions
    \/ path # NoFile /\ path # openIno /\ l[1] = file[path]
    \/ /\ openIno # NoFile
       /\ l[1] = file[openIno]
       /\ End(l) > offset \/ offset > size[file[openIno]]

\* It was read, and is not parsed yet.
Pending(l) == \E i \in 1..Len(partial) : partial[i] = Newline(l)

\* A byte that was read lies behind the offset of its file, and its file is no
\* longer one to be opened.
ByteSound(b) ==
    /\ b[1] <= versions
    /\ path # NoFile /\ path # openIno => file[path] # b[1]
    /\ openIno # NoFile /\ file[openIno] = b[1] => b[2] <= offset /\ offset <= size[b[1]]

PartialSound ==
    /\ \A i \in 1..Len(partial) : ByteSound(partial[i])
    /\ \A i, j \in 1..Len(partial) : partial[i] = partial[j] => i = j

\* The lines this run may still take were taken by earlier ones only.
RunSound ==
    \A l \in Line : /\ Taken(l) <= 1 + crashes
                    /\ Ahead(l) \/ Pending(l) => Taken(l) <= crashes

RecountInv == TypeInv /\ PartialSound /\ RunSound

LEMMA LineType ==
    ASSUME NEW l \in Line
    PROVE  l = <<l[1], l[2]>> /\ l[1] \in Version /\ l[1] \in Nat /\ l[2] \in Int /\ End(l) \in Int
<1>1. l = <<l[1], l[2]>> /\ l[1] \in Version /\ l[2] \in Int
  BY DEF Line
<1>2. l[1] \in Nat
  BY <1>1, Positive DEF Version
<1> QED
  BY <1>1, <1>2, Positive DEF End

LEMMA OccurrencesType ==
    ASSUME NEW s \in Seq(Line), NEW l
    PROVE  /\ IsFiniteSet({i \in DOMAIN s : s[i] = l})
           /\ Occurrences(s, l) \in Nat
<1>1. Len(s) \in Nat /\ DOMAIN s = 1..Len(s)
  OBVIOUS
<1>2. IsFiniteSet(1..Len(s))
  BY <1>1, FS_Interval
<1>3. IsFiniteSet({i \in DOMAIN s : s[i] = l})
  BY <1>1, <1>2, FS_Subset
<1> QED
  BY <1>3, FS_CardinalityType DEF Occurrences

LEMMA OccurrencesNone ==
    ASSUME NEW l
    PROVE  Occurrences(<<>>, l) = 0
<1>1. {i \in DOMAIN <<>> : <<>>[i] = l} = {}
  OBVIOUS
<1> QED
  BY <1>1, FS_EmptySet DEF Occurrences

LEMMA OccurrencesAppend ==
    ASSUME NEW s \in Seq(Line), NEW m \in Line, NEW l \in Line
    PROVE  Occurrences(Append(s, m), l) = Occurrences(s, l) + IF l = m THEN 1 ELSE 0
<1> DEFINE At(q) == {i \in DOMAIN q : q[i] = l}
           t == Append(s, m)
           n == Len(s) + 1
<1>1. Len(s) \in Nat /\ DOMAIN s = 1..Len(s) /\ DOMAIN t = 1..n /\ t[n] = m
  OBVIOUS
<1>2. \A i \in 1..Len(s) : t[i] = s[i]
  OBVIOUS
<1>3. /\ IsFiniteSet(At(s)) /\ Cardinality(At(s)) \in Nat /\ n \notin At(s)
      /\ Occurrences(s, l) = Cardinality(At(s)) /\ Occurrences(t, l) = Cardinality(At(t))
  <2>1. IsFiniteSet(At(s)) /\ Occurrences(s, l) \in Nat
    BY OccurrencesType
  <2>2. n \notin At(s)
    BY <1>1
  <2>3. Occurrences(s, l) = Cardinality(At(s)) /\ Occurrences(t, l) = Cardinality(At(t))
    BY DEF Occurrences
  <2> QED
    BY <2>1, <2>2, <2>3
<1> HIDE DEF t, At
<1>4. CASE l = m
  <2>1. At(t) = At(s) \union {n}
    BY <1>1, <1>2, <1>4 DEF At
  <2>2. Cardinality(At(s) \union {n}) = Cardinality(At(s)) + 1
    BY <1>3, FS_AddElement
  <2> QED
    BY <1>3, <1>4, <2>1, <2>2 DEF t
<1>5. CASE l # m
  <2>1. At(t) = At(s)
    BY <1>1, <1>2, <1>5 DEF At
  <2> QED
    BY <1>3, <1>5, <2>1 DEF t
<1> QED
  BY <1>4, <1>5

LEMMA TakenType ==
    ASSUME TypeInv, NEW l \in Line
    PROVE  Taken(l) \in Nat /\ counted[l] \in Nat /\ Occurrences(batch, l) \in Nat
<1>1. batch \in Seq(Line) /\ counted[l] \in Nat
  BY DEF TypeInv, WorkerSound, StoreSound
<1>2. Occurrences(batch, l) \in Nat
  BY <1>1, OccurrencesType
<1> QED
  BY <1>1, <1>2 DEF Taken

\* Nothing read, nothing open: the invariant says nothing of the bytes.
LEMMA NothingRead ==
    ASSUME partial' = <<>>
    PROVE  PartialSound' /\ \A l \in Line : ~Pending(l)'
<1>1. Len(partial') = 0
  BY EmptyIsSeq
<1> QED
  BY <1>1 DEF PartialSound, Pending

\* A step that takes nothing, and brings nothing closer.
LEMMA NothingTaken ==
    ASSUME RecountInv, crashes' = crashes,
           \A l \in Line : Taken(l)' <= Taken(l) /\ Taken(l)' \in Nat,
           \A l \in Line : (Ahead(l) \/ Pending(l))' => Ahead(l) \/ Pending(l)
    PROVE  RunSound'
<1>1. \A l \in Line : Taken(l) \in Nat
  BY TakenType DEF RecountInv
<1>2. crashes \in Nat
  BY Positive DEF RecountInv, TypeInv, StoreSound
<1> QED
  BY <1>1, <1>2 DEF RecountInv, RunSound

LEMMA RecountInit == Init => RecountInv
<1> SUFFICES ASSUME Init PROVE RecountInv
  OBVIOUS
<1>1. TypeInv
  BY TypeInit
<1>2. partial = <<>> /\ Len(partial) = 0 /\ crashes = 0
  BY EmptyIsSeq DEF Init
<1>3. PartialSound
  BY <1>2 DEF PartialSound
<1>4. \A l \in Line : Taken(l) = 0
  <2>1. batch = <<>> /\ counted = [l \in Line |-> 0]
    BY DEF Init
  <2> QED
    BY <2>1, OccurrencesNone DEF Taken
<1> QED
  BY <1>1, <1>2, <1>3, <1>4 DEF RecountInv, RunSound

LEMMA TakenKept ==
    ASSUME TypeInv, counted' = counted, batch' = batch
    PROVE  \A l \in Line : Taken(l)' <= Taken(l) /\ Taken(l)' \in Nat
<1>1. \A l \in Line : Taken(l)' = Taken(l)
  BY DEF Taken
<1> QED
  BY <1>1, TakenType

\* Caddy only puts new versions where the worker looks, and files only grow.
LEMMA CaddyMoves ==
    ASSUME FilesSound, Caddy
    PROVE  /\ versions' \in Nat /\ versions \in Nat /\ versions' >= versions
           /\ path' # NoFile /\ path' # openIno =>
                \/ file'[path'] > versions
                \/ path # NoFile /\ path # openIno /\ file'[path'] = file[path]
           /\ openIno # NoFile => file'[openIno] > versions \/ file'[openIno] = file[openIno]
           /\ \A v \in Version : size[v] \in Nat /\ size'[v] \in Nat /\ size'[v] >= size[v]
<1>1. versions \in Nat /\ \A v \in Version : size[v] \in Nat
  BY Positive DEF FilesSound
<1>2. ASSUME NEW i \in Ino, Create(i)
      PROVE  /\ versions' = versions + 1 /\ size' = size /\ path' = i /\ openIno # i
             /\ file'[i] = versions + 1 /\ \A k \in Ino \ {i} : file'[k] = file[k]
  BY <1>2 DEF Create, Free, FilesSound
<1>3. CASE \E i \in Ino : Create(i)
  <2>1. PICK i \in Ino : Create(i)
    BY <1>3
  <2> QED
    BY <1>1, <1>2, <2>1 DEF FilesSound
<1>4. CASE RollAway
  BY <1>1, <1>4 DEF RollAway
<1>5. ASSUME NEW n \in 1..LineLen, Write(n)
      PROVE  /\ versions' = versions /\ path' = path /\ file' = file
             /\ \A v \in Version : size'[v] \in Nat /\ size'[v] >= size[v]
  <2>1. file[path] \in Version /\ n \in Nat
    BY <1>5, FileFacts, Positive DEF Write
  <2>2. size' = [size EXCEPT ![file[path]] = size[file[path]] + n]
    BY <1>5 DEF Write
  <2>3. versions' = versions /\ path' = path /\ file' = file
    BY <1>5 DEF Write
  <2>4. \A v \in Version : size'[v] = IF v = file[path] THEN size[v] + n ELSE size[v]
    BY <2>2 DEF FilesSound
  <2> QED
    BY <1>1, <2>1, <2>3, <2>4
<1>6. CASE \E n \in 1..LineLen : Write(n)
  <2>1. PICK n \in 1..LineLen : Write(n)
    BY <1>6
  <2> QED
    BY <1>1, <1>5, <2>1
<1>7. CASE Truncate
  <2>1. /\ versions' = versions + 1 /\ size' = size /\ path' = path /\ path \in Ino
        /\ file'[path] = versions + 1 /\ \A k \in Ino \ {path} : file'[k] = file[k]
    BY <1>7 DEF Truncate, FilesSound
  <2> QED
    BY <1>1, <2>1 DEF FilesSound
<1> QED
  BY <1>3, <1>4, <1>6, <1>7 DEF Caddy

LEMMA CaddyRecount ==
    ASSUME RecountInv, Caddy
    PROVE  PartialSound' /\ RunSound'
<1>1. TypeInv /\ FilesSound /\ WorkerSound /\ TypeInv' /\ FilesSound'
  BY CaddyTypes DEF RecountInv, TypeInv
<1>2. /\ openIno' = openIno /\ offset' = offset /\ partial' = partial
      /\ counted' = counted /\ batch' = batch /\ crashes' = crashes
  BY DEF Caddy, Create, RollAway, Write, Truncate, tailVars, drainVars, dbVars
<1>3. /\ \A i \in 1..Len(partial) : partial[i] \in Byte
      /\ offset \in Nat
  BY <1>1, Positive DEF WorkerSound
<1>4. ASSUME NEW b \in Byte, ByteSound(b)
      PROVE  ByteSound(b)'
  <2>1. b[1] \in Version /\ b[1] \in Nat /\ b[2] \in Nat
    BY Positive DEF Byte, Version
  <2>2. b[1] <= versions'
    BY <1>1, <1>4, <2>1, CaddyMoves DEF ByteSound
  <2>3. path' # NoFile /\ path' # openIno' => file'[path'] # b[1]
    BY <1>1, <1>2, <1>4, <2>1, CaddyMoves DEF ByteSound
  <2>4. openIno' # NoFile /\ file'[openIno'] = b[1] => b[2] <= offset' /\ offset' <= size'[b[1]]
    BY <1>1, <1>2, <1>3, <1>4, <2>1, CaddyMoves DEF ByteSound
  <2> QED
    BY <2>2, <2>3, <2>4 DEF ByteSound
<1>5. PartialSound'
  BY <1>2, <1>3, <1>4 DEF PartialSound, RecountInv
<1>6. ASSUME NEW l \in Line, Ahead(l)'
      PROVE  Ahead(l)
  <2>1. l[1] \in Version /\ l[1] \in Nat /\ End(l)' = End(l)
    BY LineType DEF End
  <2>2. CASE l[1] > versions'
    BY <1>1, <2>1, <2>2, CaddyMoves DEF Ahead
  <2>3. CASE path' # NoFile /\ path' # openIno' /\ l[1] = file'[path']
    BY <1>1, <1>2, <2>1, <2>3, CaddyMoves DEF Ahead
  <2>4. CASE /\ openIno' # NoFile /\ l[1] = file'[openIno']
             /\ End(l)' > offset' \/ offset' > size'[file'[openIno']]
    <3>1. CASE file'[openIno] > versions
      BY <1>2, <2>4, <3>1 DEF Ahead
    <3>2. CASE file'[openIno] = file[openIno]
      BY <1>1, <1>2, <1>3, <2>1, <2>4, <3>2, CaddyMoves DEF Ahead
    <3> QED
      BY <1>1, <1>2, <2>4, <3>1, <3>2, CaddyMoves
  <2> QED
    BY <1>6, <2>2, <2>3, <2>4 DEF Ahead
<1>7. \A l \in Line : Pending(l)' => Pending(l)
  BY <1>2 DEF Pending, Newline, End
<1>8. RunSound'
  BY <1>1, <1>2, <1>6, <1>7, TakenKept, NothingTaken
<1> QED
  BY <1>5, <1>8

\* Steps that neither move the tail nor take a line from it.
LEMMA TailKept ==
    ASSUME RecountInv, caddyVars' = caddyVars, tailVars' = tailVars
    PROVE  /\ PartialSound'
           /\ \A l \in Line : (Ahead(l) \/ Pending(l))' => Ahead(l) \/ Pending(l)
<1>1. /\ path' = path /\ file' = file /\ size' = size /\ versions' = versions
      /\ openIno' = openIno /\ offset' = offset /\ partial' = partial
  BY DEF caddyVars, tailVars
<1> QED
  BY <1>1 DEF RecountInv, PartialSound, ByteSound, Ahead, Pending, Newline, End

\* The files at the path and open keep their versions, and what is open
\* afterwards is read from where it was, or was not open before.
LEMMA Opens ==
    ASSUME RecountInv, caddyVars' = caddyVars, path # openIno, openIno' = path,
           path # NoFile
    PROVE  \A l \in Line : Ahead(l)' => Ahead(l)
<1> SUFFICES ASSUME NEW l \in Line, Ahead(l)'
             PROVE  Ahead(l)
  OBVIOUS
<1>1. path' = path /\ file' = file /\ size' = size /\ versions' = versions
  BY DEF caddyVars
<1> QED
  BY <1>1 DEF Ahead

LEMMA ClosedRecount ==
    ASSUME RecountInv, InitStat
    PROVE  PartialSound' /\ RunSound'
<1>1. TypeInv /\ openIno = NoFile /\ partial = <<>>
  BY DEF RecountInv, TypeInv, WorkerSound, InitStat
<1>2. /\ openIno' = openIno /\ partial' = <<>> /\ caddyVars' = caddyVars /\ crashes' = crashes
      /\ counted' = counted /\ batch' = batch
  BY <1>1 DEF InitStat, dbVars, drainVars
<1>3. path' = path /\ file' = file /\ versions' = versions
  BY <1>2 DEF caddyVars
<1>4. \A l \in Line : Ahead(l)' => Ahead(l)
  BY <1>1, <1>2, <1>3 DEF Ahead
<1>5. RunSound'
  BY <1>1, <1>2, <1>4, NothingRead, TakenKept, NothingTaken
<1> QED
  BY <1>2, <1>5, NothingRead

LEMMA OpenRecount ==
    ASSUME RecountInv, InitOpen \/ Open
    PROVE  PartialSound' /\ RunSound'
<1>1. /\ TypeInv
      /\ path # NoFile => path # openIno
      /\ pc = "opening" => openIno = NoFile
  BY DEF RecountInv, TypeInv, WorkerSound, InitOpen, Open
<1>2. /\ caddyVars' = caddyVars /\ crashes' = crashes /\ counted' = counted /\ batch' = batch
      /\ openIno' = path /\ path' = path /\ file' = file /\ versions' = versions /\ size' = size
  BY DEF InitOpen, Open, OpenPath, dbVars, drainVars, caddyVars
<1>3. CASE path # NoFile
  <2>1. partial' = <<>>
    BY <1>3 DEF InitOpen, Open, OpenPath
  <2>2. RunSound'
    BY <1>1, <1>2, <1>3, <2>1, Opens, NothingRead, TakenKept, NothingTaken
  <2> QED
    BY <2>1, <2>2, NothingRead
<1>4. CASE path = NoFile
  <2>1. openIno' = NoFile /\ partial' = partial /\ path' = NoFile
    BY <1>2, <1>4 DEF InitOpen, Open, OpenPath
  <2>2. \A l \in Line : (Ahead(l) \/ Pending(l))' => Ahead(l) \/ Pending(l)
    BY <1>2, <2>1 DEF Ahead, Pending, Newline, End
  <2>3. PartialSound'
    BY <1>2, <2>1 DEF RecountInv, PartialSound, ByteSound
  <2> QED
    BY <1>1, <1>2, <2>2, <2>3, TakenKept, NothingTaken
<1> QED
  BY <1>3, <1>4

LEMMA DrainRecount ==
    ASSUME RecountInv, Drain
    PROVE  PartialSound' /\ RunSound'
<1>1. TypeInv /\ openIno # NoFile /\ openIno \in Ino
  BY DEF RecountInv, TypeInv, WorkerSound, FilesSound, Drain, Draining
<1>2. /\ caddyVars' = caddyVars /\ crashes' = crashes /\ counted' = counted /\ batch' = batch
      /\ openIno' = openIno /\ path' = path /\ file' = file /\ versions' = versions /\ size' = size
  BY DEF Drain, dbVars, caddyVars
<1>3. CASE size[file[openIno]] < offset
  <2>1. offset' = 0 /\ partial' = <<>>
    BY <1>3 DEF Drain
  <2>2. offset > size[file[openIno]]
    BY <1>1, <1>3, FileFacts DEF TypeInv, WorkerSound
  <2>3. \A l \in Line : Ahead(l)' => Ahead(l)
    BY <1>2, <2>2 DEF Ahead
  <2>4. RunSound'
    BY <1>1, <1>2, <2>1, <2>3, NothingRead, TakenKept, NothingTaken
  <2> QED
    BY <2>1, <2>4, NothingRead
<1>4. CASE ~(size[file[openIno]] < offset)
  <2>1. tailVars' = tailVars
    BY <1>2, <1>4 DEF Drain, tailVars
  <2> QED
    BY <1>1, <1>2, <2>1, TailKept, TakenKept, NothingTaken
<1> QED
  BY <1>3, <1>4

\* What readSync brings: the bytes between the old and the new offset.
LEMMA ReadBytes ==
    ASSUME TypeInv, Read
    PROVE  \E v \in Version, n \in Nat :
             /\ v = file[openIno] /\ openIno # NoFile /\ openIno' = openIno
             /\ offset' = n /\ offset < n /\ n <= size[v]
             /\ partial' = partial \o Bytes(v, offset, n)
             /\ Len(Bytes(v, offset, n)) = n - offset
             /\ Bytes(v, offset, n) \in Seq(Byte)
             /\ \A i \in 1..(n - offset) : Bytes(v, offset, n)[i] = <<v, offset + i>>
<1> DEFINE v == file[openIno]
           n == offset + Readable
<1>1. openIno # NoFile /\ offset \in 0..MaxSize /\ limit \in 0..MaxSize
  BY DEF Read, TypeInv, WorkerSound, Draining
<1>2. v \in Version /\ size[v] \in 0..MaxSize
  BY <1>1, FileFacts DEF TypeInv
<1>3. n \in Nat /\ n <= size[v] /\ n <= MaxSize /\ offset < n
  BY <1>1, <1>2, Positive DEF Read, Readable, Least
<1>4. partial' = partial \o Bytes(v, offset, n) /\ offset' = n /\ openIno' = openIno
  BY DEF Read
<1> HIDE DEF v, n
<1>5. offset \in Nat /\ offset <= n /\ n - offset \in Nat
  BY <1>1, <1>3, Positive
<1>6. Bytes(v, offset, n) \in Seq(Byte) /\ Len(Bytes(v, offset, n)) = n - offset
  BY <1>2, <1>3, <1>5, BytesType
<1>7. \A i \in 1..(n - offset) : Bytes(v, offset, n)[i] = <<v, offset + i>>
  BY DEF Bytes
<1>8. v = file[openIno]
  BY DEF v
<1> QED
  BY <1>1, <1>2, <1>3, <1>4, <1>6, <1>7, <1>8

LEMMA ReadRecount ==
    ASSUME RecountInv, Read
    PROVE  PartialSound' /\ RunSound'
<1>1. /\ TypeInv /\ FilesSound /\ partial \in Seq(Byte) /\ offset \in Nat
      /\ Len(partial) \in Nat
  BY Positive DEF RecountInv, TypeInv, WorkerSound
<1>2. PICK v \in Version, n \in Nat :
        /\ v = file[openIno] /\ openIno # NoFile /\ openIno' = openIno
        /\ offset' = n /\ offset < n /\ n <= size[v]
        /\ partial' = partial \o Bytes(v, offset, n)
        /\ Len(Bytes(v, offset, n)) = n - offset
        /\ Bytes(v, offset, n) \in Seq(Byte)
        /\ \A i \in 1..(n - offset) : Bytes(v, offset, n)[i] = <<v, offset + i>>
  BY <1>1, ReadBytes
<1>3. /\ path' = path /\ file' = file /\ size' = size /\ versions' = versions
      /\ counted' = counted /\ batch' = batch /\ crashes' = crashes
  BY DEF Read, caddyVars, drainVars, dbVars
<1> DEFINE old == Len(partial)
           Is(i) == \/ i <= old /\ partial'[i] = partial[i]
                    \/ i > old /\ partial'[i] = <<v, offset + (i - old)>>
<1>4. Len(partial') = old + (n - offset) /\ Len(partial') \in Nat
  <2>1. Len(partial') = Len(partial) + Len(Bytes(v, offset, n))
    BY <1>1, <1>2, ConcatProperties
  <2> QED
    BY <1>1, <1>2, <2>1
<1>5. ASSUME NEW i \in 1..Len(partial')
      PROVE  i \in Nat /\ i > 0 /\ Is(i)
  <2>1. i \in Nat /\ i > 0 /\ i <= old + (n - offset)
    BY <1>4
  <2>2. CASE i <= old
    BY <1>1, <1>2, <2>1, <2>2
  <2>3. CASE i > old
    <3>1. i - old \in 1..(n - offset)
      BY <1>1, <1>2, <2>1, <2>3
    <3>2. partial'[i] = Bytes(v, offset, n)[i - old]
      BY <1>1, <1>2, <2>1, <2>3
    <3> QED
      BY <1>2, <2>1, <2>3, <3>1, <3>2
  <2> QED
    BY <1>1, <2>1, <2>2, <2>3
<1>6. /\ openIno \in Ino /\ v \in Nat /\ v <= versions /\ size[v] \in Nat
      /\ path # NoFile /\ path # openIno => file[path] # v
  BY <1>1, <1>2, Positive DEF FilesSound, Version
<1>7. ASSUME NEW i \in 1..Len(partial'), NEW b, b = partial'[i]
      PROVE  ByteSound(b)'
  <2>1. CASE i <= old /\ partial'[i] = partial[i]
    <3>1. i \in 1..old /\ partial[i] \in Byte
      BY <1>1, <1>5, <2>1
    <3>2. ByteSound(partial[i]) /\ partial[i][2] \in Nat
      BY <3>1, Positive DEF RecountInv, PartialSound, Byte
    <3>3. ByteSound(b) /\ b[2] \in Nat
      BY <1>7, <2>1, <3>2
    <3> QED
      BY <1>1, <1>2, <1>3, <1>6, <3>3 DEF ByteSound
  <2>2. CASE i > old /\ partial'[i] = <<v, offset + (i - old)>>
    <3>1. offset + (i - old) <= n
      BY <1>1, <1>2, <1>4, <1>5
    <3>2. b[1] = v /\ b[2] <= n
      BY <1>7, <2>2, <3>1
    <3> QED
      BY <1>2, <1>3, <1>6, <3>2 DEF ByteSound
  <2> QED
    BY <1>5, <2>1, <2>2
<1>8. ASSUME NEW i \in 1..Len(partial'), NEW j \in 1..Len(partial'),
             partial'[i] = partial'[j]
      PROVE  i = j
  <2>1. ASSUME NEW k \in 1..Len(partial'), k <= old, partial'[k] = partial[k],
               partial[k][1] = v
        PROVE  partial[k][2] <= offset
    BY <1>1, <1>2, <1>5, <2>1 DEF RecountInv, PartialSound, ByteSound
  <2>2. \A k \in 1..Len(partial') : k \in Nat /\ k > 0 /\ Is(k)
    BY <1>5
  <2>3. CASE i <= old /\ j <= old
    BY <1>1, <1>8, <2>2, <2>3 DEF RecountInv, PartialSound
  <2>4. CASE i > old /\ j > old
    BY <1>1, <1>8, <2>2, <2>4
  <2>5. CASE i <= old /\ j > old
    BY <1>1, <1>8, <2>1, <2>2, <2>5
  <2>6. CASE i > old /\ j <= old
    BY <1>1, <1>8, <2>1, <2>2, <2>6
  <2> QED
    BY <1>1, <2>2, <2>3, <2>4, <2>5, <2>6
<1>9. PartialSound'
  BY <1>7, <1>8 DEF PartialSound
<1>10. ASSUME NEW l \in Line, (Ahead(l) \/ Pending(l))'
       PROVE  Ahead(l) \/ Pending(l)
  <2>1. l[1] \in Nat /\ End(l) \in Int /\ End(l)' = End(l) /\ Newline(l)' = Newline(l)
    BY LineType DEF End, Newline
  <2>2. CASE Ahead(l)'
    BY <1>1, <1>2, <1>3, <1>6, <2>1, <2>2 DEF Ahead
  <2>3. CASE Pending(l)'
    <3>1. PICK i \in 1..Len(partial') : partial'[i] = Newline(l)
      BY <2>1, <2>3 DEF Pending
    <3>2. CASE i <= old /\ partial'[i] = partial[i]
      BY <1>1, <1>5, <3>1, <3>2 DEF Pending
    <3>3. CASE i > old /\ partial'[i] = <<v, offset + (i - old)>>
      <4>1. l[1] = v /\ End(l) > offset
        BY <1>1, <1>5, <2>1, <3>1, <3>3 DEF Newline
      <4> QED
        BY <1>2, <4>1 DEF Ahead
    <3> QED
      BY <1>5, <3>2, <3>3
  <2> QED
    BY <1>10, <2>2, <2>3
<1> QED
  BY <1>1, <1>3, <1>9, <1>10, TakenKept, NothingTaken

LEMMA SameInterval ==
    ASSUME NEW a \in Nat, NEW b \in Nat, 1..a = 1..b
    PROVE  a = b
<1>1. a > 0 => a \in 1..b
  OBVIOUS
<1>2. b > 0 => b \in 1..a
  OBVIOUS
<1> QED
  BY <1>1, <1>2

\* A line that parses ends with its own newline.
LEMMA ParsedEnds ==
    ASSUME NEW s \in Seq(Byte), s # <<>>, NEW l \in Parsed(s)
    PROVE  l \in Line /\ s[Len(s)] = Newline(l)
<1> DEFINE m == (l[2] - 1) * LineLen
<1>1. l \in Line /\ LineBytes(l) = s
  BY DEF Parsed
<1>2. l[2] \in Int /\ LineLen \in Nat /\ LineLen > 0
  BY <1>1, LineType, Positive
<1>3. m \in Int /\ End(l) = m + LineLen
  BY <1>2 DEF End
<1>4. s = [i \in 1..LineLen |-> <<l[1], m + i>>]
  <2>1. s = [i \in 1..(End(l) - m) |-> <<l[1], m + i>>]
    BY <1>1 DEF LineBytes, Bytes, End
  <2>2. End(l) - m = LineLen
    BY <1>2, <1>3
  <2> QED
    BY <2>1, <2>2
<1> HIDE DEF m
<1>5. Len(s) = LineLen
  <2>1. Len(s) \in Nat /\ DOMAIN s = 1..Len(s)
    OBVIOUS
  <2>2. DOMAIN s = 1..LineLen
    BY <1>4
  <2>3. LineLen \in Nat
    BY <1>2
  <2> QED
    BY <2>1, <2>2, <2>3, SameInterval
<1>6. s[LineLen] = <<l[1], m + LineLen>>
  BY <1>2, <1>4
<1> QED
  BY <1>1, <1>3, <1>5, <1>6 DEF Newline

LEMMA ParseRecount ==
    ASSUME RecountInv, Parse
    PROVE  PartialSound' /\ RunSound'
<1> DEFINE k == FirstNewline
           piece == SubSeq(partial, 1, k)
<1>1. /\ TypeInv /\ partial \in Seq(Byte) /\ batch \in Seq(Line) /\ Len(partial) \in Nat
      /\ crashes \in Nat
  BY Positive DEF RecountInv, TypeInv, WorkerSound, StoreSound
<1>2. k \in 1..Len(partial)
  BY <1>1, FirstNewlineFacts DEF Parse
<1>3. /\ partial' = SubSeq(partial, k + 1, Len(partial))
      /\ path' = path /\ file' = file /\ size' = size /\ versions' = versions
      /\ openIno' = openIno /\ offset' = offset /\ counted' = counted /\ crashes' = crashes
  BY DEF Parse, caddyVars, dbVars
<1>4. \/ batch' = batch
      \/ \E m \in Parsed(piece) : batch' = Append(batch, m)
  BY DEF Parse
<1> HIDE DEF k
<1>5. /\ piece \in Seq(Byte) /\ Len(piece) = k /\ piece # <<>> /\ piece[k] = partial[k]
  <2>1. k \in Nat /\ k >= 1 /\ k <= Len(partial)
    BY <1>1, <1>2
  <2>2. piece \in Seq(Byte) /\ Len(piece) = k
    BY <1>1, <2>1
  <2>3. piece[k] = partial[k]
    BY <1>1, <2>1
  <2>4. piece # <<>>
    BY <2>1, <2>2, EmptyIsSeq
  <2> QED
    BY <2>2, <2>3, <2>4
<1>6. /\ Len(partial') = Len(partial) - k
      /\ \A i \in 1..Len(partial') : k + i \in 1..Len(partial) /\ partial'[i] = partial[k + i]
  <2>1. k \in Nat /\ k >= 1 /\ k <= Len(partial)
    BY <1>1, <1>2
  <2>2. Len(partial') = Len(partial) - k
    BY <1>1, <1>3, <2>1
  <2>3. \A i \in 1..(Len(partial) - k) : partial'[i] = partial[k + i]
    BY <1>1, <1>3, <2>1
  <2> QED
    BY <1>1, <2>1, <2>2, <2>3
<1> HIDE DEF piece
<1>7. PartialSound'
  <2>1. ASSUME NEW i \in 1..Len(partial'), NEW b, b = partial'[i]
        PROVE  ByteSound(b)'
    <3>1. ByteSound(b)
      BY <1>6, <2>1 DEF RecountInv, PartialSound
    <3> QED
      BY <1>3, <3>1 DEF ByteSound
  <2>2. ASSUME NEW i \in 1..Len(partial'), NEW j \in 1..Len(partial'),
               partial'[i] = partial'[j]
        PROVE  i = j
    <3>1. k + i = k + j
      BY <1>6, <2>2 DEF RecountInv, PartialSound
    <3>2. i \in Int /\ j \in Int /\ k \in Int
      BY <1>2
    <3> QED
      BY <3>1, <3>2
  <2> QED
    BY <2>1, <2>2 DEF PartialSound
<1>8. ASSUME NEW l \in Line, (Ahead(l) \/ Pending(l))'
      PROVE  Ahead(l) \/ Pending(l)
  <2>1. CASE Ahead(l)'
    BY <1>3, <2>1 DEF Ahead, End
  <2>2. CASE Pending(l)'
    <3>1. Newline(l)' = Newline(l)
      BY DEF Newline, End
    <3> QED
      BY <1>6, <2>2, <3>1 DEF Pending
  <2> QED
    BY <1>8, <2>1, <2>2
<1>9. CASE batch' = batch
  <2>1. RunSound'
    BY <1>1, <1>3, <1>8, <1>9, TakenKept, NothingTaken
  <2> QED
    BY <1>7, <2>1
<1>10. ASSUME NEW m \in Parsed(piece), batch' = Append(batch, m)
       PROVE  RunSound'
  <2>1. m \in Line /\ partial[k] = Newline(m)
    BY <1>5, ParsedEnds
  <2>2. Pending(m)
    BY <1>2, <2>1 DEF Pending
  <2>3. m[1] \in Nat /\ End(m) \in Int
    BY <2>1, LineType
  <2>4. ByteSound(Newline(m))
    BY <1>2, <2>1 DEF RecountInv, PartialSound
  <2>5. ~Ahead(m)'
    <3>1. ~(m[1] > versions)
      BY <1>1, <2>3, <2>4 DEF ByteSound, Newline, TypeInv, FilesSound
    <3>2. ~(path # NoFile /\ path # openIno /\ m[1] = file[path])
      BY <2>4 DEF ByteSound, Newline
    <3>3. openIno # NoFile /\ m[1] = file[openIno]
            => End(m) <= offset /\ offset <= size[file[openIno]]
      BY <2>4 DEF ByteSound, Newline
    <3>4. offset \in Nat /\ (openIno # NoFile => size[file[openIno]] \in Nat)
      BY <1>1, FileFacts, Positive DEF TypeInv, WorkerSound
    <3>5. ~Ahead(m)
      BY <2>3, <3>1, <3>2, <3>3, <3>4 DEF Ahead
    <3> QED
      BY <1>3, <3>5 DEF Ahead, End
  <2>6. ~Pending(m)'
    <3>1. Newline(m)' = Newline(m)
      BY DEF Newline, End
    <3>2. ASSUME NEW i \in 1..Len(partial'), partial'[i] = Newline(m)
          PROVE  FALSE
      <4>1. k + i = k
        BY <1>2, <1>6, <2>1, <3>2 DEF RecountInv, PartialSound
      <4>2. i \in Int /\ i >= 1 /\ k \in Int
        BY <1>2
      <4> QED
        BY <4>1, <4>2
    <3> QED
      BY <3>1, <3>2 DEF Pending
  <2>7. \A l \in Line : Taken(l)' = Taken(l) + IF l = m THEN 1 ELSE 0
    <3> SUFFICES ASSUME NEW l \in Line
                 PROVE  Taken(l)' = Taken(l) + IF l = m THEN 1 ELSE 0
      OBVIOUS
    <3>1. Occurrences(batch', l) = Occurrences(batch, l) + IF l = m THEN 1 ELSE 0
      BY <1>1, <1>10, <2>1, OccurrencesAppend
    <3>2. counted[l] \in Nat /\ Occurrences(batch, l) \in Nat
      BY <1>1, TakenType
    <3>3. Taken(l)' = counted'[l] + Occurrences(batch', l)
      BY DEF Taken, Occurrences
    <3>4. Taken(l) = counted[l] + Occurrences(batch, l)
      BY DEF Taken
    <3> QED
      BY <1>3, <3>1, <3>2, <3>3, <3>4
  <2>8. \A l \in Line : Taken(l) \in Nat
    BY <1>1, TakenType
  <2>9. ASSUME NEW l \in Line
        PROVE  (Taken(l) <= 1 + crashes /\ (Ahead(l) \/ Pending(l) => Taken(l) <= crashes))'
    <3>1. CASE l = m
      <4>1. Taken(m) <= crashes
        BY <2>1, <2>2 DEF RecountInv, RunSound
      <4>2. Taken(m)' = Taken(m) + 1
        BY <2>1, <2>7
      <4> QED
        BY <1>1, <1>3, <2>1, <2>5, <2>6, <2>8, <3>1, <4>1, <4>2
    <3>2. CASE l # m
      <4>1. Taken(l)' = Taken(l)
        BY <2>7, <2>8, <3>2
      <4> QED
        BY <1>3, <1>8, <4>1 DEF RecountInv, RunSound
    <3> QED
      BY <3>1, <3>2
  <2> QED
    BY <2>9 DEF RunSound
<1> QED
  BY <1>4, <1>7, <1>9, <1>10

\* A flush moves the batch into the counters; a failing one drops it.
LEMMA FlushRecount ==
    ASSUME RecountInv, Flush \/ FlushFails
    PROVE  PartialSound' /\ RunSound'
<1>1. TypeInv /\ counted \in [Line -> Nat]
  BY DEF RecountInv, TypeInv, StoreSound
<1>2. /\ caddyVars' = caddyVars /\ tailVars' = tailVars /\ crashes' = crashes
      /\ batch' = <<>>
  BY DEF Flush, FlushFails
<1>3. ASSUME NEW l \in Line
      PROVE  Taken(l)' <= Taken(l) /\ Taken(l)' \in Nat
  <2>1. Taken(l)' = counted'[l] + Occurrences(batch', l)
    BY DEF Taken, Occurrences
  <2>2. Occurrences(batch', l) = 0
    BY <1>2, OccurrencesNone
  <2>3. counted[l] \in Nat /\ Occurrences(batch, l) \in Nat
    BY <1>1, TakenType
  <2>4. counted'[l] = counted[l] \/ counted'[l] = counted[l] + Occurrences(batch, l)
    BY DEF Flush, FlushFails, Occurrences, dbVars
  <2> QED
    BY <2>1, <2>2, <2>3, <2>4 DEF Taken
<1> QED
  BY <1>2, <1>3, TailKept, NothingTaken

\* After a crash every line may be taken once more.
LEMMA CrashRecount ==
    ASSUME RecountInv, Crash
    PROVE  PartialSound' /\ RunSound'
<1>1. TypeInv /\ crashes \in Nat
  BY Positive DEF RecountInv, TypeInv, StoreSound
<1>2. counted' = counted /\ batch' = <<>> /\ partial' = <<>> /\ crashes' = crashes + 1
  BY DEF Crash, dbVars
<1>3. ASSUME NEW l \in Line
      PROVE  Taken(l)' <= Taken(l) /\ Taken(l) <= 1 + crashes /\ Taken(l)' \in Nat
                /\ Taken(l) \in Nat
  <2>1. Taken(l)' = counted'[l] + Occurrences(batch', l)
    BY DEF Taken, Occurrences
  <2>2. Occurrences(batch', l) = 0
    BY <1>2, OccurrencesNone
  <2>3. counted[l] \in Nat /\ Occurrences(batch, l) \in Nat
    BY <1>1, TakenType
  <2> QED
    BY <1>2, <2>1, <2>2, <2>3 DEF Taken, RecountInv, RunSound
<1>4. RunSound'
  BY <1>1, <1>2, <1>3 DEF RunSound
<1> QED
  BY <1>2, <1>4, NothingRead

LEMMA RecountStep == RecountInv /\ [Next]_vars => RecountInv'
<1> SUFFICES ASSUME RecountInv, [Next]_vars
             PROVE  RecountInv'
  OBVIOUS
<1>1. TypeInv /\ TypeInv'
  BY TypeStep DEF RecountInv
<1>2. CASE Tick \/ ReadsEnd \/ ParseEnds \/ Persist \/ Save \/ Stat \/ ReadFails \/ PersistFails
           \/ UNCHANGED vars
  <2>1. /\ caddyVars' = caddyVars /\ tailVars' = tailVars /\ counted' = counted /\ batch' = batch
        /\ crashes' = crashes
    BY <1>2 DEF Tick, ReadsEnd, ParseEnds, Persist, Save, Stat, ReadFails, PersistFails, vars,
                dbVars, drainVars
  <2> QED
    BY <1>1, <2>1, TailKept, TakenKept, NothingTaken DEF RecountInv
<1>3. CASE Caddy
  BY <1>1, <1>3, CaddyRecount DEF RecountInv
<1>4. CASE InitStat \/ InitOpen \/ Open
  BY <1>1, <1>4, ClosedRecount, OpenRecount DEF RecountInv
<1>5. CASE Drain \/ Read \/ Parse
  BY <1>1, <1>5, DrainRecount, ReadRecount, ParseRecount DEF RecountInv
<1>6. CASE Flush \/ FlushFails \/ Crash
  BY <1>1, <1>6, FlushRecount, CrashRecount DEF RecountInv
<1> QED
  BY <1>2, <1>3, <1>4, <1>5, <1>6 DEF Next, Worker, Failure

\* Whatever is rolled, truncated or fails, each run of the server counts a
\* line at most once (poll, openPath and drainOpenFd of ingest.ts).
THEOREM RecountNeedsCrashHolds == Spec => []RecountNeedsCrash
<1>1. RecountInv => RecountNeedsCrash
  <2> SUFFICES ASSUME RecountInv, NEW l \in Line
               PROVE  counted[l] <= 1 + crashes
    BY DEF RecountNeedsCrash
  <2>1. crashes \in Nat /\ Taken(l) <= 1 + crashes
    BY Positive DEF RecountInv, RunSound, TypeInv, StoreSound
  <2>2. counted[l] \in Nat /\ Occurrences(batch, l) \in Nat
    BY TakenType DEF RecountInv
  <2> QED
    BY <2>1, <2>2 DEF Taken
<1> QED
  BY <1>1, RecountInit, RecountStep, PTL DEF Spec

-----------------------------------------------------------------------------
(* Multiples of the length of a line                                       *)

LEMMA Times ==
    ASSUME NEW L \in Nat, L > 0, NEW a \in Int, NEW b \in Int
    PROVE  /\ a <= b => a * L <= b * L
           /\ a * L <= b * L => a <= b
           /\ a * L = b * L => a = b
<1>1. a <= b => (b - a) * L >= 0
  OBVIOUS
<1>2. a > b => (a - b) * L >= L
  OBVIOUS
<1>3. (b - a) * L = b * L - a * L /\ (a - b) * L = a * L - b * L
  OBVIOUS
<1>4. b > a => (b - a) * L >= L
  OBVIOUS
<1>5. a * L \in Int /\ b * L \in Int
  OBVIOUS
<1> QED
  BY <1>1, <1>2, <1>3, <1>4, <1>5

LEMMA Division ==
    ASSUME NEW L \in Nat, L > 0, NEW n \in Nat
    PROVE  /\ n \div L \in Nat /\ n % L \in 0..(L - 1)
           /\ n = (n \div L) * L + (n % L)
<1>1. n % L \in 0..(L - 1)
  OBVIOUS
<1>2. n \div L \in Int
  OBVIOUS
<1>3. n = L * (n \div L) + (n % L)
  OBVIOUS
<1>4. n = (n \div L) * L + (n % L)
  BY <1>2, <1>3
<1>5. n \div L \in Nat
  <2> DEFINE d == n \div L
  <2> SUFFICES ASSUME d < 0 PROVE FALSE
    BY <1>2
  <2>1. d \in Int /\ n = d * L + (n % L)
    BY <1>2, <1>4
  <2> HIDE DEF d
  <2>2. (d + 1) * L <= 0 * L
    BY <2>1, Times
  <2> QED
    BY <1>1, <2>1, <2>2
<1> QED
  BY <1>1, <1>4, <1>5

LEMMA Remainder ==
    ASSUME NEW L \in Nat, L > 0, NEW q \in Nat, NEW i \in Nat, i < L
    PROVE  (q * L + i) % L = i /\ (q * L + i) \div L = q
<1> DEFINE n == q * L + i
           d == n \div L
           r == n % L
<1>1. n \in Nat /\ q * L \in Nat
  OBVIOUS
<1>2. d \in Nat /\ r \in 0..(L - 1) /\ n = d * L + r /\ d * L \in Nat
  BY <1>1, Division
<1> HIDE DEF d, r
<1>3. q * L + i = d * L + r
  BY <1>2
<1> HIDE DEF n
<1>4. ~(d * L >= q * L + L)
  BY <1>1, <1>2, <1>3
<1>5. ~(q * L >= d * L + L)
  BY <1>1, <1>2, <1>3
<1>6. (q + 1) * L = q * L + L /\ (d + 1) * L = d * L + L
  BY <1>2
<1>7. d + 1 \in Int /\ q + 1 \in Int /\ d \in Int /\ q \in Int
  BY <1>2
<1>8. ~(d >= q + 1)
  BY <1>4, <1>6, <1>7, Times
<1>9. ~(q >= d + 1)
  BY <1>5, <1>6, <1>7, Times
<1>10. d = q
  BY <1>7, <1>8, <1>9
<1>11. r = i
  BY <1>1, <1>2, <1>3, <1>10
<1> QED
  BY <1>10, <1>11 DEF d, r, n

\* The bytes before offset that are parsed.
Start == offset - Len(partial)

Aligned(n) == \E q \in Nat : n = q * LineLen

\* What a line needs to be one of a file: it ends within the bound.
LEMMA IsLine ==
    ASSUME NEW v \in Version, NEW q \in Nat, (q + 1) * LineLen <= MaxSize
    PROVE  <<v, q + 1>> \in Line
<1> DEFINE d == MaxSize \div LineLen
<1>1. d \in Nat /\ MaxSize % LineLen \in 0..(LineLen - 1)
      /\ MaxSize = d * LineLen + (MaxSize % LineLen)
  BY Positive, Division
<1> HIDE DEF d
<1>2. (d + 1) * LineLen = d * LineLen + LineLen /\ d * LineLen \in Int
  BY <1>1, Positive
<1>3. ~((q + 1) * LineLen >= (d + 1) * LineLen)
  <2>1. (q + 1) * LineLen \in Int
    BY Positive
  <2> QED
    BY <1>1, <1>2, <2>1, Positive
<1>4. ~(q + 1 >= d + 1)
  <2>1. q + 1 \in Int /\ d + 1 \in Int
    BY <1>1
  <2> QED
    BY <1>3, <2>1, Times, Positive
<1>5. q + 1 \in 1..d
  BY <1>1, <1>4
<1> QED
  BY <1>5 DEF Line, d

\* The lines up to the end of line number q, and the next one.
LEMMA NextLine ==
    ASSUME NEW v, NEW q \in Nat, NEW l \in LinesUpTo(v, (q + 1) * LineLen)
    PROVE  l \in LinesUpTo(v, q * LineLen) \/ l = <<v, q + 1>>
<1>1. l \in Line /\ l[1] = v /\ l[2] * LineLen <= (q + 1) * LineLen
  BY DEF LinesUpTo
<1>2. l = <<l[1], l[2]>> /\ l[2] \in Int
  BY <1>1, LineType
<1>3. l[2] <= q + 1
  BY <1>1, <1>2, Times, Positive
<1>4. CASE l[2] <= q
  <2>1. l[2] * LineLen <= q * LineLen
    BY <1>2, <1>4, Times, Positive
  <2> QED
    BY <1>1, <2>1 DEF LinesUpTo
<1>5. CASE l[2] = q + 1
  BY <1>1, <1>2, <1>5
<1> QED
  BY <1>2, <1>3, <1>4, <1>5

\* Before the end of line q + 1 there are the ends of the first q only.
LEMMA LinesBefore ==
    ASSUME NEW v, NEW q \in Nat, NEW n \in Int, n < q * LineLen + LineLen
    PROVE  LinesUpTo(v, n) \subseteq LinesUpTo(v, q * LineLen)
<1> SUFFICES ASSUME NEW l \in LinesUpTo(v, n)
             PROVE  l \in LinesUpTo(v, q * LineLen)
  OBVIOUS
<1>1. l \in Line /\ l[1] = v /\ l[2] * LineLen <= n /\ l[2] \in Int
  BY LineType DEF LinesUpTo
<1>2. (q + 1) * LineLen = q * LineLen + LineLen /\ q * LineLen \in Int
      /\ l[2] * LineLen \in Int
  BY <1>1, Positive
<1>3. ~((q + 1) * LineLen <= l[2] * LineLen)
  BY <1>1, <1>2, Positive
<1>4. q + 1 \in Int
  OBVIOUS
<1>5. ~(q + 1 <= l[2])
  BY <1>1, <1>3, <1>4, Times, Positive
<1>6. l[2] <= q
  BY <1>1, <1>5
<1>7. l[2] * LineLen <= q * LineLen
  BY <1>1, <1>6, Times, Positive
<1> QED
  BY <1>1, <1>7 DEF LinesUpTo

LEMMA NoLineAtStart ==
    ASSUME NEW v
    PROVE  LinesUpTo(v, 0) = {}
<1> SUFFICES ASSUME NEW l \in LinesUpTo(v, 0)
             PROVE  FALSE
  OBVIOUS
<1>1. l \in Line /\ l[2] * LineLen <= 0
  BY DEF LinesUpTo
<1>2. l[2] \in Int /\ l[2] >= 1
  BY <1>1 DEF Line
<1>3. l[2] * LineLen <= 0 * LineLen
  BY <1>1, Positive
<1> QED
  BY <1>2, <1>3, Times, Positive

-----------------------------------------------------------------------------
(* The saved position and the switch to a new file never run ahead         *)

InBatch(l) == \E i \in 1..Len(batch) : batch[i] = l

\* Counted, given up, or about to be counted.
Seen(l) == Accounted(l) \/ InBatch(l)

\* Between drains there is no batch.
BatchSound == pc \notin {"read", "parse", "flush", "flushLast"} => batch = <<>>

\* The saved row names the version its file had.
RowSound ==
    /\ saved.ino = NoFile => saved = NothingSaved
    /\ saved.ino # NoFile => saved.of \in 1..versions
    /\ \A i \in Ino : file[i] = saved.of /\ saved.of > 0 => i = saved.ino
    /\ pc \in {"down", "opening"} /\ crashes = 0 => saved = NothingSaved /\ offset = 0

\* Every line of the open file up to the parsed position was seen, and what
\* was read after it is in partial.
TailData ==
    /\ Aligned(Start)
    /\ offset <= size[file[openIno]]
    /\ \A i \in 1..Len(partial) : partial[i] = <<file[openIno], Start + i>>
    /\ \A l \in LinesUpTo(file[openIno], Start) : Seen(l)

\* How far a drain got.
TailProgress ==
    /\ pc \in {"read", "parse", "flush", "persist"} => limit <= size[file[openIno]]
    /\ failures = 0 /\ pc \in {"flushLast", "persistLast", "stat", "open"} => limit <= offset
    /\ failures = 0 /\ pc \notin {"parse", "flush", "persist"} => Newlines = {}

TailSound == openIno # NoFile => TailData /\ TailProgress

\* The same of the saved position.
SavedSound ==
    /\ Aligned(saved.offset)
    /\ saved.of > 0 => saved.offset <= size[saved.of]
    /\ \A l \in LinesUpTo(saved.of, saved.offset) : Accounted(l)

\* A position that is used again is one of the same file.
StartSound ==
    pc = "opening" =>
        offset = 0 \/ (versions <= 1 /\ saved.of = 1 /\ offset = saved.offset)

PositionInv ==
    /\ TypeInv /\ BatchSound /\ RowSound
    /\ OffsetIsOwn => SavedSound /\ StartSound /\ TailSound

\* Newlines of a tail that starts at a line: the first one ends a whole line.
LEMMA TailNewline ==
    ASSUME TypeInv, openIno # NoFile, TailData
    PROVE  \E q \in Nat :
             /\ Start = q * LineLen /\ Start + LineLen = (q + 1) * LineLen
             /\ Newlines = {} => Len(partial) < LineLen
             /\ Newlines # {} => FirstNewline = LineLen /\ LineLen <= Len(partial)
<1>1. PICK q \in Nat : Start = q * LineLen
  BY DEF TailData, Aligned
<1>2. /\ partial \in Seq(Byte) /\ Len(partial) \in Nat
      /\ LineLen \in Nat /\ LineLen > 0
      /\ q * LineLen \in Nat /\ (q + 1) * LineLen = q * LineLen + LineLen
  BY Positive DEF TypeInv, WorkerSound
<1>3. \A i \in 1..Len(partial) : EndsLine(partial[i]) <=> (q * LineLen + i) % LineLen = 0
  BY <1>1 DEF TailData, EndsLine
<1>4. ASSUME NEW i \in 1..Len(partial), i < LineLen
      PROVE  i \notin Newlines
  <2>1. (q * LineLen + i) % LineLen = i
    BY <1>2, <1>4, Remainder
  <2> QED
    BY <1>3, <1>4, <2>1 DEF Newlines
<1>5. LineLen <= Len(partial) => LineLen \in Newlines
  <2>1. ((q + 1) * LineLen + 0) % LineLen = 0
    BY <1>2, Remainder
  <2>2. (q * LineLen + LineLen) % LineLen = 0
    <3>1. (q + 1) * LineLen + 0 = q * LineLen + LineLen
      BY <1>2
    <3> QED
      BY <2>1, <3>1
  <2>3. LineLen <= Len(partial) => LineLen \in 1..Len(partial)
    BY <1>2
  <2>4. DOMAIN partial = 1..Len(partial)
    BY <1>2
  <2> QED
    BY <1>3, <2>2, <2>3, <2>4 DEF Newlines
<1>6. Newlines # {} => FirstNewline = LineLen /\ LineLen <= Len(partial)
  <2> SUFFICES ASSUME Newlines # {}
               PROVE  FirstNewline = LineLen /\ LineLen <= Len(partial)
    OBVIOUS
  <2>1. /\ FirstNewline \in Newlines /\ FirstNewline \in 1..Len(partial)
        /\ \A i \in Newlines : FirstNewline <= i
    BY <1>2, FirstNewlineFacts
  <2>2. ~(FirstNewline < LineLen)
    BY <1>4, <2>1
  <2>3. LineLen <= Len(partial)
    BY <1>2, <2>1, <2>2
  <2>4. FirstNewline <= LineLen
    BY <1>5, <2>1, <2>3
  <2> QED
    BY <1>2, <2>1, <2>2, <2>3, <2>4
<1>7. Start + LineLen = (q + 1) * LineLen
  BY <1>1, <1>2
<1>8. Newlines = {} => Len(partial) < LineLen
  BY <1>2, <1>5
<1> QED
  BY <1>1, <1>6, <1>7, <1>8

\* Parsing takes exactly the next line of the file.
LEMMA TailParses ==
    ASSUME TypeInv, openIno # NoFile, TailData, NEW q \in Nat,
           Start = q * LineLen, Start + LineLen = (q + 1) * LineLen,
           LineLen <= Len(partial)
    PROVE  Parsed(SubSeq(partial, 1, LineLen)) = {<<file[openIno], q + 1>>}
<1> DEFINE v == file[openIno]
           s == SubSeq(partial, 1, LineLen)
           m == <<v, q + 1>>
<1>1. /\ partial \in Seq(Byte) /\ Len(partial) \in Nat /\ offset \in Nat /\ offset <= MaxSize
      /\ LineLen \in Nat /\ LineLen > 0 /\ v \in Version /\ Len(partial) <= offset
  BY FileFacts, Positive DEF TypeInv, WorkerSound
<1>2. s \in Seq(Byte) /\ Len(s) = LineLen /\ s # <<>>
  <2>1. s \in Seq(Byte) /\ Len(s) = LineLen
    BY <1>1
  <2> QED
    BY <1>1, <2>1, EmptyIsSeq
<1>3. \A i \in 1..LineLen : s[i] = <<v, q * LineLen + i>>
  BY <1>1 DEF TailData
<1>4. m \in Line
  <2>1. (q + 1) * LineLen <= MaxSize
    BY <1>1, Positive DEF Start
  <2> QED
    BY <1>1, <2>1, IsLine
<1>5. LineBytes(m) = s
  <2>1. ((q + 1) - 1) * LineLen = q * LineLen /\ (q + 1) * LineLen - q * LineLen = LineLen
    <3>1. (q + 1) - 1 = q
      OBVIOUS
    <3>2. (q + 1) * LineLen = q * LineLen + LineLen /\ q * LineLen \in Int
      BY <1>1
    <3> QED
      BY <1>1, <3>1, <3>2
  <2>2. LineBytes(m) = [i \in 1..((q + 1) * LineLen - ((q + 1) - 1) * LineLen) |->
                          <<v, ((q + 1) - 1) * LineLen + i>>]
    BY DEF LineBytes, Bytes
  <2>3. LineBytes(m) = [i \in 1..LineLen |-> <<v, q * LineLen + i>>]
    BY <2>1, <2>2
  <2>4. DOMAIN s = 1..LineLen
    BY <1>2
  <2>5. s = [i \in 1..LineLen |-> s[i]]
    BY <1>2, <2>4
  <2> HIDE DEF s, v
  <2> QED
    BY <1>3, <2>3, <2>5
<1>6. ASSUME NEW l \in Parsed(s)
      PROVE  l = m
  <2>1. l \in Line /\ s[Len(s)] = Newline(l)
    BY <1>2, <1>6, ParsedEnds
  <2>2. l = <<l[1], l[2]>> /\ l[2] \in Int
    BY <2>1, LineType
  <2>3. LineLen \in 1..LineLen
    BY <1>1
  <2>4. s[LineLen] = <<v, q * LineLen + LineLen>>
    BY <1>3, <2>3
  <2>5. l[1] = v /\ l[2] * LineLen = (q + 1) * LineLen
    BY <1>1, <1>2, <2>1, <2>4 DEF Newline, End
  <2>6. l[2] = q + 1
    BY <1>1, <2>2, <2>5, Times
  <2> QED
    BY <2>2, <2>5, <2>6
<1>7. m \in Parsed(s)
  BY <1>4, <1>5 DEF Parsed
<1> QED
  BY <1>6, <1>7

\* What was accounted for stays so.
LEMMA AccountedKept ==
    ASSUME TypeInv, [Next]_vars, NEW l \in Line, Accounted(l)
    PROVE  Accounted(l)'
<1>1. counted[l] \in Nat /\ Occurrences(batch, l) \in Nat
  BY TakenType
<1>2. dropped \subseteq dropped'
  BY DEF Next, Caddy, Worker, Failure, Create, RollAway, Write, Truncate, ReadFails, FlushFails,
         PersistFails, Crash, InitStat, InitOpen, Tick, Drain, Read, ReadsEnd, Parse, ParseEnds,
         Flush, Persist, Save, Stat, Open, vars
<1>3. counted'[l] = counted[l] \/ counted'[l] = counted[l] + Occurrences(batch, l)
  <2>1. CASE Flush
    BY <2>1 DEF Flush, Occurrences
  <2>2. CASE ~Flush
    BY <2>2
       DEF Next, Caddy, Worker, Failure, Create, RollAway, Write, Truncate, ReadFails, FlushFails,
           PersistFails, Crash, InitStat, InitOpen, Tick, Drain, Read, ReadsEnd, Parse, ParseEnds,
           Persist, Save, Stat, Open, vars, dbVars
  <2> QED
    BY <2>1, <2>2
<1> QED
  BY <1>1, <1>2, <1>3 DEF Accounted

LEMMA InBatchOccurs ==
    ASSUME TypeInv, NEW l \in Line, InBatch(l)
    PROVE  Occurrences(batch, l) > 0
<1>1. batch \in Seq(Line)
  BY DEF TypeInv, WorkerSound
<1>2. IsFiniteSet({i \in DOMAIN batch : batch[i] = l}) /\ Occurrences(batch, l) \in Nat
  BY <1>1, OccurrencesType
<1>3. {i \in DOMAIN batch : batch[i] = l} # {}
  BY <1>1 DEF InBatch
<1>4. Occurrences(batch, l) # 0
  BY <1>2, <1>3, FS_EmptySet DEF Occurrences
<1> QED
  BY <1>2, <1>4

\* What was seen stays so, unless the worker dies: a flush counts the batch, a
\* failing one gives it up.
LEMMA SeenKept ==
    ASSUME TypeInv, [Next]_vars, ~Crash, NEW l \in Line, Seen(l)
    PROVE  Seen(l)'
<1>1. CASE Accounted(l)
  BY <1>1, AccountedKept DEF Seen
<1>2. ASSUME InBatch(l), Flush
      PROVE  Seen(l)'
  <2>1. counted'[l] = counted[l] + Occurrences(batch, l)
    BY <1>2 DEF Flush, Occurrences
  <2>2. counted[l] \in Nat /\ Occurrences(batch, l) \in Nat /\ Occurrences(batch, l) > 0
    BY <1>2, TakenType, InBatchOccurs
  <2> QED
    BY <2>1, <2>2 DEF Seen, Accounted
<1>3. ASSUME InBatch(l), FlushFails
      PROVE  Seen(l)'
  <2>1. batch \in Seq(Line)
    BY DEF TypeInv, WorkerSound
  <2>2. l \in {batch[i] : i \in DOMAIN batch}
    BY <1>3, <2>1 DEF InBatch
  <2> QED
    BY <1>3, <2>2 DEF FlushFails, Seen, Accounted
<1>4. ASSUME InBatch(l), Parse
      PROVE  Seen(l)'
  <2>1. batch \in Seq(Line) /\ Len(batch) \in Nat
    BY DEF TypeInv, WorkerSound
  <2>2. batch' = batch \/ \E m : batch' = Append(batch, m)
    BY <1>4 DEF Parse
  <2>3. ASSUME NEW m, batch' = Append(batch, m)
        PROVE  InBatch(l)'
    <3>1. PICK i \in 1..Len(batch) : batch[i] = l
      BY <1>4 DEF InBatch
    <3>2. i \in 1..Len(batch') /\ batch'[i] = l
      BY <2>1, <2>3, <3>1
    <3> QED
      BY <3>2 DEF InBatch
  <2> QED
    BY <1>4, <2>2, <2>3 DEF Seen, InBatch
<1>5. ASSUME InBatch(l), ~Flush, ~FlushFails, ~Parse
      PROVE  Seen(l)'
  <2>1. batch' = batch
    BY <1>5
       DEF Next, Caddy, Worker, Failure, Create, RollAway, Write, Truncate, ReadFails,
           PersistFails, InitStat, InitOpen, Tick, Drain, Read, ReadsEnd, ParseEnds,
           Persist, Save, Stat, Open, vars, drainVars
  <2> QED
    BY <1>5, <2>1 DEF Seen, InBatch
<1> QED
  BY <1>1, <1>2, <1>3, <1>4, <1>5 DEF Seen

LEMMA BatchStep ==
    ASSUME TypeInv, BatchSound, [Next]_vars
    PROVE  BatchSound'
<1>1. CASE Caddy \/ UNCHANGED vars
  BY <1>1 DEF Caddy, Create, RollAway, Write, Truncate, vars, drainVars, BatchSound
<1>2. CASE Crash \/ InitStat \/ InitOpen \/ Tick \/ Drain \/ Stat \/ Open
  BY <1>2 DEF Crash, InitStat, InitOpen, Tick, Drain, Stat, Open, drainVars, BatchSound
<1>3. CASE Read \/ Parse \/ ParseEnds \/ Flush \/ FlushFails \/ Persist \/ PersistFails \/ Save
  BY <1>3 DEF Read, Parse, ParseEnds, Flush, FlushFails, Persist, PersistFails, Save, drainVars,
              BatchSound
<1>4. CASE ReadsEnd \/ ReadFails
  BY <1>4 DEF ReadsEnd, ReadFails, AfterReads, drainVars, BatchSound
<1> QED
  BY <1>1, <1>2, <1>3, <1>4 DEF Next, Worker, Failure

\* Versions of the inodes only change to new ones.
LEMMA FilesMove ==
    ASSUME FilesSound, Caddy
    PROVE  /\ \A i \in Ino : file'[i] = file[i] \/ file'[i] > versions
           /\ openIno # NoFile /\ ~truncated' => file'[openIno] = file[openIno]
           /\ path' # NoFile => \/ file'[path'] > versions
                                \/ path # NoFile /\ path' = path /\ file'[path'] = file[path]
<1>1. versions \in Nat
  BY Positive DEF FilesSound
<1>2. ASSUME NEW i \in Ino, Create(i)
      PROVE  /\ path' = i /\ openIno # i
             /\ file'[i] = versions + 1 /\ \A k \in Ino \ {i} : file'[k] = file[k]
  BY <1>2 DEF Create, Free, FilesSound
<1>3. CASE \E i \in Ino : Create(i)
  <2>1. PICK i \in Ino : Create(i)
    BY <1>3
  <2> QED
    BY <1>1, <1>2, <2>1, NoFileAssumption DEF FilesSound
<1>4. CASE RollAway
  BY <1>4 DEF RollAway
<1>5. CASE \E n \in 1..LineLen : Write(n)
  BY <1>5 DEF Write
<1>6. CASE Truncate
  <2>1. /\ path' = path /\ path \in Ino /\ truncated' = TRUE
        /\ file'[path] = versions + 1 /\ \A k \in Ino \ {path} : file'[k] = file[k]
    BY <1>6 DEF Truncate, FilesSound
  <2> QED
    BY <1>1, <2>1
<1> QED
  BY <1>3, <1>4, <1>5, <1>6 DEF Caddy

LEMMA RowStep ==
    ASSUME TypeInv, RowSound, [Next]_vars
    PROVE  RowSound'
<1>1. /\ FilesSound /\ WorkerSound /\ saved \in Positions /\ saved.of \in Nat
      /\ versions \in Nat /\ crashes \in Nat
  BY Positive DEF TypeInv, FilesSound, StoreSound, Positions
<1>2. CASE Caddy
  <2>1. pc' = pc /\ saved' = saved /\ offset' = offset /\ crashes' = crashes
    BY <1>2 DEF Caddy, Create, RollAway, Write, Truncate, tailVars, dbVars
  <2>2. versions' \in Nat /\ versions' >= versions
    BY <1>1, <1>2, CaddyMoves
  <2>3. \A i \in Ino : file'[i] = file[i] \/ file'[i] > versions
    BY <1>1, <1>2, FilesMove
  <2>4. saved.of > 0 => saved.of <= versions
    BY <1>1 DEF RowSound, NothingSaved
  <2>5. \A i \in Ino : file'[i] = saved.of /\ saved.of > 0 => i = saved.ino
    BY <1>1, <2>3, <2>4 DEF RowSound
  <2>6. saved.ino # NoFile => saved.of \in 1..versions'
    BY <1>1, <2>2 DEF RowSound
  <2> QED
    BY <2>1, <2>5, <2>6 DEF RowSound
<1>3. CASE Crash
  BY <1>1, <1>3 DEF Crash, RowSound, caddyVars, dbVars
<1>4. CASE InitStat
  <2>1. crashes = 0 => offset' = 0
    BY <1>1, <1>4, NoFileAssumption DEF InitStat, RowSound, NothingSaved, FilesSound
  <2> QED
    BY <1>1, <1>4, <2>1 DEF InitStat, RowSound, caddyVars, dbVars
<1>5. ASSUME openIno # NoFile, saved' = TailState, caddyVars' = caddyVars,
             pc' \notin {"down", "opening"}
      PROVE  RowSound'
  <2>1. saved'.ino = openIno /\ saved'.of = file[openIno]
    BY <1>5 DEF TailState
  <2>2. file[openIno] \in 1..versions /\ openIno \in Ino
    BY <1>1, <1>5 DEF FilesSound
  <2>3. file' = file /\ versions' = versions
    BY <1>5 DEF caddyVars
  <2>4. \A i \in Ino : file[i] = file[openIno] /\ file[openIno] > 0 => i = openIno
    BY <1>1, <2>2 DEF FilesSound
  <2> QED
    BY <1>5, <2>1, <2>2, <2>3, <2>4 DEF RowSound
<1>6. CASE Persist \/ Save
  <2>1. openIno # NoFile => saved' = TailState
    BY <1>6 DEF Persist, Save
  <2>2. openIno = NoFile => saved' = saved
    BY <1>1, <1>6 DEF Persist, Save, WorkerSound, Draining
  <2>3. caddyVars' = caddyVars /\ pc' \notin {"down", "opening"}
    BY <1>6 DEF Persist, Save
  <2> QED
    BY <1>5, <2>1, <2>2, <2>3 DEF RowSound, caddyVars
<1>7. CASE UNCHANGED vars
  BY <1>7 DEF vars, caddyVars, tailVars, dbVars, RowSound
<1>8. CASE InitOpen \/ Tick \/ Drain \/ Read \/ ReadsEnd \/ Parse \/ ParseEnds \/ Flush \/ Stat
           \/ Open \/ ReadFails \/ FlushFails \/ PersistFails
  <2>1. caddyVars' = caddyVars /\ saved' = saved /\ pc' \notin {"down", "opening"}
    BY <1>8 DEF InitOpen, Tick, Drain, Read, ReadsEnd, Parse, ParseEnds, Flush, Stat, Open,
                ReadFails, FlushFails, PersistFails, AfterReads, dbVars
  <2> QED
    BY <2>1 DEF RowSound, caddyVars
<1> QED
  BY <1>2, <1>3, <1>4, <1>6, <1>7, <1>8 DEF Next, Worker, Failure

LEMMA OwnBefore ==
    ASSUME TypeInv, [Next]_vars, OffsetIsOwn'
    PROVE  OffsetIsOwn /\ ~truncated' /\ ~truncated
<1>1. /\ crashes \in Nat /\ versions \in Nat
      /\ truncated' = truncated \/ truncated' = TRUE
      /\ crashes' = crashes \/ crashes' = crashes + 1
      /\ versions' = versions \/ versions' = versions + 1
  <2>1. crashes \in Nat /\ versions \in Nat
    BY Positive DEF TypeInv, FilesSound, StoreSound
  <2>2. CASE Caddy
    BY <2>1, <2>2 DEF Caddy, Create, RollAway, Write, Truncate
  <2>3. CASE Crash
    BY <2>1, <2>3 DEF Crash, caddyVars
  <2>4. CASE ~Caddy /\ ~Crash
    <3>1. caddyVars' = caddyVars /\ crashes' = crashes
      BY <2>4
         DEF Next, Worker, Failure, ReadFails, FlushFails, PersistFails, InitStat, InitOpen, Tick,
             Drain, Read, ReadsEnd, Parse, ParseEnds, Flush, Persist, Save, Stat, Open, vars
    <3> QED
      BY <2>1, <3>1 DEF caddyVars
  <2> QED
    BY <2>1, <2>2, <2>3, <2>4
<1> QED
  BY <1>1 DEF OffsetIsOwn

LEMMA SizesKept ==
    ASSUME TypeInv, [Next]_vars
    PROVE  \A v \in Version : size[v] \in Nat /\ size'[v] \in Nat /\ size'[v] >= size[v]
<1>1. CASE Caddy
  BY <1>1, CaddyMoves DEF TypeInv
<1>2. CASE ~Caddy
  <2>1. size' = size
    BY <1>2
       DEF Next, Worker, Failure, ReadFails, FlushFails, PersistFails, InitStat, InitOpen, Tick,
           Drain, Read, ReadsEnd, Parse, ParseEnds, Flush, Persist, Save, Stat, Open, Crash,
           vars, caddyVars
  <2> QED
    BY <2>1, Positive DEF TypeInv, FilesSound
<1> QED
  BY <1>1, <1>2

LEMMA LinesAreLines == \A v, n : LinesUpTo(v, n) \subseteq Line
BY DEF LinesUpTo

\* A step that keeps the saved row.
LEMMA SavedKept ==
    ASSUME TypeInv, SavedSound, [Next]_vars, saved' = saved
    PROVE  SavedSound'
<1>1. \A l \in LinesUpTo(saved.of, saved.offset) : Accounted(l)'
  BY AccountedKept, LinesAreLines DEF SavedSound
<1>2. saved.of > 0 => saved.of \in Version /\ saved.offset \in Nat
  BY Positive DEF TypeInv, StoreSound, Positions, Version
<1>3. saved.of > 0 => saved.offset <= size'[saved.of]
  BY <1>2, SizesKept DEF SavedSound
<1>4. Aligned(saved.offset)' <=> Aligned(saved.offset)
  BY DEF Aligned
<1> QED
  BY <1>1, <1>3, <1>4 DEF SavedSound, LinesUpTo, Aligned

\* The position of the open file is saved when the batch is gone.
LEMMA SavedMoves ==
    ASSUME TypeInv, BatchSound, TailSound, openIno # NoFile, [Next]_vars, Persist \/ Save,
           saved' = TailState
    PROVE  SavedSound'
<1>1. TailData /\ batch = <<>> /\ Len(batch) = 0
  BY EmptyIsSeq DEF TailSound, BatchSound, Persist, Save
<1>2. /\ saved'.offset = Start /\ saved'.of = file[openIno] /\ size' = size
      /\ counted' = counted /\ dropped' = dropped
  BY DEF TailState, Start, Persist, Save, caddyVars
<1>3. \A l \in LinesUpTo(file[openIno], Start) : Accounted(l)
  BY <1>1 DEF TailData, Seen, InBatch
<1>4. /\ offset \in Nat /\ Len(partial) \in Nat /\ size[file[openIno]] \in Nat
  BY FileFacts, Positive DEF TypeInv, WorkerSound
<1>5. Start <= size[file[openIno]]
  BY <1>1, <1>4 DEF TailData, Start
<1> QED
  BY <1>1, <1>2, <1>3, <1>5 DEF SavedSound, TailData, Aligned, LinesUpTo, Accounted

\* Steps that leave the tail where it is.
LEMMA DataKept ==
    ASSUME TypeInv, openIno # NoFile, TailData, [Next]_vars, ~Crash, openIno' = openIno,
           file'[openIno] = file[openIno], offset' = offset, partial' = partial
    PROVE  TailData'
<1>1. file[openIno] \in Version /\ offset \in Nat
  BY FileFacts, Positive DEF TypeInv, WorkerSound
<1>2. offset' <= size'[file[openIno]]
  BY <1>1, SizesKept DEF TailData
<1>3. Start' = Start
  BY DEF Start
<1>4. \A l \in LinesUpTo(file[openIno], Start) : Seen(l)'
  BY SeenKept, LinesAreLines DEF TailData
<1> QED
  BY <1>2, <1>3, <1>4 DEF TailData, Aligned, LinesUpTo

\* A file that is read from its start.
LEMMA FreshTail ==
    ASSUME offset' = 0, partial' = <<>>, openIno' # NoFile, TypeInv'
    PROVE  TailData' /\ Newlines' = {}
<1>1. Len(partial') = 0 /\ DOMAIN partial' = {}
  BY EmptyIsSeq
<1>2. Start' = 0 /\ Start' = 0 * LineLen
  <2>1. Start' = offset' - Len(partial')
    BY DEF Start
  <2>2. Start' = 0
    BY <1>1, <2>1
  <2>3. 0 * LineLen = 0
    BY Positive
  <2> QED
    BY <2>2, <2>3
<1>3. \A v : LinesUpTo(v, 0) = {}
  BY NoLineAtStart
<1>4. size'[file'[openIno']] \in Nat
  <2>1. openIno' \in Ino /\ file'[openIno'] \in 0..MaxVersion /\ file'[openIno'] > 0
        /\ size' \in [Version -> 0..MaxSize]
    BY DEF TypeInv, FilesSound
  <2>2. file'[openIno'] \in Version
    BY <2>1, Positive DEF Version
  <2> QED
    BY <2>1, <2>2, Positive
<1>5. offset' <= size'[file'[openIno']]
  BY <1>4
<1>6. Aligned(Start)'
  <2>1. \E q \in Nat : Start' = q * LineLen
    BY <1>2
  <2> QED
    BY <2>1 DEF Aligned
<1>7. \A l \in LinesUpTo(file[openIno], Start)' : Seen(l)'
  <2>1. LinesUpTo(file[openIno], Start)' = LinesUpTo(file'[openIno'], Start')
    BY DEF LinesUpTo
  <2> QED
    BY <1>2, <1>3, <2>1
<1>8. TailData'
  BY <1>1, <1>5, <1>6, <1>7 DEF TailData
<1> QED
  BY <1>1, <1>8 DEF Newlines

LEMMA ReadKeepsData ==
    ASSUME TypeInv, TailData, Read
    PROVE  TailData' /\ caddyVars' = caddyVars
<1>1. /\ partial \in Seq(Byte) /\ offset \in Nat /\ Len(partial) \in Nat
  BY Positive DEF TypeInv, WorkerSound
<1>2. PICK v \in Version, n \in Nat :
        /\ v = file[openIno] /\ openIno # NoFile /\ openIno' = openIno
        /\ offset' = n /\ offset < n /\ n <= size[v]
        /\ partial' = partial \o Bytes(v, offset, n)
        /\ Len(Bytes(v, offset, n)) = n - offset
        /\ Bytes(v, offset, n) \in Seq(Byte)
        /\ \A i \in 1..(n - offset) : Bytes(v, offset, n)[i] = <<v, offset + i>>
  BY ReadBytes
<1>3. file' = file /\ size' = size /\ caddyVars' = caddyVars
  BY DEF Read, caddyVars
<1>4. Len(partial') = Len(partial) + (n - offset)
  <2>1. Len(partial') = Len(partial) + Len(Bytes(v, offset, n))
    BY <1>1, <1>2, ConcatProperties
  <2> QED
    BY <1>2, <2>1
<1>5. Start' = Start /\ Start = offset - Len(partial)
  BY <1>1, <1>2, <1>4 DEF Start
<1>6. ASSUME NEW i \in 1..Len(partial')
      PROVE  partial'[i] = <<v, Start + i>>
  <2>1. i \in Nat /\ i > 0 /\ i <= Len(partial) + (n - offset)
    BY <1>1, <1>2, <1>4
  <2>2. CASE i <= Len(partial)
    <3>1. partial'[i] = partial[i]
      BY <1>1, <1>2, <2>1, <2>2
    <3> QED
      BY <1>1, <1>2, <2>1, <2>2, <3>1 DEF TailData
  <2>3. CASE i > Len(partial)
    <3>1. i - Len(partial) \in 1..(n - offset)
      BY <1>1, <1>2, <2>1, <2>3
    <3>2. partial'[i] = Bytes(v, offset, n)[i - Len(partial)]
      BY <1>1, <1>2, <2>1, <2>3
    <3>3. offset + (i - Len(partial)) = Start + i
      BY <1>1, <1>5, <2>1
    <3> QED
      BY <1>2, <3>1, <3>2, <3>3
  <2> QED
    BY <1>1, <2>1, <2>2, <2>3
<1>7. \A l \in LinesUpTo(v, Start) : Seen(l)'
  <2>1. batch' = batch /\ counted' = counted /\ dropped' = dropped
    BY DEF Read, drainVars, dbVars
  <2> QED
    BY <1>2, <2>1 DEF TailData, Seen, Accounted, InBatch
<1> QED
  BY <1>2, <1>3, <1>5, <1>6, <1>7 DEF TailData, Aligned, LinesUpTo

LEMMA ParseKeepsData ==
    ASSUME TypeInv, TailData, Parse
    PROVE  TailData' /\ caddyVars' = caddyVars
<1> DEFINE v == file[openIno]
<1>1. /\ partial \in Seq(Byte) /\ offset \in Nat /\ Len(partial) \in Nat /\ openIno # NoFile
      /\ LineLen \in Nat /\ LineLen > 0 /\ batch \in Seq(Line) /\ Newlines # {}
  BY Positive DEF TypeInv, WorkerSound, Parse, Draining
<1>2. PICK q \in Nat :
        /\ Start = q * LineLen /\ Start + LineLen = (q + 1) * LineLen
        /\ FirstNewline = LineLen /\ LineLen <= Len(partial)
  BY <1>1, TailNewline
<1>3. Parsed(SubSeq(partial, 1, LineLen)) = {<<v, q + 1>>}
  BY <1>1, <1>2, TailParses
<1>4. /\ partial' = SubSeq(partial, LineLen + 1, Len(partial))
      /\ batch' = Append(batch, <<v, q + 1>>)
      /\ file' = file /\ size' = size /\ openIno' = openIno /\ offset' = offset
      /\ counted' = counted /\ dropped' = dropped /\ caddyVars' = caddyVars
  BY <1>2, <1>3 DEF Parse, caddyVars, dbVars
<1>5. /\ Len(partial') = Len(partial) - LineLen
      /\ \A i \in 1..(Len(partial) - LineLen) : partial'[i] = partial[LineLen + i]
  BY <1>1, <1>2, <1>4
<1>6. Start' = Start + LineLen /\ Start \in Int
  <2>1. Start' = offset' - Len(partial') /\ Start = offset - Len(partial)
    BY DEF Start
  <2> QED
    BY <1>1, <1>4, <1>5, <2>1
<1>7. Aligned(Start)'
  <2>1. q + 1 \in Nat /\ Start' = (q + 1) * LineLen
    BY <1>2, <1>6
  <2>2. \E p \in Nat : Start' = p * LineLen
    BY <2>1
  <2> QED
    BY <2>2 DEF Aligned
<1>8. ASSUME NEW i \in 1..Len(partial')
      PROVE  partial'[i] = <<v, Start' + i>>
  <2>1. i \in Int /\ LineLen + i \in 1..Len(partial)
    BY <1>1, <1>2, <1>5
  <2>2. partial'[i] = <<v, Start + (LineLen + i)>>
    BY <1>5, <2>1 DEF TailData
  <2>3. Start + (LineLen + i) = Start' + i
    BY <1>1, <1>6, <2>1
  <2> QED
    BY <2>2, <2>3
<1>9. ASSUME NEW l \in LinesUpTo(v, Start')
      PROVE  Seen(l)'
  <2>1. CASE l \in LinesUpTo(v, Start)
    <3>1. Seen(l)
      BY <2>1 DEF TailData
    <3>2. l \in Line /\ [Next]_vars /\ ~Crash
      BY <1>9, LinesAreLines DEF Next, Worker, Parse, Crash
    <3> QED
      BY <3>1, <3>2, SeenKept
  <2>2. CASE l = <<v, q + 1>>
    <3>1. Len(batch') = Len(batch) + 1 /\ batch'[Len(batch) + 1] = l
      BY <1>1, <1>4, <2>2, <1>9
    <3>2. Len(batch) + 1 \in 1..Len(batch')
      BY <1>1, <3>1
    <3>3. InBatch(l)'
      BY <3>1, <3>2 DEF InBatch
    <3> QED
      BY <3>3 DEF Seen
  <2>3. LinesUpTo(v, Start') = LinesUpTo(v, (q + 1) * LineLen)
    BY <1>2, <1>6
  <2> QED
    BY <1>2, <1>9, <2>1, <2>2, <2>3, NextLine
<1>10. offset' <= size'[file'[openIno']]
  BY <1>4 DEF TailData
<1> QED
  BY <1>4, <1>7, <1>8, <1>9, <1>10 DEF TailData, LinesUpTo

\* Steps of the worker that leave the tail alone.
LEMMA ProgressKept ==
    ASSUME TypeInv, openIno # NoFile, TailData, TailProgress, failures \in Nat,
           Tick \/ ReadsEnd \/ ParseEnds \/ Flush \/ FlushFails \/ Persist \/ Save \/ PersistFails
             \/ Stat \/ ReadFails
    PROVE  TailProgress'
<1>1. /\ caddyVars' = caddyVars /\ tailVars' = tailVars /\ limit' = limit
      /\ file' = file /\ size' = size /\ openIno' = openIno /\ offset' = offset
      /\ partial' = partial
  BY DEF Tick, ReadsEnd, ParseEnds, Flush, FlushFails, Persist, Save, PersistFails, Stat, ReadFails,
         drainVars, tailVars, caddyVars
<1>2. Newlines' = Newlines
  BY <1>1 DEF Newlines, EndsLine
<1>3. /\ offset \in Nat /\ limit \in Nat /\ size[file[openIno]] \in Nat
      /\ Chunk \in Nat /\ Chunk > 0
  BY FileFacts, Positive DEF TypeInv, WorkerSound
<1>4. CASE ReadFails \/ FlushFails \/ PersistFails
  <2>1. failures' # 0 /\ pc' \notin {"read", "parse", "flush", "persist"}
    BY <1>4 DEF ReadFails, FlushFails, PersistFails, AfterReads
  <2> QED
    BY <2>1 DEF TailProgress
<1>5. CASE ReadsEnd
  <2>1. pc = "read" /\ failures' = failures /\ pc' \in {"flushLast", "save", "stat"}
    BY <1>5, AfterReadsStep DEF ReadsEnd
  <2>2. limit <= offset
    BY <1>3, <1>5, <2>1 DEF ReadsEnd, Readable, Least, TailProgress
  <2> QED
    BY <1>1, <1>2, <2>1, <2>2 DEF TailProgress
<1>6. CASE Tick
  <2>1. pc = "idle" /\ pc' = "drain" /\ failures' = failures
    BY <1>6 DEF Tick
  <2> QED
    BY <1>2, <2>1 DEF TailProgress
<1>7. CASE ParseEnds
  <2>1. pc = "parse" /\ pc' = "read" /\ failures' = failures /\ Newlines = {}
    BY <1>7 DEF ParseEnds
  <2> QED
    BY <1>1, <1>2, <2>1 DEF TailProgress
<1>8. CASE Flush
  <2>1. /\ \/ pc = "flush" /\ pc' = "persist"
           \/ pc = "flushLast" /\ pc' = "persistLast"
        /\ failures' = failures
    BY <1>8 DEF Flush
  <2> QED
    BY <1>1, <1>2, <2>1 DEF TailProgress
<1>9. CASE Persist
  <2>1. /\ \/ pc = "persist" /\ pc' = "parse"
           \/ pc = "persistLast" /\ pc' \in {"save", "stat"}
        /\ failures' = failures
    BY <1>9 DEF Persist
  <2> QED
    BY <1>1, <1>2, <2>1 DEF TailProgress
<1>10. CASE Save
  <2>1. pc = "save" /\ pc' = "idle" /\ failures' = failures
    BY <1>10 DEF Save
  <2> QED
    BY <1>2, <2>1 DEF TailProgress
<1>11. CASE Stat
  <2>1. pc = "stat" /\ pc' \in {"open", "save"} /\ failures' = failures
    BY <1>11 DEF Stat
  <2> QED
    BY <1>1, <1>2, <2>1 DEF TailProgress
<1> QED
  BY <1>4, <1>5, <1>6, <1>7, <1>8, <1>9, <1>10, <1>11

LEMMA CaddyTail ==
    ASSUME TypeInv, openIno # NoFile, TailData, TailProgress, Caddy, ~truncated'
    PROVE  TailData' /\ TailProgress'
<1>1. /\ pc' = pc /\ tailVars' = tailVars /\ limit' = limit /\ failures' = failures
      /\ openIno' = openIno /\ offset' = offset /\ partial' = partial
  BY DEF Caddy, Create, RollAway, Write, Truncate, drainVars, tailVars
<1>2. file'[openIno] = file[openIno]
  BY FilesMove DEF TypeInv
<1>3. [Next]_vars /\ ~Crash
  BY DEF Next, Caddy, Create, RollAway, Write, Truncate, Crash
<1>4. TailData'
  BY <1>1, <1>2, <1>3, DataKept
<1>5. Newlines' = Newlines
  BY <1>1 DEF Newlines, EndsLine
<1>6. limit \in Nat /\ file[openIno] \in Version
  BY FileFacts, Positive DEF TypeInv, WorkerSound
<1>7. limit <= size[file[openIno]] => limit <= size'[file[openIno]]
  BY <1>3, <1>6, SizesKept
<1> QED
  BY <1>1, <1>2, <1>4, <1>5, <1>7 DEF TailProgress

LEMMA DrainTail ==
    ASSUME TypeInv, TailData, TailProgress, Drain
    PROVE  TailData' /\ TailProgress'
<1>1. openIno # NoFile /\ offset \in Nat /\ size[file[openIno]] \in Nat
  BY FileFacts, Positive DEF TypeInv, WorkerSound, Drain, Draining
<1>2. ~(size[file[openIno]] < offset)
  BY <1>1 DEF TailData
<1>3. /\ offset' = offset /\ partial' = partial /\ openIno' = openIno /\ file' = file
      /\ size' = size /\ pc' = "read" /\ failures' = failures /\ limit' = size[file[openIno]]
  BY <1>2 DEF Drain, caddyVars
<1>4. TailData'
  <2>1. [Next]_vars /\ ~Crash
    BY DEF Next, Worker, Drain, Crash
  <2> QED
    BY <1>1, <1>3, <2>1, DataKept
<1>5. Newlines' = Newlines
  BY <1>3 DEF Newlines, EndsLine
<1> QED
  BY <1>1, <1>3, <1>4, <1>5 DEF TailProgress, Drain

LEMMA ReadTail ==
    ASSUME TypeInv, TailData, TailProgress, Read
    PROVE  TailData' /\ TailProgress'
<1>1. TailData' /\ caddyVars' = caddyVars
  BY ReadKeepsData
<1>2. pc = "read" /\ pc' = "parse" /\ limit' = limit /\ openIno' = openIno
      /\ file' = file /\ size' = size
  BY <1>1 DEF Read, drainVars, caddyVars
<1> QED
  BY <1>1, <1>2 DEF TailProgress

LEMMA ParseTail ==
    ASSUME TypeInv, TailData, TailProgress, Parse
    PROVE  TailData' /\ TailProgress'
<1>1. TailData' /\ caddyVars' = caddyVars
  BY ParseKeepsData
<1>2. pc = "parse" /\ pc' \in {"parse", "flush"} /\ limit' = limit /\ openIno' = openIno
      /\ file' = file /\ size' = size
  BY <1>1 DEF Parse, caddyVars
<1> QED
  BY <1>1, <1>2 DEF TailProgress

\* init: the worker starts at the beginning, or where the saved row says.
LEMMA InitOpenTail ==
    ASSUME PositionInv, OffsetIsOwn, InitOpen, openIno' # NoFile, TypeInv'
    PROVE  TailData' /\ TailProgress'
<1>1. /\ SavedSound /\ StartSound /\ TypeInv /\ pc = "opening"
      /\ openIno' = path /\ path # NoFile /\ offset' = offset /\ partial' = <<>> /\ pc' = "idle"
      /\ file' = file /\ size' = size /\ saved' = saved /\ counted' = counted /\ dropped' = dropped
  BY DEF PositionInv, InitOpen, OpenPath, caddyVars, dbVars
<1>2. Len(partial') = 0 /\ DOMAIN partial' = {}
  BY <1>1, EmptyIsSeq
<1>3. Newlines' = {} /\ TailProgress'
  BY <1>1, <1>2 DEF Newlines, TailProgress
<1>4. CASE offset = 0
  <2>1. offset' = 0 /\ partial' = <<>> /\ openIno' # NoFile
    BY <1>1, <1>4
  <2> QED
    BY <1>3, <2>1, FreshTail
<1>5. CASE versions <= 1 /\ saved.of = 1 /\ offset = saved.offset
  <2>1. file[path] \in 0..MaxVersion /\ file[path] > 0 /\ file[path] <= versions
        /\ versions \in 0..MaxVersion
    BY <1>1 DEF TypeInv, FilesSound
  <2>2. file[path] = saved.of
    BY <1>5, <2>1, Positive
  <2>3. offset \in Nat /\ Start' = saved.offset
    <3>1. offset \in Nat
      BY <1>1, Positive DEF TypeInv, WorkerSound
    <3>2. Start' = offset' - Len(partial')
      BY DEF Start
    <3> QED
      BY <1>1, <1>2, <1>5, <3>1, <3>2
  <2>4. \A l \in LinesUpTo(saved.of, saved.offset) : Seen(l)'
    BY <1>1 DEF SavedSound, Seen, Accounted
  <2>5. Aligned(Start)'
    BY <1>1, <2>3 DEF SavedSound, Aligned
  <2>6. offset' <= size'[file'[openIno']]
    BY <1>1, <1>5, <2>2 DEF SavedSound
  <2>7. TailData'
    BY <1>1, <1>2, <2>2, <2>3, <2>4, <2>5, <2>6 DEF TailData, LinesUpTo
  <2> QED
    BY <1>3, <2>7
<1> QED
  BY <1>1, <1>4, <1>5 DEF StartSound

LEMMA OpenTail ==
    ASSUME Open, openIno' # NoFile, TypeInv'
    PROVE  TailData' /\ TailProgress'
<1>1. offset' = 0 /\ partial' = <<>> /\ pc' = "drain"
  BY DEF Open, OpenPath
<1>2. TailData' /\ Newlines' = {}
  BY <1>1, FreshTail
<1> QED
  BY <1>1, <1>2 DEF TailProgress

LEMMA TailStep ==
    ASSUME PositionInv, [Next]_vars, TypeInv', OffsetIsOwn'
    PROVE  TailSound'
<1> SUFFICES ASSUME openIno' # NoFile
             PROVE  TailData' /\ TailProgress'
  BY DEF TailSound
<1>1. TypeInv /\ OffsetIsOwn /\ ~truncated' /\ TailSound /\ failures \in Nat
  BY OwnBefore, Positive DEF PositionInv, TypeInv, StoreSound
<1>2. CASE Crash \/ InitStat
  BY <1>2 DEF Crash, InitStat, PositionInv, TypeInv, WorkerSound
<1>3. CASE InitOpen \/ Open
  BY <1>1, <1>3, InitOpenTail, OpenTail
<1>4. CASE Caddy \/ Drain \/ Read \/ Parse
  <2>1. openIno # NoFile
    BY <1>4 DEF Caddy, Create, RollAway, Write, Truncate, Drain, Read, Parse, tailVars
  <2> QED
    BY <1>1, <1>4, <2>1, CaddyTail, DrainTail, ReadTail, ParseTail DEF TailSound
<1>5. CASE Tick \/ ReadsEnd \/ ParseEnds \/ Flush \/ FlushFails \/ Persist \/ Save \/ PersistFails
             \/ Stat \/ ReadFails
  <2>1. /\ openIno' = openIno /\ file' = file /\ offset' = offset /\ partial' = partial
        /\ ~Crash
    BY <1>5 DEF Tick, ReadsEnd, ParseEnds, Flush, FlushFails, Persist, Save, PersistFails, Stat,
                ReadFails, Crash, drainVars, tailVars, caddyVars, AfterReads
  <2>2. TailData /\ TailProgress
    BY <1>1, <2>1 DEF TailSound
  <2>3. TailData'
    BY <1>1, <2>1, <2>2, DataKept
  <2> QED
    BY <1>1, <1>5, <2>1, <2>2, <2>3, ProgressKept
<1>6. CASE UNCHANGED vars
  <2>1. /\ openIno' = openIno /\ file' = file /\ offset' = offset /\ partial' = partial
        /\ pc' = pc /\ limit' = limit /\ failures' = failures /\ size' = size /\ ~Crash
    BY <1>6 DEF vars, drainVars, tailVars, caddyVars, Crash
  <2>2. TailData /\ TailProgress
    BY <1>1, <2>1 DEF TailSound
  <2>3. TailData'
    BY <1>1, <2>1, <2>2, DataKept
  <2> QED
    BY <2>1, <2>2, <2>3 DEF TailProgress, Newlines, EndsLine
<1> QED
  BY <1>2, <1>3, <1>4, <1>5, <1>6 DEF Next, Worker, Failure

LEMMA SavedStep ==
    ASSUME PositionInv, [Next]_vars, OffsetIsOwn'
    PROVE  SavedSound'
<1>1. TypeInv /\ BatchSound /\ SavedSound /\ TailSound
  BY OwnBefore DEF PositionInv
<1>2. CASE saved' = saved
  BY <1>1, <1>2, SavedKept
<1>3. CASE saved' # saved
  <2>1. Persist \/ Save
    BY <1>3
       DEF Next, Caddy, Worker, Failure, Create, RollAway, Write, Truncate, ReadFails, FlushFails,
           PersistFails, Crash, InitStat, InitOpen, Tick, Drain, Read, ReadsEnd, Parse, ParseEnds,
           Flush, Stat, Open, vars, dbVars
  <2>2. openIno # NoFile /\ saved' = TailState
    BY <1>1, <1>3, <2>1 DEF Persist, Save, TypeInv, WorkerSound, Draining
  <2> QED
    BY <1>1, <2>1, <2>2, SavedMoves
<1> QED
  BY <1>2, <1>3

LEMMA StartStep ==
    ASSUME PositionInv, [Next]_vars, OffsetIsOwn'
    PROVE  StartSound'
<1>1. /\ TypeInv /\ RowSound /\ StartSound /\ OffsetIsOwn
      /\ crashes \in Nat /\ versions \in Nat
  BY OwnBefore, Positive DEF PositionInv, TypeInv, StoreSound, FilesSound
<1>2. CASE InitStat
  <2> SUFFICES ASSUME pc' = "opening", offset' # 0
               PROVE  versions' <= 1 /\ saved'.of = 1 /\ offset' = saved'.offset
    BY DEF StartSound
  <2>1. /\ path # NoFile /\ saved.ino = path /\ offset' = saved.offset /\ pc = "down"
        /\ saved' = saved /\ versions' = versions
    BY <1>2 DEF InitStat, dbVars, caddyVars
  <2>2. crashes # 0
    BY <1>1, <2>1 DEF RowSound, NothingSaved
  <2>3. versions <= 1
    BY <1>1, <2>2 DEF OffsetIsOwn
  <2>4. saved.of \in 1..versions
    BY <1>1, <2>1 DEF RowSound
  <2> QED
    BY <1>1, <2>1, <2>3, <2>4
<1>3. CASE Caddy
  <2>1. pc' = pc /\ offset' = offset /\ saved' = saved /\ crashes' = crashes
    BY <1>3 DEF Caddy, Create, RollAway, Write, Truncate, tailVars, dbVars
  <2>2. pc = "opening" /\ crashes = 0 => offset = 0
    BY <1>1 DEF RowSound
  <2>3. crashes = 0 \/ versions' <= 1
    BY <2>1 DEF OffsetIsOwn
  <2> QED
    BY <1>1, <2>1, <2>2, <2>3 DEF StartSound
<1>4. CASE UNCHANGED vars
  BY <1>1, <1>4 DEF vars, caddyVars, tailVars, dbVars, StartSound
<1>5. CASE ~InitStat /\ ~Caddy /\ ~UNCHANGED vars
  <2>1. pc' # "opening"
    BY <1>5
       DEF Next, Worker, Failure, ReadFails, FlushFails, PersistFails, Crash, InitOpen, Tick, Drain,
           Read, ReadsEnd, Parse, ParseEnds, Flush, Persist, Save, Stat, Open, AfterReads
  <2> QED
    BY <2>1 DEF StartSound
<1> QED
  BY <1>2, <1>3, <1>4, <1>5

LEMMA PositionInit == Init => PositionInv
<1> SUFFICES ASSUME Init PROVE PositionInv
  OBVIOUS
<1>1. TypeInv
  BY TypeInit
<1>2. /\ pc = "down" /\ batch = <<>> /\ openIno = NoFile /\ saved = NothingSaved /\ offset = 0
      /\ file = [i \in Ino |-> 0]
  BY DEF Init
<1>3. saved.ino = NoFile /\ saved.of = 0 /\ saved.offset = 0
  BY <1>2 DEF NothingSaved
<1>4. SavedSound
  <2>1. 0 = 0 * LineLen
    BY Positive
  <2>2. Aligned(saved.offset)
    BY <1>3, <2>1 DEF Aligned
  <2>3. LinesUpTo(saved.of, saved.offset) = {}
    BY <1>3, NoLineAtStart
  <2> QED
    BY <1>3, <2>2, <2>3 DEF SavedSound
<1>5. BatchSound /\ StartSound /\ TailSound
  BY <1>2 DEF BatchSound, StartSound, TailSound
<1>6. RowSound
  BY <1>2, <1>3 DEF RowSound
<1> QED
  BY <1>1, <1>4, <1>5, <1>6 DEF PositionInv

LEMMA PositionStep == PositionInv /\ [Next]_vars => PositionInv'
<1> SUFFICES ASSUME PositionInv, [Next]_vars
             PROVE  PositionInv'
  OBVIOUS
<1>1. TypeInv /\ BatchSound /\ RowSound
  BY DEF PositionInv
<1>2. TypeInv'
  BY <1>1, TypeStep
<1>3. BatchSound'
  BY <1>1, BatchStep
<1>4. RowSound'
  BY <1>1, RowStep
<1>5. OffsetIsOwn' => SavedSound' /\ StartSound' /\ TailSound'
  BY <1>2, SavedStep, StartStep, TailStep
<1> QED
  BY <1>2, <1>3, <1>4, <1>5 DEF PositionInv

\* A rolled file is left when its lines were seen, and then they are counted.
LEMMA RolledIsFinished ==
    ASSUME PositionInv
    PROVE  RolledFileIsFinished
<1> SUFFICES ASSUME pc = "open", openIno # NoFile, failures = 0, OffsetIsOwn,
                    NEW l \in LinesUpTo(file[openIno], limit)
             PROVE  Accounted(l)
  BY DEF RolledFileIsFinished
<1>1. TypeInv /\ TailData /\ TailProgress /\ batch = <<>> /\ Len(batch) = 0
  BY EmptyIsSeq DEF PositionInv, TailSound, BatchSound
<1>2. limit <= offset /\ Newlines = {}
  BY <1>1 DEF TailProgress
<1>3. PICK q \in Nat : Start = q * LineLen /\ Len(partial) < LineLen
  BY <1>1, <1>2, TailNewline
<1>4. limit \in Int /\ limit < q * LineLen + LineLen
  <2>1. limit \in Nat /\ offset \in Nat /\ Len(partial) \in Nat /\ LineLen \in Nat
    BY <1>1, Positive DEF TypeInv, WorkerSound
  <2>2. offset - Len(partial) = q * LineLen /\ q * LineLen \in Int
    BY <1>3, <2>1 DEF Start
  <2> QED
    BY <1>2, <1>3, <2>1, <2>2
<1>5. l \in LinesUpTo(file[openIno], Start)
  BY <1>3, <1>4, LinesBefore
<1> QED
  BY <1>1, <1>5 DEF TailData, Seen, InBatch

\* The saved offset never runs ahead of the counters, and a rolled file is
\* left only when its lines are accounted for: whatever crashes, fails or is
\* rolled, as long as the offset is one of the open file (persistTailState,
\* drainOpenFd and poll of ingest.ts).
THEOREM PositionIsSoundHolds == Spec => []PositionIsSound
<1>1. PositionInv => PositionIsSound
  <2> SUFFICES ASSUME PositionInv
               PROVE  PositionIsSound
    OBVIOUS
  <2>1. TypeOK
    BY TypesImplied DEF PositionInv
  <2>2. SavedIsCommitted
    BY DEF PositionInv, SavedIsCommitted, SavedSound
  <2> QED
    BY <2>1, <2>2, RolledIsFinished DEF PositionIsSound
<1> QED
  BY <1>1, PositionInit, PositionStep, PTL DEF Spec

-----------------------------------------------------------------------------
(* The saved position only moves forward                                   *)

\* Nobody truncated the log, and no read failed in a start after the first.
Uninterrupted == ~truncated /\ (failures = 0 \/ crashes = 0)

SavedWritten == saved.of > 0 => saved.offset <= size[saved.of]

\* The saved file is opened where its row says.
StartsThere ==
    pc = "opening" /\ path # NoFile /\ file[path] = saved.of => offset = saved.offset

\* The saved file is open, or it will not be opened again by this run.
OthersAreNew ==
    pc \notin {"down", "opening"} /\ path # NoFile /\ path # openIno => file[path] # saved.of

\* What is open was parsed up to the saved offset at least.  Until its first
\* drain, the worker may be behind the end of a file that took over the inode.
OpenIsAhead ==
    openIno # NoFile =>
      /\ file[openIno] = saved.of => Start >= saved.offset
      /\ \/ offset <= size[file[openIno]]
         \/ crashes > 0 /\ pc \in {"idle", "drain"} /\ file[openIno] # saved.of

BackSound ==
    Uninterrupted => SavedWritten /\ StartsThere /\ OthersAreNew /\ OpenIsAhead

BackInv == TypeInv /\ RowSound /\ BackSound

LEMMA UninterruptedBefore ==
    ASSUME TypeInv, [Next]_vars, Uninterrupted'
    PROVE  Uninterrupted
<1>1. crashes \in Nat /\ failures \in Nat
  BY Positive DEF TypeInv, StoreSound
<1>2. CASE Caddy \/ UNCHANGED vars
  BY <1>2 DEF Uninterrupted, Caddy, Create, RollAway, Write, Truncate, vars, caddyVars
<1>3. CASE Crash
  BY <1>1, <1>3 DEF Uninterrupted, Crash, caddyVars
<1>4. CASE Worker \/ ReadFails \/ FlushFails \/ PersistFails
  <2>1. truncated' = truncated /\ crashes' = crashes /\ failures' \in {failures, failures + 1}
    BY <1>4
       DEF Worker, ReadFails, FlushFails, PersistFails, InitStat, InitOpen, Tick, Drain, Read,
           ReadsEnd, Parse, ParseEnds, Flush, Persist, Save, Stat, Open, caddyVars
  <2> QED
    BY <1>1, <2>1 DEF Uninterrupted
<1> QED
  BY <1>2, <1>3, <1>4 DEF Next, Failure

\* What the row and the worker's position are.
LEMMA BackTypes ==
    ASSUME TypeInv, RowSound
    PROVE  /\ saved.offset \in Nat /\ saved.of \in Nat /\ saved.of <= versions
           /\ saved.of > 0 => saved.of \in Version
           /\ versions \in Nat /\ crashes \in Nat /\ failures \in Nat
           /\ offset \in Nat /\ Len(partial) \in Nat /\ Len(partial) <= offset /\ Start \in Nat
<1>1. saved \in Positions /\ versions \in 0..MaxVersion
  BY DEF TypeInv, StoreSound, FilesSound
<1>2. /\ saved.offset \in Nat /\ saved.of \in 0..MaxVersion /\ versions \in Nat
      /\ crashes \in Nat /\ failures \in Nat
  BY <1>1, Positive DEF Positions, TypeInv, StoreSound
<1>3. saved.of <= versions
  BY <1>2 DEF RowSound, NothingSaved
<1>4. offset \in Nat /\ Len(partial) \in Nat /\ Len(partial) <= offset
  BY Positive DEF TypeInv, WorkerSound
<1>5. Start \in Nat
  BY <1>4 DEF Start
<1> QED
  BY <1>2, <1>3, <1>4, <1>5, Positive DEF Version

\* Caddy gives its files new versions only, and they only grow.
LEMMA CaddyBack ==
    ASSUME BackInv, Caddy, Uninterrupted'
    PROVE  BackSound'
<1>1. /\ TypeInv /\ RowSound /\ SavedWritten /\ StartsThere /\ OthersAreNew /\ OpenIsAhead
      /\ FilesSound
  BY UninterruptedBefore DEF BackInv, BackSound, TypeInv, Next
<1>2. /\ pc' = pc /\ saved' = saved /\ offset' = offset /\ partial' = partial
      /\ openIno' = openIno /\ crashes' = crashes
  BY DEF Caddy, Create, RollAway, Write, Truncate, tailVars, dbVars
<1>3. Start' = Start
  BY <1>2 DEF Start
<1>4. \A v \in Version : size[v] \in Nat /\ size'[v] \in Nat /\ size'[v] >= size[v]
  BY <1>1, SizesKept DEF Next
<1>5. saved.of \in Nat /\ saved.offset \in Nat /\ saved.of <= versions /\ versions \in Nat
      /\ (saved.of > 0 => saved.of \in Version) /\ offset \in Nat
  BY <1>1, BackTypes
<1>6. /\ openIno # NoFile => file'[openIno] = file[openIno]
      /\ path' # NoFile => \/ file'[path'] > versions
                           \/ path # NoFile /\ path' = path /\ file'[path'] = file[path]
  BY <1>1, FilesMove DEF Uninterrupted
<1>7. SavedWritten'
  BY <1>1, <1>2, <1>4, <1>5 DEF SavedWritten
<1>8. path' # NoFile /\ file'[path'] > versions => file'[path'] # saved.of
  <2>1. path' # NoFile => file'[path'] \in Nat
    <3>1. FilesSound'
      BY <1>1, TypeStep DEF TypeInv, Next
    <3> QED
      BY <3>1, Positive DEF FilesSound
  <2> QED
    BY <1>5, <2>1
<1>9. StartsThere' /\ OthersAreNew'
  BY <1>1, <1>2, <1>6, <1>8 DEF StartsThere, OthersAreNew
<1>10. OpenIsAhead'
  <2> SUFFICES ASSUME openIno # NoFile
               PROVE  OpenIsAhead'
    BY <1>2 DEF OpenIsAhead
  <2>1. file[openIno] \in Version
    BY <1>1, FileFacts
  <2>2. size[file[openIno]] \in Nat /\ size'[file[openIno]] \in Nat
        /\ size'[file[openIno]] >= size[file[openIno]]
    BY <1>4, <2>1
  <2> QED
    BY <1>1, <1>2, <1>3, <1>5, <1>6, <2>2 DEF OpenIsAhead
<1> QED
  BY <1>7, <1>9, <1>10 DEF BackSound

\* A start: the row says where the saved file goes on, or nothing is saved.
LEMMA StartBack ==
    ASSUME BackInv, InitStat \/ InitOpen, Uninterrupted'
    PROVE  BackSound'
<1>1. /\ TypeInv /\ RowSound /\ SavedWritten /\ StartsThere /\ OthersAreNew /\ OpenIsAhead
      /\ FilesSound /\ openIno = NoFile /\ partial = <<>> /\ Uninterrupted
  BY UninterruptedBefore
     DEF BackInv, BackSound, TypeInv, Next, Worker, WorkerSound, InitStat, InitOpen
<1>2. /\ saved' = saved /\ path' = path /\ file' = file /\ size' = size /\ crashes' = crashes
  BY DEF InitStat, InitOpen, dbVars, caddyVars
<1>3. /\ saved.of \in Nat /\ saved.offset \in Nat /\ crashes \in Nat /\ failures \in Nat
      /\ offset \in Nat
  BY <1>1, BackTypes
<1>4. path # NoFile => /\ path \in Ino /\ file[path] \in Version /\ file[path] > 0
                       /\ size[file[path]] \in Nat
  BY <1>1, FileFacts, Positive DEF FilesSound
<1>5. SavedWritten'
  BY <1>1, <1>2 DEF SavedWritten
<1>6. CASE InitStat
  <2>1. openIno' = NoFile /\ (pc' = "idle" => path = NoFile) /\ pc' \in {"idle", "opening"}
    BY <1>1, <1>6 DEF InitStat
  <2>2. OthersAreNew' /\ OpenIsAhead'
    BY <1>2, <2>1 DEF OthersAreNew, OpenIsAhead
  <2>3. ASSUME path # NoFile, file[path] = saved.of
        PROVE  offset' = saved.offset
    <3>1. path = saved.ino
      BY <1>1, <1>4, <2>3 DEF RowSound
    <3>2. CASE offset' = IF saved.ino = path THEN saved.offset ELSE 0
      BY <3>1, <3>2
    <3>3. CASE failures' = failures + 1
      <4>1. crashes = 0
        BY <1>2, <1>3, <3>3 DEF Uninterrupted
      <4>2. saved.of = 0
        BY <1>1, <1>6, <4>1 DEF RowSound, NothingSaved, InitStat
      <4> QED
        BY <1>4, <2>3, <4>2
    <3> QED
      BY <1>6, <2>3, <3>2, <3>3 DEF InitStat
  <2> QED
    BY <1>2, <1>5, <2>2, <2>3 DEF BackSound, StartsThere
<1>7. CASE InitOpen
  <2>1. openIno' = path /\ pc' = "idle" /\ pc = "opening"
    BY <1>7 DEF InitOpen, OpenPath
  <2>2. StartsThere' /\ OthersAreNew'
    BY <1>2, <2>1 DEF StartsThere, OthersAreNew
  <2>3. OpenIsAhead'
    <3> SUFFICES ASSUME path # NoFile
                 PROVE  OpenIsAhead'
      BY <2>1 DEF OpenIsAhead
    <3>1. offset' = offset /\ partial' = <<>>
      BY <1>7 DEF InitOpen, OpenPath
    <3>2. Start' = offset
      <4>1. Start' = offset' - Len(partial')
        BY DEF Start
      <4> QED
        BY <1>3, <3>1, <4>1, EmptyIsSeq
    <3>3. CASE file[path] = saved.of
      <4>1. offset = saved.offset /\ offset <= size[file[path]]
        BY <1>1, <1>4, <2>1, <3>3 DEF StartsThere, SavedWritten
      <4> QED
        BY <1>2, <1>3, <2>1, <3>1, <3>2, <4>1 DEF OpenIsAhead
    <3>4. CASE file[path] # saved.of
      <4>1. crashes = 0 => offset = 0
        BY <1>1, <2>1 DEF RowSound
      <4>2. offset <= size[file[path]] \/ crashes > 0
        BY <1>3, <1>4, <4>1
      <4> QED
        BY <1>2, <2>1, <3>1, <3>4, <4>2 DEF OpenIsAhead
    <3> QED
      BY <3>3, <3>4
  <2> QED
    BY <1>5, <2>2, <2>3 DEF BackSound
<1> QED
  BY <1>6, <1>7

\* A file whose position was saved is never shorter than it; any other one is
\* read from its start.
LEMMA DrainBack ==
    ASSUME BackInv, Drain \/ Open, Uninterrupted'
    PROVE  BackSound'
<1>1. /\ TypeInv /\ RowSound /\ SavedWritten /\ StartsThere /\ OthersAreNew /\ OpenIsAhead
      /\ FilesSound
  BY UninterruptedBefore DEF BackInv, BackSound, TypeInv, Next, Worker
<1>2. /\ saved' = saved /\ path' = path /\ file' = file /\ size' = size /\ crashes' = crashes
      /\ pc \in {"drain", "open"} /\ pc' \in {"read", "idle", "drain"}
  BY DEF Drain, Open, dbVars, caddyVars
<1>3. /\ saved.of \in Nat /\ saved.offset \in Nat /\ offset \in Nat /\ Start \in Nat
  BY <1>1, BackTypes
<1>4. SavedWritten' /\ StartsThere'
  BY <1>1, <1>2 DEF SavedWritten, StartsThere
<1>5. CASE Drain
  <2>1. openIno # NoFile /\ openIno' = openIno /\ pc' = "read" /\ pc = "drain"
    BY <1>1, <1>5 DEF Drain, TypeInv, WorkerSound, Draining
  <2>2. OthersAreNew'
    BY <1>1, <1>2, <2>1 DEF OthersAreNew
  <2>3. size[file[openIno]] \in Nat
    BY <1>1, <2>1, FileFacts, Positive
  <2>4. CASE size[file[openIno]] < offset
    <3>1. file[openIno] # saved.of
      BY <1>1, <1>3, <2>1, <2>3, <2>4 DEF OpenIsAhead
    <3>2. offset' = 0
      BY <1>5, <2>4 DEF Drain
    <3>3. OpenIsAhead'
      BY <1>2, <2>1, <2>3, <3>1, <3>2 DEF OpenIsAhead
    <3> QED
      BY <1>4, <2>2, <3>3 DEF BackSound
  <2>5. CASE ~(size[file[openIno]] < offset)
    <3>1. offset' = offset /\ partial' = partial /\ offset <= size[file[openIno]]
      BY <1>3, <1>5, <2>3, <2>5 DEF Drain
    <3>2. Start' = Start
      BY <3>1 DEF Start
    <3>3. OpenIsAhead'
      BY <1>1, <1>2, <2>1, <3>1, <3>2 DEF OpenIsAhead
    <3> QED
      BY <1>4, <2>2, <3>3 DEF BackSound
  <2> QED
    BY <2>4, <2>5
<1>6. CASE Open
  <2>1. openIno' = path /\ pc = "open" /\ (path # NoFile => offset' = 0 /\ path # openIno)
    BY <1>1, <1>6 DEF Open, OpenPath, TypeInv, WorkerSound
  <2>2. OthersAreNew'
    BY <1>2, <2>1 DEF OthersAreNew
  <2>3. path # NoFile => file[path] # saved.of /\ size[file[path]] \in Nat
    BY <1>1, <2>1, FileFacts, Positive DEF OthersAreNew
  <2>4. OpenIsAhead'
    BY <1>2, <2>1, <2>3 DEF OpenIsAhead
  <2> QED
    BY <1>4, <2>2, <2>4 DEF BackSound
<1> QED
  BY <1>5, <1>6

\* Reading and parsing move the offset and the parsed position forward only.
LEMMA ReadBack ==
    ASSUME BackInv, Read \/ Parse, Uninterrupted'
    PROVE  BackSound'
<1>1. /\ TypeInv /\ RowSound /\ SavedWritten /\ StartsThere /\ OthersAreNew /\ OpenIsAhead
      /\ FilesSound
  BY UninterruptedBefore DEF BackInv, BackSound, TypeInv, Next, Worker
<1>2. /\ saved' = saved /\ path' = path /\ file' = file /\ size' = size /\ crashes' = crashes
      /\ openIno' = openIno /\ pc \in {"read", "parse"} /\ pc' \in {"parse", "flush"}
  BY DEF Read, Parse, dbVars, caddyVars
<1>3. /\ saved.offset \in Nat /\ offset \in Nat /\ Start \in Nat /\ Len(partial) \in Nat
      /\ partial \in Seq(Byte) /\ openIno # NoFile
  BY <1>1, <1>2, BackTypes DEF TypeInv, WorkerSound, Draining
<1>4. SavedWritten' /\ StartsThere' /\ OthersAreNew'
  BY <1>1, <1>2 DEF SavedWritten, StartsThere, OthersAreNew
<1>5. offset <= size[file[openIno]]
  BY <1>1, <1>2, <1>3 DEF OpenIsAhead
<1>6. Start' >= Start /\ Start' \in Nat /\ offset' <= size[file[openIno]]
  <2>1. Start' = offset' - Len(partial') /\ Start = offset - Len(partial)
    BY DEF Start
  <2>2. CASE Read
    <3>1. PICK v \in Version, n \in Nat :
             /\ v = file[openIno] /\ offset' = n /\ offset < n /\ n <= size[v]
             /\ partial' = partial \o Bytes(v, offset, n)
             /\ Len(Bytes(v, offset, n)) = n - offset
             /\ Bytes(v, offset, n) \in Seq(Byte)
      BY <1>1, <2>2, ReadBytes
    <3> DEFINE b == Bytes(v, offset, n)
    <3>2. b \in Seq(Byte) /\ Len(b) = n - offset /\ partial' = partial \o b
      BY <3>1
    <3> HIDE DEF b
    <3>3. Len(partial \o b) = Len(partial) + Len(b)
      BY <1>3, <3>2, ConcatProperties
    <3>4. Len(partial') = Len(partial) + (n - offset)
      BY <3>2, <3>3
    <3> QED
      BY <1>3, <2>1, <3>1, <3>4
  <2>3. CASE Parse
    <3> DEFINE k == FirstNewline
    <3>1. k \in 1..Len(partial)
      BY <1>3, <2>3, FirstNewlineFacts DEF Parse
    <3>2. partial' = SubSeq(partial, k + 1, Len(partial)) /\ offset' = offset
      BY <2>3 DEF Parse
    <3> HIDE DEF k
    <3>3. Len(partial') = Len(partial) - k
      BY <1>3, <3>1, <3>2
    <3> QED
      BY <1>3, <1>5, <2>1, <3>1, <3>2, <3>3
  <2> QED
    BY <2>2, <2>3
<1>7. OpenIsAhead'
  BY <1>1, <1>2, <1>3, <1>6 DEF OpenIsAhead
<1> QED
  BY <1>4, <1>7 DEF BackSound

\* What is saved of an open file is where its parsing stands.
LEMMA SaveBack ==
    ASSUME BackInv, Persist \/ Save, Uninterrupted'
    PROVE  BackSound' /\ (saved'.of = saved.of => saved'.offset >= saved.offset)
<1>1. /\ TypeInv /\ RowSound /\ SavedWritten /\ StartsThere /\ OthersAreNew /\ OpenIsAhead
      /\ FilesSound
  BY UninterruptedBefore DEF BackInv, BackSound, TypeInv, Next, Worker
<1>2. /\ path' = path /\ file' = file /\ size' = size /\ crashes' = crashes /\ openIno' = openIno
      /\ offset' = offset /\ partial' = partial
      /\ pc \in {"persist", "persistLast", "save"} /\ pc' \in {"parse", "save", "stat", "idle"}
  BY DEF Persist, Save, tailVars, caddyVars
<1>3. /\ saved.offset \in Nat /\ offset \in Nat /\ Start \in Nat /\ Len(partial) \in Nat
      /\ Start <= offset
  BY <1>1, BackTypes DEF Start
<1>4. Start' = Start /\ StartsThere'
  BY <1>2 DEF Start, StartsThere
<1>5. CASE openIno = NoFile
  <2>1. saved' = saved
    BY <1>1, <1>5 DEF Persist, Save, TypeInv, WorkerSound, Draining
  <2>2. SavedWritten' /\ OthersAreNew' /\ OpenIsAhead'
    BY <1>1, <1>2, <1>5, <2>1 DEF SavedWritten, OthersAreNew, OpenIsAhead
  <2> QED
    BY <1>3, <1>4, <2>1, <2>2 DEF BackSound
<1>6. CASE openIno # NoFile
  <2>1. saved'.of = file[openIno] /\ saved'.offset = Start
    BY <1>6 DEF Persist, Save, TailState, Start
  <2>2. offset <= size[file[openIno]] /\ (file[openIno] = saved.of => Start >= saved.offset)
    BY <1>1, <1>2, <1>6 DEF OpenIsAhead
  <2>3. size[file[openIno]] \in Nat /\ file[openIno] > 0 /\ openIno \in Ino
    BY <1>1, <1>6, FileFacts, Positive DEF FilesSound
  <2>4. SavedWritten'
    BY <1>2, <1>3, <2>1, <2>2, <2>3 DEF SavedWritten
  <2>5. path # NoFile /\ path # openIno => file[path] # file[openIno]
    BY <1>1, <2>3 DEF FilesSound
  <2>6. OthersAreNew'
    BY <1>2, <2>1, <2>5 DEF OthersAreNew
  <2>7. OpenIsAhead'
    BY <1>2, <1>3, <1>4, <2>1, <2>2 DEF OpenIsAhead
  <2> QED
    BY <1>4, <2>1, <2>2, <2>4, <2>6, <2>7 DEF BackSound
<1> QED
  BY <1>5, <1>6

LEMMA BackStep ==
    ASSUME BackInv, [Next]_vars
    PROVE  BackInv'
<1>1. TypeInv /\ RowSound /\ BackSound
  BY DEF BackInv
<1>2. TypeInv' /\ RowSound'
  BY <1>1, TypeStep, RowStep
<1>3. BackSound'
  <2> SUFFICES ASSUME Uninterrupted'
               PROVE  BackSound'
    BY DEF BackSound
  <2>1. Uninterrupted /\ SavedWritten /\ StartsThere /\ OthersAreNew /\ OpenIsAhead
    BY <1>1, UninterruptedBefore DEF BackSound
  <2>2. CASE Caddy
    BY <2>2, CaddyBack
  <2>3. CASE InitStat \/ InitOpen
    BY <2>3, StartBack
  <2>4. CASE Drain \/ Open
    BY <2>4, DrainBack
  <2>5. CASE Read \/ Parse
    BY <2>5, ReadBack
  <2>6. CASE Persist \/ Save
    BY <2>6, SaveBack
  <2>7. CASE Crash
    <3>1. /\ pc' = "down" /\ openIno' = NoFile /\ saved' = saved /\ size' = size
      BY <2>7 DEF Crash, caddyVars, dbVars
    <3> QED
      BY <2>1, <3>1 DEF BackSound, SavedWritten, StartsThere, OthersAreNew, OpenIsAhead
  <2>8. CASE Tick \/ ReadsEnd \/ ParseEnds \/ Flush \/ FlushFails \/ PersistFails \/ Stat
             \/ ReadFails \/ UNCHANGED vars
    <3>1. /\ path' = path /\ file' = file /\ size' = size /\ crashes' = crashes
          /\ openIno' = openIno /\ offset' = offset /\ partial' = partial /\ saved' = saved
      BY <2>8 DEF Tick, ReadsEnd, ParseEnds, Flush, FlushFails, PersistFails, Stat, ReadFails,
                  vars, caddyVars, tailVars, dbVars
    <3>2. /\ pc' = "opening" => pc = "opening"
          /\ pc' \notin {"down", "opening"} => pc \notin {"down", "opening"}
      BY <2>8 DEF Tick, ReadsEnd, ParseEnds, Flush, FlushFails, PersistFails, Stat, ReadFails,
                  vars, AfterReads
    <3>3. SavedWritten' /\ StartsThere' /\ OthersAreNew'
      BY <2>1, <3>1, <3>2 DEF SavedWritten, StartsThere, OthersAreNew
    <3>4. Start' = Start
      BY <3>1 DEF Start
    <3>5. pc \in {"idle", "drain"} => pc' \in {"idle", "drain"} \/ openIno = NoFile \/ crashes = 0
      <4>1. CASE ReadFails
        <5>1. failures' = failures + 1 /\ failures \in Nat
          BY <1>1, <4>1, BackTypes DEF ReadFails
        <5> QED
          BY <3>1, <5>1 DEF Uninterrupted
      <4>2. CASE ~ReadFails
        BY <2>8, <4>2 DEF Tick, ReadsEnd, ParseEnds, Flush, FlushFails, PersistFails, Stat, vars
      <4> QED
        BY <4>1, <4>2
    <3>6. OpenIsAhead'
      <4>1. crashes \in Nat
        BY <1>1, BackTypes
      <4> QED
        BY <2>1, <3>1, <3>4, <3>5, <4>1 DEF OpenIsAhead
    <3> QED
      BY <3>3, <3>6 DEF BackSound
  <2> QED
    BY <2>2, <2>3, <2>4, <2>5, <2>6, <2>7, <2>8 DEF Next, Worker, Failure
<1> QED
  BY <1>2, <1>3 DEF BackInv

LEMMA BackInit == Init => BackInv
<1> SUFFICES ASSUME Init PROVE BackInv
  OBVIOUS
<1>1. TypeInv /\ RowSound
  BY PositionInit DEF PositionInv
<1>2. pc = "down" /\ openIno = NoFile /\ saved.of = 0
  BY DEF Init, NothingSaved
<1> QED
  BY <1>1, <1>2
     DEF BackInv, BackSound, SavedWritten, StartsThere, OthersAreNew, OpenIsAhead

\* The saved position of a file only moves forward, across restarts, rolls and
\* inodes that are used again, while nobody truncates the log and no start
\* after the first fails to read it (persistTailState, init, drainOpenFd and
\* openPath of ingest.ts).
THEOREM SavedNeverBackHolds == Spec => SavedNeverBack
<1>1. BackInv /\ [Next]_vars
        => [saved'.of = saved.of /\ ~truncated /\ (failures = 0 \/ crashes = 0)
              => saved'.offset >= saved.offset]_vars
  <2> SUFFICES ASSUME BackInv, [Next]_vars, saved'.of = saved.of, Uninterrupted
               PROVE  saved'.offset >= saved.offset
    BY DEF Uninterrupted
  <2>1. CASE saved' = saved
    BY <2>1, BackTypes DEF BackInv
  <2>2. CASE saved' # saved
    <3>1. Persist \/ Save
      BY <2>2
         DEF Next, Caddy, Worker, Failure, Create, RollAway, Write, Truncate, ReadFails, FlushFails,
             PersistFails, Crash, InitStat, InitOpen, Tick, Drain, Read, ReadsEnd, Parse,
             ParseEnds, Flush, Stat, Open, vars, dbVars
    <3>2. Uninterrupted'
      BY <3>1 DEF Persist, Save, caddyVars, Uninterrupted
    <3> QED
      BY <3>1, <3>2, SaveBack
  <2> QED
    BY <2>1, <2>2
<1> QED
  BY <1>1, BackInit, BackStep, PTL DEF Spec, SavedNeverBack
=============================================================================
