--------------------------- MODULE AnalyticsIngest ---------------------------
(***************************************************************************)
(* The ingest worker of server/src/services/analytics/ingest.ts: it tails  *)
(* Caddy's access log, folds complete lines into the counters in batches,  *)
(* and saves its position so that a restart resumes there.                 *)
(*                                                                         *)
(* Caddy is another process: it writes, rolls and (by hand) truncates the  *)
(* log between any two system calls of the worker, so every system call    *)
(* and every transaction is a step.  An inode number is free again once    *)
(* its file is neither at the path nor open here (Caddy compresses and     *)
(* removes rolled files), so the same number may come back.                *)
(*                                                                         *)
(* A byte is <<version, position>>: a version is one life of an inode from *)
(* creation or truncation to the next.  All lines have LineLen bytes.      *)
(***************************************************************************)
EXTENDS Integers, Sequences, FiniteSets

CONSTANTS
    Ino,          \* inode numbers (with the device: the file identity)
    NoFile,       \* no inode: path missing, nothing open
    LineLen,      \* bytes of a line, its newline included
    Chunk,        \* READ_CHUNK
    BatchSize,    \* BATCH_SIZE
    MaxVersion,   \* bound: files created or truncated
    MaxSize,      \* bound: bytes of one file
    MaxCrashes,   \* bound: crashes and restarts of the server
    MaxFailures,  \* bound: failing reads and transactions
    MayTruncate   \* whether somebody truncates the log in place, once

ASSUME NoFileAssumption == NoFile \notin Ino
ASSUME SizeAssumption ==
    /\ {LineLen, Chunk, BatchSize} \subseteq Nat \ {0}
    /\ {MaxVersion, MaxSize, MaxCrashes, MaxFailures} \subseteq Nat
    /\ MayTruncate \in BOOLEAN

VARIABLES
    path,      \* external: the inode at ACCESS_LOG_PATH
    file,      \* external: the version each inode holds
    size,      \* external: bytes written to each version
    versions,  \* external: versions so far
    truncated, \* external: whether the log was truncated in place
    pc,        \* where the worker is; "idle" iff polling is false
    again,     \* the drain is the second one of its poll
    openIno,   \* openFd and openIdentity
    offset,    \* offset
    partial,   \* partial: bytes read that form no complete line yet
    limit,     \* size, as drainOpenFd read it
    batch,     \* batch: parsed lines that are not flushed
    counted,   \* analytics.db: how often each line went into the counters
    saved,     \* analytics.db: the tail_state row, and the version it is about
    dropped,   \* history: lines of a batch whose transaction failed
    crashes,   \* crashes so far
    failures   \* failures so far

caddyVars == <<path, file, size, versions, truncated>>
tailVars == <<openIno, offset, partial>>
drainVars == <<again, limit, batch>>
dbVars == <<counted, saved>>
vars == <<caddyVars, pc, tailVars, drainVars, dbVars, dropped, crashes, failures>>

Version == 1..MaxVersion
Line == Version \X (1..(MaxSize \div LineLen))
NothingSaved == [ino |-> NoFile, offset |-> 0, of |-> 0]

\* The bytes of a version after the first m, up to the first n.
Bytes(v, m, n) == [i \in 1..(n - m) |-> <<v, m + i>>]
LineBytes(l) == Bytes(l[1], (l[2] - 1) * LineLen, l[2] * LineLen)

EndsLine(byte) == byte[2] % LineLen = 0
IsWritten(l) == size[l[1]] >= l[2] * LineLen

Least(a, b) == IF a <= b THEN a ELSE b

-----------------------------------------------------------------------------
(* Caddy *)

Free(i) == i # path /\ i # openIno

\* A new access.log: the first one, or the one that follows a roll.
Create(i) ==
    /\ path = NoFile
    /\ Free(i)
    /\ versions < MaxVersion
    /\ path' = i
    /\ versions' = versions + 1
    /\ file' = [file EXCEPT ![i] = versions + 1]
    /\ UNCHANGED <<size, truncated, pc, tailVars, drainVars, dbVars, dropped, crashes, failures>>

\* The log is renamed; its inode lives on as long as the worker has it open.
RollAway ==
    /\ path # NoFile
    /\ versions < MaxVersion
    /\ path' = NoFile
    /\ UNCHANGED <<file, size, versions, truncated, pc, tailVars, drainVars, dbVars,
                   dropped, crashes, failures>>

\* Part of a line, or several, reach the file.
Write(n) ==
    /\ path # NoFile
    /\ size[file[path]] + n <= MaxSize
    /\ size' = [size EXCEPT ![file[path]] = @ + n]
    /\ UNCHANGED <<path, file, versions, truncated, pc, tailVars, drainVars, dbVars,
                   dropped, crashes, failures>>

Truncate ==
    /\ MayTruncate /\ ~truncated
    /\ truncated' = TRUE
    /\ path # NoFile
    /\ versions < MaxVersion
    /\ versions' = versions + 1
    /\ file' = [file EXCEPT ![path] = versions + 1]
    /\ UNCHANGED <<path, size, pc, tailVars, drainVars, dbVars, dropped, crashes, failures>>

-----------------------------------------------------------------------------
(* Start and restart: startAnalyticsIngest, init, openPath *)

\* init reads the saved position and stats the path; a position of another
\* file, or one that cannot be read, counts as none.
InitStat ==
    /\ pc = "down"
    /\ IF path = NoFile
       THEN pc' = "idle" /\ UNCHANGED <<offset, failures>>
       ELSE /\ pc' = "opening"
            /\ \/ /\ offset' = IF saved.ino = path THEN saved.offset ELSE 0
                  /\ UNCHANGED failures
               \/ /\ failures < MaxFailures
                  /\ failures' = failures + 1
                  /\ offset' = 0
    /\ UNCHANGED <<caddyVars, openIno, partial, drainVars, dbVars, dropped, crashes>>

\* openPath: closes the old file, then opens whatever is at the path now; when
\* nothing is there openSync throws, and the position says nothing any more.
OpenPath(start) ==
    /\ openIno' = path
    /\ IF path = NoFile
       THEN UNCHANGED <<offset, partial>>
       ELSE offset' = start /\ partial' = <<>>

\* A failing init is logged; the polls start all the same.
InitOpen ==
    /\ pc = "opening"
    /\ OpenPath(offset)
    /\ pc' = "idle"
    /\ UNCHANGED <<caddyVars, drainVars, dbVars, dropped, crashes, failures>>

\* Everything but the database is gone.
Crash ==
    /\ pc # "down"
    /\ crashes < MaxCrashes
    /\ crashes' = crashes + 1
    /\ pc' = "down"
    /\ openIno' = NoFile
    /\ offset' = 0
    /\ partial' = <<>>
    /\ batch' = <<>>
    /\ limit' = 0
    /\ again' = FALSE
    /\ UNCHANGED <<caddyVars, dbVars, dropped, failures>>

-----------------------------------------------------------------------------
(* A poll *)

\* The interval fires; polling keeps another poll from starting meanwhile.
Tick ==
    /\ pc = "idle"
    /\ pc' = IF openIno = NoFile THEN "stat" ELSE "drain"
    /\ again' = FALSE
    /\ UNCHANGED <<caddyVars, tailVars, limit, batch, dbVars, dropped, crashes, failures>>

\* drainOpenFd takes the size once; a file that shrank is read from its start.
Drain ==
    /\ pc = "drain"
    /\ limit' = size[file[openIno]]
    /\ IF limit' < offset
       THEN offset' = 0 /\ partial' = <<>>
       ELSE UNCHANGED <<offset, partial>>
    /\ pc' = "read"
    /\ UNCHANGED <<caddyVars, openIno, again, batch, dbVars, dropped, crashes, failures>>

\* Faulty variant: only full batches are flushed.
AfterReadsNoFlush == pc' = IF again THEN "save" ELSE "stat"

\* The drain is over: flush what is left of the batch, then go on with the poll.
AfterReads ==
    pc' = IF batch # <<>> THEN "flushLast"
          ELSE IF again THEN "save" ELSE "stat"

\* readSync at offset: up to a chunk, never beyond limit or the end of file.
Readable == Least(Least(Chunk, limit - offset), size[file[openIno]] - offset)

Read ==
    /\ pc = "read"
    /\ offset < limit
    /\ Readable > 0
    /\ partial' = partial \o Bytes(file[openIno], offset, offset + Readable)
    /\ offset' = offset + Readable
    /\ pc' = "parse"
    /\ UNCHANGED <<caddyVars, openIno, drainVars, dbVars, dropped, crashes, failures>>

\* The limit is reached, or nothing more can be read.
ReadsEnd ==
    /\ pc = "read"
    /\ offset >= limit \/ Readable <= 0
    /\ AfterReads
    /\ UNCHANGED <<caddyVars, tailVars, drainVars, dbVars, dropped, crashes, failures>>

\* fstatSync or readSync throws; both only end the drain.
ReadFails ==
    /\ pc \in {"drain", "read"}
    /\ failures < MaxFailures
    /\ failures' = failures + 1
    /\ AfterReads
    /\ UNCHANGED <<caddyVars, tailVars, drainVars, dbVars, dropped, crashes>>

-----------------------------------------------------------------------------
(* Parsing and committing *)

Newlines == {i \in DOMAIN partial : EndsLine(partial[i])}
FirstNewline == CHOOSE i \in Newlines : \A j \in Newlines : i <= j

\* The line bytes spell, if they are exactly one: parseLine returns null for a
\* piece of a line, or for pieces of two files glued together.
Parsed(bytes) == {l \in Line : LineBytes(l) = bytes}

\* Take one line off partial; a full batch is committed at once.
Parse ==
    /\ pc = "parse"
    /\ Newlines # {}
    /\ LET lines == Parsed(SubSeq(partial, 1, FirstNewline))
       IN batch' = IF lines = {} THEN batch
                   ELSE Append(batch, CHOOSE l \in lines : TRUE)
    /\ partial' = SubSeq(partial, FirstNewline + 1, Len(partial))
    /\ pc' = IF Len(batch') >= BatchSize THEN "flush" ELSE "parse"
    /\ UNCHANGED <<caddyVars, openIno, offset, again, limit, dbVars, dropped,
                   crashes, failures>>

ParseEnds ==
    /\ pc = "parse"
    /\ Newlines = {}
    /\ pc' = "read"
    /\ UNCHANGED <<caddyVars, tailVars, drainVars, dbVars, dropped, crashes, failures>>

\* Faulty variant: the batch is not emptied.
FlushKeepsBatch ==
    /\ pc \in {"flush", "flushLast"}
    /\ counted' = [l \in Line |->
                     counted[l] + Cardinality({i \in DOMAIN batch : batch[i] = l})]
    /\ pc' = IF pc = "flush" THEN "persist" ELSE "persistLast"
    /\ UNCHANGED <<caddyVars, tailVars, drainVars, saved, dropped, crashes, failures>>

\* One transaction: all lines of the batch are counted, or none.
Flush ==
    /\ pc \in {"flush", "flushLast"}
    /\ counted' = [l \in Line |->
                     counted[l] + Cardinality({i \in DOMAIN batch : batch[i] = l})]
    /\ batch' = <<>>
    /\ pc' = IF pc = "flush" THEN "persist" ELSE "persistLast"
    /\ UNCHANGED <<caddyVars, tailVars, again, limit, saved, dropped, crashes, failures>>

\* The transaction throws: the poll ends, its batch is dropped.
FlushFails ==
    /\ pc \in {"flush", "flushLast"}
    /\ failures < MaxFailures
    /\ failures' = failures + 1
    /\ dropped' = dropped \union {batch[i] : i \in DOMAIN batch}
    /\ batch' = <<>>
    /\ pc' = "idle"
    /\ UNCHANGED <<caddyVars, tailVars, again, limit, dbVars, crashes>>

\* Faulty variant: saves the end of what was read.
TailStateRaw == [ino |-> openIno, offset |-> offset, of |-> file[openIno]]

\* The end of the last complete line that was parsed.
TailState == [ino |-> openIno, offset |-> offset - Len(partial), of |-> file[openIno]]

\* persistTailState after a flush; the drain goes on or is over.
Persist ==
    /\ pc \in {"persist", "persistLast"}
    /\ saved' = TailState
    /\ pc' = CASE pc = "persist" -> "parse"
               [] pc = "persistLast" /\ again -> "save"
               [] OTHER -> "stat"
    /\ UNCHANGED <<caddyVars, tailVars, drainVars, counted, dropped, crashes, failures>>

\* persistTailState at the end of the poll, if a file is open.
Save ==
    /\ pc = "save"
    /\ saved' = IF openIno = NoFile THEN saved ELSE TailState
    /\ pc' = "idle"
    /\ UNCHANGED <<caddyVars, tailVars, drainVars, counted, dropped, crashes, failures>>

\* writeMeta throws: the poll ends there.
PersistFails ==
    /\ pc \in {"persist", "persistLast", "save"}
    /\ failures < MaxFailures
    /\ failures' = failures + 1
    /\ pc' = "idle"
    /\ UNCHANGED <<caddyVars, tailVars, drainVars, dbVars, dropped, crashes>>

-----------------------------------------------------------------------------
(* The roll *)

\* Faulty variant: whatever is at the path counts as new.
StatAlwaysRolled ==
    /\ pc = "stat"
    /\ pc' = IF path # NoFile THEN "open" ELSE "save"
    /\ UNCHANGED <<caddyVars, tailVars, drainVars, dbVars, dropped, crashes, failures>>

\* Faulty variant: the path is only looked at while nothing is open.
StatFirstOnly ==
    /\ pc = "stat"
    /\ pc' = IF path # NoFile /\ openIno = NoFile THEN "open" ELSE "save"
    /\ UNCHANGED <<caddyVars, tailVars, drainVars, dbVars, dropped, crashes, failures>>

\* poll compares the file at the path with the open one.
Stat ==
    /\ pc = "stat"
    /\ pc' = IF path \notin {NoFile, openIno} THEN "open" ELSE "save"
    /\ UNCHANGED <<caddyVars, tailVars, drainVars, dbVars, dropped, crashes, failures>>

\* openPath(0) and the second drain; the poll ends when the path is gone.
Open ==
    /\ pc = "open"
    /\ OpenPath(0)
    /\ IF path = NoFile THEN pc' = "idle" /\ UNCHANGED again
                        ELSE pc' = "drain" /\ again' = TRUE
    /\ UNCHANGED <<caddyVars, limit, batch, dbVars, dropped, crashes, failures>>

-----------------------------------------------------------------------------

Init ==
    /\ path = NoFile
    /\ file = [i \in Ino |-> 0]
    /\ size = [v \in Version |-> 0]
    /\ versions = 0
    /\ truncated = FALSE
    /\ pc = "down"
    /\ again = FALSE
    /\ openIno = NoFile
    /\ offset = 0
    /\ partial = <<>>
    /\ limit = 0
    /\ batch = <<>>
    /\ counted = [l \in Line |-> 0]
    /\ saved = NothingSaved
    /\ dropped = {}
    /\ crashes = 0
    /\ failures = 0

Caddy ==
    \/ \E i \in Ino : Create(i)
    \/ RollAway
    \/ \E n \in 1..LineLen : Write(n)
    \/ Truncate

Worker ==
    \/ InitStat \/ InitOpen
    \/ Tick \/ Drain \/ Read \/ ReadsEnd
    \/ Parse \/ ParseEnds \/ Flush \/ Persist \/ Save
    \/ Stat \/ Open

Failure == ReadFails \/ FlushFails \/ PersistFails \/ Crash

Next == Caddy \/ Worker \/ Failure

Spec == Init /\ [][Next]_vars

\* The interval keeps firing, and the server is restarted after a crash (its
\* compose service says so); nothing is assumed of Caddy.
FairSpec == Spec /\ WF_vars(Worker)

-----------------------------------------------------------------------------
(* Properties *)

TypeOK ==
    /\ path \in Ino \union {NoFile}
    /\ file \in [Ino -> 0..MaxVersion]
    /\ size \in [Version -> 0..MaxSize]
    /\ versions \in 0..MaxVersion
    /\ truncated \in BOOLEAN
    /\ pc \in {"down", "opening", "idle", "drain", "read", "parse", "flush", "persist",
               "flushLast", "persistLast", "stat", "open", "save"}
    /\ again \in BOOLEAN
    /\ openIno \in Ino \union {NoFile}
    /\ offset \in 0..MaxSize
    /\ partial \in Seq(Version \X (1..MaxSize))
    /\ limit \in 0..MaxSize
    /\ batch \in Seq(Line)
    /\ Len(batch) <= BatchSize
    /\ counted \in [Line -> Nat]
    /\ saved \in [ino : Ino \union {NoFile}, offset : 0..MaxSize, of : 0..MaxVersion]
    /\ dropped \subseteq Line
    /\ crashes \in 0..MaxCrashes
    /\ failures \in 0..MaxFailures

\* A line in the counters, or given up with a batch whose transaction failed.
Accounted(l) == counted[l] > 0 \/ l \in dropped

\* Lines of a version that end within its first n bytes.
LinesUpTo(v, n) == {l \in Line : l[1] = v /\ l[2] * LineLen <= n}

\* The offset is one of the open file: nobody truncated it in place, and the
\* worker was not restarted across a roll.
OffsetIsOwn == ~truncated /\ (crashes = 0 \/ versions <= 1)

\* The saved offset never runs ahead of the database, wherever the worker dies
\* or fails: every line before it was committed by flush, or dropped with its
\* batch (ingest.ts:197-203).
SavedIsCommitted ==
    OffsetIsOwn => \A l \in LinesUpTo(saved.of, saved.offset) : Accounted(l)

\* A poll leaves a rolled file only when every line it held at the start of the
\* drain is accounted for, unless a read failed (ingest.ts:302-304).
RolledFileIsFinished ==
    pc = "open" /\ openIno # NoFile /\ failures = 0 /\ OffsetIsOwn =>
        \A l \in LinesUpTo(file[openIno], limit) : Accounted(l)

\* Each run of the server counts a line at most once, whatever is rolled,
\* truncated or fails: a second count needs a restart (ingest.ts:257-261, 315-323).
RecountNeedsCrash == \A l \in Line : counted[l] <= 1 + crashes

\* The saved position of a file only moves forward, also across restarts and
\* when inodes are used again (ingest.ts:39-40), unless the file was truncated in
\* place.  A failing read of the position starts the file over after a restart,
\* so failures are excepted once there was one.
SavedNeverBack ==
    [][saved'.of = saved.of /\ ~truncated /\ (failures = 0 \/ crashes = 0)
         => saved'.offset >= saved.offset]_vars

Settled(l) ==
    \/ counted[l] > 0
    \/ saved.of = l[1] /\ saved.offset >= l[2] * LineLen
    \/ path = NoFile
    \/ file[path] # l[1]

\* The line was read and not parsed when its poll failed, and the next polls do
\* not look at partial: they enter the loop only when the file has grown
\* (ingest.ts:263).
Stranded(l) ==
    /\ failures > 0
    /\ pc = "idle"
    /\ openIno # NoFile
    /\ l[1] = file[openIno]
    /\ size[l[1]] = offset
    /\ l[2] * LineLen > offset - Len(partial)

\* A complete line in the current log is counted, or the position is saved behind
\* it, or its file is rolled away (ingest.ts:375-389).  A transaction that fails in
\* the middle of a chunk may leave complete lines in partial: those wait until
\* Caddy writes again, and a roll that comes first discards them (ingest.ts:236).
EveryLineSettles == \A l \in Line : IsWritten(l) ~> Settled(l) \/ Stranded(l)

\* "means a crash or restart mid-drain never double-counts a batch we already
\* committed" (ingest.ts:200-202).
CountedOnce == \A l \in Line : counted[l] <= 1

(* Together: neither the saved position nor the switch to a new file runs
   ahead of the counters. *)
PositionIsSound == TypeOK /\ SavedIsCommitted /\ RolledFileIsFinished

=============================================================================
