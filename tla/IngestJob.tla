------------------------------ MODULE IngestJob ------------------------------
(***************************************************************************)
(* IngestExternalFile on the destination, as the repository changed it: a  *)
(* file goes to the level it had on the source (external_level) and stays  *)
(* in the directory it was written to (path_id).  One caller ingests files *)
(* (IngestSstFiles calls it once per file, and AssertStatus ends the       *)
(* process when a call fails) while the workload puts keys and a           *)
(* background thread flushes the memtable.  Compactions are off (dst       *)
(* main.cc:79), so that an entry, once in a level, stays there.            *)
(*                                                                         *)
(* ExternalSstFileIngestionJob is in src/; DBImpl::IngestExternalFiles,    *)
(* which drives it, the flush and the lookup of a key are RocksDB's own.   *)
(***************************************************************************)
EXTENDS Naturals, FiniteSets, FiniteSetsExt, Sequences

CONSTANTS
  Keys,          \* user keys, numbers
  NumLevels,     \* levels of the column family
  ExtFile,       \* name of an SSTable -> [keys, level, version, cf, dir]
  CfPaths,       \* directories of the database, in the order of cf_paths
  CallSets,      \* the sequences of calls the caller may make
  TargetLevel,   \* deepest level kept in the first directory
  MayFail,       \* operations of the environment that may fail
  MaySnapshot,   \* whether the database may have snapshots: a set of Booleans
  HasChecksums,  \* db_options.file_checksum_gen_factory is set
  MaxSequence,   \* bound: no Put once the sequence number is here
  Workload       \* origin of the entries the workload puts

Levels == 0 .. NumLevels - 1
Paths == 0 .. Len(CfPaths) - 1
Files == DOMAIN ExtFile

\* The calls of IngestExternalFile a caller can make.
IngestCalls ==
  [files : Seq(Files),
   checksums : {"none", "right", "wrong", "misnamed", "incomplete"},
   move_files : BOOLEAN, failed_move_fall_back_to_copy : BOOLEAN,
   snapshot_consistency : BOOLEAN, allow_global_seqno : BOOLEAN,
   allow_blocking_flush : BOOLEAN, ingest_behind : BOOLEAN,
   write_global_seqno : BOOLEAN, verify_file_checksum : BOOLEAN,
   external_level : Levels]

ASSUME IngestAssumption ==
  /\ Keys \subseteq Nat /\ IsFiniteSet(Keys)
  /\ NumLevels \in Nat \ {0}
  /\ \A n \in Files : ExtFile[n].keys \subseteq Keys /\ ExtFile[n].level \in Levels
  /\ Workload \notin Files
  /\ Len(CfPaths) \in Nat
  /\ CallSets \subseteq Seq(IngestCalls)
  /\ MaySnapshot \subseteq BOOLEAN
  /\ MaxSequence \in Nat

VARIABLES
  calls,             \* the calls to make: files and IngestExternalFileOptions
  at,                \* the call being made
  memtable,          \* key -> sequence number of the Put it holds, 0 when none
  levels,            \* level -> files, each [num, path, from, seq]
  last_sequence,     \* versions_->LastSequence()
  next_file_number,
  external,          \* external files whose original link exists
  internal,          \* SSTables in the database's directories: [num, of, state]
  job                \* the ingestion job

dbVars == <<memtable, levels, last_sequence>>
ingestVars == <<calls, at, memtable, levels, last_sequence, next_file_number, external, internal, job>>

\* The defaults of IngestExternalFileOptions.
IngestOptions ==
  [move_files |-> FALSE, failed_move_fall_back_to_copy |-> TRUE,
   snapshot_consistency |-> TRUE, allow_global_seqno |-> TRUE,
   allow_blocking_flush |-> TRUE, ingest_behind |-> FALSE,
   write_global_seqno |-> TRUE, verify_file_checksum |-> TRUE,
   external_level |-> 0]

NoJob == [pc |-> "idle", infos |-> <<>>, i |-> 1, ok |-> TRUE, overlap |-> FALSE,
          force |-> FALSE, last |-> 0, consumed |-> 0]

IngestInit ==
  /\ calls \in CallSets
  /\ at = 1
  /\ memtable = [k \in Keys |-> 0]
  /\ levels = [l \in Levels |-> {}]
  /\ last_sequence = 0
  /\ next_file_number = 1
  /\ external = Files
  /\ internal = {}
  /\ job = NoJob

Call == calls[at]
Info == job.infos[job.i]

\* An operation of the environment ends well, or, where it may fail, does not.
Outcome(op) == IF op \in MayFail THEN BOOLEAN ELSE {TRUE}

\* Key ranges: of an external file, and of a file of a level.
Smallest(n) == Min(ExtFile[n].keys)
Largest(n) == Max(ExtFile[n].keys)
InRange(k, n) == Smallest(n) <= k /\ k <= Largest(n)

-------------------------------------------------------------------------------
(* The workload and the background flush *)

\* DBImpl::IngestExternalFiles enters the write thread before NeedsFlush.
WritesStopped == job.pc \in {"needs_flush", "flush", "run", "install"}

\* A slip: writers are let in while the job runs.
PutAnyway(k) ==
  /\ job.pc # "exited"
  /\ last_sequence < MaxSequence
  /\ last_sequence' = last_sequence + 1
  /\ memtable' = [memtable EXCEPT ![k] = last_sequence + 1]
  /\ UNCHANGED <<calls, at, levels, next_file_number, external, internal, job>>

Put(k) ==
  /\ job.pc # "exited"
  /\ ~WritesStopped
  /\ last_sequence < MaxSequence
  /\ last_sequence' = last_sequence + 1
  /\ memtable' = [memtable EXCEPT ![k] = last_sequence + 1]
  /\ UNCHANGED <<calls, at, levels, next_file_number, external, internal, job>>

FlushMemtable ==
  LET held == {k \in Keys : memtable[k] > 0}
      file == [num |-> next_file_number, path |-> 0, from |-> Workload,
               seq |-> [k \in held |-> memtable[k]]]
  IN  /\ held # {}
      /\ levels' = [levels EXCEPT ![0] = @ \cup {file}]
      /\ memtable' = [k \in Keys |-> 0]
      /\ next_file_number' = next_file_number + 1

Flush ==
  /\ job.pc \notin {"flush", "run", "exited"}
  /\ FlushMemtable
  /\ UNCHANGED <<calls, at, last_sequence, external, internal, job>>

-------------------------------------------------------------------------------
(* Prepare *)

\* GetIngestedFileInfo and the checks Prepare makes of its results.
InfoAccepted(n) ==
  \/ ExtFile[n].version = 2
  \/ ExtFile[n].version = 1 /\ ~Call.allow_blocking_flush /\ ~Call.allow_global_seqno

FilesOverlap ==
  \E i, j \in DOMAIN Call.files :
     LET a == Call.files[i] b == Call.files[j]
     IN  i # j /\ Smallest(a) <= Largest(b) /\ Smallest(b) <= Largest(a)

FilesAccepted ==
  /\ Call.files # <<>>
  /\ \A i \in DOMAIN Call.files :
       /\ InfoAccepted(Call.files[i])
       /\ ExtFile[Call.files[i]].cf \in {"unknown", "default"}
       /\ ExtFile[Call.files[i]].keys # {}
  /\ ~(Call.ingest_behind /\ FilesOverlap)

\* A slip: the number of the path is left at 0, as in the line commented out.
PathZero(n) == 0

\* The place of the file's directory in cf_paths; one past the end when it is
\* in none of them.
PathId(n) ==
  Cardinality({p \in Paths : \A q \in 0 .. p : CfPaths[q + 1] # ExtFile[n].dir})

ReadInfos ==
  /\ job.pc = "idle" /\ at <= Len(calls)
  /\ \E readable \in Outcome("info") :
       job' = IF readable /\ FilesAccepted
              THEN [NoJob EXCEPT !.pc = "link", !.overlap = FilesOverlap,
                     !.infos = [i \in DOMAIN Call.files |->
                       [name |-> Call.files[i], num |-> next_file_number + i - 1,
                        path |-> PathId(Call.files[i]), inside |-> FALSE,
                        level |-> 0, seqno |-> 0]]]
              ELSE [NoJob EXCEPT !.pc = "cleanup", !.ok = FALSE]
  /\ next_file_number' = next_file_number + Len(Call.files)
  /\ UNCHANGED <<calls, at, dbVars, external, internal>>

\* LinkFile: "linked", "unsupported" (another file system) or "failed".
LinkOutcomes ==
  {"linked"} \cup {o \in {"unsupported", "failed"} : o \in MayFail}

\* CopyFile: it may stop half-way, and leave what it wrote.
CopyOutcomes ==
  {"whole"} \cup (IF "copy" \in MayFail THEN {"partial", "none"} ELSE {})

Copies(link) ==
  ~Call.move_files \/ (link = "unsupported" /\ Call.failed_move_fall_back_to_copy)

\* A slip: one file too many.
LinkOneMore ==
  /\ job.pc = "link"
  /\ internal' = internal \cup {[num |-> Info.num, of |-> Info.name, state |-> "whole"]}
  /\ job' = IF job.i <= Len(job.infos)
            THEN [job EXCEPT !.infos[job.i].inside = TRUE, !.i = @ + 1]
            ELSE [job EXCEPT !.pc = "sync"]
  /\ UNCHANGED <<calls, at, dbVars, next_file_number, external>>

\* internal_file_path is set (inside) only when the file is whole.
LinkFile ==
  /\ job.pc = "link"
  /\ \E link \in LinkOutcomes, copy \in CopyOutcomes :
       LET state == IF Copies(link) THEN copy
                    ELSE IF link = "linked" THEN "whole" ELSE "none"
       IN  /\ internal' = IF state = "none" THEN internal
                          ELSE internal \cup {[num |-> Info.num, of |-> Info.name, state |-> state]}
           /\ job' = IF state # "whole" THEN [job EXCEPT !.pc = "unprepare", !.ok = FALSE]
                     ELSE IF job.i < Len(job.infos)
                     THEN [job EXCEPT !.infos[job.i].inside = TRUE, !.i = @ + 1]
                     ELSE [job EXCEPT !.infos[job.i].inside = TRUE, !.pc = "sync"]
  /\ UNCHANGED <<calls, at, dbVars, next_file_number, external>>

SyncDirs ==
  /\ job.pc = "sync"
  /\ \E ok \in Outcome("sync") :
       job' = [job EXCEPT !.pc = IF ok THEN "checksum" ELSE "unprepare", !.ok = ok]
  /\ UNCHANGED <<calls, at, dbVars, next_file_number, external, internal>>

\* The checksums given with the files: "none", "right", "wrong", "misnamed"
\* (of another function) or "incomplete".
NeedGenerateChecksum ==
  Call.verify_file_checksum \/ Call.checksums \in {"none", "incomplete"}

ChecksumsAccepted ==
  \/ Call.checksums \in {"none", "right"}
  \/ Call.checksums = "wrong" /\ ~Call.verify_file_checksum

CheckChecksums ==
  /\ job.pc = "checksum"
  /\ \E generated \in Outcome("generate") :
       LET ok == HasChecksums => /\ NeedGenerateChecksum => generated
                                 /\ ChecksumsAccepted
       IN  job' = [job EXCEPT !.pc = IF ok THEN "prepared" ELSE "unprepare", !.ok = ok]
  /\ UNCHANGED <<calls, at, dbVars, next_file_number, external, internal>>

\* A slip: Prepare and Cleanup leave the deletion to each other.
DeleteNothing == internal' = internal

\* The files of the job that are inside the database are deleted; those whose
\* deletion fails stay, with a warning.
DeleteInside ==
  LET mine == {f \in internal : \E i \in DOMAIN job.infos :
                 job.infos[i].inside /\ job.infos[i].num = f.num}
  IN  \E kept \in SUBSET mine :
        /\ kept # {} => "delete" \in MayFail
        /\ internal' = (internal \ mine) \cup {[f EXCEPT !.state = "undeleted"] : f \in kept}

PrepareFails ==
  /\ job.pc = "unprepare"
  /\ DeleteInside
  /\ job' = [job EXCEPT !.pc = "cleanup"]
  /\ UNCHANGED <<calls, at, dbVars, next_file_number, external>>

-------------------------------------------------------------------------------
(* NeedsFlush *)

StopWrites ==
  /\ job.pc = "prepared"
  /\ job' = [job EXCEPT !.pc = "needs_flush"]
  /\ UNCHANGED <<calls, at, dbVars, next_file_number, external, internal>>

OverlapWithMemtables ==
  \E k \in Keys : memtable[k] > 0 /\ \E i \in DOMAIN job.infos : InRange(k, job.infos[i].name)

StartRun ==
  \E force \in (IF Call.snapshot_consistency THEN MaySnapshot ELSE {FALSE}) :
    job' = [job EXCEPT !.pc = "run", !.i = 1, !.force = force, !.last = last_sequence]

NeedsFlush ==
  /\ job.pc = "needs_flush"
  /\ IF ~OverlapWithMemtables THEN StartRun
     ELSE IF Call.allow_blocking_flush THEN job' = [job EXCEPT !.pc = "flush"]
     ELSE job' = [job EXCEPT !.pc = "cleanup", !.ok = FALSE]
  /\ UNCHANGED <<calls, at, dbVars, next_file_number, external, internal>>

FlushForJob ==
  /\ job.pc = "flush"
  /\ \/ FlushMemtable /\ StartRun
     \/ /\ "flush" \in MayFail
        /\ job' = [job EXCEPT !.pc = "cleanup", !.ok = FALSE]
        /\ UNCHANGED <<memtable, levels, next_file_number>>
  /\ UNCHANGED <<calls, at, last_sequence, external, internal>>

-------------------------------------------------------------------------------
(* Run *)

OverlapWithLevel(n, l) ==
  \E m \in levels[l] : \E k \in DOMAIN m.seq : InRange(k, n)

IngestedFileFitInLevel(n, l) ==
  \/ l = 0
  \/ \A m \in levels[l] : Largest(n) < Min(DOMAIN m.seq) \/ Max(DOMAIN m.seq) < Smallest(n)

\* AssignLevelAndSeqnoForIngestedFile: the first level that holds a key of the
\* file's range, the deepest level above it that the file fits in, and the
\* sequence number (level style).
FirstOverlap(n) == Min({l \in Levels : OverlapWithLevel(n, l)} \cup {NumLevels})

PickedLevel(n) ==
  IF job.overlap THEN 0
  ELSE Max({l \in Levels : l < FirstOverlap(n) /\ IngestedFileFitInLevel(n, l)} \cup {0})

AssignedSeqno(n) ==
  IF Call.ingest_behind THEN 0
  ELSE IF job.force \/ job.overlap \/ FirstOverlap(n) < NumLevels THEN job.last + 1 ELSE 0

\* CheckLevelForIngestedBehindFile.
FitsBehind(n) ==
  /\ IngestedFileFitInLevel(n, NumLevels - 1)
  /\ \A l \in 0 .. NumLevels - 2 : \A m \in levels[l] : \A k \in DOMAIN m.seq : m.seq[k] # 0

\* AssignGlobalSeqnoForIngestedFile; the file is version 2 or has no such field.
GlobalSeqnoAssigned(n, seqno, written) ==
  \/ seqno = 0
  \/ /\ Call.allow_global_seqno
     /\ ExtFile[n].version = 2
     /\ Call.write_global_seqno => written

\* GenerateChecksumForIngestedFile.
ChecksumGenerated(generated) ==
  ~HasChecksums \/ ~NeedGenerateChecksum \/ ~Call.write_global_seqno \/ generated

\* A slip: the level is the one the job picked, as before the change.
LevelPicked(n) == PickedLevel(n)
\* A slip: the caller's external_level never gets here.
LevelDefault(n) == IngestOptions.external_level

IngestedLevel(n) == Call.external_level

RunFile ==
  /\ job.pc = "run"
  /\ \E written \in Outcome("write"), generated \in Outcome("generate") :
       LET n == Info.name
           seqno == AssignedSeqno(n)
           consumes == seqno > job.last
           ran == [job EXCEPT !.last = IF consumes THEN seqno ELSE @,
                              !.consumed = IF consumes THEN @ + 1 ELSE @,
                              !.infos[job.i] = [@ EXCEPT !.seqno = seqno,
                                                         !.level = IngestedLevel(n)]]
       IN  job' = IF Call.ingest_behind /\ ~FitsBehind(n)
                  THEN [job EXCEPT !.pc = "cleanup", !.ok = FALSE]
                  ELSE IF ~GlobalSeqnoAssigned(n, seqno, written) \/ ~ChecksumGenerated(generated)
                  THEN [ran EXCEPT !.pc = "cleanup", !.ok = FALSE]
                  ELSE IF job.i < Len(job.infos) THEN [ran EXCEPT !.i = @ + 1]
                  ELSE [ran EXCEPT !.pc = "install"]
  /\ UNCHANGED <<calls, at, dbVars, next_file_number, external, internal>>

\* The version edit of the job: AddFile for each file.
AddedFiles(l) ==
  {[num |-> f.num, path |-> f.path, from |-> f.name, seq |-> [k \in ExtFile[f.name].keys |-> f.seqno]] :
     f \in {job.infos[i] : i \in {j \in DOMAIN job.infos : job.infos[j].level = l}}}

\* A slip: the numbers the job consumed are given out again.
InstallKeepSeqno ==
  /\ job.pc = "install"
  /\ levels' = [l \in Levels |-> levels[l] \cup AddedFiles(l)]
  /\ job' = [job EXCEPT !.pc = "cleanup"]
  /\ UNCHANGED <<calls, at, memtable, last_sequence, next_file_number, external, internal>>

\* DBImpl advances the sequence number by what Run consumed, then logs the edit.
Install ==
  /\ job.pc = "install"
  /\ last_sequence' = last_sequence + job.consumed
  /\ \E ok \in Outcome("install") :
       /\ levels' = IF ok THEN [l \in Levels |-> levels[l] \cup AddedFiles(l)] ELSE levels
       /\ job' = [job EXCEPT !.pc = "cleanup", !.ok = ok]
  /\ UNCHANGED <<calls, at, memtable, next_file_number, external, internal>>

-------------------------------------------------------------------------------
(* Cleanup, and the caller's AssertStatus *)

\* A slip: the original links go whatever the status is.
CleanupAlways ==
  /\ job.pc = "cleanup"
  /\ internal' = internal
  /\ external' = external \ {job.infos[i].name : i \in DOMAIN job.infos}
  /\ at' = IF job.ok THEN at + 1 ELSE at
  /\ job' = [NoJob EXCEPT !.pc = IF job.ok THEN "idle" ELSE "exited"]
  /\ UNCHANGED <<calls, dbVars, next_file_number>>

Cleanup ==
  /\ job.pc = "cleanup"
  /\ IF job.ok THEN internal' = internal ELSE DeleteInside
  /\ LET moved == IF job.ok /\ Call.move_files
                  THEN {job.infos[i].name : i \in DOMAIN job.infos} ELSE {}
     IN  \E kept \in SUBSET moved :
           /\ kept # {} => "delete" \in MayFail
           /\ external' = external \ (moved \ kept)
  /\ at' = IF job.ok THEN at + 1 ELSE at
  /\ job' = [NoJob EXCEPT !.pc = IF job.ok THEN "idle" ELSE "exited"]
  /\ UNCHANGED <<calls, dbVars, next_file_number>>

IngestNext ==
  \/ \E k \in Keys : Put(k)
  \/ Flush
  \/ ReadInfos \/ LinkFile \/ SyncDirs \/ CheckChecksums \/ PrepareFails
  \/ StopWrites \/ NeedsFlush \/ FlushForJob \/ RunFile \/ Install \/ Cleanup

IngestSpec == IngestInit /\ [][IngestNext]_ingestVars

-------------------------------------------------------------------------------
(* Reading a key *)

FilesWith(k, l) == {m \in levels[l] : k \in DOMAIN m.seq}
LargestSeqno(m) == Max({m.seq[k] : k \in DOMAIN m.seq})

\* Every entry of k, wherever it is.
Entries(k) ==
  {[from |-> Workload, seq |-> s] : s \in {memtable[k]} \ {0}} \cup
  UNION {{[from |-> m.from, seq |-> m.seq[k]] : m \in FilesWith(k, l)} : l \in Levels}

\* The entries a Get of k may answer with: the memtable first, then level 0 by
\* the largest sequence number of its files, then the other levels.
Get(k) ==
  IF memtable[k] > 0 THEN {[from |-> Workload, seq |-> memtable[k]]}
  ELSE LET holding == {l \in Levels : FilesWith(k, l) # {}}
       IN  IF holding = {} THEN {}
           ELSE LET held == FilesWith(k, Min(holding))
                    top == {m \in held : \A o \in held : LargestSeqno(o) <= LargestSeqno(m)}
                IN  {[from |-> m.from, seq |-> m.seq[k]] : m \in IF Min(holding) = 0 THEN top ELSE held}

-------------------------------------------------------------------------------

IngestTypeOK ==
  /\ calls \in CallSets
  /\ at \in 1 .. Len(calls) + 1
  /\ memtable \in [Keys -> Nat]
  /\ DOMAIN levels = Levels
  /\ \A l \in Levels : \A m \in levels[l] :
       m.num \in Nat /\ m.path \in Nat /\ m.from \in Files \cup {Workload} /\ m.seq \in [DOMAIN m.seq -> Nat]
  /\ last_sequence \in Nat /\ next_file_number \in Nat
  /\ external \subseteq Files
  /\ \A f \in internal : f.num \in Nat /\ f.of \in Files /\ f.state \in {"whole", "partial", "undeleted"}
  /\ job.pc \in {"idle", "link", "sync", "checksum", "unprepare", "prepared", "needs_flush",
                 "flush", "run", "install", "cleanup", "exited"}
  /\ job.infos # <<>> => job.i \in DOMAIN job.infos

\* The file of an external SSTable is in a level, and inside the database.
Installed(n) ==
  \E l \in Levels : \E m \in levels[l] :
     m.from = n /\ \E f \in internal : f.num = m.num /\ f.of = n /\ f.state = "whole"

\* "remove original file links" (Cleanup, line 498): whatever fails, the data of
\* every SSTable stays reachable, by its original link or in the database, and
\* a level never lists a file that is not there.
NothingLost ==
  /\ \A n \in Files : n \in external \/ Installed(n)
  /\ \A l \in Levels : \A m \in levels[l] :
       m.from # Workload => \E f \in internal : f.num = m.num /\ f.state = "whole"

\* "We failed, remove all files that we copied into the db" (line 315): after a
\* call, a file in the database's directories that no level lists is a copy
\* that stopped half-way or a file that could not be deleted.
NoLeftovers ==
  job.pc \in {"idle", "exited"} =>
    \A f \in internal :
      f.state = "whole" => \E l \in Levels : \E m \in levels[l] : m.num = f.num

\* The assertion of Run (line 356): no memtable overlaps with the files, though
\* the workload puts keys until the job becomes the only writer.
RunMeetsNoMemtable == job.pc = "run" => ~OverlapWithMemtables

\* No two entries of a key have the same sequence number, except the zeros of
\* files that overlapped with nothing.
SeqnosDistinct ==
  \A k \in Keys : \A a, b \in Entries(k) : a.seq = b.seq /\ a.seq > 0 => a = b

Puts(k) == {e \in Entries(k) : e.from = Workload}

\* The calls IngestSstFiles makes, file by file, each to the file's own level.
IsMigration ==
  \A i \in DOMAIN calls :
    /\ Len(calls[i].files) = 1 /\ calls[i].move_files /\ ~calls[i].ingest_behind
    /\ calls[i].external_level = ExtFile[calls[i].files[1]].level

\* During the migration a Put of the workload is what a Get answers, unless an
\* SSTable that was at level 0 on the source hides it.
OnlyLevelZeroHides ==
  IsMigration =>
    \A k \in Keys : Puts(k) # {} =>
      \A e \in Get(k) :
        \/ e.from = Workload /\ \A p \in Puts(k) : p.seq <= e.seq
        \/ e.from # Workload /\ ExtFile[e.from].level = 0

\* What the source answers for k: its files are listed in the order it reads
\* them, level 0 first and the newest of it first (GetLiveFilesMetaData).
SourceFile(k) ==
  LET holding == {i \in DOMAIN calls : k \in ExtFile[calls[i].files[1]].keys}
  IN  IF holding = {} THEN {} ELSE {calls[Min(holding)].files[1]}

LevelZeroFiles(k) ==
  {n \in {calls[i].files[1] : i \in DOMAIN calls} : ExtFile[n].level = 0 /\ k \in ExtFile[n].keys}

\* At every moment of the migration a key the workload has not put is answered
\* with the source's value or not at all (it is then asked of the source),
\* never with an older value from a deeper level, when at most one file of
\* level 0 holds it.
SourceOrderKept ==
  IsMigration =>
    \A k \in Keys :
      Puts(k) = {} /\ Cardinality(LevelZeroFiles(k)) <= 1 =>
        \A e \in Get(k) : e.from \in SourceFile(k)

\* MyDB::ReturnFilePath gave each file a directory by its level; the ingested
\* file is in that directory.
PlacedByLevel ==
  IsMigration =>
    \A l \in Levels : \A m \in levels[l] :
      m.from # Workload => m.path = (IF l <= TargetLevel THEN 0 ELSE 1)

\* "We must use L0 or any level higher than `lvl` to be able to overwrite the
\* keys that we overlap with in this level, We also need to assign this file a
\* seqno to overwrite the existing keys" (line 717): a Get answers with the
\* entry that has the largest sequence number.
ReadsNewest ==
  \A k \in Keys : \A e \in Get(k) : \A o \in Entries(k) : o.seq <= e.seq

==============================================================================
