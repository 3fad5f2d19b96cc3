--------------------------- MODULE IngestInvariants ---------------------------
(***************************************************************************)
(* Invariants of IngestJob strong enough to be inductive, each about one   *)
(* part of the state: the job and its files, the numbers of the files and  *)
(* of the entries, the flushed memtables, and what a migration installs.   *)
(***************************************************************************)
EXTENDS IngestJob

-------------------------------------------------------------------------------
(* The job *)

JobStates == {"idle", "link", "sync", "checksum", "unprepare", "prepared", "needs_flush",
              "flush", "run", "install", "cleanup", "exited"}

Infos == [name : Files, num : Nat, path : Nat, inside : BOOLEAN, level : Levels, seqno : Nat]

Jobs == [pc : JobStates, infos : Seq(Infos), i : Nat, ok : BOOLEAN, overlap : BOOLEAN,
         force : BOOLEAN, last : Nat, consumed : Nat]

\* The variables keep their types, the records in detail.
JobTypes ==
  /\ IngestTypeOK
  /\ job \in Jobs
  /\ internal \subseteq [num : Nat, of : Files, state : {"whole", "partial", "undeleted"}]
  /\ \A l \in Levels : \A m \in levels[l] : DOMAIN m.seq \subseteq Keys

\* The version edit of the job is logged.
Logged == job.pc = "cleanup" /\ job.ok

\* The steps after Prepare has linked every file.
AllLinked ==
  job.pc \in {"sync", "checksum", "prepared", "needs_flush", "flush", "run", "install"} \/ Logged

\* The infos are of the files of the call.
InfosOfCall ==
  job.infos # <<>> =>
    /\ Len(job.infos) = Len(Call.files)
    /\ \A j \in DOMAIN job.infos :
         job.infos[j].name = Call.files[j] /\ job.infos[j].path = PathId(Call.files[j])

\* A job has infos from ReadInfos on; its status is that of its steps.
JobClaims ==
  /\ job.pc \in {"idle", "exited"} => job.infos = <<>>
  /\ job.pc \notin {"idle", "exited"} => at \in DOMAIN calls
  /\ job.pc \in {"link", "unprepare"} \/ AllLinked => job.infos # <<>>
  /\ job.pc \notin {"cleanup", "unprepare", "exited"} => job.ok
  /\ job.pc = "unprepare" => ~job.ok
  /\ InfosOfCall

-------------------------------------------------------------------------------
(* The files in the database's directories *)

\* The numbers of files come from one counter; those of the job's files are in
\* no level until the version edit is logged.
FileNumbers ==
  /\ \A l \in Levels : \A m \in levels[l] : m.num < next_file_number
  /\ \A j \in DOMAIN job.infos : job.infos[j].num < next_file_number
  /\ ~Logged => \A l \in Levels : \A m \in levels[l] : \A j \in DOMAIN job.infos :
       m.num # job.infos[j].num

\* The files the job has linked or copied so far are whole.
JobFiles ==
  /\ job.pc = "link" => \A j \in DOMAIN job.infos : job.infos[j].inside <=> j < job.i
  /\ AllLinked => \A j \in DOMAIN job.infos : job.infos[j].inside
  /\ job.ok => \A j \in DOMAIN job.infos : job.infos[j].inside =>
       [num |-> job.infos[j].num, of |-> job.infos[j].name, state |-> "whole"] \in internal

\* Run gives each file the caller's level.
JobLevels ==
  /\ job.pc = "run" => \A j \in DOMAIN job.infos :
       j < job.i => job.infos[j].level = Call.external_level
  /\ job.pc = "install" => \A j \in DOMAIN job.infos : job.infos[j].level = Call.external_level

\* Once the version edit is logged, the job's files are in that level.
JobInstalled ==
  Logged => \A j \in DOMAIN job.infos : \E m \in levels[Call.external_level] :
    /\ m.num = job.infos[j].num /\ m.from = job.infos[j].name
    /\ m.path = job.infos[j].path
    /\ DOMAIN m.seq = ExtFile[job.infos[j].name].keys

\* A whole file is in a level, or is one the job will install or delete.
WholeFiles ==
  \A f \in internal : f.state = "whole" =>
    \/ \E l \in Levels : \E m \in levels[l] : m.num = f.num
    \/ \E j \in DOMAIN job.infos : job.infos[j].inside /\ job.infos[j].num = f.num

FilesInv == FileNumbers /\ JobFiles /\ JobLevels /\ JobInstalled /\ WholeFiles /\ NothingLost

-------------------------------------------------------------------------------
(* The sequence numbers *)

\* The job consumes the numbers above the last one, each for one file.
JobSeqnos ==
  /\ job.pc \notin {"run", "install", "cleanup"} =>
       job.consumed = 0 /\ \A j \in DOMAIN job.infos : job.infos[j].seqno = 0
  /\ job.pc \in {"run", "install"} =>
       /\ job.last = last_sequence + job.consumed
       /\ \A j \in DOMAIN job.infos :
            /\ job.infos[j].seqno <= job.last
            /\ job.infos[j].seqno = 0 \/ last_sequence < job.infos[j].seqno
       /\ \A i, j \in DOMAIN job.infos :
            i # j /\ job.infos[i].seqno = job.infos[j].seqno => job.infos[i].seqno = 0

SeqnosInv ==
  /\ \A k \in Keys : memtable[k] <= last_sequence
  /\ \A l \in Levels : \A m \in levels[l] : \A k \in DOMAIN m.seq : m.seq[k] <= last_sequence
  /\ JobSeqnos
  /\ SeqnosDistinct

-------------------------------------------------------------------------------
(* The workload's entries *)

WorkloadFiles == {m \in levels[0] : m.from = Workload}

\* Every entry of a is older than every entry of b.
Older(a, b) == \A k \in DOMAIN a.seq : \A j \in DOMAIN b.seq : a.seq[k] < b.seq[j]

\* The memtables are flushed to level 0 in the order they were filled.
FlushOrder ==
  /\ \A l \in Levels \ {0} : \A m \in levels[l] : m.from # Workload
  /\ \A m \in WorkloadFiles :
       /\ DOMAIN m.seq # {}
       /\ \A k \in DOMAIN m.seq : \A j \in Keys : memtable[j] > 0 => m.seq[k] < memtable[j]
  /\ \A a, b \in WorkloadFiles : a # b => Older(a, b) \/ Older(b, a)

-------------------------------------------------------------------------------
(* The migration *)

\* The SSTable of the j-th call of a migration, and whether it is in a level.
SstOf(j) == calls[j].files[1]
Ingested(j) == j < at \/ (j = at /\ Logged)

\* m is what ingesting n at level l puts there.
IsIngested(m, n, l) ==
  m.from = n /\ ExtFile[n].level = l /\ DOMAIN m.seq = ExtFile[n].keys /\ m.path = PathId(n)

\* The levels hold the SSTables of the calls made so far, each at its level.
MigrationInv ==
  IsMigration =>
    /\ \A l \in Levels : \A m \in levels[l] : m.from # Workload =>
         \E j \in DOMAIN calls : Ingested(j) /\ IsIngested(m, SstOf(j), l)
    /\ \A j \in DOMAIN calls : Ingested(j) =>
         \E m \in levels[ExtFile[SstOf(j)].level] :
            IsIngested(m, SstOf(j), ExtFile[SstOf(j)].level)

\* MyDB::ReturnFilePath chose the directory of each file by its level; the
\* destination has two.
WrittenByLevel ==
  /\ Len(CfPaths) >= 2 /\ CfPaths[1] # CfPaths[2]
  /\ \A n \in Files :
       ExtFile[n].dir = IF ExtFile[n].level <= TargetLevel THEN CfPaths[1] ELSE CfPaths[2]

\* The source sends its SSTables level by level, each once, and below level 0
\* no two SSTables of a level hold the same key.
SourceLevels ==
  \A s \in CallSets : \A i, j \in DOMAIN s :
    LET a == s[i].files[1] b == s[j].files[1]
    IN  i < j /\ s[i].files # <<>> /\ s[j].files # <<>> =>
          /\ ExtFile[a].level <= ExtFile[b].level
          /\ a # b
          /\ ExtFile[a].level = ExtFile[b].level /\ ExtFile[a].level > 0 =>
               ExtFile[a].keys \cap ExtFile[b].keys = {}

==============================================================================
