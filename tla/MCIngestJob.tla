----------------------------- MODULE MCIngestJob -----------------------------
(***************************************************************************)
(* Instances of IngestJob for TLC.  The files a to d are those of a source *)
(* with two overlapping files at level 0, one at level 1 and one at level  *)
(* 2; the other calls are those the interface also allows.                 *)
(***************************************************************************)
EXTENDS IngestJob, TLC

CONSTANTS pmem, disk

MCCfPaths == <<pmem, disk>>

\* MyDB::ReturnFilePath: the level chooses the directory the file is written to.
File(keys, level) ==
  [keys |-> keys, level |-> level, version |-> 2, cf |-> "unknown",
   dir |-> IF level <= TargetLevel THEN pmem ELSE disk]

MCExtFile ==
  [a |-> File({1, 2}, 0), b |-> File({2}, 0), c |-> File({1, 3}, 1), d |-> File({1, 2}, 2),
   old |-> [File({1}, 0) EXCEPT !.version = 1],
   empty |-> File({}, 0), other |-> [File({3}, 0) EXCEPT !.cf = "other"]]

Ingest(files, options) ==
  options @@ [files |-> files, checksums |-> "none"] @@ IngestOptions

Migrate(n) ==
  Ingest(<<n>>, [move_files |-> TRUE, external_level |-> MCExtFile[n].level])

MigrationCalls ==
  {<<Migrate("a"), Migrate("c"), Migrate("d")>>, <<Migrate("a"), Migrate("b"), Migrate("d")>>}

OtherCalls ==
  {<<Ingest(<<"a", "d">>, [checksums |-> "right"])>>,
   <<Ingest(<<"b", "c">>, [move_files |-> TRUE, failed_move_fall_back_to_copy |-> FALSE])>>,
   <<Ingest(<<"b">>, [ingest_behind |-> TRUE]), Ingest(<<"c">>, [ingest_behind |-> TRUE])>>,
   <<Ingest(<<"a">>, [allow_blocking_flush |-> FALSE, checksums |-> "incomplete"])>>,
   <<Ingest(<<"c">>, [allow_global_seqno |-> FALSE, checksums |-> "wrong"])>>,
   <<Ingest(<<"d">>, [write_global_seqno |-> FALSE, checksums |-> "wrong",
                      verify_file_checksum |-> FALSE])>>,
   <<Ingest(<<"old">>, [allow_blocking_flush |-> FALSE, allow_global_seqno |-> FALSE])>>,
   <<Ingest(<<"empty">>, [move_files |-> TRUE])>>, <<Ingest(<<"a", "other">>, [move_files |-> TRUE])>>}

AllCalls == MigrationCalls \cup OtherCalls

AllFailures ==
  {"info", "unsupported", "failed", "copy", "sync", "generate", "delete", "flush", "write", "install"}

==============================================================================
