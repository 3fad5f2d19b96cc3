----------------------------- MODULE SstTransfer -----------------------------
(***************************************************************************)
(* An SSTable transfer: the source's two threads and the destination's     *)
(* three, joined by sst_fds[0] and sst_fds[1].                             *)
(***************************************************************************)
EXTENDS SrcSst, DstSst

vars == <<sockVars, srcVars, dstVars>>

Init == SocketInit /\ SrcInit /\ DstInit

Next ==
  \/ SrcNext /\ UNCHANGED dstVars
  \/ DstNext /\ UNCHANGED srcVars

Spec == Init /\ [][Next]_vars

\* The operating system schedules every thread that is not blocked; the spin
\* loops yield.  Nothing promises that a call fails or that a process dies.
Fairness ==
  /\ WF_vars(ReadKVPairs /\ UNCHANGED dstVars)
  /\ WF_vars(SendKVPairs /\ UNCHANGED dstVars)
  /\ WF_vars(RecvKVPairs /\ UNCHANGED srcVars)
  /\ WF_vars(WriteKVPairs /\ UNCHANGED srcVars)
  /\ WF_vars((IngestSstFiles \/ TransferEnd) /\ UNCHANGED srcVars)

FairSpec == Spec /\ Fairness

TypeOK == SocketTypeOK /\ SrcTypeOK /\ DstTypeOK

-------------------------------------------------------------------------------
(* What the transfer promises *)

\* A slot of either ring only ever holds pairs of the file whose thread works
\* on it, in order and without a gap: SendKVPairs and WriteKVPairs, who find
\* their queue by file_num % num_queues alone, never take another file's pairs.
InOrder(queue, f, done) ==
  \A k \in 1 .. Len(queue) : queue[k] = <<f, done + k>>

\* The source's ring (src sst.cc:30-37, 72-105).
SrcSlotsBelong ==
  /\ sender.pc = "pair" =>
       /\ src_kv_pairs[SenderSlot] # Null
       /\ InOrder(src_kv_pairs[SenderSlot], sender.file_num, sender.pos)
  /\ sender.pc \in {"size", "data"} => sender.kv_pair = <<sender.file_num, sender.pos + 1>>
  /\ reader.pc = "enqueue" /\ reader.pos < Len(SstData[reader.file_num]) =>
       src_kv_pairs[ReaderSlot] # Null

\* The destination's ring (dst sst.cc:31-38, 88-122), until the source is gone.
DstSlotsBelong ==
  /\ writer.pc = "pair" =>
       /\ dst_kv_pairs[WriterSlot] # Null
       /\ ~receiver.eof => InOrder(dst_kv_pairs[WriterSlot], writer.file_num, writer.pos)
  /\ receiver.pc = "data" => dst_kv_pairs[ReceiverSlot] # Null

\* The two connections stay in step: a receiver about to read file_num finds a
\* file_num header, that of the file it has just claimed; one about to read a
\* size finds a size; and the bytes that follow on the other connection are
\* those of a pair of that size.
StreamsInStep ==
  /\ receiver.pc = "num" /\ headers # <<>> => Head(headers) = FileNumHeader(recv_cnt - 1)
  /\ receiver.pc = "size" /\ headers # <<>> /\ receiver.pos < NumEntries[receiver.file_num] =>
       Head(headers).kind = "data_size"
  /\ receiver.pc = "data" /\ ~receiver.eof /\ payload # <<>> /\ receiver.kv_pair = Garbage =>
       receiver.data_size = PairSize(Head(payload))

\* write_finished is raised only for an SSTable that holds the whole source
\* file (dst sst.cc:117-125: "write sstable is completed").
CompletedFilesWhole ==
  \A f \in Files : write_finished[f] => sst_files[f] = Contents(f)

\* SendKVPairs asks for num_entries pairs, a count that includes deletions, and
\* ReadKVPairs enqueues the live ones: it waits for ever (src sst.cc:78-83) for
\* the deletions of a file, after all its pairs, and for nothing else.
OnlyDeletionsStarve ==
  LET f == sender.file_num
      allRead == read_cnt > f + 1 \/ (read_cnt = f + 1 /\ reader.pc \in {"claim", "done"})
      starving ==
        /\ sender.pc = "pair" /\ sender.pos < NumEntries[f]
        /\ allRead /\ src_kv_pairs[SenderSlot] \in {Null, <<>>}
  IN  starving => sender.pos = Len(SstData[f])

\* When mig_ended stops the workload, every file has been ingested and nothing
\* is left on the way.
EndedMeansAll ==
  mig_ended => /\ Len(ingested) = NumFiles
               /\ headers = <<>> /\ payload = <<>>
               /\ \A q \in 0 .. NumQueues - 1 : dst_kv_pairs[q] = Null

\* An SSTable is not touched again once write_finished is raised: RocksDB links
\* the file itself into the database (move_files).
FinishedFilesSealed ==
  [][\A f \in Files : write_finished[f] => write_finished'[f] /\ sst_files'[f] = sst_files[f]]_vars

\* The transfer as the database sees it: FileMigration, where a file is moved
\* when it is ingested and its contents are those of the SSTable at its path.
Promise == INSTANCE FileMigration WITH
  FileData <- [f \in Files |-> Contents(f)],
  MayStop  <- TRUE,
  moved    <- [k \in 1 .. Len(ingested) |-> sst_files[ingested[k]]],
  ended    <- mig_ended,
  up       <- dst_up

\* The transfer implements FileMigration: whatever fails and wherever the
\* threads stand, the database has received a prefix of the source's files,
\* each of them whole; mig_ended is raised after the last one; and a process
\* that exits, before or after, takes nothing back.
MovesFiles == Promise!MigSafety

\* Without a failing call every file is moved and mig_ended is raised: no
\* thread waits for ever on a slot, a flag, a header or another thread
\* (src sst.cc:32, 70, 74, 81; dst sst.cc:25, 33, 44, 52, 90, 97, 138).
MovesFilesInTime == Promise!Migration

\* A source whose destination has died does not wait for it for ever: it dies
\* too, or has nothing left to send (RecvFlag takes the end of the stream for
\* a flag or an error, and a send breaks).
SourceNotStranded == ~dst_up ~> (~src_up \/ sender.pc = "done")

\* A destination whose source has died does not block in recv for ever: it
\* ends the migration, exits, or has been told of the end of the stream (after
\* which the payload loop, dst sst.cc:52-63, may spin for ever).
DestinationTold == ~src_up ~> (~dst_up \/ mig_ended \/ receiver.eof)

==============================================================================
