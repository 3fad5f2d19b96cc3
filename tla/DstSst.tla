-------------------------------- MODULE DstSst --------------------------------
(***************************************************************************)
(* The destination's half of an SSTable transfer (dst/migration/sst.cc).   *)
(*                                                                         *)
(* RecvKVPairs receives the pairs of one file at a time into               *)
(* kv_pairs[file_num % num_queues]; WriteKVPairs turns each queue into an  *)
(* SSTable and raises write_finished; IngestSstFiles hands finished        *)
(* SSTables to RocksDB.  When the three threads have returned,             *)
(* TransferSstFiles sets mig_ended.  An exit() of any thread ends the      *)
(* process: dst_up becomes FALSE.                                          *)
(***************************************************************************)
EXTENDS SstSocket

VARIABLES
  recv_cnt,        \* files RecvKVPairs has claimed
  receiver,        \* RecvKVPairs: pc, file_num, pos = pairs enqueued so far,
                   \* data_size, recv_size, kv_pair, and eof: whether a recv has
                   \* returned 0 bytes (no variable of the code)
  dst_kv_pairs,    \* kv_pairs: one queue or Null per slot
  write_cnt,       \* next file WriteKVPairs will claim
  writer,          \* WriteKVPairs: pc, file_num, pos = pairs written so far
  sst_files,       \* pairs in the SSTable at file_paths[f]
  write_finished,
  ingest_cnt,      \* next file IngestSstFiles will claim
  ingester,        \* IngestSstFiles: pc, file_num
  ingested,        \* files RocksDB has ingested, in order
  mig_ended

dstVars == <<recv_cnt, receiver, dst_kv_pairs, write_cnt, writer, sst_files,
             write_finished, ingest_cnt, ingester, ingested, mig_ended>>

DstTypeOK ==
  /\ recv_cnt \in 0 .. NumFiles
  /\ receiver \in [pc : {"claim", "num", "standby", "size", "data", "done"},
                   file_num : Nat, pos : Nat, data_size : Nat, recv_size : Nat,
                   kv_pair : Pair \cup {Garbage}, eof : BOOLEAN]
  /\ dst_kv_pairs \in [0 .. NumQueues - 1 -> Seq(Pair \cup {Garbage}) \cup {Null}]
  /\ write_cnt \in 0 .. NumFiles
  /\ writer \in [pc : {"claim", "wait", "pair", "free", "mark", "done"},
                 file_num : Files \cup {0}, pos : Nat]
  /\ sst_files \in [Files -> Seq(Pair \cup {Garbage})]
  /\ write_finished \in [Files -> BOOLEAN]
  /\ ingest_cnt \in 0 .. NumFiles
  /\ ingester \in [pc : {"claim", "wait", "done"}, file_num : Files \cup {0}]
  /\ ingested \in Seq(Files)
  /\ mig_ended \in BOOLEAN
  /\ writer.pc \notin {"claim", "done"} => writer.file_num \in Files
  /\ ingester.pc = "wait" => ingester.file_num \in Files

DstInit ==
  /\ recv_cnt = 0
  /\ receiver = [pc |-> "claim", file_num |-> 0, pos |-> 0, data_size |-> 0,
                 recv_size |-> 0, kv_pair |-> Garbage, eof |-> FALSE]
  /\ dst_kv_pairs = [q \in 0 .. NumQueues - 1 |-> Null]
  /\ write_cnt = 0
  /\ writer = [pc |-> "claim", file_num |-> 0, pos |-> 0]
  /\ sst_files = [f \in Files |-> <<>>]
  /\ write_finished = [f \in Files |-> FALSE]
  /\ ingest_cnt = 0
  /\ ingester = [pc |-> "claim", file_num |-> 0]
  /\ ingested = <<>>
  /\ mig_ended = FALSE

-------------------------------------------------------------------------------
(* RecvKVPairs *)

recvVars == <<recv_cnt, receiver>>
writeVars == <<write_cnt, writer, sst_files, write_finished>>
ingestVars == <<ingest_cnt, ingester, ingested>>

ReceiverAt(pc) == dst_up /\ receiver.pc = pc
ReceiverSlot == QueueNum(receiver.file_num)

RecvClaim ==
  /\ ReceiverAt("claim")
  /\ recv_cnt < NumFiles
  /\ recv_cnt' = recv_cnt + 1
  /\ receiver' = [receiver EXCEPT !.pc = "num"]
  /\ UNCHANGED <<dst_kv_pairs, writeVars, ingestVars, mig_ended, sockVars>>

\* recv of file_num, then SendFlag.  The code takes whatever integer comes.
RecvFileNum ==
  /\ ReceiverAt("num")
  /\ headers # <<>>
  /\ receiver' = [receiver EXCEPT !.pc = "standby", !.file_num = Head(headers).val]
  /\ headers' = Tail(headers)
  /\ flags' = flags + 1
  /\ UNCHANGED <<recv_cnt, dst_kv_pairs, writeVars, ingestVars, mig_ended, payload, src_up, dst_up>>

\* The source is gone: recv returns 0, which is no error, and file_num stays
\* uninitialised: it may name any file.
RecvFileNumEof ==
  /\ ReceiverAt("num")
  /\ headers = <<>>
  /\ ~src_up
  /\ \E f \in Files :
       receiver' = [receiver EXCEPT !.pc = "standby", !.file_num = f, !.eof = TRUE]
  /\ UNCHANGED <<recv_cnt, dst_kv_pairs, writeVars, ingestVars, mig_ended, sockVars>>

\* The source is gone: recv reports the reset connection and the process exits.
\* The same happens when an uninitialised file_num is no index of the vectors,
\* or SendFlag meets the closed connection.
RecvReset ==
  /\ \E pc \in {"num", "size", "data"} : ReceiverAt(pc)
  /\ ~src_up
  /\ dst_up' = FALSE
  /\ UNCHANGED <<dstVars, headers, flags, payload, src_up>>

\* A slip: no standby, the slot's queue is replaced while it is being written.
RecvAllocateNow ==
  /\ ReceiverAt("standby")
  /\ dst_kv_pairs' = [dst_kv_pairs EXCEPT ![ReceiverSlot] = <<>>]
  /\ receiver' = [receiver EXCEPT !.pc = "size", !.pos = 0]
  /\ UNCHANGED <<recv_cnt, writeVars, ingestVars, mig_ended, sockVars>>

\* Spin until the slot is null, then allocate its queue.
RecvAllocate ==
  /\ ReceiverAt("standby")
  /\ dst_kv_pairs[ReceiverSlot] = Null
  /\ dst_kv_pairs' = [dst_kv_pairs EXCEPT ![ReceiverSlot] = <<>>]
  /\ receiver' = [receiver EXCEPT !.pc = "size", !.pos = 0]
  /\ UNCHANGED <<recv_cnt, writeVars, ingestVars, mig_ended, sockVars>>

RecvSize ==
  /\ ReceiverAt("size")
  /\ receiver.pos < NumEntries[receiver.file_num]
  /\ headers # <<>>
  /\ receiver' = [receiver EXCEPT !.pc = "data", !.data_size = Head(headers).val,
                                  !.recv_size = 0, !.kv_pair = Garbage]
  /\ headers' = Tail(headers)
  /\ UNCHANGED <<recv_cnt, dst_kv_pairs, writeVars, ingestVars, mig_ended, flags, payload,
                 src_up, dst_up>>

\* A slip: recv of data_size is asked again when it returns 0.
RecvSizeRetries ==
  /\ ReceiverAt("size")
  /\ headers = <<>>
  /\ ~src_up
  /\ UNCHANGED <<dstVars, sockVars>>

\* The source is gone: data_size keeps whatever its stack slot held.
RecvSizeEof ==
  /\ ReceiverAt("size")
  /\ receiver.pos < NumEntries[receiver.file_num]
  /\ headers = <<>>
  /\ ~src_up
  /\ \E n \in Uninit :
       receiver' = [receiver EXCEPT !.pc = "data", !.data_size = n, !.recv_size = 0,
                                    !.kv_pair = Garbage, !.eof = TRUE]
  /\ UNCHANGED <<recv_cnt, dst_kv_pairs, writeVars, ingestVars, mig_ended, sockVars>>

\* One recv of the payload loop: any non-empty part of the bytes asked for.
RecvChunk ==
  /\ ReceiverAt("data")
  /\ payload # <<>>
  /\ \E n \in 1 .. receiver.data_size - receiver.recv_size :
       LET size  == PairSize(Head(payload))
           whole == receiver.recv_size + n = size
       IN /\ receiver.recv_size + n <= size
          /\ receiver' = [receiver EXCEPT !.recv_size = @ + n,
                                          !.kv_pair = IF whole THEN Head(payload) ELSE @]
          /\ payload' = IF whole THEN Tail(payload) ELSE payload
  /\ UNCHANGED <<recv_cnt, dst_kv_pairs, writeVars, ingestVars, mig_ended, headers, flags,
                 src_up, dst_up>>

\* The source is gone and no byte is left: recv returns 0, which is no error,
\* and the payload loop goes round for ever.
RecvChunkEof ==
  /\ ReceiverAt("data")
  /\ receiver.recv_size < receiver.data_size
  /\ payload = <<>>
  /\ ~src_up
  /\ receiver' = [receiver EXCEPT !.eof = TRUE]
  /\ UNCHANGED <<recv_cnt, dst_kv_pairs, writeVars, ingestVars, mig_ended, sockVars>>

\* data_size bytes are there: enqueue the string they make.
RecvEnqueue ==
  /\ ReceiverAt("data")
  /\ receiver.recv_size >= receiver.data_size
  /\ dst_kv_pairs[ReceiverSlot] # Null   \* the thread dereferences the slot here
  /\ dst_kv_pairs' = [dst_kv_pairs EXCEPT ![ReceiverSlot] = Append(@, receiver.kv_pair)]
  /\ receiver' = [receiver EXCEPT !.pc = "size", !.pos = @ + 1]
  /\ UNCHANGED <<recv_cnt, writeVars, ingestVars, mig_ended, sockVars>>

\* A slip: the loop over the pairs ends one pair early.
RecvNextEarly ==
  /\ ReceiverAt("size")
  /\ receiver.pos + 1 >= NumEntries[receiver.file_num]
  /\ receiver' = [receiver EXCEPT !.pc = "claim"]
  /\ UNCHANGED <<recv_cnt, dst_kv_pairs, writeVars, ingestVars, mig_ended, sockVars>>

RecvNext ==
  /\ ReceiverAt("size")
  /\ receiver.pos >= NumEntries[receiver.file_num]
  /\ receiver' = [receiver EXCEPT !.pc = "claim"]
  /\ UNCHANGED <<recv_cnt, dst_kv_pairs, writeVars, ingestVars, mig_ended, sockVars>>

RecvDone ==
  /\ ReceiverAt("claim")
  /\ recv_cnt >= NumFiles
  /\ receiver' = [receiver EXCEPT !.pc = "done"]
  /\ UNCHANGED <<recv_cnt, dst_kv_pairs, writeVars, ingestVars, mig_ended, sockVars>>

RecvKVPairs ==
  \/ RecvClaim \/ RecvFileNum \/ RecvFileNumEof \/ RecvAllocate \/ RecvSize \/ RecvSizeEof
  \/ RecvChunk \/ RecvChunkEof \/ RecvEnqueue \/ RecvNext \/ RecvDone

-------------------------------------------------------------------------------
(* WriteKVPairs *)

WriterAt(pc) == dst_up /\ writer.pc = pc
WriterSlot == QueueNum(writer.file_num)

\* Claim the next file and open an SSTable for it.
WriteClaim ==
  /\ WriterAt("claim")
  /\ write_cnt < NumFiles
  /\ writer' = [writer EXCEPT !.pc = "wait", !.file_num = write_cnt, !.pos = 0]
  /\ write_cnt' = write_cnt + 1
  /\ UNCHANGED <<sst_files, write_finished, recvVars, dst_kv_pairs, ingestVars, mig_ended, sockVars>>

\* A slip: the file is marked finished when its queue is found.
WriteWaitMarks ==
  /\ WriterAt("wait")
  /\ dst_kv_pairs[WriterSlot] # Null
  /\ writer' = [writer EXCEPT !.pc = "pair"]
  /\ write_finished' = [write_finished EXCEPT ![writer.file_num] = TRUE]
  /\ UNCHANGED <<write_cnt, sst_files, recvVars, dst_kv_pairs, ingestVars, mig_ended, sockVars>>

\* Spin until the queue of the file is allocated.
WriteWait ==
  /\ WriterAt("wait")
  /\ dst_kv_pairs[WriterSlot] # Null
  /\ writer' = [writer EXCEPT !.pc = "pair"]
  /\ UNCHANGED <<write_cnt, sst_files, write_finished, recvVars, dst_kv_pairs, ingestVars,
                 mig_ended, sockVars>>

\* SstFileWriter takes keys in strictly ascending order; the key of a string
\* that is not a pair may pass only as the first.
PutAccepted(p) == p # Garbage \/ writer.pos = 0

\* try_dequeue succeeds and the pair is put in the SSTable.
WritePair ==
  /\ WriterAt("pair")
  /\ writer.pos < NumEntries[writer.file_num]
  /\ dst_kv_pairs[WriterSlot] \notin {Null, <<>>}
  /\ LET kv_pair == Head(dst_kv_pairs[WriterSlot])
     IN /\ PutAccepted(kv_pair)
        /\ sst_files' = [sst_files EXCEPT ![writer.file_num] = Append(@, kv_pair)]
  /\ dst_kv_pairs' = [dst_kv_pairs EXCEPT ![WriterSlot] = Tail(@)]
  /\ writer' = [writer EXCEPT !.pos = @ + 1]
  /\ UNCHANGED <<write_cnt, write_finished, recvVars, ingestVars, mig_ended, sockVars>>

\* A slip: the loop over the pairs ends one pair early.
WriteFinishEarly ==
  /\ WriterAt("pair")
  /\ writer.pos + 1 >= NumEntries[writer.file_num]
  /\ writer' = [writer EXCEPT !.pc = "free"]
  /\ UNCHANGED <<write_cnt, sst_files, write_finished, recvVars, dst_kv_pairs, ingestVars,
                 mig_ended, sockVars>>

WriteFinish ==
  /\ WriterAt("pair")
  /\ writer.pos >= NumEntries[writer.file_num]
  /\ writer' = [writer EXCEPT !.pc = "free"]
  /\ UNCHANGED <<write_cnt, sst_files, write_finished, recvVars, dst_kv_pairs, ingestVars,
                 mig_ended, sockVars>>

WriteFree ==
  /\ WriterAt("free")
  /\ dst_kv_pairs' = [dst_kv_pairs EXCEPT ![WriterSlot] = Null]
  /\ writer' = [writer EXCEPT !.pc = "mark"]
  /\ UNCHANGED <<write_cnt, sst_files, write_finished, recvVars, ingestVars, mig_ended, sockVars>>

WriteMark ==
  /\ WriterAt("mark")
  /\ write_finished' = [write_finished EXCEPT ![writer.file_num] = TRUE]
  /\ writer' = [writer EXCEPT !.pc = "claim"]
  /\ UNCHANGED <<write_cnt, sst_files, recvVars, dst_kv_pairs, ingestVars, mig_ended, sockVars>>

WriteDone ==
  /\ WriterAt("claim")
  /\ write_cnt >= NumFiles
  /\ writer' = [writer EXCEPT !.pc = "done"]
  /\ UNCHANGED <<write_cnt, sst_files, write_finished, recvVars, dst_kv_pairs, ingestVars,
                 mig_ended, sockVars>>

\* Open returns an error: AssertStatus exits.
WriteOpenFails ==
  /\ WriterAt("claim")
  /\ write_cnt < NumFiles
  /\ "write" \in MayFail
  /\ writer' = [writer EXCEPT !.pc = "wait", !.file_num = write_cnt, !.pos = 0]
  /\ write_cnt' = write_cnt + 1
  /\ dst_up' = FALSE
  /\ UNCHANGED <<sst_files, write_finished, recvVars, dst_kv_pairs, ingestVars, mig_ended,
                 headers, flags, payload, src_up>>

\* Put or Finish returns an error: AssertStatus exits.
WriteFails ==
  /\ WriterAt("pair")
  /\ \/ "write" \in MayFail
     \/ /\ writer.pos < NumEntries[writer.file_num]
        /\ dst_kv_pairs[WriterSlot] \notin {Null, <<>>}
        /\ ~PutAccepted(Head(dst_kv_pairs[WriterSlot]))
  /\ dst_up' = FALSE
  /\ UNCHANGED <<dstVars, headers, flags, payload, src_up>>

WriteKVPairs ==
  WriteClaim \/ WriteWait \/ WritePair \/ WriteFinish \/ WriteFree \/ WriteMark \/ WriteDone

-------------------------------------------------------------------------------
(* IngestSstFiles and the end of TransferSstFiles *)

IngesterAt(pc) == dst_up /\ ingester.pc = pc

IngestClaim ==
  /\ IngesterAt("claim")
  /\ ingest_cnt < NumFiles
  /\ ingester' = [pc |-> "wait", file_num |-> ingest_cnt]
  /\ ingest_cnt' = ingest_cnt + 1
  /\ UNCHANGED <<ingested, recvVars, dst_kv_pairs, writeVars, mig_ended, sockVars>>

\* A slip: write_finished is not waited for.
IngestFileNow ==
  /\ IngesterAt("wait")
  /\ ingested' = Append(ingested, ingester.file_num)
  /\ ingester' = [ingester EXCEPT !.pc = "claim"]
  /\ UNCHANGED <<ingest_cnt, recvVars, dst_kv_pairs, writeVars, mig_ended, sockVars>>

\* Spin until the SSTable is written, then ingest it.
IngestFile ==
  /\ IngesterAt("wait")
  /\ write_finished[ingester.file_num]
  /\ ingested' = Append(ingested, ingester.file_num)
  /\ ingester' = [ingester EXCEPT !.pc = "claim"]
  /\ UNCHANGED <<ingest_cnt, recvVars, dst_kv_pairs, writeVars, mig_ended, sockVars>>

\* IngestExternalFile returns an error: AssertStatus exits.
IngestFails ==
  /\ IngesterAt("wait")
  /\ write_finished[ingester.file_num]
  /\ "ingest" \in MayFail
  /\ dst_up' = FALSE
  /\ UNCHANGED <<dstVars, headers, flags, payload, src_up>>

IngestDone ==
  /\ IngesterAt("claim")
  /\ ingest_cnt >= NumFiles
  /\ ingester' = [ingester EXCEPT !.pc = "done"]
  /\ UNCHANGED <<ingest_cnt, ingested, recvVars, dst_kv_pairs, writeVars, mig_ended, sockVars>>

IngestSstFiles == IngestClaim \/ IngestFile \/ IngestDone

\* A slip: IngestSstFiles is not joined.
TransferEndEarly ==
  /\ dst_up
  /\ receiver.pc = "done" /\ writer.pc = "done"
  /\ ~mig_ended
  /\ mig_ended' = TRUE
  /\ UNCHANGED <<recvVars, dst_kv_pairs, writeVars, ingestVars, sockVars>>

\* TransferSstFiles has joined its three threads.
TransferEnd ==
  /\ dst_up
  /\ receiver.pc = "done" /\ writer.pc = "done" /\ ingester.pc = "done"
  /\ ~mig_ended
  /\ mig_ended' = TRUE
  /\ UNCHANGED <<recvVars, dst_kv_pairs, writeVars, ingestVars, sockVars>>

\* A Put or a MyGet of the workload thread returns an error, or finds no value
\* on either machine: AssertStatus exits.  The loop looks at mig_ended between
\* two operations only, so one that began before may fail long after.
DstWorkloadDies ==
  /\ dst_up
  /\ "workload" \in MayFail
  /\ dst_up' = FALSE
  /\ UNCHANGED <<dstVars, headers, flags, payload, src_up>>

DstNext ==
  \/ RecvKVPairs \/ RecvReset
  \/ WriteKVPairs \/ WriteOpenFails \/ WriteFails
  \/ IngestSstFiles \/ IngestFails
  \/ TransferEnd
  \/ DstWorkloadDies

===============================================================================
