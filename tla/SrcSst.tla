-------------------------------- MODULE SrcSst --------------------------------
(***************************************************************************)
(* The source's half of an SSTable transfer (src/migration/sst.cc).        *)
(*                                                                         *)
(* The ReadKVPairs thread walks the SSTables in order and enqueues every   *)
(* pair of file f on kv_pairs[f % num_queues]; the SendKVPairs thread      *)
(* takes the files in the same order, announces each one, and sends its    *)
(* pairs.  A slot of kv_pairs is null while no file owns it.  An exit() of *)
(* either thread ends the process: src_up becomes FALSE.                   *)
(***************************************************************************)
EXTENDS SstSocket

VARIABLES
  read_cnt,      \* next file ReadKVPairs will claim
  reader,        \* ReadKVPairs: pc, file_num, pos = pairs enqueued so far
  send_cnt,      \* next file SendKVPairs will claim
  sender,        \* SendKVPairs: pc, file_num, pos = pairs sent so far, kv_pair
  src_kv_pairs   \* kv_pairs: one queue or Null per slot

srcVars == <<read_cnt, reader, send_cnt, sender, src_kv_pairs>>

SrcTypeOK ==
  /\ read_cnt \in 0 .. NumFiles
  /\ reader \in [pc : {"claim", "standby", "enqueue", "done"}, file_num : Files \cup {0}, pos : Nat]
  /\ send_cnt \in 0 .. NumFiles
  /\ sender \in [pc : {"claim", "announce", "ack", "wait", "pair", "size", "data", "done"},
                 file_num : Files \cup {0}, pos : Nat, kv_pair : Pair \cup {Garbage}]
  /\ reader.pc \in {"standby", "enqueue"} => reader.file_num \in Files
  /\ sender.pc \notin {"claim", "done"} => sender.file_num \in Files
  /\ sender.pc \in {"size", "data"} => sender.kv_pair \in Pair
  /\ src_kv_pairs \in [0 .. NumQueues - 1 -> Seq(Pair) \cup {Null}]

SrcInit ==
  /\ read_cnt = 0
  /\ reader = [pc |-> "claim", file_num |-> 0, pos |-> 0]
  /\ send_cnt = 0
  /\ sender = [pc |-> "claim", file_num |-> 0, pos |-> 0, kv_pair |-> Garbage]
  /\ src_kv_pairs = [q \in 0 .. NumQueues - 1 |-> Null]

-------------------------------------------------------------------------------
(* ReadKVPairs *)

ReaderAt(pc) == src_up /\ reader.pc = pc
ReaderSlot == QueueNum(reader.file_num)

\* Claim the next file and open it.
ReadClaim ==
  /\ ReaderAt("claim")
  /\ read_cnt < NumFiles
  /\ reader' = [reader EXCEPT !.pc = "standby", !.file_num = read_cnt]
  /\ read_cnt' = read_cnt + 1
  /\ UNCHANGED <<send_cnt, sender, src_kv_pairs, sockVars>>

\* Open returns an error, for instance because a compaction of the source has
\* dropped the file since its path was listed: AssertStatus exits.
ReadOpenFails ==
  /\ ReaderAt("claim")
  /\ read_cnt < NumFiles
  /\ "open" \in MayFail
  /\ reader' = [reader EXCEPT !.pc = "standby", !.file_num = read_cnt]
  /\ read_cnt' = read_cnt + 1
  /\ src_up' = FALSE
  /\ UNCHANGED <<send_cnt, sender, src_kv_pairs, headers, flags, payload, dst_up>>

\* A slip: no standby, the slot's queue is replaced while it is being sent.
ReadAllocateNow ==
  /\ ReaderAt("standby")
  /\ src_kv_pairs' = [src_kv_pairs EXCEPT ![ReaderSlot] = <<>>]
  /\ reader' = [reader EXCEPT !.pc = "enqueue", !.pos = 0]
  /\ UNCHANGED <<read_cnt, send_cnt, sender, sockVars>>

\* Spin until the slot is null, then allocate its queue.  One step: only this
\* thread makes a null slot non-null.
ReadAllocate ==
  /\ ReaderAt("standby")
  /\ src_kv_pairs[ReaderSlot] = Null
  /\ src_kv_pairs' = [src_kv_pairs EXCEPT ![ReaderSlot] = <<>>]
  /\ reader' = [reader EXCEPT !.pc = "enqueue", !.pos = 0]
  /\ UNCHANGED <<read_cnt, send_cnt, sender, sockVars>>

ReadEnqueue ==
  /\ ReaderAt("enqueue")
  /\ reader.pos < Len(SstData[reader.file_num])
  /\ src_kv_pairs[ReaderSlot] # Null   \* the thread dereferences the slot here
  /\ src_kv_pairs' = [src_kv_pairs EXCEPT ![ReaderSlot] =
                        Append(@, <<reader.file_num, reader.pos + 1>>)]
  /\ reader' = [reader EXCEPT !.pos = @ + 1]
  /\ UNCHANGED <<read_cnt, send_cnt, sender, sockVars>>

\* The iterator is no longer valid.
ReadNext ==
  /\ ReaderAt("enqueue")
  /\ reader.pos >= Len(SstData[reader.file_num])
  /\ reader' = [reader EXCEPT !.pc = "claim"]
  /\ UNCHANGED <<read_cnt, send_cnt, sender, src_kv_pairs, sockVars>>

ReadDone ==
  /\ ReaderAt("claim")
  /\ read_cnt >= NumFiles
  /\ reader' = [reader EXCEPT !.pc = "done"]
  /\ UNCHANGED <<read_cnt, send_cnt, sender, src_kv_pairs, sockVars>>

ReadKVPairs == ReadClaim \/ ReadAllocate \/ ReadEnqueue \/ ReadNext \/ ReadDone

-------------------------------------------------------------------------------
(* SendKVPairs *)

SenderAt(pc) == src_up /\ sender.pc = pc
SenderSlot == QueueNum(sender.file_num)

\* A slip: <= for <, one claim too many.
SendClaimPastEnd ==
  /\ SenderAt("claim")
  /\ send_cnt <= NumFiles
  /\ sender' = [sender EXCEPT !.pc = "announce", !.file_num = send_cnt, !.pos = 0]
  /\ send_cnt' = send_cnt + 1
  /\ UNCHANGED <<read_cnt, reader, src_kv_pairs, sockVars>>

SendClaim ==
  /\ SenderAt("claim")
  /\ send_cnt < NumFiles
  /\ sender' = [sender EXCEPT !.pc = "announce", !.file_num = send_cnt, !.pos = 0]
  /\ send_cnt' = send_cnt + 1
  /\ UNCHANGED <<read_cnt, reader, src_kv_pairs, sockVars>>

SendFileNum ==
  /\ SenderAt("announce")
  /\ Len(headers) < HeaderCap
  /\ headers' = Append(headers, FileNumHeader(sender.file_num))
  /\ sender' = [sender EXCEPT !.pc = "ack"]
  /\ UNCHANGED <<read_cnt, reader, send_cnt, src_kv_pairs, flags, payload, src_up, dst_up>>

\* RecvFlag on sst_fds[0]
SendRecvFlag ==
  /\ SenderAt("ack")
  /\ flags > 0
  /\ flags' = flags - 1
  /\ sender' = [sender EXCEPT !.pc = "wait"]
  /\ UNCHANGED <<read_cnt, reader, send_cnt, src_kv_pairs, headers, payload, src_up, dst_up>>

\* A slip: RecvFlag asks again when recv returns 0.
SendRecvFlagRetries ==
  /\ SenderAt("ack")
  /\ flags = 0
  /\ ~dst_up
  /\ UNCHANGED <<srcVars, sockVars>>

\* RecvFlag when the destination is gone: recv returns 0, which is no error,
\* and the uninitialised flag either equals 1 or makes the process exit.
SendRecvFlagEof ==
  /\ SenderAt("ack")
  /\ flags = 0
  /\ ~dst_up
  /\ \/ sender' = [sender EXCEPT !.pc = "wait"] /\ UNCHANGED src_up
     \/ src_up' = FALSE /\ UNCHANGED sender
  /\ UNCHANGED <<read_cnt, reader, send_cnt, src_kv_pairs, headers, flags, payload, dst_up>>

\* Spin until the queue of the file is allocated.
SendWait ==
  /\ SenderAt("wait")
  /\ src_kv_pairs[SenderSlot] # Null
  /\ sender' = [sender EXCEPT !.pc = "pair"]
  /\ UNCHANGED <<read_cnt, reader, send_cnt, src_kv_pairs, sockVars>>

\* try_dequeue succeeds; while it fails the thread spins.
SendDequeue ==
  /\ SenderAt("pair")
  /\ sender.pos < NumEntries[sender.file_num]
  /\ src_kv_pairs[SenderSlot] \notin {Null, <<>>}
  /\ sender' = [sender EXCEPT !.pc = "size", !.kv_pair = Head(src_kv_pairs[SenderSlot])]
  /\ src_kv_pairs' = [src_kv_pairs EXCEPT ![SenderSlot] = Tail(@)]
  /\ UNCHANGED <<read_cnt, reader, send_cnt, sockVars>>

SendSize ==
  /\ SenderAt("size")
  /\ Len(headers) < HeaderCap
  /\ headers' = Append(headers, SizeHeader(PairSize(sender.kv_pair)))
  /\ sender' = [sender EXCEPT !.pc = "data"]
  /\ UNCHANGED <<read_cnt, reader, send_cnt, src_kv_pairs, flags, payload, src_up, dst_up>>

SendPayload ==
  /\ SenderAt("data")
  /\ Len(payload) < PayloadCap
  /\ payload' = Append(payload, sender.kv_pair)
  /\ sender' = [sender EXCEPT !.pc = "pair", !.pos = @ + 1]
  /\ UNCHANGED <<read_cnt, reader, send_cnt, src_kv_pairs, headers, flags, src_up, dst_up>>

\* A slip: the queue is never freed.
SendKeep ==
  /\ SenderAt("pair")
  /\ sender.pos >= NumEntries[sender.file_num]
  /\ sender' = [sender EXCEPT !.pc = "claim"]
  /\ UNCHANGED <<read_cnt, reader, send_cnt, src_kv_pairs, sockVars>>

\* A slip: the queue is freed one pair early.
SendFreeEarly ==
  /\ SenderAt("pair")
  /\ sender.pos + 1 >= NumEntries[sender.file_num]
  /\ src_kv_pairs' = [src_kv_pairs EXCEPT ![SenderSlot] = Null]
  /\ sender' = [sender EXCEPT !.pc = "claim"]
  /\ UNCHANGED <<read_cnt, reader, send_cnt, sockVars>>

\* num_entries pairs have been sent: free the queue.
SendFree ==
  /\ SenderAt("pair")
  /\ sender.pos >= NumEntries[sender.file_num]
  /\ src_kv_pairs' = [src_kv_pairs EXCEPT ![SenderSlot] = Null]
  /\ sender' = [sender EXCEPT !.pc = "claim"]
  /\ UNCHANGED <<read_cnt, reader, send_cnt, sockVars>>

SendDone ==
  /\ SenderAt("claim")
  /\ send_cnt >= NumFiles
  /\ sender' = [sender EXCEPT !.pc = "done"]
  /\ UNCHANGED <<read_cnt, reader, send_cnt, src_kv_pairs, sockVars>>

\* A send to an exited destination: SIGPIPE, or an error and exit().  Until the
\* reset arrives the send still succeeds, which the steps above allow.
SendBroken ==
  /\ \E pc \in {"announce", "size", "data"} : SenderAt(pc)
  /\ ~dst_up
  /\ src_up' = FALSE
  /\ UNCHANGED <<srcVars, headers, flags, payload, dst_up>>

SendKVPairs ==
  \/ SendClaim \/ SendFileNum \/ SendRecvFlag \/ SendRecvFlagEof \/ SendWait
  \/ SendDequeue \/ SendSize \/ SendPayload \/ SendFree \/ SendDone \/ SendBroken

\* The workload thread of the process answers a destination that has exited:
\* SIGPIPE.
SrcWorkloadDies ==
  /\ src_up
  /\ ~dst_up
  /\ src_up' = FALSE
  /\ UNCHANGED <<srcVars, headers, flags, payload, dst_up>>

SrcNext == ReadKVPairs \/ ReadOpenFails \/ SendKVPairs \/ SrcWorkloadDies

===============================================================================
