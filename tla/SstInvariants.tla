---------------------------- MODULE SstInvariants ----------------------------
(***************************************************************************)
(* Invariants of SstTransfer strong enough to be inductive, each of them   *)
(* about one part of the state: the source's ring of queues, and the order *)
(* in which the destination writes and ingests its SSTables.               *)
(***************************************************************************)
EXTENDS SstTransfer

-------------------------------------------------------------------------------
(* The source's ring *)

\* Files 0 .. Allocated - 1 have been given a queue by ReadKVPairs, and files
\* 0 .. Freed - 1 have had theirs freed by SendKVPairs.
Allocated == IF reader.pc = "standby" THEN read_cnt - 1 ELSE read_cnt
Freed == IF sender.pc \in {"claim", "done"} THEN send_cnt ELSE send_cnt - 1

\* Pairs of file f that ReadKVPairs has enqueued and SendKVPairs has dequeued.
Enqueued(f) == IF reader.pc = "enqueue" /\ reader.file_num = f THEN reader.pos ELSE Len(SstData[f])
Dequeued(f) == IF sender.file_num # f THEN 0
               ELSE CASE sender.pc \in {"size", "data"} -> sender.pos + 1
                      [] sender.pc = "pair" -> sender.pos
                      [] OTHER -> 0

\* A file claimed by a thread is the last one its counter counts.
SrcClaims ==
  /\ reader.pc \in {"standby", "enqueue"} => read_cnt = reader.file_num + 1
  /\ reader.pc = "enqueue" => reader.pos <= Len(SstData[reader.file_num])
  /\ sender.pc \notin {"claim", "done"} => send_cnt = sender.file_num + 1
  /\ sender.pc \in {"announce", "ack", "wait"} => sender.pos = 0

\* The files that own a slot are Freed .. Allocated - 1: at most num_queues of
\* them, so that no two share a slot.
SrcWindow ==
  /\ Freed <= Allocated
  /\ Allocated <= Freed + NumQueues
  /\ \A q \in 0 .. NumQueues - 1 :
       src_kv_pairs[q] # Null => \E f \in Freed .. Allocated - 1 : QueueNum(f) = q
  /\ sender.pc \in {"pair", "size", "data"} => sender.file_num < Allocated
  /\ reader.pc = "enqueue" /\ reader.file_num < Freed => reader.pos = Len(SstData[reader.file_num])

\* The queue of such a file holds what has been enqueued and not dequeued.
QueueHolds(f) ==
  LET queue == src_kv_pairs[QueueNum(f)]
  IN /\ queue # Null
     /\ Len(queue) = Enqueued(f) - Dequeued(f)
     /\ InOrder(queue, f, Dequeued(f))

SrcQueues == \A f \in Freed .. Allocated - 1 : QueueHolds(f)

SrcInHand ==
  sender.pc \in {"size", "data"} => sender.kv_pair = <<sender.file_num, sender.pos + 1>>

\* ReadKVPairs and SendKVPairs agree on the ring (src sst.cc:31-37, 72-105).
SrcRing == SrcClaims /\ SrcWindow /\ SrcQueues /\ SrcInHand

-------------------------------------------------------------------------------
(* The order of writing and ingesting *)

\* Files 0 .. Written - 1 are finished, 0 .. Ingested - 1 are in the database.
Written == IF writer.pc \in {"claim", "done"} THEN write_cnt ELSE write_cnt - 1
Ingested == IF ingester.pc = "wait" THEN ingest_cnt - 1 ELSE ingest_cnt

DstClaims ==
  /\ writer.pc \notin {"claim", "done"} => write_cnt = writer.file_num + 1
  /\ writer.pc = "done" => write_cnt = NumFiles
  /\ ingester.pc = "wait" => ingest_cnt = ingester.file_num + 1
  /\ ingester.pc = "done" => ingest_cnt = NumFiles

FinishedPrefix == \A f \in Files : write_finished[f] <=> f < Written

IngestedPrefix ==
  /\ Len(ingested) = Ingested
  /\ Ingested <= Written
  /\ \A k \in 1 .. Len(ingested) : ingested[k] = k - 1

EndedLast == mig_ended => writer.pc = "done" /\ ingester.pc = "done"

\* WriteKVPairs finishes the files, and IngestSstFiles ingests the finished
\* ones, in the order of their numbers, each of them once; mig_ended comes
\* after the last (dst sst.cc:125, 129-155, 176-184).
WriteOrder == DstClaims /\ FinishedPrefix /\ IngestedPrefix /\ EndedLast

==============================================================================
