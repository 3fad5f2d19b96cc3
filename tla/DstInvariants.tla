---------------------------- MODULE DstInvariants ----------------------------
(***************************************************************************)
(* Invariants of SstTransfer strong enough to be inductive, about what     *)
(* travels to the destination: the two streams between SendKVPairs and     *)
(* RecvKVPairs, the ring of queues between RecvKVPairs and WriteKVPairs,   *)
(* and the SSTables WriteKVPairs makes of them.                            *)
(***************************************************************************)
EXTENDS SstInvariants, FiniteSets

-------------------------------------------------------------------------------
(* The streams *)

\* A place in the streams: <<f, 0>> is the number of file f, <<f, i>> its i-th
\* pair.  Place(f, n) is the one after n pairs of file f.
Places == (0 .. NumFiles) \X Nat
Place(f, n) == IF n < NumEntries[f] THEN <<f, n + 1>> ELSE <<f + 1, 0>>
PlaceAfter(p) == Place(p[1], p[2])
Before(p, q) == p[1] < q[1] \/ (p[1] = q[1] /\ p[2] < q[2])

\* What each connection carries for a place: both of them something for a
\* pair, sst_fds[0] alone for the number of a file.
HeaderAt(p) == IF p[2] = 0 THEN FileNumHeader(p[1]) ELSE SizeHeader(PairSize(p))
PairFrom(p) == IF p[2] = 0 THEN <<p[1], 1>> ELSE p

\* The places of the next header RecvKVPairs reads and SendKVPairs sends.
RecvPlace ==
  CASE receiver.pc \in {"claim", "done"} -> <<recv_cnt, 0>>
    [] receiver.pc = "num"     -> <<recv_cnt - 1, 0>>
    [] receiver.pc = "standby" -> <<receiver.file_num, 1>>
    [] receiver.pc = "size"    -> Place(receiver.file_num, receiver.pos)
    [] receiver.pc = "data"    -> Place(receiver.file_num, receiver.pos + 1)

SendPlace ==
  CASE sender.pc \in {"claim", "done"} -> <<send_cnt, 0>>
    [] sender.pc = "announce"      -> <<sender.file_num, 0>>
    [] sender.pc \in {"ack", "wait"} -> <<sender.file_num, 1>>
    [] sender.pc = "pair"          -> Place(sender.file_num, sender.pos)
    [] sender.pc = "size"          -> <<sender.file_num, sender.pos + 1>>
    [] sender.pc = "data"          -> Place(sender.file_num, sender.pos + 1)

\* The next pair each of them completes on sst_fds[1].
RecvPair == IF receiver.pc = "data" /\ receiver.kv_pair = Garbage
            THEN <<receiver.file_num, receiver.pos + 1>> ELSE PairFrom(RecvPlace)
SendPair == IF sender.pc = "data"
            THEN <<sender.file_num, sender.pos + 1>> ELSE PairFrom(SendPlace)

\* RecvKVPairs works on the file it has claimed last.
RecvClaims ==
  /\ receiver.pc = "num" => recv_cnt > 0
  /\ receiver.pc \in {"standby", "size", "data"} => recv_cnt = receiver.file_num + 1
  /\ receiver.pc = "size" => receiver.pos <= NumEntries[receiver.file_num]
  /\ receiver.pc = "data" => receiver.pos < NumEntries[receiver.file_num]

\* Of the pair it is receiving it knows the size, and has a part or the whole.
RecvInHand ==
  receiver.pc = "data" =>
    LET p == <<receiver.file_num, receiver.pos + 1>>
    IN /\ p \in Pair
       /\ receiver.data_size = PairSize(p)
       /\ \/ receiver.kv_pair = Garbage /\ receiver.recv_size < receiver.data_size
          \/ receiver.kv_pair = p /\ receiver.recv_size = receiver.data_size

\* The headers hs are those of the places after one another, from "from" up to
\* the one before "to".
HeadersRun(hs, from, to) ==
  \E at \in [1 .. Len(hs) + 1 -> Places] :
    /\ at[1] = from
    /\ at[Len(hs) + 1] = to
    /\ \A k \in 1 .. Len(hs) :
         /\ hs[k] = HeaderAt(at[k])
         /\ at[k + 1] = PlaceAfter(at[k])
         /\ Before(at[k], to)
         /\ at[k][1] \in Files
         /\ at[k][2] > 0 => at[k] \in Pair

\* So are the pairs ps.
PairsRun(ps, from, to) ==
  /\ ps = <<>> => from = to
  /\ ps # <<>> => ps[1] = from /\ PairFrom(PlaceAfter(ps[Len(ps)])) = to
  /\ \A k \in 1 .. Len(ps) : Before(ps[k], to)
  /\ \A k \in 1 .. Len(ps) - 1 : ps[k + 1] = PairFrom(PlaceAfter(ps[k]))

\* What is on the way is what SendKVPairs has sent and RecvKVPairs has not
\* received.
Between ==
  /\ HeadersRun(headers, RecvPlace, SendPlace)
  /\ PairsRun(payload, RecvPair, SendPair)

\* When recv has returned 0 nothing is left on either connection, and
\* RecvKVPairs enqueues nothing but garbage, if anything.
StreamClosed ==
  receiver.eof =>
    /\ ~src_up /\ headers = <<>> /\ payload = <<>>
    /\ receiver.pc = "data" =>
         /\ receiver.kv_pair = Garbage
         /\ receiver.recv_size < receiver.data_size \/ 0 \in Uninit

\* What RecvKVPairs reads is what SendKVPairs has sent, in step on both
\* connections (src sst.cc:66-105, dst sst.cc:24-66).
Streams ==
  /\ StreamClosed
  /\ ~receiver.eof => RecvClaims /\ RecvInHand /\ Between

-------------------------------------------------------------------------------
(* The destination's ring *)

\* RecvKVPairs has allocated a queue DstAllocated times, WriteKVPairs has freed
\* the queues of files 0 .. DstFreed - 1.
DstAllocated == IF receiver.pc \in {"num", "standby"} THEN recv_cnt - 1 ELSE recv_cnt
DstFreed == IF writer.pc \in {"claim", "mark", "done"} THEN write_cnt ELSE write_cnt - 1

\* Pairs of file f that RecvKVPairs has enqueued and WriteKVPairs has taken.
Received(f) == IF receiver.pc \in {"size", "data"} /\ receiver.file_num = f
               THEN receiver.pos ELSE NumEntries[f]
Taken(f) == IF writer.pc \in {"pair", "free"} /\ writer.file_num = f THEN writer.pos ELSE 0

\* No file is so small that the garbage RecvKVPairs may receive of a source
\* that has exited could be all of it.
NoLonePair == 0 \notin Uninit \/ \A f \in Files : NumEntries[f] > 1

DstRingClaims ==
  /\ writer.pc \in {"wait", "pair", "free", "mark"} => write_cnt = writer.file_num + 1
  /\ writer.pc = "wait" => writer.pos = 0
  /\ writer.pc = "pair" => writer.pos <= NumEntries[writer.file_num]
  /\ writer.pc \in {"free", "mark"} => writer.pos = NumEntries[writer.file_num]
  /\ writer.pc \in {"pair", "free"} => dst_kv_pairs[WriterSlot] # Null
  /\ receiver.pc = "done" => recv_cnt = NumFiles
  /\ mig_ended => receiver.pc = "done"

\* Every allocation fills a null slot and every release empties one that is
\* not null.
InUse == {q \in 0 .. NumQueues - 1 : dst_kv_pairs[q] # Null}
SlotsCounted == Cardinality(InUse) = DstAllocated - DstFreed

\* Until the source is gone the files that own a slot are DstFreed ..
\* DstAllocated - 1, at most num_queues of them, and the queue of each holds
\* what has been received and not written.
DstWindow ==
  /\ DstFreed <= DstAllocated
  /\ DstAllocated <= DstFreed + NumQueues
  /\ \A q \in InUse : \E f \in DstFreed .. DstAllocated - 1 : QueueNum(f) = q
  /\ \A f \in DstFreed .. DstAllocated - 1 :
       /\ QueueNum(f) \in InUse
       /\ Len(dst_kv_pairs[QueueNum(f)]) = Received(f) - Taken(f)
  /\ receiver.pc \in {"size", "data"} /\ receiver.file_num < DstFreed =>
       receiver.pos = NumEntries[receiver.file_num]

\* A queue in the slot of file f holds the next pairs of f and, once the source
\* is gone, garbage after them.
PairsThenGarbage(queue, f, done) ==
  /\ \A k \in 1 .. Len(queue) :
       IF queue[k] = Garbage THEN receiver.eof /\ 0 \in Uninit ELSE queue[k] = <<f, done + k>>
  /\ \A j, k \in 1 .. Len(queue) : j < k /\ queue[j] = Garbage => queue[k] = Garbage

DstQueues ==
  \A f \in DstFreed .. DstFreed + NumQueues - 1 :
    QueueNum(f) \in InUse => PairsThenGarbage(dst_kv_pairs[QueueNum(f)], f, Taken(f))

\* RecvKVPairs has not enqueued all of its file.
Expecting ==
  \/ receiver.pc = "data"
  \/ receiver.pc = "size" /\ receiver.pos < NumEntries[receiver.file_num]

\* The last pair of the file that owns its slot has not come ...
PairMissing ==
  /\ ReceiverSlot \in InUse
  /\ \A f \in Files \cap (DstFreed .. DstFreed + NumQueues - 1) :
       QueueNum(f) = ReceiverSlot =>
         /\ Taken(f) < NumEntries[f]
         /\ \A k \in 1 .. Len(dst_kv_pairs[ReceiverSlot]) :
              LET kv_pair == dst_kv_pairs[ReceiverSlot][k]
              IN kv_pair # Garbage => kv_pair[2] < NumEntries[f]

\* ... and when the source is gone meanwhile it will not come any more.
LastMissing == receiver.eof /\ Expecting => PairMissing

DstRing ==
  /\ ~receiver.eof => DstWindow
  /\ DstQueues
  /\ LastMissing

-------------------------------------------------------------------------------
(* How far the two ends are apart *)

\* Files whose announcement SendKVPairs has had acknowledged, and file numbers
\* RecvKVPairs has received.
SentAcked == IF sender.pc \in {"announce", "ack"} THEN send_cnt - 1 ELSE send_cnt
RecvSeen == IF receiver.pc = "num" THEN recv_cnt - 1 ELSE recv_cnt

\* Each flag answers one file number: none is read that was not sent.
Acknowledged == dst_up => SentAcked + flags <= RecvSeen

\* At most 2 * num_queues + 1 files are read and not yet written, over both
\* machines: those in the slots of the two rings and one on the way.  Neither
\* machine counts for the other: a slow WriteKVPairs holds back ReadKVPairs by
\* way of its own slots, the flag that RecvKVPairs sends after a file number,
\* SendKVPairs' wait for it, and the source's slots (src sst.cc:32, 70, 105,
\* dst sst.cc:25-38, 122).
Backpressure ==
  dst_up /\ reader.pc = "enqueue" => reader.file_num <= DstFreed + 2 * NumQueues

-------------------------------------------------------------------------------
(* The SSTables *)

\* The SSTable of the file at hand holds the pairs taken so far; or else it
\* holds garbage and will never be finished.
AtHand ==
  writer.pc \in {"pair", "free", "mark"} =>
    LET f == writer.file_num
    IN /\ Len(sst_files[f]) = writer.pos
       /\ \/ \A k \in 1 .. writer.pos : sst_files[f][k] = <<f, k>> /\ <<f, k>> \in Pair
          \/ /\ writer.pc = "pair" /\ writer.pos = 1 /\ NumEntries[f] > 1
             /\ receiver.eof
             /\ \A k \in 1 .. Len(dst_kv_pairs[WriterSlot]) :
                  dst_kv_pairs[WriterSlot][k] = Garbage

\* The files before it are whole, those after it are empty.
SstFiles ==
  /\ AtHand
  /\ \A f \in Files : write_finished[f] => sst_files[f] = Contents(f)
  /\ \A f \in Files : f >= write_cnt \/ (writer.pc = "wait" /\ f = writer.file_num) =>
       sst_files[f] = <<>>

==============================================================================
