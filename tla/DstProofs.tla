------------------------------ MODULE DstProofs ------------------------------
(***************************************************************************)
(* Proofs about the destination of the transfer: that RecvKVPairs and      *)
(* WriteKVPairs agree on the ring of queues between them (DstRing), that   *)
(* the SSTables are finished and ingested in order (WriteOrder), that a    *)
(* finished one is never touched again and is whole, that mig_ended comes  *)
(* when nothing is left, how many files may lie between ReadKVPairs and    *)
(* WriteKVPairs (Backpressure), and that the transfer implements           *)
(* FileMigration: for any number of files, any contents and any length of  *)
(* the ring, and whatever fails.                                           *)
(*                                                                         *)
(* Until the source is gone the argument for the ring is that of           *)
(* TransferProofs. After that RecvKVPairs may take any file number and     *)
(* enqueue garbage; the proofs show that none of it reaches the end of a   *)
(* file, unless a single pair makes one (NoLonePair).                      *)
(***************************************************************************)
EXTENDS TransferProofs, FiniteSetTheorems

-------------------------------------------------------------------------------
(* Types and slots in use *)

LEMMA DstTypes ==
  ASSUME TypeOK, DstRingClaims
  PROVE  /\ NumQueues \in Nat \ {0}
         /\ receiver \in ReceiverType /\ writer \in WriterType /\ dst_kv_pairs \in RingType
         /\ recv_cnt \in Nat /\ write_cnt \in Nat
         /\ receiver.file_num \in Nat /\ receiver.pos \in Nat
         /\ writer.file_num \in Nat /\ writer.pos \in Nat
         /\ ReceiverSlot \in 0 .. NumQueues - 1 /\ WriterSlot \in 0 .. NumQueues - 1
         /\ DstFreed \in Nat /\ DstAllocated \in Int
         /\ writer.pc \in {"wait", "pair", "free"} =>
              DstFreed = writer.file_num /\ writer.file_num \in Files
<1>1. NumQueues \in Nat \ {0} /\ NumFiles \in Nat /\ Files \subseteq Nat
      BY SizesAssumption, FilesType
<1>2. receiver \in ReceiverType /\ writer \in WriterType /\ dst_kv_pairs \in RingType
      BY DEF TypeOK, DstTypeOK, ReceiverType, WriterType, RingType
<1>3. recv_cnt \in Nat /\ write_cnt \in Nat
      BY <1>1 DEF TypeOK, DstTypeOK
<1>4. receiver.file_num \in Nat /\ receiver.pos \in Nat
      BY <1>2 DEF ReceiverType
<1>5. writer.file_num \in Nat /\ writer.pos \in Nat
  <2>1. writer.file_num \in Files \cup {0}
        BY <1>2 DEF WriterType
  <2>2. writer.pos \in Nat
        BY <1>2 DEF WriterType
  <2>3. writer.file_num \in Nat
        BY <1>1, <2>1 DEF Files
  <2> QED
        BY <2>2, <2>3
<1>6. ReceiverSlot \in 0 .. NumQueues - 1 /\ WriterSlot \in 0 .. NumQueues - 1
      BY <1>4, <1>5, QueueNumType DEF ReceiverSlot, WriterSlot
<1>7. writer.pc \in {"claim", "wait", "pair", "free", "mark", "done"}
      BY <1>2 DEF WriterType
<1>8. writer.pc \in {"wait", "pair", "free"} =>
        DstFreed = writer.file_num /\ writer.file_num \in Files
  <2>1. writer.pc \in {"wait", "pair", "free"} =>
          write_cnt = writer.file_num + 1 /\ writer.file_num \in Files
        BY DEF DstRingClaims, TypeOK, DstTypeOK
  <2> QED
        BY <1>5, <2>1 DEF DstFreed
<1>9. DstFreed \in Nat
  <2>1. CASE writer.pc \in {"wait", "pair", "free"}
        BY <2>1, <1>5, <1>8
  <2>2. CASE writer.pc \in {"claim", "mark", "done"}
        BY <2>2, <1>3 DEF DstFreed
  <2> QED
        BY <1>7, <2>1, <2>2
<1>10. DstAllocated \in Int
      BY <1>3 DEF DstAllocated
<1> QED
  BY <1>1, <1>2, <1>3, <1>4, <1>5, <1>6, <1>8, <1>9, <1>10

\* A queue in use is a sequence, and a sequence is not the null pointer.
LEMMA DstQueueType ==
  ASSUME TypeOK
  PROVE  /\ \A q \in InUse : q \in 0 .. NumQueues - 1 /\ dst_kv_pairs[q] \in Seq(Pair \cup {Garbage})
         /\ \A queue \in Seq(Pair \cup {Garbage}) : queue # Null
<1>1. dst_kv_pairs \in [0 .. NumQueues - 1 -> Seq(Pair \cup {Garbage}) \cup {Null}]
      BY DEF TypeOK, DstTypeOK
<1>2. \A queue \in Seq(Pair \cup {Garbage}) : queue # Null
      BY NullAssumption
<1> QED
  BY <1>1, <1>2 DEF InUse

\* The steps that change the ring.
LEMMA RingChanges ==
  [Next]_vars => RecvAllocate \/ RecvEnqueue \/ WritePair \/ WriteFree \/ UNCHANGED dst_kv_pairs
<1> SUFFICES ASSUME [Next]_vars, ~RecvAllocate, ~RecvEnqueue, ~WritePair, ~WriteFree
             PROVE  UNCHANGED dst_kv_pairs
    OBVIOUS
<1>1. CASE UNCHANGED vars \/ UNCHANGED dstVars
      BY <1>1 DEF vars, dstVars
<1>2. CASE RecvKVPairs
      BY <1>2 DEF RecvKVPairs, RecvClaim, RecvFileNum, RecvFileNumEof, RecvSize, RecvSizeEof,
                  RecvChunk, RecvChunkEof, RecvNext, RecvDone
<1>3. CASE WriteKVPairs \/ WriteOpenFails
      BY <1>3 DEF WriteKVPairs, WriteClaim, WriteWait, WriteFinish, WriteMark, WriteDone, WriteOpenFails
<1>4. CASE IngestSstFiles \/ TransferEnd
      BY <1>4, IngestFrame
<1>5. CASE RecvReset \/ WriteFails \/ IngestFails \/ DstWorkloadDies
      BY <1>5 DEF RecvReset, WriteFails, IngestFails, DstWorkloadDies, dstVars
<1> QED
  BY <1>1, <1>2, <1>3, <1>4, <1>5 DEF Next, DstNext

\* RecvKVPairs and WriteKVPairs each touch one slot.
LEMMA AllocateEffect ==
  ASSUME TypeOK, DstRingClaims, RecvAllocate
  PROVE  /\ InUse' = InUse \cup {ReceiverSlot} /\ ReceiverSlot \notin InUse
         /\ dst_kv_pairs'[ReceiverSlot] = <<>>
         /\ \A q \in 0 .. NumQueues - 1 : q # ReceiverSlot => dst_kv_pairs'[q] = dst_kv_pairs[q]
<1>1. /\ dst_kv_pairs[ReceiverSlot] = Null
      /\ dst_kv_pairs' = [dst_kv_pairs EXCEPT ![ReceiverSlot] = <<>>]
      BY DEF RecvAllocate
<1>2. /\ dst_kv_pairs'[ReceiverSlot] = <<>>
      /\ \A q \in 0 .. NumQueues - 1 : q # ReceiverSlot => dst_kv_pairs'[q] = dst_kv_pairs[q]
      BY <1>1, DstTypes DEF RingType
<1>3. <<>> # Null
  <2>1. <<>> \in Seq(Pair \cup {Garbage})
        OBVIOUS
  <2> QED
        BY <2>1, DstQueueType
<1> QED
  BY <1>1, <1>2, <1>3, DstTypes DEF InUse

LEMMA EnqueueEffect ==
  ASSUME TypeOK, DstRingClaims, RecvEnqueue
  PROVE  /\ InUse' = InUse /\ ReceiverSlot \in InUse
         /\ dst_kv_pairs[ReceiverSlot] \in Seq(Pair \cup {Garbage})
         /\ dst_kv_pairs'[ReceiverSlot] = Append(dst_kv_pairs[ReceiverSlot], receiver.kv_pair)
         /\ \A q \in 0 .. NumQueues - 1 : q # ReceiverSlot => dst_kv_pairs'[q] = dst_kv_pairs[q]
<1>1. /\ dst_kv_pairs[ReceiverSlot] # Null
      /\ dst_kv_pairs' = [dst_kv_pairs EXCEPT ![ReceiverSlot] = Append(@, receiver.kv_pair)]
      BY DEF RecvEnqueue
<1>2. /\ dst_kv_pairs'[ReceiverSlot] = Append(dst_kv_pairs[ReceiverSlot], receiver.kv_pair)
      /\ \A q \in 0 .. NumQueues - 1 : q # ReceiverSlot => dst_kv_pairs'[q] = dst_kv_pairs[q]
      BY <1>1, DstTypes DEF RingType
<1>3. ReceiverSlot \in InUse /\ dst_kv_pairs[ReceiverSlot] \in Seq(Pair \cup {Garbage})
      BY <1>1, DstTypes, DstQueueType DEF InUse
<1>4. receiver.kv_pair \in Pair \cup {Garbage}
      BY DstTypes DEF ReceiverType
<1>5. Append(dst_kv_pairs[ReceiverSlot], receiver.kv_pair) # Null
  <2>1. Append(dst_kv_pairs[ReceiverSlot], receiver.kv_pair) \in Seq(Pair \cup {Garbage})
        BY <1>3, <1>4
  <2> QED
        BY <2>1, DstQueueType
<1> QED
  BY <1>1, <1>2, <1>3, <1>5, DstTypes DEF InUse

LEMMA TakeEffect ==
  ASSUME TypeOK, DstRingClaims, WritePair
  PROVE  /\ InUse' = InUse /\ WriterSlot \in InUse
         /\ dst_kv_pairs[WriterSlot] \in Seq(Pair \cup {Garbage}) /\ dst_kv_pairs[WriterSlot] # <<>>
         /\ dst_kv_pairs'[WriterSlot] = Tail(dst_kv_pairs[WriterSlot])
         /\ \A q \in 0 .. NumQueues - 1 : q # WriterSlot => dst_kv_pairs'[q] = dst_kv_pairs[q]
<1>1. /\ dst_kv_pairs[WriterSlot] # Null /\ dst_kv_pairs[WriterSlot] # <<>>
      /\ dst_kv_pairs' = [dst_kv_pairs EXCEPT ![WriterSlot] = Tail(@)]
      BY DEF WritePair
<1>2. /\ dst_kv_pairs'[WriterSlot] = Tail(dst_kv_pairs[WriterSlot])
      /\ \A q \in 0 .. NumQueues - 1 : q # WriterSlot => dst_kv_pairs'[q] = dst_kv_pairs[q]
      BY <1>1, DstTypes DEF RingType
<1>3. WriterSlot \in InUse /\ dst_kv_pairs[WriterSlot] \in Seq(Pair \cup {Garbage})
      BY <1>1, DstTypes, DstQueueType DEF InUse
<1>4. Tail(dst_kv_pairs[WriterSlot]) # Null
  <2>1. Tail(dst_kv_pairs[WriterSlot]) \in Seq(Pair \cup {Garbage})
        BY <1>1, <1>3
  <2> QED
        BY <2>1, DstQueueType
<1> QED
  BY <1>1, <1>2, <1>3, <1>4, DstTypes DEF InUse

LEMMA FreeEffect ==
  ASSUME TypeOK, DstRingClaims, WriteFree
  PROVE  /\ InUse' = InUse \ {WriterSlot} /\ WriterSlot \in InUse
         /\ dst_kv_pairs'[WriterSlot] = Null
         /\ \A q \in 0 .. NumQueues - 1 : q # WriterSlot => dst_kv_pairs'[q] = dst_kv_pairs[q]
<1>1. /\ dst_kv_pairs[WriterSlot] # Null
      /\ dst_kv_pairs' = [dst_kv_pairs EXCEPT ![WriterSlot] = Null]
      BY DEF WriteFree, WriterAt, DstRingClaims
<1>2. /\ dst_kv_pairs'[WriterSlot] = Null
      /\ \A q \in 0 .. NumQueues - 1 : q # WriterSlot => dst_kv_pairs'[q] = dst_kv_pairs[q]
      BY <1>1, DstTypes DEF RingType
<1> QED
  BY <1>1, <1>2, DstTypes DEF InUse

-------------------------------------------------------------------------------
(* The counters *)

LEMMA ClaimsInit == Init => DstRingClaims /\ SlotsCounted
<1> SUFFICES ASSUME Init
             PROVE  DstRingClaims /\ SlotsCounted
    OBVIOUS
<1>1. DstRingClaims
      BY DEF Init, DstInit, DstRingClaims
<1>2. InUse = {}
      BY DEF Init, DstInit, InUse
<1>3. DstAllocated = 0 /\ DstFreed = 0
      BY DEF Init, DstInit, DstAllocated, DstFreed
<1> QED
  BY <1>1, <1>2, <1>3, FS_EmptySet DEF SlotsCounted

\* The steps of the writer, by what they do to its counter and position.
LEMMA ClaimsStep == TypeOK /\ DstRingClaims /\ [Next]_vars => DstRingClaims'
<1> SUFFICES ASSUME TypeOK, DstRingClaims, [Next]_vars
             PROVE  DstRingClaims'
    OBVIOUS
<1>a. /\ writer \in WriterType /\ receiver \in ReceiverType /\ recv_cnt \in Nat /\ write_cnt \in Nat
      /\ writer.pos \in Nat
      /\ writer.pc \in {"wait", "pair", "free", "mark"} => writer.file_num \in Files
      BY DstTypes DEF TypeOK, DstTypeOK
<1>b. \A f \in Files : NumEntries[f] \in Nat \ {0}
      BY DataAssumption
\* A slot in use stays in use unless it is freed.
<1>c. ASSUME ~WriteFree
      PROVE  InUse \subseteq InUse'
      BY <1>c, RingChanges, AllocateEffect, EnqueueEffect, TakeEffect DEF InUse
<1>d. ASSUME UNCHANGED <<writer, write_cnt>>, ~WriteFree
      PROVE  /\ writer'.pc \in {"wait", "pair", "free", "mark"} => write_cnt' = writer'.file_num + 1
             /\ writer'.pc = "wait" => writer'.pos = 0
             /\ writer'.pc = "pair" => writer'.pos <= NumEntries[writer'.file_num]
             /\ writer'.pc \in {"free", "mark"} => writer'.pos = NumEntries[writer'.file_num]
             /\ writer'.pc \in {"pair", "free"} => dst_kv_pairs'[WriterSlot'] # Null
  <2>1. writer.pc \in {"pair", "free"} => WriterSlot \in InUse
        BY DstTypes DEF DstRingClaims, InUse
  <2>2. WriterSlot' = WriterSlot
        BY <1>d DEF WriterSlot
  <2>3. writer'.pc \in {"pair", "free"} => dst_kv_pairs'[WriterSlot'] # Null
        BY <1>c, <1>d, <2>1, <2>2 DEF InUse
  <2> QED
        BY <1>d, <2>3 DEF DstRingClaims
<1>1. CASE RecvKVPairs
  <2>1. UNCHANGED <<writer, write_cnt, mig_ended>> /\ ~WriteFree
    <3>1. UNCHANGED <<writer, write_cnt, mig_ended>>
          BY <1>1, RecvFrame DEF writeVars
    <3> QED
          BY <3>1, <1>a DEF WriteFree, WriterAt, WriterType
  <2>2. /\ receiver.pc # "done" /\ recv_cnt' \in Nat
        /\ receiver'.pc = "done" => recv_cnt' = NumFiles
    <3> USE <1>a, SizesAssumption DEF ReceiverType, ReceiverAt, TypeOK, DstTypeOK
    <3>1. CASE RecvClaim
          BY <3>1, SMTT(30) DEF RecvClaim
    <3>2. CASE RecvFileNum \/ RecvFileNumEof
          BY <3>2 DEF RecvFileNum, RecvFileNumEof
    <3>3. CASE RecvAllocate \/ RecvEnqueue \/ RecvNext
          BY <3>3 DEF RecvAllocate, RecvEnqueue, RecvNext
    <3>4. CASE RecvSize \/ RecvSizeEof
          BY <3>4 DEF RecvSize, RecvSizeEof
    <3>5. CASE RecvChunk \/ RecvChunkEof
          BY <3>5 DEF RecvChunk, RecvChunkEof
    <3>6. CASE RecvDone
          BY <3>6 DEF RecvDone
    <3> QED
          BY <1>1, <3>1, <3>2, <3>3, <3>4, <3>5, <3>6 DEF RecvKVPairs
  <2> QED
        BY <1>d, <2>1, <2>2 DEF DstRingClaims
<1>2. CASE WriteKVPairs \/ WriteOpenFails
  <2>1. UNCHANGED <<receiver, recv_cnt, mig_ended>>
        BY <1>2, WriteFrame DEF recvVars
  <2>2. CASE WriteClaim \/ WriteOpenFails
        BY <1>a, <2>1, <2>2 DEF WriteClaim, WriteOpenFails, WriterType, DstRingClaims
  <2>3. CASE WriteWait
        BY <1>a, <1>b, <2>1, <2>3 DEF WriteWait, WriterAt, WriterSlot, WriterType, DstRingClaims
  <2>4. CASE WritePair
    <3>1. /\ writer.pc = "pair" /\ writer'.pc = "pair" /\ writer'.file_num = writer.file_num
          /\ writer'.pos = writer.pos + 1 /\ write_cnt' = write_cnt
          /\ writer.pos < NumEntries[writer.file_num]
          BY <1>a, <2>4 DEF WritePair, WriterAt, WriterType
    <3>2. WriterSlot' = WriterSlot /\ dst_kv_pairs'[WriterSlot] # Null
          BY <2>4, <3>1, TakeEffect DEF WriterSlot, InUse
    <3>3. writer'.pos <= NumEntries[writer.file_num]
          BY <1>a, <1>b, <3>1
    <3> QED
          BY <2>1, <3>1, <3>2, <3>3 DEF DstRingClaims
  <2>5. CASE WriteFinish
    <3>1. /\ writer.pc = "pair" /\ writer'.pc = "free" /\ writer'.file_num = writer.file_num
          /\ writer'.pos = writer.pos /\ write_cnt' = write_cnt
          /\ writer.pos >= NumEntries[writer.file_num] /\ dst_kv_pairs' = dst_kv_pairs
          BY <1>a, <2>5 DEF WriteFinish, WriterAt, WriterType
    <3>2. writer.pos = NumEntries[writer.file_num]
          BY <1>a, <1>b, <3>1 DEF DstRingClaims
    <3> QED
          BY <2>1, <3>1, <3>2 DEF DstRingClaims, WriterSlot
  <2>6. CASE WriteFree
        BY <1>a, <2>1, <2>6 DEF WriteFree, WriterAt, WriterType, DstRingClaims
  <2>7. CASE WriteMark \/ WriteDone
        BY <1>a, <2>1, <2>7 DEF WriteMark, WriteDone, WriterAt, WriterType, DstRingClaims
  <2> QED
        BY <1>2, <2>2, <2>3, <2>4, <2>5, <2>6, <2>7 DEF WriteKVPairs
<1>3. CASE \/ RecvReset \/ WriteFails \/ IngestFails \/ DstWorkloadDies
           \/ IngestSstFiles \/ TransferEnd \/ UNCHANGED vars \/ UNCHANGED dstVars
  <2>1. UNCHANGED <<writer, write_cnt, receiver, recv_cnt, dst_kv_pairs>>
        BY <1>3, IngestFrame
        DEF RecvReset, WriteFails, IngestFails, DstWorkloadDies, vars, dstVars, recvVars, writeVars
  <2>2. mig_ended' => mig_ended \/ receiver.pc = "done"
        BY <1>3 DEF RecvReset, WriteFails, IngestFails, DstWorkloadDies, IngestSstFiles, IngestClaim,
          IngestFile, IngestDone, TransferEnd, vars, dstVars
  <2> QED
        BY <2>1, <2>2 DEF DstRingClaims, WriterSlot
<1> QED
  BY <1>1, <1>2, <1>3 DEF Next, DstNext

\* Only allocating a queue moves DstAllocated, and only freeing one DstFreed.
LEMMA CountersKept ==
  ASSUME TypeOK, [Next]_vars
  PROVE  /\ ~RecvAllocate => DstAllocated' = DstAllocated
         /\ ~WriteFree => DstFreed' = DstFreed
<1>a. /\ writer \in WriterType /\ receiver \in ReceiverType /\ recv_cnt \in Nat /\ write_cnt \in Nat
      BY SizesAssumption DEF TypeOK, DstTypeOK, WriterType, ReceiverType
<1>1. CASE RecvKVPairs
  <2>1. DstFreed' = DstFreed
        BY <1>1, RecvFrame DEF writeVars, DstFreed
  <2>2. ~RecvAllocate => DstAllocated' = DstAllocated
    <3> USE <1>a DEF ReceiverType, ReceiverAt, DstAllocated
    <3>1. CASE RecvClaim
          BY <3>1 DEF RecvClaim
    <3>2. CASE RecvFileNum \/ RecvFileNumEof
          BY <3>2 DEF RecvFileNum, RecvFileNumEof
    <3>3. CASE RecvEnqueue \/ RecvNext \/ RecvDone
          BY <3>3 DEF RecvEnqueue, RecvNext, RecvDone
    <3>4. CASE RecvSize \/ RecvSizeEof
          BY <3>4 DEF RecvSize, RecvSizeEof
    <3>5. CASE RecvChunk \/ RecvChunkEof
          BY <3>5 DEF RecvChunk, RecvChunkEof
    <3> QED
          BY <1>1, <3>1, <3>2, <3>3, <3>4, <3>5 DEF RecvKVPairs
  <2> QED
        BY <2>1, <2>2
<1>2. CASE WriteKVPairs \/ WriteOpenFails
  <2>1. DstAllocated' = DstAllocated
        BY <1>2, WriteFrame DEF recvVars, DstAllocated
  <2>2. ~WriteFree => DstFreed' = DstFreed
    <3> USE <1>a DEF WriterType, WriterAt, DstFreed
    <3>1. CASE WriteClaim \/ WriteOpenFails
      <4>1. /\ writer.pc = "claim" /\ writer'.pc = "wait" /\ write_cnt' = write_cnt + 1
            BY <3>1 DEF WriteClaim, WriteOpenFails
      <4> QED
            BY <4>1, <1>a
    <3>2. CASE WriteWait \/ WritePair \/ WriteFinish \/ WriteMark \/ WriteDone
          BY <3>2 DEF WriteWait, WritePair, WriteFinish, WriteMark, WriteDone
    <3> QED
          BY <1>2, <3>1, <3>2 DEF WriteKVPairs
  <2> QED
        BY <2>1, <2>2
<1>3. CASE \/ RecvReset \/ WriteFails \/ IngestFails \/ DstWorkloadDies
           \/ IngestSstFiles \/ TransferEnd \/ UNCHANGED vars \/ UNCHANGED dstVars
  <2>1. UNCHANGED <<writer, write_cnt, receiver, recv_cnt>>
        BY <1>3, IngestFrame
        DEF RecvReset, WriteFails, IngestFails, DstWorkloadDies, vars, dstVars, recvVars, writeVars
  <2> QED
        BY <2>1 DEF DstAllocated, DstFreed
<1> QED
  BY <1>1, <1>2, <1>3 DEF Next, DstNext

LEMMA InUseFinite == IsFiniteSet(InUse)
<1>1. IsFiniteSet(0 .. NumQueues - 1)
      BY SizesAssumption, FS_Interval
<1> QED
  BY <1>1, FS_Subset DEF InUse

LEMMA CountedStep == TypeOK /\ DstRingClaims /\ SlotsCounted /\ [Next]_vars => SlotsCounted'
<1> SUFFICES ASSUME TypeOK, DstRingClaims, SlotsCounted, [Next]_vars
             PROVE  SlotsCounted'
    OBVIOUS
<1>a. /\ recv_cnt \in Nat /\ write_cnt \in Nat /\ DstAllocated \in Int /\ DstFreed \in Nat
      /\ Cardinality(InUse) = DstAllocated - DstFreed
      BY DstTypes DEF SlotsCounted
<1>1. CASE RecvAllocate
  <2>1. DstAllocated' = DstAllocated + 1
        BY <1>1, <1>a, DstTypes DEF RecvAllocate, ReceiverAt, ReceiverType, DstAllocated
  <2>2. DstFreed' = DstFreed
        BY <1>1 DEF RecvAllocate, writeVars, DstFreed
  <2>3. Cardinality(InUse') = Cardinality(InUse) + 1
        BY <1>1, AllocateEffect, InUseFinite, FS_AddElement
  <2> QED
        BY <1>a, <2>1, <2>2, <2>3 DEF SlotsCounted
<1>2. CASE WriteFree
  <2>1. DstFreed' = DstFreed + 1
        BY <1>2, <1>a, DstTypes DEF WriteFree, WriterAt, WriterType, DstFreed
  <2>2. DstAllocated' = DstAllocated
        BY <1>2 DEF WriteFree, recvVars, DstAllocated
  <2>3. Cardinality(InUse') = Cardinality(InUse) - 1
        BY <1>2, FreeEffect, InUseFinite, FS_RemoveElement
  <2> QED
        BY <1>a, <2>1, <2>2, <2>3 DEF SlotsCounted
<1>3. CASE ~RecvAllocate /\ ~WriteFree
  <2>1. DstAllocated' = DstAllocated /\ DstFreed' = DstFreed
        BY <1>3, CountersKept
  <2>2. InUse' = InUse
        BY <1>3, RingChanges, EnqueueEffect, TakeEffect DEF InUse
  <2> QED
        BY <2>1, <2>2 DEF SlotsCounted
<1> QED
  BY <1>1, <1>2, <1>3

\* RecvKVPairs and WriteKVPairs claim their files in turn, and never leave more
\* slots in use than they have allocated and not freed.
LEMMA DstCounted == Spec => [](DstRingClaims /\ SlotsCounted)
<1>1. TypeOK /\ (DstRingClaims /\ SlotsCounted) /\ [Next]_vars => (DstRingClaims /\ SlotsCounted)'
      BY ClaimsStep, CountedStep
<1> QED
  BY <1>1, ClaimsInit, TypeCorrect, PTL DEF Spec

-------------------------------------------------------------------------------
(* The ring: the steps that do not change it *)

\* Numbers of pairs, and the files whose slots are told apart.
LEMMA RingNumbers ==
  ASSUME TypeOK, DstRingClaims
  PROVE  /\ \A f : Taken(f) \in Nat
         /\ \A f \in DstFreed .. DstFreed + NumQueues - 1 :
              f \in Nat /\ QueueNum(f) \in 0 .. NumQueues - 1
         /\ \A f, g \in DstFreed .. DstFreed + NumQueues - 1 : QueueNum(f) = QueueNum(g) => f = g
<1>1. /\ NumQueues \in Nat \ {0} /\ DstFreed \in Nat /\ writer.pos \in Nat
      BY DstTypes
<1>2. \A f : Taken(f) \in Nat
      BY <1>1 DEF Taken
<1>3. \A f \in DstFreed .. DstFreed + NumQueues - 1 :
        f \in Nat /\ DstFreed <= f /\ f < DstFreed + NumQueues
      BY <1>1
<1>4. \A f \in DstFreed .. DstFreed + NumQueues - 1 : QueueNum(f) \in 0 .. NumQueues - 1
      BY <1>3, QueueNumType
<1>5. \A f, g \in DstFreed .. DstFreed + NumQueues - 1 : QueueNum(f) = QueueNum(g) => f = g
      BY <1>1, <1>3, SlotsDistinct
<1> QED
  BY <1>2, <1>3, <1>4, <1>5

\* The file WriteKVPairs works on is the first of the window.
LEMMA WriterFirst ==
  ASSUME TypeOK, DstRingClaims, writer.pc \in {"wait", "pair", "free"}
  PROVE  /\ writer.file_num = DstFreed /\ writer.file_num \in Files
         /\ writer.file_num \in DstFreed .. DstFreed + NumQueues - 1
         /\ WriterSlot = QueueNum(DstFreed)
BY DstTypes DEF WriterSlot

\* Only WritePair takes a pair, and only WriteFree moves on to another file.
LEMMA TakenKept ==
  ASSUME TypeOK, DstRingClaims, [Next]_vars, ~WritePair, ~WriteFree, NEW f
  PROVE  Taken(f)' = Taken(f)
<1>a. writer \in WriterType
      BY DstTypes
<1>1. CASE UNCHANGED writer
      BY <1>1 DEF Taken
<1>2. CASE WriteClaim \/ WriteOpenFails
  <2>1. writer.pc = "claim" /\ writer'.pc = "wait"
        BY <1>2, <1>a DEF WriteClaim, WriteOpenFails, WriterAt, WriterType
  <2> QED
        BY <2>1 DEF Taken
<1>3. CASE WriteWait
  <2>1. /\ writer.pc = "wait" /\ writer'.pc = "pair" /\ writer'.pos = writer.pos
        BY <1>3, <1>a DEF WriteWait, WriterAt, WriterType
  <2>2. writer.pos = 0
        BY <2>1 DEF DstRingClaims
  <2> QED
        BY <2>1, <2>2 DEF Taken
<1>4. CASE WriteFinish
  <2>1. /\ writer.pc = "pair" /\ writer'.pc = "free" /\ writer'.pos = writer.pos
        /\ writer'.file_num = writer.file_num
        BY <1>4, <1>a DEF WriteFinish, WriterAt, WriterType
  <2> QED
        BY <2>1 DEF Taken
<1>5. CASE WriteMark \/ WriteDone
  <2>1. writer.pc \in {"mark", "claim"} /\ writer'.pc \in {"claim", "done"}
        BY <1>5, <1>a DEF WriteMark, WriteDone, WriterAt, WriterType
  <2> QED
        BY <2>1 DEF Taken
<1>6. CASE ~WriteKVPairs /\ ~WriteOpenFails
  <2>1. CASE RecvKVPairs
        BY <1>1, <2>1, RecvFrame DEF writeVars
  <2>2. CASE \/ RecvReset \/ WriteFails \/ IngestFails \/ DstWorkloadDies
             \/ IngestSstFiles \/ TransferEnd \/ UNCHANGED vars \/ UNCHANGED dstVars
        BY <1>1, <2>2, IngestFrame
        DEF RecvReset, WriteFails, IngestFails, DstWorkloadDies, vars, dstVars, writeVars
  <2> QED
        BY <1>6, <2>1, <2>2 DEF Next, DstNext
<1> QED
  BY <1>2, <1>3, <1>4, <1>5, <1>6 DEF WriteKVPairs

\* The end of the stream is met once and for all.
LEMMA EofStays ==
  ASSUME TypeOK, Streams, [Next]_vars, receiver.eof
  PROVE  receiver'.eof
<1>1. CASE Next
      BY <1>1, ClosedStays DEF Streams
<1>2. CASE UNCHANGED vars
      BY <1>2 DEF vars, dstVars
<1> QED
  BY <1>1, <1>2

\* Only RecvAllocate and RecvEnqueue change what a file has received ...
LEMMA ReceivedKept ==
  ASSUME TypeOK, Streams, [Next]_vars, ~RecvAllocate, ~RecvEnqueue, ~receiver'.eof
  PROVE  /\ \A f : Received(f)' = Received(f)
         /\ receiver'.pc \in {"size", "data"} =>
              /\ receiver.pc \in {"size", "data"}
              /\ receiver'.file_num = receiver.file_num /\ receiver'.pos = receiver.pos
<1>a. receiver \in ReceiverType /\ ~receiver.eof
      BY EofStays DEF TypeOK, DstTypeOK, ReceiverType
<1>b. \A f \in Files : NumEntries[f] \in Nat
      BY DataAssumption
<1>1. CASE UNCHANGED receiver
      BY <1>1 DEF Received
<1>2. CASE RecvClaim \/ RecvFileNum \/ RecvDone
  <2>1. receiver.pc \in {"claim", "num"} /\ receiver'.pc \in {"num", "standby", "done"}
        BY <1>2, <1>a DEF RecvClaim, RecvFileNum, RecvDone, ReceiverAt, ReceiverType
  <2> QED
        BY <2>1 DEF Received
<1>3. CASE RecvFileNumEof \/ RecvSizeEof \/ RecvChunkEof
      BY <1>3, <1>a DEF RecvFileNumEof, RecvSizeEof, RecvChunkEof, ReceiverType
<1>4. CASE RecvSize
  <2>1. /\ receiver.pc = "size" /\ receiver'.pc = "data"
        /\ receiver'.file_num = receiver.file_num /\ receiver'.pos = receiver.pos
        BY <1>4, <1>a DEF RecvSize, ReceiverAt, ReceiverType
  <2> QED
        BY <2>1 DEF Received
<1>5. CASE RecvChunk
  <2>1. /\ receiver.pc = "data" /\ receiver'.pc = "data"
        /\ receiver'.file_num = receiver.file_num /\ receiver'.pos = receiver.pos
        BY <1>5, <1>a DEF RecvChunk, ReceiverAt, ReceiverType
  <2> QED
        BY <2>1 DEF Received
<1>6. CASE RecvNext
  <2>1. /\ receiver.pc = "size" /\ receiver'.pc = "claim"
        /\ receiver.pos >= NumEntries[receiver.file_num]
        BY <1>6, <1>a DEF RecvNext, ReceiverAt, ReceiverType
  <2>2. receiver.pos <= NumEntries[receiver.file_num] /\ recv_cnt = receiver.file_num + 1
        BY <1>a, <2>1 DEF Streams, RecvClaims
  <2>3. receiver.file_num \in Files /\ receiver.pos \in Nat
    <3>1. receiver.file_num \in Nat /\ receiver.pos \in Nat
          BY <1>a DEF ReceiverType
    <3>2. recv_cnt \in 0 .. NumFiles /\ NumFiles \in Nat
          BY SizesAssumption DEF TypeOK, DstTypeOK
    <3> QED
          BY <2>2, <3>1, <3>2 DEF Files
  <2>4. receiver.pos = NumEntries[receiver.file_num]
        BY <1>b, <2>1, <2>2, <2>3
  <2> QED
        BY <2>1, <2>4 DEF Received
<1>7. CASE ~RecvKVPairs
  <2>1. CASE WriteKVPairs \/ WriteOpenFails
        BY <1>1, <2>1, WriteFrame DEF recvVars
  <2>2. CASE \/ RecvReset \/ WriteFails \/ IngestFails \/ DstWorkloadDies
             \/ IngestSstFiles \/ TransferEnd \/ UNCHANGED vars \/ UNCHANGED dstVars
        BY <1>1, <2>2, IngestFrame
        DEF RecvReset, WriteFails, IngestFails, DstWorkloadDies, vars, dstVars, recvVars
  <2> QED
        BY <1>7, <2>1, <2>2 DEF Next, DstNext
<1> QED
  BY <1>2, <1>3, <1>4, <1>5, <1>6, <1>7 DEF RecvKVPairs

\* ... and begin or go on with the pairs of a file.
LEMMA ExpectingKept ==
  ASSUME TypeOK, [Next]_vars, ~RecvAllocate, ~RecvEnqueue, Expecting'
  PROVE  Expecting /\ ReceiverSlot' = ReceiverSlot
<1>a. receiver \in ReceiverType
      BY DEF TypeOK, DstTypeOK, ReceiverType
<1>1. CASE UNCHANGED receiver
      BY <1>1 DEF Expecting, ReceiverSlot
<1>2. CASE RecvClaim \/ RecvFileNum \/ RecvFileNumEof \/ RecvNext \/ RecvDone
  <2>1. receiver'.pc \in {"num", "standby", "claim", "done"}
        BY <1>2, <1>a DEF RecvClaim, RecvFileNum, RecvFileNumEof, RecvNext, RecvDone, ReceiverType
  <2> QED
        BY <2>1 DEF Expecting
<1>3. CASE RecvSize \/ RecvSizeEof
  <2>1. /\ receiver.pc = "size" /\ receiver.pos < NumEntries[receiver.file_num]
        /\ receiver'.file_num = receiver.file_num
        BY <1>3, <1>a DEF RecvSize, RecvSizeEof, ReceiverAt, ReceiverType
  <2> QED
        BY <2>1 DEF Expecting, ReceiverSlot
<1>4. CASE RecvChunk \/ RecvChunkEof
  <2>1. receiver.pc = "data" /\ receiver'.file_num = receiver.file_num
        BY <1>4, <1>a DEF RecvChunk, RecvChunkEof, ReceiverAt, ReceiverType
  <2> QED
        BY <2>1 DEF Expecting, ReceiverSlot
<1>5. CASE ~RecvKVPairs
  <2>1. CASE WriteKVPairs \/ WriteOpenFails
        BY <1>1, <2>1, WriteFrame DEF recvVars
  <2>2. CASE \/ RecvReset \/ WriteFails \/ IngestFails \/ DstWorkloadDies
             \/ IngestSstFiles \/ TransferEnd \/ UNCHANGED vars \/ UNCHANGED dstVars
        BY <1>1, <2>2, IngestFrame
        DEF RecvReset, WriteFails, IngestFails, DstWorkloadDies, vars, dstVars, recvVars
  <2> QED
        BY <1>5, <2>1, <2>2 DEF Next, DstNext
<1> QED
  BY <1>2, <1>3, <1>4, <1>5 DEF RecvKVPairs

\* When the source goes while RecvKVPairs expects a pair, the file at hand owns
\* its slot, and what is missing of it includes its last pair.
LEMMA EndLeavesGap ==
  ASSUME TypeOK, DstRingClaims, DstRing, ~receiver.eof, RecvClaims, Expecting
  PROVE  PairMissing
<1> DEFINE r == receiver.file_num
           queue == dst_kv_pairs[ReceiverSlot]
<1>1. /\ r \in Nat /\ receiver.pos \in Nat /\ recv_cnt \in Nat
      /\ NumQueues \in Nat \ {0} /\ DstFreed \in Nat
      BY DstTypes
<1>2. /\ receiver.pc \in {"size", "data"} /\ receiver.pos < NumEntries[r] /\ recv_cnt = r + 1
      BY DEF Expecting, RecvClaims
<1>3. r \in Files /\ NumEntries[r] \in Nat
  <2>1. recv_cnt \in 0 .. NumFiles /\ NumFiles \in Nat
        BY SizesAssumption DEF TypeOK, DstTypeOK
  <2>2. r \in Files
        BY <1>1, <1>2, <2>1 DEF Files
  <2> QED
        BY <2>2, DataAssumption
<1>4. DstWindow /\ DstQueues
      BY DEF DstRing
<1>5. DstAllocated = r + 1 /\ DstFreed <= r /\ r < DstFreed + NumQueues
  <2>1. DstAllocated = r + 1
        BY <1>2 DEF DstAllocated
  <2>2. ~(r < DstFreed)
        BY <1>1, <1>2, <1>3, <1>4 DEF DstWindow
  <2> QED
        BY <1>1, <1>4, <2>1, <2>2 DEF DstWindow
<1>6. /\ r \in DstFreed .. DstAllocated - 1 /\ r \in DstFreed .. DstFreed + NumQueues - 1
      BY <1>1, <1>5
<1>7. ReceiverSlot = QueueNum(r) /\ ReceiverSlot \in InUse
      BY <1>4, <1>6 DEF ReceiverSlot, DstWindow
<1>8. Len(queue) = receiver.pos - Taken(r) /\ Taken(r) \in Nat /\ Len(queue) \in Nat
  <2>1. Received(r) = receiver.pos
        BY <1>2 DEF Received
  <2>2. Len(queue) = Received(r) - Taken(r)
        BY <1>4, <1>6, <1>7 DEF DstWindow
  <2>3. queue \in Seq(Pair \cup {Garbage})
        BY <1>7, DstQueueType
  <2>4. Len(queue) \in Nat
        BY <2>3
  <2> QED
        BY <2>1, <2>2, <2>4, RingNumbers
<1>9. \A k \in 1 .. Len(queue) : queue[k] = <<r, Taken(r) + k>>
      BY <1>4, <1>6, <1>7 DEF DstQueues, PairsThenGarbage
<1>10. ASSUME NEW f \in DstFreed .. DstFreed + NumQueues - 1, QueueNum(f) = ReceiverSlot
       PROVE  /\ Taken(f) < NumEntries[f]
              /\ \A k \in 1 .. Len(queue) : queue[k][2] < NumEntries[f]
  <2>1. f = r
        BY <1>6, <1>7, <1>10, RingNumbers
  <2>2. Taken(r) < NumEntries[r]
        BY <1>1, <1>2, <1>3, <1>8
  <2>3. ASSUME NEW k \in 1 .. Len(queue)
        PROVE  queue[k][2] < NumEntries[r]
    <3>1. queue[k][2] = Taken(r) + k
          BY <1>9
    <3>2. Taken(r) + k <= receiver.pos
          BY <1>1, <1>8
    <3> HIDE DEF queue
    <3> QED
          BY <3>1, <3>2, <1>1, <1>2, <1>3, <1>8, SMTT(30)
  <2> QED
        BY <2>1, <2>2, <2>3
<1> QED
  BY <1>7, <1>10 DEF PairMissing

\* A step that leaves every slot alone.
LEMMA RingQuietStep ==
  ASSUME TypeOK, Streams, DstRingClaims, DstRing, [Next]_vars,
         ~RecvAllocate, ~RecvEnqueue, ~WritePair, ~WriteFree
  PROVE  DstRing'
<1>1. /\ dst_kv_pairs' = dst_kv_pairs /\ InUse' = InUse
      /\ DstFreed' = DstFreed /\ DstAllocated' = DstAllocated
      BY RingChanges, CountersKept DEF InUse
<1>2. \A f : Taken(f)' = Taken(f)
      BY TakenKept
<1>3. receiver.eof => receiver'.eof
      BY EofStays
<1>4. DstQueues'
      BY <1>1, <1>2, <1>3 DEF DstRing, DstQueues, PairsThenGarbage
<1>5. ASSUME ~receiver'.eof
      PROVE  DstWindow'
      BY <1>1, <1>2, <1>3, <1>5, ReceivedKept DEF DstRing, DstWindow
<1>6. ASSUME receiver'.eof, Expecting'
      PROVE  PairMissing'
  <2>1. Expecting /\ ReceiverSlot' = ReceiverSlot
        BY <1>6, ExpectingKept
  <2>2. PairMissing
    <3>1. CASE receiver.eof
          BY <2>1, <3>1 DEF DstRing, LastMissing
    <3>2. CASE ~receiver.eof
          BY <2>1, <3>2, EndLeavesGap DEF Streams
    <3> QED
          BY <3>1, <3>2
  <2> QED
        BY <1>1, <1>2, <2>1, <2>2 DEF PairMissing
<1> QED
  BY <1>4, <1>5, <1>6 DEF DstRing, LastMissing

-------------------------------------------------------------------------------
(* The ring: the steps of RecvKVPairs *)

\* The file in the slot RecvKVPairs finds null has had nothing taken.
LEMMA NullSlotUntaken ==
  ASSUME TypeOK, DstRingClaims, NEW f, dst_kv_pairs[QueueNum(f)] = Null
  PROVE  Taken(f) = 0
BY DEF DstRingClaims, Taken, WriterSlot

\* Until the source is gone RecvKVPairs works on the last file of the window.
LEMMA ReceiverLast ==
  ASSUME TypeOK, DstRingClaims, RecvClaims, receiver.pc \in {"standby", "size", "data"}
  PROVE  /\ receiver.file_num \in Files /\ recv_cnt = receiver.file_num + 1
         /\ NumEntries[receiver.file_num] \in Nat
<1>1. receiver.file_num \in Nat /\ recv_cnt = receiver.file_num + 1
      BY DstTypes DEF RecvClaims
<1>2. recv_cnt \in 0 .. NumFiles /\ NumFiles \in Nat
      BY SizesAssumption DEF TypeOK, DstTypeOK
<1>3. receiver.file_num \in Files
      BY <1>1, <1>2 DEF Files
<1> QED
  BY <1>1, <1>3, DataAssumption

LEMMA RecvAllocateRing ==
  ASSUME TypeOK, Streams, DstRingClaims, DstRing, RecvAllocate
  PROVE  DstRing'
<1> DEFINE r == receiver.file_num
<1>1. /\ receiver.pc = "standby" /\ receiver'.pc = "size"
      /\ receiver'.file_num = r /\ receiver'.pos = 0 /\ receiver'.eof = receiver.eof
      /\ UNCHANGED <<recv_cnt, write_cnt, writer>>
      /\ dst_kv_pairs[ReceiverSlot] = Null
      BY DstTypes DEF RecvAllocate, ReceiverAt, ReceiverType, writeVars
<1>2. /\ InUse' = InUse \cup {ReceiverSlot} /\ ReceiverSlot \notin InUse
      /\ dst_kv_pairs'[ReceiverSlot] = <<>>
      /\ \A q \in 0 .. NumQueues - 1 : q # ReceiverSlot => dst_kv_pairs'[q] = dst_kv_pairs[q]
      BY AllocateEffect
<1>3. /\ DstFreed' = DstFreed /\ ReceiverSlot' = ReceiverSlot /\ ReceiverSlot = QueueNum(r)
      /\ \A f : Taken(f)' = Taken(f)
      BY <1>1 DEF DstFreed, ReceiverSlot, Taken
<1>4. /\ NumQueues \in Nat \ {0} /\ DstFreed \in Nat /\ r \in Nat /\ recv_cnt \in Nat
      BY DstTypes
<1>5. \A f : QueueNum(f) = ReceiverSlot => Taken(f) = 0
      BY <1>1, NullSlotUntaken
<1>6. DstQueues'
  <2> SUFFICES ASSUME NEW f \in DstFreed .. DstFreed + NumQueues - 1, QueueNum(f) \in InUse'
               PROVE  PairsThenGarbage(dst_kv_pairs[QueueNum(f)], f, Taken(f))'
      BY <1>3 DEF DstQueues
  <2>1. CASE QueueNum(f) = ReceiverSlot
        BY <1>2, <2>1 DEF PairsThenGarbage
  <2>2. CASE QueueNum(f) # ReceiverSlot
    <3>1. QueueNum(f) \in InUse /\ QueueNum(f) \in 0 .. NumQueues - 1
          BY <1>2, <2>2, DstQueueType
    <3>2. PairsThenGarbage(dst_kv_pairs[QueueNum(f)], f, Taken(f))
          BY <3>1 DEF DstRing, DstQueues
    <3>3. dst_kv_pairs'[QueueNum(f)] = dst_kv_pairs[QueueNum(f)] /\ Taken(f)' = Taken(f)
          BY <1>2, <1>3, <2>2, <3>1
    <3> QED
          BY <1>1, <3>2, <3>3 DEF PairsThenGarbage
  <2> QED
        BY <2>1, <2>2
<1>7. LastMissing'
  <2>1. \A f \in Files : NumEntries[f] \in Nat \ {0}
        BY DataAssumption
  <2>2. PairMissing'
        BY <1>2, <1>3, <1>5, <2>1 DEF PairMissing
  <2> QED
        BY <2>2 DEF LastMissing
<1>8. ASSUME ~receiver'.eof
      PROVE  DstWindow'
  <2>1. DstWindow /\ RecvClaims
        BY <1>1, <1>8 DEF DstRing, Streams
  <2>2. recv_cnt = r + 1 /\ DstAllocated = r /\ DstAllocated' = r + 1
        BY <1>1, <1>4, <2>1 DEF DstAllocated, RecvClaims
  <2>3. DstFreed <= r /\ r <= DstFreed + NumQueues
        BY <2>1, <2>2 DEF DstWindow
  <2>4. r # DstFreed + NumQueues
    <3> SUFFICES ASSUME r = DstFreed + NumQueues
                 PROVE  FALSE
        OBVIOUS
    <3>1. QueueNum(r) = QueueNum(DstFreed)
          BY <1>4, ModShift DEF QueueNum
    <3>2. DstFreed \in DstFreed .. DstAllocated - 1
          BY <1>4, <2>2
    <3>3. QueueNum(DstFreed) \in InUse
          BY <2>1, <3>2 DEF DstWindow
    <3> QED
          BY <1>2, <1>3, <3>1, <3>3
  <2>5. DstFreed' <= DstAllocated' /\ DstAllocated' <= DstFreed' + NumQueues
        BY <1>3, <1>4, <2>2, <2>3, <2>4
  <2>6. ASSUME NEW q \in InUse'
        PROVE  \E f \in DstFreed .. r : QueueNum(f) = q
    <3>1. CASE q = ReceiverSlot
      <4>1. r \in DstFreed .. r
            BY <1>4, <2>3
      <4> QED
            BY <1>3, <3>1, <4>1
    <3>2. CASE q # ReceiverSlot
      <4>1. PICK f \in DstFreed .. DstAllocated - 1 : QueueNum(f) = q
            BY <1>2, <2>1, <2>6, <3>2 DEF DstWindow
      <4>2. f \in DstFreed .. r
            BY <1>4, <2>2
      <4> QED
            BY <4>1, <4>2
    <3> QED
          BY <3>1, <3>2
  <2>7. ASSUME NEW f \in DstFreed .. r
        PROVE  /\ QueueNum(f) \in InUse'
               /\ Len(dst_kv_pairs'[QueueNum(f)]) = Received(f)' - Taken(f)'
    <3>1. CASE f = r
      <4>1. Received(f)' = 0
            BY <1>1, <3>1 DEF Received
      <4>2. Taken(f)' = 0
            BY <1>3, <1>5, <3>1
      <4>3. Len(dst_kv_pairs'[QueueNum(f)]) = 0
            BY <1>2, <1>3, <3>1
      <4> QED
            BY <1>2, <1>3, <3>1, <4>1, <4>2, <4>3
    <3>2. CASE f # r
      <4>1. f \in DstFreed .. DstAllocated - 1
            BY <1>4, <2>2, <3>2
      <4>2. /\ QueueNum(f) \in InUse
            /\ Len(dst_kv_pairs[QueueNum(f)]) = Received(f) - Taken(f)
            BY <2>1, <4>1 DEF DstWindow
      <4>3. Received(f)' = Received(f)
            BY <1>1, <3>2 DEF Received
      <4>4. QueueNum(f) # ReceiverSlot /\ QueueNum(f) \in 0 .. NumQueues - 1
            BY <1>2, <4>2, DstQueueType
      <4> QED
            BY <1>2, <1>3, <4>2, <4>3, <4>4
    <3> QED
          BY <3>1, <3>2
  <2>8. ~(receiver'.file_num < DstFreed')
        BY <1>1, <1>3, <1>4, <2>3
  <2>9. DstFreed' .. DstAllocated' - 1 = DstFreed .. r
        BY <1>3, <1>4, <2>2
  <2> QED
        BY <2>5, <2>6, <2>7, <2>8, <2>9 DEF DstWindow
<1> QED
  BY <1>6, <1>7, <1>8 DEF DstRing

\* A queue of pairs and garbage goes on with the next pair ...
LEMMA PairsThenPair ==
  ASSUME NEW queue \in Seq(Pair \cup {Garbage}), NEW f, NEW done \in Nat, NEW p \in Pair,
         PairsThenGarbage(queue, f, done), ~receiver.eof, p = <<f, done + Len(queue) + 1>>
  PROVE  PairsThenGarbage(Append(queue, p), f, done)
<1> DEFINE more == Append(queue, p)
           n == Len(queue)
<1>1. /\ n \in Nat /\ Len(more) = n + 1 /\ more[n + 1] = p
      /\ \A k \in 1 .. n : more[k] = queue[k]
      OBVIOUS
<1>2. p # Garbage
      BY NullAssumption
<1>3. \A k \in 1 .. n : queue[k] # Garbage /\ queue[k] = <<f, done + k>>
      BY DEF PairsThenGarbage
<1>4. ASSUME NEW k \in 1 .. n + 1
      PROVE  more[k] # Garbage /\ more[k] = <<f, done + k>>
  <2>1. CASE k = n + 1
    <3>1. done + n + 1 = done + k
          BY <1>1, <2>1
    <3> QED
          BY <1>1, <1>2, <2>1, <3>1
  <2>2. CASE k # n + 1
    <3>1. k \in 1 .. n
          BY <1>1, <2>2
    <3> QED
          BY <1>1, <1>3, <3>1
  <2> QED
        BY <2>1, <2>2
<1> HIDE DEF more
<1>5. \A k \in 1 .. Len(more) : more[k] # Garbage /\ more[k] = <<f, done + k>>
      BY <1>1, <1>4
<1>6. \A k \in 1 .. Len(more) :
        IF more[k] = Garbage THEN receiver.eof /\ 0 \in Uninit ELSE more[k] = <<f, done + k>>
      BY <1>5
<1>7. \A j, k \in 1 .. Len(more) : j < k /\ more[j] = Garbage => more[k] = Garbage
      BY <1>5
<1>8. PairsThenGarbage(more, f, done)
      BY <1>6, <1>7 DEF PairsThenGarbage
<1> QED
  BY <1>8 DEF more

\* ... or, once the source is gone, with more garbage.
LEMMA PairsThenMore ==
  ASSUME NEW queue \in Seq(Pair \cup {Garbage}), NEW f, NEW done \in Nat,
         PairsThenGarbage(queue, f, done), receiver.eof, 0 \in Uninit
  PROVE  PairsThenGarbage(Append(queue, Garbage), f, done)
<1> DEFINE more == Append(queue, Garbage)
           n == Len(queue)
<1>1. /\ n \in Nat /\ Len(more) = n + 1 /\ more[n + 1] = Garbage
      /\ \A k \in 1 .. n : more[k] = queue[k]
      OBVIOUS
<1>2. \A k \in 1 .. n + 1 : k = n + 1 \/ k \in 1 .. n
      BY <1>1
<1> HIDE DEF more
<1>3. ASSUME NEW k \in 1 .. n + 1
      PROVE  IF more[k] = Garbage THEN receiver.eof /\ 0 \in Uninit ELSE more[k] = <<f, done + k>>
  <2>1. CASE k = n + 1
        BY <1>1, <2>1
  <2>2. CASE k \in 1 .. n
        BY <1>1, <2>2 DEF PairsThenGarbage
  <2> QED
        BY <1>2, <2>1, <2>2
<1>4. ASSUME NEW j \in 1 .. n + 1, NEW k \in 1 .. n + 1, j < k, more[j] = Garbage
      PROVE  more[k] = Garbage
  <2>1. CASE k = n + 1
        BY <1>1, <2>1
  <2>2. CASE k \in 1 .. n
    <3>1. j \in 1 .. n
          BY <1>1, <1>4, <2>2
    <3> QED
          BY <1>1, <1>4, <2>2, <3>1 DEF PairsThenGarbage
  <2> QED
        BY <1>2, <2>1, <2>2
<1> QED
  BY <1>1, <1>3, <1>4 DEF PairsThenGarbage

LEMMA RecvEnqueueRing ==
  ASSUME TypeOK, Streams, DstRingClaims, DstRing, RecvEnqueue
  PROVE  DstRing'
<1> DEFINE r == receiver.file_num
           queue == dst_kv_pairs[ReceiverSlot]
           p == receiver.kv_pair
<1>1. /\ receiver.pc = "data" /\ receiver'.pc = "size"
      /\ receiver'.file_num = r /\ receiver'.pos = receiver.pos + 1
      /\ receiver'.eof = receiver.eof
      /\ receiver.recv_size >= receiver.data_size
      /\ UNCHANGED <<recv_cnt, write_cnt, writer>>
      BY DstTypes DEF RecvEnqueue, ReceiverAt, ReceiverType, writeVars
<1>2. /\ InUse' = InUse /\ ReceiverSlot \in InUse
      /\ queue \in Seq(Pair \cup {Garbage})
      /\ dst_kv_pairs'[ReceiverSlot] = Append(queue, p)
      /\ \A q \in 0 .. NumQueues - 1 : q # ReceiverSlot => dst_kv_pairs'[q] = dst_kv_pairs[q]
      BY EnqueueEffect
<1>3. /\ DstFreed' = DstFreed /\ ReceiverSlot' = ReceiverSlot /\ ReceiverSlot = QueueNum(r)
      /\ \A f : Taken(f)' = Taken(f)
      BY <1>1 DEF DstFreed, ReceiverSlot, Taken
<1>4. /\ NumQueues \in Nat \ {0} /\ DstFreed \in Nat /\ r \in Nat /\ recv_cnt \in Nat
      /\ receiver.pos \in Nat /\ receiver.recv_size \in Nat /\ receiver.data_size \in Nat
      BY DstTypes DEF ReceiverType
<1>5. p \in Pair \cup {Garbage}
      BY DstTypes DEF ReceiverType
\* Until the source is gone it is the next pair of the last file of the window.
<1>6. ASSUME ~receiver.eof
      PROVE  /\ DstWindow /\ r \in Files /\ receiver.pos < NumEntries[r] /\ NumEntries[r] \in Nat
             /\ DstAllocated = r + 1 /\ DstAllocated' = r + 1
             /\ r \in DstFreed .. DstAllocated - 1 /\ r \in DstFreed .. DstFreed + NumQueues - 1
             /\ Len(queue) = receiver.pos - Taken(r)
             /\ p \in Pair /\ p = <<r, receiver.pos + 1>>
  <2>1. DstWindow /\ RecvClaims /\ RecvInHand
        BY <1>6 DEF DstRing, Streams
  <2>2. r \in Files /\ NumEntries[r] \in Nat /\ recv_cnt = r + 1 /\ receiver.pos < NumEntries[r]
        BY <1>1, <2>1, ReceiverLast DEF RecvClaims
  <2>3. DstAllocated = r + 1 /\ DstAllocated' = r + 1
        BY <1>1, <2>2 DEF DstAllocated
  <2>4. ~(r < DstFreed)
        BY <1>1, <1>4, <2>1, <2>2 DEF DstWindow
  <2>5. /\ r \in DstFreed .. DstAllocated - 1 /\ r \in DstFreed .. DstFreed + NumQueues - 1
        BY <1>4, <2>1, <2>3, <2>4 DEF DstWindow
  <2>6. Len(queue) = receiver.pos - Taken(r)
    <3>1. Received(r) = receiver.pos
          BY <1>1 DEF Received
    <3> QED
          BY <1>3, <2>1, <2>5, <3>1 DEF DstWindow
  <2>7. p = <<r, receiver.pos + 1>> /\ <<r, receiver.pos + 1>> \in Pair
        BY <1>1, <1>4, <2>1 DEF RecvInHand
  <2> QED
        BY <2>1, <2>2, <2>3, <2>5, <2>6, <2>7
\* Afterwards it is garbage.
<1>7. ASSUME receiver.eof
      PROVE  p = Garbage /\ 0 \in Uninit
      BY <1>1, <1>4, <1>7 DEF Streams, StreamClosed
<1>8. DstQueues'
  <2> SUFFICES ASSUME NEW f \in DstFreed .. DstFreed + NumQueues - 1, QueueNum(f) \in InUse
               PROVE  PairsThenGarbage(dst_kv_pairs[QueueNum(f)], f, Taken(f))'
      BY <1>2, <1>3 DEF DstQueues
  <2>1. /\ PairsThenGarbage(dst_kv_pairs[QueueNum(f)], f, Taken(f))
        /\ Taken(f)' = Taken(f) /\ Taken(f) \in Nat
        BY <1>3, RingNumbers DEF DstRing, DstQueues
  <2>2. CASE QueueNum(f) = ReceiverSlot
    <3>1. PairsThenGarbage(Append(queue, p), f, Taken(f))
      <4>1. CASE receiver.eof
            BY <1>2, <1>7, <2>1, <2>2, <4>1, PairsThenMore
      <4>2. CASE ~receiver.eof
        <5>1. f = r
              BY <1>3, <1>6, <2>2, <4>2, RingNumbers
        <5>2. Taken(f) + Len(queue) + 1 = receiver.pos + 1
              BY <1>4, <1>6, <2>1, <4>2, <5>1
        <5>3. p \in Pair /\ p = <<f, Taken(f) + Len(queue) + 1>>
              BY <1>6, <4>2, <5>1, <5>2
        <5> HIDE DEF p
        <5> QED
              BY <1>2, <2>1, <2>2, <4>2, <5>3, PairsThenPair
      <4> QED
            BY <4>1, <4>2
    <3>2. dst_kv_pairs'[QueueNum(f)] = Append(queue, p)
          BY <1>2, <2>2
    <3> HIDE DEF queue, p
    <3> QED
          BY <1>1, <2>1, <3>1, <3>2 DEF PairsThenGarbage
  <2>3. CASE QueueNum(f) # ReceiverSlot
    <3>1. dst_kv_pairs'[QueueNum(f)] = dst_kv_pairs[QueueNum(f)]
          BY <1>2, <2>3, DstQueueType
    <3> QED
          BY <1>1, <2>1, <3>1 DEF PairsThenGarbage
  <2> QED
        BY <2>2, <2>3
<1>9. ASSUME receiver'.eof, Expecting'
      PROVE  PairMissing'
  <2>1. PairMissing
        BY <1>1, <1>9 DEF DstRing, LastMissing, Expecting
  <2>2. p = Garbage
        BY <1>1, <1>7, <1>9
  <2>3. ASSUME NEW n, \A k \in 1 .. Len(queue) : queue[k] # Garbage => queue[k][2] < n
        PROVE  \A k \in 1 .. Len(Append(queue, p)) :
                 Append(queue, p)[k] # Garbage => Append(queue, p)[k][2] < n
    <3>1. /\ Len(queue) \in Nat /\ Len(Append(queue, p)) = Len(queue) + 1
          /\ Append(queue, p)[Len(queue) + 1] = p
          /\ \A k \in 1 .. Len(queue) : Append(queue, p)[k] = queue[k]
          BY <1>2, <1>5
    <3>2. \A k \in 1 .. Len(Append(queue, p)) : k = Len(queue) + 1 \/ k \in 1 .. Len(queue)
          BY <3>1
    <3> HIDE DEF queue, p
    <3> QED
          BY <2>2, <2>3, <3>1, <3>2
  <2>4. ASSUME NEW f \in Files \cap (DstFreed .. DstFreed + NumQueues - 1),
               QueueNum(f) = ReceiverSlot
        PROVE  /\ Taken(f)' < NumEntries[f]
               /\ \A k \in 1 .. Len(dst_kv_pairs'[ReceiverSlot]) :
                    LET kv_pair == dst_kv_pairs'[ReceiverSlot][k]
                    IN kv_pair # Garbage => kv_pair[2] < NumEntries[f]
    <3>1. /\ Taken(f) < NumEntries[f]
          /\ \A k \in 1 .. Len(queue) : queue[k] # Garbage => queue[k][2] < NumEntries[f]
          BY <2>1, <2>4 DEF PairMissing
    <3> HIDE DEF p, queue
    <3> QED
          BY <1>2, <1>3, <2>3, <3>1
  <2> QED
        BY <1>2, <1>3, <2>1, <2>4 DEF PairMissing
<1>10. ASSUME ~receiver'.eof
       PROVE  DstWindow'
  <2> USE <1>1, <1>10
  <2>1. DstFreed' = DstFreed /\ DstAllocated' = DstAllocated
        BY <1>3, <1>6
  <2>2. ASSUME NEW f \in DstFreed .. DstAllocated - 1
        PROVE  /\ QueueNum(f) \in InUse'
               /\ Len(dst_kv_pairs'[QueueNum(f)]) = Received(f)' - Taken(f)'
    <3>1. /\ QueueNum(f) \in InUse
          /\ Len(dst_kv_pairs[QueueNum(f)]) = Received(f) - Taken(f)
          BY <1>6 DEF DstWindow
    <3>2. CASE f = r
      <4>1. Received(f)' = receiver.pos + 1
            BY <3>2 DEF Received
      <4>2. Len(Append(queue, p)) = Len(queue) + 1
            BY <1>2, <1>5
      <4>3. Len(queue) = receiver.pos - Taken(f) /\ Taken(f) \in Nat
            BY <1>6, <3>2, RingNumbers
      <4>4. Len(queue) + 1 = Received(f)' - Taken(f)'
            BY <1>3, <1>4, <4>1, <4>3
      <4> QED
            BY <1>2, <1>3, <3>1, <3>2, <4>2, <4>4
    <3>3. CASE f # r
      <4>1. f \in DstFreed .. DstFreed + NumQueues - 1
            BY <1>4, <1>6 DEF DstWindow
      <4>2. QueueNum(f) # ReceiverSlot /\ QueueNum(f) \in 0 .. NumQueues - 1
            BY <1>3, <1>6, <3>3, <4>1, RingNumbers
      <4>3. Received(f)' = Received(f)
            BY <3>3 DEF Received
      <4> QED
            BY <1>2, <1>3, <3>1, <4>2, <4>3
    <3> QED
          BY <3>2, <3>3
  <2>3. ~(receiver'.file_num < DstFreed')
        BY <1>3, <1>4, <1>6
  <2> QED
        BY <1>2, <1>6, <2>1, <2>2, <2>3 DEF DstWindow
<1> QED
  BY <1>8, <1>9, <1>10 DEF DstRing, LastMissing

-------------------------------------------------------------------------------
(* The ring: the steps of WriteKVPairs *)

\* A queue without its head.
LEMMA PairsThenTail ==
  ASSUME NEW queue \in Seq(Pair \cup {Garbage}), NEW f, NEW done \in Nat,
         PairsThenGarbage(queue, f, done), queue # <<>>
  PROVE  /\ PairsThenGarbage(Tail(queue), f, done + 1)
         /\ Len(Tail(queue)) = Len(queue) - 1
         /\ \A k \in 1 .. Len(Tail(queue)) :
              k + 1 \in 1 .. Len(queue) /\ Tail(queue)[k] = queue[k + 1]
         /\ Head(queue) = Garbage =>
              receiver.eof /\ 0 \in Uninit /\ \A k \in 1 .. Len(Tail(queue)) : Tail(queue)[k] = Garbage
         /\ Head(queue) # Garbage => Head(queue) = <<f, done + 1>> /\ Head(queue) \in Pair
<1> DEFINE n == Len(queue)
           rest == Tail(queue)
<1>1. /\ n \in Nat \ {0} /\ Len(rest) = n - 1 /\ Head(queue) = queue[1]
      /\ \A k \in 1 .. n - 1 : rest[k] = queue[k + 1]
      /\ Head(queue) \in Pair \cup {Garbage}
      OBVIOUS
<1>2. \A k \in 1 .. n - 1 : k + 1 \in 1 .. n /\ 1 < k + 1 /\ done + (k + 1) = (done + 1) + k
      BY <1>1
<1>3. 1 \in 1 .. n
      BY <1>1
<1>4. \A j, k \in 1 .. n - 1 : j < k => j + 1 < k + 1
      BY <1>1
<1> HIDE DEF rest
<1>5. PairsThenGarbage(rest, f, done + 1)
  <2>1. ASSUME NEW k \in 1 .. n - 1
        PROVE  IF rest[k] = Garbage THEN receiver.eof /\ 0 \in Uninit
                                    ELSE rest[k] = <<f, (done + 1) + k>>
    <3>1. /\ k + 1 \in 1 .. n /\ rest[k] = queue[k + 1]
          /\ done + (k + 1) = (done + 1) + k
          BY <1>1, <1>2
    <3>2. IF queue[k + 1] = Garbage THEN receiver.eof /\ 0 \in Uninit
                                    ELSE queue[k + 1] = <<f, done + (k + 1)>>
          BY <3>1 DEF PairsThenGarbage
    <3> QED
          BY <3>1, <3>2
  <2>2. ASSUME NEW j \in 1 .. n - 1, NEW k \in 1 .. n - 1, j < k, rest[j] = Garbage
        PROVE  rest[k] = Garbage
        BY <1>1, <1>2, <1>4, <2>2 DEF PairsThenGarbage
  <2> QED
        BY <1>1, <2>1, <2>2 DEF PairsThenGarbage
<1>6. ASSUME Head(queue) = Garbage
      PROVE  receiver.eof /\ 0 \in Uninit /\ \A k \in 1 .. n - 1 : rest[k] = Garbage
  <2>1. receiver.eof /\ 0 \in Uninit
        BY <1>1, <1>3, <1>6 DEF PairsThenGarbage
  <2>2. ASSUME NEW k \in 1 .. n - 1
        PROVE  rest[k] = Garbage
        BY <1>1, <1>2, <1>3, <1>6 DEF PairsThenGarbage
  <2> QED
        BY <2>1, <2>2
<1>7. Head(queue) # Garbage => Head(queue) = <<f, done + 1>> /\ Head(queue) \in Pair
      BY <1>1, <1>3 DEF PairsThenGarbage
<1> QED
  BY <1>1, <1>2, <1>5, <1>6, <1>7 DEF rest

LEMMA WritePairRing ==
  ASSUME NoLonePair, TypeOK, Streams, DstRingClaims, DstRing, WritePair
  PROVE  DstRing'
<1> DEFINE w == DstFreed
           queue == dst_kv_pairs[WriterSlot]
<1>1. /\ writer.pc = "pair" /\ writer'.pc = "pair"
      /\ writer'.file_num = writer.file_num /\ writer'.pos = writer.pos + 1
      /\ UNCHANGED <<recv_cnt, receiver, write_cnt>>
      /\ writer.pos < NumEntries[writer.file_num]
      /\ Head(queue) = Garbage => writer.pos = 0
      BY DstTypes DEF WritePair, WriterAt, WriterType, recvVars, PutAccepted
<1>2. /\ InUse' = InUse /\ WriterSlot \in InUse
      /\ queue \in Seq(Pair \cup {Garbage}) /\ queue # <<>>
      /\ dst_kv_pairs'[WriterSlot] = Tail(queue)
      /\ \A q \in 0 .. NumQueues - 1 : q # WriterSlot => dst_kv_pairs'[q] = dst_kv_pairs[q]
      BY TakeEffect
<1>3. /\ writer.file_num = w /\ w \in Files /\ WriterSlot = QueueNum(w)
      /\ w \in DstFreed .. DstFreed + NumQueues - 1
      /\ writer.pos \in Nat /\ w \in Nat /\ NumEntries[w] \in Nat
  <2>1. /\ writer.file_num = w /\ w \in Files /\ WriterSlot = QueueNum(w)
        /\ w \in DstFreed .. DstFreed + NumQueues - 1
        BY <1>1, WriterFirst
  <2> QED
        BY <2>1, DstTypes, DataAssumption
<1>4. /\ DstFreed' = DstFreed /\ DstAllocated' = DstAllocated
      /\ ReceiverSlot' = ReceiverSlot
      /\ \A f : Received(f)' = Received(f)
      /\ Taken(w) = writer.pos
      /\ \A f : Taken(f)' = IF f = w THEN Taken(w) + 1 ELSE Taken(f)
      BY <1>1, <1>3 DEF DstFreed, DstAllocated, ReceiverSlot, Received, Taken
<1>5. /\ PairsThenGarbage(Tail(queue), w, Taken(w) + 1)
      /\ Len(Tail(queue)) = Len(queue) - 1
      /\ \A k \in 1 .. Len(Tail(queue)) :
           k + 1 \in 1 .. Len(queue) /\ Tail(queue)[k] = queue[k + 1]
      /\ Head(queue) = Garbage => 0 \in Uninit
      /\ Head(queue) # Garbage => Head(queue) = <<w, Taken(w) + 1>>
  <2>1. PairsThenGarbage(queue, w, Taken(w))
        BY <1>2, <1>3 DEF DstRing, DstQueues
  <2> QED
        BY <1>2, <1>3, <1>4, <2>1, PairsThenTail
<1>6. ASSUME NEW f \in DstFreed .. DstFreed + NumQueues - 1, f # w
      PROVE  /\ QueueNum(f) # WriterSlot
             /\ dst_kv_pairs'[QueueNum(f)] = dst_kv_pairs[QueueNum(f)]
             /\ Taken(f)' = Taken(f)
  <2>1. QueueNum(f) # WriterSlot
        BY <1>3, <1>6, RingNumbers
  <2> QED
        BY <1>2, <1>4, <1>6, <2>1, RingNumbers
<1>7. DstQueues'
  <2> SUFFICES ASSUME NEW f \in DstFreed .. DstFreed + NumQueues - 1, QueueNum(f) \in InUse
               PROVE  PairsThenGarbage(dst_kv_pairs[QueueNum(f)], f, Taken(f))'
      BY <1>2, <1>4 DEF DstQueues
  <2>1. CASE f = w
    <3>1. Taken(f)' = Taken(w) + 1 /\ dst_kv_pairs'[QueueNum(f)] = Tail(queue)
          BY <1>2, <1>3, <1>4, <2>1
    <3> HIDE DEF queue
    <3> QED
          BY <1>1, <1>5, <2>1, <3>1 DEF PairsThenGarbage
  <2>2. CASE f # w
    <3>1. PairsThenGarbage(dst_kv_pairs[QueueNum(f)], f, Taken(f))
          BY DEF DstRing, DstQueues
    <3> QED
          BY <1>1, <1>6, <2>2, <3>1 DEF PairsThenGarbage
  <2> QED
        BY <2>1, <2>2
\* The last pair of the file stays missing: the one taken is not it.
<1>8. ASSUME receiver.eof, Expecting
      PROVE  PairMissing'
  <2>1. PairMissing
        BY <1>8 DEF DstRing, LastMissing
  <2> SUFFICES ASSUME NEW f \in Files \cap (DstFreed .. DstFreed + NumQueues - 1),
                      QueueNum(f) = ReceiverSlot
               PROVE  /\ Taken(f)' < NumEntries[f]
                      /\ \A k \in 1 .. Len(dst_kv_pairs'[ReceiverSlot]) :
                           LET kv_pair == dst_kv_pairs'[ReceiverSlot][k]
                           IN kv_pair # Garbage => kv_pair[2] < NumEntries[f]
      BY <1>2, <1>4, <2>1 DEF PairMissing
  <2>2. /\ Taken(f) < NumEntries[f]
        /\ \A k \in 1 .. Len(dst_kv_pairs[ReceiverSlot]) :
             LET kv_pair == dst_kv_pairs[ReceiverSlot][k]
             IN kv_pair # Garbage => kv_pair[2] < NumEntries[f]
        BY <2>1 DEF PairMissing
  <2>3. CASE f = w
    <3>1. ReceiverSlot = WriterSlot
          BY <1>3, <2>3
    <3>2. \A k \in 1 .. Len(queue) : queue[k] # Garbage => queue[k][2] < NumEntries[w]
          BY <2>2, <2>3, <3>1
    <3>3. Taken(w) + 1 < NumEntries[w]
      <4>1. CASE Head(queue) = Garbage
        <5>1. Taken(w) = 0 /\ NumEntries[w] > 1
              BY <1>1, <1>3, <1>4, <1>5, <4>1 DEF NoLonePair
        <5> QED
              BY <5>1, <1>3
      <4>2. CASE Head(queue) # Garbage
        <5>1. Head(queue) = queue[1] /\ 1 \in 1 .. Len(queue)
              BY <1>2
        <5>2. queue[1] = <<w, Taken(w) + 1>> /\ queue[1][2] < NumEntries[w]
              BY <1>5, <3>2, <4>2, <5>1
        <5> QED
              BY <5>2
      <4> QED
            BY <4>1, <4>2
    <3>4. \A k \in 1 .. Len(Tail(queue)) :
            Tail(queue)[k] # Garbage => Tail(queue)[k][2] < NumEntries[w]
          BY <1>5, <3>2
    <3> HIDE DEF queue
    <3> QED
          BY <1>2, <1>4, <2>3, <3>1, <3>3, <3>4
  <2>4. CASE f # w
        BY <1>6, <2>2, <2>4
  <2> QED
        BY <2>3, <2>4
<1>9. ASSUME ~receiver.eof
      PROVE  DstWindow'
  <2>1. DstWindow
        BY <1>9 DEF DstRing
  <2>2. ASSUME NEW f \in DstFreed .. DstAllocated - 1
        PROVE  Len(dst_kv_pairs'[QueueNum(f)]) = Received(f)' - Taken(f)'
    <3>1. f \in DstFreed .. DstFreed + NumQueues - 1
          BY <2>1, DstTypes DEF DstWindow
    <3>2. Len(dst_kv_pairs[QueueNum(f)]) = Received(f) - Taken(f)
          BY <2>1 DEF DstWindow
    <3>3. CASE f = w
      <4>1. Taken(f)' = Taken(f) + 1 /\ Received(f)' = Received(f) /\ Taken(f) \in Nat
            BY <1>4, <3>3, RingNumbers
      <4>2. dst_kv_pairs'[QueueNum(f)] = Tail(queue) /\ Len(queue) = Received(f) - Taken(f)
            BY <1>2, <1>3, <3>2, <3>3
      <4>3. Len(Tail(queue)) = Len(queue) - 1 /\ Len(queue) \in Nat
            BY <1>2, <1>5
      <4>4. Received(f) \in Int
        <5>1. f \in Files
              BY <1>3, <3>3
        <5>2. NumEntries[f] \in Nat
              BY <5>1, DataAssumption
        <5> QED
              BY <5>2, DstTypes DEF Received
      <4> HIDE DEF queue
      <4> QED
            BY <4>1, <4>2, <4>3, <4>4
    <3>4. CASE f # w
          BY <1>4, <1>6, <3>1, <3>2, <3>4
    <3> QED
          BY <3>3, <3>4
  <2> QED
        BY <1>1, <1>2, <1>4, <2>1, <2>2 DEF DstWindow
<1> QED
  BY <1>1, <1>7, <1>8, <1>9 DEF DstRing, LastMissing, Expecting

LEMMA WriteFreeRing ==
  ASSUME TypeOK, Streams, DstRingClaims, DstRing, WriteFree
  PROVE  DstRing'
<1> DEFINE w == writer.file_num
           Window == DstFreed .. DstFreed + NumQueues - 1
           Moved == w + 1 .. w + NumQueues
<1>1. /\ writer.pc = "free" /\ writer'.pc = "mark"
      /\ UNCHANGED <<recv_cnt, receiver, write_cnt>>
      BY DstTypes DEF WriteFree, WriterAt, WriterType, recvVars
<1>2. /\ InUse' = InUse \ {WriterSlot} /\ WriterSlot \in InUse
      /\ \A q \in 0 .. NumQueues - 1 : q # WriterSlot => dst_kv_pairs'[q] = dst_kv_pairs[q]
      BY FreeEffect
<1>3. /\ w = DstFreed /\ w \in Files /\ WriterSlot = QueueNum(w) /\ w \in Window
      /\ w \in Nat /\ NumQueues \in Nat \ {0} /\ NumEntries[w] \in Nat
      /\ write_cnt = w + 1 /\ writer.pos = NumEntries[w]
  <2>1. /\ w = DstFreed /\ w \in Files /\ WriterSlot = QueueNum(w) /\ w \in Window
        BY <1>1, WriterFirst
  <2>2. write_cnt = w + 1 /\ writer.pos = NumEntries[w]
        BY <1>1 DEF DstRingClaims
  <2> QED
        BY <2>1, <2>2, DstTypes, DataAssumption
<1>4. /\ DstFreed' = w + 1 /\ DstAllocated' = DstAllocated
      /\ ReceiverSlot' = ReceiverSlot
      /\ \A f : Received(f)' = Received(f)
      /\ Taken(w) = NumEntries[w]
      /\ \A f : Taken(f)' = 0
      /\ \A f : f # w => Taken(f) = 0
      BY <1>1, <1>3 DEF DstFreed, DstAllocated, ReceiverSlot, Received, Taken
\* The file that enters the window has the slot just freed, those that stay
\* have others.
<1>5. ASSUME NEW f \in Moved, QueueNum(f) # WriterSlot
      PROVE  f \in Window /\ f # w
  <2>1. QueueNum(w + NumQueues) = QueueNum(w)
        BY <1>3, ModShift DEF QueueNum
  <2>2. f # w + NumQueues
        BY <1>3, <1>5, <2>1
  <2> QED
        BY <1>3, <2>2
<1>6. \A f \in Window : f # w => QueueNum(f) # WriterSlot
      BY <1>3, RingNumbers
<1>7. DstFreed' .. DstFreed' + NumQueues - 1 = Moved
      BY <1>3, <1>4
<1>8. DstQueues'
  <2> SUFFICES ASSUME NEW f \in Moved, QueueNum(f) \in InUse'
               PROVE  PairsThenGarbage(dst_kv_pairs[QueueNum(f)], f, Taken(f))'
      BY <1>7 DEF DstQueues
  <2>1. QueueNum(f) \in InUse /\ QueueNum(f) # WriterSlot
        BY <1>2
  <2>2. f \in Window /\ f # w
        BY <1>5, <2>1
  <2>3. PairsThenGarbage(dst_kv_pairs[QueueNum(f)], f, Taken(f))
        BY <2>1, <2>2 DEF DstRing, DstQueues
  <2>4. dst_kv_pairs'[QueueNum(f)] = dst_kv_pairs[QueueNum(f)] /\ Taken(f)' = Taken(f)
        BY <1>2, <1>4, <2>1, <2>2, RingNumbers
  <2> QED
        BY <1>1, <2>3, <2>4 DEF PairsThenGarbage
<1>9. ASSUME receiver.eof, Expecting
      PROVE  PairMissing'
  <2>1. PairMissing
        BY <1>9 DEF DstRing, LastMissing
  <2>2. ReceiverSlot # WriterSlot
    <3>1. ~(Taken(w) < NumEntries[w])
          BY <1>3, <1>4
    <3> QED
          BY <1>3, <2>1, <3>1 DEF PairMissing
  <2> SUFFICES ASSUME NEW f \in Files \cap Moved, QueueNum(f) = ReceiverSlot
               PROVE  /\ Taken(f)' < NumEntries[f]
                      /\ \A k \in 1 .. Len(dst_kv_pairs'[ReceiverSlot]) :
                           LET kv_pair == dst_kv_pairs'[ReceiverSlot][k]
                           IN kv_pair # Garbage => kv_pair[2] < NumEntries[f]
      BY <1>2, <1>4, <1>7, <2>1, <2>2 DEF PairMissing
  <2>3. f \in Window /\ f # w
        BY <1>5, <2>2
  <2>4. /\ Taken(f) < NumEntries[f]
        /\ \A k \in 1 .. Len(dst_kv_pairs[ReceiverSlot]) :
             LET kv_pair == dst_kv_pairs[ReceiverSlot][k]
             IN kv_pair # Garbage => kv_pair[2] < NumEntries[f]
        BY <2>1, <2>3 DEF PairMissing
  <2>5. dst_kv_pairs'[ReceiverSlot] = dst_kv_pairs[ReceiverSlot] /\ Taken(f)' = Taken(f)
        BY <1>2, <1>4, <2>2, <2>3, DstTypes
  <2> QED
        BY <2>4, <2>5
<1>10. ASSUME ~receiver.eof
       PROVE  DstWindow'
  <2>1. DstWindow /\ RecvClaims
        BY <1>10 DEF DstRing, Streams
  <2>2. DstAllocated \in Int /\ receiver.pos \in Nat /\ receiver.file_num \in Nat
        BY DstTypes
  <2>3. PICK g \in DstFreed .. DstAllocated - 1 : QueueNum(g) = WriterSlot
        BY <1>2, <2>1 DEF DstWindow
  <2>4. w < DstAllocated /\ DstAllocated <= w + NumQueues
        BY <1>3, <2>1, <2>2, <2>3 DEF DstWindow
  <2>5. DstFreed' <= DstAllocated' /\ DstAllocated' <= DstFreed' + NumQueues
        BY <1>3, <1>4, <2>2, <2>4
  <2>6. ASSUME NEW q \in InUse'
        PROVE  \E f \in w + 1 .. DstAllocated - 1 : QueueNum(f) = q
    <3>1. q \in InUse /\ q # WriterSlot
          BY <1>2
    <3>2. PICK f \in DstFreed .. DstAllocated - 1 : QueueNum(f) = q
          BY <2>1, <3>1 DEF DstWindow
    <3>3. f # w
          BY <1>3, <3>1, <3>2
    <3>4. f \in w + 1 .. DstAllocated - 1
          BY <1>3, <2>2, <3>3
    <3> QED
          BY <3>2, <3>4
  <2>7. ASSUME NEW f \in w + 1 .. DstAllocated - 1
        PROVE  /\ QueueNum(f) \in InUse'
               /\ Len(dst_kv_pairs'[QueueNum(f)]) = Received(f)' - Taken(f)'
    <3>1. f \in DstFreed .. DstAllocated - 1 /\ f \in Window /\ f # w
          BY <1>3, <2>2, <2>4
    <3>2. /\ QueueNum(f) \in InUse
          /\ Len(dst_kv_pairs[QueueNum(f)]) = Received(f) - Taken(f)
          BY <2>1, <3>1 DEF DstWindow
    <3>3. QueueNum(f) # WriterSlot
          BY <1>6, <3>1
    <3> QED
          BY <1>2, <1>4, <3>1, <3>2, <3>3, DstQueueType
  <2>8. receiver.pc \in {"size", "data"} /\ receiver.file_num < w + 1 =>
          receiver.pos = NumEntries[receiver.file_num]
    <3>1. CASE receiver.file_num < w
          BY <1>3, <2>1, <3>1 DEF DstWindow
    <3>2. CASE receiver.file_num = w /\ receiver.pc \in {"size", "data"}
      <4>1. w \in DstFreed .. DstAllocated - 1
            BY <1>3, <2>2, <2>4
      <4>2. Received(w) = receiver.pos
            BY <3>2 DEF Received
      <4>3. Len(dst_kv_pairs[WriterSlot]) = receiver.pos - NumEntries[w]
            BY <1>3, <1>4, <2>1, <4>1, <4>2 DEF DstWindow
      <4>4. Len(dst_kv_pairs[WriterSlot]) \in Nat
        <5>1. dst_kv_pairs[WriterSlot] \in Seq(Pair \cup {Garbage})
              BY <1>2, DstQueueType
        <5> QED
              BY <5>1
      <4>5. receiver.pos <= NumEntries[w]
            BY <1>3, <2>1, <2>2, <3>2 DEF RecvClaims
      <4> QED
            BY <1>3, <2>2, <3>2, <4>3, <4>4, <4>5
    <3> QED
          BY <1>3, <2>2, <3>1, <3>2
  <2>9. DstFreed' .. DstAllocated' - 1 = w + 1 .. DstAllocated - 1
        BY <1>4
  <2> QED
        BY <1>1, <1>4, <2>5, <2>6, <2>7, <2>8, <2>9 DEF DstWindow
<1> QED
  BY <1>1, <1>8, <1>9, <1>10 DEF DstRing, LastMissing, Expecting

-------------------------------------------------------------------------------
(* The ring: the theorems *)

LEMMA DstRingInit == Init => DstRing
<1> SUFFICES ASSUME Init
             PROVE  DstRing
    OBVIOUS
<1>1. DstAllocated = 0 /\ DstFreed = 0 /\ InUse = {}
      BY DEF Init, DstInit, DstAllocated, DstFreed, InUse
<1>2. DstWindow
      BY <1>1, SizesAssumption DEF Init, DstInit, DstWindow
<1>3. DstQueues
      BY <1>1 DEF DstQueues
<1>4. LastMissing
      BY DEF Init, DstInit, LastMissing
<1> QED
  BY <1>2, <1>3, <1>4 DEF DstRing

LEMMA DstRingStep ==
  ASSUME NoLonePair
  PROVE  TypeOK /\ Streams /\ DstRingClaims /\ DstRing /\ [Next]_vars => DstRing'
<1> SUFFICES ASSUME TypeOK, Streams, DstRingClaims, DstRing, [Next]_vars
             PROVE  DstRing'
    OBVIOUS
<1>1. CASE RecvAllocate
      BY <1>1, RecvAllocateRing
<1>2. CASE RecvEnqueue
      BY <1>2, RecvEnqueueRing
<1>3. CASE WritePair
      BY <1>3, WritePairRing
<1>4. CASE WriteFree
      BY <1>4, WriteFreeRing
<1>5. CASE ~RecvAllocate /\ ~RecvEnqueue /\ ~WritePair /\ ~WriteFree
      BY <1>5, RingQuietStep
<1> QED
  BY <1>1, <1>2, <1>3, <1>4, <1>5

\* RecvKVPairs and WriteKVPairs agree on which files own a slot and on what is
\* in their queues (dst sst.cc:31-38, 88-122), also when the source exits.
THEOREM DstRingCorrect ==
  ASSUME NoLonePair
  PROVE  Spec => []DstRing
<1>1. TypeOK /\ Streams /\ DstRingClaims /\ DstRing /\ [Next]_vars => DstRing'
      BY DstRingStep
<1> QED
  BY <1>1, DstRingInit, DstCounted, TypeCorrect, StreamsCorrect, PTL DEF Spec

\* The queue that WriteKVPairs finds by file_num % num_queues is that of its
\* file, and the slot that RecvKVPairs dereferences is not null.
THEOREM DstSlotsCorrect ==
  ASSUME NoLonePair
  PROVE  Spec => []DstSlotsBelong
<1>1. TypeOK /\ Streams /\ DstRingClaims /\ DstRing => DstSlotsBelong
  <2> SUFFICES ASSUME TypeOK, Streams, DstRingClaims, DstRing
               PROVE  DstSlotsBelong
      OBVIOUS
  <2>1. ASSUME writer.pc = "pair"
        PROVE  /\ dst_kv_pairs[WriterSlot] # Null
               /\ ~receiver.eof => InOrder(dst_kv_pairs[WriterSlot], writer.file_num, writer.pos)
    <3>1. dst_kv_pairs[WriterSlot] # Null /\ WriterSlot \in InUse
          BY <2>1, DstTypes DEF DstRingClaims, InUse
    <3>2. /\ writer.file_num \in DstFreed .. DstFreed + NumQueues - 1
          /\ WriterSlot = QueueNum(writer.file_num)
          BY <2>1, WriterFirst DEF WriterSlot
    <3>3. PairsThenGarbage(dst_kv_pairs[WriterSlot], writer.file_num, writer.pos)
      <4>1. Taken(writer.file_num) = writer.pos
            BY <2>1 DEF Taken
      <4> QED
            BY <3>1, <3>2, <4>1 DEF DstRing, DstQueues
    <3> QED
          BY <3>1, <3>3 DEF PairsThenGarbage, InOrder
  <2>2. ASSUME receiver.pc = "data"
        PROVE  dst_kv_pairs[ReceiverSlot] # Null
    <3>1. PairMissing
      <4>1. Expecting
            BY <2>2 DEF Expecting
      <4>2. CASE receiver.eof
            BY <4>1, <4>2 DEF DstRing, LastMissing
      <4>3. CASE ~receiver.eof
            BY <4>1, <4>3, EndLeavesGap DEF Streams
      <4> QED
            BY <4>2, <4>3
    <3> QED
          BY <3>1 DEF PairMissing, InUse
  <2> QED
        BY <2>1, <2>2 DEF DstSlotsBelong
<1> QED
  BY <1>1, DstRingCorrect, DstCounted, TypeCorrect, StreamsCorrect, PTL

-------------------------------------------------------------------------------
(* The order of writing and ingesting *)

orderVars == <<writeVars, ingestVars, mig_ended>>

\* The steps that change what WriteOrder is about.
OrderStep ==
  \/ WriteClaim \/ WriteWait \/ WritePair \/ WriteFinish \/ WriteFree \/ WriteMark \/ WriteDone
  \/ WriteOpenFails
  \/ IngestClaim \/ IngestFile \/ IngestDone
  \/ TransferEnd

\* Every other step leaves the files, the database and the two threads alone.
LEMMA OtherSteps == [Next]_vars => OrderStep \/ UNCHANGED orderVars
<1> SUFFICES ASSUME [Next]_vars, ~OrderStep
             PROVE  UNCHANGED orderVars
    OBVIOUS
<1>1. CASE UNCHANGED vars \/ UNCHANGED dstVars
      BY <1>1 DEF vars, dstVars, orderVars, writeVars, ingestVars
<1>2. CASE RecvKVPairs
      BY <1>2 DEF RecvKVPairs, RecvClaim, RecvFileNum, RecvFileNumEof, RecvAllocate, RecvSize,
                  RecvSizeEof, RecvChunk, RecvChunkEof, RecvEnqueue, RecvNext, RecvDone, orderVars
<1>3. CASE RecvReset \/ WriteFails \/ IngestFails \/ DstWorkloadDies
      BY <1>3 DEF RecvReset, WriteFails, IngestFails, DstWorkloadDies, dstVars, orderVars,
                  writeVars, ingestVars
<1> QED
  BY <1>1, <1>2, <1>3 DEF Next, DstNext, OrderStep, WriteKVPairs, IngestSstFiles

\* The initial state.
LEMMA OrderInit == Init => WriteOrder
<1> SUFFICES ASSUME Init
             PROVE  WriteOrder
    OBVIOUS
<1>1. DstClaims /\ EndedLast
      BY DEF Init, DstInit, DstClaims, EndedLast
<1>2. FinishedPrefix
      BY FilesType DEF Init, DstInit, FinishedPrefix, Written
<1>3. IngestedPrefix
      BY DEF Init, DstInit, IngestedPrefix, Ingested, Written
<1> QED
  BY <1>1, <1>2, <1>3 DEF WriteOrder

\* Each step of WriteKVPairs, IngestSstFiles and TransferSstFiles preserves the
\* order, and no other step disturbs it.
LEMMA OrderStepPreserves == TypeOK /\ WriteOrder /\ [Next]_vars => WriteOrder'
<1> SUFFICES ASSUME TypeOK, WriteOrder, OrderStep
             PROVE  WriteOrder'
  <2>1. CASE UNCHANGED orderVars
        BY <2>1 DEF WriteOrder, DstClaims, FinishedPrefix, IngestedPrefix, EndedLast,
                    Written, Ingested, orderVars, writeVars, ingestVars
  <2> QED
        BY <2>1, OtherSteps
<1>a. /\ write_cnt \in Nat /\ ingest_cnt \in Nat /\ NumFiles \in Nat
      /\ Written \in Int /\ Ingested \in Int
      /\ Files \subseteq Nat
      BY SizesAssumption, FilesType DEF TypeOK, DstTypeOK, Written, Ingested
<1> USE DEF WriteOrder, DstClaims, FinishedPrefix, IngestedPrefix, EndedLast, Written, Ingested,
            writeVars, ingestVars, WriterAt, IngesterAt
<1>1. CASE WriteClaim \/ WriteOpenFails
  <2>1. /\ writer.pc = "claim" /\ writer'.pc = "wait"
        /\ writer'.file_num = write_cnt /\ write_cnt' = write_cnt + 1
        /\ UNCHANGED <<ingestVars, mig_ended, write_finished>>
        BY <1>1 DEF WriteClaim, WriteOpenFails, TypeOK, DstTypeOK
  <2>2. Written' = Written /\ Ingested' = Ingested
        BY <2>1, <1>a
  <2>3. DstClaims' /\ EndedLast'
        BY <2>1, <1>a
  <2>4. FinishedPrefix' /\ IngestedPrefix'
        BY <2>1, <2>2
  <2> QED
        BY <2>3, <2>4
<1>2. CASE WriteWait
      BY <1>2, <1>a DEF WriteWait, TypeOK, DstTypeOK
<1>3. CASE WritePair
      BY <1>3, <1>a DEF WritePair, TypeOK, DstTypeOK
<1>4. CASE WriteFinish
      BY <1>4, <1>a DEF WriteFinish, TypeOK, DstTypeOK
<1>5. CASE WriteFree
      BY <1>5, <1>a DEF WriteFree, TypeOK, DstTypeOK
<1>6. CASE WriteMark
  <2>1. /\ writer.pc = "mark" /\ writer'.pc = "claim" /\ write_cnt' = write_cnt
        /\ UNCHANGED <<ingestVars, mig_ended>>
        /\ writer.file_num \in Files
        /\ \A f \in Files : write_finished'[f] <=> (f = writer.file_num \/ write_finished[f])
        BY <1>6 DEF WriteMark, TypeOK, DstTypeOK
  <2>a. writer.file_num \in Nat /\ write_cnt = writer.file_num + 1
        BY <2>1, <1>a
  <2>2. writer.file_num = Written /\ Written' = Written + 1 /\ Ingested' = Ingested
        BY <2>1, <2>a, <1>a
  <2>3. DstClaims' /\ EndedLast'
        BY <2>1
  <2>4. FinishedPrefix'
    <3> SUFFICES ASSUME NEW f \in Files
                 PROVE  write_finished'[f] <=> f < Written'
        OBVIOUS
    <3>1. f \in Nat /\ (f < Written + 1 <=> f = Written \/ f < Written)
          BY <1>a
    <3>2. write_finished[f] <=> f < Written
          OBVIOUS
    <3> HIDE DEF Written
    <3> QED
          BY <2>1, <2>2, <3>1, <3>2
  <2>5. IngestedPrefix'
        BY <2>1, <2>2, <1>a
  <2> QED
        BY <2>3, <2>4, <2>5
<1>7. CASE WriteDone
      BY <1>7, <1>a DEF WriteDone, TypeOK, DstTypeOK
<1>8. CASE IngestClaim
      BY <1>8, <1>a DEF IngestClaim, TypeOK, DstTypeOK
<1>9. CASE IngestFile
  <2>1. /\ ingester.pc = "wait" /\ ingester'.pc = "claim" /\ ingester.file_num \in Files
        /\ write_finished[ingester.file_num]
        /\ ingested' = Append(ingested, ingester.file_num)
        /\ UNCHANGED <<ingest_cnt, writeVars, mig_ended>>
        BY <1>9 DEF IngestFile, TypeOK, DstTypeOK
  <2>2. /\ ingester.file_num = Ingested /\ Ingested' = Ingested + 1 /\ Written' = Written
    <3>1. ingest_cnt = ingester.file_num + 1 /\ ingester.file_num \in Nat
          BY <2>1, <1>a
    <3>2. Ingested = ingest_cnt - 1 /\ Ingested' = ingest_cnt /\ Written' = Written
          BY <2>1
    <3> HIDE DEF WriteOrder, Ingested, Written
    <3> QED
          BY <3>1, <3>2, <1>a
  <2>3. DstClaims' /\ FinishedPrefix' /\ EndedLast'
        BY <2>1
  <2>4. Ingested < Written
        BY <2>1, <2>2
  <2>5. /\ ingested \in Seq(Files) /\ Len(ingested) = Ingested
        /\ Len(ingested') = Ingested + 1
        /\ ingested'[Ingested + 1] = Ingested
        /\ \A k \in 1 .. Len(ingested) : ingested'[k] = ingested[k]
    <3>1. ingested \in Seq(Files) /\ Len(ingested) = Ingested
          BY DEF TypeOK, DstTypeOK
    <3> HIDE DEF Ingested
    <3> QED
          BY <2>1, <2>2, <3>1
  <2>6. \A k \in 1 .. Len(ingested') : ingested'[k] = k - 1
    <3> SUFFICES ASSUME NEW k \in 1 .. Ingested + 1
                 PROVE  ingested'[k] = k - 1
        BY <2>5
    <3>1. CASE k = Ingested + 1
      <4> HIDE DEF Ingested
      <4> QED
          BY <3>1, <2>5, <1>a
    <3>2. CASE k # Ingested + 1
      <4>1. k \in 1 .. Len(ingested)
        <5> HIDE DEF Ingested
        <5> QED
            BY <3>2, <2>5, <1>a
      <4> QED
            BY <4>1, <2>5
    <3> QED
          BY <3>1, <3>2
  <2>7. IngestedPrefix'
    <3> HIDE DEF Written, Ingested
    <3> QED
        BY <2>2, <2>4, <2>5, <2>6, <1>a
  <2> QED
        BY <2>3, <2>7
<1>10. CASE IngestDone
      BY <1>10, <1>a DEF IngestDone, TypeOK, DstTypeOK
<1>11. CASE TransferEnd
      BY <1>11, <1>a DEF TransferEnd, TypeOK, DstTypeOK
<1> QED
  BY <1>1, <1>2, <1>3, <1>4, <1>5, <1>6, <1>7, <1>8, <1>9, <1>10, <1>11 DEF OrderStep

\* WriteKVPairs finishes the files, and IngestSstFiles ingests the finished ones,
\* in the order of their numbers, each of them once.
THEOREM WriteOrderCorrect == Spec => []WriteOrder
<1>1. Init => TypeOK /\ WriteOrder
      BY TypeInit, OrderInit
<1>2. TypeOK /\ WriteOrder /\ [Next]_vars => (TypeOK /\ WriteOrder)'
      BY TypeStep, OrderStepPreserves
<1> QED
  BY <1>1, <1>2, PTL DEF Spec

\* One step leaves every finished SSTable as it is, and finished.
LEMMA SealedStep ==
  TypeOK /\ WriteOrder /\ [Next]_vars =>
    \A f \in Files : write_finished[f] => write_finished'[f] /\ sst_files'[f] = sst_files[f]
<1> SUFFICES ASSUME TypeOK, WriteOrder, [Next]_vars, NEW f \in Files, write_finished[f]
             PROVE  write_finished'[f] /\ sst_files'[f] = sst_files[f]
    OBVIOUS
<1>1. CASE WritePair
  <2>1. f # writer.file_num
        BY <1>1, FilesType DEF WritePair, WriterAt, WriteOrder, DstClaims, FinishedPrefix, Written,
                               TypeOK, DstTypeOK
  <2> QED
        BY <1>1, <2>1 DEF WritePair, TypeOK, DstTypeOK
<1>2. CASE WriteMark
      BY <1>2 DEF WriteMark, TypeOK, DstTypeOK
<1>3. CASE UNCHANGED <<sst_files, write_finished>>
      BY <1>3
<1> QED
  BY <1>1, <1>2, <1>3, OtherSteps
  DEF OrderStep, orderVars, writeVars, WriteClaim, WriteWait, WriteFinish, WriteFree, WriteDone,
      WriteOpenFails, IngestClaim, IngestFile, IngestDone, TransferEnd

\* A finished SSTable, which RocksDB may already have linked into the database,
\* is never written again (dst sst.cc:94-125, 144-155).
THEOREM FinishedFilesStaySealed == Spec => FinishedFilesSealed
<1>1. TypeOK /\ WriteOrder /\ [Next]_vars =>
        [\A f \in Files : write_finished[f] => write_finished'[f] /\ sst_files'[f] = sst_files[f]]_vars
      BY SealedStep
<1> QED
  BY <1>1, TypeCorrect, WriteOrderCorrect, PTL DEF Spec, FinishedFilesSealed

\* mig_ended is set when no file is left, on the way or in a queue, whatever
\* fails and whatever is received (dst sst.cc:129-155, 176-184).
THEOREM EndedMeansAllCorrect == Spec => []EndedMeansAll
<1>1. TypeOK /\ SrcRing /\ Streams /\ WriteOrder /\ DstRingClaims /\ SlotsCounted => EndedMeansAll
  <2> SUFFICES ASSUME TypeOK, SrcRing, Streams, WriteOrder, DstRingClaims, SlotsCounted, mig_ended
               PROVE  /\ Len(ingested) = NumFiles
                      /\ headers = <<>> /\ payload = <<>>
                      /\ \A q \in 0 .. NumQueues - 1 : dst_kv_pairs[q] = Null
      BY DEF EndedMeansAll
  <2>1. /\ receiver.pc = "done" /\ recv_cnt = NumFiles
        /\ writer.pc = "done" /\ write_cnt = NumFiles
        /\ ingester.pc = "done" /\ ingest_cnt = NumFiles
        BY DEF DstRingClaims, WriteOrder, DstClaims, EndedLast
  <2>2. Len(ingested) = NumFiles
        BY <2>1 DEF WriteOrder, IngestedPrefix, Ingested
  <2>3. InUse = {}
    <3>1. DstAllocated = NumFiles /\ DstFreed = NumFiles
          BY <2>1 DEF DstAllocated, DstFreed
    <3>2. Cardinality(InUse) = 0
          BY <3>1, SizesAssumption DEF SlotsCounted
    <3> QED
          BY <3>2, InUseFinite, FS_EmptySet
  <2>4. headers = <<>> /\ payload = <<>>
    <3>1. CASE receiver.eof
          BY <3>1 DEF Streams, StreamClosed
    <3>2. CASE ~receiver.eof
      <4>1. Between /\ RecvPlace = <<NumFiles, 0>>
            BY <2>1, <3>2 DEF Streams, RecvPlace
      <4>2. NumFiles \notin Files
            BY SizesAssumption DEF Files
      <4>3. headers = <<>>
            BY <4>1, <4>2, HeadersRecv, SendPlaceType DEF Between, TypeOK, SocketTypeOK
      <4> QED
            BY <2>1, <4>1, <4>3, NoBytesLeft
    <3> QED
          BY <3>1, <3>2
  <2> QED
        BY <2>2, <2>3, <2>4 DEF InUse
<1> QED
  BY <1>1, DstCounted, TypeCorrect, SrcRingCorrect, StreamsCorrect, WriteOrderCorrect, PTL

-------------------------------------------------------------------------------
(* How far the two ends are apart *)

\* Of the steps of the source only RecvFlag has a file number acknowledged.
LEMMA SentAckedStep ==
  ASSUME TypeOK, SrcNext, dst_up
  PROVE  \/ SentAcked' = SentAcked /\ flags' = flags
         \/ SentAcked' = SentAcked + 1 /\ flags' = flags - 1
<1>a. sender \in SenderType /\ send_cnt \in Nat
      BY CounterTypes DEF TypeOK, SrcTypeOK, SenderType
<1> USE <1>a DEF SenderAt, SenderType, SentAcked
<1>1. CASE SendClaim
      BY <1>1 DEF SendClaim, sockVars
<1>2. CASE SendFileNum
      BY <1>2 DEF SendFileNum
<1>3. CASE SendRecvFlag
      BY <1>3 DEF SendRecvFlag
<1>4. CASE SendRecvFlagEof
      BY <1>4 DEF SendRecvFlagEof
<1>5. CASE SendWait \/ SendDone
      BY <1>5 DEF SendWait, SendDone, sockVars
<1>6. CASE SendDequeue
      BY <1>6 DEF SendDequeue, sockVars
<1>7. CASE SendSize \/ SendPayload
      BY <1>7 DEF SendSize, SendPayload
<1>8. CASE SendFree
      BY <1>8 DEF SendFree, sockVars
<1>9. CASE SendBroken \/ SrcWorkloadDies \/ ReadOpenFails
      BY <1>9 DEF SendBroken, SrcWorkloadDies, ReadOpenFails, srcVars
<1>10. CASE ReadKVPairs
       BY <1>10 DEF ReadKVPairs, ReadClaim, ReadAllocate, ReadEnqueue, ReadNext, ReadDone, sockVars
<1> QED
  BY <1>1, <1>2, <1>3, <1>4, <1>5, <1>6, <1>7, <1>8, <1>9, <1>10 DEF SrcNext, SendKVPairs

\* Of the steps of the destination only RecvFileNum sends a flag.
LEMMA RecvSeenStep ==
  ASSUME TypeOK, DstNext
  PROVE  \/ RecvSeen' = RecvSeen /\ flags' = flags
         \/ RecvSeen' = RecvSeen + 1 /\ flags' \in {flags, flags + 1}
<1>a. receiver \in ReceiverType /\ recv_cnt \in Nat
      BY SizesAssumption DEF TypeOK, DstTypeOK, ReceiverType
<1>1. CASE RecvKVPairs
  <2> USE <1>a DEF ReceiverAt, ReceiverType, RecvSeen
  <2>1. CASE RecvClaim
        BY <2>1 DEF RecvClaim, sockVars
  <2>2. CASE RecvFileNum
        BY <2>2 DEF RecvFileNum
  <2>3. CASE RecvFileNumEof
        BY <2>3 DEF RecvFileNumEof, sockVars
  <2>4. CASE RecvAllocate \/ RecvEnqueue \/ RecvNext \/ RecvDone
        BY <2>4 DEF RecvAllocate, RecvEnqueue, RecvNext, RecvDone, sockVars
  <2>5. CASE RecvSize \/ RecvSizeEof
        BY <2>5 DEF RecvSize, RecvSizeEof, sockVars
  <2>6. CASE RecvChunk \/ RecvChunkEof
        BY <2>6 DEF RecvChunk, RecvChunkEof, sockVars
  <2> QED
        BY <1>1, <2>1, <2>2, <2>3, <2>4, <2>5, <2>6 DEF RecvKVPairs
<1>2. CASE ~RecvKVPairs
  <2>1. UNCHANGED <<recv_cnt, receiver, flags>>
    <3>1. CASE WriteKVPairs \/ WriteOpenFails
          BY <3>1 DEF WriteKVPairs, WriteClaim, WriteWait, WritePair, WriteFinish, WriteFree, WriteMark,
                      WriteDone, WriteOpenFails, recvVars, sockVars
    <3>2. CASE IngestSstFiles \/ TransferEnd
          BY <3>2 DEF IngestSstFiles, IngestClaim, IngestFile, IngestDone, TransferEnd, recvVars, sockVars
    <3>3. CASE RecvReset \/ WriteFails \/ IngestFails \/ DstWorkloadDies
          BY <3>3 DEF RecvReset, WriteFails, IngestFails, DstWorkloadDies, dstVars
    <3> QED
          BY <1>2, <3>1, <3>2, <3>3 DEF DstNext
  <2> QED
        BY <2>1 DEF RecvSeen
<1> QED
  BY <1>1, <1>2

LEMMA AcknowledgedStep == TypeOK /\ Acknowledged /\ [Next]_vars => Acknowledged'
<1> SUFFICES ASSUME TypeOK, Acknowledged, [Next]_vars, dst_up'
             PROVE  (SentAcked + flags <= RecvSeen)'
    BY DEF Acknowledged
<1>1. flags \in Nat /\ SentAcked \in Int /\ RecvSeen \in Int
      BY CounterTypes, SizesAssumption DEF TypeOK, SocketTypeOK, SrcTypeOK, DstTypeOK, SentAcked, RecvSeen
<1>2. CASE SrcNext /\ UNCHANGED dstVars
  <2>1. dst_up
        BY <1>2 DEF SrcNext, ReadKVPairs, ReadClaim, ReadAllocate, ReadEnqueue, ReadNext, ReadDone,
                    ReadOpenFails, SendKVPairs, SendClaim, SendFileNum, SendRecvFlag, SendRecvFlagEof,
                    SendWait, SendDequeue, SendSize, SendPayload, SendFree, SendDone, SendBroken,
                    SrcWorkloadDies, sockVars
  <2>2. RecvSeen' = RecvSeen
        BY <1>2 DEF RecvSeen, dstVars
  <2> QED
        BY <1>1, <1>2, <2>1, <2>2, SentAckedStep DEF Acknowledged
<1>3. CASE DstNext /\ UNCHANGED srcVars
  <2>1. dst_up
        BY <1>3 DEF DstNext, RecvKVPairs, RecvClaim, RecvFileNum, RecvFileNumEof, RecvAllocate, RecvSize,
                    RecvSizeEof, RecvChunk, RecvChunkEof, RecvEnqueue, RecvNext, RecvDone, ReceiverAt,
                    RecvReset, WriteKVPairs, WriteClaim, WriteWait, WritePair, WriteFinish, WriteFree,
                    WriteMark, WriteDone, WriteOpenFails, WriteFails, WriterAt, IngestSstFiles,
                    IngestClaim, IngestFile, IngestDone, IngestFails, IngesterAt, TransferEnd,
                    DstWorkloadDies
  <2>2. SentAcked' = SentAcked
        BY <1>3 DEF SentAcked, srcVars
  <2> QED
        BY <1>1, <1>3, <2>1, <2>2, RecvSeenStep DEF Acknowledged
<1>4. CASE UNCHANGED vars
      BY <1>4 DEF vars, sockVars, srcVars, dstVars, Acknowledged, SentAcked, RecvSeen
<1> QED
  BY <1>2, <1>3, <1>4 DEF Next

\* No flag is read that was not sent for a file number received.
LEMMA AcknowledgedCorrect == Spec => []Acknowledged
<1>1. Init => Acknowledged
      BY DEF Init, SocketInit, SrcInit, DstInit, Acknowledged, SentAcked, RecvSeen
<1> QED
  BY <1>1, AcknowledgedStep, TypeCorrect, PTL DEF Spec

\* ReadKVPairs is at most 2 * num_queues + 1 files ahead of WriteKVPairs: its own
\* ring holds num_queues files, the destination's as many, and one file may be
\* acknowledged for which the destination has no slot yet.
THEOREM BackpressureCorrect == Spec => []Backpressure
<1>1. TypeOK /\ SrcRing /\ DstRingClaims /\ SlotsCounted /\ Acknowledged => Backpressure
  <2> SUFFICES ASSUME TypeOK, SrcRing, DstRingClaims, SlotsCounted, Acknowledged,
                      dst_up, reader.pc = "enqueue"
               PROVE  reader.file_num <= DstFreed + 2 * NumQueues
      BY DEF Backpressure
  <2>1. /\ NumQueues \in Nat /\ read_cnt \in Nat /\ send_cnt \in Nat /\ recv_cnt \in Nat
        /\ reader.file_num \in Nat /\ DstFreed \in Nat /\ flags \in Nat
        BY CounterTypes, DstTypes DEF TypeOK, SocketTypeOK
  <2>2. reader.file_num + 1 <= Freed + NumQueues
        BY <2>1 DEF SrcRing, SrcClaims, SrcWindow, Allocated
  <2>3. Freed <= SentAcked
        BY <2>1 DEF Freed, SentAcked
  <2>4. SentAcked <= RecvSeen
        BY <2>1 DEF Acknowledged, SentAcked, RecvSeen
  <2>5. RecvSeen <= DstAllocated + 1
        BY <2>1 DEF RecvSeen, DstAllocated
  <2>6. DstAllocated <= DstFreed + NumQueues
    <3>1. IsFiniteSet(0 .. NumQueues - 1) /\ Cardinality(0 .. NumQueues - 1) = NumQueues
      <4>1. NumQueues - 1 \in Int /\ 0 \in Int /\ ~(0 > NumQueues - 1) /\ NumQueues - 1 - 0 + 1 = NumQueues
            BY SizesAssumption
      <4> QED
            BY <4>1, FS_Interval
    <3>2. Cardinality(InUse) <= NumQueues
          BY <3>1, FS_Subset DEF InUse
    <3> QED
          BY <2>1, <3>2, DstTypes DEF SlotsCounted
  <2> QED
        BY <2>1, <2>2, <2>3, <2>4, <2>5, <2>6, DstTypes, CounterTypes DEF SentAcked, RecvSeen
<1> QED
  BY <1>1, AcknowledgedCorrect, DstCounted, TypeCorrect, SrcRingCorrect, PTL

-------------------------------------------------------------------------------
(* The contents of the SSTables *)

LEMMA SstFilesInit == Init => SstFiles
BY DEF Init, DstInit, SstFiles, AtHand

\* The types SstFiles rests on.
LEMMA SstFilesTypes ==
  ASSUME TypeOK, DstRingClaims
  PROVE  /\ sst_files \in [Files -> Seq(Pair \cup {Garbage})]
         /\ write_finished \in [Files -> BOOLEAN]
         /\ write_cnt \in 0 .. NumFiles /\ NumFiles \in Nat
         /\ writer \in WriterType /\ writer.pos \in Nat /\ writer.file_num \in Nat
         /\ writer.pc \in {"wait", "pair", "free", "mark"} => writer.file_num \in Files
         /\ \A f \in Files : f \in Nat /\ NumEntries[f] \in Nat \ {0}
BY DstTypes, SizesAssumption, DataAssumption, FilesType DEF TypeOK, DstTypeOK

\* WriteKVPairs puts the head of its queue at the end of the file at hand.
LEMMA WritePairFiles ==
  ASSUME NoLonePair, TypeOK, DstRingClaims, DstRing, SstFiles, WritePair
  PROVE  AtHand'
<1> DEFINE f == writer.file_num
           queue == dst_kv_pairs[WriterSlot]
           file == sst_files[f]
<1>1. /\ writer.pc = "pair" /\ writer'.pc = "pair" /\ writer'.file_num = f
      /\ writer'.pos = writer.pos + 1
      /\ sst_files' = [sst_files EXCEPT ![f] = Append(@, Head(queue))]
      /\ Head(queue) = Garbage => writer.pos = 0
      /\ receiver' = receiver
      BY SstFilesTypes DEF WritePair, WriterAt, WriterType, recvVars, PutAccepted
<1>2. f \in Files /\ writer.pos \in Nat /\ NumEntries[f] \in Nat
      BY <1>1, SstFilesTypes
<1>3. /\ file \in Seq(Pair \cup {Garbage}) /\ sst_files'[f] = Append(file, Head(queue))
      BY <1>1, <1>2, SstFilesTypes
<1>4. /\ queue \in Seq(Pair \cup {Garbage}) /\ queue # <<>>
      /\ dst_kv_pairs'[WriterSlot] = Tail(queue) /\ WriterSlot \in InUse
      BY TakeEffect
<1>5. PairsThenGarbage(queue, f, writer.pos)
  <2>1. /\ f \in DstFreed .. DstFreed + NumQueues - 1 /\ WriterSlot = QueueNum(f)
        BY <1>1, WriterFirst DEF WriterSlot
  <2>2. Taken(f) = writer.pos
        BY <1>1 DEF Taken
  <2> QED
        BY <1>4, <2>1, <2>2 DEF DstRing, DstQueues
<1>6. /\ Head(queue) \in Pair \cup {Garbage}
      /\ Head(queue) = Garbage =>
           receiver.eof /\ 0 \in Uninit /\ \A k \in 1 .. Len(Tail(queue)) : Tail(queue)[k] = Garbage
      /\ Head(queue) # Garbage => Head(queue) = <<f, writer.pos + 1>> /\ Head(queue) \in Pair
      BY <1>2, <1>4, <1>5, PairsThenTail
<1>7. Len(file) = writer.pos
      BY <1>1 DEF SstFiles, AtHand
<1>8. /\ Len(sst_files'[f]) = writer.pos + 1
      /\ sst_files'[f][writer.pos + 1] = Head(queue)
      /\ \A k \in 1 .. writer.pos : sst_files'[f][k] = file[k]
      BY <1>3, <1>6, <1>7
<1>9. CASE \A k \in 1 .. writer.pos : file[k] = <<f, k>> /\ <<f, k>> \in Pair
  <2>1. CASE Head(queue) # Garbage
    <3>1. ASSUME NEW k \in 1 .. writer.pos + 1
          PROVE  sst_files'[f][k] = <<f, k>> /\ <<f, k>> \in Pair
      <4>1. CASE k = writer.pos + 1
            BY <1>6, <1>8, <2>1, <4>1
      <4>2. CASE k # writer.pos + 1
        <5>1. k \in 1 .. writer.pos
              BY <1>2, <4>2
        <5> QED
              BY <1>8, <1>9, <5>1
      <4> QED
            BY <4>1, <4>2
    <3> HIDE DEF queue, file
    <3> QED
          BY <1>1, <1>8, <3>1 DEF AtHand
  <2>2. CASE Head(queue) = Garbage
    <3>1. writer.pos = 0 /\ NumEntries[f] > 1 /\ receiver.eof
          BY <1>1, <1>2, <1>6, <2>2 DEF NoLonePair
    <3>2. \A k \in 1 .. Len(dst_kv_pairs'[WriterSlot]) : dst_kv_pairs'[WriterSlot][k] = Garbage
          BY <1>4, <1>6, <2>2
    <3>3. WriterSlot' = WriterSlot
          BY <1>1 DEF WriterSlot
    <3>4. writer'.pos = 1 /\ Len(sst_files'[f]) = 1
          BY <1>1, <1>8, <3>1
    <3> HIDE DEF queue, file
    <3> QED
          BY <1>1, <3>1, <3>2, <3>3, <3>4 DEF AtHand
  <2> QED
        BY <2>1, <2>2
\* A garbage key was put first: the next, garbage again, is not accepted.
<1>10. CASE /\ writer.pos = 1
            /\ \A k \in 1 .. Len(queue) : queue[k] = Garbage
  <2>1. Head(queue) = queue[1] /\ 1 \in 1 .. Len(queue)
        BY <1>4
  <2> QED
        BY <1>1, <1>10, <2>1
<1> QED
  BY <1>1, <1>9, <1>10 DEF SstFiles, AtHand

\* RecvKVPairs adds nothing but garbage to the queue of a file that holds some.
LEMMA AtHandKept ==
  ASSUME TypeOK, Streams, DstRingClaims, SstFiles, [Next]_vars, UNCHANGED <<writer, sst_files>>
  PROVE  AtHand'
<1> DEFINE queue == dst_kv_pairs[WriterSlot]
<1> SUFFICES ASSUME writer.pc = "pair", receiver.eof, \A k \in 1 .. Len(queue) : queue[k] = Garbage
             PROVE  /\ receiver'.eof
                    /\ \A k \in 1 .. Len(dst_kv_pairs'[WriterSlot]) :
                         dst_kv_pairs'[WriterSlot][k] = Garbage
    BY DEF SstFiles, AtHand, WriterSlot
<1>1. receiver'.eof
      BY EofStays
<1>2. ~WritePair /\ ~WriteFree
      BY SstFilesTypes DEF WritePair, WriteFree, WriterAt, WriterType
<1>3. WriterSlot \in 0 .. NumQueues - 1 /\ queue # Null
      BY DstTypes DEF DstRingClaims
<1>4. CASE RecvEnqueue
  <2>1. CASE WriterSlot = ReceiverSlot
    <3>1. receiver.kv_pair = Garbage
          BY <1>4 DEF RecvEnqueue, ReceiverAt, Streams, StreamClosed
    <3>2. queue \in Seq(Pair \cup {Garbage}) /\ dst_kv_pairs'[WriterSlot] = Append(queue, Garbage)
          BY <1>4, <2>1, <3>1, EnqueueEffect
    <3>3. /\ Len(queue) \in Nat /\ Len(Append(queue, Garbage)) = Len(queue) + 1
          /\ Append(queue, Garbage)[Len(queue) + 1] = Garbage
          /\ \A k \in 1 .. Len(queue) : Append(queue, Garbage)[k] = queue[k]
          BY <3>2
    <3>4. \A k \in 1 .. Len(queue) + 1 : k = Len(queue) + 1 \/ k \in 1 .. Len(queue)
          BY <3>3
    <3> HIDE DEF queue
    <3> QED
          BY <1>1, <3>2, <3>3, <3>4
  <2>2. CASE WriterSlot # ReceiverSlot
        BY <1>1, <1>3, <1>4, <2>2, EnqueueEffect
  <2> QED
        BY <2>1, <2>2
<1>5. CASE RecvAllocate
  <2>1. WriterSlot # ReceiverSlot
        BY <1>3, <1>5 DEF RecvAllocate
  <2> QED
        BY <1>1, <1>3, <1>5, <2>1, AllocateEffect
<1>6. CASE UNCHANGED dst_kv_pairs
      BY <1>1, <1>6
<1> QED
  BY <1>2, <1>4, <1>5, <1>6, RingChanges

\* Each step of WriteKVPairs leaves the file at hand as it should be.
LEMMA AtHandStep ==
  ASSUME NoLonePair, TypeOK, Streams, DstRingClaims, DstRing, SstFiles, [Next]_vars
  PROVE  AtHand'
<1>1. CASE WritePair
      BY <1>1, WritePairFiles
<1>2. CASE WriteClaim \/ WriteOpenFails \/ WriteMark \/ WriteDone
  <2>1. writer'.pc \in {"wait", "claim", "done"}
        BY <1>2, SstFilesTypes DEF WriteClaim, WriteOpenFails, WriteMark, WriteDone, WriterType
  <2> QED
        BY <2>1 DEF AtHand
<1>3. CASE WriteWait
  <2>1. /\ writer.pc = "wait" /\ writer'.pc = "pair" /\ writer'.pos = writer.pos
        /\ writer'.file_num = writer.file_num /\ sst_files' = sst_files
        BY <1>3, SstFilesTypes DEF WriteWait, WriterAt, WriterType
  <2>2. writer.pos = 0 /\ sst_files[writer.file_num] = <<>>
        BY <2>1, SstFilesTypes DEF DstRingClaims, SstFiles
  <2>3. Len(sst_files'[writer.file_num]) = 0 /\ \A k \in 1 .. 0 : FALSE
        BY <2>1, <2>2
  <2> QED
        BY <2>1, <2>2, <2>3 DEF AtHand
<1>4. CASE WriteFinish \/ WriteFree
  <2>1. /\ writer.pc \in {"pair", "free"} /\ writer'.pc \in {"free", "mark"}
        /\ writer'.pos = writer.pos
        /\ writer'.file_num = writer.file_num /\ sst_files' = sst_files
        BY <1>4, SstFilesTypes DEF WriteFinish, WriteFree, WriterAt, WriterType
  <2>2. writer.pc = "pair" => writer.pos >= NumEntries[writer.file_num]
        BY <1>4, SstFilesTypes DEF WriteFinish, WriteFree, WriterAt, WriterType
  <2>3. ~(writer.pc = "pair" /\ writer.pos = 1 /\ NumEntries[writer.file_num] > 1)
        BY <2>1, <2>2, SstFilesTypes
  <2> QED
        BY <2>1, <2>3 DEF SstFiles, AtHand
<1>5. CASE ~WriteKVPairs /\ ~WriteOpenFails
  <2>1. UNCHANGED <<writer, sst_files>>
    <3>1. CASE RecvKVPairs
          BY <3>1, RecvFrame DEF writeVars
    <3>2. CASE \/ RecvReset \/ WriteFails \/ IngestFails \/ DstWorkloadDies
               \/ IngestSstFiles \/ TransferEnd \/ UNCHANGED vars \/ UNCHANGED dstVars
          BY <3>2, IngestFrame
          DEF RecvReset, WriteFails, IngestFails, DstWorkloadDies, vars, dstVars, writeVars
    <3> QED
          BY <1>5, <3>1, <3>2 DEF Next, DstNext
  <2> QED
        BY <2>1, AtHandKept
<1> QED
  BY <1>1, <1>2, <1>3, <1>4, <1>5 DEF WriteKVPairs

\* A file is marked finished when it holds all of the source's pairs: as many
\* as num_entries says, each in its place.
LEMMA MarkWhole ==
  ASSUME TypeOK, DstRingClaims, SstFiles, WriteMark
  PROVE  sst_files[writer.file_num] = Contents(writer.file_num)
<1> DEFINE f == writer.file_num
           file == sst_files[f]
<1>1. writer.pc = "mark" /\ f \in Files /\ writer.pos = NumEntries[f] /\ writer.pos \in Nat \ {0}
      BY SstFilesTypes DEF WriteMark, WriterAt, DstRingClaims
<1>2. /\ file \in Seq(Pair \cup {Garbage}) /\ Len(file) = NumEntries[f]
      /\ \A k \in 1 .. NumEntries[f] : file[k] = <<f, k>> /\ <<f, k>> \in Pair
      BY <1>1, SstFilesTypes DEF SstFiles, AtHand
<1>3. Len(SstData[f]) = NumEntries[f]
  <2>1. NumEntries[f] \in 1 .. NumEntries[f]
        BY <1>1
  <2>2. <<f, NumEntries[f]>> \in Pair
        BY <1>2, <2>1
  <2>3. NumEntries[f] \in 1 .. Len(SstData[f])
        BY <2>2 DEF Pair
  <2> QED
        BY <1>1, <2>3, LenType
<1>4. file = [k \in 1 .. NumEntries[f] |-> <<f, k>>]
  <2>1. file = [k \in 1 .. NumEntries[f] |-> file[k]]
        BY <1>2
  <2> QED
        BY <1>2, <2>1
<1> QED
  BY <1>3, <1>4 DEF Contents

LEMMA SstFilesStep ==
  ASSUME NoLonePair
  PROVE  TypeOK /\ Streams /\ WriteOrder /\ DstRingClaims /\ DstRing /\ SstFiles /\ [Next]_vars =>
           SstFiles'
<1> SUFFICES ASSUME TypeOK, Streams, WriteOrder, DstRingClaims, DstRing, SstFiles, [Next]_vars
             PROVE  SstFiles'
    OBVIOUS
<1>1. AtHand'
      BY AtHandStep
<1>2. ASSUME NEW f \in Files, write_finished'[f]
      PROVE  sst_files'[f] = Contents(f)
  <2>1. CASE write_finished[f]
        BY <2>1, SealedStep DEF SstFiles
  <2>2. CASE ~write_finished[f]
    <3>1. WriteMark
          BY <1>2, <2>2, OtherSteps
          DEF OrderStep, orderVars, writeVars, WriteClaim, WriteWait, WritePair, WriteFinish,
              WriteFree, WriteDone, WriteOpenFails, IngestClaim, IngestFile, IngestDone, TransferEnd
    <3>2. f = writer.file_num /\ sst_files' = sst_files
          BY <1>2, <2>2, <3>1, SstFilesTypes DEF WriteMark
    <3> QED
          BY <3>1, <3>2, MarkWhole
  <2> QED
        BY <2>1, <2>2
<1>3. ASSUME NEW f \in Files,
             f >= write_cnt' \/ (writer'.pc = "wait" /\ f = writer'.file_num)
      PROVE  sst_files'[f] = <<>>
  <2> USE SstFilesTypes DEF SstFiles, WriterType
  <2>1. CASE WriteClaim \/ WriteOpenFails
    <3>1. /\ write_cnt' = write_cnt + 1 /\ writer'.file_num = write_cnt /\ sst_files' = sst_files
          BY <2>1 DEF WriteClaim, WriteOpenFails
    <3>2. f >= write_cnt
          BY <1>3, <3>1
    <3> QED
          BY <3>1, <3>2
  <2>2. CASE WritePair
    <3>1. /\ writer.pc = "pair" /\ writer'.pc = "pair" /\ write_cnt' = write_cnt
          /\ \A g \in Files : g # writer.file_num => sst_files'[g] = sst_files[g]
          BY <2>2 DEF WritePair, WriterAt
    <3>2. write_cnt = writer.file_num + 1
          BY <3>1 DEF DstRingClaims
    <3>3. f >= write_cnt /\ f # writer.file_num
          BY <1>3, <3>1, <3>2
    <3> QED
          BY <3>1, <3>3
  <2>3. CASE WriteWait \/ WriteFinish \/ WriteFree \/ WriteMark \/ WriteDone
    <3>1. write_cnt' = write_cnt /\ sst_files' = sst_files /\ writer'.pc # "wait"
          BY <2>3 DEF WriteWait, WriteFinish, WriteFree, WriteMark, WriteDone
    <3> QED
          BY <1>3, <3>1
  <2>4. CASE UNCHANGED <<write_cnt, writer, sst_files>>
        BY <1>3, <2>4
  <2> QED
        BY <2>1, <2>2, <2>3, <2>4, OtherSteps
        DEF OrderStep, orderVars, writeVars, IngestClaim, IngestFile, IngestDone, TransferEnd
<1> QED
  BY <1>1, <1>2, <1>3 DEF SstFiles

\* The SSTable at hand holds the pairs taken so far, in order, or one string of
\* garbage, and then it is never finished; the others are whole or empty
\* (dst sst.cc:94-125).
THEOREM SstFilesCorrect ==
  ASSUME NoLonePair
  PROVE  Spec => []SstFiles
<1>1. TypeOK /\ Streams /\ WriteOrder /\ DstRingClaims /\ DstRing /\ SstFiles /\ [Next]_vars =>
        SstFiles'
      BY SstFilesStep
<1> QED
  BY <1>1, SstFilesInit, TypeCorrect, StreamsCorrect, WriteOrderCorrect, DstCounted, DstRingCorrect,
     PTL DEF Spec

\* write_finished is raised only for an SSTable that holds the whole source file
\* (dst sst.cc:117-125), even when the source exits in the middle of one.
THEOREM CompletedFilesCorrect ==
  ASSUME NoLonePair
  PROVE  Spec => []CompletedFilesWhole
<1>1. SstFiles => CompletedFilesWhole
      BY DEF SstFiles, CompletedFilesWhole
<1> QED
  BY <1>1, SstFilesCorrect, PTL

-------------------------------------------------------------------------------
(* The refinement *)

\* What the database has received.
Moved == [k \in 1 .. Len(ingested) |-> sst_files[ingested[k]]]

\* The SSTables ingested so far are finished, and the next one to be ingested
\* has the next number.
LEMMA IngestedFiles ==
  ASSUME TypeOK, WriteOrder
  PROVE  /\ Len(ingested) \in Nat /\ Len(ingested) <= NumFiles /\ NumFiles \in Nat
         /\ \A k \in 1 .. Len(ingested) :
              /\ ingested[k] = k - 1 /\ ingested[k] \in Files /\ write_finished[ingested[k]]
         /\ ingester.pc = "wait" => ingester.file_num = Len(ingested)
<1>1. /\ ingested \in Seq(Files) /\ ingest_cnt \in 0 .. NumFiles /\ write_cnt \in 0 .. NumFiles
      /\ NumFiles \in Nat
      BY SizesAssumption DEF TypeOK, DstTypeOK
<1>2. /\ Len(ingested) \in Nat
      /\ \A k \in 1 .. Len(ingested) : ingested[k] \in Files
      BY <1>1
<1>3. /\ Len(ingested) = Ingested /\ Ingested <= Written
      /\ \A k \in 1 .. Len(ingested) : ingested[k] = k - 1
      /\ \A f \in Files : write_finished[f] <=> f < Written
      BY DEF WriteOrder, IngestedPrefix, FinishedPrefix
<1>4. Ingested <= NumFiles /\ Ingested \in Int /\ Written \in Int
      BY <1>1 DEF Ingested, Written
<1>5. \A k \in 1 .. Len(ingested) : write_finished[ingested[k]]
  <2> SUFFICES ASSUME NEW k \in 1 .. Len(ingested)
               PROVE  write_finished[ingested[k]]
      OBVIOUS
  <2>1. k - 1 < Written
        BY <1>2, <1>3, <1>4
  <2> QED
        BY <1>2, <1>3, <2>1
<1>6. ingester.pc = "wait" => ingester.file_num = Len(ingested)
  <2> SUFFICES ASSUME ingester.pc = "wait"
               PROVE  ingester.file_num = Len(ingested)
      OBVIOUS
  <2>1. ingest_cnt = ingester.file_num + 1 /\ ingester.file_num \in Files
        BY DEF WriteOrder, DstClaims, TypeOK, DstTypeOK
  <2>2. ingester.file_num \in Nat
        BY <2>1, FilesType
  <2>3. Ingested = ingest_cnt - 1
        BY DEF Ingested
  <2> QED
        BY <1>3, <2>1, <2>2, <2>3
<1> QED
  BY <1>1, <1>2, <1>3, <1>4, <1>5, <1>6

\* Nothing but IngestFile changes what the database has received.
LEMMA MovedKept ==
  ASSUME TypeOK, WriteOrder, [Next]_vars, UNCHANGED ingested
  PROVE  Moved' = Moved
<1>1. \A k \in 1 .. Len(ingested) : sst_files'[ingested[k]] = sst_files[ingested[k]]
      BY IngestedFiles, SealedStep
<1> QED
  BY <1>1 DEF Moved

\* Append, as a function of the position.
LEMMA AppendAt ==
  ASSUME NEW S, NEW s \in Seq(S), NEW e \in S
  PROVE  Append(s, e) = [k \in 1 .. Len(s) + 1 |-> IF k = Len(s) + 1 THEN e ELSE s[k]]
<1> DEFINE t == Append(s, e)
<1>1. /\ t \in Seq(S) /\ Len(t) = Len(s) + 1 /\ Len(s) \in Nat
      /\ \A k \in 1 .. Len(s) + 1 : t[k] = IF k = Len(s) + 1 THEN e ELSE s[k]
      OBVIOUS
<1> HIDE DEF t
<1>2. t = [k \in 1 .. Len(s) + 1 |-> t[k]]
      BY <1>1
<1>3. t = [k \in 1 .. Len(s) + 1 |-> IF k = Len(s) + 1 THEN e ELSE s[k]]
      BY <1>1, <1>2
<1> QED
  BY <1>3 DEF t

\* IngestFile adds the contents of the next file.
LEMMA MovedNext ==
  ASSUME TypeOK, WriteOrder, SstFiles, [Next]_vars, IngestFile
  PROVE  /\ Len(Moved) = Len(ingested) /\ Len(ingested) \in Files
         /\ Moved' = Append(Moved, Contents(Len(ingested)))
<1> DEFINE n == Len(ingested)
           f == ingester.file_num
<1>1. /\ ingester.pc = "wait" /\ write_finished[f] /\ ingested' = Append(ingested, f)
      /\ sst_files' = sst_files
      BY DEF IngestFile, IngesterAt, writeVars
<1>2. f = n /\ n \in Nat /\ f \in Files /\ ingested \in Seq(Files)
      BY <1>1, IngestedFiles DEF TypeOK, DstTypeOK
<1>3. /\ Len(ingested') = n + 1 /\ ingested'[n + 1] = f
      /\ \A k \in 1 .. n : ingested'[k] = ingested[k]
      BY <1>1, <1>2
<1>4. sst_files[f] = Contents(n)
      BY <1>1, <1>2 DEF SstFiles
<1>5. Len(Moved) = n
      BY <1>2 DEF Moved
<1>6. Moved' = [k \in 1 .. n + 1 |-> IF k = n + 1 THEN Contents(n) ELSE Moved[k]]
  <2>1. Moved' = [k \in 1 .. n + 1 |-> sst_files[ingested'[k]]]
        BY <1>1, <1>3 DEF Moved
  <2>2. ASSUME NEW k \in 1 .. n + 1
        PROVE  sst_files[ingested'[k]] = IF k = n + 1 THEN Contents(n) ELSE Moved[k]
    <3>1. CASE k = n + 1
          BY <1>3, <1>4, <3>1
    <3>2. CASE k # n + 1
      <4>1. k \in 1 .. n
            BY <1>2, <3>2
      <4> QED
            BY <1>3, <3>2, <4>1 DEF Moved
    <3> QED
          BY <3>1, <3>2
  <2> QED
        BY <2>1, <2>2
<1>7. Append(Moved, Contents(n)) = [k \in 1 .. n + 1 |-> IF k = n + 1 THEN Contents(n) ELSE Moved[k]]
  <2>1. Moved \in Seq({sst_files[g] : g \in Files} \cup {Contents(n)})
    <3>1. \A k \in 1 .. n : Moved[k] \in {sst_files[g] : g \in Files}
          BY IngestedFiles DEF Moved
    <3> QED
          BY <1>2, <3>1 DEF Moved
  <2> HIDE DEF n
  <2> QED
        BY <1>5, <2>1, AppendAt
<1> QED
  BY <1>2, <1>5, <1>6, <1>7

\* A process that dies leaves the database, and what it has declared, as they
\* are.
LEMMA DeathsLeave ==
  ASSUME TypeOK, [Next]_vars, dst_up' # dst_up
  PROVE  ~dst_up' /\ UNCHANGED <<ingested, mig_ended>>
<1>a. dst_up \in BOOLEAN
      BY DEF TypeOK, SocketTypeOK
<1>1. CASE SrcNext \/ UNCHANGED vars
      BY <1>1 DEF SrcNext, ReadKVPairs, ReadOpenFails, ReadClaim, ReadAllocate, ReadEnqueue,
        ReadNext, ReadDone, SendKVPairs, SendClaim, SendFileNum, SendRecvFlag, SendRecvFlagEof,
        SendWait, SendDequeue, SendSize, SendPayload, SendFree, SendDone, SendBroken,
        SrcWorkloadDies, vars, sockVars
<1>2. CASE RecvKVPairs
      BY <1>2 DEF RecvKVPairs, RecvClaim, RecvFileNum, RecvFileNumEof, RecvAllocate, RecvSize,
        RecvSizeEof, RecvChunk, RecvChunkEof, RecvEnqueue, RecvNext, RecvDone, sockVars
<1>3. CASE WriteKVPairs \/ IngestSstFiles \/ TransferEnd
      BY <1>3 DEF WriteKVPairs, WriteClaim, WriteWait, WritePair, WriteFinish, WriteFree, WriteMark,
        WriteDone, IngestSstFiles, IngestClaim, IngestFile, IngestDone, TransferEnd, sockVars
<1>4. CASE RecvReset \/ WriteFails \/ IngestFails \/ DstWorkloadDies
      BY <1>4 DEF RecvReset, WriteFails, IngestFails, DstWorkloadDies, dstVars
<1>5. CASE WriteOpenFails
      BY <1>5 DEF WriteOpenFails, ingestVars
<1> QED
  BY <1>1, <1>2, <1>3, <1>4, <1>5 DEF Next, DstNext

LEMMA PromiseInit == Init => Promise!MigInit
<1> SUFFICES ASSUME Init
             PROVE  Moved = <<>> /\ mig_ended = FALSE /\ dst_up = TRUE
    BY DEF Promise!MigInit, Moved
<1>1. ingested = <<>> /\ mig_ended = FALSE /\ dst_up = TRUE
      BY DEF Init, DstInit, SocketInit
<1>2. Moved = <<>>
      BY <1>1 DEF Moved
<1> QED
  BY <1>1, <1>2

\* Every step moves the next file, declares the end, stops the destination or
\* is none of FileMigration's.
LEMMA PromiseStep ==
  TypeOK /\ WriteOrder /\ SstFiles /\ [Next]_vars => [Promise!MigNext]_(Promise!migVars)
<1> SUFFICES ASSUME TypeOK, WriteOrder, SstFiles, [Next]_vars
             PROVE  [Promise!MigNext]_(Promise!migVars)
    OBVIOUS
<1>1. CASE IngestFile
  <2>1. /\ Len(Moved) = Len(ingested) /\ Len(ingested) \in Files
        /\ Moved' = Append(Moved, Contents(Len(ingested)))
        BY <1>1, MovedNext
  <2>2. Len(ingested) < NumFiles
        BY <2>1, SizesAssumption DEF Files
  <2>3. dst_up /\ UNCHANGED <<mig_ended, dst_up>>
        BY <1>1 DEF IngestFile, IngesterAt, sockVars
  <2>4. [f \in Files |-> Contents(f)][Len(Moved)] = Contents(Len(ingested))
        BY <2>1
  <2>5. Promise!MoveFile
        BY <2>1, <2>2, <2>3, <2>4 DEF Promise!MoveFile, Moved
  <2> QED
        BY <2>5 DEF Promise!MigNext
<1>2. CASE TransferEnd
  <2>1. /\ dst_up /\ mig_ended' = TRUE /\ UNCHANGED <<ingested, dst_up>>
        /\ ingester.pc = "done"
        BY <1>2 DEF TransferEnd, ingestVars, sockVars
  <2>2. Moved' = Moved
        BY <2>1, MovedKept
  <2>3. Len(Moved) = NumFiles
    <3>1. Len(ingested) = NumFiles
          BY <2>1 DEF WriteOrder, DstClaims, IngestedPrefix, Ingested
    <3> QED
          BY <3>1, SizesAssumption DEF Moved
  <2>4. Promise!End
        BY <2>1, <2>2, <2>3 DEF Promise!End, Moved
  <2> QED
        BY <2>4 DEF Promise!MigNext
<1>3. CASE dst_up' # dst_up
  <2>1. ~dst_up' /\ UNCHANGED <<ingested, mig_ended>>
        BY <1>3, DeathsLeave
  <2>2. dst_up' = FALSE
        BY <1>3, <2>1, TypeStep DEF TypeOK, SocketTypeOK
  <2>3. Moved' = Moved
        BY <2>1, MovedKept
  <2>4. Promise!Stop
        BY <2>1, <2>2, <2>3 DEF Promise!Stop, Moved
  <2> QED
        BY <2>4 DEF Promise!MigNext
<1>4. CASE ~IngestFile /\ ~TransferEnd /\ dst_up' = dst_up
  <2>1. UNCHANGED <<ingested, mig_ended>>
        BY <1>4, OtherSteps
        DEF OrderStep, orderVars, ingestVars, WriteClaim, WriteWait, WritePair, WriteFinish, WriteFree,
            WriteMark, WriteDone, WriteOpenFails, IngestClaim, IngestDone
  <2>2. Moved' = Moved
        BY <2>1, MovedKept
  <2> QED
        BY <1>4, <2>1, <2>2 DEF Promise!migVars, Moved
<1> QED
  BY <1>1, <1>2, <1>3, <1>4

\* The transfer implements FileMigration: whatever fails and wherever the
\* threads stand, the database has received a prefix of the source's files,
\* each of them whole; mig_ended is raised after the last one; and a process
\* that exits, before or after, takes nothing back.
THEOREM MovesFilesCorrect ==
  ASSUME NoLonePair
  PROVE  Spec => MovesFiles
<1>1. TypeOK /\ WriteOrder /\ SstFiles /\ [Next]_vars => [Promise!MigNext]_(Promise!migVars)
      BY PromiseStep
<1>2. Spec => Promise!MigSafety
      BY <1>1, PromiseInit, TypeCorrect, WriteOrderCorrect, SstFilesCorrect, PTL
      DEF Spec, Promise!MigSafety
<1> QED
  BY <1>2 DEF MovesFiles

==============================================================================
