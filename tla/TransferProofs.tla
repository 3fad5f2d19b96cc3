---------------------------- MODULE TransferProofs ----------------------------
(***************************************************************************)
(* Proofs about the transfer of SSTables from one machine to the other,    *)
(* for any number of files, any contents, any length of the ring and of    *)
(* the socket buffers, and any calls that may fail:                        *)
(*   - the pointer word of a slot is always that of the right queue        *)
(*     (PointerIsFiles), at the grain of QueueSlot;                        *)
(*   - every variable of SstTransfer keeps its type (TypeOK), and          *)
(*     ReadKVPairs and SendKVPairs agree on the ring of queues between     *)
(*     them (SrcRing);                                                     *)
(*   - the two streams between SendKVPairs and RecvKVPairs stay in step    *)
(*     (Streams).                                                          *)
(*                                                                         *)
(* In the ring, the files that own a slot are Freed .. Allocated - 1.      *)
(* They are at most num_queues, so that no two of them have the same slot  *)
(* (SlotsDistinct), and a slot found null is that of the next file.  In    *)
(* the streams, what is on the way is a run of consecutive places, from    *)
(* that of the receiver up to that of the sender: sending adds the next    *)
(* place at one end, receiving takes it from the other.                    *)
(***************************************************************************)
EXTENDS DstInvariants, QueueSlot, Integers, TLAPS

-------------------------------------------------------------------------------
(* One slot of the ring *)

\* The files whose queue the pointer word has been given are 0 .. Pointed - 1,
\* those it has been taken from are 0 .. Cleared - 1, and at most one file is
\* between the two.
Pointed == IF producer.pc \in {"standby", "point"} THEN producer.file ELSE producer.file + 1
Cleared == IF consumer.pc \in {"load", "store", "release"} THEN consumer.file + 1 ELSE consumer.file

\* The pointer word is that of the one file pointed and not cleared, if any.
OneInSlot ==
  /\ Cleared <= Pointed /\ Pointed <= Cleared + 1
  /\ ptr = IF Cleared < Pointed THEN Cleared ELSE NoQueue
  /\ producer.pc = "point" => Pointed = Cleared
  /\ consumer.pc = "pair" => Cleared < Pointed
  /\ producer.pc \in {"load", "store", "release"} => Cleared < Pointed

\* A thread is at work on a file that exists.
InRange ==
  /\ producer.pc # "standby" => producer.file < NumSlotFiles
  /\ consumer.pc # "wait" => consumer.file < NumSlotFiles

\* What has been enqueued and sent of the files before, in and after the slot.
Progress ==
  \A f \in SlotFiles :
    /\ f < Cleared => sent[f] = NumPairs /\ enqueued[f] = NumPairs
    /\ f < producer.file => enqueued[f] = NumPairs
    /\ sent[f] <= enqueued[f]
    /\ f > producer.file => enqueued[f] = 0
    /\ f = producer.file /\ producer.pc # "enqueue" => enqueued[f] = 0

PointerInv == SlotTypeOK /\ OneInSlot /\ InRange /\ Progress

\* The initial state.
LEMMA PointerInvInit == SlotInit => PointerInv
BY SlotAssumption
   DEF SlotInit, PointerInv, SlotTypeOK, OneInSlot, InRange, Progress, Pointed, Cleared, SlotFiles

\* Every step keeps the types, given the ranges of the two threads' files.
LEMMA SlotTypeStep == SlotTypeOK /\ InRange /\ [SlotNext]_slotVars => SlotTypeOK'
<1> SUFFICES ASSUME SlotTypeOK, InRange, [SlotNext]_slotVars
             PROVE  SlotTypeOK'
    OBVIOUS
<1>a. /\ producer.file \in 0 .. NumSlotFiles
      /\ producer.old \in SlotFiles \cup {NoQueue}
      /\ consumer.file \in 0 .. NumSlotFiles
      /\ consumer.old \in SlotFiles \cup {NoQueue}
      BY DEF SlotTypeOK
<1>b. producer.pc # "standby" => producer.file \in SlotFiles
      BY <1>a, SlotAssumption DEF InRange, SlotFiles
<1>c. consumer.pc # "wait" => consumer.file \in SlotFiles /\ consumer.file + 1 \in 0 .. NumSlotFiles
      BY <1>a, SlotAssumption DEF InRange, SlotFiles
<1>d. ASSUME NEW count \in SlotFiles \cup {NoQueue}, Release(count)
      PROVE  use_count' \in [SlotFiles -> Int]
      BY <1>d DEF Release, SlotTypeOK
<1>1. CASE Standby
  <2>1. producer.file \in SlotFiles
        BY <1>1, <1>a, SlotAssumption DEF Standby, SlotFiles
  <2>2. use_count' \in [SlotFiles -> Int]
        BY <1>1, <2>1 DEF Standby, SlotTypeOK
  <2> QED
        BY <1>1, <2>2 DEF Standby, SlotTypeOK
<1>2. CASE AllocatePoint
      BY <1>2, <1>b DEF AllocatePoint, SlotTypeOK
<1>3. CASE AllocateLoad
      BY <1>3 DEF AllocateLoad, SlotTypeOK
<1>4. CASE AllocateStore
      BY <1>4, <1>b DEF AllocateStore, SlotTypeOK
<1>5. CASE AllocateRelease
  <2>1. use_count' \in [SlotFiles -> Int]
        BY <1>5, <1>a, <1>d DEF AllocateRelease
  <2> QED
        BY <1>5, <2>1 DEF AllocateRelease, SlotTypeOK
<1>6. CASE Enqueue
  <2>1. enqueued[producer.file] \in 0 .. NumPairs
        BY <1>6, <1>b DEF Enqueue, SlotTypeOK
  <2>2. enqueued[producer.file] + 1 \in 0 .. NumPairs
        BY <1>6, <2>1, SlotAssumption DEF Enqueue
  <2>3. enqueued' \in [SlotFiles -> 0 .. NumPairs]
        BY <1>6, <2>2 DEF Enqueue, SlotTypeOK
  <2>4. \A f \in SlotFiles : sent[f] <= enqueued'[f]
    <3> TAKE f \in SlotFiles
    <3>1. sent[f] \in 0 .. NumPairs /\ enqueued[f] \in 0 .. NumPairs /\ sent[f] <= enqueued[f]
          BY DEF SlotTypeOK
    <3>2. enqueued'[f] = enqueued[f] \/ enqueued'[f] = enqueued[f] + 1
          BY <1>6 DEF Enqueue, SlotTypeOK
    <3> QED
          BY <3>1, <3>2, SlotAssumption
  <2> QED
        BY <1>6, <2>3, <2>4 DEF Enqueue, SlotTypeOK
<1>7. CASE NextFile
  <2>1. producer.file + 1 \in 0 .. NumSlotFiles
        BY <1>7, <1>b, SlotAssumption DEF NextFile, SlotFiles
  <2> QED
        BY <1>7, <2>1 DEF NextFile, SlotTypeOK
<1>8. CASE Wait
      BY <1>8 DEF Wait, SlotTypeOK
<1>9. CASE Dequeue
  <2>1. ptr \in SlotFiles
        BY <1>9 DEF Dequeue, SlotTypeOK
  <2>2. sent[ptr] \in 0 .. NumPairs /\ enqueued[ptr] \in 0 .. NumPairs
        BY <2>1 DEF SlotTypeOK
  <2>3. sent[ptr] + 1 \in 0 .. NumPairs
        BY <1>9, <2>2, SlotAssumption DEF Dequeue
  <2>4. sent' \in [SlotFiles -> 0 .. NumPairs]
        BY <1>9, <2>3 DEF Dequeue, SlotTypeOK
  <2>5. \A f \in SlotFiles : sent'[f] <= enqueued[f]
    <3> TAKE f \in SlotFiles
    <3>1. CASE f = ptr
          BY <1>9, <2>1, <2>2, <3>1 DEF Dequeue, SlotTypeOK
    <3>2. CASE f # ptr
          BY <1>9, <3>2 DEF Dequeue, SlotTypeOK
    <3> QED
          BY <3>1, <3>2
  <2> QED
        BY <1>9, <2>4, <2>5 DEF Dequeue, SlotTypeOK
<1>10. CASE FreePoint
      BY <1>10 DEF FreePoint, SlotTypeOK
<1>11. CASE FreeLoad
      BY <1>11 DEF FreeLoad, SlotTypeOK
<1>12. CASE FreeStore
      BY <1>12 DEF FreeStore, SlotTypeOK
<1>13. CASE FreeRelease
  <2>1. use_count' \in [SlotFiles -> Int]
        BY <1>13, <1>a, <1>d DEF FreeRelease
  <2> QED
        BY <1>13, <1>c, <2>1 DEF FreeRelease, SlotTypeOK
<1>14. CASE UNCHANGED slotVars
      BY <1>14 DEF slotVars, SlotTypeOK
<1> QED
  BY <1>1, <1>2, <1>3, <1>4, <1>5, <1>6, <1>7, <1>8, <1>9, <1>10, <1>11, <1>12, <1>13, <1>14
  DEF SlotNext, Produce, Consume

\* Every step keeps the invariant.
LEMMA PointerInvStep == PointerInv /\ [SlotNext]_slotVars => PointerInv'
<1> SUFFICES ASSUME PointerInv, [SlotNext]_slotVars
             PROVE  PointerInv'
    OBVIOUS
<1>0. SlotTypeOK'
      BY SlotTypeStep DEF PointerInv
<1> USE <1>0, SlotAssumption DEF PointerInv, SlotTypeOK, Pointed, Cleared, SlotFiles
<1>1. CASE Standby
  <2>1. OneInSlot' /\ InRange'
        BY <1>1 DEF Standby, OneInSlot, InRange, Progress
  <2>2. Progress'
        BY <1>1 DEF Standby, OneInSlot, InRange, Progress
  <2> QED
        BY <2>1, <2>2
<1>2. CASE AllocatePoint
  <2>1. OneInSlot' /\ InRange'
        BY <1>2 DEF AllocatePoint, OneInSlot, InRange, Progress
  <2>2. Progress'
        BY <1>2 DEF AllocatePoint, OneInSlot, InRange, Progress
  <2> QED
        BY <2>1, <2>2
<1>3. CASE AllocateLoad
  <2>1. OneInSlot' /\ InRange'
        BY <1>3 DEF AllocateLoad, OneInSlot, InRange, Progress
  <2>2. Progress'
        BY <1>3 DEF AllocateLoad, OneInSlot, InRange, Progress
  <2> QED
        BY <2>1, <2>2
<1>4. CASE AllocateStore
  <2>1. OneInSlot' /\ InRange'
        BY <1>4 DEF AllocateStore, OneInSlot, InRange, Progress
  <2>2. Progress'
        BY <1>4 DEF AllocateStore, OneInSlot, InRange, Progress
  <2> QED
        BY <2>1, <2>2
<1>5. CASE AllocateRelease
  <2>1. OneInSlot' /\ InRange'
        BY <1>5 DEF AllocateRelease, OneInSlot, InRange, Progress
  <2>2. Progress'
        BY <1>5 DEF AllocateRelease, OneInSlot, InRange, Progress
  <2> QED
        BY <2>1, <2>2
<1>6. CASE Enqueue
  <2>1. OneInSlot' /\ InRange'
        BY <1>6 DEF Enqueue, OneInSlot, InRange, Progress
  <2>2. producer.file \in SlotFiles
        BY <1>6 DEF Enqueue, InRange
  <2>3. \A f \in SlotFiles :
           enqueued'[f] = IF f = producer.file THEN enqueued[f] + 1 ELSE enqueued[f]
        BY <1>6 DEF Enqueue
  <2>4. Progress'
    <3> SUFFICES ASSUME NEW f \in SlotFiles
                 PROVE  /\ f < Cleared => sent[f] = NumPairs /\ enqueued'[f] = NumPairs
                        /\ f < producer.file => enqueued'[f] = NumPairs
                        /\ sent[f] <= enqueued'[f]
                        /\ f > producer.file => enqueued'[f] = 0
        BY <1>6 DEF Enqueue, Progress
    <3>1. enqueued[f] \in 0 .. NumPairs /\ sent[f] \in 0 .. NumPairs
          OBVIOUS
    <3>2. CASE f = producer.file
      <4>1. enqueued'[f] = enqueued[f] + 1 /\ enqueued[f] < NumPairs
            BY <1>6, <2>3, <3>2 DEF Enqueue
      <4>2. /\ f < Cleared => sent[f] = NumPairs /\ enqueued[f] = NumPairs
            /\ sent[f] <= enqueued[f]
            BY DEF Progress
      <4> HIDE DEF Cleared, Pointed, PointerInv, SlotTypeOK
      <4>3. ~(f < Cleared)
            BY <4>1, <4>2, <3>1
      <4>4. ~(f < producer.file) /\ ~(f > producer.file)
            BY <3>2
      <4> QED
            BY <4>1, <4>2, <4>3, <4>4, <3>1
    <3>3. CASE f # producer.file
          BY <2>3, <3>3 DEF Progress
    <3> QED
          BY <3>2, <3>3
  <2> QED
        BY <2>1, <2>4
<1>7. CASE NextFile
  <2>1. OneInSlot' /\ InRange'
        BY <1>7 DEF NextFile, OneInSlot, InRange, Progress
  <2>2. Progress'
    <3>1. /\ producer.pc = "enqueue" /\ producer'.pc = "standby"
          /\ producer'.file = producer.file + 1 /\ producer.file \in Nat
          /\ enqueued[producer.file] = NumPairs
          /\ UNCHANGED <<enqueued, sent, consumer>>
          BY <1>7 DEF NextFile
    <3>2. ASSUME NEW f \in SlotFiles
          PROVE  /\ f < producer'.file => enqueued[f] = NumPairs
                 /\ f > producer'.file => enqueued[f] = 0
                 /\ f = producer'.file => enqueued[f] = 0
      <4>1. f \in Nat
            BY DEF SlotFiles
      <4> HIDE DEF PointerInv, SlotTypeOK, Cleared, Pointed
      <4>2. /\ f < producer.file + 1 => f < producer.file \/ f = producer.file
            /\ f > producer.file + 1 \/ f = producer.file + 1 => f > producer.file
            BY <3>1, <4>1
      <4> QED
            BY <3>1, <4>2 DEF PointerInv, Progress
    <3>3. Cleared' = Cleared
          BY <3>1
    <3> QED
          BY <3>1, <3>2, <3>3 DEF Progress
  <2> QED
        BY <2>1, <2>2
<1>8. CASE Wait
  <2>1. OneInSlot' /\ InRange'
        BY <1>8 DEF Wait, OneInSlot, InRange, Progress
  <2>2. Progress'
        BY <1>8 DEF Wait, OneInSlot, InRange, Progress
  <2> QED
        BY <2>1, <2>2
<1>9. CASE Dequeue
  <2>1. OneInSlot' /\ InRange'
        BY <1>9 DEF Dequeue, OneInSlot, InRange, Progress
  <2>2. ptr \in SlotFiles /\ ptr = Cleared
        BY <1>9 DEF Dequeue, OneInSlot
  <2>3. \A f \in SlotFiles : sent'[f] = IF f = ptr THEN sent[f] + 1 ELSE sent[f]
        BY <1>9 DEF Dequeue
  <2>4. Progress'
    <3> SUFFICES ASSUME NEW f \in SlotFiles
                 PROVE  /\ f < Cleared => sent'[f] = NumPairs
                        /\ sent'[f] <= enqueued[f]
        BY <1>9 DEF Dequeue, Progress
    <3>1. enqueued[f] \in 0 .. NumPairs /\ sent[f] \in 0 .. NumPairs
          OBVIOUS
    <3>2. CASE f = ptr
      <4>1. sent'[f] = sent[f] + 1 /\ sent[f] < enqueued[f] /\ f = Cleared
            BY <1>9, <2>2, <2>3, <3>2 DEF Dequeue
      <4>2. ~(f < Cleared)
            BY <4>1
      <4> HIDE DEF Cleared
      <4> QED
            BY <4>1, <4>2, <3>1
    <3>3. CASE f # ptr
          BY <2>3, <3>3 DEF Progress
    <3> QED
          BY <3>2, <3>3
  <2> QED
        BY <2>1, <2>4
<1>10. CASE FreePoint
  <2>1. OneInSlot' /\ InRange'
        BY <1>10 DEF FreePoint, OneInSlot, InRange, Progress
  <2>2. Progress'
        BY <1>10 DEF FreePoint, OneInSlot, InRange, Progress
  <2> QED
        BY <2>1, <2>2
<1>11. CASE FreeLoad
  <2>1. OneInSlot' /\ InRange'
        BY <1>11 DEF FreeLoad, OneInSlot, InRange, Progress
  <2>2. Progress'
        BY <1>11 DEF FreeLoad, OneInSlot, InRange, Progress
  <2> QED
        BY <2>1, <2>2
<1>12. CASE FreeStore
  <2>1. OneInSlot' /\ InRange'
        BY <1>12 DEF FreeStore, OneInSlot, InRange, Progress
  <2>2. Progress'
        BY <1>12 DEF FreeStore, OneInSlot, InRange, Progress
  <2> QED
        BY <2>1, <2>2
<1>13. CASE FreeRelease
  <2>1. OneInSlot' /\ InRange'
        BY <1>13 DEF FreeRelease, OneInSlot, InRange, Progress
  <2>2. Progress'
        BY <1>13 DEF FreeRelease, OneInSlot, InRange, Progress
  <2> QED
        BY <2>1, <2>2
<1>14. CASE UNCHANGED slotVars
  <2>1. UNCHANGED <<ptr, ctl, use_count, enqueued, sent, producer, consumer>>
        BY <1>14 DEF slotVars
  <2>2. Pointed' = Pointed /\ Cleared' = Cleared
        BY <2>1
  <2>3. OneInSlot' /\ InRange'
        BY <2>1, <2>2 DEF OneInSlot, InRange
  <2>4. Progress'
        BY <2>1, <2>2 DEF Progress
  <2> QED
        BY <2>3, <2>4
<1> QED
  BY <1>1, <1>2, <1>3, <1>4, <1>5, <1>6, <1>7, <1>8, <1>9, <1>10, <1>11, <1>12, <1>13, <1>14
  DEF SlotNext, Produce, Consume

\* The inductive invariant implies the property.
LEMMA PointerInvSuffices == PointerInv => PointerIsFiles
<1> SUFFICES ASSUME PointerInv
             PROVE  PointerIsFiles
    OBVIOUS
<1>a. producer.file \in Nat /\ consumer.file \in Nat /\ Pointed \in Nat /\ Cleared \in Nat
      BY SlotAssumption DEF PointerInv, SlotTypeOK, Pointed, Cleared
<1>b. ptr # NoQueue => ptr = Cleared /\ Pointed = Cleared + 1
      BY <1>a DEF PointerInv, OneInSlot
<1>c. Cleared < Pointed => ptr = Cleared /\ Pointed = Cleared + 1
      BY <1>a DEF PointerInv, OneInSlot
<1>1. producer.pc \in {"load", "store", "release"} => ptr = producer.file
      BY <1>a, <1>c DEF PointerInv, OneInSlot, Pointed
<1>2. producer.pc = "enqueue" /\ enqueued[producer.file] < NumPairs => ptr = producer.file
  <2> SUFFICES ASSUME producer.pc = "enqueue", enqueued[producer.file] < NumPairs
               PROVE  ptr = producer.file
      OBVIOUS
  <2>1. producer.file \in SlotFiles
        BY <1>a, SlotAssumption DEF PointerInv, InRange, SlotFiles
  <2>2. ~(producer.file < Cleared)
        BY <2>1, SlotAssumption DEF PointerInv, Progress
  <2>3. Pointed = producer.file + 1
        BY DEF Pointed
  <2> QED
        BY <1>a, <1>c, <2>2, <2>3
<1>3. consumer.pc = "pair" => ptr = consumer.file
      BY <1>c DEF PointerInv, OneInSlot, Cleared
<1>4. ptr = NoQueue => \A f \in SlotFiles : sent[f] = enqueued[f]
  <2> SUFFICES ASSUME ptr = NoQueue, NEW f \in SlotFiles
               PROVE  sent[f] = enqueued[f]
      OBVIOUS
  <2>a. f \in Nat /\ sent[f] \in Nat /\ enqueued[f] \in Nat
        BY SlotAssumption DEF PointerInv, SlotTypeOK, SlotFiles
  <2>1. Cleared = Pointed
    <3>1. ~(Cleared < Pointed)
      <4> SUFFICES ASSUME Cleared < Pointed
                   PROVE  FALSE
          OBVIOUS
      <4>1. Pointed <= NumSlotFiles
            BY <1>a, SlotAssumption DEF PointerInv, SlotTypeOK, InRange, Pointed
      <4>2. Cleared \in SlotFiles
            BY <1>a, <4>1, SlotAssumption DEF SlotFiles
      <4> QED
          BY <1>c, <4>2, SlotAssumption
    <3> QED
        BY <1>a, <3>1 DEF PointerInv, OneInSlot
  <2>2. CASE f < Cleared
        BY <2>2 DEF PointerInv, Progress
  <2>3. CASE f >= Cleared
    <3>1. f > producer.file \/ (f = producer.file /\ producer.pc # "enqueue")
          BY <1>a, <2>a, <2>1, <2>3 DEF Pointed
    <3>2. enqueued[f] = 0
          BY <3>1 DEF PointerInv, Progress
    <3> QED
          BY <2>a, <3>2 DEF PointerInv, Progress
  <2> QED
        BY <1>a, <2>a, <2>2, <2>3
<1> QED
  BY <1>1, <1>2, <1>3, <1>4 DEF PointerIsFiles

\* Every variable of the slot keeps its type, and no queue has had more pairs
\* taken from it than were put in (the try_dequeue loops, src sst.cc:81,
\* dst sst.cc:97).
THEOREM SlotTypeCorrect == SlotSpec => []SlotTypeOK
<1>1. PointerInv => SlotTypeOK
      BY DEF PointerInv
<1> QED
  BY <1>1, PointerInvInit, PointerInvStep, PTL DEF SlotSpec

\* The pointer word of the slot is that of the queue a thread works on, however
\* the two assignments overlap (src sst.cc:30-45, 72-105).
THEOREM PointerCorrect == SlotSpec => []PointerIsFiles
BY PointerInvInit, PointerInvStep, PointerInvSuffices, PTL DEF SlotSpec

-------------------------------------------------------------------------------
(* Facts about the constants and helpers of SstSocket *)

\* Euclidean division of a file number by the length of the ring.
LEMMA DivMod ==
  ASSUME NEW a \in Nat, NEW n \in Nat \ {0}
  PROVE  /\ a \div n \in Nat
         /\ a % n \in 0 .. n - 1
         /\ a = n * (a \div n) + (a % n)
OBVIOUS

\* Multiples of n are at least n apart.
LEMMA MultipleGap ==
  ASSUME NEW n \in Nat \ {0}, NEW p \in Nat, NEW q \in Nat, p < q
  PROVE  n * p + n <= n * q
<1>1. PICK d \in Nat : q = p + 1 + d
  <2>1. q - p - 1 \in Nat
        OBVIOUS
  <2> QED
        BY <2>1
<1>2. n * q = n * p + n + n * d
      BY <1>1, Z3
<1>3. n * d \in Nat
      OBVIOUS
<1> QED
  BY <1>2, <1>3

\* Two files that share a slot are at least num_queues files apart.
LEMMA SameSlotGap ==
  ASSUME NEW n \in Nat \ {0}, NEW f \in Nat, NEW g \in Nat, f % n = g % n, f < g
  PROVE  f + n <= g
<1> DEFINE p == f \div n
           q == g \div n
<1>a. p \in Nat /\ f % n \in 0 .. n - 1 /\ f = n * p + (f % n)
      BY DivMod
<1>b. q \in Nat /\ g = n * q + (g % n)
      BY DivMod
<1>1. /\ p \in Nat /\ q \in Nat
      /\ f % n \in Nat
      /\ f = n * p + (f % n) /\ g = n * q + (f % n)
      BY <1>a, <1>b
<1>2. n * p \in Nat /\ n * q \in Nat
      BY <1>1
<1> HIDE DEF p, q
<1>3. n * p < n * q
      BY <1>1, <1>2
<1>4. p < q
  <2>1. CASE q = p
        BY <2>1, <1>3, <1>2
  <2>2. CASE q < p
        BY <2>2, <1>1, <1>2, <1>3, MultipleGap
  <2> QED
        BY <2>1, <2>2, <1>1
<1>5. n * p + n <= n * q
      BY <1>4, <1>1, MultipleGap
<1> QED
  BY <1>1, <1>2, <1>5

\* A ring of n slots comes round after n files.
LEMMA ModShift ==
  ASSUME NEW n \in Nat \ {0}, NEW a \in Nat
  PROVE  (a + n) % n = a % n
<1> DEFINE q == a \div n
           r == a % n
           p == (a + n) \div n
           s == (a + n) % n
<1>1. q \in Nat /\ r \in 0 .. n - 1 /\ a = n * q + r
      BY DivMod
<1>2. p \in Nat /\ s \in 0 .. n - 1 /\ a + n = n * p + s
  <2>1. a + n \in Nat
        OBVIOUS
  <2> QED
        BY <2>1, DivMod
<1> HIDE DEF q, r, p, s
<1>3. n * q \in Nat /\ n * p \in Nat /\ n * (q + 1) \in Nat
      BY <1>1, <1>2
<1>4. n * (q + 1) = n * q + n
      BY <1>1, Z3
<1>5. ~(p < q + 1)
  <2>1. p < q + 1 => n * p + n <= n * (q + 1)
        BY <1>1, <1>2, MultipleGap
  <2> QED
        BY <2>1, <1>1, <1>2, <1>3, <1>4
<1>6. ~(q + 1 < p)
  <2>1. q + 1 < p => n * (q + 1) + n <= n * p
        BY <1>1, <1>2, MultipleGap
  <2> QED
        BY <2>1, <1>1, <1>2, <1>3, <1>4
<1>7. p = q + 1
      BY <1>1, <1>2, <1>5, <1>6
<1>8. s = r
      BY <1>1, <1>2, <1>3, <1>4, <1>7
<1> QED
  BY <1>8 DEF r, s

\* A file number names a slot of the ring.
LEMMA QueueNumType ==
  ASSUME NEW f \in Nat
  PROVE  QueueNum(f) \in 0 .. NumQueues - 1
BY DivMod, SizesAssumption DEF QueueNum

\* Among num_queues consecutive files no two share a slot.
LEMMA SlotsDistinct ==
  ASSUME NEW a \in Nat, NEW f \in Nat, NEW g \in Nat,
         a <= f, f < a + NumQueues, a <= g, g < a + NumQueues,
         QueueNum(f) = QueueNum(g)
  PROVE  f = g
<1>a. NumQueues \in Nat \ {0} /\ f % NumQueues = g % NumQueues
      BY SizesAssumption DEF QueueNum
<1>1. ~(f < g)
  <2>1. f < g => f + NumQueues <= g
        BY <1>a, SameSlotGap
  <2> QED
        BY <1>a, <2>1
<1>2. ~(g < f)
  <2>1. g < f => g + NumQueues <= f
        BY <1>a, SameSlotGap
  <2> QED
        BY <1>a, <2>1
<1> QED
  BY <1>1, <1>2

\* File numbers are natural numbers.
LEMMA FilesType == Files \subseteq Nat
BY SizesAssumption DEF Files

\* The size of a pair of the source is a positive number.
LEMMA PairSizeType ==
  ASSUME NEW p \in Pair
  PROVE  PairSize(p) \in Nat \ {0}
<1>1. p[1] \in Files /\ p[2] \in 1 .. Len(SstData[p[1]])
      BY DEF Pair
<1>2. SstData[p[1]] \in Seq(Nat \ {0})
      BY <1>1, DataAssumption
<1> QED
  BY <1>1, <1>2 DEF PairSize

\* The i-th pair of file f is a pair of the source.
LEMMA PairType ==
  ASSUME NEW f \in Files, NEW i \in 1 .. Len(SstData[f])
  PROVE  <<f, i>> \in Pair
<1>1. SstData[f] \in Seq(Nat \ {0})
      BY DataAssumption
<1>2. Len(SstData[f]) \in Nat
      BY <1>1
<1>3. <<f, i>> \in Files \X Nat
      BY <1>2
<1> QED
  BY <1>3 DEF Pair

\* A file has no more pairs than num_entries says.
LEMMA LenType ==
  ASSUME NEW f \in Files
  PROVE  /\ Len(SstData[f]) \in Nat
         /\ NumEntries[f] \in Nat \ {0}
         /\ Len(SstData[f]) <= NumEntries[f]
<1>1. SstData[f] \in Seq(Nat \ {0})
      BY DataAssumption
<1> QED
  BY <1>1, DataAssumption

\* A queue that exists is not the null pointer.
LEMMA QueueNotNull ==
  ASSUME NEW queue \in Seq(Pair)
  PROVE  queue # Null
<1>1. queue \in Seq(Pair \cup {Garbage})
      OBVIOUS
<1> QED
  BY <1>1, NullAssumption

-------------------------------------------------------------------------------
(* The types *)

ReceiverType ==
  [pc : {"claim", "num", "standby", "size", "data", "done"},
   file_num : Nat, pos : Nat, data_size : Nat, recv_size : Nat,
   kv_pair : Pair \cup {Garbage}, eof : BOOLEAN]

ReaderType ==
  [pc : {"claim", "standby", "enqueue", "done"}, file_num : Files \cup {0}, pos : Nat]

SenderType ==
  [pc : {"claim", "announce", "ack", "wait", "pair", "size", "data", "done"},
   file_num : Files \cup {0}, pos : Nat, kv_pair : Pair \cup {Garbage}]

WriterType ==
  [pc : {"claim", "wait", "pair", "free", "mark", "done"},
   file_num : Files \cup {0}, pos : Nat]

\* The initial values have their types.
LEMMA TypeInit == Init => TypeOK
<1> SUFFICES ASSUME Init
             PROVE  TypeOK
    OBVIOUS
<1>1. SocketTypeOK
      BY DEF Init, SocketInit, SocketTypeOK
<1>2. SrcTypeOK
      BY SizesAssumption DEF Init, SrcInit, SrcTypeOK
<1>3. DstTypeOK
  <2>1. receiver \in ReceiverType
        BY DEF Init, DstInit, ReceiverType
  <2>2. dst_kv_pairs \in [0 .. NumQueues - 1 -> Seq(Pair \cup {Garbage}) \cup {Null}]
        BY DEF Init, DstInit
  <2>3. sst_files \in [Files -> Seq(Pair \cup {Garbage})]
        BY DEF Init, DstInit
  <2>4. ingested \in Seq(Files) /\ write_finished \in [Files -> BOOLEAN]
        BY DEF Init, DstInit
  <2>5. 0 \in 0 .. NumFiles
        BY SizesAssumption
  <2> QED
        BY <2>1, <2>2, <2>3, <2>4, <2>5 DEF Init, DstInit, DstTypeOK, ReceiverType
<1> QED
  BY <1>1, <1>2, <1>3 DEF TypeOK

\* The two threads of the source keep the types of its variables and those of
\* the connections.
LEMMA SrcStepType ==
  ASSUME SocketTypeOK, SrcTypeOK, SrcNext
  PROVE  SocketTypeOK' /\ SrcTypeOK'
<1>a. read_cnt < NumFiles => read_cnt \in Files /\ read_cnt + 1 \in 0 .. NumFiles
      BY SizesAssumption DEF SrcTypeOK, Files
<1>b. send_cnt < NumFiles => send_cnt \in Files /\ send_cnt + 1 \in 0 .. NumFiles
      BY SizesAssumption DEF SrcTypeOK, Files
<1>1. CASE ReadClaim
  <2>1. read_cnt \in Files /\ read_cnt + 1 \in 0 .. NumFiles
        BY <1>1, <1>a DEF ReadClaim, ReaderAt
  <2> QED
        BY <1>1, <2>1
        DEF ReadClaim, SocketTypeOK, SrcTypeOK, srcVars, sockVars, ReaderAt
<1>2. CASE ReadOpenFails
  <2>1. read_cnt \in Files /\ read_cnt + 1 \in 0 .. NumFiles
        BY <1>2, <1>a DEF ReadOpenFails, ReaderAt
  <2> QED
        BY <1>2, <2>1
        DEF ReadOpenFails, SocketTypeOK, SrcTypeOK, srcVars, sockVars, ReaderAt
<1>3. CASE ReadAllocate
  <2>1. <<>> \in Seq(Pair) \cup {Null}
        OBVIOUS
  <2>2. src_kv_pairs' \in [0 .. NumQueues - 1 -> Seq(Pair) \cup {Null}]
        BY <1>3, <2>1 DEF ReadAllocate, SrcTypeOK
  <2> QED
        BY <1>3, <2>1, <2>2
        DEF ReadAllocate, SocketTypeOK, SrcTypeOK, srcVars, sockVars, ReaderAt
<1>4. CASE ReadEnqueue
  <2>1. reader.file_num \in Files /\ reader.pos \in Nat
        BY <1>4 DEF ReadEnqueue, SrcTypeOK, ReaderAt
  <2>2. reader.pos + 1 \in 1 .. Len(SstData[reader.file_num])
        BY <1>4, <2>1, LenType DEF ReadEnqueue, ReaderAt
  <2>3. <<reader.file_num, reader.pos + 1>> \in Pair
        BY <2>1, <2>2, PairType
  <2>4. src_kv_pairs[ReaderSlot] \in Seq(Pair)
        BY <1>4, <2>1, FilesType, QueueNumType DEF ReadEnqueue, SrcTypeOK, ReaderSlot, ReaderAt
  <2>5. Append(src_kv_pairs[ReaderSlot], <<reader.file_num, reader.pos + 1>>) \in Seq(Pair)
        BY <2>3, <2>4
  <2>6. src_kv_pairs' \in [0 .. NumQueues - 1 -> Seq(Pair) \cup {Null}]
        BY <1>4, <2>5 DEF ReadEnqueue, SrcTypeOK
  <2>7. reader' \in ReaderType
        BY <1>4, <2>1 DEF ReadEnqueue, SrcTypeOK, ReaderType
  <2> QED
        BY <1>4, <2>1, <2>2, <2>3, <2>4, <2>5, <2>6, <2>7
        DEF ReadEnqueue, SocketTypeOK, SrcTypeOK, ReaderType, srcVars, sockVars, ReaderAt
<1>5. CASE ReadNext
      BY <1>5
      DEF ReadNext, SocketTypeOK, SrcTypeOK, srcVars, sockVars, ReaderAt
<1>6. CASE ReadDone
      BY <1>6
      DEF ReadDone, SocketTypeOK, SrcTypeOK, srcVars, sockVars, ReaderAt
<1>7. CASE SendClaim
  <2>1. send_cnt \in Files /\ send_cnt + 1 \in 0 .. NumFiles
        BY <1>7, <1>b DEF SendClaim, SenderAt
  <2> QED
        BY <1>7, <2>1
        DEF SendClaim, SocketTypeOK, SrcTypeOK, srcVars, sockVars, SenderAt
<1>8. CASE SendFileNum
  <2>1. FileNumHeader(sender.file_num) \in Header
        BY <1>8, FilesType DEF SendFileNum, SrcTypeOK, FileNumHeader, Header, SenderAt
  <2>2. headers' \in Seq(Header)
        BY <1>8, <2>1 DEF SendFileNum, SocketTypeOK
  <2> QED
        BY <1>8, <2>1, <2>2
        DEF SendFileNum, SocketTypeOK, SrcTypeOK, srcVars, sockVars, SenderAt
<1>9. CASE SendRecvFlag
  <2>1. flags' \in Nat
        BY <1>9 DEF SendRecvFlag, SocketTypeOK
  <2> QED
        BY <1>9, <2>1
        DEF SendRecvFlag, SocketTypeOK, SrcTypeOK, srcVars, sockVars, SenderAt
<1>10. CASE SendRecvFlagEof
      BY <1>10
      DEF SendRecvFlagEof, SocketTypeOK, SrcTypeOK, srcVars, sockVars, SenderAt
<1>11. CASE SendWait
      BY <1>11
      DEF SendWait, SocketTypeOK, SrcTypeOK, srcVars, sockVars, SenderAt
<1>12. CASE SendDequeue
  <2>1. sender.file_num \in Files
        BY <1>12 DEF SendDequeue, SrcTypeOK, SenderAt
  <2>2. src_kv_pairs[SenderSlot] \in Seq(Pair)
        BY <1>12, <2>1, FilesType, QueueNumType DEF SendDequeue, SrcTypeOK, SenderSlot, SenderAt
  <2>3. Head(src_kv_pairs[SenderSlot]) \in Pair /\ Tail(src_kv_pairs[SenderSlot]) \in Seq(Pair)
        BY <1>12, <2>2 DEF SendDequeue, SenderAt
  <2>4. src_kv_pairs' \in [0 .. NumQueues - 1 -> Seq(Pair) \cup {Null}]
        BY <1>12, <2>3 DEF SendDequeue, SrcTypeOK
  <2> QED
        BY <1>12, <2>1, <2>2, <2>3, <2>4
        DEF SendDequeue, SocketTypeOK, SrcTypeOK, srcVars, sockVars, SenderAt
<1>13. CASE SendSize
  <2>1. SizeHeader(PairSize(sender.kv_pair)) \in Header
        BY <1>13, PairSizeType DEF SendSize, SrcTypeOK, SizeHeader, Header, SenderAt
  <2>2. headers' \in Seq(Header)
        BY <1>13, <2>1 DEF SendSize, SocketTypeOK
  <2> QED
        BY <1>13, <2>1, <2>2
        DEF SendSize, SocketTypeOK, SrcTypeOK, srcVars, sockVars, SenderAt
<1>14. CASE SendPayload
  <2>1. sender.kv_pair \in Pair
        BY <1>14 DEF SendPayload, SrcTypeOK, SenderAt
  <2>2. payload' \in Seq(Pair)
        BY <1>14, <2>1 DEF SendPayload, SocketTypeOK
  <2>3. sender' = [sender EXCEPT !.pc = "pair", !.pos = sender.pos + 1]
        BY <1>14 DEF SendPayload
  <2>4. sender \in SenderType /\ sender.pos + 1 \in Nat
        BY DEF SrcTypeOK, SenderType
  <2>5. sender' \in SenderType
        BY <2>3, <2>4 DEF SenderType
  <2> QED
        BY <1>14, <2>1, <2>2, <2>3, <2>4, <2>5
        DEF SendPayload, SocketTypeOK, SrcTypeOK, SenderType, srcVars, sockVars, SenderAt
<1>15. CASE SendFree
  <2>1. src_kv_pairs' \in [0 .. NumQueues - 1 -> Seq(Pair) \cup {Null}]
        BY <1>15 DEF SendFree, SrcTypeOK
  <2> QED
        BY <1>15, <2>1
        DEF SendFree, SocketTypeOK, SrcTypeOK, srcVars, sockVars, SenderAt
<1>16. CASE SendDone
      BY <1>16
      DEF SendDone, SocketTypeOK, SrcTypeOK, srcVars, sockVars, SenderAt
<1>17. CASE SendBroken
      BY <1>17
      DEF SendBroken, SocketTypeOK, SrcTypeOK, srcVars, sockVars, SenderAt
<1>18. CASE SrcWorkloadDies
      BY <1>18
      DEF SrcWorkloadDies, SocketTypeOK, SrcTypeOK, srcVars, sockVars
<1> QED
  BY SrcNext, <1>1, <1>2, <1>3, <1>4, <1>5, <1>6, <1>7, <1>8, <1>9, <1>10, <1>11, <1>12, <1>13, <1>14, <1>15, <1>16, <1>17, <1>18
  DEF SrcNext, ReadKVPairs, SendKVPairs

-------------------------------------------------------------------------------
(* The destination: DstTypeOK thread by thread *)

RingType == [0 .. NumQueues - 1 -> Seq(Pair \cup {Garbage}) \cup {Null}]

RecvTypeOK == recv_cnt \in 0 .. NumFiles /\ receiver \in ReceiverType

WriteTypeOK ==
  /\ write_cnt \in 0 .. NumFiles
  /\ writer \in WriterType
  /\ writer.pc \notin {"claim", "done"} => writer.file_num \in Files
  /\ sst_files \in [Files -> Seq(Pair \cup {Garbage})]
  /\ write_finished \in [Files -> BOOLEAN]

IngestTypeOK ==
  /\ ingest_cnt \in 0 .. NumFiles
  /\ ingester \in [pc : {"claim", "wait", "done"}, file_num : Files \cup {0}]
  /\ ingester.pc = "wait" => ingester.file_num \in Files
  /\ ingested \in Seq(Files)

\* The type invariant of the destination is that of its threads.
LEMMA DstTypeParts ==
  DstTypeOK <=> /\ RecvTypeOK /\ WriteTypeOK /\ IngestTypeOK
                /\ dst_kv_pairs \in RingType /\ mig_ended \in BOOLEAN
BY DEF DstTypeOK, RecvTypeOK, WriteTypeOK, IngestTypeOK, RingType, ReceiverType, WriterType

\* RecvKVPairs leaves the other threads' variables alone.
LEMMA RecvFrame == RecvKVPairs => UNCHANGED <<writeVars, ingestVars, mig_ended>>
BY DEF RecvKVPairs, RecvClaim, RecvFileNum, RecvFileNumEof, RecvAllocate, RecvSize, RecvSizeEof,
       RecvChunk, RecvChunkEof, RecvEnqueue, RecvNext, RecvDone

\* So does WriteKVPairs.
LEMMA WriteFrame == WriteKVPairs \/ WriteOpenFails => UNCHANGED <<recvVars, ingestVars, mig_ended>>
BY DEF WriteKVPairs, WriteClaim, WriteWait, WritePair, WriteFinish, WriteFree, WriteMark, WriteDone,
       WriteOpenFails

\* And so does IngestSstFiles.
LEMMA IngestFrame == IngestSstFiles \/ TransferEnd => UNCHANGED <<recvVars, dst_kv_pairs, writeVars>>
BY DEF IngestSstFiles, IngestClaim, IngestFile, IngestDone, TransferEnd

\* Every step of RecvKVPairs keeps the types of what it changes.
LEMMA RecvStepType ==
  ASSUME SocketTypeOK, DstTypeOK, RecvKVPairs
  PROVE  SocketTypeOK' /\ RecvTypeOK' /\ dst_kv_pairs' \in RingType
<1>a. RecvTypeOK /\ dst_kv_pairs \in RingType
      BY DstTypeParts
<1>1. CASE RecvClaim
  <2>1. recv_cnt + 1 \in 0 .. NumFiles
        BY <1>1, <1>a, SizesAssumption DEF RecvClaim, RecvTypeOK
  <2>2. receiver' \in ReceiverType
        BY <1>1 DEF RecvClaim, DstTypeOK, ReceiverType
  <2> QED
        BY <1>1, <1>a, <2>1, <2>2
        DEF RecvClaim, SocketTypeOK, sockVars, RecvTypeOK
<1>2. CASE RecvFileNum
  <2>1. Head(headers) \in Header /\ headers' \in Seq(Header)
        BY <1>2 DEF RecvFileNum, SocketTypeOK
  <2>2. Head(headers).val \in Nat
        BY <2>1 DEF Header
  <2>3. receiver' \in ReceiverType
        BY <1>2, <2>2 DEF RecvFileNum, DstTypeOK, ReceiverType
  <2>4. flags' \in Nat
        BY <1>2 DEF RecvFileNum, SocketTypeOK
  <2> QED
        BY <1>2, <1>a, <2>1, <2>2, <2>3, <2>4
        DEF RecvFileNum, SocketTypeOK, sockVars, RecvTypeOK
<1>3. CASE RecvFileNumEof
  <2>1. PICK f \in Files :
             receiver' = [receiver EXCEPT !.pc = "standby", !.file_num = f, !.eof = TRUE]
        BY <1>3 DEF RecvFileNumEof
  <2>2. f \in Nat /\ receiver \in ReceiverType
        BY <1>a, FilesType DEF RecvTypeOK
  <2>3. receiver' \in ReceiverType
        BY <2>1, <2>2 DEF ReceiverType
  <2> QED
        BY <1>3, <1>a, <2>3
        DEF RecvFileNumEof, SocketTypeOK, sockVars, RecvTypeOK
<1>4. CASE RecvAllocate
  <2>1. <<>> \in Seq(Pair \cup {Garbage}) \cup {Null}
        OBVIOUS
  <2>2. dst_kv_pairs' \in RingType
        BY <1>4, <2>1 DEF RecvAllocate, DstTypeOK, RingType
  <2>3. receiver' \in ReceiverType
        BY <1>4 DEF RecvAllocate, DstTypeOK, ReceiverType
  <2> QED
        BY <1>4, <1>a, <2>1, <2>2, <2>3
        DEF RecvAllocate, SocketTypeOK, sockVars, RecvTypeOK
<1>5. CASE RecvSize
  <2>1. Head(headers) \in Header /\ headers' \in Seq(Header)
        BY <1>5 DEF RecvSize, SocketTypeOK
  <2>2. Head(headers).val \in Nat
        BY <2>1 DEF Header
  <2>3. receiver' \in ReceiverType
        BY <1>5, <2>2 DEF RecvSize, DstTypeOK, ReceiverType
  <2> QED
        BY <1>5, <1>a, <2>1, <2>2, <2>3
        DEF RecvSize, SocketTypeOK, sockVars, RecvTypeOK
<1>6. CASE RecvSizeEof
  <2>1. PICK n \in Uninit :
             receiver' = [receiver EXCEPT !.pc = "data", !.data_size = n, !.recv_size = 0,
                                          !.kv_pair = Garbage, !.eof = TRUE]
        BY <1>6 DEF RecvSizeEof
  <2>2. n \in Nat
        BY SizesAssumption
  <2>3. receiver' \in ReceiverType
        BY <1>6, <2>1, <2>2 DEF RecvSizeEof, DstTypeOK, ReceiverType
  <2> QED
        BY <1>6, <1>a, <2>1, <2>2, <2>3
        DEF RecvSizeEof, SocketTypeOK, sockVars, RecvTypeOK
<1>7. CASE RecvChunk
  <2>1. Head(payload) \in Pair /\ Tail(payload) \in Seq(Pair)
        BY <1>7 DEF RecvChunk, SocketTypeOK, ReceiverAt
  <2>2. receiver.recv_size \in Nat /\ receiver.data_size \in Nat /\ receiver.kv_pair \in Pair \cup {Garbage}
        BY <1>7 DEF RecvChunk, DstTypeOK, ReceiverAt
  <2>3. PICK n \in 1 .. receiver.data_size - receiver.recv_size :
             \/ receiver' = [receiver EXCEPT !.recv_size = @ + n, !.kv_pair = Head(payload)]
             \/ receiver' = [receiver EXCEPT !.recv_size = @ + n, !.kv_pair = @]
        BY <1>7 DEF RecvChunk
  <2>4. n \in Nat
        BY <2>2
  <2>5. receiver \in ReceiverType /\ receiver.recv_size + n \in Nat
        BY <2>4 DEF DstTypeOK, ReceiverType
  <2>6. receiver' \in ReceiverType
        BY <2>1, <2>2, <2>3, <2>5 DEF ReceiverType
  <2>7. payload' \in Seq(Pair)
        BY <1>7, <2>1 DEF RecvChunk, SocketTypeOK
  <2> QED
        BY <1>7, <1>a, <2>1, <2>2, <2>3, <2>4, <2>5, <2>6, <2>7
        DEF RecvChunk, SocketTypeOK, sockVars, RecvTypeOK
<1>8. CASE RecvChunkEof
  <2>1. receiver' \in ReceiverType
        BY <1>8 DEF RecvChunkEof, DstTypeOK, ReceiverType
  <2> QED
        BY <1>8, <1>a, <2>1
        DEF RecvChunkEof, SocketTypeOK, sockVars, RecvTypeOK
<1>9. CASE RecvEnqueue
  <2>1. receiver.kv_pair \in Pair \cup {Garbage} /\ receiver.file_num \in Nat
        BY <1>9 DEF RecvEnqueue, DstTypeOK, ReceiverAt
  <2>2. dst_kv_pairs[ReceiverSlot] \in Seq(Pair \cup {Garbage})
        BY <1>9, <2>1, QueueNumType DEF RecvEnqueue, DstTypeOK, ReceiverSlot, ReceiverAt
  <2>3. Append(dst_kv_pairs[ReceiverSlot], receiver.kv_pair) \in Seq(Pair \cup {Garbage})
        BY <2>1, <2>2
  <2>4. dst_kv_pairs' \in RingType
        BY <1>9, <2>3 DEF RecvEnqueue, DstTypeOK, RingType
  <2>5. receiver' = [receiver EXCEPT !.pc = "size", !.pos = receiver.pos + 1]
        BY <1>9 DEF RecvEnqueue
  <2>6. receiver \in ReceiverType /\ receiver.pos + 1 \in Nat
        BY DEF DstTypeOK, ReceiverType
  <2>7. receiver' \in ReceiverType
        BY <2>5, <2>6 DEF ReceiverType
  <2> QED
        BY <1>9, <1>a, <2>1, <2>2, <2>3, <2>4, <2>5, <2>6, <2>7
        DEF RecvEnqueue, SocketTypeOK, sockVars, RecvTypeOK
<1>10. CASE RecvNext
  <2>1. receiver' \in ReceiverType
        BY <1>10 DEF RecvNext, DstTypeOK, ReceiverType
  <2> QED
        BY <1>10, <1>a, <2>1
        DEF RecvNext, SocketTypeOK, sockVars, RecvTypeOK
<1>11. CASE RecvDone
  <2>1. receiver' \in ReceiverType
        BY <1>11 DEF RecvDone, DstTypeOK, ReceiverType
  <2> QED
        BY <1>11, <1>a, <2>1
        DEF RecvDone, SocketTypeOK, sockVars, RecvTypeOK
<1> QED
  BY <1>1, <1>2, <1>3, <1>4, <1>5, <1>6, <1>7, <1>8, <1>9, <1>10, <1>11
  DEF RecvKVPairs

\* Every step of WriteKVPairs keeps the types of what it changes.
LEMMA WriteStepType ==
  ASSUME SocketTypeOK, DstTypeOK, WriteKVPairs \/ WriteOpenFails
  PROVE  SocketTypeOK' /\ WriteTypeOK' /\ dst_kv_pairs' \in RingType
<1>a. write_cnt < NumFiles => write_cnt \in Files /\ write_cnt + 1 \in 0 .. NumFiles
      BY SizesAssumption DEF DstTypeOK, Files
<1>b. WriteTypeOK /\ dst_kv_pairs \in RingType
      BY DstTypeParts
<1>1. CASE WriteClaim
  <2>1. write_cnt \in Files /\ write_cnt + 1 \in 0 .. NumFiles
        BY <1>1, <1>a DEF WriteClaim, WriterAt
  <2> QED
        BY <1>1, <1>b, <2>1
        DEF WriteClaim, SocketTypeOK, sockVars, WriteTypeOK, WriterType, WriterAt
<1>2. CASE WriteWait
      BY <1>2, <1>b
      DEF WriteWait, SocketTypeOK, sockVars, WriteTypeOK, WriterType, WriterAt
<1>3. CASE WritePair
  <2>1. writer.file_num \in Files
        BY <1>3 DEF WritePair, DstTypeOK, WriterAt
  <2>2. dst_kv_pairs[WriterSlot] \in Seq(Pair \cup {Garbage})
        BY <1>3, <2>1, FilesType, QueueNumType DEF WritePair, DstTypeOK, WriterSlot, WriterAt
  <2>3. /\ Head(dst_kv_pairs[WriterSlot]) \in Pair \cup {Garbage}
             /\ Tail(dst_kv_pairs[WriterSlot]) \in Seq(Pair \cup {Garbage})
        BY <1>3, <2>2 DEF WritePair, WriterAt
  <2>4. dst_kv_pairs' \in RingType
        BY <1>3, <2>3 DEF WritePair, DstTypeOK, RingType
  <2>5. sst_files[writer.file_num] \in Seq(Pair \cup {Garbage})
        BY <1>3, <2>1 DEF WritePair, DstTypeOK, WriterAt
  <2>6. Append(sst_files[writer.file_num], Head(dst_kv_pairs[WriterSlot])) \in Seq(Pair \cup {Garbage})
        BY <2>3, <2>5
  <2>7. sst_files' \in [Files -> Seq(Pair \cup {Garbage})]
        BY <1>3, <2>6 DEF WritePair, DstTypeOK
  <2>8. writer' = [writer EXCEPT !.pos = writer.pos + 1]
        BY <1>3 DEF WritePair
  <2>9. writer \in WriterType /\ writer.pos + 1 \in Nat
        BY DEF DstTypeOK, WriterType
  <2>10. writer' \in WriterType
        BY <2>8, <2>9 DEF WriterType
  <2> QED
        BY <1>3, <1>b, <2>1, <2>2, <2>3, <2>4, <2>5, <2>6, <2>7, <2>8, <2>9, <2>10
        DEF WritePair, SocketTypeOK, sockVars, WriteTypeOK, WriterType, WriterAt
<1>4. CASE WriteFinish
      BY <1>4, <1>b
      DEF WriteFinish, SocketTypeOK, sockVars, WriteTypeOK, WriterType, WriterAt
<1>5. CASE WriteFree
  <2>1. dst_kv_pairs' \in RingType
        BY <1>5 DEF WriteFree, DstTypeOK, RingType
  <2> QED
        BY <1>5, <1>b, <2>1
        DEF WriteFree, SocketTypeOK, sockVars, WriteTypeOK, WriterType, WriterAt
<1>6. CASE WriteMark
      BY <1>6, <1>b
      DEF WriteMark, SocketTypeOK, sockVars, WriteTypeOK, WriterType, WriterAt
<1>7. CASE WriteDone
      BY <1>7, <1>b
      DEF WriteDone, SocketTypeOK, sockVars, WriteTypeOK, WriterType, WriterAt
<1>8. CASE WriteOpenFails
  <2>1. write_cnt \in Files /\ write_cnt + 1 \in 0 .. NumFiles
        BY <1>8, <1>a DEF WriteOpenFails, WriterAt
  <2> QED
        BY <1>8, <1>b, <2>1
        DEF WriteOpenFails, SocketTypeOK, sockVars, WriteTypeOK, WriterType, WriterAt
<1> QED
  BY <1>1, <1>2, <1>3, <1>4, <1>5, <1>6, <1>7, <1>8
  DEF WriteKVPairs

\* Every step of IngestSstFiles, and the end of the transfer, keep the types of
\* what they change.
LEMMA IngestStepType ==
  ASSUME SocketTypeOK, DstTypeOK, IngestSstFiles \/ TransferEnd
  PROVE  SocketTypeOK' /\ IngestTypeOK' /\ mig_ended' \in BOOLEAN
<1>b. ingest_cnt < NumFiles => ingest_cnt \in Files /\ ingest_cnt + 1 \in 0 .. NumFiles
      BY SizesAssumption DEF DstTypeOK, Files
<1>c. IngestTypeOK /\ mig_ended \in BOOLEAN
      BY DstTypeParts
<1>1. CASE IngestClaim
  <2>1. ingest_cnt \in Files /\ ingest_cnt + 1 \in 0 .. NumFiles
        BY <1>1, <1>b DEF IngestClaim, IngesterAt
  <2> QED
        BY <1>1, <1>c, <2>1
        DEF IngestClaim, SocketTypeOK, sockVars, IngestTypeOK, ingestVars, IngesterAt
<1>2. CASE IngestFile
  <2>1. ingester.file_num \in Files
        BY <1>2 DEF IngestFile, DstTypeOK, IngesterAt
  <2>2. ingested' \in Seq(Files)
        BY <1>2, <2>1 DEF IngestFile, DstTypeOK
  <2> QED
        BY <1>2, <1>c, <2>1, <2>2
        DEF IngestFile, SocketTypeOK, sockVars, IngestTypeOK, ingestVars, IngesterAt
<1>3. CASE IngestDone
      BY <1>3, <1>c
      DEF IngestDone, SocketTypeOK, sockVars, IngestTypeOK, ingestVars, IngesterAt
<1>4. CASE TransferEnd
      BY <1>4, <1>c
      DEF TransferEnd, SocketTypeOK, sockVars, IngestTypeOK, ingestVars, IngesterAt
<1> QED
  BY <1>1, <1>2, <1>3, <1>4
  DEF IngestSstFiles

\* Every step of the destination keeps the types.
LEMMA DstStepType ==
  ASSUME SocketTypeOK, DstTypeOK, DstNext
  PROVE  SocketTypeOK' /\ DstTypeOK'
<1>a. /\ RecvTypeOK /\ WriteTypeOK /\ IngestTypeOK
      /\ dst_kv_pairs \in RingType /\ mig_ended \in BOOLEAN
      BY DstTypeParts
<1>b. /\ UNCHANGED recvVars => RecvTypeOK'
      /\ UNCHANGED writeVars => WriteTypeOK'
      /\ UNCHANGED ingestVars => IngestTypeOK'
      BY <1>a DEF RecvTypeOK, WriteTypeOK, IngestTypeOK, recvVars, writeVars, ingestVars
<1>c. ASSUME RecvTypeOK', WriteTypeOK', IngestTypeOK',
             dst_kv_pairs' \in RingType, mig_ended' \in BOOLEAN
      PROVE  DstTypeOK'
  <2>1. (RecvTypeOK /\ WriteTypeOK /\ IngestTypeOK
          /\ dst_kv_pairs \in RingType /\ mig_ended \in BOOLEAN)' => DstTypeOK'
        BY DstTypeParts, PTL
  <2> QED
        BY <1>c, <2>1
<1>1. CASE RecvKVPairs
      BY <1>1, <1>a, <1>b, <1>c, RecvFrame, RecvStepType
<1>2. CASE WriteKVPairs \/ WriteOpenFails
      BY <1>2, <1>a, <1>b, <1>c, WriteFrame, WriteStepType
<1>3. CASE IngestSstFiles \/ TransferEnd
      BY <1>3, <1>a, <1>b, <1>c, IngestFrame, IngestStepType
<1>4. CASE RecvReset \/ WriteFails \/ IngestFails \/ DstWorkloadDies
  <2>1. UNCHANGED dstVars /\ UNCHANGED <<headers, flags, payload, src_up>> /\ dst_up' = FALSE
        BY <1>4 DEF RecvReset, WriteFails, IngestFails, DstWorkloadDies
  <2>2. SocketTypeOK'
        BY <2>1 DEF SocketTypeOK
  <2> QED
        BY <2>1, <2>2 DEF dstVars, DstTypeOK
<1> QED
  BY <1>1, <1>2, <1>3, <1>4 DEF DstNext

\* Every step keeps the types.
LEMMA TypeStep == TypeOK /\ [Next]_vars => TypeOK'
<1> SUFFICES ASSUME TypeOK, [Next]_vars
             PROVE  TypeOK'
    OBVIOUS
<1>1. CASE SrcNext /\ UNCHANGED dstVars
  <2>1. SocketTypeOK' /\ SrcTypeOK'
        BY <1>1, SrcStepType DEF TypeOK
  <2>2. DstTypeOK'
        BY <1>1 DEF TypeOK, DstTypeOK, dstVars
  <2> QED
        BY <2>1, <2>2 DEF TypeOK
<1>2. CASE DstNext /\ UNCHANGED srcVars
  <2>1. SocketTypeOK' /\ DstTypeOK'
        BY <1>2, DstStepType DEF TypeOK
  <2>2. SrcTypeOK'
        BY <1>2 DEF TypeOK, SrcTypeOK, srcVars
  <2> QED
        BY <2>1, <2>2 DEF TypeOK
<1>3. CASE UNCHANGED vars
  <2>1. SocketTypeOK'
        BY <1>3 DEF TypeOK, SocketTypeOK, vars, sockVars
  <2>2. SrcTypeOK'
        BY <1>3 DEF TypeOK, SrcTypeOK, vars, srcVars
  <2>3. DstTypeOK'
        BY <1>3 DEF TypeOK, DstTypeOK, vars, dstVars
  <2> QED
        BY <2>1, <2>2, <2>3 DEF TypeOK
<1> QED
  BY <1>1, <1>2, <1>3 DEF Next

\* Every variable of the transfer keeps its type.
THEOREM TypeCorrect == Spec => []TypeOK
BY TypeInit, TypeStep, PTL DEF Spec

-------------------------------------------------------------------------------
(* The ring of the source *)

\* The counters and positions are numbers, and a thread at work has a file.
LEMMA CounterTypes ==
  ASSUME TypeOK
  PROVE  /\ NumQueues \in Nat \ {0} /\ Files \subseteq Nat
         /\ read_cnt \in Nat /\ send_cnt \in Nat
         /\ reader.file_num \in Nat /\ sender.file_num \in Nat
         /\ reader.pos \in Nat /\ sender.pos \in Nat
         /\ Allocated \in Int /\ Freed \in Int
<1>1. NumQueues \in Nat \ {0} /\ NumFiles \in Nat /\ Files \subseteq Nat
      BY SizesAssumption, FilesType
<1>2. read_cnt \in Nat /\ send_cnt \in Nat
      BY <1>1 DEF TypeOK, SrcTypeOK
<1>3. reader.file_num \in Nat /\ sender.file_num \in Nat
  <2>1. reader.file_num \in Files \cup {0} /\ sender.file_num \in Files \cup {0}
        BY DEF TypeOK, SrcTypeOK
  <2> QED
        BY <1>1, <2>1 DEF Files
<1>4. reader.pos \in Nat /\ sender.pos \in Nat
      BY DEF TypeOK, SrcTypeOK
<1>5. Allocated \in Int /\ Freed \in Int
      BY <1>2 DEF Allocated, Freed
<1> QED
  BY <1>1, <1>2, <1>3, <1>4, <1>5

\* The files in the window are files of the source, and their number is bounded.
LEMMA WindowTypes ==
  ASSUME TypeOK, SrcRing
  PROVE  /\ Freed \in Nat /\ Allocated \in Nat /\ Allocated <= NumFiles
         /\ Freed .. Allocated - 1 \subseteq Files
<1>1. Freed \in Nat
      BY CounterTypes DEF Freed, SrcRing, SrcClaims
<1>2. Allocated \in Nat /\ Allocated <= NumFiles
      BY CounterTypes, SizesAssumption
      DEF Allocated, SrcRing, SrcClaims, TypeOK, SrcTypeOK
<1> QED
  BY <1>1, <1>2, SizesAssumption DEF Files

\* No two files in the window share a slot.
LEMMA WindowDistinct ==
  ASSUME TypeOK, SrcRing,
         NEW f \in Freed .. Allocated - 1, NEW g \in Freed .. Allocated - 1,
         QueueNum(f) = QueueNum(g)
  PROVE  f = g
<1>1. /\ Freed \in Nat /\ Allocated \in Nat /\ NumQueues \in Nat
      /\ Allocated <= Freed + NumQueues
      BY WindowTypes, CounterTypes DEF SrcRing, SrcWindow
<1>2. f \in Nat /\ g \in Nat /\ f < Freed + NumQueues /\ g < Freed + NumQueues
      BY <1>1
<1> QED
  BY <1>1, <1>2, SlotsDistinct

\* A queue in the window is a sequence of pairs.
LEMMA WindowQueue ==
  ASSUME TypeOK, SrcRing, NEW f \in Freed .. Allocated - 1
  PROVE  /\ QueueNum(f) \in 0 .. NumQueues - 1
         /\ src_kv_pairs[QueueNum(f)] \in Seq(Pair)
         /\ Enqueued(f) \in Nat /\ Dequeued(f) \in Nat
         /\ Dequeued(f) <= Enqueued(f) /\ Enqueued(f) <= Len(SstData[f])
<1>1. f \in Files /\ f \in Nat
      BY WindowTypes, FilesType
<1>2. QueueNum(f) \in 0 .. NumQueues - 1
      BY <1>1, QueueNumType
<1>3. src_kv_pairs[QueueNum(f)] \in Seq(Pair)
      BY <1>2 DEF TypeOK, SrcTypeOK, SrcRing, SrcQueues, QueueHolds
<1>4. Len(SstData[f]) \in Nat
      BY <1>1, LenType
<1>5. Enqueued(f) \in Nat /\ Enqueued(f) <= Len(SstData[f])
      BY <1>4, CounterTypes DEF Enqueued, SrcRing, SrcClaims
<1>6. Dequeued(f) \in Nat
      BY CounterTypes DEF Dequeued
<1>7. Len(src_kv_pairs[QueueNum(f)]) = Enqueued(f) - Dequeued(f)
      BY DEF SrcRing, SrcQueues, QueueHolds
<1>8. Len(src_kv_pairs[QueueNum(f)]) \in Nat
      BY <1>3
<1> QED
  BY <1>2, <1>3, <1>5, <1>6, <1>7, <1>8

\* Appending the next pair keeps a queue in order.
LEMMA InOrderAppend ==
  ASSUME NEW queue \in Seq(Pair), NEW f, NEW done \in Nat, NEW pair \in Pair,
         InOrder(queue, f, done), pair = <<f, done + Len(queue) + 1>>
  PROVE  /\ Append(queue, pair) \in Seq(Pair)
         /\ Len(Append(queue, pair)) = Len(queue) + 1
         /\ InOrder(Append(queue, pair), f, done)
<1>1. /\ Append(queue, pair) \in Seq(Pair) /\ Len(queue) \in Nat
      /\ Len(Append(queue, pair)) = Len(queue) + 1
      OBVIOUS
<1>2. ASSUME NEW k \in 1 .. Len(queue) + 1
      PROVE  Append(queue, pair)[k] = <<f, done + k>>
  <2>1. CASE k = Len(queue) + 1
    <3>1. Append(queue, pair)[k] = pair
          BY <2>1
    <3>2. done + k = done + Len(queue) + 1
          BY <1>1, <2>1
    <3> QED
          BY <3>1, <3>2
  <2>2. CASE k # Len(queue) + 1
    <3>1. k \in 1 .. Len(queue)
          BY <1>1, <2>2
    <3>2. Append(queue, pair)[k] = queue[k]
          BY <3>1
    <3> QED
          BY <3>1, <3>2 DEF InOrder
  <2> QED
        BY <2>1, <2>2
<1> QED
  BY <1>1, <1>2 DEF InOrder

\* So does taking its head, which is the next pair.
LEMMA InOrderTail ==
  ASSUME NEW queue \in Seq(Pair), NEW f, NEW done \in Nat,
         InOrder(queue, f, done), queue # <<>>
  PROVE  /\ Head(queue) = <<f, done + 1>>
         /\ Tail(queue) \in Seq(Pair)
         /\ Len(Tail(queue)) = Len(queue) - 1
         /\ InOrder(Tail(queue), f, done + 1)
<1>1. /\ Len(queue) \in Nat \ {0} /\ Head(queue) = queue[1]
      /\ Tail(queue) \in Seq(Pair) /\ Len(Tail(queue)) = Len(queue) - 1
      OBVIOUS
<1>2. Head(queue) = <<f, done + 1>>
      BY <1>1 DEF InOrder
<1>3. ASSUME NEW k \in 1 .. Len(queue) - 1
      PROVE  Tail(queue)[k] = <<f, (done + 1) + k>>
  <2>1. k + 1 \in 1 .. Len(queue) /\ Tail(queue)[k] = queue[k + 1]
        BY <1>1
  <2>2. done + (k + 1) = (done + 1) + k
        BY <1>1
  <2> QED
        BY <2>1, <2>2 DEF InOrder
<1> QED
  BY <1>1, <1>2, <1>3 DEF InOrder

\* The initial state.
LEMMA RingInit == Init => SrcRing
<1> SUFFICES ASSUME Init
             PROVE  SrcRing
    OBVIOUS
<1>1. Freed = 0 /\ Allocated = 0
      BY DEF Init, SrcInit, Freed, Allocated
<1>2. SrcClaims /\ SrcInHand
      BY DEF Init, SrcInit, SrcClaims, SrcInHand
<1>3. SrcWindow
      BY <1>1, SizesAssumption DEF Init, SrcInit, SrcWindow
<1>4. SrcQueues
      BY <1>1 DEF SrcQueues
<1> QED
  BY <1>2, <1>3, <1>4 DEF SrcRing

-------------------------------------------------------------------------------
(* Steps *)

\* A step that moves no file into or out of the window and touches no queue
\* leaves window and queues as they are.
LEMMA QuietStep ==
  ASSUME TypeOK, SrcRing,
         src_kv_pairs' = src_kv_pairs, Allocated' = Allocated, Freed' = Freed,
         \A f \in Freed .. Allocated - 1 :
           Enqueued(f)' = Enqueued(f) /\ Dequeued(f)' = Dequeued(f)
  PROVE  /\ SrcQueues'
         /\ Freed' <= Allocated' /\ Allocated' <= Freed' + NumQueues
         /\ \A q \in 0 .. NumQueues - 1 :
              src_kv_pairs'[q] # Null => \E f \in Freed' .. Allocated' - 1 : QueueNum(f) = q
<1>1. SrcQueues'
      BY DEF SrcRing, SrcQueues, QueueHolds, InOrder
<1> QED
  BY <1>1 DEF SrcRing, SrcWindow

\* The steps of ReadKVPairs that touch no queue.
LEMMA ReadQuietSteps ==
  ASSUME TypeOK, SrcRing, ReadClaim \/ ReadOpenFails \/ ReadNext \/ ReadDone
  PROVE  SrcRing'
<1>1. /\ UNCHANGED <<send_cnt, sender, src_kv_pairs>>
      /\ reader'.pos = reader.pos
      /\ \/ /\ reader.pc = "claim" /\ reader'.pc = "standby"
            /\ reader'.file_num = read_cnt /\ read_cnt' = read_cnt + 1
         \/ /\ reader.pc = "enqueue" /\ reader'.pc = "claim"
            /\ read_cnt' = read_cnt
            /\ reader.pos >= Len(SstData[reader.file_num])
            /\ reader.file_num \in Files
         \/ reader.pc = "claim" /\ reader'.pc = "done" /\ read_cnt' = read_cnt
      BY DEF ReadClaim, ReadOpenFails, ReadNext, ReadDone, ReaderAt, TypeOK, SrcTypeOK
<1>2. Allocated' = Allocated /\ Freed' = Freed
      BY <1>1, CounterTypes DEF Allocated, Freed
<1>3. \A f \in Freed .. Allocated - 1 : Enqueued(f)' = Enqueued(f) /\ Dequeued(f)' = Dequeued(f)
  <2>1. reader.pc = "enqueue" /\ reader'.pc = "claim" => reader.pos = Len(SstData[reader.file_num])
        BY <1>1, CounterTypes, LenType DEF SrcRing, SrcClaims
  <2> QED
        BY <1>1, <2>1 DEF Enqueued, Dequeued
<1>4. SrcClaims' /\ SrcInHand'
      BY <1>1 DEF SrcRing, SrcClaims, SrcInHand
<1>5. /\ sender'.pc \in {"pair", "size", "data"} => sender'.file_num < Allocated'
      /\ reader'.pc # "enqueue"
      BY <1>1, <1>2 DEF SrcRing, SrcWindow
<1> QED
  BY <1>1, <1>2, <1>3, <1>4, <1>5, QuietStep DEF SrcRing, SrcWindow

\* The steps of SendKVPairs that touch no queue.
LEMMA SendQuietSteps ==
  ASSUME TypeOK, SrcRing,
         \/ SendClaim \/ SendFileNum \/ SendRecvFlag \/ SendRecvFlagEof \/ SendWait
         \/ SendSize \/ SendPayload \/ SendDone
  PROVE  SrcRing'
<1>1. UNCHANGED <<read_cnt, reader, src_kv_pairs>>
      BY DEF SendClaim, SendFileNum, SendRecvFlag, SendRecvFlagEof, SendWait, SendSize,
             SendPayload, SendDone
<1>2. \/ /\ sender.pc = "claim" /\ sender'.pc = "announce"
         /\ send_cnt' = send_cnt + 1 /\ sender'.file_num = send_cnt /\ sender'.pos = 0
      \/ /\ sender.pc \in {"announce", "ack", "wait"} /\ sender'.pc \in {"ack", "wait"}
         /\ send_cnt' = send_cnt /\ sender'.file_num = sender.file_num
         /\ sender'.pos = sender.pos
      \/ sender' = sender /\ send_cnt' = send_cnt
      \/ /\ sender.pc = "wait" /\ sender'.pc = "pair"
         /\ send_cnt' = send_cnt /\ sender'.file_num = sender.file_num
         /\ sender'.pos = sender.pos
         /\ src_kv_pairs[SenderSlot] # Null
      \/ /\ sender.pc = "size" /\ sender'.pc = "data"
         /\ send_cnt' = send_cnt /\ sender'.file_num = sender.file_num
         /\ sender'.pos = sender.pos /\ sender'.kv_pair = sender.kv_pair
      \/ /\ sender.pc = "data" /\ sender'.pc = "pair"
         /\ send_cnt' = send_cnt /\ sender'.file_num = sender.file_num
         /\ sender'.pos = sender.pos + 1
      \/ /\ sender.pc = "claim" /\ sender'.pc = "done" /\ send_cnt' = send_cnt
  <2> USE DEF SenderAt, TypeOK, SrcTypeOK
  <2>1. CASE SendClaim
        BY <2>1 DEF SendClaim
  <2>2. CASE SendFileNum \/ SendRecvFlag
        BY <2>2 DEF SendFileNum, SendRecvFlag
  <2>3. CASE SendRecvFlagEof
        BY <2>3 DEF SendRecvFlagEof
  <2>4. CASE SendWait
        BY <2>4 DEF SendWait
  <2>5. CASE SendSize
        BY <2>5 DEF SendSize
  <2>6. CASE SendPayload
        BY <2>6 DEF SendPayload
  <2>7. CASE SendDone
        BY <2>7 DEF SendDone
  <2> QED
        BY <2>1, <2>2, <2>3, <2>4, <2>5, <2>6, <2>7
<1>3. send_cnt \in Nat /\ sender.pos \in Nat /\ sender.file_num \in Nat
      BY CounterTypes
<1>4. Allocated' = Allocated
      BY <1>1 DEF Allocated
<1>5. Freed' = Freed
      BY <1>2, <1>3 DEF Freed
<1>6. \A f \in Freed .. Allocated - 1 : Enqueued(f)' = Enqueued(f)
      BY <1>1 DEF Enqueued
<1>7. sender.pc \notin {"claim", "done"} => Freed = sender.file_num
      BY <1>3 DEF Freed, SrcRing, SrcClaims
<1>8. \A f \in Freed .. Allocated - 1 : Dequeued(f)' = Dequeued(f)
  <2>1. sender.pc \in {"announce", "ack", "wait"} => sender.pos = 0
        BY DEF SrcRing, SrcClaims
  <2> QED
        BY <1>2, <1>3, <2>1 DEF Dequeued
<1>9. SrcClaims'
      BY <1>1, <1>2, <1>3 DEF SrcRing, SrcClaims
<1>10. SrcInHand'
      BY <1>2 DEF SrcRing, SrcInHand
<1>11. sender'.pc \in {"pair", "size", "data"} => sender'.file_num < Allocated'
  <2>1. CASE sender.pc = "wait" /\ src_kv_pairs[SenderSlot] # Null
    <3>1. SenderSlot \in 0 .. NumQueues - 1
          BY <1>3, QueueNumType DEF SenderSlot
    <3>2. PICK f \in Freed .. Allocated - 1 : QueueNum(f) = SenderSlot
          BY <2>1, <3>1 DEF SrcRing, SrcWindow
    <3>3. Freed < Allocated
          BY <3>2, WindowTypes
    <3> QED
          BY <1>2, <1>4, <1>7, <2>1, <3>3
  <2>2. CASE sender.pc \in {"pair", "size", "data"}
        BY <1>2, <1>4, <2>2 DEF SrcRing, SrcWindow
  <2> QED
        BY <1>2, <2>1, <2>2
<1>12. reader'.pc = "enqueue" /\ reader'.file_num < Freed' => reader'.pos = Len(SstData[reader'.file_num])
      BY <1>1, <1>5 DEF SrcRing, SrcWindow
<1> QED
  BY <1>1, <1>4, <1>5, <1>6, <1>8, <1>9, <1>10, <1>11, <1>12, QuietStep DEF SrcRing, SrcWindow

\* A file that keeps its queue, its pairs enqueued and its pairs dequeued.
LEMMA QueueKept ==
  ASSUME NEW f, QueueHolds(f), src_kv_pairs'[QueueNum(f)] = src_kv_pairs[QueueNum(f)],
         Enqueued(f)' = Enqueued(f), Dequeued(f)' = Dequeued(f)
  PROVE  QueueHolds(f)'
BY DEF QueueHolds, InOrder

\* ReadKVPairs gives the next file an empty queue: the slot it found null is
\* that of no file in the window, so the window may grow by one.
LEMMA ReadAllocateStep ==
  ASSUME TypeOK, SrcRing, ReadAllocate
  PROVE  SrcRing'
<1> DEFINE a == reader.file_num
<1>1. /\ reader.pc = "standby" /\ reader'.pc = "enqueue"
      /\ reader'.file_num = a /\ reader'.pos = 0
      /\ UNCHANGED <<read_cnt, send_cnt, sender>>
      /\ src_kv_pairs[QueueNum(a)] = Null
      /\ src_kv_pairs' = [src_kv_pairs EXCEPT ![QueueNum(a)] = <<>>]
      BY DEF ReadAllocate, ReaderAt, ReaderSlot, TypeOK, SrcTypeOK
<1>2. /\ a \in Nat /\ QueueNum(a) \in 0 .. NumQueues - 1
      /\ NumQueues \in Nat \ {0} /\ Freed \in Nat
      BY CounterTypes, QueueNumType, WindowTypes
<1>3. read_cnt = a + 1 /\ Allocated = a /\ Allocated' = a + 1 /\ Freed' = Freed
      BY <1>1, <1>2 DEF Allocated, Freed, SrcRing, SrcClaims
<1>4. Freed <= a /\ a <= Freed + NumQueues
      BY <1>3 DEF SrcRing, SrcWindow
<1>5. a # Freed + NumQueues
  <2> SUFFICES ASSUME a = Freed + NumQueues
               PROVE  FALSE
      OBVIOUS
  <2>1. QueueNum(a) = QueueNum(Freed)
        BY <1>2, ModShift DEF QueueNum
  <2>2. Freed \in Freed .. Allocated - 1
        BY <1>2, <1>3
  <2>3. src_kv_pairs[QueueNum(Freed)] # Null
        BY <2>2 DEF SrcRing, SrcQueues, QueueHolds
  <2> QED
        BY <1>1, <2>1, <2>3
<1>6. a < Freed + NumQueues
      BY <1>2, <1>4, <1>5
<1>7. /\ src_kv_pairs'[QueueNum(a)] = <<>>
      /\ \A q \in 0 .. NumQueues - 1 : q # QueueNum(a) => src_kv_pairs'[q] = src_kv_pairs[q]
      BY <1>1, <1>2 DEF TypeOK, SrcTypeOK
<1>8. SrcClaims' /\ SrcInHand'
  <2>1. Len(SstData[a]) \in Nat
        BY <1>1, LenType DEF TypeOK, SrcTypeOK
  <2> QED
        BY <1>1, <1>3, <2>1 DEF SrcRing, SrcClaims, SrcInHand
<1>9. SrcWindow'
  <2>1. Freed' <= Allocated' /\ Allocated' <= Freed' + NumQueues
        BY <1>2, <1>3, <1>4, <1>6
  <2>2. ASSUME NEW q \in 0 .. NumQueues - 1, src_kv_pairs'[q] # Null
        PROVE  \E f \in Freed' .. Allocated' - 1 : QueueNum(f) = q
    <3>1. CASE q = QueueNum(a)
          BY <3>1, <1>2, <1>3, <1>4
    <3>2. CASE q # QueueNum(a)
      <4>1. PICK f \in Freed .. Allocated - 1 : QueueNum(f) = q
            BY <2>2, <3>2, <1>7 DEF SrcRing, SrcWindow
      <4>2. f \in Freed' .. Allocated' - 1
            BY <1>2, <1>3
      <4> QED
            BY <4>1, <4>2
    <3> QED
          BY <3>1, <3>2
  <2>3. sender'.pc \in {"pair", "size", "data"} => sender'.file_num < Allocated'
        BY <1>1, <1>2, <1>3, CounterTypes DEF SrcRing, SrcWindow
  <2>4. ~(reader'.pc = "enqueue" /\ reader'.file_num < Freed')
        BY <1>1, <1>2, <1>3, <1>4
  <2> QED
        BY <2>1, <2>2, <2>3, <2>4 DEF SrcWindow
<1>10. SrcQueues'
  <2> SUFFICES ASSUME NEW f \in Freed .. a
               PROVE  QueueHolds(f)'
      BY <1>2, <1>3 DEF SrcQueues
  <2>1. CASE f = a
    <3>1. Enqueued(f)' = 0
          BY <2>1, <1>1 DEF Enqueued
    <3>2. Dequeued(f)' = 0
          BY <2>1, <1>1, <1>2, <1>3 DEF Dequeued, SrcRing, SrcWindow
    <3>3. <<>> # Null
      <4>1. <<>> \in Seq(Pair)
            OBVIOUS
      <4> QED
            BY <4>1, QueueNotNull
    <3> QED
          BY <2>1, <1>7, <3>1, <3>2, <3>3 DEF QueueHolds, InOrder
  <2>2. CASE f # a
    <3>1. f \in Freed .. Allocated - 1 /\ f \in Nat
          BY <2>2, <1>2, <1>3
    <3>2. QueueNum(f) # QueueNum(a)
          BY <2>2, <1>2, <1>4, <1>6, <3>1, SlotsDistinct
    <3>3. QueueNum(f) \in 0 .. NumQueues - 1
          BY <3>1, QueueNumType
    <3>4. Enqueued(f)' = Enqueued(f) /\ Dequeued(f)' = Dequeued(f)
          BY <2>2, <1>1 DEF Enqueued, Dequeued
    <3>5. QueueHolds(f)
          BY <3>1 DEF SrcRing, SrcQueues
    <3> QED
          BY <3>2, <3>3, <3>4, <3>5, <1>7, QueueKept
  <2> QED
        BY <2>1, <2>2
<1> QED
  BY <1>8, <1>9, <1>10 DEF SrcRing

\* ReadKVPairs appends the next pair to the queue of its file, which is the
\* last of the window.
LEMMA ReadEnqueueStep ==
  ASSUME TypeOK, SrcRing, ReadEnqueue
  PROVE  SrcRing'
<1> DEFINE a == reader.file_num
           pair == <<a, reader.pos + 1>>
<1>1. /\ reader.pc = "enqueue" /\ reader'.pc = "enqueue"
      /\ reader'.file_num = a /\ reader'.pos = reader.pos + 1
      /\ reader.pos < Len(SstData[a])
      /\ UNCHANGED <<read_cnt, send_cnt, sender>>
      /\ src_kv_pairs[QueueNum(a)] # Null
      /\ src_kv_pairs' = [src_kv_pairs EXCEPT ![QueueNum(a)] = Append(@, pair)]
      BY DEF ReadEnqueue, ReaderAt, ReaderSlot, TypeOK, SrcTypeOK
<1>2. /\ a \in Nat /\ a \in Files /\ reader.pos \in Nat /\ Len(SstData[a]) \in Nat
      /\ QueueNum(a) \in 0 .. NumQueues - 1
      /\ Freed \in Nat /\ Allocated \in Nat
  <2>1. a \in Files
        BY <1>1 DEF TypeOK, SrcTypeOK
  <2> QED
        BY <2>1, CounterTypes, QueueNumType, WindowTypes, LenType
<1>3. Allocated = a + 1 /\ Allocated' = Allocated /\ Freed' = Freed
      BY <1>1, <1>2 DEF Allocated, Freed, SrcRing, SrcClaims
<1>4. Freed <= a
      BY <1>1, <1>2 DEF SrcRing, SrcWindow
<1>5. a \in Freed .. Allocated - 1
      BY <1>2, <1>3, <1>4
<1>6. pair \in Pair
      BY <1>1, <1>2, PairType
<1>7. /\ src_kv_pairs[QueueNum(a)] \in Seq(Pair)
      /\ Dequeued(a) \in Nat /\ QueueHolds(a)
      BY <1>5, WindowQueue DEF SrcRing, SrcQueues
<1>8. /\ src_kv_pairs'[QueueNum(a)] = Append(src_kv_pairs[QueueNum(a)], pair)
      /\ src_kv_pairs'[QueueNum(a)] # Null
      /\ \A q \in 0 .. NumQueues - 1 : q # QueueNum(a) => src_kv_pairs'[q] = src_kv_pairs[q]
  <2>1. src_kv_pairs'[QueueNum(a)] = Append(src_kv_pairs[QueueNum(a)], pair)
        BY <1>1, <1>2 DEF TypeOK, SrcTypeOK
  <2>2. Append(src_kv_pairs[QueueNum(a)], pair) \in Seq(Pair)
        BY <1>6, <1>7
  <2>3. \A q \in 0 .. NumQueues - 1 : q # QueueNum(a) => src_kv_pairs'[q] = src_kv_pairs[q]
        BY <1>1, <1>2 DEF TypeOK, SrcTypeOK
  <2> QED
        BY <2>1, <2>2, <2>3, QueueNotNull
<1>9. SrcClaims' /\ SrcInHand'
      BY <1>1, <1>2 DEF SrcRing, SrcClaims, SrcInHand
<1>10. SrcWindow'
  <2>1. Freed' <= Allocated' /\ Allocated' <= Freed' + NumQueues
        BY <1>3 DEF SrcRing, SrcWindow
  <2>2. ASSUME NEW q \in 0 .. NumQueues - 1, src_kv_pairs'[q] # Null
        PROVE  \E f \in Freed' .. Allocated' - 1 : QueueNum(f) = q
        BY <2>2, <1>1, <1>3, <1>8 DEF SrcRing, SrcWindow
  <2>3. sender'.pc \in {"pair", "size", "data"} => sender'.file_num < Allocated'
        BY <1>1, <1>3 DEF SrcRing, SrcWindow
  <2>4. ~(reader'.file_num < Freed')
        BY <1>1, <1>2, <1>3, <1>4
  <2> QED
        BY <2>1, <2>2, <2>3, <2>4 DEF SrcWindow
<1>11. SrcQueues'
  <2> SUFFICES ASSUME NEW f \in Freed .. Allocated - 1
               PROVE  QueueHolds(f)'
      BY <1>3 DEF SrcQueues
  <2>1. CASE f = a
    <3> DEFINE old == src_kv_pairs[QueueNum(f)]
    <3>1. Enqueued(f) = reader.pos /\ Enqueued(f)' = reader.pos + 1
          BY <2>1, <1>1 DEF Enqueued
    <3>2. Dequeued(f)' = Dequeued(f) /\ Dequeued(f) \in Nat
          BY <2>1, <1>1, <1>7 DEF Dequeued
    <3>3. /\ old \in Seq(Pair) /\ Len(old) = reader.pos - Dequeued(f)
          /\ InOrder(old, f, Dequeued(f))
          BY <2>1, <1>7, <3>1 DEF QueueHolds
    <3>4. Dequeued(f) + Len(old) + 1 = reader.pos + 1
          BY <1>2, <3>2, <3>3
    <3>5. src_kv_pairs'[QueueNum(f)] = Append(old, pair) /\ pair = <<f, Dequeued(f) + Len(old) + 1>>
          BY <2>1, <1>8, <3>4
    <3>6. Len(Append(old, pair)) = Len(old) + 1 /\ InOrder(Append(old, pair), f, Dequeued(f))
          BY <1>6, <3>2, <3>3, <3>5, InOrderAppend
    <3>7. Len(old) + 1 = Enqueued(f)' - Dequeued(f)'
          BY <1>2, <3>1, <3>2, <3>3
    <3>8. src_kv_pairs'[QueueNum(f)] # Null
          BY <2>1, <1>8
    <3> HIDE DEF pair, old
    <3> QED
          BY <3>2, <3>5, <3>6, <3>7, <3>8 DEF QueueHolds, InOrder
  <2>2. CASE f # a
    <3>1. QueueNum(f) # QueueNum(a)
          BY <2>2, <1>5, WindowDistinct
    <3>2. QueueNum(f) \in 0 .. NumQueues - 1
          BY WindowQueue
    <3>3. Enqueued(f)' = Enqueued(f) /\ Dequeued(f)' = Dequeued(f)
          BY <2>2, <1>1 DEF Enqueued, Dequeued
    <3>4. QueueHolds(f)
          BY DEF SrcRing, SrcQueues
    <3> QED
          BY <3>1, <3>2, <3>3, <3>4, <1>8, QueueKept
  <2> QED
        BY <2>1, <2>2
<1> QED
  BY <1>9, <1>10, <1>11 DEF SrcRing

\* SendKVPairs takes the head of the queue of its file, the first of the window.
LEMMA SendDequeueStep ==
  ASSUME TypeOK, SrcRing, SendDequeue
  PROVE  SrcRing'
<1> DEFINE a == sender.file_num
           old == src_kv_pairs[QueueNum(a)]
<1>1. /\ sender.pc = "pair" /\ sender'.pc = "size"
      /\ sender'.file_num = a /\ sender'.pos = sender.pos
      /\ sender'.kv_pair = Head(old)
      /\ UNCHANGED <<read_cnt, reader, send_cnt>>
      /\ old # <<>>
      /\ src_kv_pairs' = [src_kv_pairs EXCEPT ![QueueNum(a)] = Tail(@)]
      BY DEF SendDequeue, SenderAt, SenderSlot, TypeOK, SrcTypeOK
<1>2. /\ a \in Nat /\ sender.pos \in Nat /\ QueueNum(a) \in 0 .. NumQueues - 1
      /\ Freed \in Nat /\ Allocated \in Nat
      BY CounterTypes, QueueNumType, WindowTypes
<1>3. Freed = a /\ Allocated' = Allocated /\ Freed' = Freed /\ a < Allocated
      BY <1>1, <1>2 DEF Allocated, Freed, SrcRing, SrcClaims, SrcWindow
<1>4. a \in Freed .. Allocated - 1
      BY <1>2, <1>3
<1>5. /\ old \in Seq(Pair) /\ Enqueued(a) \in Nat
      /\ Dequeued(a) = sender.pos
      /\ Len(old) = Enqueued(a) - sender.pos
      /\ InOrder(old, a, sender.pos)
  <2>1. old \in Seq(Pair) /\ Enqueued(a) \in Nat /\ QueueHolds(a)
        BY <1>4, WindowQueue DEF SrcRing, SrcQueues
  <2>2. Dequeued(a) = sender.pos
        BY <1>1 DEF Dequeued
  <2> QED
        BY <2>1, <2>2 DEF QueueHolds
<1>6. /\ Head(old) = <<a, sender.pos + 1>>
      /\ Tail(old) \in Seq(Pair)
      /\ Len(Tail(old)) = Len(old) - 1
      /\ InOrder(Tail(old), a, sender.pos + 1)
      BY <1>1, <1>2, <1>5, InOrderTail
<1>7. /\ src_kv_pairs'[QueueNum(a)] = Tail(old)
      /\ \A q \in 0 .. NumQueues - 1 : q # QueueNum(a) => src_kv_pairs'[q] = src_kv_pairs[q]
      BY <1>1, <1>2 DEF TypeOK, SrcTypeOK
<1>8. SrcClaims' /\ SrcInHand'
      BY <1>1, <1>6 DEF SrcRing, SrcClaims, SrcInHand
<1>9. SrcWindow'
  <2>1. Freed' <= Allocated' /\ Allocated' <= Freed' + NumQueues
        BY <1>3 DEF SrcRing, SrcWindow
  <2>2. ASSUME NEW q \in 0 .. NumQueues - 1, src_kv_pairs'[q] # Null
        PROVE  \E f \in Freed' .. Allocated' - 1 : QueueNum(f) = q
    <3>1. CASE q = QueueNum(a)
          BY <3>1, <1>3, <1>4
    <3>2. CASE q # QueueNum(a)
          BY <2>2, <3>2, <1>3, <1>7 DEF SrcRing, SrcWindow
    <3> QED
          BY <3>1, <3>2
  <2>3. sender'.pc \in {"pair", "size", "data"} => sender'.file_num < Allocated'
        BY <1>1, <1>3
  <2>4. reader'.pc = "enqueue" /\ reader'.file_num < Freed' =>
          reader'.pos = Len(SstData[reader'.file_num])
        BY <1>1, <1>3 DEF SrcRing, SrcWindow
  <2> QED
        BY <2>1, <2>2, <2>3, <2>4 DEF SrcWindow
<1>10. SrcQueues'
  <2> SUFFICES ASSUME NEW f \in Freed .. Allocated - 1
               PROVE  QueueHolds(f)'
      BY <1>3 DEF SrcQueues
  <2>1. Enqueued(f)' = Enqueued(f)
        BY <1>1 DEF Enqueued
  <2>2. CASE f = a
    <3>1. Dequeued(f)' = sender.pos + 1
          BY <2>2, <1>1 DEF Dequeued
    <3>2. /\ src_kv_pairs'[QueueNum(f)] = Tail(old)
          /\ InOrder(Tail(old), f, sender.pos + 1)
          BY <2>2, <1>6, <1>7
    <3>3. Tail(old) # Null
          BY <1>6, QueueNotNull
    <3>4. Len(Tail(old)) = Enqueued(f)' - Dequeued(f)'
          BY <2>1, <2>2, <3>1, <1>2, <1>5, <1>6
    <3> HIDE DEF old
    <3> QED
          BY <3>1, <3>2, <3>3, <3>4 DEF QueueHolds, InOrder
  <2>3. CASE f # a
    <3>1. QueueNum(f) # QueueNum(a)
          BY <2>3, <1>4, WindowDistinct
    <3>2. QueueNum(f) \in 0 .. NumQueues - 1
          BY WindowQueue
    <3>3. Dequeued(f)' = Dequeued(f)
          BY <2>3, <1>1 DEF Dequeued
    <3>4. QueueHolds(f)
          BY DEF SrcRing, SrcQueues
    <3> QED
          BY <2>1, <3>1, <3>2, <3>3, <3>4, <1>7, QueueKept
  <2> QED
        BY <2>2, <2>3
<1> QED
  BY <1>8, <1>9, <1>10 DEF SrcRing

\* SendKVPairs frees the queue of the first file of the window, which by then
\* has been enqueued completely: num_entries is no less than its pairs.
LEMMA SendFreeStep ==
  ASSUME TypeOK, SrcRing, SendFree
  PROVE  SrcRing'
<1> DEFINE a == sender.file_num
<1>1. /\ sender.pc = "pair" /\ sender'.pc = "claim" /\ sender'.file_num = a
      /\ sender.pos >= NumEntries[a] /\ a \in Files
      /\ UNCHANGED <<read_cnt, reader, send_cnt>>
      /\ src_kv_pairs' = [src_kv_pairs EXCEPT ![QueueNum(a)] = Null]
      BY DEF SendFree, SenderAt, SenderSlot, TypeOK, SrcTypeOK
<1>2. /\ a \in Nat /\ sender.pos \in Nat /\ reader.pos \in Nat
      /\ reader.file_num \in Nat /\ NumQueues \in Nat
      /\ QueueNum(a) \in 0 .. NumQueues - 1
      /\ Freed \in Nat /\ Allocated \in Nat
      BY CounterTypes, QueueNumType, WindowTypes
<1>3. /\ Freed = a /\ Freed' = a + 1 /\ Allocated' = Allocated /\ a < Allocated
      /\ Allocated <= a + NumQueues
      BY <1>1, <1>2 DEF Allocated, Freed, SrcRing, SrcClaims, SrcWindow
<1>4. a \in Freed .. Allocated - 1
      BY <1>2, <1>3
<1>5. /\ src_kv_pairs'[QueueNum(a)] = Null
      /\ \A q \in 0 .. NumQueues - 1 : q # QueueNum(a) => src_kv_pairs'[q] = src_kv_pairs[q]
      BY <1>1, <1>2 DEF TypeOK, SrcTypeOK
<1>6. reader.pc = "enqueue" /\ reader.file_num = a => reader.pos = Len(SstData[a])
  <2>1. Enqueued(a) \in Nat /\ sender.pos <= Enqueued(a) /\ Enqueued(a) <= Len(SstData[a])
    <3>1. Dequeued(a) = sender.pos
          BY <1>1 DEF Dequeued
    <3> QED
          BY <1>4, <3>1, WindowQueue
  <2>2. /\ Len(SstData[a]) \in Nat /\ NumEntries[a] \in Nat
        /\ Len(SstData[a]) <= NumEntries[a]
        BY <1>1, LenType
  <2>3. Enqueued(a) = Len(SstData[a])
        BY <1>1, <1>2, <2>1, <2>2
  <2> QED
        BY <2>3 DEF Enqueued
<1>7. SrcClaims' /\ SrcInHand'
      BY <1>1 DEF SrcRing, SrcClaims, SrcInHand
<1>8. SrcWindow'
  <2>1. Freed' <= Allocated' /\ Allocated' <= Freed' + NumQueues
        BY <1>2, <1>3
  <2>2. ASSUME NEW q \in 0 .. NumQueues - 1, src_kv_pairs'[q] # Null
        PROVE  \E f \in Freed' .. Allocated' - 1 : QueueNum(f) = q
    <3>1. q # QueueNum(a) /\ src_kv_pairs[q] # Null
          BY <2>2, <1>5
    <3>2. PICK f \in Freed .. Allocated - 1 : QueueNum(f) = q
          BY <3>1 DEF SrcRing, SrcWindow
    <3>3. f # a
          BY <3>1, <3>2
    <3>4. f \in Freed' .. Allocated' - 1
          BY <3>3, <1>2, <1>3
    <3> QED
          BY <3>2, <3>4
  <2>3. sender'.pc \notin {"pair", "size", "data"}
        BY <1>1
  <2>4. reader'.pc = "enqueue" /\ reader'.file_num < Freed' =>
          reader'.pos = Len(SstData[reader'.file_num])
    <3>1. reader.file_num < a + 1 => reader.file_num = a \/ reader.file_num < a
          BY <1>2
    <3> QED
          BY <3>1, <1>1, <1>3, <1>6 DEF SrcRing, SrcWindow
  <2> QED
        BY <2>1, <2>2, <2>3, <2>4 DEF SrcWindow
<1>9. SrcQueues'
  <2> SUFFICES ASSUME NEW f \in a + 1 .. Allocated - 1
               PROVE  QueueHolds(f)'
      BY <1>3 DEF SrcQueues
  <2>1. f \in Freed .. Allocated - 1 /\ f # a
        BY <1>2, <1>3
  <2>2. QueueNum(f) # QueueNum(a)
        BY <2>1, <1>4, WindowDistinct
  <2>3. QueueNum(f) \in 0 .. NumQueues - 1
        BY <2>1, WindowQueue
  <2>4. Enqueued(f)' = Enqueued(f) /\ Dequeued(f)' = Dequeued(f)
        BY <2>1, <1>1 DEF Enqueued, Dequeued
  <2>5. QueueHolds(f)
        BY <2>1 DEF SrcRing, SrcQueues
  <2> QED
        BY <2>2, <2>3, <2>4, <2>5, <1>5, QueueKept
<1> QED
  BY <1>7, <1>8, <1>9 DEF SrcRing

-------------------------------------------------------------------------------
(* The theorems *)

\* Steps that leave the source's variables alone.
LEMMA IdleStep ==
  ASSUME TypeOK, SrcRing, UNCHANGED srcVars
  PROVE  SrcRing'
<1>1. UNCHANGED <<read_cnt, reader, send_cnt, sender, src_kv_pairs>>
      BY DEF srcVars
<1>2. Allocated' = Allocated /\ Freed' = Freed
      BY <1>1 DEF Allocated, Freed
<1>3. \A f \in Freed .. Allocated - 1 : Enqueued(f)' = Enqueued(f) /\ Dequeued(f)' = Dequeued(f)
      BY <1>1 DEF Enqueued, Dequeued
<1>4. SrcClaims' /\ SrcInHand'
      BY <1>1 DEF SrcRing, SrcClaims, SrcInHand
<1>5. /\ sender'.pc \in {"pair", "size", "data"} => sender'.file_num < Allocated'
      /\ reader'.pc = "enqueue" /\ reader'.file_num < Freed' =>
           reader'.pos = Len(SstData[reader'.file_num])
      BY <1>1, <1>2 DEF SrcRing, SrcWindow
<1> QED
  BY <1>1, <1>2, <1>3, <1>4, <1>5, QuietStep DEF SrcRing, SrcWindow

\* Every step keeps the ring.
LEMMA RingStep == TypeOK /\ SrcRing /\ [Next]_vars => SrcRing'
<1> SUFFICES ASSUME TypeOK, SrcRing, [Next]_vars
             PROVE  SrcRing'
    OBVIOUS
<1>1. CASE ReadClaim \/ ReadOpenFails \/ ReadNext \/ ReadDone
      BY <1>1, ReadQuietSteps
<1>2. CASE ReadAllocate
      BY <1>2, ReadAllocateStep
<1>3. CASE ReadEnqueue
      BY <1>3, ReadEnqueueStep
<1>4. CASE \/ SendClaim \/ SendFileNum \/ SendRecvFlag \/ SendRecvFlagEof \/ SendWait
           \/ SendSize \/ SendPayload \/ SendDone
      BY <1>4, SendQuietSteps
<1>5. CASE SendDequeue
      BY <1>5, SendDequeueStep
<1>6. CASE SendFree
      BY <1>6, SendFreeStep
<1>7. CASE SendBroken \/ SrcWorkloadDies
      BY <1>7, IdleStep DEF SendBroken, SrcWorkloadDies
<1>8. CASE UNCHANGED srcVars
      BY <1>8, IdleStep
<1>9. CASE UNCHANGED vars
      BY <1>9, IdleStep DEF vars, srcVars
<1> QED
  BY <1>1, <1>2, <1>3, <1>4, <1>5, <1>6, <1>7, <1>8, <1>9
  DEF Next, SrcNext, ReadKVPairs, SendKVPairs

\* ReadKVPairs and SendKVPairs agree on which files own a slot and on what is
\* in their queues (src sst.cc:31-37, 72-105).
THEOREM SrcRingCorrect == Spec => []SrcRing
BY RingInit, RingStep, TypeCorrect, PTL DEF Spec

\* The queue that SendKVPairs finds by file_num % num_queues is that of its
\* file, and so is the slot that ReadKVPairs dereferences.
THEOREM SrcSlotsCorrect == Spec => []SrcSlotsBelong
<1>1. TypeOK /\ SrcRing => SrcSlotsBelong
  <2> SUFFICES ASSUME TypeOK, SrcRing
               PROVE  SrcSlotsBelong
      OBVIOUS
  <2>1. ASSUME sender.pc = "pair"
        PROVE  /\ src_kv_pairs[SenderSlot] # Null
               /\ InOrder(src_kv_pairs[SenderSlot], sender.file_num, sender.pos)
    <3>1. sender.file_num \in Freed .. Allocated - 1
          BY <2>1, CounterTypes, WindowTypes DEF SrcRing, SrcClaims, SrcWindow, Freed
    <3>2. QueueHolds(sender.file_num)
          BY <3>1 DEF SrcRing, SrcQueues
    <3>3. Dequeued(sender.file_num) = sender.pos
          BY <2>1 DEF Dequeued
    <3> QED
          BY <3>2, <3>3 DEF QueueHolds, SenderSlot
  <2>2. ASSUME reader.pc = "enqueue", reader.pos < Len(SstData[reader.file_num])
        PROVE  src_kv_pairs[ReaderSlot] # Null
    <3>1. reader.file_num \in Freed .. Allocated - 1
      <4>1. reader.file_num \in Files /\ reader.file_num \in Nat /\ reader.pos \in Nat
            BY <2>2, CounterTypes DEF TypeOK, SrcTypeOK
      <4>2. Len(SstData[reader.file_num]) \in Nat
            BY <4>1, LenType
      <4>3. ~(reader.file_num < Freed)
            BY <2>2, <4>1, <4>2 DEF SrcRing, SrcWindow
      <4> QED
            BY <2>2, <4>1, <4>3, WindowTypes DEF SrcRing, SrcClaims, Allocated
    <3> QED
          BY <3>1 DEF SrcRing, SrcQueues, QueueHolds, ReaderSlot
  <2> QED
        BY <2>1, <2>2 DEF SrcSlotsBelong, SrcRing, SrcInHand
<1> QED
  BY <1>1, SrcRingCorrect, TypeCorrect, PTL

\* SendKVPairs runs out of pairs only at the deletions of a file, when it has
\* sent all of its pairs.
THEOREM StarvesCorrect == Spec => []OnlyDeletionsStarve
<1>1. TypeOK /\ SrcRing => OnlyDeletionsStarve
  <2> DEFINE f == sender.file_num
  <2> SUFFICES ASSUME TypeOK, SrcRing,
                      sender.pc = "pair",
                      read_cnt > f + 1 \/ (read_cnt = f + 1 /\ reader.pc \in {"claim", "done"}),
                      src_kv_pairs[SenderSlot] \in {Null, <<>>}
               PROVE  sender.pos = Len(SstData[f])
      BY DEF OnlyDeletionsStarve
  <2>1. f \in Freed .. Allocated - 1
        BY CounterTypes, WindowTypes DEF SrcRing, SrcClaims, SrcWindow, Freed
  <2>2. QueueHolds(f)
        BY <2>1 DEF SrcRing, SrcQueues
  <2>3. src_kv_pairs[QueueNum(f)] = <<>>
        BY <2>2 DEF QueueHolds, SenderSlot
  <2>4. Enqueued(f) - Dequeued(f) = 0
        BY <2>2, <2>3 DEF QueueHolds
  <2>5. Dequeued(f) = sender.pos
        BY DEF Dequeued
  <2>6. ~(reader.pc = "enqueue" /\ reader.file_num = f)
        BY CounterTypes DEF SrcRing, SrcClaims
  <2>7. Enqueued(f) = Len(SstData[f])
        BY <2>6 DEF Enqueued
  <2>8. f \in Files /\ sender.pos \in Nat /\ Len(SstData[f]) \in Nat
        BY CounterTypes, LenType DEF TypeOK, SrcTypeOK
  <2> QED
        BY <2>4, <2>5, <2>7, <2>8
<1> QED
  BY <1>1, SrcRingCorrect, TypeCorrect, PTL

-------------------------------------------------------------------------------
(* Places and runs *)

\* A place, the next one, and their order.
LEMMA PlaceFacts ==
  ASSUME NEW f \in Files, NEW n \in Nat
  PROVE  /\ f \in Nat /\ f + 1 \in 0 .. NumFiles
         /\ <<f, n>> \in Places /\ <<f + 1, 0>> \in Places
         /\ Place(f, n) \in Places
         /\ Before(<<f, n>>, Place(f, n))
         /\ PlaceAfter(<<f, n>>) = Place(f, n)
         /\ Place(f, 0) = <<f, 1>>
<1>1. /\ f \in Nat /\ f \in 0 .. NumFiles /\ f + 1 \in 0 .. NumFiles
      /\ NumEntries[f] \in Nat \ {0}
      BY SizesAssumption, DataAssumption DEF Files
<1>2. <<f, n>> \in Places /\ <<f + 1, 0>> \in Places /\ <<f, n + 1>> \in Places
      BY <1>1 DEF Places
<1>3. Place(f, n) \in Places
      BY <1>2 DEF Place
<1>4. f < f + 1 /\ n < n + 1
      BY <1>1
<1>5. Before(<<f, n>>, <<f, n + 1>>) /\ Before(<<f, n>>, <<f + 1, 0>>)
      BY <1>4 DEF Before
<1>6. Before(<<f, n>>, Place(f, n))
      BY <1>5 DEF Place
<1>7. Place(f, 0) = <<f, 1>>
      BY <1>1 DEF Place
<1> QED
  BY <1>1, <1>2, <1>3, <1>6, <1>7 DEF PlaceAfter

\* Before is a strict order.
LEMMA BeforeOrder ==
  ASSUME NEW p \in Nat \X Nat, NEW q \in Nat \X Nat, NEW r \in Nat \X Nat
  PROVE  /\ ~Before(p, p)
         /\ Before(p, q) => p # q
         /\ Before(p, q) /\ Before(q, r) => Before(p, r)
<1>1. /\ p[1] \in Nat /\ p[2] \in Nat /\ q[1] \in Nat /\ q[2] \in Nat
      /\ r[1] \in Nat /\ r[2] \in Nat
      OBVIOUS
<1>2. ~Before(p, p)
      BY <1>1 DEF Before
<1>3. Before(p, q) /\ Before(q, r) => Before(p, r)
      BY <1>1 DEF Before
<1> QED
  BY <1>2, <1>3

\* Places are pairs of numbers, and so are pairs of the source.
LEMMA PlacesType ==
  /\ Places \subseteq Nat \X Nat
  /\ Pair \subseteq Nat \X Nat
  /\ \A p \in Places : p = <<p[1], p[2]>> /\ p[1] \in Nat /\ p[2] \in Nat
  /\ \A p \in Pair : /\ p = <<p[1], p[2]>> /\ p[1] \in Files /\ p[2] \in Nat \ {0}
                     /\ p \in Places /\ p[2] <= NumEntries[p[1]]
<1>1. NumFiles \in Nat /\ Files \subseteq Nat /\ Files \subseteq 0 .. NumFiles
      BY SizesAssumption DEF Files
<1>2. Places \subseteq Nat \X Nat
      BY <1>1 DEF Places
<1>3. ASSUME NEW p \in Pair
      PROVE  /\ p = <<p[1], p[2]>> /\ p[1] \in Files /\ p[2] \in Nat \ {0}
             /\ p[2] <= NumEntries[p[1]]
  <2>1. p \in Files \X Nat /\ p[2] \in 1 .. Len(SstData[p[1]])
        BY DEF Pair
  <2>2. p = <<p[1], p[2]>> /\ p[1] \in Files
        BY <2>1
  <2>3. /\ Len(SstData[p[1]]) \in Nat /\ NumEntries[p[1]] \in Nat
        /\ Len(SstData[p[1]]) <= NumEntries[p[1]]
        BY <2>2, LenType
  <2>4. p[2] \in Nat \ {0} /\ p[2] <= NumEntries[p[1]]
        BY <2>1, <2>3
  <2> QED
        BY <2>2, <2>4
<1>4. Pair \subseteq Nat \X Nat /\ Pair \subseteq Places
      BY <1>1 DEF Pair, Places
<1> QED
  BY <1>2, <1>3, <1>4

\* A header sent lengthens the run by the sender's place.
LEMMA HeadersSend ==
  ASSUME NEW hs \in Seq(Header), NEW from, NEW to \in Places, NEW h \in Header,
         HeadersRun(hs, from, to), h = HeaderAt(to),
         to[1] \in Files, to[2] > 0 => to \in Pair
  PROVE  HeadersRun(Append(hs, h), from, PlaceAfter(to))
<1> DEFINE n == Len(hs)
           next == PlaceAfter(to)
<1>1. PICK at \in [1 .. n + 1 -> Places] :
        /\ at[1] = from
        /\ at[n + 1] = to
        /\ \A k \in 1 .. n :
             /\ hs[k] = HeaderAt(at[k])
             /\ at[k + 1] = PlaceAfter(at[k])
             /\ Before(at[k], to)
             /\ at[k][1] \in Files
             /\ at[k][2] > 0 => at[k] \in Pair
      BY DEF HeadersRun
<1>2. n \in Nat
      OBVIOUS
<1>3. to = <<to[1], to[2]>> /\ to[2] \in Nat
      BY PlacesType
<1>4. next \in Places /\ Before(to, next)
  <2>1. /\ Place(to[1], to[2]) \in Places /\ Before(<<to[1], to[2]>>, Place(to[1], to[2]))
        BY <1>3, PlaceFacts
  <2> QED
        BY <2>1, <1>3 DEF PlaceAfter
<1> DEFINE new == [k \in 1 .. n + 2 |-> IF k = n + 2 THEN next ELSE at[k]]
<1>5. new \in [1 .. n + 2 -> Places]
  <2>1. ASSUME NEW k \in 1 .. n + 2, k # n + 2
        PROVE  at[k] \in Places
    <3>1. k \in 1 .. n + 1
          BY <2>1, <1>2
    <3> QED
          BY <3>1
  <2> QED
        BY <2>1, <1>4
<1>6. Len(Append(hs, h)) = n + 1
      OBVIOUS
<1>7. new[1] = from /\ new[n + 2] = next
      BY <1>1, <1>2
<1>8. ASSUME NEW k \in 1 .. n + 1
      PROVE  /\ Append(hs, h)[k] = HeaderAt(new[k])
             /\ new[k + 1] = PlaceAfter(new[k])
             /\ Before(new[k], next)
             /\ new[k][1] \in Files
             /\ new[k][2] > 0 => new[k] \in Pair
  <2>a. k \in 1 .. n + 2 /\ k # n + 2
        BY <1>2
  <2>b. new[k] = at[k]
        BY <2>a
  <2>1. CASE k = n + 1
    <3>1. new[k] = to /\ new[k + 1] = next
          BY <2>1, <2>b, <1>1, <1>2
    <3>2. Append(hs, h)[k] = h
          BY <2>1
    <3> QED
          BY <3>1, <3>2, <1>4
  <2>2. CASE k # n + 1
    <3>1. k \in 1 .. n /\ k + 1 \in 1 .. n + 2 /\ k + 1 # n + 2
          BY <2>2, <1>2
    <3>2. new[k + 1] = at[k + 1]
          BY <3>1
    <3>3. Append(hs, h)[k] = hs[k]
          BY <3>1
    <3>4. Before(at[k], next)
      <4>1. at[k] \in Places /\ Before(at[k], to)
            BY <3>1, <1>1, <2>a
      <4> QED
            BY <4>1, <1>4, BeforeOrder, PlacesType
    <3> QED
          BY <3>1, <3>2, <3>3, <3>4, <2>b, <1>1
  <2> QED
        BY <2>1, <2>2
<1> HIDE DEF new, next, n
<1>9. n + 1 + 1 = n + 2
      BY <1>2
<1> QED
  BY <1>5, <1>6, <1>7, <1>8, <1>9 DEF HeadersRun, next

\* A header received is that of the receiver's place.
LEMMA HeadersRecv ==
  ASSUME NEW hs \in Seq(Header), NEW from, NEW to \in Places,
         HeadersRun(hs, from, to), hs # <<>>
  PROVE  /\ Head(hs) = HeaderAt(from)
         /\ from \in Places /\ from[1] \in Files
         /\ from[2] > 0 => from \in Pair
         /\ HeadersRun(Tail(hs), PlaceAfter(from), to)
<1> DEFINE n == Len(hs)
<1>1. PICK at \in [1 .. n + 1 -> Places] :
        /\ at[1] = from
        /\ at[n + 1] = to
        /\ \A k \in 1 .. n :
             /\ hs[k] = HeaderAt(at[k])
             /\ at[k + 1] = PlaceAfter(at[k])
             /\ Before(at[k], to)
             /\ at[k][1] \in Files
             /\ at[k][2] > 0 => at[k] \in Pair
      BY DEF HeadersRun
<1>2. /\ n \in Nat \ {0} /\ Head(hs) = hs[1]
      /\ Len(Tail(hs)) = n - 1
      /\ \A k \in 1 .. n - 1 : Tail(hs)[k] = hs[k + 1]
      OBVIOUS
<1>3. 1 \in 1 .. n /\ 1 \in 1 .. n + 1
      BY <1>2
<1> DEFINE new == [k \in 1 .. n |-> at[k + 1]]
<1>4. \A k \in 1 .. n : k + 1 \in 1 .. n + 1
      BY <1>2
<1>5. new \in [1 .. n -> Places]
      BY <1>4
<1>6. new[1] = PlaceAfter(from)
  <2>1. at[1 + 1] = PlaceAfter(at[1])
        BY <1>1, <1>3
  <2> QED
        BY <2>1, <1>1, <1>3
<1>7. new[n] = to
      BY <1>1, <1>2
<1>8. ASSUME NEW k \in 1 .. n - 1
      PROVE  /\ Tail(hs)[k] = HeaderAt(new[k])
             /\ new[k + 1] = PlaceAfter(new[k])
             /\ Before(new[k], to)
             /\ new[k][1] \in Files
             /\ new[k][2] > 0 => new[k] \in Pair
  <2>1. k \in 1 .. n /\ k + 1 \in 1 .. n
        BY <1>2
  <2>2. new[k] = at[k + 1] /\ new[k + 1] = at[(k + 1) + 1]
        BY <2>1
  <2> QED
        BY <2>1, <2>2, <1>1, <1>2
<1>9. n - 1 + 1 = n
      BY <1>2
<1> HIDE DEF new
<1>10. HeadersRun(Tail(hs), PlaceAfter(from), to)
  <2>1. Len(Tail(hs)) + 1 = n
        BY <1>2, <1>9
  <2> QED
        BY <1>2, <1>5, <1>6, <1>7, <1>8, <2>1 DEF HeadersRun
<1>11. from \in Places
      BY <1>1, <1>3
<1> QED
  BY <1>1, <1>2, <1>3, <1>10, <1>11

\* The receiver is never ahead of the sender, and is level with it exactly when
\* no header is on the way.
LEMMA HeadersOrder ==
  ASSUME NEW hs \in Seq(Header), NEW from, NEW to \in Places, HeadersRun(hs, from, to)
  PROVE  /\ from \in Places
         /\ hs = <<>> => from = to
         /\ hs # <<>> => Before(from, to)
         /\ from = to => hs = <<>>
<1>1. PICK at \in [1 .. Len(hs) + 1 -> Places] :
        /\ at[1] = from
        /\ at[Len(hs) + 1] = to
        /\ \A k \in 1 .. Len(hs) : Before(at[k], to)
      BY DEF HeadersRun
<1>2. Len(hs) \in Nat /\ (hs # <<>> => Len(hs) > 0) /\ (hs = <<>> => Len(hs) = 0)
      OBVIOUS
<1>3. 1 \in 1 .. Len(hs) + 1 /\ (hs # <<>> => 1 \in 1 .. Len(hs))
      BY <1>2
<1>4. from \in Places
      BY <1>1, <1>3
<1>5. hs = <<>> => from = to
      BY <1>1, <1>2
<1>6. hs # <<>> => Before(from, to)
      BY <1>1, <1>3
<1> QED
  BY <1>4, <1>5, <1>6, BeforeOrder, PlacesType

\* The same for the pairs.
LEMMA PairsSend ==
  ASSUME NEW ps \in Seq(Pair), NEW from, NEW to \in Pair, PairsRun(ps, from, to)
  PROVE  PairsRun(Append(ps, to), from, PairFrom(PlaceAfter(to)))
<1> DEFINE n == Len(ps)
           next == PairFrom(PlaceAfter(to))
<1>1. /\ n \in Nat /\ Append(ps, to) # <<>> /\ Len(Append(ps, to)) = n + 1
      /\ Append(ps, to)[n + 1] = to
      /\ \A k \in 1 .. n : Append(ps, to)[k] = ps[k] /\ ps[k] \in Pair
      OBVIOUS
<1>2. to = <<to[1], to[2]>> /\ to[1] \in Files /\ to[2] \in Nat /\ to[1] \in Nat
      BY PlacesType, FilesType
<1>3. next \in Nat \X Nat /\ Before(to, next)
  <2>1. next = <<to[1], to[2] + 1>> \/ next = <<to[1] + 1, 1>>
        BY <1>2 DEF PlaceAfter, Place, PairFrom
  <2>2. to[1] < to[1] + 1 /\ to[2] < to[2] + 1
        BY <1>2
  <2> QED
        BY <2>1, <2>2, <1>2 DEF Before
<1>4. Append(ps, to)[1] = from
  <2>1. CASE ps = <<>>
        BY <2>1 DEF PairsRun
  <2>2. CASE ps # <<>>
    <3>1. 1 \in 1 .. n
          BY <2>2
    <3> QED
          BY <3>1, <2>2, <1>1 DEF PairsRun
  <2> QED
        BY <2>1, <2>2
<1>5. ASSUME NEW k \in 1 .. n + 1
      PROVE  Before(Append(ps, to)[k], next)
  <2>1. CASE k = n + 1
        BY <2>1, <1>1, <1>3
  <2>2. CASE k # n + 1
    <3>1. k \in 1 .. n
          BY <2>2, <1>1
    <3>2. Before(ps[k], to) /\ ps[k] \in Pair
          BY <3>1 DEF PairsRun
    <3> QED
          BY <3>1, <3>2, <1>1, <1>3, BeforeOrder, PlacesType
  <2> QED
        BY <2>1, <2>2
<1>6. ASSUME NEW k \in 1 .. n
      PROVE  Append(ps, to)[k + 1] = PairFrom(PlaceAfter(Append(ps, to)[k]))
  <2>1. CASE k = n
    <3>1. ps # <<>>
          BY <2>1, <1>1
    <3> QED
          BY <2>1, <3>1, <1>1 DEF PairsRun
  <2>2. CASE k # n
    <3>1. k \in 1 .. n - 1 /\ k + 1 \in 1 .. n
          BY <2>2, <1>1
    <3> QED
          BY <3>1, <1>1 DEF PairsRun
  <2> QED
        BY <2>1, <2>2
<1>7. n + 1 - 1 = n
      BY <1>1
<1> HIDE DEF n, next
<1> QED
  BY <1>1, <1>4, <1>5, <1>6, <1>7 DEF PairsRun, next

LEMMA PairsRecv ==
  ASSUME NEW ps \in Seq(Pair), NEW from, NEW to, PairsRun(ps, from, to), ps # <<>>
  PROVE  /\ Head(ps) = from /\ from \in Pair
         /\ PairsRun(Tail(ps), PairFrom(PlaceAfter(from)), to)
<1> DEFINE n == Len(ps)
           rest == Tail(ps)
<1>1. /\ n \in Nat \ {0} /\ Head(ps) = ps[1] /\ ps[1] \in Pair
      /\ rest \in Seq(Pair) /\ Len(rest) = n - 1
      /\ \A k \in 1 .. n - 1 : rest[k] = ps[k + 1]
      OBVIOUS
<1>2. ps[1] = from
      BY DEF PairsRun
<1>3. rest = <<>> => PairFrom(PlaceAfter(from)) = to
  <2>1. rest = <<>> => n = 1
        BY <1>1
  <2> QED
        BY <2>1, <1>2 DEF PairsRun
<1>4. rest # <<>> => /\ rest[1] = PairFrom(PlaceAfter(from))
                     /\ PairFrom(PlaceAfter(rest[Len(rest)])) = to
  <2> SUFFICES ASSUME rest # <<>>
               PROVE  /\ rest[1] = PairFrom(PlaceAfter(from))
                      /\ PairFrom(PlaceAfter(rest[Len(rest)])) = to
      OBVIOUS
  <2>1. n - 1 \in 1 .. n - 1 /\ 1 \in 1 .. n - 1 /\ n - 1 + 1 = n
        BY <1>1
  <2>2. rest[n - 1] = ps[n] /\ rest[1] = ps[1 + 1]
        BY <1>1, <2>1
  <2>3. ps[1 + 1] = PairFrom(PlaceAfter(ps[1]))
        BY <2>1 DEF PairsRun
  <2>4. PairFrom(PlaceAfter(ps[n])) = to
        BY DEF PairsRun
  <2> QED
        BY <1>1, <1>2, <2>2, <2>3, <2>4
<1>5. ASSUME NEW k \in 1 .. n - 1
      PROVE  Before(rest[k], to)
  <2>1. k + 1 \in 1 .. n
        BY <1>1
  <2> QED
        BY <1>1, <2>1 DEF PairsRun
<1>6. ASSUME NEW k \in 1 .. n - 1 - 1
      PROVE  rest[k + 1] = PairFrom(PlaceAfter(rest[k]))
  <2>1. k \in 1 .. n - 1 /\ k + 1 \in 1 .. n - 1
        BY <1>1
  <2> QED
        BY <1>1, <2>1 DEF PairsRun
<1> HIDE DEF n, rest
<1> QED
  BY <1>1, <1>2, <1>3, <1>4, <1>5, <1>6 DEF PairsRun, rest

LEMMA PairsOrder ==
  ASSUME NEW ps \in Seq(Pair), NEW from, NEW to \in Nat \X Nat, PairsRun(ps, from, to)
  PROVE  /\ ps = <<>> => from = to
         /\ ps # <<>> => Before(from, to)
         /\ from = to => ps = <<>>
<1>1. ASSUME ps # <<>>
      PROVE  Before(from, to)
  <2>1. 1 \in 1 .. Len(ps)
        BY <1>1
  <2> QED
        BY <1>1, <2>1 DEF PairsRun
<1> QED
  BY <1>1, BeforeOrder DEF PairsRun

-------------------------------------------------------------------------------
(* The sender's steps *)

\* The sender stands at a place.
LEMMA SendPlaceType ==
  ASSUME TypeOK, SrcRing
  PROVE  SendPlace \in Places /\ SendPair \in Nat \X Nat
<1> DEFINE f == sender.file_num
<1>1. /\ send_cnt \in 0 .. NumFiles /\ sender.pos \in Nat
      /\ sender.pc \in {"claim", "announce", "ack", "wait", "pair", "size", "data", "done"}
      /\ sender.pc \notin {"claim", "done"} => f \in Files
      BY DEF TypeOK, SrcTypeOK
<1>2. <<send_cnt, 0>> \in Places
      BY <1>1 DEF Places
<1>3. ASSUME f \in Files
      PROVE  /\ <<f, 0>> \in Places /\ <<f, 1>> \in Places /\ <<f, sender.pos + 1>> \in Places
             /\ Place(f, sender.pos) \in Places /\ Place(f, sender.pos + 1) \in Places
  <2>1. 0 \in Nat /\ 1 \in Nat /\ sender.pos + 1 \in Nat
        BY <1>1
  <2> QED
        BY <1>1, <1>3, <2>1, PlaceFacts
<1>4. SendPlace \in Places
      BY <1>1, <1>2, <1>3 DEF SendPlace
<1>5. PairFrom(SendPlace) \in Nat \X Nat
      BY <1>4, PlacesType DEF PairFrom
<1>6. sender.pc = "data" => <<f, sender.pos + 1>> \in Nat \X Nat
      BY <1>1, <1>3, PlacesType
<1> QED
  BY <1>4, <1>5, <1>6 DEF SendPair

\* Nothing is sent: the sender keeps its places.
LEMMA SendStill ==
  ASSUME TypeOK, SrcRing,
         \/ SendClaim \/ SendRecvFlag \/ SendRecvFlagEof \/ SendWait \/ SendDequeue
         \/ SendFree \/ SendDone
  PROVE  SendPlace' = SendPlace /\ SendPair' = SendPair
<1>1. /\ sender \in SenderType /\ send_cnt \in Nat
      /\ sender.pc \notin {"claim", "done"} => sender.file_num \in Files /\ send_cnt = sender.file_num + 1
      /\ sender.pc \in {"announce", "ack", "wait"} => sender.pos = 0
      BY CounterTypes DEF TypeOK, SrcTypeOK, SenderType, SrcRing, SrcClaims
<1>2. \A f \in Files : NumEntries[f] \in Nat \ {0} /\ f \in Nat
      BY DataAssumption, FilesType
<1>3. CASE SendClaim
      BY <1>1, <1>3 DEF SendClaim, SenderAt, SendPlace, SendPair, SenderType
<1>4. CASE SendRecvFlag \/ SendRecvFlagEof
      BY <1>1, <1>4 DEF SendRecvFlag, SendRecvFlagEof, SenderAt, SendPlace, SendPair, SenderType
<1>5. CASE SendWait
  <2>1. Place(sender.file_num, sender.pos) = <<sender.file_num, 1>>
        BY <1>1, <1>5, PlaceFacts DEF SendWait, SenderAt
  <2> QED
        BY <1>1, <1>5, <2>1 DEF SendWait, SenderAt, SendPlace, SendPair, SenderType
<1>6. CASE SendDequeue
  <2>1. Place(sender.file_num, sender.pos) = <<sender.file_num, sender.pos + 1>>
        BY <1>6 DEF SendDequeue, Place
  <2> QED
        BY <1>1, <1>6, <2>1 DEF SendDequeue, SenderAt, SendPlace, SendPair, SenderType
<1>7. CASE SendFree
  <2>1. sender.pos \in Nat /\ NumEntries[sender.file_num] \in Nat /\ sender.pos >= NumEntries[sender.file_num]
        BY <1>1, <1>2, <1>7 DEF SendFree, SenderAt, SenderType
  <2>2. Place(sender.file_num, sender.pos) = <<send_cnt, 0>>
        BY <1>1, <1>7, <2>1 DEF SendFree, SenderAt, Place
  <2> QED
        BY <1>1, <1>7, <2>2 DEF SendFree, SenderAt, SendPlace, SendPair, SenderType
<1>8. CASE SendDone
      BY <1>1, <1>8 DEF SendDone, SenderAt, SendPlace, SendPair, SenderType
<1> QED
  BY <1>3, <1>4, <1>5, <1>6, <1>7, <1>8

\* A header is sent: it is that of the sender's place.
LEMMA SendsHeader ==
  ASSUME TypeOK, SrcRing, SendFileNum \/ SendSize
  PROVE  /\ headers' = Append(headers, HeaderAt(SendPlace)) /\ HeaderAt(SendPlace) \in Header
         /\ SendPlace[1] \in Files
         /\ SendPlace[2] > 0 => SendPlace \in Pair
         /\ SendPlace' = PlaceAfter(SendPlace) /\ SendPair' = SendPair
         /\ payload' = payload
<1> DEFINE f == sender.file_num
<1>1. /\ sender \in SenderType /\ f \in Files /\ f \in Nat /\ sender.pos \in Nat
      BY CounterTypes DEF TypeOK, SrcTypeOK, SenderType, SendFileNum, SendSize, SenderAt
<1>2. CASE SendFileNum
  <2>1. SendPlace = <<f, 0>>
        BY <1>2 DEF SendFileNum, SenderAt, SendPlace
  <2>2. HeaderAt(SendPlace) = FileNumHeader(f) /\ PlaceAfter(SendPlace) = <<f, 1>>
        BY <1>1, <2>1, PlaceFacts DEF HeaderAt, PlaceAfter
  <2>3. FileNumHeader(f) \in Header
        BY <1>1 DEF FileNumHeader, Header
  <2>4. sender'.pc = "ack" /\ sender'.file_num = f
        BY <1>1, <1>2 DEF SendFileNum, SenderType
  <2>5. SendPlace' = <<f, 1>>
        BY <2>4 DEF SendPlace
  <2>6. SendPair' = SendPair
        BY <1>2, <2>1, <2>4, <2>5 DEF SendPair, PairFrom, SendFileNum, SenderAt
  <2> QED
        BY <1>1, <1>2, <2>1, <2>2, <2>3, <2>5, <2>6 DEF SendFileNum
<1>3. CASE SendSize
  <2>1. SendPlace = <<f, sender.pos + 1>> /\ sender.pos + 1 # 0
        BY <1>1, <1>3 DEF SendSize, SenderAt, SendPlace
  <2>2. sender.kv_pair = SendPlace /\ sender.kv_pair \in Pair
        BY <1>3, <2>1 DEF SendSize, SenderAt, SrcRing, SrcInHand, TypeOK, SrcTypeOK
  <2>3. HeaderAt(SendPlace) = SizeHeader(PairSize(sender.kv_pair))
        BY <2>1, <2>2 DEF HeaderAt
  <2>4. SizeHeader(PairSize(sender.kv_pair)) \in Header
        BY <2>2, PairSizeType DEF SizeHeader, Header
  <2>5. sender'.pc = "data" /\ sender'.file_num = f /\ sender'.pos = sender.pos
        BY <1>1, <1>3 DEF SendSize, SenderType
  <2>a. PlaceAfter(SendPlace) = Place(f, sender.pos + 1)
        BY <2>1 DEF PlaceAfter
  <2>b. SendPlace' = Place(f, sender.pos + 1)
        BY <2>5 DEF SendPlace
  <2>6. SendPlace' = PlaceAfter(SendPlace)
        BY <2>a, <2>b
  <2>7. SendPair' = SendPair
        BY <1>3, <2>1, <2>5 DEF SendPair, PairFrom, SendSize, SenderAt
  <2> QED
        BY <1>1, <1>3, <2>1, <2>2, <2>3, <2>4, <2>6, <2>7 DEF SendSize
<1> QED
  BY <1>2, <1>3

\* The bytes of a pair are sent: it is the sender's next pair.
LEMMA SendsPair ==
  ASSUME TypeOK, SrcRing, SendPayload
  PROVE  /\ payload' = Append(payload, SendPair) /\ SendPair \in Pair
         /\ SendPlace' = SendPlace /\ SendPair' = PairFrom(PlaceAfter(SendPair))
         /\ headers' = headers
<1> DEFINE f == sender.file_num
<1>1. /\ sender \in SenderType /\ f \in Files /\ sender.pos \in Nat
      /\ sender.pc = "data"
      BY CounterTypes DEF TypeOK, SrcTypeOK, SenderType, SendPayload, SenderAt
<1>2. SendPair = <<f, sender.pos + 1>> /\ SendPlace = Place(f, sender.pos + 1)
      BY <1>1 DEF SendPair, SendPlace
<1>3. sender.kv_pair = SendPair /\ sender.kv_pair \in Pair
      BY <1>1, <1>2 DEF SrcRing, SrcInHand, TypeOK, SrcTypeOK
<1>4. sender'.pc = "pair" /\ sender'.file_num = f /\ sender'.pos = sender.pos + 1
      BY <1>1 DEF SendPayload, SenderType
<1>5. SendPlace' = Place(f, sender.pos + 1)
      BY <1>4 DEF SendPlace
<1>6. SendPair' = PairFrom(Place(f, sender.pos + 1))
      BY <1>4, <1>5 DEF SendPair
<1>7. PlaceAfter(SendPair) = Place(f, sender.pos + 1)
      BY <1>2 DEF PlaceAfter
<1> QED
  BY <1>2, <1>3, <1>5, <1>6, <1>7 DEF SendPayload

\* A step of SendKVPairs keeps what is on the way between the two.
LEMMA SendBetween ==
  ASSUME TypeOK, TypeOK', SrcRing, Between, RecvPlace' = RecvPlace, RecvPair' = RecvPair,
         SendKVPairs \/ ReadKVPairs \/ ReadOpenFails \/ SrcWorkloadDies
  PROVE  Between'
<1>a. /\ headers \in Seq(Header) /\ payload \in Seq(Pair)
      /\ SendPlace \in Places
      BY SendPlaceType DEF TypeOK, SocketTypeOK
<1>b. HeadersRun(headers, RecvPlace, SendPlace) /\ PairsRun(payload, RecvPair, SendPair)
      BY DEF Between
<1>1. CASE \/ SendClaim \/ SendRecvFlag \/ SendRecvFlagEof \/ SendWait \/ SendDequeue
           \/ SendFree \/ SendDone
  <2>1. UNCHANGED <<headers, payload>>
        BY <1>1 DEF SendClaim, SendRecvFlag, SendRecvFlagEof, SendWait, SendDequeue, SendFree,
                    SendDone, sockVars
  <2>2. SendPlace' = SendPlace /\ SendPair' = SendPair
        BY <1>1, SendStill
  <2> QED
        BY <1>b, <2>1, <2>2 DEF Between
<1>2. CASE SendFileNum \/ SendSize
  <2>1. HeadersRun(Append(headers, HeaderAt(SendPlace)), RecvPlace, PlaceAfter(SendPlace))
        BY <1>2, <1>a, <1>b, SendsHeader, HeadersSend
  <2> QED
        BY <1>2, <1>b, <2>1, SendsHeader DEF Between
<1>3. CASE SendPayload
  <2>1. PairsRun(Append(payload, SendPair), RecvPair, PairFrom(PlaceAfter(SendPair)))
        BY <1>3, <1>a, <1>b, SendsPair, PairsSend
  <2> QED
        BY <1>3, <1>b, <2>1, SendsPair DEF Between
<1>4. CASE SendBroken \/ SrcWorkloadDies \/ ReadKVPairs \/ ReadOpenFails
  <2>1. UNCHANGED <<headers, payload, sender, send_cnt>>
        BY <1>4 DEF SendBroken, SrcWorkloadDies, srcVars, ReadKVPairs, ReadOpenFails, ReadClaim,
                    ReadAllocate, ReadEnqueue, ReadNext, ReadDone, sockVars
  <2>2. SendPlace' = SendPlace /\ SendPair' = SendPair
        BY <2>1 DEF SendPlace, SendPair
  <2> QED
        BY <1>b, <2>1, <2>2 DEF Between
<1> QED
  BY <1>1, <1>2, <1>3, <1>4 DEF SendKVPairs

-------------------------------------------------------------------------------
(* The receiver's steps *)

\* Nothing is received: the receiver keeps its places.
LEMMA RecvStill ==
  ASSUME TypeOK, ~receiver.eof, RecvClaims, RecvInHand,
         RecvClaim \/ RecvAllocate \/ RecvEnqueue \/ RecvNext \/ RecvDone
  PROVE  /\ RecvPlace' = RecvPlace /\ RecvPair' = RecvPair
         /\ RecvClaims' /\ RecvInHand'
         /\ UNCHANGED <<headers, payload, src_up>> /\ ~receiver'.eof
<1> DEFINE f == receiver.file_num
<1>1. receiver \in ReceiverType /\ recv_cnt \in Nat
      BY SizesAssumption DEF TypeOK, DstTypeOK, ReceiverType
<1>2. receiver.pos \in Nat /\ f \in Nat /\ f + 1 - 1 = f
      BY <1>1 DEF ReceiverType
<1>3. receiver.pc \in {"standby", "size", "data"} => f \in Files /\ NumEntries[f] \in Nat \ {0}
  <2>1. receiver.pc \in {"standby", "size", "data"} => f + 1 \in 0 .. NumFiles
        BY DEF RecvClaims, TypeOK, DstTypeOK
  <2>2. f + 1 \in 0 .. NumFiles => f \in Files
        BY <1>2, SizesAssumption DEF Files
  <2> QED
        BY <2>1, <2>2, DataAssumption
<1>4. UNCHANGED <<headers, payload, src_up>>
      BY DEF RecvClaim, RecvAllocate, RecvEnqueue, RecvNext, RecvDone, sockVars
<1>5. CASE RecvClaim
  <2>1. /\ receiver.pc = "claim" /\ receiver'.pc = "num" /\ receiver'.eof = receiver.eof
        /\ recv_cnt' = recv_cnt + 1
        BY <1>1, <1>5 DEF RecvClaim, ReceiverAt, ReceiverType
  <2>2. recv_cnt' - 1 = recv_cnt /\ recv_cnt' > 0
        BY <1>1, <2>1
  <2>3. RecvPlace' = RecvPlace
        BY <2>1, <2>2 DEF RecvPlace
  <2> QED
        BY <1>4, <2>1, <2>2, <2>3 DEF RecvPair, RecvClaims, RecvInHand
<1>6. CASE RecvAllocate
  <2>1. /\ receiver.pc = "standby" /\ receiver'.pc = "size" /\ receiver'.eof = receiver.eof
        /\ receiver'.file_num = f /\ receiver'.pos = 0 /\ recv_cnt' = recv_cnt
        BY <1>1, <1>6 DEF RecvAllocate, ReceiverAt, ReceiverType
  <2>2. Place(f, 0) = <<f, 1>>
        BY <1>3, <2>1, PlaceFacts
  <2>3. RecvPlace' = RecvPlace
        BY <2>1, <2>2 DEF RecvPlace
  <2>4. RecvClaims'
        BY <1>3, <2>1 DEF RecvClaims
  <2> QED
        BY <1>4, <2>1, <2>3, <2>4 DEF RecvPair, RecvInHand
<1>7. CASE RecvEnqueue
  <2>1. /\ receiver.pc = "data" /\ receiver'.pc = "size" /\ receiver'.eof = receiver.eof
        /\ receiver'.file_num = f /\ receiver'.pos = receiver.pos + 1 /\ recv_cnt' = recv_cnt
        /\ receiver.recv_size >= receiver.data_size
        BY <1>1, <1>7 DEF RecvEnqueue, ReceiverAt, ReceiverType
  <2>2. receiver.kv_pair # Garbage
    <3>1. receiver.recv_size \in Nat /\ receiver.data_size \in Nat
          BY <1>1 DEF ReceiverType
    <3>2. receiver.kv_pair \in Pair
          BY <2>1, <3>1 DEF RecvInHand
    <3> QED
          BY <3>2, NullAssumption
  <2>3. RecvPlace' = RecvPlace
        BY <2>1 DEF RecvPlace
  <2>4. RecvClaims'
        BY <1>2, <1>3, <2>1 DEF RecvClaims
  <2> QED
        BY <1>4, <2>1, <2>2, <2>3, <2>4 DEF RecvPair, RecvInHand
<1>8. CASE RecvNext
  <2>1. /\ receiver.pc = "size" /\ receiver'.pc = "claim" /\ receiver'.eof = receiver.eof
        /\ recv_cnt' = recv_cnt /\ receiver.pos >= NumEntries[f]
        BY <1>1, <1>8 DEF RecvNext, ReceiverAt, ReceiverType
  <2>2. ~(receiver.pos < NumEntries[f])
        BY <1>2, <1>3, <2>1
  <2>3. Place(f, receiver.pos) = <<recv_cnt, 0>>
        BY <2>1, <2>2 DEF Place, RecvClaims
  <2>4. RecvPlace' = RecvPlace
        BY <2>1, <2>3 DEF RecvPlace
  <2> QED
        BY <1>4, <2>1, <2>4 DEF RecvPair, RecvClaims, RecvInHand
<1>9. CASE RecvDone
  <2>1. /\ receiver.pc = "claim" /\ receiver'.pc = "done" /\ receiver'.eof = receiver.eof
        /\ recv_cnt' = recv_cnt
        BY <1>1, <1>9 DEF RecvDone, ReceiverAt, ReceiverType
  <2>2. RecvPlace' = RecvPlace
        BY <2>1 DEF RecvPlace
  <2> QED
        BY <1>4, <2>1, <2>2 DEF RecvPair, RecvClaims, RecvInHand
<1> QED
  BY <1>5, <1>6, <1>7, <1>8, <1>9

\* The source's variables are those of its places.
LEMMA SendKept == UNCHANGED srcVars => SendPlace' = SendPlace /\ SendPair' = SendPair
BY DEF srcVars, SendPlace, SendPair

\* A file_num is received: it is that of the file just claimed.
LEMMA RecvsFileNum ==
  ASSUME TypeOK, SrcRing, ~receiver.eof, RecvClaims, Between, RecvFileNum, UNCHANGED srcVars
  PROVE  RecvClaims' /\ RecvInHand' /\ Between' /\ ~receiver'.eof
<1>1. receiver \in ReceiverType /\ recv_cnt \in 0 .. NumFiles
      BY DEF TypeOK, DstTypeOK, ReceiverType
<1>2. headers \in Seq(Header) /\ headers # <<>> /\ SendPlace \in Places
      BY SendPlaceType DEF TypeOK, SocketTypeOK, RecvFileNum
<1>3. /\ receiver.pc = "num" /\ receiver'.pc = "standby" /\ receiver'.eof = receiver.eof
      /\ receiver'.file_num = Head(headers).val
      /\ headers' = Tail(headers) /\ payload' = payload /\ recv_cnt' = recv_cnt
      BY <1>1 DEF RecvFileNum, ReceiverAt, ReceiverType
<1>4. recv_cnt > 0 /\ recv_cnt \in Nat /\ recv_cnt - 1 + 1 = recv_cnt
      BY <1>1, <1>3, SizesAssumption DEF RecvClaims
<1>5. RecvPlace = <<recv_cnt - 1, 0>>
      BY <1>3 DEF RecvPlace
<1>6. /\ Head(headers) = HeaderAt(RecvPlace) /\ RecvPlace[1] \in Files
      /\ HeadersRun(Tail(headers), PlaceAfter(RecvPlace), SendPlace)
      BY <1>2, HeadersRecv DEF Between
<1>7. Head(headers).val = recv_cnt - 1
      BY <1>5, <1>6 DEF HeaderAt, FileNumHeader
<1>8. RecvPlace' = <<recv_cnt - 1, 1>>
      BY <1>3, <1>7 DEF RecvPlace
<1>9. PlaceAfter(RecvPlace) = <<recv_cnt - 1, 1>>
      BY <1>5, <1>6, PlaceFacts DEF PlaceAfter
<1>10. RecvPair' = RecvPair
      BY <1>3, <1>5, <1>8 DEF RecvPair, PairFrom
<1>11. Between'
      BY <1>3, <1>6, <1>8, <1>9, <1>10, SendKept DEF Between
<1>12. RecvClaims' /\ RecvInHand'
      BY <1>3, <1>4, <1>7 DEF RecvClaims, RecvInHand
<1> QED
  BY <1>3, <1>11, <1>12

\* A size is received: it is that of the next pair of the file.
LEMMA RecvsSize ==
  ASSUME TypeOK, SrcRing, ~receiver.eof, RecvClaims, Between, RecvSize, UNCHANGED srcVars
  PROVE  RecvClaims' /\ RecvInHand' /\ Between' /\ ~receiver'.eof
<1> DEFINE f == receiver.file_num
           p == <<f, receiver.pos + 1>>
<1>1. receiver \in ReceiverType
      BY DEF TypeOK, DstTypeOK, ReceiverType
<1>2. headers \in Seq(Header) /\ headers # <<>> /\ SendPlace \in Places
      BY SendPlaceType DEF TypeOK, SocketTypeOK, RecvSize
<1>3. /\ receiver.pc = "size" /\ receiver'.pc = "data" /\ receiver'.eof = receiver.eof
      /\ receiver.pos < NumEntries[f]
      /\ receiver'.file_num = f /\ receiver'.pos = receiver.pos
      /\ receiver'.data_size = Head(headers).val
      /\ receiver'.recv_size = 0 /\ receiver'.kv_pair = Garbage
      /\ headers' = Tail(headers) /\ payload' = payload /\ recv_cnt' = recv_cnt
      BY <1>1 DEF RecvSize, ReceiverAt, ReceiverType
<1>4. receiver.pos \in Nat /\ receiver.pos + 1 > 0
      BY <1>1 DEF ReceiverType
<1>5. RecvPlace = p
      BY <1>3 DEF RecvPlace, Place
<1>6. /\ Head(headers) = HeaderAt(RecvPlace) /\ (RecvPlace[2] > 0 => RecvPlace \in Pair)
      /\ HeadersRun(Tail(headers), PlaceAfter(RecvPlace), SendPlace)
      BY <1>2, HeadersRecv DEF Between
<1>7. p \in Pair
      BY <1>4, <1>5, <1>6
<1>8. Head(headers).val = PairSize(p)
      BY <1>4, <1>5, <1>6 DEF HeaderAt, SizeHeader
<1>9. PairSize(p) \in Nat /\ 0 < PairSize(p)
      BY <1>7, PairSizeType
<1>10. RecvPlace' = Place(f, receiver.pos + 1)
      BY <1>3 DEF RecvPlace
<1>11. PlaceAfter(RecvPlace) = Place(f, receiver.pos + 1)
      BY <1>5 DEF PlaceAfter
<1>12. RecvPair' = p
      BY <1>3 DEF RecvPair
<1>13. RecvPair = p
      BY <1>3, <1>4, <1>5 DEF RecvPair, PairFrom
<1>14. Between'
      BY <1>3, <1>6, <1>10, <1>11, <1>12, <1>13, SendKept DEF Between
<1>15. RecvClaims' /\ RecvInHand'
      BY <1>3, <1>7, <1>8, <1>9 DEF RecvClaims, RecvInHand
<1> QED
  BY <1>3, <1>14, <1>15

\* Bytes are received: they are of the pair whose size is known.
LEMMA RecvsBytes ==
  ASSUME TypeOK, SrcRing, ~receiver.eof, RecvClaims, RecvInHand, Between, RecvChunk,
         UNCHANGED srcVars
  PROVE  RecvClaims' /\ RecvInHand' /\ Between' /\ ~receiver'.eof
<1> DEFINE f == receiver.file_num
           p == <<f, receiver.pos + 1>>
<1>1. receiver \in ReceiverType /\ payload \in Seq(Pair) /\ payload # <<>>
      BY DEF TypeOK, DstTypeOK, SocketTypeOK, ReceiverType, RecvChunk
<1>2. receiver.pc = "data" /\ UNCHANGED <<headers, recv_cnt>>
      BY DEF RecvChunk, ReceiverAt
<1>3. PICK n \in 1 .. receiver.data_size - receiver.recv_size :
        LET size  == PairSize(Head(payload))
            whole == receiver.recv_size + n = size
        IN /\ receiver.recv_size + n <= size
           /\ receiver' = [receiver EXCEPT !.recv_size = @ + n,
                                           !.kv_pair = IF whole THEN Head(payload) ELSE @]
           /\ payload' = IF whole THEN Tail(payload) ELSE payload
      BY DEF RecvChunk
<1>4. receiver.recv_size \in Nat /\ receiver.data_size \in Nat /\ n \in Nat
      /\ receiver.recv_size < receiver.data_size
  <2>1. receiver.recv_size \in Nat /\ receiver.data_size \in Nat
        BY <1>1 DEF ReceiverType
  <2> QED
        BY <1>3, <2>1
<1>5. /\ p \in Pair /\ receiver.data_size = PairSize(p) /\ receiver.kv_pair = Garbage
      BY <1>2, <1>4 DEF RecvInHand
<1>6. RecvPair = p
      BY <1>2, <1>5 DEF RecvPair
<1>7. /\ Head(payload) = p
      /\ PairsRun(Tail(payload), PairFrom(PlaceAfter(p)), SendPair)
      BY <1>1, <1>6, PairsRecv DEF Between
<1>8. /\ receiver'.pc = "data" /\ receiver'.file_num = f /\ receiver'.pos = receiver.pos
      /\ receiver'.data_size = receiver.data_size /\ receiver'.eof = receiver.eof
      /\ receiver'.recv_size = receiver.recv_size + n
      BY <1>1, <1>2, <1>3 DEF ReceiverType
<1>9. RecvPlace' = RecvPlace /\ RecvPlace = Place(f, receiver.pos + 1)
      BY <1>2, <1>8 DEF RecvPlace
<1>10. RecvClaims'
      BY <1>2, <1>8 DEF RecvClaims
<1>11. CASE receiver.recv_size + n = PairSize(p)
  <2>1. receiver'.kv_pair = p /\ payload' = Tail(payload)
        BY <1>1, <1>3, <1>7, <1>11 DEF ReceiverType
  <2>2. RecvInHand'
        BY <1>5, <1>8, <1>11, <2>1 DEF RecvInHand
  <2>3. p # Garbage
        BY <1>5, NullAssumption
  <2>4. RecvPair' = PairFrom(Place(f, receiver.pos + 1))
        BY <1>9, <2>1, <2>3 DEF RecvPair
  <2>5. PlaceAfter(p) = Place(f, receiver.pos + 1)
        BY DEF PlaceAfter
  <2>6. Between'
        BY <1>2, <1>7, <1>9, <2>1, <2>4, <2>5, SendKept DEF Between
  <2> QED
        BY <1>8, <1>10, <2>2, <2>6
<1>12. CASE receiver.recv_size + n # PairSize(p)
  <2>1. receiver'.kv_pair = Garbage /\ payload' = payload
        BY <1>1, <1>3, <1>5, <1>7, <1>12 DEF ReceiverType
  <2>2. receiver.recv_size + n < receiver.data_size
    <3>1. receiver.recv_size + n <= PairSize(p)
          BY <1>3, <1>7
    <3> QED
          BY <3>1, <1>4, <1>5, <1>12
  <2>3. RecvInHand'
        BY <1>5, <1>8, <2>1, <2>2 DEF RecvInHand
  <2>4. RecvPair' = RecvPair
        BY <1>6, <1>8, <2>1 DEF RecvPair
  <2>5. Between'
        BY <1>2, <1>9, <2>1, <2>4, SendKept DEF Between
  <2> QED
        BY <1>8, <1>10, <2>3, <2>5
<1> QED
  BY <1>11, <1>12

-------------------------------------------------------------------------------
(* The end of the streams *)

\* The pair after a pair comes after it.
LEMMA PairAhead ==
  ASSUME NEW q \in Pair
  PROVE  PairFrom(PlaceAfter(q)) \in Nat \X Nat /\ Before(q, PairFrom(PlaceAfter(q)))
<1>1. q[1] \in Nat /\ q[2] \in Nat
      BY PlacesType
<1>2. PairFrom(PlaceAfter(q)) = <<q[1], q[2] + 1>> \/ PairFrom(PlaceAfter(q)) = <<q[1] + 1, 1>>
      BY <1>1 DEF PlaceAfter, Place, PairFrom
<1>3. q[1] < q[1] + 1 /\ q[2] < q[2] + 1
      BY <1>1
<1> QED
  BY <1>1, <1>2, <1>3 DEF Before

\* When no header is left for a receiver that waits for one, no byte is left
\* either: the sender sends the bytes of a pair before the next header.
LEMMA NoBytesLeft ==
  ASSUME TypeOK, SrcRing, Between, headers = <<>>, receiver.pc # "data"
  PROVE  payload = <<>>
<1>1. /\ headers \in Seq(Header) /\ payload \in Seq(Pair)
      /\ SendPlace \in Places /\ SendPair \in Nat \X Nat
      BY SendPlaceType DEF TypeOK, SocketTypeOK
<1>2. RecvPlace = SendPlace
      BY <1>1, HeadersOrder DEF Between
<1>3. RecvPair = PairFrom(SendPlace)
      BY <1>2 DEF RecvPair
<1>4. PairsRun(payload, RecvPair, SendPair)
      BY DEF Between
<1>5. CASE sender.pc = "data"
  <2>1. SendPair = sender.kv_pair /\ SendPair \in Pair
        BY <1>5 DEF SendPair, SrcRing, SrcInHand, TypeOK, SrcTypeOK
  <2>2. SendPlace = PlaceAfter(SendPair)
        BY <1>5 DEF SendPair, SendPlace, PlaceAfter
  <2>3. RecvPair \in Nat \X Nat /\ Before(SendPair, RecvPair)
        BY <1>3, <2>1, <2>2, PairAhead
  <2>4. ~Before(RecvPair, SendPair)
        BY <1>1, <2>3, BeforeOrder
  <2> QED
        BY <1>1, <1>4, <2>4, PairsOrder
<1>6. CASE sender.pc # "data"
  <2>1. SendPair = RecvPair
        BY <1>3, <1>6 DEF SendPair
  <2> QED
        BY <1>1, <1>4, <2>1, PairsOrder
<1> QED
  BY <1>5, <1>6

\* When no byte is left for a receiver that waits for one, no header is left
\* either: the sender is still to send the rest of that pair.
LEMMA NoHeadersLeft ==
  ASSUME TypeOK, SrcRing, RecvClaims, RecvInHand, Between, payload = <<>>,
         receiver.pc = "data", receiver.recv_size < receiver.data_size
  PROVE  headers = <<>>
<1> DEFINE f == receiver.file_num
           p == <<f, receiver.pos + 1>>
<1>1. /\ headers \in Seq(Header) /\ payload \in Seq(Pair)
      /\ SendPlace \in Places /\ SendPair \in Nat \X Nat
      BY SendPlaceType DEF TypeOK, SocketTypeOK
<1>2. p \in Pair /\ receiver.kv_pair = Garbage
  <2>1. receiver.recv_size \in Nat /\ receiver.data_size \in Nat
        BY DEF TypeOK, DstTypeOK
  <2> QED
        BY <2>1 DEF RecvInHand
<1>3. RecvPair = p /\ RecvPlace = PlaceAfter(p)
      BY <1>2 DEF RecvPair, RecvPlace, PlaceAfter
<1>4. SendPair = p
      BY <1>3 DEF Between, PairsRun
<1>5. HeadersRun(headers, RecvPlace, SendPlace)
      BY DEF Between
<1>6. RecvPlace = SendPlace \/ Before(RecvPlace, SendPlace)
      BY <1>1, <1>5, HeadersOrder
<1>7. RecvPlace = SendPlace => headers = <<>>
      BY <1>1, <1>5, HeadersOrder
<1>8. CASE sender.pc = "data"
  <2>1. SendPlace = PlaceAfter(SendPair)
        BY <1>8 DEF SendPair, SendPlace, PlaceAfter
  <2> QED
        BY <1>3, <1>4, <1>7, <2>1
<1>9. CASE sender.pc # "data"
  <2>1. PairFrom(SendPlace) = p
        BY <1>4, <1>9 DEF SendPair
  <2>2. p[1] = f /\ p[2] = receiver.pos + 1 /\ f \in Nat /\ receiver.pos \in Nat
        BY DEF TypeOK, DstTypeOK
  <2>3. SendPlace = p \/ SendPlace = <<f, 0>>
    <3>1. SendPlace = <<SendPlace[1], SendPlace[2]>>
          BY <1>1, PlacesType
    <3> QED
          BY <2>1, <2>2, <3>1 DEF PairFrom
  <2>4. RecvPlace = <<f, receiver.pos + 1 + 1>> \/ RecvPlace = <<f + 1, 0>>
        BY <1>3, <2>2 DEF PlaceAfter, Place
  <2>5. f # f + 1 /\ ~(f + 1 < f) /\ ~(receiver.pos + 1 + 1 < receiver.pos + 1)
        /\ ~(receiver.pos + 1 + 1 < 0) /\ receiver.pos + 1 + 1 # receiver.pos + 1
        /\ receiver.pos + 1 + 1 # 0 /\ ~(f < f)
        BY <2>2
  <2>6. ~Before(RecvPlace, SendPlace) /\ RecvPlace # SendPlace
    <3>1. CASE SendPlace = p /\ RecvPlace = <<f, receiver.pos + 1 + 1>>
          BY <3>1, <2>2, <2>5 DEF Before
    <3>2. CASE SendPlace = p /\ RecvPlace = <<f + 1, 0>>
          BY <3>2, <2>2, <2>5 DEF Before
    <3>3. CASE SendPlace = <<f, 0>> /\ RecvPlace = <<f, receiver.pos + 1 + 1>>
          BY <3>3, <2>2, <2>5 DEF Before
    <3>4. CASE SendPlace = <<f, 0>> /\ RecvPlace = <<f + 1, 0>>
          BY <3>4, <2>2, <2>5 DEF Before
    <3> QED
          BY <2>3, <2>4, <3>1, <3>2, <3>3, <3>4
  <2> QED
        BY <1>6, <2>6
<1> QED
  BY <1>8, <1>9

\* A recv returns 0: both streams are empty.
LEMMA RecvMeetsEnd ==
  ASSUME TypeOK, SrcRing, RecvClaims, RecvInHand, Between,
         RecvFileNumEof \/ RecvSizeEof \/ RecvChunkEof
  PROVE  StreamClosed' /\ receiver'.eof
<1>1. receiver \in ReceiverType
      BY DEF TypeOK, DstTypeOK, ReceiverType
<1>2. CASE RecvFileNumEof
  <2>1. /\ receiver.pc # "data" /\ headers = <<>> /\ ~src_up
        /\ UNCHANGED <<headers, payload, src_up>>
        /\ receiver'.pc = "standby" /\ receiver'.eof
        BY <1>1, <1>2 DEF RecvFileNumEof, ReceiverAt, ReceiverType, sockVars
  <2> QED
        BY <2>1, NoBytesLeft DEF StreamClosed
<1>3. CASE RecvSizeEof
  <2>1. /\ receiver.pc # "data" /\ headers = <<>> /\ ~src_up
        /\ UNCHANGED <<headers, payload, src_up>>
        BY <1>3 DEF RecvSizeEof, ReceiverAt, sockVars
  <2>2. PICK n \in Uninit :
          receiver' = [receiver EXCEPT !.pc = "data", !.data_size = n, !.recv_size = 0,
                                       !.kv_pair = Garbage, !.eof = TRUE]
        BY <1>3 DEF RecvSizeEof
  <2>3. /\ receiver'.pc = "data" /\ receiver'.eof /\ receiver'.data_size = n
        /\ receiver'.recv_size = 0 /\ receiver'.kv_pair = Garbage
        BY <1>1, <2>2 DEF ReceiverType
  <2>4. n \in Nat /\ (0 < n \/ n = 0)
        BY SizesAssumption
  <2>5. receiver'.recv_size < receiver'.data_size \/ 0 \in Uninit
        BY <2>2, <2>3, <2>4
  <2> QED
        BY <2>1, <2>3, <2>5, NoBytesLeft DEF StreamClosed
<1>4. CASE RecvChunkEof
  <2>1. /\ receiver.pc = "data" /\ payload = <<>> /\ ~src_up
        /\ receiver.recv_size < receiver.data_size
        /\ UNCHANGED <<headers, payload, src_up>>
        /\ receiver' = [receiver EXCEPT !.eof = TRUE]
        BY <1>4 DEF RecvChunkEof, ReceiverAt, sockVars
  <2>2. /\ receiver'.eof /\ receiver'.kv_pair = receiver.kv_pair
        /\ receiver'.recv_size = receiver.recv_size /\ receiver'.data_size = receiver.data_size
        BY <1>1, <2>1 DEF ReceiverType
  <2>3. receiver.kv_pair = Garbage
    <3>1. receiver.recv_size \in Nat /\ receiver.data_size \in Nat
          BY <1>1 DEF ReceiverType
    <3> QED
          BY <2>1, <3>1 DEF RecvInHand
  <2> QED
        BY <2>1, <2>2, <2>3, NoHeadersLeft DEF StreamClosed
<1> QED
  BY <1>2, <1>3, <1>4

\* Once a recv has returned 0 both streams stay empty.
LEMMA ClosedStays ==
  ASSUME TypeOK, receiver.eof, StreamClosed, Next
  PROVE  StreamClosed' /\ receiver'.eof
<1>1. receiver \in ReceiverType /\ ~src_up /\ headers = <<>> /\ payload = <<>>
      BY DEF TypeOK, DstTypeOK, ReceiverType, StreamClosed
<1>2. ~SrcNext
      BY <1>1 DEF SrcNext, ReadKVPairs, ReadOpenFails, ReadClaim, ReadAllocate, ReadEnqueue,
        ReadNext, ReadDone, SendKVPairs, SendClaim, SendFileNum, SendRecvFlag, SendRecvFlagEof,
        SendWait, SendDequeue, SendSize, SendPayload, SendFree, SendDone, SendBroken,
        SrcWorkloadDies, ReaderAt, SenderAt
<1>3. DstNext
      BY <1>2 DEF Next
<1>4. CASE RecvClaim \/ RecvAllocate \/ RecvEnqueue \/ RecvNext \/ RecvDone
  <2>1. UNCHANGED <<headers, payload, src_up>>
        BY <1>4 DEF RecvClaim, RecvAllocate, RecvEnqueue, RecvNext, RecvDone, sockVars
  <2>2. CASE RecvClaim
        BY <1>1, <2>1, <2>2 DEF RecvClaim, ReceiverType, StreamClosed
  <2>3. CASE RecvAllocate
        BY <1>1, <2>1, <2>3 DEF RecvAllocate, ReceiverType, StreamClosed
  <2>4. CASE RecvEnqueue
        BY <1>1, <2>1, <2>4 DEF RecvEnqueue, ReceiverType, StreamClosed
  <2>5. CASE RecvNext
        BY <1>1, <2>1, <2>5 DEF RecvNext, ReceiverType, StreamClosed
  <2>6. CASE RecvDone
        BY <1>1, <2>1, <2>6 DEF RecvDone, ReceiverType, StreamClosed
  <2> QED
        BY <1>4, <2>2, <2>3, <2>4, <2>5, <2>6
<1>5. ~RecvFileNum /\ ~RecvSize /\ ~RecvChunk
      BY <1>1 DEF RecvFileNum, RecvSize, RecvChunk
<1>6. CASE RecvFileNumEof
  <2>1. receiver'.pc = "standby" /\ receiver'.eof /\ UNCHANGED <<headers, payload, src_up>>
        BY <1>1, <1>6 DEF RecvFileNumEof, ReceiverType, sockVars
  <2> QED
        BY <1>1, <2>1 DEF StreamClosed
<1>7. CASE RecvSizeEof
  <2>1. PICK n \in Uninit :
          receiver' = [receiver EXCEPT !.pc = "data", !.data_size = n, !.recv_size = 0,
                                       !.kv_pair = Garbage, !.eof = TRUE]
        BY <1>7 DEF RecvSizeEof
  <2>2. /\ receiver'.eof /\ receiver'.data_size = n
        /\ receiver'.recv_size = 0 /\ receiver'.kv_pair = Garbage
        BY <1>1, <2>1 DEF ReceiverType
  <2>3. n \in Nat /\ (0 < n \/ n = 0)
        BY SizesAssumption
  <2>4. receiver'.recv_size < receiver'.data_size \/ 0 \in Uninit
        BY <2>1, <2>2, <2>3
  <2>5. UNCHANGED <<headers, payload, src_up>>
        BY <1>7 DEF RecvSizeEof, sockVars
  <2> QED
        BY <1>1, <2>2, <2>4, <2>5 DEF StreamClosed
<1>8. CASE RecvChunkEof
  <2>1. /\ receiver' = [receiver EXCEPT !.eof = TRUE] /\ UNCHANGED <<headers, payload, src_up>>
        BY <1>8 DEF RecvChunkEof, sockVars
  <2>2. receiver' = receiver
        BY <1>1, <2>1 DEF ReceiverType
  <2> QED
        BY <2>1, <2>2 DEF StreamClosed
<1>9. CASE \/ RecvReset \/ WriteKVPairs \/ WriteOpenFails \/ WriteFails \/ IngestSstFiles
           \/ IngestFails \/ TransferEnd \/ DstWorkloadDies
  <2>1. UNCHANGED <<receiver, headers, payload, src_up>>
        BY <1>9 DEF RecvReset, WriteKVPairs, WriteClaim, WriteWait, WritePair, WriteFinish,
          WriteFree, WriteMark, WriteDone, WriteOpenFails, WriteFails, IngestSstFiles, IngestClaim,
          IngestFile, IngestDone, IngestFails, TransferEnd, DstWorkloadDies, sockVars, dstVars,
          recvVars
  <2> QED
        BY <2>1 DEF StreamClosed
<1> QED
  BY <1>3, <1>4, <1>5, <1>6, <1>7, <1>8, <1>9 DEF DstNext, RecvKVPairs

-------------------------------------------------------------------------------
(* The theorems *)

LEMMA StreamsInit == Init => Streams
<1> SUFFICES ASSUME Init
             PROVE  Streams
    OBVIOUS
<1> USE DEF Init, SocketInit, SrcInit, DstInit
<1>1. StreamClosed /\ RecvClaims /\ RecvInHand
      BY DEF StreamClosed, RecvClaims, RecvInHand
<1>2. RecvPlace = <<0, 0>> /\ SendPlace = <<0, 0>>
      BY DEF RecvPlace, SendPlace
<1>3. RecvPair = SendPair
      BY <1>2 DEF RecvPair, SendPair
<1>4. HeadersRun(headers, RecvPlace, SendPlace)
  <2> DEFINE at == [k \in 1 .. 1 |-> <<0, 0>>]
  <2>1. Len(headers) = 0
        OBVIOUS
  <2>2. <<0, 0>> \in Places
        BY SizesAssumption DEF Places
  <2>3. at \in [1 .. 0 + 1 -> Places] /\ at[1] = <<0, 0>> /\ at[0 + 1] = <<0, 0>>
        BY <2>2
  <2>4. 1 .. 0 = {}
        OBVIOUS
  <2> HIDE DEF at
  <2> QED
        BY <1>2, <2>1, <2>3, <2>4 DEF HeadersRun
<1>5. PairsRun(payload, RecvPair, SendPair)
  <2>1. Len(payload) = 0 /\ payload = <<>>
        OBVIOUS
  <2> QED
        BY <1>3, <2>1 DEF PairsRun
<1> QED
  BY <1>1, <1>4, <1>5 DEF Streams, Between

LEMMA StreamsStep == TypeOK /\ TypeOK' /\ SrcRing /\ Streams /\ [Next]_vars => Streams'
<1> SUFFICES ASSUME TypeOK, TypeOK', SrcRing, Streams, [Next]_vars
             PROVE  Streams'
    OBVIOUS
<1>1. CASE UNCHANGED vars
  <2>1. UNCHANGED <<sender, send_cnt, receiver, recv_cnt, headers, payload, src_up>>
        BY <1>1 DEF vars, sockVars, srcVars, dstVars
  <2>2. /\ RecvPlace' = RecvPlace /\ RecvPair' = RecvPair
        /\ SendPlace' = SendPlace /\ SendPair' = SendPair
        BY <2>1 DEF RecvPlace, SendPlace, RecvPair, SendPair
  <2>3. Between => Between'
        BY <2>1, <2>2 DEF Between
  <2>4. (RecvClaims => RecvClaims') /\ (RecvInHand => RecvInHand') /\ (StreamClosed => StreamClosed')
        BY <2>1 DEF RecvClaims, RecvInHand, StreamClosed
  <2> QED
        BY <2>1, <2>3, <2>4 DEF Streams
<1>2. CASE receiver.eof /\ Next
      BY <1>2, ClosedStays DEF Streams
<1>3. ASSUME ~receiver.eof, Next
      PROVE  Streams'
  <2>a. StreamClosed /\ RecvClaims /\ RecvInHand /\ Between
        BY <1>3 DEF Streams
  <2>b. ASSUME ~receiver'.eof, RecvClaims', RecvInHand', Between'
        PROVE  Streams'
        BY <2>b DEF Streams, StreamClosed
  <2>1. CASE SrcNext /\ UNCHANGED dstVars
    <3>1. UNCHANGED <<receiver, recv_cnt>>
          BY <2>1 DEF dstVars
    <3>2. RecvPlace' = RecvPlace /\ RecvPair' = RecvPair
          BY <3>1 DEF RecvPlace, RecvPair
    <3>3. Between'
          BY <2>1, <2>a, <3>2, SendBetween DEF SrcNext
    <3>4. RecvClaims' /\ RecvInHand'
          BY <2>a, <3>1 DEF RecvClaims, RecvInHand
    <3> QED
          BY <1>3, <2>b, <3>1, <3>3, <3>4
  <2>2. CASE (RecvClaim \/ RecvAllocate \/ RecvEnqueue \/ RecvNext \/ RecvDone) /\ UNCHANGED srcVars
    <3>1. /\ RecvPlace' = RecvPlace /\ RecvPair' = RecvPair /\ RecvClaims' /\ RecvInHand'
          /\ UNCHANGED <<headers, payload>> /\ ~receiver'.eof
          BY <1>3, <2>2, <2>a, RecvStill
    <3>2. Between'
          BY <2>2, <2>a, <3>1, SendKept DEF Between
    <3> QED
          BY <2>b, <3>1, <3>2
  <2>3. CASE RecvFileNum /\ UNCHANGED srcVars
        BY <1>3, <2>3, <2>a, <2>b, RecvsFileNum
  <2>4. CASE RecvSize /\ UNCHANGED srcVars
        BY <1>3, <2>4, <2>a, <2>b, RecvsSize
  <2>5. CASE RecvChunk /\ UNCHANGED srcVars
        BY <1>3, <2>5, <2>a, <2>b, RecvsBytes
  <2>6. CASE RecvFileNumEof \/ RecvSizeEof \/ RecvChunkEof
        BY <2>6, <2>a, RecvMeetsEnd DEF Streams
  <2>7. CASE /\ \/ RecvReset \/ WriteKVPairs \/ WriteOpenFails \/ WriteFails \/ IngestSstFiles
                \/ IngestFails \/ TransferEnd \/ DstWorkloadDies
             /\ UNCHANGED srcVars
    <3>1. UNCHANGED <<receiver, recv_cnt, headers, payload>>
          BY <2>7 DEF RecvReset, WriteKVPairs, WriteClaim, WriteWait, WritePair, WriteFinish,
            WriteFree, WriteMark, WriteDone, WriteOpenFails, WriteFails, IngestSstFiles, IngestClaim,
            IngestFile, IngestDone, IngestFails, TransferEnd, DstWorkloadDies, sockVars, dstVars,
            recvVars
    <3>2. RecvPlace' = RecvPlace /\ RecvPair' = RecvPair
          BY <3>1 DEF RecvPlace, RecvPair
    <3>3. Between'
          BY <2>7, <2>a, <3>1, <3>2, SendKept DEF Between
    <3>4. RecvClaims' /\ RecvInHand'
          BY <2>a, <3>1 DEF RecvClaims, RecvInHand
    <3> QED
          BY <1>3, <2>b, <3>1, <3>3, <3>4
  <2> QED
        BY <1>3, <2>1, <2>2, <2>3, <2>4, <2>5, <2>6, <2>7 DEF Next, DstNext, RecvKVPairs
<1> QED
  BY <1>1, <1>2, <1>3

\* What is on the two connections is what SendKVPairs has sent and RecvKVPairs
\* has not received, in order (src sst.cc:66-105, dst sst.cc:24-66).
THEOREM StreamsCorrect == Spec => []Streams
<1>1. TypeOK /\ TypeOK' /\ SrcRing /\ Streams /\ [Next]_vars => Streams'
      BY StreamsStep
<1> QED
  BY <1>1, StreamsInit, TypeCorrect, SrcRingCorrect, PTL DEF Spec

\* A receiver about to read a file_num, a size or bytes finds what it expects
\* (dst sst.cc:24, 44, 52), whatever fails.
THEOREM StreamsInStepCorrect == Spec => []StreamsInStep
<1>1. TypeOK /\ SrcRing /\ Streams => StreamsInStep
  <2> SUFFICES ASSUME TypeOK, SrcRing, Streams
               PROVE  StreamsInStep
      OBVIOUS
  <2>1. /\ headers \in Seq(Header) /\ payload \in Seq(Pair) /\ SendPlace \in Places
        /\ receiver.pos \in Nat
        BY SendPlaceType DEF TypeOK, SocketTypeOK, DstTypeOK
  <2>2. CASE receiver.eof
        BY <2>2 DEF Streams, StreamClosed, StreamsInStep
  <2>3. CASE ~receiver.eof
    <3>1. RecvInHand /\ Between
          BY <2>3 DEF Streams
    <3>2. headers # <<>> => Head(headers) = HeaderAt(RecvPlace)
          BY <2>1, <3>1, HeadersRecv DEF Between
    <3>3. payload # <<>> => Head(payload) = RecvPair
          BY <2>1, <3>1, PairsRecv DEF Between
    <3>4. receiver.pc = "num" /\ headers # <<>> => Head(headers) = FileNumHeader(recv_cnt - 1)
          BY <3>2 DEF RecvPlace, HeaderAt
    <3>5. receiver.pc = "size" /\ headers # <<>> /\ receiver.pos < NumEntries[receiver.file_num] =>
            Head(headers).kind = "data_size"
      <4>1. receiver.pos + 1 # 0
            BY <2>1
      <4> QED
            BY <3>2, <4>1 DEF RecvPlace, Place, HeaderAt, SizeHeader
    <3>6. receiver.pc = "data" /\ payload # <<>> /\ receiver.kv_pair = Garbage =>
            receiver.data_size = PairSize(Head(payload))
          BY <3>1, <3>3, NullAssumption DEF RecvPair, RecvInHand
    <3> QED
          BY <3>4, <3>5, <3>6 DEF StreamsInStep
  <2> QED
        BY <2>2, <2>3
<1> QED
  BY <1>1, StreamsCorrect, TypeCorrect, SrcRingCorrect, PTL

===============================================================================
