---------------------------- MODULE ImplicitProofs ----------------------------
(***************************************************************************)
(* Proof that dequeues from an implicit producer move out the elements     *)
(* they were granted (DequeuesRight), and that no block is lost or used    *)
(* twice (BlocksAccounted), for any number of consumers, any size of the   *)
(* blocks and of the first index, and any bounds on memory.  ReaderProofs  *)
(* has the steps of the consumers; here are those of the producer, and the *)
(* invariant of the whole.                                                 *)
(***************************************************************************)
EXTENDS ReaderProofs

-------------------------------------------------------------------------------
(* Steps of the producer *)

\* A step of the producer that leaves elements and blocks leaves the invariant of them.
LEMMA ProducerBlocks ==
  ASSUME NEW at \in [HeldNums -> Blocks], BlocksRight(at),
         consumer' = consumer, headIndex' = headIndex, UNCHANGED <<elements, emptied, poolVars>>,
         FirstNum' = FirstNum, Top' = Top, Constructed' = Constructed,
         producer'.taken = producer.taken,
         (IF producer'.pc = "idle" THEN tailBlock' ELSE producer'.start)
           = (IF producer.pc = "idle" THEN tailBlock ELSE producer.start),
         \A k \in HeldNums : EntryRight(k, at[k])'
  PROVE  at \in [HeldNums' -> Blocks] /\ BlocksRight(at)'
<1>1. SameFlags /\ SameEmptying /\ SamePresent
      BY ProducerView
<1>2. HeldNums' = HeldNums
      BY <1>1, HeldFrame
<1>3. Idle' = Idle
      BY DEF Idle, poolVars
<1>4. \A k \in HeldNums : BlockRight(k, at[k])'
  <2> SUFFICES ASSUME NEW k \in HeldNums
               PROVE  BlockRight(k, at[k])'
      OBVIOUS
  <2>1. PICK b : b = at[k]
        OBVIOUS
  <2>2. k \in Nat /\ BlockRight(k, b)
        BY <2>1, HeldBlocks
  <2>3. \A o \in Offsets : /\ Unflagged(Base(k) + o)' <=> Unflagged(Base(k) + o)
                           /\ Present(Base(k) + o)' <=> Present(Base(k) + o)
        BY <1>1, <2>2, PlaceIs DEF SameFlags, SamePresent
  <2>4. [o \in Offsets |-> IF Present(Base(k) + o)' THEN Base(k) + o ELSE None]
          = [o \in Offsets |-> IF Present(Base(k) + o) THEN Base(k) + o ELSE None]
        BY <2>3
  <2>5. {o \in Offsets : ~ Unflagged(Base(k) + o)'} = {o \in Offsets : ~ Unflagged(Base(k) + o)}
        BY <2>3
  <2>6. BlockRight(k, b)'
        BY <2>2, <2>4, <2>5 DEF BlockRight
  <2> QED
        BY <2>1, <2>6
<1>5. \A c \in Consumers : consumer[c].pc \in {"move", "flag", "unlink", "free"} =>
        consumer[c].block = at[Num(consumer[c].index)]
      BY DEF BlocksRight
<1>6. /\ \A j, k \in HeldNums : at[j] = at[k] => j = k
      /\ Blocks \ Idle = {at[k] : k \in HeldNums}
      BY DEF BlocksRight
<1> QED
  BY <1>2, <1>3, <1>4, <1>5, <1>6 DEF BlocksRight

\* A step that changes nothing but where the producer is in its call.
LEMMA EnqueueCallStep ==
  ASSUME CountersInv, ImplicitInv, alive, CallInv',
         UNCHANGED <<tailIndex, headIndex, consumer, alive, tailBlock, blockVars, implicitVars>>,
         producer.pc \in {"idle", "insert", "construct"},
         producer'.pc \in {"insert", "construct", "undo"}, producer'.taken = producer.taken,
         producer'.start = IF producer.pc = "idle" THEN tailBlock ELSE producer.start,
         producer'.pc = "undo" => producer'.base = FirstBase
  PROVE  ImplicitInv'
<1>1. UNCHANGED <<elements, emptied, poolVars, headers, entries, misuse>>
      BY DEF blockVars, implicitVars, poolVars
<1>2. /\ CallInv /\ IndexTypes /\ RingsInv /\ GivenUp /\ RangesInv /\ EmptyingInv /\ BlockTypes /\ AimInv
      BY DEF ImplicitInv
<1>3. tailIndex \in Nat
      BY HeadTail
<1>4. FirstNum \in Nat /\ FirstBase = Base(FirstNum) /\ Top \in Int
      BY <1>2, <1>3, FirstFacts, TopType DEF CallInv
<1>5. FirstNum' = FirstNum /\ FirstBase' = FirstBase
      BY DEF FirstNum, FirstBase
<1>6. Top' = Top /\ Constructed' = Constructed /\ Nums' = Nums
      BY <1>1, <1>5 DEF Top, Constructed, Nums
<1>7. UndoneNums = {} /\ UndoneNums' = {} /\ NumAtTail = Top /\ NumAtTail' = Top
  <2>1. UndoneNums = {} /\ NumAtTail = Top
        BY DEF UndoneNums, NumAtTail
  <2>2. CASE producer'.pc = "undo"
    <3>1. Num(producer'.base) = FirstNum
          BY <1>4, <2>2, NumOfBase
    <3>2. FirstNum .. FirstNum - 1 = {} /\ Top + FirstNum - FirstNum = Top
          BY <1>4
    <3> QED
          BY <1>5, <1>6, <2>1, <2>2, <3>1, <3>2 DEF UndoneNums, NumAtTail
  <2>3. CASE producer'.pc # "undo"
        BY <1>6, <2>1, <2>3 DEF UndoneNums, NumAtTail
  <2> QED
        BY <2>2, <2>3
<1>8. IndexTypes'
      BY <1>1, <1>2, <1>6 DEF IndexTypes
<1>9. RingsInv'
      BY <1>1, <1>2, <1>6, <1>7 DEF RingsInv, blockIndex
<1>10. GivenUp'
      BY <1>1, <1>2, <1>6, <1>7 DEF GivenUp
<1>11. RangesInv' /\ EmptyingInv'
      BY <1>2, ConsumerFrame
<1>12. BlockTypes'
      BY <1>1, <1>2 DEF BlockTypes, Idle, poolVars
<1>13. AimInv'
      BY <1>1, <1>2, <1>6 DEF AimInv
<1>14. PICK at \in [HeldNums -> Blocks] : BlocksRight(at)
      BY DEF ImplicitInv
<1>15. \A k \in HeldNums : EntryRight(k, at[k])'
  <2> SUFFICES ASSUME NEW k \in HeldNums
               PROVE  EntryRight(k, at[k])'
      OBVIOUS
  <2>1. k \in Nat /\ EntryRight(k, at[k])
        BY <1>14, HeldBlocks
  <2>2. SameFreeing
        BY ProducerView
  <2> QED
        BY <1>1, <1>7, <2>1, <2>2, EntryFrame
<1>16. at \in [HeldNums' -> Blocks] /\ BlocksRight(at)'
      BY <1>1, <1>5, <1>6, <1>14, <1>15, ProducerBlocks
<1> QED
  BY <1>8, <1>9, <1>10, <1>11, <1>12, <1>13, <1>16 DEF ImplicitInv

\* The blocks an enqueue has to find begin below its end.
LEMMA NoneNeeded ==
  ASSUME tailIndex \in Nat, NEW n \in Nat
  PROVE  BasesNeeded(n) = {} => tailIndex + n <= FirstBase
<1>1. FirstBase \in Nat
      BY FirstFacts, BaseFacts
<1>2. ASSUME tailIndex + n > FirstBase
      PROVE  BasesNeeded(n) # {}
  <2>1. FirstBase \in FirstBase .. tailIndex + n - 1
        BY <1>1, <1>2
  <2>2. BlockBase(FirstBase) \in BasesNeeded(n)
        BY <2>1 DEF BasesNeeded
  <2> QED
        BY <2>2
<1> QED
  BY <1>1, <1>2

\* A block a call needs is below its end.
LEMMA SomeNeeded ==
  ASSUME tailIndex \in Nat, NEW n \in Nat, NEW b \in BasesNeeded(n)
  PROVE  b < tailIndex + n
<1>1. FirstBase \in Nat
      BY FirstFacts, BaseFacts
<1>2. PICK i \in FirstBase .. tailIndex + n - 1 : b = BlockBase(i)
      BY DEF BasesNeeded
<1>3. i \in Nat /\ i < tailIndex + n
      BY <1>1
<1>4. BlockBase(i) = Base(Num(i)) /\ Base(Num(i)) <= i /\ Num(i) \in Nat
      BY <1>3, NumFacts
<1>5. Base(Num(i)) \in Nat
      BY <1>4, BaseFacts
<1> QED
  BY <1>2, <1>3, <1>4, <1>5

\* An enqueue starts.
LEMMA EnqueueStep ==
  ASSUME CountersInv, CountersInv', ImplicitInv, alive,
         NEW n \in CallSizes, NEW canAlloc \in BOOLEAN, ImplicitEnqueue(n, canAlloc)
  PROVE  ImplicitInv'
<1>1. /\ UNCHANGED <<tailIndex, headIndex, consumer, alive, tailBlock, blockVars, implicitVars>>
      /\ producer.pc = "idle"
      /\ producer'.pc = IF BasesNeeded(n) = {} THEN "construct" ELSE "insert"
      /\ producer'.count = n /\ producer'.base = FirstBase /\ producer'.start = tailBlock
      /\ producer'.taken = <<>>
      BY DEF ImplicitEnqueue, IdleProducer, counterVars
<1>2. n \in Nat /\ n > 0 /\ tailIndex \in Nat
      BY CallsAssumption, HeadTail
<1>3. CallInv /\ producer.taken = <<>>
      BY <1>1 DEF ImplicitInv, CallInv
<1>4. /\ FirstNum \in Nat /\ FirstBase = Base(FirstNum) /\ Base(FirstNum - 1) < tailIndex
      /\ Base(FirstNum) \in Nat /\ Base(FirstNum - 1) \in Int
      BY <1>2, FirstFacts, BaseFacts
<1>5. FirstNum' = FirstNum /\ Top' = FirstNum - 1 /\ Top = FirstNum - 1
      BY <1>1, <1>3, <1>4 DEF FirstNum, FirstBase, Top
<1>6. CallInv'
  <2>1. CASE BasesNeeded(n) = {}
    <3>1. tailIndex + n <= Base(FirstNum)
          BY <1>2, <1>4, <2>1, NoneNeeded
    <3>2. Base(FirstNum - 1) < tailIndex + n
          BY <1>2, <1>4
    <3>3. (FirstNum - 1) + 1 = FirstNum
          BY <1>4
    <3> QED
          BY <1>1, <1>2, <1>5, <2>1, <3>1, <3>2, <3>3 DEF CallInv, ProducerStates
  <2>2. CASE BasesNeeded(n) # {}
    <3>1. PICK b : b \in BasesNeeded(n)
          BY <2>2
    <3>2. Base(FirstNum) < tailIndex + n
      <4>1. PICK i \in Base(FirstNum) .. tailIndex + n - 1 : b = BlockBase(i)
            BY <1>4, <3>1 DEF BasesNeeded
      <4> QED
            BY <1>2, <1>4
    <3>3. (FirstNum - 1) + 1 = FirstNum
          BY <1>4
    <3> QED
          BY <1>1, <1>2, <1>4, <1>5, <2>2, <3>2, <3>3 DEF CallInv, ProducerStates
  <2> QED
        BY <2>1, <2>2
<1> QED
  BY <1>1, <1>3, <1>6, EnqueueCallStep

\* A call that fails, or whose copy throws, gives up what it has.
LEMMA GiveUpStep ==
  ASSUME CountersInv, CountersInv', ImplicitInv, alive,
         InsertFails \/ ConstructThrows
  PROVE  ImplicitInv'
<1>1. ProducerShape(producer) /\ tailIndex \in Nat
      BY HeadTail DEF CountersInv, Shapes
<1>2. /\ UNCHANGED <<tailIndex, headIndex, consumer, alive, tailBlock, blockVars, implicitVars>>
      /\ producer.pc \in {"insert", "construct"}
      /\ producer'.pc = "undo" /\ producer'.base = FirstBase /\ producer'.count = producer.count
      /\ producer'.start = producer.start /\ producer'.taken = producer.taken
      BY <1>1 DEF InsertFails, ConstructThrows, ProducerShape, counterVars
<1>3. CallInv /\ producer.taken \in Seq(Blocks)
      BY DEF ImplicitInv, CallInv
<1>4. FirstNum \in Nat /\ FirstBase = Base(FirstNum) /\ Top \in Int /\ Top >= FirstNum - 1
      BY <1>1, <1>3, FirstFacts, TopType
<1>5. FirstNum' = FirstNum /\ Top' = Top
      BY <1>2 DEF FirstNum, FirstBase, Top
<1>6. FirstNum \in FirstNum .. Top + 1
      BY <1>4
<1>7. CallInv'
      BY <1>2, <1>3, <1>4, <1>5, <1>6 DEF CallInv, ProducerStates
<1> QED
  BY <1>2, <1>7, EnqueueCallStep

\* A step of the producer on the index: the blocks stay where they are.
LEMMA IndexStep ==
  ASSUME CountersInv, ImplicitInv, alive,
         UNCHANGED <<tailIndex, headIndex, consumer, alive, tailBlock, blockVars>>,
         producer.pc \in {"insert", "tail", "block", "undo"},
         producer'.pc \in {"insert", "tail", "block", "undo"},
         producer'.taken = producer.taken, producer'.start = producer.start,
         CallInv', IndexTypes', RingsInv', GivenUp', AimInv',
         \A at \in [HeldNums -> Blocks] : BlocksRight(at) => \A k \in HeldNums : EntryRight(k, at[k])'
  PROVE  ImplicitInv'
<1>1. UNCHANGED <<elements, emptied, poolVars, misuse>>
      BY DEF blockVars, poolVars
<1>2. RangesInv /\ EmptyingInv /\ BlockTypes
      BY DEF ImplicitInv
<1>3. FirstNum' = FirstNum /\ Top' = Top /\ Constructed' = Constructed
      BY DEF FirstNum, FirstBase, Top, Constructed
<1>4. RangesInv' /\ EmptyingInv'
      BY <1>2, ConsumerFrame
<1>5. BlockTypes'
      BY <1>1, <1>2 DEF BlockTypes, Idle, poolVars
<1>6. PICK at \in [HeldNums -> Blocks] : BlocksRight(at)
      BY DEF ImplicitInv
<1>7. \A k \in HeldNums : EntryRight(k, at[k])'
      BY <1>6
<1>8. at \in [HeldNums' -> Blocks] /\ BlocksRight(at)'
      BY <1>1, <1>3, <1>6, <1>7, ProducerBlocks
<1> QED
  BY <1>4, <1>5, <1>8 DEF ImplicitInv

\* The entries that the consumers need stay, and the others move by whole rings.
LEMMA AimMoves ==
  ASSUME IndexTypes, RingsInv, RangesInv, AimInv, headers # <<>>, consumer' = consumer,
         Len(headers') \in Nat, Len(headers) <= Len(headers'),
         \A r \in 1 .. Len(headers) : headers'[r].index = headers[r].index,
         \A e \in 1 .. Len(entries) : Nums'[e] \in Int,
         NumsMove(Nums, Nums', Capacity(blockIndex), Len(entries)),
         \A c \in Consumers, e \in 1 .. Len(entries) :
           /\ consumer[c].pc \in Reading
           /\ Nums[e] \in Num(consumer[c].index) .. Num(consumer[c].end - 1)
           /\ ~ Frees(consumer[c], Nums[e])
           => Nums'[e] = Nums[e]
  PROVE  AimInv'
<1> SUFFICES ASSUME NEW c \in Consumers, consumer[c].pc \in Reading \ {"header"}
             PROVE  AimRight(consumer[c], headers', Nums')
    BY DEF AimInv
<1>1. PICK me : me = consumer[c]
      OBVIOUS
<1>2. AimRight(me, headers, Nums)
      BY <1>1 DEF AimInv
<1>3. PICK r \in 1 .. Len(headers) : r = me.header
      BY <1>2 DEF AimRight
<1>4. r \in 1 .. Len(headers') /\ headers'[r].index = headers[r].index
      BY <1>3
<1>5. PICK m \in Nat \ {0} : RingOver(headers[r], m, Len(entries))
      BY RingTyped
<1>6. /\ DOMAIN headers[r].index = 0 .. m - 1 /\ Capacity(headers[r]) = m
      /\ \A p \in 0 .. m - 1 : headers[r].index[p] \in 1 .. Len(entries) /\ Nums[headers[r].index[p]] \in Int
      BY <1>5, NumsTyped, NumberAt
<1>7. Capacity(headers'[r]) = m
      BY <1>4, <1>6 DEF Capacity
<1>8. PICK n \in Nat \ {0} : n = Capacity(blockIndex)
  <2>1. Len(headers) \in 1 .. Len(headers) /\ blockIndex = headers[Len(headers)]
        BY LastRing
  <2>2. PICK n \in Nat \ {0} : RingOver(blockIndex, n, Len(entries))
        BY <2>1, RingTyped
  <2>3. Capacity(blockIndex) = n
        BY <2>2, RingFacts DEF RingOver
  <2> QED
        BY <2>3
<1>9. Cong(n, 0, m)
  <2>1. CASE r = Len(headers)
    <3>1. n = m
          BY <1>6, <1>8, <2>1, LastRing
    <3>2. n = 0 + m * 1
          BY <3>1
    <3> QED
          BY <3>2 DEF Cong
  <2>2. CASE r # Len(headers)
    <3>1. r \in 1 .. Len(headers) - 1
          BY <2>2, LastRing
    <3>2. OlderRing(headers[r], blockIndex, Nums)
          BY <3>1 DEF RingsInv
    <3> QED
          BY <1>6, <1>8, <3>2 DEF OlderRing
  <2> QED
        BY <2>1, <2>2
<1>10. PICK k \in Nat : k = Num(me.index)
  <2>1. consumer[c].pc \in Reading
        OBVIOUS
  <2> QED
        BY <1>1, <2>1, ReaderRange
<1>11. ASSUME NEW a \in k .. Num(me.end - 1), ~ Frees(me, a)
       PROVE  \E p \in DOMAIN headers'[r].index : Nums'[headers'[r].index[p]] = a
  <2>1. PICK p \in DOMAIN headers[r].index : Nums[headers[r].index[p]] = a
        BY <1>2, <1>3, <1>10, <1>11 DEF AimRight
  <2>2. PICK e \in 1 .. Len(entries) : e = headers[r].index[p]
        BY <1>6, <2>1
  <2>3. Nums'[e] = Nums[e]
        BY <1>1, <1>10, <1>11, <2>1, <2>2
  <2> QED
        BY <1>4, <2>1, <2>2, <2>3
<1>12. me.pc # "mark" => /\ me.mark \in DOMAIN headers[r].index /\ Nums[headers[r].index[me.mark]] # -1
      BY <1>2, <1>3 DEF AimRight
<1>13. ASSUME me.pc # "mark"
       PROVE  /\ Nums'[headers[r].index[me.mark]] # -1
              /\ Cong(Nums'[headers[r].index[me.mark]], Nums[headers[r].index[me.mark]], m)
              /\ Nums'[headers[r].index[me.mark]] \in Int /\ Nums[headers[r].index[me.mark]] \in Int
  <2>1. PICK e \in 1 .. Len(entries) : e = headers[r].index[me.mark]
        BY <1>6, <1>12, <1>13
  <2>2. Nums[e] # -1 /\ Nums[e] \in Int /\ Nums'[e] \in Int
        BY <1>6, <1>12, <1>13, <2>1
  <2>3. Nums'[e] # -1 /\ Cong(Nums'[e], Nums[e], n)
        BY <1>8, <2>2 DEF NumsMove
  <2>4. Cong(Nums'[e], Nums[e], m)
        BY <1>9, <2>2, <2>3, CongDown
  <2> QED
        BY <2>1, <2>2, <2>3, <2>4
<1>14. me.pc \in {"move", "flag", "unlink", "free"} => Cong(Nums'[headers[r].index[me.mark]], k, m)
  <2> SUFFICES ASSUME me.pc \in {"move", "flag", "unlink", "free"}
               PROVE  Cong(Nums'[headers[r].index[me.mark]], k, m)
      OBVIOUS
  <2>1. me.pc # "mark" /\ Cong(Nums[headers[r].index[me.mark]], k, m)
        BY <1>2, <1>3, <1>6, <1>10 DEF AimRight
  <2>2. k \in Int
        OBVIOUS
  <2> QED
        BY <1>13, <2>1, <2>2, CongTrans
<1>15. me.pc = "next" => Cong(Nums'[headers[r].index[me.mark]] + 1, k, m)
  <2> SUFFICES ASSUME me.pc = "next"
               PROVE  Cong(Nums'[headers[r].index[me.mark]] + 1, k, m)
      OBVIOUS
  <2>1. me.pc # "mark" /\ Cong(Nums[headers[r].index[me.mark]] + 1, k, m)
        BY <1>2, <1>3, <1>6, <1>10 DEF AimRight
  <2>2. PICK a \in Int, b \in Int : a = Nums'[headers[r].index[me.mark]] /\ b = Nums[headers[r].index[me.mark]]
        BY <1>13, <2>1
  <2>3. Cong(a, b, m) /\ Cong(b + 1, k, m)
        BY <1>13, <2>1, <2>2
  <2>4. a + 1 \in Int /\ b + 1 \in Int /\ (a + 1) - (b + 1) = a - b /\ k \in Int
        OBVIOUS
  <2>5. Cong(a + 1, b + 1, m)
        BY <2>3, <2>4, CongShift
  <2>6. Cong(a + 1, k, m)
        BY <2>3, <2>4, <2>5, CongTrans
  <2> QED
        BY <2>2, <2>6
<1>16. \A a \in k .. Num(me.end - 1) : ~ Frees(me, a) =>
         \E p \in DOMAIN headers'[r].index : Nums'[headers'[r].index[p]] = a
      BY <1>11
<1>17. AimRight(me, headers', Nums')
      BY <1>3, <1>4, <1>7, <1>10, <1>12, <1>13, <1>14, <1>15, <1>16 DEF AimRight
<1> QED
  BY <1>1, <1>17

\* The place after the tail of the newest ring.
LEMMA NextOfTail ==
  ASSUME IndexTypes, headers # <<>>
  PROVE  \E n \in Nat \ {0} : /\ RingOver(blockIndex, n, Len(entries)) /\ Capacity(blockIndex) = n
                              /\ DOMAIN blockIndex.index = 0 .. n - 1 /\ blockIndex.tail \in 0 .. n - 1
                              /\ NewTail \in 0 .. n - 1 /\ Cong(NewTail - blockIndex.tail, 1, n)
                              /\ blockIndex.index[NewTail] \in 1 .. Len(entries)
<1>1. Len(headers) \in 1 .. Len(headers) /\ blockIndex = headers[Len(headers)]
      BY LastRing
<1>2. PICK n \in Nat \ {0} : RingOver(blockIndex, n, Len(entries))
      BY <1>1, RingTyped
<1>3. /\ Capacity(blockIndex) = n /\ blockIndex.tail \in 0 .. n - 1 /\ DOMAIN blockIndex.index = 0 .. n - 1
      BY <1>2, RingFacts DEF RingOver
<1>4. PICK x : x = (blockIndex.tail + 1) % n
      OBVIOUS
<1>5. PICK t \in Int : t = blockIndex.tail
      BY <1>3
<1>6. x = (t + 1) % n /\ t + 1 \in Int
      BY <1>4, <1>5
<1>7. x \in 0 .. n - 1 /\ Cong(x, t + 1, n)
      BY <1>6, CongMod
<1>8. x \in Int /\ x - t \in Int /\ (x - t) - 1 = x - (t + 1)
      BY <1>5, <1>7
<1>9. Cong(x - t, 1, n)
      BY <1>6, <1>7, <1>8, CongShift
<1>10. NewTail = x
      BY <1>3, <1>4 DEF NewTail
<1> QED
  BY <1>2, <1>3, <1>5, <1>7, <1>9, <1>10 DEF RingOver

\* The key of an entry is stored.
LEMMA KeyKept ==
  ASSUME IndexTypes, NEW e \in 1 .. Len(entries), NEW k \in Nat,
         entries' = [entries EXCEPT ![e].key = Base(k)]
  PROVE  /\ Len(entries') = Len(entries) /\ Nums' = [Nums EXCEPT ![e] = k]
         /\ entries' \in Seq([key : Nat, value : Blocks \cup {None, Uninit}])
         /\ \A f \in 1 .. Len(entries) :
              /\ entries'[f].value = entries[f].value
              /\ Nums'[f] # -1 => entries'[f].key = Base(Nums'[f])
<1>1. /\ Len(entries) \in Nat /\ entries = [f \in 1 .. Len(entries) |-> entries[f]]
      /\ \A f \in 1 .. Len(entries) : entries[f] \in [key : Nat, value : Blocks \cup {None, Uninit}]
      /\ entries \in Seq([key : Nat, value : Blocks \cup {None, Uninit}])
      /\ \A f \in 1 .. Len(entries) : Nums[f] = NumOf(entries[f].key)
      BY NumsTyped DEF IndexTypes
<1>2. PICK b \in Nat : b = Base(k) /\ Num(b) = k
      BY NumOfBase
<1>3. b # 1
  <2>1. b = BLOCK_SIZE * k /\ BLOCK_SIZE \in Nat /\ BLOCK_SIZE > 1
        BY <1>2, BlockSize DEF Base
  <2>2. CASE k = 0
        BY <2>1, <2>2
  <2>3. CASE k # 0
    <3>1. 0 < k
          BY <2>3
    <3>2. Base(0) + BLOCK_SIZE <= Base(k)
          BY <3>1, BaseGap
    <3>3. Base(0) = 0
          BY BaseFacts
    <3> QED
          BY <1>2, <2>1, <3>2, <3>3
  <2> QED
        BY <2>2, <2>3
<1>4. NumOf(b) = k
      BY <1>2, <1>3 DEF NumOf, INVALID_BLOCK_BASE
<1>5. PICK w : w = [entries[e] EXCEPT !.key = b]
      OBVIOUS
<1>6. w \in [key : Nat, value : Blocks \cup {None, Uninit}] /\ w.key = b /\ w.value = entries[e].value
      BY <1>1, <1>5
<1>7. entries' = [entries EXCEPT ![e] = w]
      BY <1>2, <1>5
<1>8. /\ Len(entries') = Len(entries) /\ entries'[e] = w
      /\ \A f \in 1 .. Len(entries) : f # e => entries'[f] = entries[f]
      /\ entries' \in Seq([key : Nat, value : Blocks \cup {None, Uninit}])
      BY <1>1, <1>6, <1>7
<1>9. /\ Nums' = [f \in 1 .. Len(entries) |-> NumOf(entries'[f].key)]
      /\ Nums = [f \in 1 .. Len(entries) |-> Nums[f]]
      BY <1>8 DEF Nums
<1>10. /\ Nums'[e] = k
       /\ \A f \in 1 .. Len(entries) : f # e => Nums'[f] = Nums[f]
      BY <1>1, <1>4, <1>6, <1>8, <1>9
<1>11. Nums' = [Nums EXCEPT ![e] = k]
      BY <1>9, <1>10
<1>12. \A f \in 1 .. Len(entries) : /\ entries'[f].value = entries[f].value
                                    /\ Nums'[f] # -1 => entries'[f].key = Base(Nums'[f])
      BY <1>2, <1>6, <1>8, <1>10 DEF IndexTypes
<1> QED
  BY <1>8, <1>11, <1>12

\* It writes the number of a new block into the next entry of the index,
LEMMA InsertKeyStep ==
  ASSUME CountersInv, CountersInv', ImplicitInv, alive, InsertKey
  PROVE  ImplicitInv'
<1>1. /\ CallInv /\ IndexTypes /\ RingsInv /\ GivenUp /\ RangesInv /\ EmptyingInv /\ AimInv
      BY DEF ImplicitInv
<1>2. ProducerShape(producer) /\ tailIndex \in Nat /\ headIndex <= tailIndex
      BY HeadTail DEF CountersInv, Shapes
<1>3. /\ UNCHANGED <<tailIndex, headIndex, consumer, alive, tailBlock, blockVars, headers>>
      /\ producer.pc = "insert" /\ producer'.pc = "tail"
      /\ producer'.taken = producer.taken /\ producer'.start = producer.start
      /\ producer'.base = producer.base /\ producer'.count = producer.count
      /\ headers # <<>> /\ EntryFree
      /\ entries' = [entries EXCEPT ![blockIndex.index[NewTail]].key = producer.base]
      BY <1>2 DEF InsertKey, Insertable, ProducerShape, counterVars
<1>4. FirstNum \in Nat /\ Top \in Int /\ Top >= FirstNum - 1
      BY <1>1, <1>2, TopType DEF CallInv
<1>5. FirstNum' = FirstNum /\ Top' = Top
      BY <1>3 DEF FirstNum, FirstBase, Top
<1>6. PICK k \in Nat : k = Top + 1
      BY <1>4
<1>7. producer.base = Base(k)
      BY <1>1, <1>3, <1>6 DEF CallInv
<1>8. UndoneNums = {} /\ UndoneNums' = {} /\ NumAtTail = Top /\ NumAtTail' = Top
      BY <1>3, <1>5 DEF UndoneNums, NumAtTail
<1>9. CallInv'
      BY <1>1, <1>3, <1>5 DEF CallInv, ProducerStates
<1>10. PICK n \in Nat \ {0} :
         /\ RingOver(blockIndex, n, Len(entries)) /\ Capacity(blockIndex) = n
         /\ DOMAIN blockIndex.index = 0 .. n - 1 /\ blockIndex.tail \in 0 .. n - 1
         /\ NewTail \in 0 .. n - 1 /\ Cong(NewTail - blockIndex.tail, 1, n)
         /\ blockIndex.index[NewTail] \in 1 .. Len(entries)
      BY <1>1, <1>3, NextOfTail
<1>11. PICK e \in 1 .. Len(entries) : e = blockIndex.index[NewTail]
      BY <1>10
<1>12. entries' = [entries EXCEPT ![e].key = Base(k)]
      BY <1>3, <1>7, <1>11
<1>13. /\ Len(entries') = Len(entries) /\ Nums' = [Nums EXCEPT ![e] = k]
       /\ entries' \in Seq([key : Nat, value : Blocks \cup {None, Uninit}])
       /\ \A f \in 1 .. Len(entries) :
            /\ entries'[f].value = entries[f].value
            /\ Nums'[f] # -1 => entries'[f].key = Base(Nums'[f])
      BY <1>1, <1>12, KeyKept
<1>14. Numbers(Nums, Len(entries))
      BY <1>1, NumsTyped
<1>15. PICK ms : ms = Nums'
      OBVIOUS
<1>16. /\ ms[e] = k /\ \A f \in 1 .. Len(entries) : f # e => ms[f] = Nums[f]
      BY <1>13, <1>14, <1>15 DEF Numbers
<1>17. IndexTypes'
      BY <1>1, <1>3, <1>13 DEF IndexTypes
<1>18. /\ NewestRing(blockIndex, ms, Top) /\ NumsMove(Nums, ms, n, Len(entries))
       /\ Numbers(ms, Len(entries))
  <2>1. NewestRing(blockIndex, Nums, Top)
        BY <1>1, <1>3, <1>8 DEF RingsInv
  <2>2. ms = [Nums EXCEPT ![blockIndex.index[NewTail]] = Top + 1]
        BY <1>6, <1>11, <1>13, <1>15
  <2> QED
        BY <1>4, <1>10, <1>14, <2>1, <2>2, KeyStored
<1>19. \A f \in 1 .. Len(entries) : entries[f].value \in Blocks => f # e \/ Nums[e] = -1
  <2>1. entries[e].key = INVALID_BLOCK_BASE \/ entries[e].value = None
        BY <1>3, <1>11 DEF EntryFree
  <2>2. entries[e].key = INVALID_BLOCK_BASE => Nums[e] = -1
        BY <1>1, NumsTyped DEF NumOf
  <2>3. None \notin Blocks
        BY BlocksAssumption
  <2> QED
        BY <2>1, <2>2, <2>3
<1>20. RingsInv'
  <2>1. \A r \in 1 .. Len(headers) - 1 : OlderRing(headers[r], blockIndex, ms)
    <3> SUFFICES ASSUME NEW r \in 1 .. Len(headers) - 1
                 PROVE  OlderRing(headers[r], blockIndex, ms)
        OBVIOUS
    <3>1. OlderRing(headers[r], blockIndex, Nums)
          BY <1>1, <1>3 DEF RingsInv
    <3>2. r \in 1 .. Len(headers)
          BY <1>1, <1>3, LastRing
    <3>3. PICK m \in Nat \ {0} : RingOver(headers[r], m, Len(entries))
          BY <1>1, <3>2, RingTyped
    <3> QED
          BY <1>10, <1>14, <1>18, <3>1, <3>3, OlderMoves
  <2>2. blockIndex' = blockIndex /\ NewTail' = NewTail
        BY <1>3 DEF blockIndex, NewTail
  <2>3. Nums'[blockIndex.index[NewTail]] = Top + 1
        BY <1>6, <1>11, <1>15, <1>16
  <2> QED
        BY <1>3, <1>5, <1>8, <1>15, <1>18, <2>1, <2>2, <2>3 DEF RingsInv
<1>21. GivenUp'
  <2> SUFFICES ASSUME NEW f \in 1 .. Len(entries),
                      Nums'[f] > Top, ~ (Nums'[f] = Top + 1)
               PROVE  entries'[f].value = None
      BY <1>3, <1>5, <1>8, <1>13 DEF GivenUp
  <2>1. f # e
        BY <1>6, <1>15, <1>16
  <2>2. Nums[f] > Top
        BY <1>15, <1>16, <2>1
  <2>3. entries[f].value = None
        BY <1>1, <1>3, <2>2 DEF GivenUp
  <2> QED
        BY <1>13, <2>3
<1>22. PICK at \in [HeldNums -> Blocks] : BlocksRight(at)
      BY DEF ImplicitInv
<1>23. AimInv'
  <2>1. ASSUME NEW c \in Consumers, NEW f \in 1 .. Len(entries), consumer[c].pc \in Reading,
               Nums[f] \in Num(consumer[c].index) .. Num(consumer[c].end - 1),
               ~ Frees(consumer[c], Nums[f])
        PROVE  Nums'[f] = Nums[f]
    <3>1. PICK a : a = Nums[f]
          OBVIOUS
    <3>2. PICK g \in 1 .. Len(entries) : Nums[g] = a /\ entries[g].value = at[a] /\ at[a] \in Blocks
          BY <1>1, <1>2, <1>22, <2>1, <3>1, ReaderEntry DEF CallInv
    <3>3. a \in Nat
          BY <1>1, <1>2, <2>1, <3>1, ReaderBelow
    <3>4. f = g
          BY <1>1, <3>1, <3>2, <3>3, EntryOf
    <3>5. f # e
          BY <1>19, <3>2, <3>3, <3>4
    <3> QED
          BY <1>15, <1>16, <3>5
  <2>2. /\ Len(headers') \in Nat /\ Len(headers) <= Len(headers')
        /\ \A r \in 1 .. Len(headers) : headers'[r].index = headers[r].index
        BY <1>1, <1>3, LastRing
  <2>3. /\ \A f \in 1 .. Len(entries) : Nums'[f] \in Int
        /\ NumsMove(Nums, Nums', Capacity(blockIndex), Len(entries))
        BY <1>10, <1>15, <1>18 DEF Numbers
  <2> QED
        BY <1>1, <1>3, <2>1, <2>2, <2>3, AimMoves
<1>24. ASSUME NEW bt \in [HeldNums -> Blocks], BlocksRight(bt), NEW j \in HeldNums
       PROVE  EntryRight(j, bt[j])'
  <2>1. j \in Nat /\ EntryRight(j, bt[j]) /\ bt[j] \in Blocks
        BY <1>24, HeldBlocks
  <2>2. Indexed(j)' <=> Indexed(j)
        BY <1>3, <1>8 DEF Indexed
  <2>3. Indexed(j) => \E f \in 1 .. Len(entries) : Nums'[f] = j /\ entries'[f].value = bt[j]
    <3> SUFFICES ASSUME Indexed(j)
                 PROVE  \E f \in 1 .. Len(entries) : Nums'[f] = j /\ entries'[f].value = bt[j]
        OBVIOUS
    <3>1. PICK f \in 1 .. Len(entries) : Nums[f] = j /\ entries[f].value = bt[j]
          BY <2>1 DEF EntryRight
    <3>2. f # e
          BY <1>19, <2>1, <3>1
    <3> QED
          BY <1>13, <1>15, <1>16, <3>1, <3>2
  <2> QED
        BY <1>8, <1>13, <2>2, <2>3 DEF EntryRight
<1> QED
  BY <1>3, <1>9, <1>17, <1>20, <1>21, <1>23, <1>24, IndexStep

\* New entries after the others.
LEMMA EntriesAdded ==
  ASSUME IndexTypes, NEW n \in Nat, entries' = entries \o NewEntries(n)
  PROVE  /\ Len(entries') = Len(entries) + n
         /\ entries' \in Seq([key : Nat, value : Blocks \cup {None, Uninit}])
         /\ \A e \in 1 .. Len(entries) : entries'[e] = entries[e] /\ Nums'[e] = Nums[e]
         /\ \A e \in Len(entries) + 1 .. Len(entries) + n : Nums'[e] = -1
         /\ Numbers(Nums', Len(entries) + n)
<1>1. /\ Len(entries) \in Nat /\ entries \in Seq([key : Nat, value : Blocks \cup {None, Uninit}])
      /\ Numbers(Nums, Len(entries))
      /\ \A e \in 1 .. Len(entries) : Nums[e] = NumOf(entries[e].key)
      BY NumsTyped DEF IndexTypes
<1>2. PICK es : es = NewEntries(n)
      OBVIOUS
<1>3. /\ es \in Seq([key : Nat, value : Blocks \cup {None, Uninit}]) /\ Len(es) = n
      /\ \A i \in 1 .. n : es[i].key = INVALID_BLOCK_BASE
      BY <1>2 DEF NewEntries, INVALID_BLOCK_BASE
<1>4. /\ Len(entries') = Len(entries) + n
      /\ entries' \in Seq([key : Nat, value : Blocks \cup {None, Uninit}])
  <2>1. PICK S : S = [key : Nat, value : Blocks \cup {None, Uninit}]
        OBVIOUS
  <2>2. entries \in Seq(S) /\ es \in Seq(S) /\ entries' = entries \o es
        BY <1>1, <1>2, <1>3, <2>1
  <2>3. Len(entries') = Len(entries) + Len(es) /\ entries' \in Seq(S)
        BY <2>2
  <2> QED
        BY <1>3, <2>1, <2>3
<1>5. /\ \A e \in 1 .. Len(entries) : entries'[e] = entries[e]
      /\ \A e \in Len(entries) + 1 .. Len(entries) + n : entries'[e] = es[e - Len(entries)]
      BY <1>1, <1>2, <1>3
<1>6. Nums' = [e \in 1 .. Len(entries) + n |-> NumOf(entries'[e].key)]
      BY <1>4 DEF Nums
<1>7. \A e \in 1 .. Len(entries) : e \in 1 .. Len(entries) + n
      BY <1>1
<1>8. \A e \in 1 .. Len(entries) : Nums'[e] = Nums[e]
      BY <1>1, <1>5, <1>6, <1>7
<1>9. \A e \in Len(entries) + 1 .. Len(entries) + n : Nums'[e] = -1
  <2> SUFFICES ASSUME NEW e \in Len(entries) + 1 .. Len(entries) + n
               PROVE  Nums'[e] = -1
      OBVIOUS
  <2>1. e - Len(entries) \in 1 .. n /\ e \in 1 .. Len(entries) + n
        BY <1>1
  <2>2. entries'[e].key = INVALID_BLOCK_BASE
        BY <1>3, <1>5, <2>1
  <2> QED
        BY <1>6, <2>1, <2>2 DEF NumOf
<1>10. Numbers(Nums', Len(entries) + n)
  <2>1. Len(entries) + n \in Nat
        BY <1>1
  <2>2. ASSUME NEW e \in 1 .. Len(entries) + n
        PROVE  Nums'[e] \in Int
    <3>1. e \in 1 .. Len(entries) \/ e \in Len(entries) + 1 .. Len(entries) + n
          BY <1>1
    <3> QED
          BY <1>1, <1>8, <1>9, <3>1 DEF Numbers
  <2> QED
        BY <1>6, <2>1, <2>2 DEF Numbers
<1> QED
  BY <1>4, <1>5, <1>8, <1>9, <1>10

\* The ring that takes over.
LEMMA RingDoubled ==
  ASSUME NEW h, NEW n, NEW N \in Nat, RingOver(h, n, N), NEW k,
         k = [tail  |-> n - 1,
              index |-> [i \in 0 .. 2 * n - 1 |-> IF i < n THEN h.index[(h.tail + 1 + i) % n]
                                                          ELSE N + i - n + 1]]
  PROVE  Doubles(k, h, n, N) /\ k \in Headers
<1>1. n \in Nat \ {0} /\ h.tail \in 0 .. n - 1 /\ \A p \in 0 .. n - 1 : h.index[p] \in 1 .. N
      BY RingFacts DEF RingOver
<1>2. \A i \in 0 .. n - 1 : h.index[(h.tail + 1 + i) % n] \in Nat
  <2> SUFFICES ASSUME NEW i \in 0 .. n - 1
               PROVE  h.index[(h.tail + 1 + i) % n] \in Nat
      OBVIOUS
  <2>1. PICK a \in Int : a = h.tail + 1 + i
        BY <1>1
  <2>2. a % n \in 0 .. n - 1
        BY <1>1, CongMod
  <2>3. h.index[a % n] \in 1 .. N
        BY <1>1, <2>2
  <2> QED
        BY <2>1, <2>3
<1>3. \A i \in 0 .. 2 * n - 1 : /\ i \in Int
                                /\ i < n => i \in 0 .. n - 1
                                /\ ~ (i < n) => N + i - n + 1 \in Nat
      BY <1>1
<1>4. k.index \in [0 .. 2 * n - 1 -> Nat]
      BY <1>2, <1>3
<1>5. /\ \A i \in 0 .. n - 1 : i \in 0 .. 2 * n - 1 /\ i < n
      /\ \A i \in n .. 2 * n - 1 : i \in 0 .. 2 * n - 1 /\ ~ (i < n)
      /\ n - 1 \in 0 .. 2 * n - 1 /\ 2 * n \in Nat \ {0}
      BY <1>1
<1>6. /\ \A i \in 0 .. n - 1 : k.index[i] = h.index[(h.tail + 1 + i) % n]
      /\ \A i \in n .. 2 * n - 1 : k.index[i] = N + i - n + 1
      BY <1>5
<1>7. IsRing(k, 2 * n)
      BY <1>4, <1>5 DEF IsRing
<1> QED
  BY <1>6, <1>7, RingFacts DEF Doubles

\* doubles the index first if that entry is in use,
LEMMA GrowIndexStep ==
  ASSUME CountersInv, CountersInv', ImplicitInv, alive, GrowIndex
  PROVE  ImplicitInv'
<1>1. /\ CallInv /\ IndexTypes /\ RingsInv /\ GivenUp /\ RangesInv /\ AimInv
      BY DEF ImplicitInv
<1>2. tailIndex \in Nat
      BY HeadTail
<1>3. /\ UNCHANGED <<tailIndex, headIndex, consumer, alive, tailBlock, blockVars, producer>>
      /\ producer.pc = "insert" /\ headers # <<>> /\ ~ EntryFree /\ NewBlockIndex
      BY DEF GrowIndex, counterVars
<1>4. FirstNum \in Nat /\ Top \in Int /\ Top >= FirstNum - 1
      BY <1>1, <1>2, TopType DEF CallInv
<1>5. FirstNum' = FirstNum /\ Top' = Top
      BY <1>3 DEF FirstNum, FirstBase, Top
<1>6. UndoneNums = {} /\ UndoneNums' = {} /\ NumAtTail = Top /\ NumAtTail' = Top
      BY <1>3, <1>5 DEF UndoneNums, NumAtTail
<1>7. CallInv'
      BY <1>1, <1>3, <1>5 DEF CallInv
<1>8. PICK h : h = blockIndex
      OBVIOUS
<1>9. PICK n \in Nat \ {0} :
        /\ RingOver(h, n, Len(entries)) /\ Capacity(h) = n
        /\ NewTail \in 0 .. n - 1 /\ Cong(NewTail - h.tail, 1, n)
        /\ h.index[NewTail] \in 1 .. Len(entries)
      BY <1>1, <1>3, <1>8, NextOfTail
<1>10. PICK k : k = [tail  |-> n - 1,
                     index |-> [i \in 0 .. 2 * n - 1 |-> IF i < n THEN h.index[(h.tail + 1 + i) % n]
                                                                 ELSE Len(entries) + i - n + 1]]
      OBVIOUS
<1>11. headers' = Append(headers, k) /\ entries' = entries \o NewEntries(n)
      BY <1>3, <1>8, <1>9, <1>10 DEF NewBlockIndex
<1>12. PICK N \in Nat : N = Len(entries)
      BY <1>1, NumsTyped
<1>13. Doubles(k, h, n, N) /\ k \in Headers
      BY <1>9, <1>10, <1>12, RingDoubled, ZenonT(30)
<1>14. RingOver(k, 2 * n, N + n) /\ Capacity(k) = 2 * n
      BY <1>9, <1>12, <1>13, DoubleOver
<1>15. /\ Len(entries') = N + n
       /\ entries' \in Seq([key : Nat, value : Blocks \cup {None, Uninit}])
       /\ \A e \in 1 .. N : entries'[e] = entries[e] /\ Nums'[e] = Nums[e]
       /\ \A e \in N + 1 .. N + n : Nums'[e] = -1
       /\ Numbers(Nums', N + n)
      BY <1>1, <1>11, <1>12, EntriesAdded
<1>16. Numbers(Nums, N)
      BY <1>1, <1>12, NumsTyped
<1>17. PICK L \in Nat : L = Len(headers) /\ L \in 1 .. L /\ h = headers[L]
      BY <1>1, <1>3, <1>8, LastRing
<1>18. /\ Len(headers') = L + 1 /\ headers' # <<>> /\ headers' \in Seq(Headers)
       /\ headers'[L + 1] = k /\ \A r \in 1 .. L : headers'[r] = headers[r]
       /\ blockIndex' = k
  <2>1. headers \in Seq(Headers)
        BY <1>1 DEF IndexTypes
  <2>2. /\ Len(headers') = L + 1 /\ headers' \in Seq(Headers)
        /\ headers'[L + 1] = k /\ \A r \in 1 .. L : headers'[r] = headers[r]
        BY <1>11, <1>13, <1>17, <2>1
  <2>3. headers' # <<>>
        BY <1>17, <2>2
  <2>4. blockIndex' = headers'[Len(headers')]
        BY DEF blockIndex, Last
  <2> QED
        BY <2>2, <2>3, <2>4
<1>19. PICK x \in 0 .. n - 1 : x = NewTail
      BY <1>9
<1>20. Nums[h.index[x]] # -1 /\ Nums[h.index[x]] # Top + 1
  <2>1. PICK e \in 1 .. Len(entries) : e = h.index[x]
        BY <1>9, <1>19
  <2>2. entries[e].key # INVALID_BLOCK_BASE /\ entries[e].value # None
        BY <1>3, <1>8, <1>19, <2>1 DEF EntryFree
  <2>3. entries[e].key \in Nat /\ Nums[e] = NumOf(entries[e].key)
        BY <1>1, NumsTyped
  <2>4. Nums[e] \in Nat
        BY <2>2, <2>3, NumFacts DEF NumOf
  <2>5. ~ (Nums[e] > Top)
        BY <1>1, <1>3, <2>2 DEF GivenUp
  <2> QED
        BY <1>4, <2>1, <2>4, <2>5
<1>21. PICK ms : ms = Nums'
      OBVIOUS
<1>22. NewestRing(k, ms, Top) /\ OlderRing(h, k, ms)
  <2>1. NewestRing(h, Nums, Top)
        BY <1>1, <1>3, <1>6, <1>8 DEF RingsInv
  <2>2. Cong(x - h.tail, 1, n) /\ RingOver(h, n, N)
        BY <1>9, <1>12, <1>19
  <2>3. Numbers(ms, N + n) /\ (\A e \in 1 .. N : ms[e] = Nums[e]) /\ (\A e \in N + 1 .. N + n : ms[e] = -1)
        BY <1>15, <1>21
  <2> QED
        BY <1>4, <1>13, <1>16, <1>20, <2>1, <2>2, <2>3, RingGrows
<1>23. ASSUME NEW r \in 1 .. L
       PROVE  OlderRing(headers[r], k, ms)
  <2>1. CASE r = L
        BY <1>17, <1>22, <2>1
  <2>2. CASE r # L
    <3>1. r \in 1 .. Len(headers) - 1 /\ r \in 1 .. Len(headers)
          BY <1>17, <2>2
    <3>2. OlderRing(headers[r], h, Nums)
          BY <1>1, <1>3, <1>8, <3>1 DEF RingsInv
    <3>3. PICK m \in Nat \ {0} : RingOver(headers[r], m, N)
          BY <1>1, <1>12, <3>1, RingTyped
    <3>4. \A e \in 1 .. N : ms[e] = Nums[e]
          BY <1>15, <1>21
    <3> QED
          BY <1>9, <1>14, <3>2, <3>3, <3>4, OlderGrows
  <2> QED
        BY <2>1, <2>2
<1>24. RingsInv'
  <2>1. \A r \in 1 .. Len(headers') - 1 : OlderRing(headers'[r], k, ms)
    <3> SUFFICES ASSUME NEW r \in 1 .. Len(headers') - 1
                 PROVE  OlderRing(headers'[r], k, ms)
        OBVIOUS
    <3>1. r \in 1 .. L
          BY <1>18
    <3> QED
          BY <1>18, <1>23, <3>1
  <2> QED
        BY <1>3, <1>6, <1>18, <1>21, <1>22, <2>1 DEF RingsInv
<1>25. IndexTypes'
  <2>1. ASSUME NEW r \in 1 .. Len(headers'), NEW p \in DOMAIN headers'[r].index
        PROVE  headers'[r].index[p] \in 1 .. Len(entries')
    <3>1. CASE r = L + 1
      <4>1. DOMAIN k.index = 0 .. 2 * n - 1
            BY <1>14, RingFacts DEF RingOver
      <4> QED
            BY <1>14, <1>15, <1>18, <2>1, <3>1, <4>1 DEF RingOver
    <3>2. CASE r # L + 1
      <4>1. r \in 1 .. L
            BY <1>18, <3>2
      <4>2. headers'[r].index[p] \in 1 .. N
            BY <1>1, <1>12, <1>17, <1>18, <2>1, <4>1 DEF IndexTypes
      <4> QED
            BY <1>15, <4>2
    <3> QED
          BY <3>1, <3>2
  <2>2. ASSUME NEW e \in 1 .. Len(entries'), Nums'[e] # -1
        PROVE  entries'[e].key = Base(Nums'[e])
    <3>1. e \in 1 .. N
          BY <1>15, <2>2
    <3> QED
          BY <1>1, <1>12, <1>15, <2>2, <3>1 DEF IndexTypes
  <2> QED
        BY <1>15, <1>18, <2>1, <2>2 DEF IndexTypes
<1>26. GivenUp'
  <2> SUFFICES ASSUME NEW e \in 1 .. N + n, Nums'[e] > Top
               PROVE  entries'[e].value = None
      BY <1>3, <1>5, <1>6, <1>15 DEF GivenUp
  <2>1. e \in 1 .. N
        BY <1>4, <1>15
  <2> QED
        BY <1>1, <1>3, <1>12, <1>15, <2>1 DEF GivenUp
<1>27. AimInv'
  <2>1. NumsMove(Nums, Nums', Capacity(blockIndex), Len(entries))
    <3> SUFFICES ASSUME NEW e \in 1 .. N, Nums[e] # -1
                 PROVE  Nums'[e] # -1 /\ Cong(Nums'[e], Nums[e], n)
        BY <1>8, <1>9, <1>12 DEF NumsMove
    <3>1. Nums[e] \in Int
          BY <1>16 DEF Numbers
    <3> QED
          BY <1>15, <3>1, CongRefl
  <2>2. \A e \in 1 .. Len(entries) : Nums'[e] \in Int /\ Nums'[e] = Nums[e]
        BY <1>12, <1>15, <1>16 DEF Numbers
  <2>3. /\ Len(headers') \in Nat /\ Len(headers) <= Len(headers')
        /\ \A r \in 1 .. Len(headers) : headers'[r].index = headers[r].index
        BY <1>17, <1>18
  <2> QED
        BY <1>1, <1>3, <2>1, <2>2, <2>3, AimMoves
<1>28. ASSUME NEW at \in [HeldNums -> Blocks], BlocksRight(at), NEW j \in HeldNums
       PROVE  EntryRight(j, at[j])'
  <2>1. EntryRight(j, at[j])
        BY <1>28, HeldBlocks
  <2>2. Indexed(j)' <=> Indexed(j)
        BY <1>3, <1>6 DEF Indexed
  <2>3. \A e \in 1 .. N : e \in 1 .. N + n
        OBVIOUS
  <2>4. Indexed(j) => \E e \in 1 .. N + n : Nums'[e] = j /\ entries'[e].value = at[j]
        BY <1>12, <1>15, <2>1, <2>3 DEF EntryRight
  <2> QED
        BY <1>6, <1>15, <2>2, <2>4 DEF EntryRight
<1> QED
  BY <1>3, <1>7, <1>24, <1>25, <1>26, <1>27, <1>28, IndexStep

\* The tail of the newest ring is stored.
LEMMA TailStep ==
  ASSUME IndexTypes, RingsInv, RangesInv, AimInv, headers # <<>>, consumer' = consumer,
         NEW p \in DOMAIN blockIndex.index,
         headers' = [headers EXCEPT ![Len(headers)] = [blockIndex EXCEPT !.tail = p]],
         Nums' = Nums, Len(entries') = Len(entries),
         entries' \in Seq([key : Nat, value : Blocks \cup {None, Uninit}]),
         \A e \in 1 .. Len(entries) : entries'[e].key = entries[e].key,
         NEW u \in Int, NumAtTail' = u, NumAtTail \in Int,
         Cong(p - blockIndex.tail, u - NumAtTail, Capacity(blockIndex)),
         NEW e \in 1 .. Len(entries), Nums[e] # -1, Nums[e] = u \/ Nums[e] = u + 1,
         producer'.pc \in {"block", "undo"},
         producer'.pc = "block" => Nums[blockIndex.index[p]] = Top' + 1
  PROVE  IndexTypes' /\ RingsInv' /\ AimInv'
<1>1. PICK h : h = blockIndex
      OBVIOUS
<1>2. PICK n \in Nat \ {0} : /\ RingOver(h, n, Len(entries)) /\ Capacity(h) = n
                             /\ DOMAIN h.index = 0 .. n - 1
      BY <1>1, NextOfTail
<1>3. PICK g : g = [h EXCEPT !.tail = p]
      OBVIOUS
<1>4. p \in 0 .. n - 1
      BY <1>1, <1>2
<1>5. IsRing(g, n) /\ g.tail = p /\ g.index = h.index
      BY <1>2, <1>3, <1>4, TailStored DEF RingOver
<1>6. g \in Headers /\ Capacity(g) = n
      BY <1>5, RingFacts
<1>7. PICK L \in Nat : L = Len(headers) /\ L \in 1 .. L /\ h = headers[L]
      BY <1>1, LastRing
<1>8. /\ Len(headers') = L /\ headers' # <<>> /\ headers' \in Seq(Headers)
      /\ headers'[L] = g /\ \A r \in 1 .. L : r # L => headers'[r] = headers[r]
      /\ blockIndex' = g
  <2>1. headers \in Seq(Headers) /\ headers' = [headers EXCEPT ![L] = g]
        BY <1>1, <1>3, <1>7 DEF IndexTypes
  <2>2. /\ Len(headers') = L /\ headers' \in Seq(Headers)
        /\ headers'[L] = g /\ \A r \in 1 .. L : r # L => headers'[r] = headers[r]
    <3>1. PICK hs : hs = headers
          OBVIOUS
    <3>2. hs \in Seq(Headers) /\ L \in 1 .. Len(hs) /\ L = Len(hs)
          BY <1>7, <2>1, <3>1
    <3>3. /\ [hs EXCEPT ![L] = g] \in Seq(Headers) /\ Len([hs EXCEPT ![L] = g]) = Len(hs)
          /\ \A r \in 1 .. Len(hs) : [hs EXCEPT ![L] = g][r] = IF r = L THEN g ELSE hs[r]
          BY <1>6, <3>2, ExceptSeq
    <3> QED
          BY <2>1, <3>1, <3>2, <3>3
  <2>3. headers' # <<>>
        BY <1>7, <2>2
  <2>4. blockIndex' = headers'[Len(headers')]
        BY DEF blockIndex, Last
  <2> QED
        BY <2>2, <2>3, <2>4
<1>9. \A r \in 1 .. L : headers'[r].index = headers[r].index
      BY <1>5, <1>7, <1>8
<1>10. IndexTypes'
      BY <1>7, <1>8, <1>9 DEF IndexTypes
<1>11. Numbers(Nums, Len(entries))
      BY NumsTyped
<1>12. NewestRing(g, Nums, u)
  <2>1. NewestRing(h, Nums, NumAtTail)
        BY <1>1 DEF RingsInv
  <2>2. PICK t \in Int : t = NumAtTail
        OBVIOUS
  <2>3. NewestRing(h, Nums, t) /\ Cong(p - h.tail, u - t, n)
        BY <1>1, <1>2, <2>1, <2>2
  <2>4. NewestRing([h EXCEPT !.tail = p], Nums, u)
        BY <1>2, <1>4, <1>11, <2>3, TailMoves
  <2> QED
        BY <1>3, <2>4
<1>13. RingsInv'
  <2>1. \A r \in 1 .. L - 1 : OlderRing(headers'[r], g, Nums)
    <3> SUFFICES ASSUME NEW r \in 1 .. L - 1
                 PROVE  OlderRing(headers'[r], g, Nums)
        OBVIOUS
    <3>1. OlderRing(headers[r], h, Nums)
          BY <1>1, <1>7 DEF RingsInv
    <3>2. headers'[r] = headers[r]
          BY <1>8
    <3> QED
          BY <1>2, <1>6, <3>1, <3>2 DEF OlderRing
  <2>2. producer'.pc = "block" => Nums[g.index[g.tail]] = Top' + 1
        BY <1>1, <1>5
  <2> QED
        BY <1>8, <1>12, <2>1, <2>2 DEF RingsInv
<1>14. AimInv'
  <2>1. NumsMove(Nums, Nums', Capacity(blockIndex), Len(entries))
    <3> SUFFICES ASSUME NEW f \in 1 .. Len(entries), Nums[f] # -1
                 PROVE  Cong(Nums[f], Nums[f], n)
        BY <1>1, <1>2 DEF NumsMove
    <3>1. Nums[f] \in Int
          BY <1>11 DEF Numbers
    <3> QED
          BY <3>1, CongRefl
  <2>2. \A f \in 1 .. Len(entries) : Nums'[f] \in Int /\ Nums'[f] = Nums[f]
        BY <1>11 DEF Numbers
  <2>3. /\ Len(headers') \in Nat /\ Len(headers) <= Len(headers')
        /\ \A r \in 1 .. Len(headers) : headers'[r].index = headers[r].index
        BY <1>7, <1>8, <1>9
  <2> QED
        BY <2>1, <2>2, <2>3, AimMoves
<1> QED
  BY <1>10, <1>13, <1>14

\* and advances the tail of the index.
LEMMA InsertTailStep ==
  ASSUME CountersInv, CountersInv', ImplicitInv, alive, InsertTail
  PROVE  ImplicitInv'
<1>1. /\ CallInv /\ IndexTypes /\ RingsInv /\ GivenUp /\ RangesInv /\ AimInv
      BY DEF ImplicitInv
<1>2. ProducerShape(producer) /\ tailIndex \in Nat
      BY HeadTail DEF CountersInv, Shapes
<1>3. /\ UNCHANGED <<tailIndex, headIndex, consumer, alive, tailBlock, blockVars, entries>>
      /\ producer.pc = "tail" /\ producer'.pc = "block"
      /\ producer'.taken = producer.taken /\ producer'.start = producer.start
      /\ producer'.base = producer.base /\ producer'.count = producer.count
      /\ headers' = [headers EXCEPT ![Len(headers)].tail = NewTail]
      BY <1>2 DEF InsertTail, ProducerShape, counterVars
<1>4. headers # <<>>
      BY <1>1, <1>3 DEF CallInv
<1>5. FirstNum \in Nat /\ Top \in Int /\ Top >= FirstNum - 1
      BY <1>1, <1>2, TopType DEF CallInv
<1>6. FirstNum' = FirstNum /\ Top' = Top /\ Nums' = Nums
      BY <1>3 DEF FirstNum, FirstBase, Top, Nums
<1>7. UndoneNums = {} /\ UndoneNums' = {} /\ NumAtTail = Top /\ NumAtTail' = Top + 1
      BY <1>3, <1>6 DEF UndoneNums, NumAtTail
<1>8. Len(headers) \in 1 .. Len(headers) /\ blockIndex = headers[Len(headers)]
      BY <1>1, <1>4, LastRing
<1>9. PICK n \in Nat \ {0} :
        /\ Capacity(blockIndex) = n /\ DOMAIN blockIndex.index = 0 .. n - 1
        /\ blockIndex.tail \in 0 .. n - 1
        /\ NewTail \in 0 .. n - 1 /\ Cong(NewTail - blockIndex.tail, 1, n)
        /\ blockIndex.index[NewTail] \in 1 .. Len(entries)
      BY <1>1, <1>4, NextOfTail
<1>10. PICK p \in DOMAIN blockIndex.index : p = NewTail
      BY <1>9
<1>11. PICK e \in 1 .. Len(entries) : e = blockIndex.index[p]
      BY <1>9, <1>10
<1>12. Nums[e] = Top + 1
      BY <1>1, <1>3, <1>4, <1>10, <1>11 DEF RingsInv
<1>13. headers' = [headers EXCEPT ![Len(headers)] = [blockIndex EXCEPT !.tail = p]]
      BY <1>1, <1>3, <1>8, <1>10
<1>14. PICK u \in Int : u = Top + 1
      BY <1>5
<1>15. headers' # <<>>
  <2>1. Len(headers') = Len(headers)
        BY <1>1, <1>13 DEF IndexTypes
  <2> QED
        BY <1>8, <2>1
<1>16. CallInv'
      BY <1>1, <1>3, <1>6, <1>15 DEF CallInv, ProducerStates
<1>17. IndexTypes' /\ RingsInv' /\ AimInv'
  <2>1. Cong(p - blockIndex.tail, u - NumAtTail, Capacity(blockIndex))
    <3>1. u - NumAtTail = 1
          BY <1>5, <1>7, <1>14
    <3> QED
          BY <1>9, <1>10, <3>1
  <2>2. NumAtTail' = u /\ NumAtTail \in Int
        BY <1>5, <1>7, <1>14
  <2>3. Nums[e] # -1 /\ Nums[e] = u
        BY <1>5, <1>12, <1>14
  <2>4. producer'.pc \in {"block", "undo"}
        BY <1>3
  <2>5. producer'.pc = "block" => Nums[blockIndex.index[p]] = Top' + 1
        BY <1>6, <1>11, <1>12
  <2>6. /\ Len(entries') = Len(entries) /\ \A f \in 1 .. Len(entries) : entries'[f].key = entries[f].key
        /\ entries' \in Seq([key : Nat, value : Blocks \cup {None, Uninit}])
        BY <1>1, <1>3 DEF IndexTypes
  <2>7. consumer' = consumer
        BY <1>3
  <2> QED
        BY <1>1, <1>4, <1>6, <1>13, <2>1, <2>2, <2>3, <2>4, <2>5, <2>6, <2>7, TailStep
<1>18. GivenUp'
      BY <1>1, <1>3, <1>6, <1>7 DEF GivenUp
<1>19. \A at \in [HeldNums -> Blocks] : BlocksRight(at) => \A k \in HeldNums : EntryRight(k, at[k])'
  <2> SUFFICES ASSUME NEW at \in [HeldNums -> Blocks], BlocksRight(at), NEW k \in HeldNums
               PROVE  EntryRight(k, at[k])'
      OBVIOUS
  <2>1. k \in Nat /\ EntryRight(k, at[k])
        BY HeldBlocks
  <2>2. SameFreeing
        BY <1>3, ProducerView
  <2> QED
        BY <1>3, <1>7, <2>1, <2>2, EntryFrame
<1> QED
  BY <1>3, <1>16, <1>17, <1>18, <1>19, IndexStep

\* The place before the tail of the newest ring.
LEMMA TailBack ==
  ASSUME IndexTypes, headers # <<>>
  PROVE  \E p \in DOMAIN blockIndex.index :
           /\ Rewound(blockIndex) = [blockIndex EXCEPT !.tail = p]
           /\ Cong(p - blockIndex.tail, -1, Capacity(blockIndex))
<1>1. PICK n \in Nat \ {0} :
        /\ Capacity(blockIndex) = n /\ DOMAIN blockIndex.index = 0 .. n - 1
        /\ blockIndex.tail \in 0 .. n - 1
      BY NextOfTail
<1>2. PICK t \in Int : t = blockIndex.tail
      BY <1>1
<1>3. PICK p : p = (t + n - 1) % n
      OBVIOUS
<1>4. t + n - 1 \in Int
      OBVIOUS
<1>5. p \in 0 .. n - 1 /\ Cong(p, t + n - 1, n)
      BY <1>3, <1>4, CongMod
<1>6. p \in Int /\ p - t \in Int /\ n - 1 \in Int /\ (p - t) - (n - 1) = p - (t + n - 1)
      BY <1>5
<1>7. Cong(p - t, n - 1, n)
      BY <1>4, <1>5, <1>6, CongShift
<1>8. Cong(n - 1, -1, n)
  <2>1. n - 1 = -1 + n * 1
        OBVIOUS
  <2> QED
        BY <2>1 DEF Cong
<1>9. Cong(p - t, -1, n)
      BY <1>6, <1>7, <1>8, CongTrans
<1>10. Rewound(blockIndex) = [blockIndex EXCEPT !.tail = p]
      BY <1>1, <1>2, <1>3 DEF Rewound
<1> QED
  BY <1>1, <1>2, <1>5, <1>9, <1>10

\* When there is no block the tail of the index goes back.
LEMMA BlockFailsStep ==
  ASSUME CountersInv, CountersInv', ImplicitInv, alive, BlockFails
  PROVE  ImplicitInv'
<1>1. /\ CallInv /\ IndexTypes /\ RingsInv /\ GivenUp /\ RangesInv /\ AimInv
      BY DEF ImplicitInv
<1>2. ProducerShape(producer) /\ tailIndex \in Nat
      BY HeadTail DEF CountersInv, Shapes
<1>3. /\ UNCHANGED <<tailIndex, headIndex, consumer, alive, tailBlock, blockVars>>
      /\ producer.pc = "block" /\ producer'.pc = "undo"
      /\ producer'.taken = producer.taken /\ producer'.start = producer.start
      /\ producer'.base = FirstBase /\ producer'.count = producer.count
      /\ headers' = [headers EXCEPT ![Len(headers)] = Rewound(headers[Len(headers)])]
      /\ entries' = [entries EXCEPT ![blockIndex.index[blockIndex.tail]].value = None]
      BY <1>2 DEF BlockFails, ProducerShape, counterVars
<1>4. headers # <<>>
      BY <1>1, <1>3 DEF CallInv
<1>5. FirstNum \in Nat /\ Top \in Int /\ Top >= FirstNum - 1 /\ FirstBase = Base(FirstNum)
      BY <1>1, <1>2, TopType, FirstFacts DEF CallInv
<1>6. FirstNum' = FirstNum /\ Top' = Top
      BY <1>3 DEF FirstNum, FirstBase, Top
<1>7. UndoneNums = {} /\ UndoneNums' = {} /\ NumAtTail = Top + 1 /\ NumAtTail' = Top
  <2>1. Num(producer'.base) = FirstNum
        BY <1>3, <1>5, NumOfBase
  <2>2. FirstNum .. FirstNum - 1 = {} /\ Top + FirstNum - FirstNum = Top
        BY <1>5
  <2> QED
        BY <1>3, <1>6, <2>1, <2>2 DEF UndoneNums, NumAtTail
<1>8. Len(headers) \in 1 .. Len(headers) /\ blockIndex = headers[Len(headers)]
      BY <1>1, <1>4, LastRing
<1>9. PICK p \in DOMAIN blockIndex.index :
        /\ Rewound(blockIndex) = [blockIndex EXCEPT !.tail = p]
        /\ Cong(p - blockIndex.tail, -1, Capacity(blockIndex))
      BY <1>1, <1>4, TailBack
<1>10. headers' = [headers EXCEPT ![Len(headers)] = [blockIndex EXCEPT !.tail = p]]
      BY <1>3, <1>8, <1>9
<1>11. PICK e \in 1 .. Len(entries) : e = blockIndex.index[blockIndex.tail]
  <2>1. PICK n \in Nat \ {0} : RingOver(blockIndex, n, Len(entries)) /\ blockIndex.tail \in 0 .. n - 1
        BY <1>1, <1>4, NextOfTail
  <2> QED
        BY <2>1 DEF RingOver
<1>12. Nums[e] = Top + 1
      BY <1>1, <1>3, <1>4, <1>11 DEF RingsInv
<1>13. /\ Len(entries') = Len(entries) /\ Nums' = Nums
       /\ entries' \in Seq([key : Nat, value : Blocks \cup {None, Uninit}])
       /\ entries'[e].value = None
       /\ \A f \in 1 .. Len(entries) :
            /\ entries'[f].key = entries[f].key
            /\ f # e => entries'[f].value = entries[f].value
  <2>1. entries' = [entries EXCEPT ![e].value = None] /\ None \in Blocks \cup {None}
        BY <1>3, <1>11
  <2> QED
        BY <1>1, <2>1, ValueStored
<1>14. PICK u \in Int : u = Top
      BY <1>5
<1>15. CallInv'
  <2>1. FirstNum \in FirstNum .. Top + 1
        BY <1>5
  <2> QED
        BY <1>1, <1>3, <1>5, <1>6, <2>1 DEF CallInv, ProducerStates
<1>16. IndexTypes' /\ RingsInv' /\ AimInv'
  <2>1. Cong(p - blockIndex.tail, u - NumAtTail, Capacity(blockIndex))
    <3>1. u - NumAtTail = -1
          BY <1>5, <1>7, <1>14
    <3> QED
          BY <1>9, <3>1
  <2>2. NumAtTail' = u /\ NumAtTail \in Int
        BY <1>5, <1>7, <1>14
  <2>3. Nums[e] # -1 /\ Nums[e] = u + 1
        BY <1>5, <1>12, <1>14
  <2>4. producer'.pc \in {"block", "undo"} /\ producer'.pc # "block"
        BY <1>3
  <2>5. consumer' = consumer
        BY <1>3
  <2> QED
        BY <1>1, <1>4, <1>10, <1>13, <2>1, <2>2, <2>3, <2>4, <2>5, TailStep
<1>17. \A f \in 1 .. Len(entries) : Nums[f] = Top + 1 => f = e
  <2>1. Nums[e] # -1
        BY <1>5, <1>12
  <2> QED
        BY <1>1, <1>12, <2>1, EntryOf
<1>18. GivenUp'
  <2> SUFFICES ASSUME NEW f \in 1 .. Len(entries), Nums[f] > Top
               PROVE  entries'[f].value = None
      BY <1>3, <1>6, <1>7, <1>13 DEF GivenUp
  <2>1. CASE f = e
        BY <1>13, <2>1
  <2>2. CASE f # e
    <3>1. Nums[f] # Top + 1
          BY <1>17, <2>2
    <3>2. entries[f].value = None
          BY <1>1, <3>1 DEF GivenUp
    <3> QED
          BY <1>13, <2>2, <3>2
  <2> QED
        BY <2>1, <2>2
<1>19. ASSUME NEW at \in [HeldNums -> Blocks], BlocksRight(at), NEW k \in HeldNums
       PROVE  EntryRight(k, at[k])'
  <2>1. k \in Nat /\ EntryRight(k, at[k]) /\ k <= Top
        BY <1>19, HeldBlocks DEF HeldNums
  <2>2. Indexed(k)' <=> Indexed(k)
        BY <1>3, <1>7 DEF Indexed
  <2>3. k # Top + 1
        BY <1>5, <2>1
  <2>4. Indexed(k) => \E f \in 1 .. Len(entries) : Nums[f] = k /\ entries'[f].value = at[k]
    <3> SUFFICES ASSUME Indexed(k)
                 PROVE  \E f \in 1 .. Len(entries) : Nums[f] = k /\ entries'[f].value = at[k]
        OBVIOUS
    <3>1. PICK f \in 1 .. Len(entries) : Nums[f] = k /\ entries[f].value = at[k]
          BY <2>1 DEF EntryRight
    <3>2. f # e
          BY <1>12, <2>3, <3>1
    <3> QED
          BY <1>13, <3>1, <3>2
  <2> QED
        BY <1>7, <1>13, <2>2, <2>4 DEF EntryRight
<1> QED
  BY <1>3, <1>15, <1>16, <1>18, <1>19, IndexStep

\* The blocks of the call: nobody but the producer has them.
LEMMA CallBlocks ==
  ASSUME CountersInv, RangesInv, producer.taken \in Seq(Blocks),
         NEW k \in Nat, FirstNum <= k
  PROVE  /\ \A o \in Offsets : Unflagged(Base(k) + o)
         /\ \A c \in Consumers : ~ Empties(consumer[c], k) /\ ~ Frees(consumer[c], k)
         /\ k <= Top => k \in HeldNums
         /\ k \notin UndoneNums => Indexed(k)
<1>1. headIndex \in Nat /\ tailIndex \in Nat /\ headIndex <= tailIndex
      BY HeadTail
<1>2. FirstNum \in Nat /\ tailIndex <= Base(FirstNum)
      BY <1>1, FirstFacts
<1>3. Base(FirstNum) <= Base(k) /\ Base(FirstNum) \in Nat /\ Base(k) \in Nat
  <2>1. PICK f \in Nat : f = FirstNum
        BY <1>2
  <2>2. f \in Int /\ k \in Int /\ f <= k
        BY <2>1
  <2> QED
        BY <2>1, <2>2, BaseOrder, BaseFacts
<1>4. \A o \in Offsets : Unflagged(Base(k) + o)
  <2> SUFFICES ASSUME NEW o \in Offsets
               PROVE  Base(k) + o >= headIndex
      BY DEF Unflagged
  <2>1. o \in Nat
        BY BlockSize DEF Offsets
  <2> QED
        BY <1>1, <1>2, <1>3, <2>1
<1>5. ASSUME NEW c \in Consumers
      PROVE  ~ Empties(consumer[c], k) /\ ~ Frees(consumer[c], k)
  <2> SUFFICES ASSUME consumer[c].pc \in Emptying
               PROVE  Num(consumer[c].index) # k
      BY DEF Empties, Frees, Emptying
  <2>1. consumer[c].pc \in Reading
        BY DEF Emptying, Reading
  <2>2. Num(consumer[c].index) \in Num(consumer[c].index) .. Num(consumer[c].end - 1)
        BY <2>1, ReaderRange
  <2>3. Num(consumer[c].index) < FirstNum /\ Num(consumer[c].index) \in Nat
        BY <1>1, <2>1, <2>2, ReaderBelow
  <2> QED
        BY <1>2, <2>3
<1>6. k <= Top => k \in HeldNums
  <2>1. 0 \in Offsets
        BY BlockSize DEF Offsets
  <2>2. Top \in Int
        BY <1>1, TopType
  <2> QED
        BY <1>4, <2>1, <2>2 DEF HeldNums
<1> QED
  BY <1>4, <1>5, <1>6 DEF Indexed

\* They have their entries, filled until the undo comes to them.
LEMMA CallEntry ==
  ASSUME CountersInv, RangesInv, producer.taken \in Seq(Blocks),
         NEW at \in [HeldNums -> Blocks], BlocksRight(at), NEW k \in FirstNum .. Top
  PROVE  \E e \in 1 .. Len(entries) : Nums[e] = k
<1>1. FirstNum \in Nat /\ Top \in Int
      BY HeadTail, TopType
<1>2. k \in Nat /\ FirstNum <= k /\ k <= Top
      BY <1>1
<1>3. k \in HeldNums /\ (k \notin UndoneNums => Indexed(k))
      BY <1>2, CallBlocks
<1>4. EntryRight(k, at[k])
      BY <1>3, HeldBlocks
<1> QED
  BY <1>3, <1>4 DEF EntryRight

\* A call that fails takes its blocks out of the index,
LEMMA UndoEntryStep ==
  ASSUME CountersInv, CountersInv', ImplicitInv, alive, UndoEntry
  PROVE  ImplicitInv'
<1>1. /\ CallInv /\ IndexTypes /\ RingsInv /\ GivenUp /\ RangesInv /\ AimInv
      /\ producer.taken \in Seq(Blocks)
      BY DEF ImplicitInv, CallInv
<1>2. ProducerShape(producer) /\ tailIndex \in Nat
      BY HeadTail DEF CountersInv, Shapes
<1>3. /\ UNCHANGED <<tailIndex, headIndex, consumer, alive, tailBlock, blockVars>>
      /\ producer.pc = "undo" /\ producer'.pc = "undo" /\ InIndex(producer)
      /\ producer'.taken = producer.taken /\ producer'.start = producer.start
      /\ producer'.base = producer.base + BLOCK_SIZE /\ producer'.count = producer.count
      /\ headers' = [headers EXCEPT ![Len(headers)] = Rewound(headers[Len(headers)])]
      /\ entries' = [entries EXCEPT
           ![blockIndex.index[PositionOf(producer.base, blockIndex, blockIndex.tail)]].value = None]
      BY <1>2 DEF UndoEntry, ProducerShape, counterVars
<1>4. FirstNum \in Nat /\ Top \in Int /\ Top >= FirstNum - 1 /\ FirstBase = Base(FirstNum)
      BY <1>1, <1>2, TopType, FirstFacts
<1>5. PICK m \in FirstNum .. Top + 1 : producer.base = Base(m)
      BY <1>1, <1>3 DEF CallInv
<1>6. m \in Nat /\ m + 1 \in Nat
      BY <1>4
<1>7. m <= Top
  <2>1. PICK N \in Nat : N = Len(producer.taken)
        BY <1>1
  <2>2. Base(FirstNum + N) = Base(FirstNum) + Base(N) /\ Base(N) = BLOCK_SIZE * N
        BY <1>4, BaseSum DEF Base
  <2>3. Base(m) < Base(FirstNum + N)
        BY <1>3, <1>4, <1>5, <2>1, <2>2 DEF InIndex
  <2>4. m < FirstNum + N
        BY <1>4, <1>6, <2>3, BaseOrder
  <2>5. Top = FirstNum + N - 1
        BY <2>1 DEF Top
  <2> QED
        BY <1>4, <1>6, <2>4, <2>5
<1>8. m \in FirstNum .. Top
      BY <1>4, <1>7
<1>9. producer'.base = Base(m + 1)
      BY <1>3, <1>5, <1>6, BaseFacts
<1>10. FirstNum' = FirstNum /\ Top' = Top
      BY <1>3 DEF FirstNum, FirstBase, Top
<1>11. PICK t \in FirstNum .. Top : t = Top + FirstNum - m
      BY <1>4, <1>8
<1>12. /\ UndoneNums = FirstNum .. m - 1 /\ UndoneNums' = FirstNum .. m
       /\ NumAtTail = t /\ NumAtTail' = t - 1
  <2>1. Num(producer.base) = m /\ Num(producer'.base) = m + 1
        BY <1>5, <1>6, <1>9, NumOfBase
  <2>2. (m + 1) - 1 = m /\ Top + FirstNum - (m + 1) = t - 1
        BY <1>4, <1>6, <1>11
  <2> QED
        BY <1>3, <1>10, <1>11, <2>1, <2>2 DEF UndoneNums, NumAtTail
<1>13. PICK at \in [HeldNums -> Blocks] : BlocksRight(at)
      BY DEF ImplicitInv
<1>14. PICK e \in 1 .. Len(entries) : Nums[e] = t
      BY <1>1, <1>11, <1>13, CallEntry
<1>15. PICK f \in 1 .. Len(entries) : Nums[f] = m
      BY <1>1, <1>8, <1>13, CallEntry
<1>16. headers # <<>>
      BY <1>1, <1>15, EntryPlace
<1>17. Len(headers) \in 1 .. Len(headers) /\ blockIndex = headers[Len(headers)]
      BY <1>1, <1>16, LastRing
<1>18. PICK q \in DOMAIN blockIndex.index : blockIndex.index[q] = f
      BY <1>1, <1>15, EntryPlace
<1>19. blockIndex.tail \in DOMAIN blockIndex.index /\ blockIndex.index[blockIndex.tail] = e
  <2>1. PICK n \in Nat \ {0} : RingOver(blockIndex, n, Len(entries))
        BY <1>1, <1>16, NextOfTail
  <2>2. NewestRing(blockIndex, Nums, t)
        BY <1>1, <1>12, <1>16 DEF RingsInv
  <2>3. Numbers(Nums, Len(entries)) /\ t # -1 /\ t \in Int
        BY <1>1, <1>4, <1>11, NumsTyped
  <2> QED
        BY <1>14, <2>1, <2>2, <2>3, TailEntry
<1>20. PositionOf(producer.base, blockIndex, blockIndex.tail) = q
  <2>1. PICK i \in Nat : i = producer.base /\ Num(i) = m
        BY <1>5, <1>6, NumOfBase
  <2>2. PICK r \in 1 .. Len(headers) : r = Len(headers) /\ headers[r] = blockIndex
        BY <1>17
  <2>3. PICK mark \in DOMAIN headers[r].index : mark = blockIndex.tail
        BY <1>19, <2>2
  <2>4. Nums[headers[r].index[mark]] # -1
        BY <1>4, <1>11, <1>14, <1>19, <2>2, <2>3
  <2>5. q \in DOMAIN headers[r].index /\ Nums[headers[r].index[q]] = Num(i)
        BY <1>15, <1>18, <2>1, <2>2
  <2>6. PositionOf(i, headers[r], mark) = q
        BY <1>1, <2>4, <2>5, Position
  <2> QED
        BY <2>1, <2>2, <2>3, <2>6
<1>21. /\ Len(entries') = Len(entries) /\ Nums' = Nums
       /\ entries' \in Seq([key : Nat, value : Blocks \cup {None, Uninit}])
       /\ entries'[f].value = None
       /\ \A g \in 1 .. Len(entries) :
            /\ entries'[g].key = entries[g].key
            /\ g # f => entries'[g].value = entries[g].value
  <2>1. entries' = [entries EXCEPT ![f].value = None] /\ None \in Blocks \cup {None}
        BY <1>3, <1>18, <1>20
  <2> QED
        BY <1>1, <2>1, ValueStored
<1>22. PICK p \in DOMAIN blockIndex.index :
         /\ Rewound(blockIndex) = [blockIndex EXCEPT !.tail = p]
         /\ Cong(p - blockIndex.tail, -1, Capacity(blockIndex))
      BY <1>1, <1>16, TailBack
<1>23. headers' = [headers EXCEPT ![Len(headers)] = [blockIndex EXCEPT !.tail = p]]
      BY <1>3, <1>17, <1>22
<1>24. PICK u \in Int : u = t - 1
      BY <1>4, <1>11
<1>25. CallInv'
  <2>1. m + 1 \in FirstNum .. Top + 1
        BY <1>4, <1>8
  <2> QED
        BY <1>1, <1>3, <1>9, <1>10, <2>1 DEF CallInv, ProducerStates
<1>26. IndexTypes' /\ RingsInv' /\ AimInv'
  <2>0. t \in Int /\ t # -1
        BY <1>4, <1>11
  <2>1. Cong(p - blockIndex.tail, u - NumAtTail, Capacity(blockIndex))
    <3>1. u - NumAtTail = -1
          BY <1>12, <1>24, <2>0
    <3> QED
          BY <1>22, <3>1
  <2>2. NumAtTail' = u /\ NumAtTail \in Int
        BY <1>12, <1>24, <2>0
  <2>3. Nums[e] # -1 /\ Nums[e] = u + 1
        BY <1>14, <1>24, <2>0
  <2>4. producer'.pc \in {"block", "undo"} /\ producer'.pc # "block"
        BY <1>3
  <2>5. consumer' = consumer
        BY <1>3
  <2> QED
        BY <1>1, <1>16, <1>21, <1>23, <2>1, <2>2, <2>3, <2>4, <2>5, TailStep
<1>27. \A g \in 1 .. Len(entries) : Nums[g] = m => g = f
  <2>1. Nums[f] # -1
        BY <1>6, <1>15
  <2> QED
        BY <1>1, <1>15, <2>1, EntryOf
<1>28. GivenUp'
  <2> SUFFICES ASSUME NEW g \in 1 .. Len(entries), Nums[g] > Top \/ Nums[g] \in FirstNum .. m
               PROVE  entries'[g].value = None
      BY <1>3, <1>10, <1>12, <1>21 DEF GivenUp
  <2>1. CASE g = f
        BY <1>21, <2>1
  <2>2. CASE g # f
    <3>1. Nums[g] # m
          BY <1>27, <2>2
    <3>2. Nums[g] > Top \/ Nums[g] \in FirstNum .. m - 1
          BY <1>4, <1>6, <3>1
    <3>3. entries[g].value = None
          BY <1>1, <1>3, <1>12, <3>2 DEF GivenUp
    <3> QED
          BY <1>21, <2>2, <3>3
  <2> QED
        BY <2>1, <2>2
<1>29. ASSUME NEW bt \in [HeldNums -> Blocks], BlocksRight(bt), NEW k \in HeldNums
       PROVE  EntryRight(k, bt[k])'
  <2>1. k \in Nat /\ EntryRight(k, bt[k])
        BY <1>29, HeldBlocks
  <2>2. Indexed(k)' => Indexed(k) /\ k # m
    <3>1. m \in FirstNum .. m /\ \A j \in FirstNum .. m - 1 : j \in FirstNum .. m
          BY <1>4, <1>8
    <3> QED
          BY <1>3, <1>12, <3>1 DEF Indexed
  <2>3. Indexed(k)' => \E g \in 1 .. Len(entries) : Nums[g] = k /\ entries'[g].value = bt[k]
    <3> SUFFICES ASSUME Indexed(k)'
                 PROVE  \E g \in 1 .. Len(entries) : Nums[g] = k /\ entries'[g].value = bt[k]
        OBVIOUS
    <3>1. PICK g \in 1 .. Len(entries) : Nums[g] = k /\ entries[g].value = bt[k]
          BY <2>1, <2>2 DEF EntryRight
    <3>2. g # f
          BY <1>15, <2>2, <3>1
    <3> QED
          BY <1>21, <3>1, <3>2
  <2>4. k \in UndoneNums' => \E g \in 1 .. Len(entries) : Nums[g] = k
    <3> SUFFICES ASSUME k \in FirstNum .. m
                 PROVE  \E g \in 1 .. Len(entries) : Nums[g] = k
        BY <1>12
    <3>1. k \in FirstNum .. Top
          BY <1>4, <1>8
    <3> QED
          BY <1>1, <1>13, <3>1, CallEntry
  <2> QED
        BY <1>21, <2>3, <2>4 DEF EntryRight
<1> QED
  BY <1>3, <1>25, <1>26, <1>28, <1>29, IndexStep

\* The blocks of the call become the sub-queue's.
LEMMA CommitStep ==
  ASSUME CountersInv, CountersInv', ImplicitInv, alive, Commit, UNCHANGED implicitVars
  PROVE  ImplicitInv'
<1>1. /\ CallInv /\ IndexTypes /\ RingsInv /\ GivenUp /\ RangesInv /\ EmptyingInv /\ BlockTypes /\ AimInv
      /\ producer.taken \in Seq(Blocks)
      BY DEF ImplicitInv, CallInv
<1>2. headIndex \in Nat /\ tailIndex \in Nat /\ producer.count \in Nat
      BY HeadTail DEF CountersInv, Shapes
<1>3. /\ UNCHANGED <<headIndex, tailBlock, consumer, alive, elements, emptied, poolVars, misuse,
                     headers, entries>>
      /\ producer.pc = "commit" /\ tailIndex' = tailIndex + producer.count
      /\ producer'.pc = "idle" /\ producer'.taken = <<>>
      BY DEF Commit, IdleProducer, blockVars, poolVars, implicitVars
<1>4. FirstNum \in Nat /\ Top \in Int /\ Top >= FirstNum - 1
      BY <1>1, <1>2, TopType
<1>5. PICK f \in Nat : f = Top + 1
      BY <1>4
<1>6. producer.count > 0 /\ Base(f - 1) < tailIndex' /\ tailIndex' <= Base(f) /\ tailIndex' \in Nat
  <2>1. f - 1 = Top
        BY <1>4, <1>5
  <2> QED
        BY <1>1, <1>2, <1>3, <1>5, <2>1 DEF CallInv
<1>7. FirstNum' = f
  <2>1. PICK i \in Nat : i = tailIndex'
        BY <1>6
  <2>2. Num(IF Offset(i) = 0 THEN i ELSE BlockBase(i) + BLOCK_SIZE) = f
        BY <1>6, <2>1, FirstIs
  <2> QED
        BY <2>1, <2>2 DEF FirstNum, FirstBase
<1>8. Top' = Top /\ FirstNum' = Top + 1
      BY <1>3, <1>4, <1>5, <1>7 DEF Top
<1>9. Constructed' = Constructed
      BY <1>2, <1>3 DEF Constructed
<1>10. UndoneNums = {} /\ UndoneNums' = {} /\ NumAtTail = Top /\ NumAtTail' = Top /\ Nums' = Nums
      BY <1>3, <1>8 DEF UndoneNums, NumAtTail, Nums
<1>11. CallInv'
      BY <1>3 DEF CallInv, ProducerStates
<1>12. IndexTypes' /\ AimInv' /\ GivenUp'
      BY <1>1, <1>3, <1>8, <1>10 DEF IndexTypes, AimInv, GivenUp
<1>13. RingsInv'
  <2>1. headers # <<>>
    <3> SUFFICES ASSUME headers = <<>>
                 PROVE  FALSE
        OBVIOUS
    <3>1. tailIndex = 0 /\ producer.taken = <<>>
          BY <1>1 DEF RingsInv
    <3>2. tailIndex <= Base(0) /\ Base(0 - 1) < tailIndex
      <4>1. Base(0) = 0 /\ Base(0 - 1) = Base(0) - BLOCK_SIZE
            BY BaseFacts
      <4> QED
            BY <3>1, <4>1, BlockSize
    <3>3. FirstNum = 0
      <4>1. PICK i \in Nat : i = tailIndex
            BY <1>2
      <4>2. Num(IF Offset(i) = 0 THEN i ELSE BlockBase(i) + BLOCK_SIZE) = 0
            BY <3>2, <4>1, FirstIs
      <4> QED
            BY <4>1, <4>2 DEF FirstNum, FirstBase
    <3>4. f = 0
          BY <1>5, <3>1, <3>3 DEF Top
    <3>5. Base(f) = 0
          BY <3>4, BaseFacts
    <3> QED
          BY <1>2, <1>3, <1>6, <3>1, <3>5
  <2> QED
        BY <1>1, <1>3, <1>10, <2>1 DEF RingsInv, blockIndex
<1>14. RangesInv' /\ EmptyingInv'
      BY <1>1, <1>3, ConsumerFrame
<1>15. Idle' = Idle
      BY <1>3 DEF Idle, poolVars
<1>16. BlockTypes'
      BY <1>1, <1>3, <1>15 DEF BlockTypes, poolVars
<1>17. SameFlags /\ SameEmptying /\ SamePresent /\ SameFreeing
      BY <1>3, <1>9, ProducerView
<1>18. HeldNums' = HeldNums
      BY <1>8, <1>17, HeldFrame
<1>19. PICK at \in [HeldNums -> Blocks] : BlocksRight(at)
      BY DEF ImplicitInv
<1>20. ASSUME NEW k \in HeldNums
       PROVE  BlockRight(k, at[k])' /\ EntryRight(k, at[k])'
  <2>1. PICK b : b = at[k]
        OBVIOUS
  <2>2. k \in Nat /\ BlockRight(k, b) /\ EntryRight(k, b) /\ k <= Top
        BY <1>19, <2>1, HeldBlocks DEF HeldNums
  <2>3. \A o \in Offsets : /\ Unflagged(Base(k) + o)' <=> Unflagged(Base(k) + o)
                           /\ Present(Base(k) + o)' <=> Present(Base(k) + o)
        BY <1>17, <2>2, PlaceIs DEF SameFlags, SamePresent
  <2>4. [o \in Offsets |-> IF Present(Base(k) + o)' THEN Base(k) + o ELSE None]
          = [o \in Offsets |-> IF Present(Base(k) + o) THEN Base(k) + o ELSE None]
        BY <2>3
  <2>5. {o \in Offsets : ~ Unflagged(Base(k) + o)'} = {o \in Offsets : ~ Unflagged(Base(k) + o)}
        BY <2>3
  <2>6. k = Top => b = tailBlock
    <3> SUFFICES ASSUME k = Top
                 PROVE  b = tailBlock
        OBVIOUS
    <3>1. tailBlock = IF producer.taken = <<>> THEN producer.start ELSE Last(producer.taken)
          BY <1>1, <1>3 DEF CallInv
    <3>2. CASE producer.taken = <<>>
      <4>1. k = FirstNum - 1
            BY <1>4, <3>2 DEF Top
      <4> QED
            BY <1>3, <2>2, <3>1, <3>2, <4>1 DEF BlockRight
    <3>3. CASE producer.taken # <<>>
      <4>1. PICK N \in Nat : N = Len(producer.taken) /\ N > 0
            BY <1>1, <3>3
      <4>2. k >= FirstNum /\ k - FirstNum + 1 = N
            BY <1>4, <2>2, <4>1 DEF Top
      <4>3. b = producer.taken[N]
            BY <2>2, <4>2 DEF BlockRight
      <4> QED
            BY <3>1, <3>3, <4>1, <4>3 DEF Last
    <3> QED
          BY <3>2, <3>3
  <2>7. /\ ~ (k >= FirstNum') /\ (k = FirstNum' - 1 => k = Top)
        BY <1>4, <1>8, <2>2
  <2>8. BlockRight(k, b)'
        BY <1>3, <2>2, <2>4, <2>5, <2>6, <2>7 DEF BlockRight
  <2>9. EntryRight(k, b)'
        BY <1>3, <1>10, <1>17, <2>2, EntryFrame
  <2> QED
        BY <2>1, <2>8, <2>9
<1>21. BlocksRight(at)'
      BY <1>3, <1>15, <1>18, <1>19, <1>20 DEF BlocksRight
<1> QED
  BY <1>3, <1>11, <1>12, <1>13, <1>14, <1>16, <1>18, <1>19, <1>21 DEF ImplicitInv

\* They have no elements yet.
LEMMA CallEmpty ==
  ASSUME CountersInv, RangesInv, producer.pc # "commit", NEW k \in Nat, FirstNum <= k
  PROVE  \A o \in Offsets : ~ Present(Base(k) + o)
<1>1. headIndex \in Nat /\ tailIndex \in Nat /\ headIndex <= tailIndex
      BY HeadTail
<1>2. FirstNum \in Nat /\ tailIndex <= Base(FirstNum)
      BY <1>1, FirstFacts
<1>3. Base(FirstNum) <= Base(k) /\ Base(FirstNum) \in Nat /\ Base(k) \in Nat
  <2>1. PICK f \in Nat : f = FirstNum
        BY <1>2
  <2>2. f \in Int /\ k \in Int /\ f <= k
        BY <2>1
  <2> QED
        BY <2>1, <2>2, BaseOrder, BaseFacts
<1> SUFFICES ASSUME NEW o \in Offsets
             PROVE  ~ Present(Base(k) + o)
    OBVIOUS
<1>4. PICK i \in Nat : i = Base(k) + o /\ tailIndex <= i
  <2>1. o \in Nat
        BY BlockSize DEF Offsets
  <2> QED
        BY <1>1, <1>2, <1>3, <2>1
<1>5. Constructed = tailIndex
      BY <1>1 DEF Constructed
<1>6. i \notin headIndex .. Constructed - 1
      BY <1>1, <1>4, <1>5
<1>7. ASSUME NEW c \in Consumers
      PROVE  i \notin UnmovedOf(consumer[c])
  <2>1. CASE consumer[c].pc \notin Reading
        BY <2>1 DEF UnmovedOf
  <2>2. CASE consumer[c].pc \in Reading
    <3>1. consumer[c].end \in Nat /\ consumer[c].end <= headIndex
          BY <2>2, ReaderRange
    <3>2. ~ (i <= consumer[c].end - 1)
          BY <1>1, <1>4, <3>1
    <3>3. UnmovedOf(consumer[c]) \subseteq {j \in Int : j <= consumer[c].end - 1}
          BY <2>2, <3>1 DEF UnmovedOf
    <3> QED
          BY <3>2, <3>3
  <2> QED
        BY <2>1, <2>2
<1> QED
  BY <1>4, <1>6, <1>7 DEF Present

\* and gives them to the free list.
LEMMA UndoBlocksStep ==
  ASSUME CountersInv, CountersInv', ImplicitInv, alive, UndoBlocks
  PROVE  ImplicitInv'
<1>1. /\ CallInv /\ IndexTypes /\ RingsInv /\ GivenUp /\ RangesInv /\ EmptyingInv /\ BlockTypes /\ AimInv
      /\ producer.taken \in Seq(Blocks)
      BY DEF ImplicitInv, CallInv
<1>2. headIndex \in Nat /\ tailIndex \in Nat /\ headIndex <= tailIndex
      BY HeadTail
<1>3. /\ UNCHANGED <<headIndex, tailIndex, consumer, alive, elements, emptied, misuse, headers, entries>>
      /\ producer.pc = "undo" /\ ~ InIndex(producer)
      /\ producer'.pc = "idle" /\ producer'.taken = <<>> /\ tailBlock' = producer.start
      /\ AddToFreeList(ToSet(producer.taken))
      BY DEF UndoBlocks, IdleProducer, counterVars, implicitVars
<1>4. FirstNum \in Nat /\ Top \in Int /\ Top >= FirstNum - 1 /\ FirstBase = Base(FirstNum)
      BY <1>1, <1>2, TopType, FirstFacts
<1>5. PICK N \in Nat : N = Len(producer.taken) /\ Top = FirstNum + N - 1
      BY <1>1 DEF Top
<1>6. PICK m \in FirstNum .. Top + 1 : producer.base = Base(m)
      BY <1>1, <1>3 DEF CallInv
<1>7. m = Top + 1
  <2>1. Base(FirstNum + N) = Base(FirstNum) + Base(N) /\ Base(N) = BLOCK_SIZE * N
        BY <1>4, BaseSum DEF Base
  <2>2. Base(m) \in Int /\ Base(FirstNum + N) \in Int
        BY <1>4, BaseFacts
  <2>3. ~ (Base(m) < Base(FirstNum + N))
        BY <1>3, <1>4, <1>5, <1>6, <2>1 DEF InIndex
  <2>4. ~ (m < FirstNum + N)
        BY <1>4, <2>3, BaseOrder
  <2> QED
        BY <1>4, <1>5, <2>4
<1>8. FirstNum' = FirstNum /\ Top' = FirstNum - 1
  <2>1. FirstNum' = FirstNum
        BY <1>3 DEF FirstNum, FirstBase
  <2> QED
        BY <1>3, <1>4, <2>1 DEF Top
<1>9. Constructed' = Constructed /\ Nums' = Nums
      BY <1>3 DEF Constructed, Nums
<1>10. /\ UndoneNums = FirstNum .. Top /\ UndoneNums' = {}
       /\ NumAtTail = FirstNum - 1 /\ NumAtTail' = FirstNum - 1
  <2>1. Num(producer.base) = Top + 1
        BY <1>4, <1>6, <1>7, NumOfBase
  <2>2. (Top + 1) - 1 = Top /\ Top + FirstNum - (Top + 1) = FirstNum - 1
        BY <1>4
  <2> QED
        BY <1>3, <1>8, <2>1, <2>2 DEF UndoneNums, NumAtTail
<1>11. CallInv'
      BY <1>3 DEF CallInv, ProducerStates
<1>12. IndexTypes' /\ AimInv'
      BY <1>1, <1>3, <1>9 DEF IndexTypes, AimInv
<1>13. GivenUp'
  <2> SUFFICES ASSUME NEW e \in 1 .. Len(entries), Nums[e] > FirstNum - 1
               PROVE  entries[e].value = None
      BY <1>3, <1>8, <1>9, <1>10 DEF GivenUp
  <2>1. Nums[e] \in Int
        BY <1>1, NumsTyped DEF Numbers
  <2>2. Nums[e] > Top \/ Nums[e] \in FirstNum .. Top
        BY <1>4, <2>1
  <2> QED
        BY <1>1, <1>3, <1>10, <2>2 DEF GivenUp
<1>14. RingsInv'
      BY <1>1, <1>3, <1>9, <1>10 DEF RingsInv, blockIndex
<1>15. RangesInv' /\ EmptyingInv'
      BY <1>1, <1>3, ConsumerFrame
<1>16. SameFlags /\ SameEmptying /\ SamePresent /\ SameFreeing
      BY <1>3, <1>9, ProducerView
<1>17. PICK at \in [HeldNums -> Blocks] : BlocksRight(at)
      BY DEF ImplicitInv
<1>18. \A k \in Nat : k \in HeldNums' <=> k \in HeldNums /\ k < FirstNum
  <2> SUFFICES ASSUME NEW k \in Nat
               PROVE  k \in HeldNums' <=> k \in HeldNums /\ k < FirstNum
      OBVIOUS
  <2>1. \A o \in Offsets : Unflagged(Base(k) + o)' <=> Unflagged(Base(k) + o)
        BY <1>16, PlaceIs DEF SameFlags
  <2>2. \A c \in Consumers : Empties(consumer[c], k)' <=> Empties(consumer[c], k)
        BY <1>16 DEF SameEmptying
  <2>3. k \in 0 .. FirstNum - 1 <=> k \in 0 .. Top /\ k < FirstNum
        BY <1>4
  <2> QED
        BY <1>8, <2>1, <2>2, <2>3 DEF HeldNums
<1>19. /\ \A k \in HeldNums : k \in Nat /\ k <= Top
       /\ \A k \in HeldNums' : k \in Nat
      BY DEF HeldNums
<1>20. \A k \in HeldNums' : k \in HeldNums /\ k < FirstNum
      BY <1>18, <1>19
<1>21. ToSet(producer.taken) = {at[k] : k \in HeldNums \ HeldNums'}
  <2>1. ASSUME NEW k \in HeldNums \ HeldNums'
        PROVE  at[k] \in ToSet(producer.taken)
    <3>1. k \in Nat /\ FirstNum <= k /\ k <= Top
          BY <1>4, <1>18, <1>19
    <3>2. at[k] = producer.taken[k - FirstNum + 1]
          BY <1>17, <3>1, HeldBlocks DEF BlockRight
    <3>3. k - FirstNum + 1 \in 1 .. N
          BY <1>4, <1>5, <3>1
    <3> QED
          BY <1>5, <3>2, <3>3 DEF ToSet
  <2>2. ASSUME NEW b \in ToSet(producer.taken)
        PROVE  \E k \in HeldNums \ HeldNums' : b = at[k]
    <3>1. PICK i \in 1 .. N : b = producer.taken[i]
          BY <1>1, <1>5 DEF ToSet
    <3>2. PICK k \in Nat : k = FirstNum + i - 1 /\ FirstNum <= k /\ k <= Top
          BY <1>4, <1>5
    <3>3. k \in HeldNums /\ k \notin HeldNums'
          BY <1>1, <1>4, <1>20, <3>2, CallBlocks
    <3>4. at[k] = producer.taken[k - FirstNum + 1]
          BY <1>17, <3>2, <3>3, HeldBlocks DEF BlockRight
    <3>5. k - FirstNum + 1 = i
          BY <1>4, <3>2
    <3> QED
          BY <3>1, <3>3, <3>4, <3>5
  <2> QED
        BY <2>1, <2>2
<1>22. /\ Idle' = Idle \cup ToSet(producer.taken)
       /\ unusedPool' \subseteq Blocks /\ heap' \subseteq Blocks /\ freeList' \subseteq Blocks
  <2>1. ToSet(producer.taken) \in SUBSET Blocks
        BY <1>17, <1>21
  <2>2. unusedPool \subseteq Blocks /\ heap \subseteq Blocks /\ freeList \subseteq Blocks
        BY <1>1 DEF BlockTypes
  <2> QED
        BY <1>3, <2>1, <2>2, FreedIdle
<1>23. \A b \in ToSet(producer.taken) : elements[b] = [o \in Offsets |-> None]
  <2> SUFFICES ASSUME NEW k \in HeldNums \ HeldNums'
               PROVE  elements[at[k]] = [o \in Offsets |-> None]
      BY <1>21
  <2>1. k \in Nat /\ FirstNum <= k
        BY <1>4, <1>18, <1>19
  <2>2. \A o \in Offsets : ~ Present(Base(k) + o)
        BY <1>1, <1>3, <2>1, CallEmpty
  <2>3. BlockRight(k, at[k])
        BY <1>17, HeldBlocks
  <2> QED
        BY <2>1, <2>2, <2>3, EmptyBlock
<1>24. BlockTypes'
      BY <1>1, <1>3, <1>22, <1>23 DEF BlockTypes
<1>at. PICK at2 : at2 = [k \in HeldNums' |-> at[k]]
      OBVIOUS
<1>25. at2 \in [HeldNums' -> Blocks] /\ \A k \in HeldNums' : at2[k] = at[k]
      BY <1>17, <1>20, <1>at
<1>26. ASSUME NEW k \in HeldNums'
       PROVE  BlockRight(k, at2[k])' /\ EntryRight(k, at2[k])'
  <2>1. PICK b : b = at[k]
        OBVIOUS
  <2>2. k \in Nat /\ k < FirstNum /\ BlockRight(k, b) /\ EntryRight(k, b)
        BY <1>17, <1>20, <2>1, HeldBlocks
  <2>3. \A o \in Offsets : /\ Unflagged(Base(k) + o)' <=> Unflagged(Base(k) + o)
                           /\ Present(Base(k) + o)' <=> Present(Base(k) + o)
        BY <1>16, <2>2, PlaceIs DEF SameFlags, SamePresent
  <2>4. [o \in Offsets |-> IF Present(Base(k) + o)' THEN Base(k) + o ELSE None]
          = [o \in Offsets |-> IF Present(Base(k) + o) THEN Base(k) + o ELSE None]
        BY <2>3
  <2>5. {o \in Offsets : ~ Unflagged(Base(k) + o)'} = {o \in Offsets : ~ Unflagged(Base(k) + o)}
        BY <2>3
  <2>6. ~ (k >= FirstNum)
        BY <1>4, <2>2
  <2>7. BlockRight(k, b)'
        BY <1>3, <1>8, <2>2, <2>4, <2>5, <2>6 DEF BlockRight
  <2>8. k \notin UndoneNums
        BY <1>4, <1>10, <2>2
  <2>9. Indexed(k)' <=> Indexed(k)
        BY <1>3, <1>10, <2>8 DEF Indexed
  <2>10. EntryRight(k, b)'
        BY <1>3, <1>9, <1>10, <2>2, <2>9 DEF EntryRight
  <2> QED
        BY <1>25, <2>1, <2>7, <2>10
<1>27. ReadersRight(at2)'
  <2> SUFFICES ASSUME NEW c \in Consumers, consumer[c].pc \in {"move", "flag", "unlink", "free"}
               PROVE  consumer[c].block = at2[Num(consumer[c].index)]
      BY <1>3 DEF ReadersRight
  <2>1. consumer[c].pc \in Reading
        BY DEF Reading
  <2>2. PICK j \in Nat : /\ j = Num(consumer[c].index)
                         /\ j \in Num(consumer[c].index) .. Num(consumer[c].end - 1)
        BY <1>1, <2>1, ReaderRange
  <2>3. j \in HeldNums /\ j < FirstNum
        BY <1>1, <1>2, <2>1, <2>2, ReaderHolds, ReaderBelow
  <2>4. j \in HeldNums'
        BY <1>18, <2>3
  <2> QED
        BY <1>17, <1>25, <2>2, <2>4 DEF BlocksRight
<1>28. BlocksRight(at2)'
  <2>1. \A i, j \in HeldNums' : at2[i] = at2[j] => i = j
        BY <1>17, <1>20, <1>25 DEF BlocksRight
  <2>2. Blocks \ Idle' = {at2[j] : j \in HeldNums'}
    <3>1. Blocks \ Idle = {at[j] : j \in HeldNums}
          BY <1>17 DEF BlocksRight
    <3>2. \A i, j \in HeldNums : at[i] = at[j] => i = j
          BY <1>17 DEF BlocksRight
    <3>3. {at2[j] : j \in HeldNums'} = {at[j] : j \in HeldNums'}
          BY <1>25
    <3> QED
      <4>1. ASSUME NEW x \in Blocks, x \notin Idle'
            PROVE  \E j \in HeldNums' : x = at[j]
        <5>1. x \notin Idle /\ x \notin ToSet(producer.taken)
              BY <1>22, <4>1
        <5>2. PICK j \in HeldNums : x = at[j]
              BY <3>1, <5>1
        <5>3. j \in HeldNums'
              BY <1>21, <5>1, <5>2
        <5> QED
              BY <5>2, <5>3
      <4>2. ASSUME NEW j \in HeldNums'
            PROVE  at[j] \in Blocks /\ at[j] \notin Idle'
        <5>1. j \in HeldNums
              BY <1>20
        <5>2. at[j] \in Blocks \ Idle
              BY <3>1, <5>1
        <5>3. at[j] \notin ToSet(producer.taken)
              BY <1>21, <3>2, <5>1
        <5> QED
              BY <1>22, <5>2, <5>3
      <4> QED
            BY <3>3, <4>1, <4>2
  <2> QED
        BY <1>26, <1>27, <2>1, <2>2 DEF BlocksRight, ReadersRight
<1> QED
  BY <1>3, <1>11, <1>12, <1>13, <1>14, <1>15, <1>24, <1>25, <1>28 DEF ImplicitInv

\* The least of a set of natural numbers is one of them.
LEMMA LeastOf ==
  ASSUME NEW S, S \subseteq Nat, S # {}
  PROVE  Min(S) \in S
<1>1. PICK x \in S : \A y \in S : ~ (<<y, x>> \in OpToRel(<, Nat))
      BY WFMin, NatLessThanWellFounded
<1>2. ASSUME NEW y \in S
      PROVE  x <= y
  <2>1. x \in Nat /\ y \in Nat
        OBVIOUS
  <2>2. y < x => <<y, x>> \in OpToRel(<, Nat)
        BY <2>1 DEF OpToRel
  <2>3. ~ (y < x)
        BY <1>1, <2>2
  <2> QED
        BY <2>1, <2>3
<1>3. \E z \in S : \A y \in S : z <= y
      BY <1>2
<1> QED
  BY <1>3 DEF Min

\* A block obtained was idle.
LEMMA BlockObtained ==
  ASSUME NEW canAlloc, NEW b \in Requisitionable(canAlloc), Requisition(b),
         unusedPool \subseteq Blocks, heap \subseteq Blocks, freeList \subseteq Blocks
  PROVE  /\ b \in Blocks /\ b \in Idle /\ Idle' = Idle \ {b}
         /\ unusedPool' \subseteq Blocks /\ heap' \subseteq Blocks /\ freeList' \subseteq Blocks
<1>1. Blocks \subseteq Nat
      BY BlocksAssumption
<1>2. b \in unusedPool \/ b \in freeList \/ b \in heap
  <2>1. unusedPool # {} => Min(unusedPool) \in unusedPool
        BY <1>1, LeastOf
  <2>2. heap # {} => Min(heap) \in heap
        BY <1>1, LeastOf
  <2> QED
        BY <2>1, <2>2 DEF Requisitionable
<1> QED
  BY <1>2 DEF Requisition, Idle

\* A block is obtained for the new entry.
LEMMA ObtainBlockStep ==
  ASSUME CountersInv, CountersInv', ImplicitInv, alive, ObtainBlock
  PROVE  ImplicitInv'
<1>1. /\ CallInv /\ IndexTypes /\ RingsInv /\ GivenUp /\ RangesInv /\ EmptyingInv /\ BlockTypes /\ AimInv
      /\ producer.taken \in Seq(Blocks)
      BY DEF ImplicitInv, CallInv
<1>2. headIndex \in Nat /\ tailIndex \in Nat /\ headIndex <= tailIndex
      BY HeadTail
<1>3. ProducerShape(producer) /\ producer.count \in Nat
      BY DEF CountersInv, Shapes
<1>4. PICK b \in Requisitionable(producer.canAlloc) :
        /\ Requisition(b)
        /\ emptied' = [emptied EXCEPT ![b] = {}]
        /\ entries' = [entries EXCEPT ![blockIndex.index[blockIndex.tail]].value = b]
        /\ tailBlock' = b
        /\ LET p == [producer EXCEPT !.base = @ + BLOCK_SIZE, !.taken = Append(@, b)]
           IN  producer' = [p EXCEPT !.pc = IF HasAllBlocks(p) THEN "construct" ELSE "insert"]
      BY DEF ObtainBlock
<1>5. /\ UNCHANGED <<headIndex, tailIndex, consumer, alive, elements, misuse, headers>>
      /\ producer.pc = "block"
      BY DEF ObtainBlock, counterVars
<1>6. /\ producer'.base = producer.base + BLOCK_SIZE /\ producer'.taken = Append(producer.taken, b)
      /\ producer'.count = producer.count /\ producer'.start = producer.start
      /\ producer'.pc = IF producer.base + BLOCK_SIZE \notin BasesNeeded(producer.count)
                          THEN "construct" ELSE "insert"
  <2>1. PICK p : p = [producer EXCEPT !.base = @ + BLOCK_SIZE, !.taken = Append(@, b)]
        OBVIOUS
  <2>2. /\ p.base = producer.base + BLOCK_SIZE /\ p.taken = Append(producer.taken, b)
        /\ p.count = producer.count /\ p.start = producer.start
        /\ p = [p EXCEPT !.pc = p.pc] /\ ProducerShape(p)
        BY <1>3, <2>1 DEF ProducerShape
  <2>3. producer' = [p EXCEPT !.pc = IF HasAllBlocks(p) THEN "construct" ELSE "insert"]
        BY <1>4, <2>1
  <2> QED
        BY <2>2, <2>3 DEF HasAllBlocks, ProducerShape
<1>7. FirstNum \in Nat /\ Top \in Int /\ Top >= FirstNum - 1 /\ FirstBase = Base(FirstNum)
      BY <1>1, <1>2, TopType, FirstFacts
<1>8. PICK K \in Nat : K = Top + 1 /\ FirstNum <= K
      BY <1>7
<1>9. producer.base = Base(K) /\ Base(K) < tailIndex + producer.count
      BY <1>1, <1>5, <1>8 DEF CallInv
<1>10. b \in Blocks /\ b \in Idle /\ Idle' = Idle \ {b}
       /\ unusedPool' \subseteq Blocks /\ heap' \subseteq Blocks /\ freeList' \subseteq Blocks
      BY <1>1, <1>4, BlockObtained DEF BlockTypes
<1>11. PICK N \in Nat : N = Len(producer.taken) /\ K = FirstNum + N
      BY <1>1, <1>7, <1>8 DEF Top
<1>12. /\ Len(producer'.taken) = N + 1 /\ producer'.taken \in Seq(Blocks)
       /\ producer'.taken[N + 1] = b
       /\ \A i \in 1 .. N : producer'.taken[i] = producer.taken[i]
      BY <1>1, <1>6, <1>10, <1>11
<1>13. FirstNum' = FirstNum /\ FirstBase' = FirstBase
      BY <1>5 DEF FirstNum, FirstBase
<1>14. Top' = K
      BY <1>7, <1>11, <1>12, <1>13 DEF Top
<1>15. Constructed' = Constructed
  <2>1. producer'.pc # "commit"
        BY <1>6
  <2> QED
        BY <1>5, <2>1 DEF Constructed
<1>16. UndoneNums = {} /\ UndoneNums' = {} /\ NumAtTail = K /\ NumAtTail' = K
  <2>1. producer'.pc # "undo" /\ producer'.pc # "block"
        BY <1>6
  <2> QED
        BY <1>5, <1>8, <1>14, <2>1 DEF UndoneNums, NumAtTail
<1>17. producer'.base = Base(K + 1) /\ Base(K + 1) \in Nat
  <2>1. Base(K + 1) = Base(K) + BLOCK_SIZE /\ Base(K) \in Nat
        BY BaseFacts
  <2>2. K + 1 \in Nat /\ K + 1 \in Int
        OBVIOUS
  <2>3. Base(K + 1) \in Nat
        BY <2>2, BaseFacts
  <2> QED
        BY <1>6, <1>9, <2>1, <2>3
<1>18. CallInv'
  <2>1. producer'.taken # <<>> /\ Last(producer'.taken) = b
        BY <1>12 DEF Last
  <2>2. CASE Base(K + 1) \in BasesNeeded(producer.count)
    <3>1. Base(K + 1) < tailIndex + producer.count
          BY <1>2, <1>3, <2>2, SomeNeeded
    <3>2. producer'.pc = "insert"
          BY <1>6, <1>17, <2>2
    <3> QED
          BY <1>1, <1>4, <1>5, <1>6, <1>12, <1>14, <1>17, <2>1, <3>1, <3>2 DEF CallInv, ProducerStates
  <2>3. CASE Base(K + 1) \notin BasesNeeded(producer.count)
    <3>1. tailIndex + producer.count <= Base(K + 1)
      <4> SUFFICES ASSUME Base(K + 1) < tailIndex + producer.count
                   PROVE  FALSE
          BY <1>2, <1>3, <1>17
      <4>1. Base(FirstNum) <= Base(K + 1) /\ Base(FirstNum) \in Nat
        <5>1. FirstNum <= K + 1
              BY <1>7, <1>8
        <5> QED
              BY <1>7, <5>1, BaseOrder, BaseFacts
      <4>2. Base(K + 1) \in FirstBase .. tailIndex + producer.count - 1
            BY <1>2, <1>3, <1>7, <1>17, <4>1
      <4>3. BlockBase(Base(K + 1)) = Base(K + 1)
            BY NumOfBase
      <4> QED
            BY <2>3, <4>2, <4>3 DEF BasesNeeded
    <3>2. producer'.pc = "construct"
          BY <1>6, <1>17, <2>3
    <3> QED
          BY <1>1, <1>4, <1>5, <1>6, <1>9, <1>12, <1>14, <2>1, <3>1, <3>2 DEF CallInv, ProducerStates
  <2> QED
        BY <2>2, <2>3
<1>19. headers # <<>>
      BY <1>1, <1>5 DEF CallInv
<1>20. PICK e \in 1 .. Len(entries) : e = blockIndex.index[blockIndex.tail]
  <2>1. PICK n \in Nat \ {0} : RingOver(blockIndex, n, Len(entries)) /\ blockIndex.tail \in 0 .. n - 1
        BY <1>1, <1>19, NextOfTail
  <2> QED
        BY <2>1 DEF RingOver
<1>21. Nums[e] = K
      BY <1>1, <1>5, <1>8, <1>19, <1>20 DEF RingsInv
<1>22. /\ Len(entries') = Len(entries) /\ Nums' = Nums /\ IndexTypes'
       /\ entries'[e].value = b
       /\ \A f \in 1 .. Len(entries) : f # e => entries'[f].value = entries[f].value
  <2>1. entries' = [entries EXCEPT ![e].value = b] /\ b \in Blocks \cup {None}
        BY <1>4, <1>10, <1>20
  <2> QED
        BY <1>1, <1>5, <2>1, ValueStored, ValueFrame
<1>23. RingsInv'
  <2>1. producer'.pc # "tail" /\ producer'.pc # "block"
        BY <1>6
  <2> QED
        BY <1>1, <1>5, <1>16, <1>19, <1>22, <2>1 DEF RingsInv, blockIndex
<1>24. AimInv'
      BY <1>1, <1>5, <1>22 DEF AimInv
<1>25. GivenUp'
  <2> SUFFICES ASSUME NEW f \in 1 .. Len(entries), Nums[f] > K
               PROVE  entries'[f].value = None
      BY <1>14, <1>16, <1>22 DEF GivenUp
  <2>1. Nums[f] \in Int /\ f # e
        BY <1>1, <1>21, NumsTyped DEF Numbers
  <2>2. Nums[f] > Top /\ Nums[f] # Top + 1
        BY <1>7, <1>8, <2>1
  <2>3. entries[f].value = None
        BY <1>1, <2>2 DEF GivenUp
  <2> QED
        BY <1>22, <2>1, <2>3
<1>26. RangesInv' /\ EmptyingInv'
      BY <1>1, <1>5, ConsumerFrame
<1>27. SameFlags /\ SameEmptying /\ SamePresent /\ SameFreeing
      BY <1>5, <1>15, ProducerView
<1>28. BlockTypes'
  <2>1. emptied' \in [Blocks -> SUBSET Offsets]
        BY <1>1, <1>4, <1>10 DEF BlockTypes
  <2> QED
        BY <1>1, <1>5, <1>10, <2>1 DEF BlockTypes
<1>29. PICK at \in [HeldNums -> Blocks] : BlocksRight(at)
      BY DEF ImplicitInv
<1>30. \A k \in Nat : k \in HeldNums' <=> k \in HeldNums \/ k = K
  <2> SUFFICES ASSUME NEW k \in Nat
               PROVE  k \in HeldNums' <=> k \in HeldNums \/ k = K
      OBVIOUS
  <2>1. \A o \in Offsets : Unflagged(Base(k) + o)' <=> Unflagged(Base(k) + o)
        BY <1>27, PlaceIs DEF SameFlags
  <2>2. \A c \in Consumers : Empties(consumer[c], k)' <=> Empties(consumer[c], k)
        BY <1>27 DEF SameEmptying
  <2>3. k \in 0 .. K <=> k \in 0 .. Top \/ k = K
        BY <1>7, <1>8
  <2>4. k = K => \E o \in Offsets : Unflagged(Base(k) + o)
    <3>1. 0 \in Offsets
          BY BlockSize DEF Offsets
    <3> QED
          BY <1>1, <1>8, <3>1, CallBlocks
  <2> QED
        BY <1>14, <2>1, <2>2, <2>3, <2>4 DEF HeldNums
<1>31. /\ \A k \in HeldNums : k \in Nat /\ k <= Top /\ k # K
       /\ \A k \in HeldNums' : k \in Nat
  <2>1. \A k \in HeldNums : k \in Nat /\ k <= Top
        BY DEF HeldNums
  <2>2. \A k \in HeldNums' : k \in Nat
        BY DEF HeldNums
  <2> QED
        BY <1>7, <1>8, <2>1, <2>2
<1>32. HeldNums' = HeldNums \cup {K}
      BY <1>30, <1>31
<1>at. PICK at2 : at2 = [k \in HeldNums' |-> IF k = K THEN b ELSE at[k]]
      OBVIOUS
<1>33. /\ at2 \in [HeldNums' -> Blocks] /\ at2[K] = b
       /\ \A k \in HeldNums : at2[k] = at[k]
      BY <1>10, <1>31, <1>32, <1>at
<1>34. \A k \in HeldNums : at[k] # b
      BY <1>10, <1>29, HeldBlocks
<1>35. ASSUME NEW k \in HeldNums
       PROVE  BlockRight(k, at[k])' /\ EntryRight(k, at[k])'
  <2>1. PICK d \in Blocks : d = at[k]
        OBVIOUS
  <2>2. k \in Nat /\ k # K /\ k <= Top /\ BlockRight(k, d) /\ EntryRight(k, d) /\ d # b
        BY <1>29, <1>31, <1>34, <2>1, HeldBlocks
  <2>3. \A o \in Offsets : /\ Unflagged(Base(k) + o)' <=> Unflagged(Base(k) + o)
                           /\ Present(Base(k) + o)' <=> Present(Base(k) + o)
        BY <1>27, <2>2, PlaceIs DEF SameFlags, SamePresent
  <2>4. [o \in Offsets |-> IF Present(Base(k) + o)' THEN Base(k) + o ELSE None]
          = [o \in Offsets |-> IF Present(Base(k) + o) THEN Base(k) + o ELSE None]
        BY <2>3
  <2>5. {o \in Offsets : ~ Unflagged(Base(k) + o)'} = {o \in Offsets : ~ Unflagged(Base(k) + o)}
        BY <2>3
  <2>6. emptied'[d] = emptied[d]
        BY <1>1, <1>4, <2>2 DEF BlockTypes
  <2>7. k >= FirstNum => d = producer'.taken[k - FirstNum + 1]
    <3> SUFFICES ASSUME k >= FirstNum
                 PROVE  d = producer'.taken[k - FirstNum + 1]
        OBVIOUS
    <3>1. k - FirstNum + 1 \in 1 .. N
          BY <1>7, <1>8, <1>11, <2>2
    <3> QED
          BY <1>12, <2>2, <3>1 DEF BlockRight
  <2>8. producer'.pc # "idle"
        BY <1>6
  <2>9. k = FirstNum - 1 => d = producer'.start
        BY <1>5, <1>6, <2>2 DEF BlockRight
  <2>10. BlockRight(k, d)'
        BY <1>5, <1>13, <2>2, <2>4, <2>5, <2>6, <2>7, <2>8, <2>9 DEF BlockRight
  <2>11. Indexed(k)' <=> Indexed(k)
        BY <1>5, <1>16 DEF Indexed
  <2>12. Indexed(k) => \E f \in 1 .. Len(entries) : Nums[f] = k /\ entries'[f].value = d
    <3> SUFFICES ASSUME Indexed(k)
                 PROVE  \E f \in 1 .. Len(entries) : Nums[f] = k /\ entries'[f].value = d
        OBVIOUS
    <3>1. PICK f \in 1 .. Len(entries) : Nums[f] = k /\ entries[f].value = d
          BY <2>2 DEF EntryRight
    <3>2. f # e
          BY <1>21, <2>2, <3>1
    <3> QED
          BY <1>22, <3>1, <3>2
  <2>13. EntryRight(k, d)'
        BY <1>16, <1>22, <2>11, <2>12 DEF EntryRight
  <2> QED
        BY <2>1, <2>10, <2>13
<1>36. BlockRight(K, b)' /\ EntryRight(K, b)'
  <2>1. \A o \in Offsets : ~ Present(Base(K) + o)
        BY <1>1, <1>5, <1>8, CallEmpty
  <2>2. \A o \in Offsets : Unflagged(Base(K) + o)
        BY <1>1, <1>8, CallBlocks
  <2>3. \A o \in Offsets : /\ Unflagged(Base(K) + o)' <=> Unflagged(Base(K) + o)
                           /\ Present(Base(K) + o)' <=> Present(Base(K) + o)
        BY <1>27, PlaceIs DEF SameFlags, SamePresent
  <2>4. [o \in Offsets |-> IF Present(Base(K) + o)' THEN Base(K) + o ELSE None] = [o \in Offsets |-> None]
        BY <2>1, <2>3
  <2>5. {o \in Offsets : ~ Unflagged(Base(K) + o)'} = {}
        BY <2>2, <2>3
  <2>6. elements'[b] = [o \in Offsets |-> None]
        BY <1>1, <1>5, <1>10 DEF BlockTypes
  <2>7. emptied'[b] = {}
        BY <1>1, <1>4, <1>10 DEF BlockTypes
  <2>8. K - FirstNum + 1 = N + 1 /\ K # FirstNum - 1
        BY <1>7, <1>8, <1>11
  <2>9. BlockRight(K, b)'
        BY <1>12, <1>13, <2>4, <2>5, <2>6, <2>7, <2>8 DEF BlockRight
  <2>10. EntryRight(K, b)'
        BY <1>16, <1>21, <1>22 DEF EntryRight
  <2> QED
        BY <2>9, <2>10
<1>37. ReadersRight(at2)'
  <2> SUFFICES ASSUME NEW c \in Consumers, consumer[c].pc \in {"move", "flag", "unlink", "free"}
               PROVE  consumer[c].block = at2[Num(consumer[c].index)]
      BY <1>5 DEF ReadersRight
  <2>1. consumer[c].pc \in Reading
        BY DEF Reading
  <2>2. PICK j \in Nat : /\ j = Num(consumer[c].index)
                         /\ j \in Num(consumer[c].index) .. Num(consumer[c].end - 1)
        BY <1>1, <2>1, ReaderRange
  <2>3. j \in HeldNums
        BY <1>1, <1>2, <2>1, <2>2, ReaderHolds
  <2> QED
        BY <1>29, <1>33, <2>2, <2>3 DEF BlocksRight
<1>38. BlocksRight(at2)'
  <2>1. \A i, j \in HeldNums' : at2[i] = at2[j] => i = j
        BY <1>29, <1>32, <1>33, <1>34 DEF BlocksRight
  <2>2. Blocks \ Idle' = {at2[j] : j \in HeldNums'}
    <3>1. Blocks \ Idle = {at[j] : j \in HeldNums}
          BY <1>29 DEF BlocksRight
    <3>2. {at2[j] : j \in HeldNums'} = {at[j] : j \in HeldNums} \cup {b}
          BY <1>32, <1>33
    <3> QED
          BY <1>10, <3>1, <3>2
  <2>3. \A k \in HeldNums' : BlockRight(k, at2[k])' /\ EntryRight(k, at2[k])'
        BY <1>32, <1>33, <1>35, <1>36
  <2> QED
        BY <1>37, <2>1, <2>2, <2>3 DEF BlocksRight, ReadersRight
<1> QED
  BY <1>5, <1>18, <1>22, <1>23, <1>24, <1>25, <1>26, <1>28, <1>33, <1>38 DEF ImplicitInv

\* The place of each element the call constructs.
LEMMA PlacesFilled ==
  ASSUME CountersInv, ImplicitInv, producer.pc = "construct",
         NEW at \in [HeldNums -> Blocks], BlocksRight(at),
         NEW i \in tailIndex .. tailIndex + producer.count - 1
  PROVE  /\ i \in Nat /\ Num(i) \in HeldNums
         /\ BlockOf(producer)[BlockBase(i)] = at[Num(i)]
<1>1. CallInv /\ producer.taken \in Seq(Blocks)
      BY DEF ImplicitInv, CallInv
<1>2. headIndex \in Nat /\ tailIndex \in Nat /\ headIndex <= tailIndex /\ producer.count \in Nat
      BY HeadTail DEF CountersInv, Shapes
<1>3. i \in Nat /\ tailIndex <= i /\ i < tailIndex + producer.count
      BY <1>2
<1>4. PICK k \in Nat : k = Num(i)
      BY <1>3, NumFacts
<1>5. /\ Base(k) <= i /\ i < Base(k + 1) /\ BlockBase(i) = Base(k) /\ Base(k) \in Nat
      /\ i = Base(k) + Offset(i) /\ Offset(i) \in Offsets /\ Base(k + 1) \in Nat
  <2>1. Base(k + 1) = Base(k) + BLOCK_SIZE /\ Base(k + 1) \in Nat /\ Base(k) \in Nat
        BY BaseFacts
  <2> QED
        BY <1>3, <1>4, <2>1, NumFacts
<1>6. /\ FirstNum \in Nat /\ Top \in Int /\ Top >= FirstNum - 1 /\ FirstBase = Base(FirstNum)
      /\ Base(FirstNum - 1) < tailIndex /\ Base(FirstNum - 1) \in Int
      BY <1>1, <1>2, TopType, FirstFacts, BaseFacts
<1>7. k <= Top
  <2>1. tailIndex + producer.count <= Base(Top + 1) /\ Base(Top + 1) \in Int
        BY <1>1, <1>6, BaseFacts DEF CallInv
  <2>2. Base(k) < Base(Top + 1)
        BY <1>2, <1>3, <1>5, <2>1
  <2>3. k < Top + 1
        BY <1>6, <2>2, BaseOrder
  <2> QED
        BY <1>6, <2>3
<1>8. FirstNum - 1 <= k
  <2>1. Base(FirstNum - 1) < Base(k + 1)
        BY <1>2, <1>3, <1>5, <1>6
  <2>2. FirstNum - 1 < k + 1
        BY <1>6, <2>1, BaseOrder
  <2> QED
        BY <1>6, <2>2
<1>9. k \in HeldNums
  <2>1. Unflagged(Base(k) + Offset(i))
        BY <1>2, <1>3, <1>5 DEF Unflagged
  <2> QED
        BY <1>5, <1>6, <1>7, <2>1 DEF HeldNums
<1>10. BlockOf(producer)[BlockBase(i)] =
         IF Base(k) < FirstBase THEN producer.start
         ELSE producer.taken[1 + (Base(k) - FirstBase) \div BLOCK_SIZE]
      BY <1>5 DEF BlockOf
<1>11. BlockRight(k, at[k])
      BY <1>9, HeldBlocks
<1>12. CASE k < FirstNum
  <2>1. Base(k) < Base(FirstNum) /\ k = FirstNum - 1
        BY <1>6, <1>8, <1>12, BaseOrder
  <2> QED
        BY <1>3, <1>4, <1>6, <1>9, <1>10, <1>11, <2>1 DEF BlockRight
<1>13. CASE ~ (k < FirstNum)
  <2>1. ~ (Base(k) < Base(FirstNum))
        BY <1>6, <1>13, BaseOrder
  <2>2. (Base(k) - Base(FirstNum)) \div BLOCK_SIZE = k - FirstNum
        BY <1>6, BaseDiv
  <2>3. 1 + (k - FirstNum) = k - FirstNum + 1 /\ k >= FirstNum
        BY <1>6, <1>13
  <2> QED
        BY <1>3, <1>4, <1>6, <1>9, <1>10, <1>11, <2>1, <2>2, <2>3 DEF BlockRight
<1> QED
  BY <1>12, <1>13

\* The places of the elements lo .. hi - 1 are apart and empty, of being their
\* blocks; what Construct does then.
PlacesFree(of, lo, hi, blockOf) ==
  /\ \A i \in lo .. hi - 1 : of[i] = blockOf[BlockBase(i)]
  /\ \A i \in lo .. hi - 1 : elements[of[i]][Offset(i)] = None
  /\ \A i, j \in lo .. hi - 1 : of[i] = of[j] /\ Offset(i) = Offset(j) => i = j

\* What Construct does to the elements of the blocks.
LEMMA ConstructFacts ==
  ASSUME elements \in [Blocks -> [Offsets -> Nat \cup {None}]], misuse = {},
         NEW lo \in Nat, NEW hi \in Nat, NEW blockOf, NEW of,
         PlacesFree(of, lo, hi, blockOf), Construct(lo, hi, blockOf)
  PROVE  /\ misuse' = {} /\ elements' \in [Blocks -> [Offsets -> Nat \cup {None}]]
         /\ \A b \in Blocks, o \in Offsets, i \in lo .. hi - 1 :
              of[i] = b /\ Offset(i) = o => elements'[b][o] = i
         /\ \A b \in Blocks, o \in Offsets :
              (\A i \in lo .. hi - 1 : ~ (of[i] = b /\ Offset(i) = o)) => elements'[b][o] = elements[b][o]
<1> DEFINE at == [k \in lo .. hi - 1 |-> <<blockOf[BlockBase(k)], Offset(k)>>]
<1>1. /\ elements' = [b \in Blocks |-> [o \in Offsets |->
           IF \E k \in lo .. hi - 1 : at[k] = <<b, o>>
             THEN CHOOSE k \in lo .. hi - 1 : at[k] = <<b, o>>
             ELSE elements[b][o]]]
      /\ misuse' = misuse \cup
           {"element overwritten" : k \in {k \in lo .. hi - 1 : elements[at[k][1]][at[k][2]] # None}}
      BY DEF Construct
<1>2. \A i \in lo .. hi - 1 : at[i] = <<of[i], Offset(i)>>
      BY DEF PlacesFree
<1> HIDE DEF at
<1>3. \A i \in lo .. hi - 1 : elements[at[i][1]][at[i][2]] = None
      BY <1>2 DEF PlacesFree
<1>4. misuse' = {}
      BY <1>1, <1>3
<1>5. ASSUME NEW b \in Blocks, NEW o \in Offsets
      PROVE  /\ elements'[b][o] \in Nat \cup {None}
             /\ \A i \in lo .. hi - 1 : of[i] = b /\ Offset(i) = o => elements'[b][o] = i
             /\ (\A i \in lo .. hi - 1 : ~ (of[i] = b /\ Offset(i) = o)) => elements'[b][o] = elements[b][o]
  <2>1. elements'[b][o] = IF \E k \in lo .. hi - 1 : at[k] = <<b, o>>
                            THEN CHOOSE k \in lo .. hi - 1 : at[k] = <<b, o>>
                            ELSE elements[b][o]
        BY <1>1
  <2>2. \A k \in lo .. hi - 1 : at[k] = <<b, o>> <=> of[k] = b /\ Offset(k) = o
        BY <1>2
  <2>3. CASE \E k \in lo .. hi - 1 : at[k] = <<b, o>>
    <3>1. PICK j \in lo .. hi - 1 : j = elements'[b][o] /\ at[j] = <<b, o>>
          BY <2>1, <2>3
    <3>2. of[j] = b /\ Offset(j) = o /\ j \in Nat
          BY <2>2, <3>1
    <3> QED
          BY <3>1, <3>2 DEF PlacesFree
  <2>4. CASE ~ \E k \in lo .. hi - 1 : at[k] = <<b, o>>
        BY <2>1, <2>2, <2>4
  <2> QED
        BY <2>3, <2>4
<1>6. elements' \in [Blocks -> [Offsets -> Nat \cup {None}]]
  <2>1. PICK F : F = elements'
        OBVIOUS
  <2>2. F = [b \in Blocks |-> [o \in Offsets |-> F[b][o]]]
        BY <1>1, <2>1
  <2>3. \A b \in Blocks, o \in Offsets : F[b][o] \in Nat \cup {None}
        BY <1>5, <2>1
  <2>4. F \in [Blocks -> [Offsets -> Nat \cup {None}]]
        BY <2>2, <2>3
  <2> QED
        BY <2>1, <2>4
<1> QED
  BY <1>4, <1>5, <1>6

\* The elements of a call are constructed.
LEMMA ConstructStep ==
  ASSUME CountersInv, CountersInv', ImplicitInv, alive, ConstructAll
  PROVE  ImplicitInv'
<1>1. /\ CallInv /\ IndexTypes /\ RingsInv /\ GivenUp /\ RangesInv /\ EmptyingInv /\ BlockTypes /\ AimInv
      BY DEF ImplicitInv
<1>2. headIndex \in Nat /\ tailIndex \in Nat /\ headIndex <= tailIndex /\ producer.count \in Nat
      BY HeadTail DEF CountersInv, Shapes
<1>3. ProducerShape(producer)
      BY DEF CountersInv, Shapes
<1>4. /\ UNCHANGED <<headIndex, tailIndex, tailBlock, consumer, alive, emptied, poolVars, headers, entries>>
      /\ producer.pc = "construct" /\ producer'.pc = "commit"
      /\ producer'.base = producer.base /\ producer'.taken = producer.taken
      /\ producer'.count = producer.count /\ producer'.start = producer.start
      /\ Construct(tailIndex, tailIndex + producer.count, BlockOf(producer))
      BY <1>3 DEF ConstructAll, ProducerShape, counterVars, implicitVars
<1>5. PICK at \in [HeldNums -> Blocks] : BlocksRight(at)
      BY DEF ImplicitInv
<1>6. PICK hi \in Nat : hi = tailIndex + producer.count
      BY <1>2
<1>of. PICK of : of = [i \in tailIndex .. hi - 1 |-> at[Num(i)]]
      OBVIOUS
<1>7. \A i \in tailIndex .. hi - 1 : of[i] = at[Num(i)]
      BY <1>of
<1>8. ASSUME NEW i \in tailIndex .. hi - 1
      PROVE  /\ i \in Nat /\ Num(i) \in HeldNums /\ of[i] = BlockOf(producer)[BlockBase(i)]
             /\ Num(i) \in Nat /\ Offset(i) \in Offsets /\ i = Base(Num(i)) + Offset(i)
  <2>1. i \in tailIndex .. tailIndex + producer.count - 1
        BY <1>2, <1>6
  <2>2. producer.pc = "construct"
        BY <1>4
  <2>3. i \in Nat /\ Num(i) \in HeldNums /\ BlockOf(producer)[BlockBase(i)] = at[Num(i)]
        BY <1>5, <2>1, <2>2, PlacesFilled
  <2> QED
        BY <1>7, <2>3, NumFacts
<1>9. \A i \in tailIndex .. hi - 1 : ~ Present(i)
  <2> SUFFICES ASSUME NEW i \in tailIndex .. hi - 1, Present(i)
               PROVE  FALSE
      OBVIOUS
  <2>1. i \in Nat /\ tailIndex <= i
        BY <1>2
  <2>2. Constructed = tailIndex
        BY <1>2, <1>4 DEF Constructed
  <2>3. PICK c \in Consumers : i \in UnmovedOf(consumer[c])
        BY <1>2, <2>1, <2>2 DEF Present
  <2>4. consumer[c].pc \in Reading
        BY <2>3 DEF UnmovedOf
  <2>5. consumer[c].end \in Nat /\ consumer[c].end <= headIndex
        BY <1>1, <2>4, ReaderRange
  <2>6. i <= consumer[c].end - 1
        BY <2>1, <2>3, <2>4, <2>5 DEF UnmovedOf
  <2> QED
        BY <1>2, <2>1, <2>5, <2>6
<1>10. \A i \in tailIndex .. hi - 1 : elements[of[i]][Offset(i)] = None
  <2> SUFFICES ASSUME NEW i \in tailIndex .. hi - 1
               PROVE  elements[of[i]][Offset(i)] = None
      OBVIOUS
  <2>1. PICK k \in Nat, o \in Offsets : k = Num(i) /\ o = Offset(i) /\ k \in HeldNums /\ i = Base(k) + o
        BY <1>8
  <2>2. BlockRight(k, at[k])
        BY <1>5, <2>1, HeldBlocks
  <2>3. elements[at[k]][o] = IF Present(Base(k) + o) THEN Base(k) + o ELSE None
        BY <2>2 DEF BlockRight
  <2> QED
        BY <1>7, <1>9, <2>1, <2>3
<1>11. \A i, j \in tailIndex .. hi - 1 : of[i] = of[j] /\ Offset(i) = Offset(j) => i = j
  <2> SUFFICES ASSUME NEW i \in tailIndex .. hi - 1, NEW j \in tailIndex .. hi - 1,
                      of[i] = of[j], Offset(i) = Offset(j)
               PROVE  i = j
      OBVIOUS
  <2>1. at[Num(i)] = at[Num(j)] /\ Num(i) \in HeldNums /\ Num(j) \in HeldNums
        BY <1>7, <1>8
  <2>2. Num(i) = Num(j)
        BY <1>5, <2>1 DEF BlocksRight
  <2> QED
        BY <1>8, <2>2
<1>12. /\ misuse' = {} /\ elements' \in [Blocks -> [Offsets -> Nat \cup {None}]]
       /\ \A b \in Blocks, o \in Offsets, i \in tailIndex .. hi - 1 :
            of[i] = b /\ Offset(i) = o => elements'[b][o] = i
       /\ \A b \in Blocks, o \in Offsets :
            (\A i \in tailIndex .. hi - 1 : ~ (of[i] = b /\ Offset(i) = o)) => elements'[b][o] = elements[b][o]
  <2>1. PICK lo \in Nat : lo = tailIndex
        BY <1>2
  <2>2. PICK blockOf : blockOf = BlockOf(producer)
        OBVIOUS
  <2>3. elements \in [Blocks -> [Offsets -> Nat \cup {None}]] /\ misuse = {}
        BY <1>1 DEF BlockTypes
  <2>4. Construct(lo, hi, blockOf)
        BY <1>4, <1>6, <2>1, <2>2
  <2>5. \A i \in lo .. hi - 1 : of[i] = blockOf[BlockBase(i)]
        BY <1>8, <2>1, <2>2
  <2>6. /\ \A i \in lo .. hi - 1 : elements[of[i]][Offset(i)] = None
        /\ \A i, j \in lo .. hi - 1 : of[i] = of[j] /\ Offset(i) = Offset(j) => i = j
        BY <1>10, <1>11, <2>1
  <2>7. /\ misuse' = {} /\ elements' \in [Blocks -> [Offsets -> Nat \cup {None}]]
        /\ \A b \in Blocks, o \in Offsets, i \in lo .. hi - 1 :
             of[i] = b /\ Offset(i) = o => elements'[b][o] = i
        /\ \A b \in Blocks, o \in Offsets :
             (\A i \in lo .. hi - 1 : ~ (of[i] = b /\ Offset(i) = o)) => elements'[b][o] = elements[b][o]
    <3>1. PlacesFree(of, lo, hi, blockOf)
          BY <2>5, <2>6 DEF PlacesFree
    <3> QED
          BY <2>3, <2>4, <3>1, ConstructFacts
  <2> QED
        BY <2>1, <2>7
<1>13. FirstNum' = FirstNum /\ Top' = Top /\ Nums' = Nums
      BY <1>4 DEF FirstNum, FirstBase, Top, Nums
<1>14. UndoneNums = {} /\ UndoneNums' = {} /\ NumAtTail = Top /\ NumAtTail' = Top
      BY <1>4, <1>13 DEF UndoneNums, NumAtTail
<1>15. CallInv'
      BY <1>1, <1>4, <1>13 DEF CallInv, ProducerStates
<1>16. IndexTypes' /\ AimInv' /\ GivenUp' /\ RingsInv'
      BY <1>1, <1>4, <1>13, <1>14 DEF IndexTypes, AimInv, GivenUp, RingsInv, blockIndex
<1>17. RangesInv' /\ EmptyingInv'
      BY <1>1, <1>4, ConsumerFrame
<1>18. SameFlags /\ SameEmptying /\ SameFreeing
      BY <1>4, ProducerView
<1>19. HeldNums' = HeldNums
      BY <1>13, <1>18, HeldFrame
<1>20. Idle' = Idle
      BY <1>4 DEF Idle, poolVars
<1>21. \A i \in Nat : Present(i)' <=> Present(i) \/ i \in tailIndex .. hi - 1
  <2> SUFFICES ASSUME NEW i \in Nat
               PROVE  Present(i)' <=> Present(i) \/ i \in tailIndex .. hi - 1
      OBVIOUS
  <2>1. Constructed = tailIndex /\ Constructed' = hi
        BY <1>2, <1>4, <1>6 DEF Constructed
  <2>2. i \in headIndex .. hi - 1 <=> i \in headIndex .. tailIndex - 1 \/ i \in tailIndex .. hi - 1
        BY <1>2, <1>6
  <2>3. (\E c \in Consumers : i \in UnmovedOf(consumer[c]))' <=> \E c \in Consumers : i \in UnmovedOf(consumer[c])
        BY <1>4
  <2> QED
        BY <1>4, <2>1, <2>2, <2>3 DEF Present
<1>22. ASSUME NEW b \in Idle
       PROVE  elements'[b] = [o \in Offsets |-> None]
  <2>1. b \in Blocks /\ elements[b] = [o \in Offsets |-> None]
        BY <1>1 DEF BlockTypes, Idle
  <2>2. \A i \in tailIndex .. hi - 1 : of[i] # b
        BY <1>5, <1>7, <1>8, HeldBlocks
  <2>3. \A o \in Offsets : elements'[b][o] = None
        BY <1>12, <2>1, <2>2
  <2>4. elements'[b] \in [Offsets -> Nat \cup {None}]
        BY <1>12, <2>1
  <2> QED
        BY <2>3, <2>4
<1>23. BlockTypes'
      BY <1>1, <1>4, <1>12, <1>20, <1>22 DEF BlockTypes, poolVars
<1>24. ASSUME NEW k \in HeldNums
       PROVE  BlockRight(k, at[k])' /\ EntryRight(k, at[k])'
  <2>1. PICK b \in Blocks : b = at[k]
        OBVIOUS
  <2>2. k \in Nat /\ BlockRight(k, b) /\ EntryRight(k, b)
        BY <1>5, <2>1, HeldBlocks
  <2>3. ASSUME NEW o \in Offsets
        PROVE  elements'[b][o] = IF Present(Base(k) + o)' THEN Base(k) + o ELSE None
    <3>1. PICK i \in Nat : i = Base(k) + o /\ Num(i) = k /\ Offset(i) = o
          BY <2>2, PlaceIs
    <3>2. elements[b][o] = IF Present(i) THEN i ELSE None
          BY <2>2, <3>1 DEF BlockRight
    <3>3. CASE i \in tailIndex .. hi - 1
      <4>1. of[i] = b
            BY <1>7, <2>1, <3>1, <3>3
      <4>2. elements'[b][o] = i
            BY <1>12, <3>1, <3>3, <4>1
      <4> QED
            BY <1>21, <3>1, <3>3, <4>2
    <3>4. CASE i \notin tailIndex .. hi - 1
      <4>1. ASSUME NEW j \in tailIndex .. hi - 1, of[j] = b, Offset(j) = o
            PROVE  FALSE
        <5>1. at[Num(j)] = at[k] /\ Num(j) \in HeldNums
              BY <1>7, <1>8, <2>1, <4>1
        <5>2. Num(j) = k
              BY <1>5, <5>1 DEF BlocksRight
        <5>3. j = i
              BY <1>8, <3>1, <4>1, <5>2
        <5> QED
              BY <3>4, <5>3
      <4>2. elements'[b][o] = elements[b][o]
            BY <1>12, <4>1
      <4> QED
            BY <1>21, <3>1, <3>2, <3>4, <4>2
    <3> QED
          BY <3>3, <3>4
  <2>4. elements'[b] = [o \in Offsets |-> IF Present(Base(k) + o)' THEN Base(k) + o ELSE None]
    <3>1. elements'[b] \in [Offsets -> Nat \cup {None}]
          BY <1>12
    <3> QED
          BY <2>3, <3>1
  <2>5. \A o \in Offsets : Unflagged(Base(k) + o)' <=> Unflagged(Base(k) + o)
        BY <1>18, <2>2, PlaceIs DEF SameFlags
  <2>6. {o \in Offsets : ~ Unflagged(Base(k) + o)'} = {o \in Offsets : ~ Unflagged(Base(k) + o)}
        BY <2>5
  <2>7. producer.pc # "idle" /\ producer'.pc # "idle"
        BY <1>4
  <2>8. BlockRight(k, b)'
        BY <1>4, <1>13, <2>2, <2>4, <2>6, <2>7 DEF BlockRight
  <2>9. EntryRight(k, b)'
        BY <1>4, <1>14, <1>18, <2>2, EntryFrame
  <2> QED
        BY <2>1, <2>8, <2>9
<1>25. BlocksRight(at)'
      BY <1>4, <1>5, <1>19, <1>20, <1>24 DEF BlocksRight
<1> QED
  BY <1>4, <1>5, <1>15, <1>16, <1>17, <1>19, <1>23, <1>25 DEF ImplicitInv

-------------------------------------------------------------------------------
(* Nobody in a call *)

\* What the invariant says when nobody is in a call.
LEMMA QuietFacts ==
  ASSUME CountersInv, ImplicitInv, Quiet
  PROVE  /\ headIndex \in Nat /\ tailIndex \in Nat /\ headIndex <= tailIndex
         /\ producer.taken = <<>> /\ FirstNum \in Nat /\ Top = FirstNum - 1
         /\ UndoneNums = {} /\ NumAtTail = Top /\ Constructed = tailIndex
         /\ Base(FirstNum - 1) < tailIndex /\ tailIndex <= Base(FirstNum)
         /\ \A i \in Nat : Unflagged(i) <=> i >= headIndex
         /\ \A i \in Nat : Present(i) <=> i \in headIndex .. tailIndex - 1
         /\ \A k \in Nat : Indexed(k) /\ \A c \in Consumers : ~ Empties(consumer[c], k)
<1>1. headIndex \in Nat /\ tailIndex \in Nat /\ headIndex <= tailIndex
      BY HeadTail
<1>2. producer.pc = "idle" /\ \A c \in Consumers : consumer[c].pc = "idle"
      BY DEF Quiet
<1>3. producer.taken = <<>>
      BY <1>2 DEF ImplicitInv, CallInv
<1>4. FirstNum \in Nat /\ Base(FirstNum - 1) < tailIndex /\ tailIndex <= Base(FirstNum)
      BY <1>1, FirstFacts
<1>5. Top = FirstNum - 1
      BY <1>3, <1>4 DEF Top
<1>6. UndoneNums = {} /\ NumAtTail = Top /\ Constructed = tailIndex
      BY <1>1, <1>2 DEF UndoneNums, NumAtTail, Constructed
<1>7. \A c \in Consumers : UnflaggedOf(consumer[c]) = {} /\ UnmovedOf(consumer[c]) = {}
      BY <1>2 DEF UnflaggedOf, UnmovedOf, Reading
<1>8. /\ \A i \in Nat : Unflagged(i) <=> i >= headIndex
      /\ \A i \in Nat : Present(i) <=> i \in headIndex .. tailIndex - 1
      BY <1>6, <1>7 DEF Unflagged, Present
<1>9. \A k \in Nat : Indexed(k) /\ \A c \in Consumers : ~ Empties(consumer[c], k)
      BY <1>2, <1>6 DEF Indexed, Empties, Frees, Emptying
<1> QED
  BY <1>1, <1>3, <1>4, <1>5, <1>6, <1>8, <1>9

\* The index finds the block of each element left.
LEMMA ElementFound ==
  ASSUME CountersInv, ImplicitInv, Quiet, NEW at \in [HeldNums -> Blocks], BlocksRight(at),
         NEW i \in headIndex .. tailIndex - 1
  PROVE  /\ i \in Nat /\ Num(i) \in HeldNums
         /\ \A j \in Nat : Num(j) = Num(i) =>
              entries[blockIndex.index[PositionOf(j, blockIndex, blockIndex.tail)]].value = at[Num(i)]
<1>1. /\ headIndex \in Nat /\ tailIndex \in Nat /\ FirstNum \in Nat /\ Top = FirstNum - 1
      /\ NumAtTail = Top /\ tailIndex <= Base(FirstNum)
      /\ \A j \in Nat : Unflagged(j) <=> j >= headIndex
      /\ \A k \in Nat : Indexed(k)
      BY QuietFacts
<1>2. IndexTypes /\ RingsInv
      BY DEF ImplicitInv
<1>3. i \in Nat /\ headIndex <= i /\ i < tailIndex
      BY <1>1
<1>4. PICK k \in Nat, o \in Offsets : k = Num(i) /\ i = Base(k) + o /\ Base(k) <= i
      BY <1>3, NumFacts
<1>5. k <= Top
  <2>1. Base(k) < Base(FirstNum)
    <3>1. Base(k) \in Nat /\ Base(FirstNum) \in Nat
          BY <1>1, BaseFacts
    <3> QED
          BY <1>1, <1>3, <1>4, <3>1
  <2>2. k < FirstNum
        BY <1>1, <2>1, BaseOrder
  <2> QED
        BY <1>1, <2>2
<1>6. k \in HeldNums
  <2>1. Unflagged(Base(k) + o)
        BY <1>1, <1>3, <1>4
  <2>2. k \in 0 .. Top
        BY <1>1, <1>5
  <2> QED
        BY <2>1, <2>2 DEF HeldNums
<1>7. EntryRight(k, at[k]) /\ Indexed(k)
      BY <1>1, <1>6, HeldBlocks
<1>8. PICK e \in 1 .. Len(entries) : Nums[e] = k /\ entries[e].value = at[k]
      BY <1>7 DEF EntryRight
<1>9. headers # <<>> /\ \E p \in DOMAIN blockIndex.index : blockIndex.index[p] = e
      BY <1>2, EntryPlace
<1>10. PICK p \in DOMAIN blockIndex.index : blockIndex.index[p] = e
      BY <1>9
<1>11. PICK r \in 1 .. Len(headers) : r = Len(headers) /\ headers[r] = blockIndex
      BY <1>2, <1>9, LastRing
<1>12. PICK t \in Int : t = Top
      BY <1>1
<1>13. blockIndex.tail \in DOMAIN blockIndex.index /\ Nums[blockIndex.index[blockIndex.tail]] = t
  <2>1. PICK n \in Nat \ {0} : RingOver(blockIndex, n, Len(entries))
        BY <1>2, <1>9, NextOfTail
  <2>2. NewestRing(blockIndex, Nums, t) /\ Numbers(Nums, Len(entries))
        BY <1>1, <1>2, <1>9, <1>12, NumsTyped DEF RingsInv
  <2>3. Nums[e] # -1 /\ Nums[e] <= t
    <3>1. k <= t /\ k # -1
          BY <1>1, <1>5, <1>12
    <3> QED
          BY <1>8, <3>1
  <2> QED
        BY <2>1, <2>2, <2>3, TailUsed
<1>14. PICK mark \in DOMAIN headers[r].index : mark = blockIndex.tail
      BY <1>11, <1>13
<1>15. Nums[headers[r].index[mark]] # -1
      BY <1>1, <1>4, <1>5, <1>11, <1>12, <1>13, <1>14
<1>16. ASSUME NEW j \in Nat, Num(j) = k
       PROVE  PositionOf(j, blockIndex, blockIndex.tail) = p
  <2>1. p \in DOMAIN headers[r].index /\ Nums[headers[r].index[p]] = Num(j)
        BY <1>8, <1>10, <1>11, <1>16
  <2>2. PositionOf(j, headers[r], mark) = p
        BY <1>2, <1>15, <2>1, Position
  <2> QED
        BY <1>11, <1>14, <2>2
<1> QED
  BY <1>3, <1>4, <1>6, <1>8, <1>10, <1>16

\* The blocks the destructor returns are those in use.
LEMMA LeftBlocks ==
  ASSUME CountersInv, ImplicitInv, alive, Quiet
  PROVE  Blocks \ Idle = BlocksLeft
<1>1. PICK at \in [HeldNums -> Blocks] : BlocksRight(at)
      BY DEF ImplicitInv
<1>2. /\ headIndex \in Nat /\ tailIndex \in Nat /\ headIndex <= tailIndex
      /\ FirstNum \in Nat /\ Top = FirstNum - 1
      /\ Base(FirstNum - 1) < tailIndex /\ tailIndex <= Base(FirstNum)
      /\ \A i \in Nat : Unflagged(i) <=> i >= headIndex
      /\ \A k \in Nat, c \in Consumers : ~ Empties(consumer[c], k)
      BY QuietFacts
<1>3. Blocks \ Idle = {at[k] : k \in HeldNums}
      BY <1>1 DEF BlocksRight
<1>4. PICK bases : bases = {BlockBase(i) : i \in headIndex .. tailIndex - 1}
      OBVIOUS
<1>5. PICK found : found = {entries[blockIndex.index[PositionOf(b, blockIndex, blockIndex.tail)]].value : b \in bases}
      OBVIOUS
<1>6. BlocksLeft = found \cup (IF tailBlock # None /\ (bases # {} \/ Offset(tailIndex) # 0) THEN {tailBlock} ELSE {})
      BY <1>4, <1>5 DEF BlocksLeft
<1>7. ASSUME NEW i \in headIndex .. tailIndex - 1
      PROVE  /\ Num(i) \in HeldNums /\ i \in Nat
             /\ entries[blockIndex.index[PositionOf(BlockBase(i), blockIndex, blockIndex.tail)]].value = at[Num(i)]
  <2>1. Num(i) \in HeldNums /\ i \in Nat
        BY <1>1, ElementFound
  <2>2. PICK j \in Nat : j = BlockBase(i) /\ Num(j) = Num(i)
        BY <2>1, NumFacts, NumOfBase
  <2> QED
        BY <1>1, <2>1, <2>2, ElementFound
<1>8. found = {at[Num(i)] : i \in headIndex .. tailIndex - 1}
      BY <1>4, <1>5, <1>7
<1>9. \A k \in HeldNums : k = FirstNum - 1 => at[k] = tailBlock
  <2> SUFFICES ASSUME NEW k \in HeldNums, k = FirstNum - 1
               PROVE  at[k] = tailBlock
      OBVIOUS
  <2>1. BlockRight(k, at[k]) /\ producer.pc = "idle"
        BY <1>1, HeldBlocks DEF Quiet
  <2> QED
        BY <2>1 DEF BlockRight
<1>10. ASSUME NEW k \in HeldNums
       PROVE  at[k] \in BlocksLeft
  <2>1. k \in Nat /\ k <= FirstNum - 1 /\ at[k] \in Blocks
        BY <1>2 DEF HeldNums
  <2>2. PICK o \in Offsets : Base(k) + o >= headIndex
    <3>1. PICK o \in Offsets : Unflagged(Base(k) + o)
          BY <1>2, <2>1 DEF HeldNums
    <3> QED
          BY <1>2, <2>1, <3>1, PlaceIs
  <2>3. PICK i \in Nat : i = Base(k) + o /\ Num(i) = k /\ i >= headIndex
        BY <2>1, <2>2, PlaceIs
  <2>4. CASE i < tailIndex
    <3>1. i \in headIndex .. tailIndex - 1
          BY <1>2, <2>3, <2>4
    <3> QED
          BY <1>6, <1>8, <2>3, <3>1
  <2>5. CASE ~ (i < tailIndex)
    <3>1. /\ Base(k) \in Nat /\ Base(k + 1) \in Nat /\ Base(k + 1) = Base(k) + BLOCK_SIZE
          /\ Base(FirstNum - 1) \in Int
          BY <1>2, <2>1, BaseFacts
    <3>2. o \in Nat /\ o < BLOCK_SIZE
          BY BlockSize DEF Offsets
    <3>3. tailIndex < Base(k + 1)
          BY <1>2, <2>3, <2>5, <3>1, <3>2, BlockSize
    <3>4. FirstNum - 1 < k + 1
      <4>1. Base(FirstNum - 1) < Base(k + 1)
            BY <1>2, <3>1, <3>3
      <4> QED
            BY <1>2, <2>1, <4>1, BaseOrder
    <3>5. k = FirstNum - 1
          BY <1>2, <2>1, <3>4
    <3>6. Offset(tailIndex) # 0
      <4>1. Base(k) < tailIndex /\ Base(k) <= tailIndex /\ tailIndex < Base(k) + BLOCK_SIZE
            BY <1>2, <3>1, <3>3, <3>5
      <4>2. Offset(tailIndex) = tailIndex - Base(k)
            BY <1>2, <2>1, <4>1, NumIs
      <4> QED
            BY <1>2, <3>1, <4>1, <4>2
    <3>7. at[k] = tailBlock /\ tailBlock # None
          BY <1>9, <2>1, <3>5, BlocksAssumption
    <3> QED
          BY <1>6, <3>6, <3>7
  <2> QED
        BY <2>4, <2>5
<1>11. \A b \in found : b \in {at[k] : k \in HeldNums}
      BY <1>7, <1>8
<1>12. ASSUME bases # {} \/ Offset(tailIndex) # 0
       PROVE  tailBlock \in {at[k] : k \in HeldNums}
  <2>1. \E i \in Nat : i >= headIndex /\ Num(i) = FirstNum - 1
    <3>1. CASE bases # {}
      <4>1. headIndex <= tailIndex - 1 /\ tailIndex - 1 \in Nat
            BY <1>2, <1>4, <3>1
      <4>2. /\ Base(FirstNum - 1) \in Int /\ Base(FirstNum) \in Int
            /\ Base(FirstNum - 1) = Base(FirstNum) - BLOCK_SIZE
            BY <1>2, BaseFacts
      <4>3. Base(FirstNum - 1) <= tailIndex - 1 /\ tailIndex - 1 < Base(FirstNum - 1) + BLOCK_SIZE
            BY <1>2, <4>1, <4>2, BlockSize
      <4>4. Num(tailIndex - 1) = FirstNum - 1
            BY <1>2, <4>1, <4>3, NumIs
      <4> QED
            BY <1>2, <4>1, <4>4
    <3>2. CASE Offset(tailIndex) # 0
      <4>1. PICK n \in Nat : n = Num(tailIndex)
            BY <1>2, NumFacts
      <4>2. /\ Base(n) <= tailIndex /\ tailIndex < Base(n) + BLOCK_SIZE /\ tailIndex # Base(n)
            /\ Base(n + 1) = Base(n) + BLOCK_SIZE /\ Base(n) \in Nat
            /\ Base(FirstNum) \in Nat /\ Base(FirstNum - 1) \in Int
        <5>1. tailIndex = Base(n) + Offset(tailIndex) /\ Offset(tailIndex) \in Nat
              BY <1>2, <4>1, NumFacts DEF Offsets
        <5> QED
              BY <1>2, <3>2, <4>1, <5>1, NumFacts, BaseFacts
      <4>3. n < FirstNum /\ FirstNum - 1 < n + 1
        <5>1. Base(n) < Base(FirstNum)
              BY <1>2, <4>2
        <5>2. Base(FirstNum - 1) < Base(n + 1)
              BY <1>2, <4>2, BlockSize
        <5> QED
              BY <1>2, <5>1, <5>2, BaseOrder
      <4>4. n = FirstNum - 1
            BY <1>2, <4>3
      <4> QED
            BY <1>2, <4>1, <4>4
    <3> QED
          BY <1>12, <3>1, <3>2
  <2>2. PICK i \in Nat : i >= headIndex /\ Num(i) = FirstNum - 1
        BY <2>1
  <2>3. PICK k \in Nat, o \in Offsets : k = FirstNum - 1 /\ i = Base(k) + o
        BY <2>2, NumFacts
  <2>4. k \in HeldNums
    <3>1. Unflagged(Base(k) + o)
          BY <1>2, <2>2, <2>3
    <3>2. k \in 0 .. Top
          BY <1>2, <2>3
    <3> QED
          BY <3>1, <3>2 DEF HeldNums
  <2> QED
        BY <1>9, <2>3, <2>4
<1>13. \A b \in BlocksLeft : b \in {at[k] : k \in HeldNums}
      BY <1>6, <1>11, <1>12
<1> QED
  BY <1>3, <1>10, <1>13

\* The destructor moves nothing else: it destroys the elements left and
\* returns the blocks.
LEMMA DestroyStep ==
  ASSUME CountersInv, ImplicitInv, DestroyImplicit
  PROVE  ImplicitInv'
<1>1. /\ alive /\ Quiet /\ alive' = FALSE /\ Destroy(PlacesLeft) /\ AddToFreeList(BlocksLeft)
      /\ UNCHANGED <<headIndex, tailIndex, tailBlock, consumer, producer, emptied, headers, entries>>
      BY DEF DestroyImplicit, counterVars, implicitVars
<1>2. /\ CallInv /\ IndexTypes /\ RingsInv /\ GivenUp /\ RangesInv /\ EmptyingInv /\ BlockTypes /\ AimInv
      BY DEF ImplicitInv
<1>3. PICK at \in [HeldNums -> Blocks] : BlocksRight(at)
      BY <1>1 DEF ImplicitInv
<1>4. /\ CallInv' /\ IndexTypes' /\ RingsInv' /\ GivenUp' /\ Nums' = Nums
      BY <1>1, <1>2, ProducerFrame
<1>5. RangesInv' /\ EmptyingInv'
      BY <1>1, <1>2, ConsumerFrame
<1>6. AimInv'
      BY <1>1, <1>2, <1>4 DEF AimInv
<1>7. Quiet'
      BY <1>1 DEF Quiet
<1>8. Blocks \ Idle = BlocksLeft
      BY <1>1, LeftBlocks
<1>9. /\ unusedPool \subseteq Blocks /\ heap \subseteq Blocks /\ freeList \subseteq Blocks
      BY <1>2 DEF BlockTypes
<1>10. /\ Idle' = Idle \cup BlocksLeft
       /\ unusedPool' \subseteq Blocks /\ heap' \subseteq Blocks /\ freeList' \subseteq Blocks
  <2>1. BlocksLeft \in SUBSET Blocks
        BY <1>8
  <2> QED
        BY <1>1, <1>9, <2>1, FreedIdle
<1>11. Idle' = Blocks
  <2>1. Idle \subseteq Blocks
        BY <1>9 DEF Idle
  <2> QED
        BY <1>8, <1>10, <2>1
<1>12. /\ headIndex \in Nat /\ tailIndex \in Nat
       /\ \A i \in Nat : Present(i) <=> i \in headIndex .. tailIndex - 1
      BY <1>1, QuietFacts
<1>13. PICK places : places = PlacesLeft
      OBVIOUS
<1>14. places = {<<at[Num(i)], Offset(i)>> : i \in headIndex .. tailIndex - 1}
  <2>1. \A i \in headIndex .. tailIndex - 1 :
          entries[blockIndex.index[PositionOf(i, blockIndex, blockIndex.tail)]].value = at[Num(i)]
        BY <1>1, <1>3, ElementFound
  <2> QED
        BY <1>13, <2>1 DEF PlacesLeft
<1>15. ASSUME NEW k \in HeldNums, NEW o \in Offsets
       PROVE  elements[at[k]][o] = IF Present(Base(k) + o) THEN Base(k) + o ELSE None
  <2>1. BlockRight(k, at[k])
        BY <1>3, HeldBlocks
  <2> QED
        BY <2>1 DEF BlockRight
<1>16. \A p \in places : elements[p[1]][p[2]] # None
  <2> SUFFICES ASSUME NEW i \in headIndex .. tailIndex - 1
               PROVE  elements[at[Num(i)]][Offset(i)] # None
      BY <1>14
  <2>1. i \in Nat /\ Num(i) \in HeldNums
        BY <1>1, <1>3, ElementFound
  <2>2. PICK k \in HeldNums, o \in Offsets : k = Num(i) /\ o = Offset(i) /\ i = Base(k) + o
        BY <2>1, NumFacts
  <2>3. elements[at[k]][o] = i
        BY <1>12, <1>15, <2>1, <2>2
  <2> QED
        BY <2>1, <2>2, <2>3, BlocksAssumption
<1>17. /\ misuse' = {} /\ elements' \in [Blocks -> [Offsets -> Nat \cup {None}]]
       /\ \A b \in Blocks : elements'[b] =
            [o \in Offsets |-> IF <<b, o>> \in places THEN None ELSE elements[b][o]]
  <2>1. elements \in [Blocks -> [Offsets -> Nat \cup {None}]] /\ misuse = {}
        BY <1>2 DEF BlockTypes
  <2>2. Destroy(places)
        BY <1>1, <1>13
  <2> QED
        BY <1>16, <2>1, <2>2, DestroyFacts
<1>18. ASSUME NEW b \in Blocks, NEW o \in Offsets, <<b, o>> \notin places
       PROVE  elements[b][o] = None
  <2>1. CASE b \in Idle
        BY <1>2, <2>1 DEF BlockTypes
  <2>2. CASE b \notin Idle
    <3>1. PICK k \in HeldNums : b = at[k]
          BY <1>3, <2>2 DEF BlocksRight
    <3>2. k \in Nat
          BY <1>3, HeldBlocks
    <3>3. PICK i \in Nat : i = Base(k) + o /\ Num(i) = k /\ Offset(i) = o
          BY <3>2, PlaceIs
    <3>4. ~ Present(i)
          BY <1>12, <1>14, <1>18, <3>1, <3>3
    <3> QED
          BY <1>15, <3>1, <3>3, <3>4
  <2> QED
        BY <2>1, <2>2
<1>19. \A b \in Blocks : elements'[b] = [o \in Offsets |-> None]
  <2> SUFFICES ASSUME NEW b \in Blocks
               PROVE  elements'[b] = [o \in Offsets |-> None]
      OBVIOUS
  <2>1. \A o \in Offsets : (IF <<b, o>> \in places THEN None ELSE elements[b][o]) = None
        BY <1>18
  <2> QED
        BY <1>17, <2>1, ZenonT(30)
<1>20. BlockTypes'
      BY <1>1, <1>2, <1>10, <1>11, <1>17, <1>19 DEF BlockTypes
<1> QED
  BY <1>1, <1>4, <1>5, <1>6, <1>7, <1>11, <1>20 DEF ImplicitInv

-------------------------------------------------------------------------------
(* The invariant *)

\* After the destructor nothing happens.
LEMMA AfterDestroy ==
  ASSUME ImplicitInv, ImplicitNext
  PROVE  alive
<1> SUFFICES ASSUME ~ alive
             PROVE  FALSE
    OBVIOUS
<1>1. producer.pc = "idle" /\ \A c \in Consumers : consumer[c].pc = "idle"
      BY DEF ImplicitInv, Quiet
<1>2. ~ EnqueueImplicit
      BY <1>1 DEF EnqueueImplicit, ImplicitEnqueue, InsertKey, GrowIndex, InsertFails, InsertTail,
           ObtainBlock, BlockFails, ConstructAll, ConstructThrows, UndoEntry, UndoBlocks, Commit
<1>3. \A c \in Consumers : ~ DequeueImplicit(c)
      BY <1>1 DEF DequeueImplicit, Look, Test, Claim, Check, GiveBack, Take, Move, ReadHeader, ReadTail,
           ReadEntry, ReadNextEntry, FlagAndCount, Unlink, FreeBlock
<1>4. ~ DestroyImplicit
      BY DEF DestroyImplicit
<1> QED
  BY <1>2, <1>3, <1>4 DEF ImplicitNext

\* Every step of the sub-queue keeps the invariant.
LEMMA ImplicitSteps ==
  ASSUME CountersInv, CountersInv', ImplicitInv, ImplicitNext
  PROVE  ImplicitInv'
<1>1. alive
      BY AfterDestroy
<1>2. ASSUME NEW n \in CallSizes, NEW canAlloc \in BOOLEAN, ImplicitEnqueue(n, canAlloc)
      PROVE  ImplicitInv'
      BY <1>1, <1>2, EnqueueStep
<1>3. CASE EnqueueImplicit
  <2>1. CASE InsertFails \/ ConstructThrows
        BY <1>1, <2>1, GiveUpStep
  <2> QED
        BY <1>1, <1>2, <1>3, <2>1, InsertKeyStep, GrowIndexStep, InsertTailStep, ObtainBlockStep,
           BlockFailsStep, ConstructStep, UndoEntryStep, UndoBlocksStep, CommitStep DEF EnqueueImplicit
<1>4. ASSUME NEW c \in Consumers, DequeueImplicit(c)
      PROVE  ImplicitInv'
  <2>1. ASSUME UNCHANGED implicitVars,
               \/ \E max \in CallSizes : Look(c, max)
               \/ Test(c) \/ Claim(c) \/ Check(c) \/ GiveBack(c)
        PROVE  ImplicitInv'
        BY <1>1, <2>1, CountingActions
  <2> QED
        BY <1>1, <1>4, <2>1, TakeElements, MoveStep, ReadHeaderStep, ReadTailStep, ReadEntryStep,
           ReadNextEntryStep, FlagStep, UnlinkStep, FreeStep DEF DequeueImplicit
<1>5. CASE DestroyImplicit
      BY <1>5, DestroyStep
<1> QED
  BY <1>3, <1>4, <1>5 DEF ImplicitNext

\* So does a step of nobody.
LEMMA ImplicitStutter ==
  ASSUME ImplicitInv, UNCHANGED <<baseVars, blockVars, implicitVars>>
  PROVE  ImplicitInv'
<1>1. UNCHANGED <<tailIndex, headIndex, tailBlock, consumer, producer, alive, elements, emptied,
                  poolVars, misuse, headers, entries>>
      BY DEF baseVars, blockVars, implicitVars, poolVars
<1>2. /\ CallInv /\ IndexTypes /\ RingsInv /\ GivenUp /\ RangesInv /\ EmptyingInv /\ BlockTypes /\ AimInv
      BY DEF ImplicitInv
<1>3. /\ CallInv' /\ IndexTypes' /\ RingsInv' /\ GivenUp'
      /\ FirstNum' = FirstNum /\ Top' = Top /\ UndoneNums' = UndoneNums /\ Nums' = Nums
      /\ Constructed' = Constructed
      BY <1>1, <1>2, ProducerFrame
<1>4. RangesInv' /\ EmptyingInv'
      BY <1>1, <1>2, ConsumerFrame
<1>5. Idle' = Idle
      BY <1>1 DEF Idle, poolVars
<1>6. AimInv' /\ BlockTypes' /\ (Quiet' <=> Quiet)
      BY <1>1, <1>2, <1>3, <1>5 DEF AimInv, BlockTypes, Quiet, poolVars
<1>7. CASE alive
  <2>1. PICK at \in [HeldNums -> Blocks] : BlocksRight(at)
        BY <1>7 DEF ImplicitInv
  <2>2. SameView
        BY <1>1, <1>3, ProducerView DEF SameView
  <2>3. ReadersRight(at)'
        BY <1>1, <2>1 DEF ReadersRight, BlocksRight
  <2>4. at \in [HeldNums' -> Blocks] /\ BlocksRight(at)'
        BY <1>1, <1>3, <2>1, <2>2, <2>3, BlocksFrame
  <2> QED
        BY <1>1, <1>3, <1>4, <1>6, <1>7, <2>4 DEF ImplicitInv
<1>8. CASE ~ alive
      BY <1>1, <1>2, <1>3, <1>4, <1>5, <1>6, <1>8 DEF ImplicitInv
<1> QED
  BY <1>7, <1>8

\* The first ring, or no index for want of memory.
LEMMA FirstRing ==
  ASSUME ImplicitInit, tailIndex = 0, producer = IdleProducer
  PROVE  IndexTypes /\ RingsInv /\ GivenUp
<1>1. UndoneNums = {} /\ Top = -1 /\ NumAtTail = -1
  <2>1. FirstNum = 0
    <3>1. tailIndex \in Nat
          OBVIOUS
    <3>2. 0 <= Base(0) /\ Base(0 - 1) < 0
      <4>1. Base(0) = 0 /\ Base(0 - 1) = Base(0) - BLOCK_SIZE
            BY BaseFacts
      <4> QED
            BY <4>1, BlockSize
    <3>3. Num(IF Offset(0) = 0 THEN 0 ELSE BlockBase(0) + BLOCK_SIZE) = 0
          BY <3>2, FirstIs
    <3> QED
          BY <3>3 DEF FirstNum, FirstBase
  <2>2. Len(producer.taken) = 0 /\ producer.pc = "idle"
        BY DEF IdleProducer
  <2> QED
        BY <2>1, <2>2 DEF UndoneNums, Top, NumAtTail
<1>2. PICK n : n = IMPLICIT_INITIAL_INDEX_SIZE
      OBVIOUS
<1>3. n \in Nat /\ n > 1
      BY <1>2, IndexAssumption
<1>4. CASE entries = <<>> /\ headers = <<>>
  <2>1. IndexTypes
        BY <1>4 DEF IndexTypes, Nums
  <2>2. producer.taken = <<>>
        BY DEF IdleProducer
  <2>3. RingsInv
        BY <1>4, <2>2 DEF RingsInv
  <2>4. GivenUp
        BY <1>4 DEF GivenUp
  <2> QED
        BY <2>1, <2>3, <2>4
<1>5. CASE /\ entries = NewEntries(n)
           /\ headers = <<[tail |-> n - 1, index |-> [i \in 0 .. n - 1 |-> i + 1]]>>
  <2>1. PICK h : h = [tail |-> n - 1, index |-> [i \in 0 .. n - 1 |-> i + 1]]
        OBVIOUS
  <2>2. h.tail = n - 1 /\ DOMAIN h.index = 0 .. n - 1 /\ \A p \in 0 .. n - 1 : h.index[p] = p + 1
        BY <2>1
  <2>3. IsRing(h, n)
    <3>1. \A i \in 0 .. n - 1 : i + 1 \in Nat
          BY <1>3
    <3>2. n - 1 \in 0 .. n - 1 /\ n \in Nat \ {0}
          BY <1>3
    <3> QED
          BY <2>1, <3>1, <3>2 DEF IsRing
  <2>4. Capacity(h) = n /\ h \in Headers
        BY <2>3, RingFacts
  <2>5. /\ headers = <<h>> /\ headers # <<>> /\ Len(headers) = 1 /\ headers[1] = h
        /\ headers \in Seq(Headers) /\ blockIndex = h
        BY <1>5, <2>1, <2>4 DEF blockIndex, Last
  <2>6. /\ Len(entries) = n /\ entries \in Seq([key : Nat, value : Blocks \cup {None, Uninit}])
        /\ \A e \in 1 .. n : entries[e].key = INVALID_BLOCK_BASE
        BY <1>3, <1>5 DEF NewEntries, INVALID_BLOCK_BASE
  <2>7. /\ DOMAIN Nums = 1 .. n /\ \A e \in 1 .. n : Nums[e] = -1
        BY <2>6 DEF Nums, NumOf
  <2>8. \A p \in 0 .. n - 1 : h.index[p] \in 1 .. n /\ Nums[h.index[p]] = -1
        BY <1>3, <2>2, <2>7
  <2>9. IndexTypes
    <3>1. \A r \in 1 .. Len(headers) : r = 1
          BY <2>5
    <3>2. \A r \in 1 .. Len(headers) : \A p \in DOMAIN headers[r].index :
            headers[r].index[p] \in 1 .. Len(entries)
          BY <2>2, <2>5, <2>6, <2>8, <3>1
    <3>3. \A e \in 1 .. Len(entries) : Nums[e] = -1
          BY <2>6, <2>7
    <3> QED
          BY <2>5, <2>6, <3>2, <3>3 DEF IndexTypes
  <2>10. NewestRing(h, Nums, -1)
    <3>1. \A p, q \in DOMAIN h.index : h.index[p] = h.index[q] => p = q
          BY <1>3, <2>2
    <3>2. \A e \in DOMAIN Nums : \E p \in DOMAIN h.index : h.index[p] = e
      <4> SUFFICES ASSUME NEW e \in 1 .. n
                   PROVE  \E p \in 0 .. n - 1 : h.index[p] = e
          BY <2>2, <2>7
      <4>1. e - 1 \in 0 .. n - 1 /\ (e - 1) + 1 = e
            BY <1>3
      <4> QED
            BY <2>2, <4>1
    <3>3. Filled(h, Nums, -1, 0, 0, 0)
      <4>1. \A p \in DOMAIN h.index : ~ (p < 0) /\ Nums[h.index[p]] = -1
            BY <1>3, <2>2, <2>8
      <4>2. -1 \in 0 - 1 .. 0 + 0 - 1
            OBVIOUS
      <4>3. Cong(-1, h.tail + 0, n)
        <5>1. -1 = (n - 1 + 0) + n * (-1)
              BY <1>3
        <5> QED
              BY <2>2, <5>1 DEF Cong
      <4>4. Cong(0, 0, n)
            BY <1>3, CongRefl
      <4> QED
            BY <2>4, <4>1, <4>2, <4>3, <4>4 DEF Filled
    <3>4. 0 \in 0 .. Capacity(h) /\ 0 \in Nat
          BY <1>3, <2>4
    <3> QED
          BY <3>1, <3>2, <3>3, <3>4 DEF NewestRing
  <2>11. RingsInv
    <3>1. producer.pc = "idle"
          BY DEF IdleProducer
    <3>2. 1 .. Len(headers) - 1 = {}
          BY <2>5
    <3> QED
          BY <1>1, <2>5, <2>10, <3>1, <3>2 DEF RingsInv
  <2>12. GivenUp
        BY <1>1, <2>6, <2>7 DEF GivenUp
  <2> QED
        BY <2>9, <2>11, <2>12
<1> QED
  BY <1>2, <1>4, <1>5 DEF ImplicitInit

\* The invariant holds at the start.
LEMMA ImplicitStart ==
  ASSUME BaseInit, ImplicitInit
  PROVE  ImplicitInv
<1>1. /\ tailIndex = 0 /\ headIndex = 0 /\ alive /\ producer = IdleProducer
      /\ consumer = [c \in Consumers |-> IdleConsumer]
      /\ unusedPool = PoolBlocks /\ freeList = {} /\ heap = HeapBlocks
      /\ elements = [b \in Blocks |-> [o \in Offsets |-> None]]
      /\ emptied = [b \in Blocks |-> {}] /\ misuse = {}
      BY DEF BaseInit, BlocksInit
<1>2. \A c \in Consumers : consumer[c].pc = "idle"
      BY <1>1 DEF IdleConsumer
<1>3. producer.pc = "idle" /\ producer.taken = <<>>
      BY <1>1 DEF IdleProducer
<1>4. CallInv
      BY <1>3 DEF CallInv, ProducerStates
<1>5. IndexTypes /\ RingsInv /\ GivenUp
      BY <1>1, FirstRing
<1>6. RangesInv /\ EmptyingInv /\ AimInv
      BY <1>2 DEF RangesInv, EmptyingInv, AimInv, Reading, Empties, Emptying
<1>7. Idle = Blocks
      BY <1>1 DEF Idle, Blocks
<1>8. BlockTypes
  <2>1. elements \in [Blocks -> [Offsets -> Nat \cup {None}]] /\ emptied \in [Blocks -> SUBSET Offsets]
        BY <1>1
  <2>2. unusedPool \subseteq Blocks /\ heap \subseteq Blocks /\ freeList \subseteq Blocks
        BY <1>1 DEF Blocks
  <2>3. \A b \in Idle : elements[b] = [o \in Offsets |-> None]
        BY <1>1, <1>7
  <2> QED
        BY <1>1, <2>1, <2>2, <2>3 DEF BlockTypes
<1>9. HeldNums = {}
  <2>1. FirstNum \in Nat /\ Base(FirstNum - 1) < 0
        BY <1>1, FirstFacts
  <2>2. FirstNum = 0
    <3>1. ~ (0 <= FirstNum - 1)
      <4>1. Base(0) = 0
            BY BaseFacts
      <4>2. ~ (Base(0) <= Base(FirstNum - 1))
            BY <2>1, <4>1, BaseFacts
      <4> QED
            BY <2>1, <4>2, BaseOrder
    <3> QED
          BY <2>1, <3>1
  <2>3. Top = -1
        BY <1>3, <2>2 DEF Top
  <2>4. 0 .. Top = {}
        BY <2>3
  <2> QED
        BY <2>4 DEF HeldNums
<1>10. PICK at : at \in [HeldNums -> Blocks]
  <2>1. [k \in {} |-> k] \in [{} -> Blocks]
        OBVIOUS
  <2> QED
        BY <1>9, <2>1
<1>11. BlocksRight(at)
      BY <1>2, <1>7, <1>9 DEF BlocksRight
<1> QED
  BY <1>1, <1>4, <1>5, <1>6, <1>8, <1>10, <1>11 DEF ImplicitInv

\* Whichever part is looked at, its first state is right.
LEMMA SubqueueStart ==
  ASSUME Init
  PROVE  CountersInv /\ SubqueueInv
<1>1. BaseInit /\ (part = "implicit" => ImplicitInit)
      BY DEF Init
<1>2. part = "implicit" => ImplicitInv
      BY <1>1, ImplicitStart
<1> QED
  BY <1>1, <1>2, CountersInit DEF SubqueueInv

\* The two invariants are kept by every step of the queue.
LEMMA SubqueueNext ==
  ASSUME CountersInv, SubqueueInv, [Next]_vars
  PROVE  CountersInv' /\ SubqueueInv'
<1>1. CountersInv'
      BY CountersNext
<1>2. part' = part
      BY DEF Next, vars
<1>3. CASE part = "implicit"
  <2>1. ImplicitInv
        BY <1>3 DEF SubqueueInv
  <2>2. CASE ImplicitNext
        BY <1>1, <1>2, <1>3, <2>1, <2>2, ImplicitSteps DEF SubqueueInv
  <2>3. CASE UNCHANGED <<baseVars, blockVars, implicitVars>>
    <3>1. ImplicitInv'
          BY <2>1, <2>3, ImplicitStutter
    <3> QED
          BY <1>1, <1>2, <1>3, <3>1 DEF SubqueueInv
  <2> QED
        BY <1>3, <2>2, <2>3 DEF Next, vars
<1>4. CASE part # "implicit" /\ part # "explicit"
  <2>1. BaseInit
        BY <1>4 DEF SubqueueInv
  <2>2. UNCHANGED <<baseVars, blockVars>>
        BY <1>4 DEF Next, vars
  <2>3. BaseInit'
        BY <2>1, <2>2 DEF BaseInit, BlocksInit, baseVars, blockVars
  <2> QED
        BY <1>1, <1>2, <1>4, <2>3 DEF SubqueueInv
<1>5. CASE part = "explicit"
      BY <1>1, <1>2, <1>5 DEF SubqueueInv
<1> QED
  BY <1>3, <1>4, <1>5

\* A consumer that has found a block finds its elements there.
LEMMA ElementsThere ==
  ASSUME CountersInv, ImplicitInv, NEW c \in Consumers, consumer[c].pc = "move"
  PROVE  /\ consumer[c].block \in Blocks
         /\ \A i \in consumer[c].index .. EndInBlock(consumer[c]) - 1 :
              elements[consumer[c].block][Offset(i)] = i
<1>1. RangesInv /\ producer.taken \in Seq(Blocks) /\ consumer[c].pc \in Reading
      BY DEF ImplicitInv, CallInv, Reading
<1>2. alive
      BY DEF ImplicitInv, Quiet
<1>3. PICK at \in [HeldNums -> Blocks] : BlocksRight(at)
      BY <1>2 DEF ImplicitInv
<1>4. PICK me : me = consumer[c]
      OBVIOUS
<1>5. me.index \in Nat /\ me.end \in Nat /\ me.index < me.end
      BY <1>1, <1>4, ReaderRange
<1>6. PICK k \in Nat : k = Num(me.index)
      BY <1>5, NumFacts
<1>7. k \in HeldNums
  <2>1. k \in Num(consumer[c].index) .. Num(consumer[c].end - 1)
        BY <1>1, <1>4, <1>6, ReaderRange
  <2> QED
        BY <1>1, <2>1, HeadTail, ReaderHolds
<1>8. at[k] \in Blocks /\ me.block = at[k] /\ BlockRight(k, at[k])
  <2>1. at[k] \in Blocks /\ BlockRight(k, at[k])
        BY <1>3, <1>7 DEF BlocksRight
  <2>2. me.block = at[k]
        BY <1>3, <1>4, <1>6 DEF BlocksRight
  <2> QED
        BY <2>1, <2>2
<1>9. elements[at[k]] = [o \in Offsets |-> IF Present(Base(k) + o) THEN Base(k) + o ELSE None]
      BY <1>8 DEF BlockRight
<1>10. ASSUME NEW i \in me.index .. EndInBlock(me) - 1
       PROVE  elements[me.block][Offset(i)] = i
  <2>1. i = Base(k) + Offset(i)
        BY <1>5, <1>6, TakenPlaces
  <2>2. EndInBlock(me) \in Nat
        BY <1>5, BlockEnd
  <2>3. i \in Nat
        BY <1>5, <2>2
  <2>4. Offset(i) \in Offsets
        BY <2>3, NumFacts
  <2>5. Present(i)
    <3>1. i \in me.index .. me.end - 1
          BY <1>1, <1>4, <2>3, SplitElements
    <3>2. UnmovedOf(me) = me.index .. me.end - 1
          BY <1>1, <1>4 DEF UnmovedOf, Emptying
    <3> QED
          BY <1>4, <3>1, <3>2 DEF Present
  <2>6. elements[at[k]][Offset(i)] =
          IF Present(Base(k) + Offset(i)) THEN Base(k) + Offset(i) ELSE None
        BY <1>9, <2>4
  <2> QED
        BY <1>8, <2>1, <2>5, <2>6
<1> QED
  BY <1>4, <1>8, <1>10

\* They give the two properties.
LEMMA SubqueueDequeues ==
  ASSUME CountersInv, SubqueueInv, part # "explicit"
  PROVE  DequeuesRight
<1>1. CASE part = "implicit"
  <2>1. ImplicitInv
        BY <1>1 DEF SubqueueInv
  <2>2. misuse = {}
        BY <2>1 DEF ImplicitInv, BlockTypes
  <2>3. ASSUME NEW c \in Consumers, consumer[c].pc = "move"
        PROVE  /\ consumer[c].block \in Blocks
               /\ \A i \in consumer[c].index .. EndInBlock(consumer[c]) - 1 :
                    elements[consumer[c].block][Offset(i)] = i
        BY <2>1, <2>3, ElementsThere
  <2> QED
        BY <2>2, <2>3 DEF DequeuesRight
<1>2. CASE BaseInit
      BY <1>2 DEF BaseInit, BlocksInit, IdleConsumer, DequeuesRight
<1> QED
  BY <1>1, <1>2 DEF SubqueueInv

\* No block is lost when nobody is in a call, and none left by the destructor.
LEMMA SubqueueBlocks ==
  ASSUME CountersInv, SubqueueInv, part # "explicit"
  PROVE  BlocksAccounted
<1>1. CASE part = "implicit"
  <2>1. ImplicitInv
        BY <1>1 DEF SubqueueInv
  <2>2. alive /\ Quiet => Blocks \ Idle = BlocksLeft
        BY <2>1, LeftBlocks
  <2>3. ~ alive => Idle = Blocks /\ \A b \in Blocks, o \in Offsets : elements[b][o] = None
        BY <2>1 DEF ImplicitInv, BlockTypes
  <2> QED
        BY <1>1, <2>2, <2>3 DEF BlocksAccounted
<1>2. CASE part # "implicit" /\ BaseInit
  <2>1. alive /\ Idle = Blocks /\ tailBlock = None
        BY <1>2 DEF BaseInit, BlocksInit, Idle, Blocks
  <2>2. ToSet(ListOfBlocks) = {}
        BY <2>1 DEF ListOfBlocks, ToSet
  <2> QED
        BY <1>2, <2>1, <2>2 DEF BlocksAccounted
<1> QED
  BY <1>1, <1>2 DEF SubqueueInv

\* However calls of a producer without a token and of any number of consumers
\* interleave, grow the index, return blocks and fill them again: a consumer
\* moves out the elements it was granted from the block that holds them, and
\* nothing is constructed over an element or destroyed where there is none.
THEOREM DequeuesRightCorrect == Spec => [](part # "explicit" => DequeuesRight)
<1>1. Init => CountersInv /\ SubqueueInv
      BY SubqueueStart
<1>2. CountersInv /\ SubqueueInv /\ [Next]_vars => CountersInv' /\ SubqueueInv'
      BY SubqueueNext
<1>3. CountersInv /\ SubqueueInv => (part # "explicit" => DequeuesRight)
      BY SubqueueDequeues
<1> QED
  BY <1>1, <1>2, <1>3, PTL DEF Spec

\* When nobody is in a call the blocks of such a producer that are not idle are
\* those its destructor returns, and after it every block is idle and every
\* element destroyed: no block is leaked or returned twice.
THEOREM BlocksAccountedCorrect == Spec => [](part # "explicit" => BlocksAccounted)
<1>1. Init => CountersInv /\ SubqueueInv
      BY SubqueueStart
<1>2. CountersInv /\ SubqueueInv /\ [Next]_vars => CountersInv' /\ SubqueueInv'
      BY SubqueueNext
<1>3. CountersInv /\ SubqueueInv => (part # "explicit" => BlocksAccounted)
      BY SubqueueBlocks
<1> QED
  BY <1>1, <1>2, <1>3, PTL DEF Spec

==============================================================================
