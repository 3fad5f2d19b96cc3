----------------------------- MODULE ReaderProofs -----------------------------
(***************************************************************************)
(* Proofs about the dequeues from an implicit producer: every step of a    *)
(* reader keeps the invariant of the sub-queue (ImplicitInv).              *)
(* ImplicitProofs goes on to the producer.                                 *)
(*                                                                         *)
(* A reader counts from the tail of a ring to the place of its block;      *)
(* since the ring is ordered it finds the entry there, in the newest ring  *)
(* or in an older one.                                                     *)
(***************************************************************************)
EXTENDS SubqueueProofs

-------------------------------------------------------------------------------
(* The elements of a consumer *)

\* A consumer's elements in the block it stands in.
LEMMA BlockEnd ==
  ASSUME NEW me, me.index \in Nat, me.end \in Nat, me.index < me.end
  PROVE  /\ EndInBlock(me) \in Nat
         /\ me.index < EndInBlock(me) /\ EndInBlock(me) <= me.end
         /\ EndInBlock(me) <= Base(Num(me.index) + 1)
         /\ EndInBlock(me) = me.end \/ EndInBlock(me) = Base(Num(me.index) + 1)
<1>1. PICK i \in Nat : i = me.index
      OBVIOUS
<1>2. PICK k \in Nat : k = Num(i) /\ BlockBase(i) = Base(k) /\ i < Base(k) + BLOCK_SIZE
      BY NumFacts
<1>3. PICK b \in Nat : b = Base(k + 1) /\ b = Base(k) + BLOCK_SIZE
      BY BaseFacts
<1>4. EndInBlock(me) = Min({me.end, b})
      BY <1>1, <1>2, <1>3 DEF EndInBlock
<1>5. Min({me.end, b}) = IF me.end <= b THEN me.end ELSE b
      BY MinOfTwo
<1> QED
  BY <1>1, <1>2, <1>3, <1>4, <1>5

\* Which are the places of the block before the end.
LEMMA TakenPlaces ==
  ASSUME NEW me, me.index \in Nat, me.end \in Nat, me.index < me.end, NEW k \in Nat, k = Num(me.index)
  PROVE  /\ \A i \in me.index .. EndInBlock(me) - 1 : Num(i) = k /\ i = Base(k) + Offset(i)
         /\ \A o \in Offsets :
              o \in OffsetsTaken(me) <=> Base(k) + o \in me.index .. EndInBlock(me) - 1
<1>1. PICK x \in Nat : x = EndInBlock(me)
      BY BlockEnd
<1>2. me.index < x /\ x <= Base(k + 1)
      BY <1>1, BlockEnd
<1>3. Base(k) <= me.index /\ Base(k) \in Nat /\ Base(k + 1) = Base(k) + BLOCK_SIZE
      BY NumFacts, BaseFacts
<1>4. ASSUME NEW i \in me.index .. x - 1
      PROVE  i \in Nat /\ Num(i) = k /\ i = Base(k) + Offset(i)
  <2>1. i \in Nat /\ Base(k) <= i /\ i < Base(k) + BLOCK_SIZE
        BY <1>2, <1>3, BlockSize
  <2>2. Num(i) = k /\ Offset(i) = i - Base(k)
        BY <2>1, NumIs
  <2> QED
        BY <1>3, <2>1, <2>2
<1>5. ASSUME NEW o \in Offsets
      PROVE  o \in OffsetsTaken(me) <=> Base(k) + o \in me.index .. x - 1
  <2>1. o \in Int
        BY BlockSize DEF Offsets
  <2>2. ASSUME o \in OffsetsTaken(me)
        PROVE  Base(k) + o \in me.index .. x - 1
    <3>1. PICK i \in me.index .. x - 1 : o = Offset(i)
          BY <1>1, <2>2 DEF OffsetsTaken
    <3> QED
          BY <1>4, <3>1
  <2>3. ASSUME Base(k) + o \in me.index .. x - 1
        PROVE  o \in OffsetsTaken(me)
    <3>1. Offset(Base(k) + o) = o
          BY PlaceIs
    <3> QED
          BY <1>1, <2>3, <3>1 DEF OffsetsTaken
  <2> QED
        BY <2>2, <2>3
<1> QED
  BY <1>1, <1>4, <1>5

\* The blocks of a consumer's elements are in use: they have elements not
\* flagged yet, or the consumer is about to return the one it stands in.
LEMMA ReaderUnflagged ==
  ASSUME RangesInv, NEW c \in Consumers, consumer[c].pc \in Reading,
         NEW n \in Num(consumer[c].index) .. Num(consumer[c].end - 1), ~ Empties(consumer[c], n)
  PROVE  \E o \in Offsets : Base(n) + o \in UnflaggedOf(consumer[c])
<1>1. PICK me : me = consumer[c]
      OBVIOUS
<1>2. me.index \in Nat /\ me.end \in Nat /\ me.index < me.end /\ me.pc \in Reading
      BY <1>1 DEF RangesInv
<1>3. PICK k \in Nat : /\ k = Num(me.index) /\ me.index = Base(k) + Offset(me.index)
                       /\ Offset(me.index) \in Offsets
      BY <1>2, NumFacts
<1>4. PICK l \in Nat : l = Num(me.end - 1) /\ Base(l) <= me.end - 1
  <2>1. me.end - 1 \in Nat
        BY <1>2
  <2> QED
        BY <2>1, NumFacts
<1>5. n \in Nat /\ k <= n /\ n <= l
      BY <1>1, <1>3, <1>4
<1>6. PICK x \in Nat : x = EndInBlock(me) /\ x <= Base(k + 1) /\ me.index < x
      BY <1>2, <1>3, BlockEnd
<1>7. CASE n = k
  <2>1. me.pc \notin Emptying
        BY <1>1, <1>3, <1>7 DEF Empties
  <2>2. me.index \in UnflaggedOf(me)
        BY <1>2, <2>1 DEF UnflaggedOf
  <2> QED
        BY <1>1, <1>3, <1>7, <2>2
<1>8. CASE n > k
  <2>1. k + 1 <= n
        BY <1>5, <1>8
  <2>2. Base(k + 1) <= Base(n) /\ Base(n) <= Base(l)
        BY <1>5, <2>1, BaseOrder
  <2>3. Base(k + 1) \in Int /\ Base(n) \in Int /\ Base(l) \in Int
        BY <1>5, BaseFacts
  <2>4. Base(n) \in (IF me.pc \in Emptying THEN x ELSE me.index) .. me.end - 1
        BY <1>2, <1>4, <1>6, <2>2, <2>3
  <2>5. Base(n) \in UnflaggedOf(me)
        BY <1>2, <1>6, <2>4 DEF UnflaggedOf
  <2>6. 0 \in Offsets /\ Base(n) + 0 = Base(n)
        BY <2>3, BlockSize DEF Offsets
  <2> QED
        BY <1>1, <2>5, <2>6
<1> QED
  BY <1>5, <1>7, <1>8

\* They are older than the call of the producer.
LEMMA ReaderBelow ==
  ASSUME CountersInv, RangesInv, headIndex <= tailIndex,
         NEW c \in Consumers, consumer[c].pc \in Reading,
         NEW n \in Num(consumer[c].index) .. Num(consumer[c].end - 1)
  PROVE  n \in Nat /\ n < FirstNum /\ FirstNum \in Nat
<1>1. /\ consumer[c].index \in Nat /\ consumer[c].end \in Nat
      /\ consumer[c].index < consumer[c].end /\ consumer[c].end <= headIndex
      BY DEF RangesInv
<1>2. tailIndex \in Nat /\ headIndex \in Nat
      BY DEF CountersInv, Shapes
<1>3. FirstNum \in Nat /\ tailIndex <= Base(FirstNum)
      BY <1>2, FirstFacts
<1>4. PICK j \in Nat : j = consumer[c].end - 1
      BY <1>1
<1>5. Num(consumer[c].index) \in Nat /\ Num(j) \in Nat /\ Base(Num(j)) <= j
      BY <1>1, NumFacts
<1>6. Base(Num(j)) \in Int /\ Base(FirstNum) \in Int
      BY <1>3, <1>5, BaseFacts
<1>7. Base(Num(j)) < Base(FirstNum)
      BY <1>1, <1>2, <1>3, <1>4, <1>5, <1>6
<1>8. Num(j) < FirstNum
      BY <1>3, <1>5, <1>7, BaseOrder
<1> QED
  BY <1>3, <1>4, <1>5, <1>8

\* The blocks a consumer needs are in use,
LEMMA ReaderHolds ==
  ASSUME CountersInv, RangesInv, headIndex <= tailIndex, producer.taken \in Seq(Blocks),
         NEW c \in Consumers, consumer[c].pc \in Reading,
         NEW n \in Num(consumer[c].index) .. Num(consumer[c].end - 1)
  PROVE  n \in HeldNums
<1>1. n \in Nat /\ n < FirstNum /\ FirstNum \in Nat
      BY ReaderBelow
<1>2. Len(producer.taken) \in Nat
      BY LenProperties
<1>3. n \in 0 .. Top
      BY <1>1, <1>2 DEF Top
<1>4. \/ \E o \in Offsets : Unflagged(Base(n) + o)
      \/ \E d \in Consumers : Empties(consumer[d], n)
      BY ReaderUnflagged DEF Unflagged
<1> QED
  BY <1>3, <1>4 DEF HeldNums

\* and in the index, unless it has just taken one out.
LEMMA ReaderIndexed ==
  ASSUME CountersInv, RangesInv, EmptyingInv, headIndex <= tailIndex,
         NEW c \in Consumers, consumer[c].pc \in Reading,
         NEW n \in Num(consumer[c].index) .. Num(consumer[c].end - 1), ~ Frees(consumer[c], n)
  PROVE  Indexed(n)
<1>1. n \in Nat /\ n < FirstNum /\ FirstNum \in Nat
      BY ReaderBelow
<1>2. n \notin UndoneNums
      BY <1>1 DEF UndoneNums
<1>3. ASSUME NEW d \in Consumers, Frees(consumer[d], n)
      PROVE  FALSE
  <2>1. Empties(consumer[d], n)
        BY <1>3 DEF Frees, Empties, Emptying
  <2>2. /\ \A o \in Offsets : ~ Unflagged(Base(n) + o)
        /\ Empties(consumer[c], n) => c = d
        BY <1>1, <2>1 DEF EmptyingInv
  <2>3. ~ Empties(consumer[c], n)
        BY <1>3, <2>2
  <2>4. \E o \in Offsets : Unflagged(Base(n) + o)
        BY <2>3, ReaderUnflagged DEF Unflagged
  <2> QED
        BY <2>2, <2>4
<1> QED
  BY <1>2, <1>3 DEF Indexed

\* The entry of the block that a consumer stands in or will come to.
LEMMA ReaderEntry ==
  ASSUME CountersInv, RangesInv, EmptyingInv, headIndex <= tailIndex, producer.taken \in Seq(Blocks),
         NEW at \in [HeldNums -> Blocks], BlocksRight(at),
         NEW c \in Consumers, consumer[c].pc \in Reading,
         NEW n \in Num(consumer[c].index) .. Num(consumer[c].end - 1), ~ Frees(consumer[c], n)
  PROVE  \E e \in 1 .. Len(entries) : Nums[e] = n /\ entries[e].value = at[n] /\ at[n] \in Blocks
<1>1. n \in HeldNums /\ Indexed(n)
      BY ReaderHolds, ReaderIndexed
<1>2. EntryRight(n, at[n])
      BY <1>1 DEF BlocksRight
<1>3. at[n] \in Blocks
      BY <1>1
<1> QED
  BY <1>1, <1>2, <1>3 DEF EntryRight

-------------------------------------------------------------------------------
(* The index as it is *)

\* Every entry has a number, or -1.
LEMMA NumsTyped ==
  ASSUME IndexTypes
  PROVE  /\ Len(entries) \in Nat /\ Numbers(Nums, Len(entries))
         /\ entries = [e \in 1 .. Len(entries) |-> entries[e]]
         /\ \A e \in 1 .. Len(entries) :
              entries[e] \in [key : Nat, value : Blocks \cup {None, Uninit}] /\ Nums[e] = NumOf(entries[e].key)
<1>1. /\ Len(entries) \in Nat /\ entries = [e \in 1 .. Len(entries) |-> entries[e]]
      /\ \A e \in 1 .. Len(entries) : entries[e] \in [key : Nat, value : Blocks \cup {None, Uninit}]
  <2>1. PICK S : S = [key : Nat, value : Blocks \cup {None, Uninit}]
        OBVIOUS
  <2>2. entries \in Seq(S)
        BY <2>1 DEF IndexTypes
  <2>3. /\ Len(entries) \in Nat /\ entries = [e \in 1 .. Len(entries) |-> entries[e]]
        /\ \A e \in 1 .. Len(entries) : entries[e] \in S
        BY <2>2
  <2> QED
        BY <2>1, <2>3
<1>2. ASSUME NEW e \in 1 .. Len(entries)
      PROVE  NumOf(entries[e].key) \in Int
  <2>1. entries[e].key \in Nat
        BY <1>1
  <2> QED
        BY <2>1, NumFacts DEF NumOf
<1> QED
  BY <1>1, <1>2 DEF Nums, Numbers

\* Every header is a ring over the entries.
LEMMA RingTyped ==
  ASSUME IndexTypes, NEW r \in 1 .. Len(headers)
  PROVE  \E n \in Nat \ {0} : RingOver(headers[r], n, Len(entries))
<1>1. headers[r] \in Headers
      BY DEF IndexTypes
<1>2. PICK n \in Nat \ {0} : IsRing(headers[r], n)
      BY <1>1, HeaderRing
<1>3. DOMAIN headers[r].index = 0 .. n - 1
      BY <1>2, RingFacts
<1>4. \A p \in 0 .. n - 1 : headers[r].index[p] \in 1 .. Len(entries)
      BY <1>3 DEF IndexTypes
<1> QED
  BY <1>2, <1>4 DEF RingOver

\* The newest header.
LEMMA LastRing ==
  ASSUME IndexTypes, headers # <<>>
  PROVE  Len(headers) \in 1 .. Len(headers) /\ blockIndex = headers[Len(headers)] /\ Len(headers) \in Nat
<1>1. headers \in Seq(Headers) /\ Len(headers) \in Nat
      BY DEF IndexTypes
<1>2. Len(headers) # 0
      BY <1>1
<1> QED
  BY <1>1, <1>2 DEF blockIndex, Last

\* Every ring is in the order of the blocks.
LEMMA RingsOrdered ==
  ASSUME IndexTypes, RingsInv, NEW r \in 1 .. Len(headers)
  PROVE  Ordered(headers[r], Nums)
<1>1. headers # <<>>
      BY DEF IndexTypes
<1>2. Len(headers) \in Nat /\ blockIndex = headers[Len(headers)]
      BY <1>1, LastRing
<1>3. CASE r = Len(headers)
  <2>1. NewestRing(headers[r], Nums, NumAtTail)
        BY <1>1, <1>2, <1>3 DEF RingsInv
  <2>2. \E n \in Nat \ {0} : IsRing(headers[r], n)
        BY RingTyped DEF RingOver
  <2> QED
        BY <2>1, <2>2, NewestOrdered
<1>4. CASE r # Len(headers)
  <2>1. OlderRing(headers[r], blockIndex, Nums)
        BY <1>1, <1>2, <1>4 DEF RingsInv
  <2> QED
        BY <2>1, OlderOrdered
<1> QED
  BY <1>3, <1>4

\* The quotient of get_block_index_index_for_index.
LEMMA BaseDiv ==
  ASSUME NEW j \in Int, NEW k \in Int
  PROVE  (Base(j) - Base(k)) \div BLOCK_SIZE = j - k
<1>1. PICK b \in Nat \ {0} : b = BLOCK_SIZE
      BY BlockSize
<1>2. PICK d \in Int : d = j - k
      OBVIOUS
<1>3. Base(j) - Base(k) = b * d
  <2>1. Base(j - k) = Base(j) - Base(k)
        BY BaseSum
  <2> QED
        BY <1>1, <1>2, <2>1 DEF Base
<1>4. (b * d) \div b = d
  <2>1. PICK x \in Int : x = b * d
        OBVIOUS
  <2>2. x \div b \in Int /\ x % b \in 0 .. b - 1 /\ x = b * (x \div b) + (x % b)
        BY Z3
  <2>3. PICK q \in Int : q = x \div b
        BY <2>2
  <2>4. PICK m \in 0 .. b - 1 : m = x % b
        BY <2>2
  <2>5. b * d = b * q + m
        BY <2>1, <2>2, <2>3, <2>4
  <2>6. CASE d = q
        BY <2>1, <2>3, <2>6
  <2>7. CASE d > q
    <3>1. PICK z \in Nat : z = d - q - 1
          BY <2>7
    <3>2. b * (q + 1 + z) = b * q + b + b * z /\ b * z \in Nat /\ b * q \in Int
          BY Z3
    <3>3. d = q + 1 + z
          BY <3>1
    <3> QED
          BY <2>4, <2>5, <3>2, <3>3
  <2>8. CASE d < q
    <3>1. PICK z \in Nat : z = q - d - 1
          BY <2>8
    <3>2. b * (d + 1 + z) = b * d + b + b * z /\ b * z \in Nat /\ b * d \in Int
          BY Z3
    <3>3. q = d + 1 + z
          BY <3>1
    <3> QED
          BY <2>4, <2>5, <3>2, <3>3
  <2> QED
        BY <2>6, <2>7, <2>8
<1> QED
  BY <1>1, <1>2, <1>3, <1>4

\* The entry at which the index of an element is looked for, seen from a place
\* of the ring that has been used.
LEMMA Position ==
  ASSUME IndexTypes, RingsInv, NEW r \in 1 .. Len(headers), NEW i \in Nat,
         NEW mark \in DOMAIN headers[r].index, NEW p \in DOMAIN headers[r].index,
         Nums[headers[r].index[mark]] # -1, Nums[headers[r].index[p]] = Num(i)
  PROVE  PositionOf(i, headers[r], mark) = p
<1>1. PICK n \in Nat \ {0} : RingOver(headers[r], n, Len(entries))
      BY RingTyped
<1>2. PICK h : h = headers[r]
      OBVIOUS
<1>3. /\ DOMAIN h.index = 0 .. n - 1 /\ Capacity(h) = n /\ IsRing(h, n)
      /\ \A q \in DOMAIN h.index : h.index[q] \in 1 .. Len(entries) /\ Nums[h.index[q]] \in Int
  <2>1. RingOver(h, n, Len(entries)) /\ Numbers(Nums, Len(entries))
        BY <1>1, <1>2, NumsTyped
  <2>2. IsRing(h, n)
        BY <2>1 DEF RingOver
  <2>3. /\ DOMAIN h.index = 0 .. n - 1 /\ Capacity(h) = n
        /\ \A q \in 0 .. n - 1 : h.index[q] \in 1 .. Len(entries) /\ Nums[h.index[q]] \in Int
        BY <2>1, NumberAt
  <2> QED
        BY <2>2, <2>3
<1>4. PICK e \in 1 .. Len(entries) : e = h.index[mark]
      BY <1>2, <1>3
<1>5. PICK m \in Int : m = Nums[e] /\ m # -1
      BY <1>2, <1>3, <1>4
<1>6. entries[e].key = Base(m)
      BY <1>4, <1>5 DEF IndexTypes
<1>7. PICK k \in Nat : k = Num(i) /\ BlockBase(i) = Base(k)
      BY NumFacts
<1>8. (BlockBase(i) - entries[e].key) \div BLOCK_SIZE = k - m
      BY <1>6, <1>7, BaseDiv
<1>9. PositionOf(i, h, mark) = (mark + (k - m)) % n
      BY <1>3, <1>4, <1>8 DEF PositionOf
<1>10. Ordered(h, Nums)
      BY <1>2, RingsOrdered
<1>11. (mark + (Nums[h.index[p]] - Nums[h.index[mark]])) % n = p
  <2>1. IsRing(h, n)
        BY <1>3
  <2>2. \A q \in DOMAIN h.index : Nums[h.index[q]] \in Int
        BY <1>3
  <2>3. Nums[h.index[mark]] # -1 /\ Nums[h.index[p]] # -1
        BY <1>2, <1>4, <1>5, <1>7
  <2>4. mark \in DOMAIN h.index /\ p \in DOMAIN h.index
        BY <1>2
  <2> QED
        BY <1>10, <2>1, <2>2, <2>3, <2>4, SeekPlace
<1> QED
  BY <1>2, <1>4, <1>5, <1>7, <1>9, <1>11

\* An entry of the index is in the newest ring.
LEMMA EntryPlace ==
  ASSUME IndexTypes, RingsInv, NEW e \in 1 .. Len(entries)
  PROVE  headers # <<>> /\ \E p \in DOMAIN blockIndex.index : blockIndex.index[p] = e
<1>1. headers # <<>>
      BY DEF IndexTypes, RingsInv
<1>2. DOMAIN Nums = 1 .. Len(entries)
      BY DEF Nums
<1> QED
  BY <1>1, <1>2 DEF RingsInv, NewestRing

\* The entries differ in their blocks.
LEMMA EntryOf ==
  ASSUME IndexTypes, RingsInv, NEW e \in 1 .. Len(entries), NEW f \in 1 .. Len(entries),
         Nums[e] = Nums[f], Nums[e] # -1
  PROVE  e = f
<1>1. headers # <<>> /\ NewestRing(blockIndex, Nums, NumAtTail)
      BY EntryPlace DEF RingsInv
<1>2. Len(headers) \in 1 .. Len(headers) /\ blockIndex = headers[Len(headers)]
      BY <1>1, LastRing
<1>3. PICK n \in Nat \ {0} : RingOver(blockIndex, n, Len(entries))
      BY <1>2, RingTyped
<1> QED
  BY <1>1, <1>3, NumsTyped, OneEntry

\* The tail points to the entry of its block if there is one.
LEMMA TailEntry ==
  ASSUME NEW h, NEW n, NEW N, RingOver(h, n, N), NEW nums, Numbers(nums, N), NEW t \in Int,
         NewestRing(h, nums, t), NEW e \in 1 .. N, nums[e] = t, t # -1
  PROVE  h.tail \in DOMAIN h.index /\ h.index[h.tail] = e
<1>1. /\ DOMAIN h.index = 0 .. n - 1 /\ Capacity(h) = n /\ n \in Nat \ {0} /\ IsRing(h, n)
      /\ DOMAIN nums = 1 .. N /\ h.tail \in 0 .. n - 1
      BY NumberAt, RingFacts DEF RingOver, Numbers
<1>2. PICK v \in 0 .. n, low \in Nat, off \in Nat : Filled(h, nums, t, v, low, off)
      BY <1>1 DEF NewestRing
<1>3. PICK q \in 0 .. n - 1 : h.index[q] = e
      BY <1>1 DEF NewestRing
<1>4. t \in low .. low + v - 1
      BY <1>1, <1>2, <1>3 DEF Filled
<1>5. PICK x \in 0 .. n - 1 : x = h.tail
      BY <1>1
<1>6. Cong(t, x + off, n)
      BY <1>1, <1>2, <1>5 DEF Filled
<1>7. t \in low .. low + v /\ t < low + v
      BY <1>4
<1>8. nums[h.index[x]] = t
  <2>1. IsRing(h, n)
        BY <1>1
  <2> QED
        BY <2>1, <1>2, <1>6, <1>7, FilledPlace
<1>9. h.index[x] = e
  <2>1. h.index[x] \in 1 .. N
        BY NumberAt
  <2> QED
        BY <1>8, <2>1, OneEntry
<1> QED
  BY <1>1, <1>5, <1>9

\* The tail's place is used if the tail's block is not older than one that has
\* an entry.
LEMMA TailUsed ==
  ASSUME NEW h, NEW n, NEW N, RingOver(h, n, N), NEW nums, Numbers(nums, N), NEW t \in Int,
         NewestRing(h, nums, t), NEW e \in 1 .. N, nums[e] # -1, nums[e] <= t
  PROVE  h.tail \in DOMAIN h.index /\ nums[h.index[h.tail]] = t
<1>1. /\ DOMAIN h.index = 0 .. n - 1 /\ Capacity(h) = n /\ n \in Nat \ {0} /\ IsRing(h, n)
      /\ DOMAIN nums = 1 .. N /\ h.tail \in 0 .. n - 1
      BY NumberAt, RingFacts DEF RingOver, Numbers
<1>2. PICK v \in 0 .. n, low \in Nat, off \in Nat : Filled(h, nums, t, v, low, off)
      BY <1>1 DEF NewestRing
<1>3. PICK q \in 0 .. n - 1 : h.index[q] = e
      BY <1>1 DEF NewestRing
<1>4. nums[e] \in low .. low + v - 1
      BY <1>1, <1>2, <1>3 DEF Filled
<1>5. t \in low - 1 .. low + v - 1
      BY <1>1, <1>2 DEF Filled
<1>6. PICK x \in 0 .. n - 1 : x = h.tail
      BY <1>1
<1>7. Cong(t, x + off, n)
      BY <1>1, <1>2, <1>6 DEF Filled
<1>8. t \in low .. low + v /\ t < low + v
  <2>1. PICK y \in Int : y = nums[e]
        BY <1>4
  <2> QED
        BY <1>4, <1>5, <2>1
<1>9. nums[h.index[x]] = t
  <2>1. IsRing(h, n)
        BY <1>1
  <2> QED
        BY <2>1, <1>2, <1>7, <1>8, FilledPlace
<1> QED
  BY <1>1, <1>6, <1>9

-------------------------------------------------------------------------------
(* What a step leaves alone *)

SameFlags == \A i \in Nat : Unflagged(i)' <=> Unflagged(i)
SamePresent == \A i \in Nat : Present(i)' <=> Present(i)
SameEmptying == \A c \in Consumers, k \in Nat : Empties(consumer[c], k)' <=> Empties(consumer[c], k)
SameFreeing == \A c \in Consumers, k \in Nat : Frees(consumer[c], k)' <=> Frees(consumer[c], k)
SameView == SameFlags /\ SamePresent /\ SameEmptying /\ SameFreeing

\* A step of the producer.
LEMMA ProducerView ==
  ASSUME consumer' = consumer, headIndex' = headIndex
  PROVE  /\ SameFlags /\ SameEmptying /\ SameFreeing
         /\ Constructed' = Constructed => SamePresent
<1>1. SameFlags
      BY DEF SameFlags, Unflagged
<1>2. SameEmptying /\ SameFreeing
      BY DEF SameEmptying, SameFreeing
<1>3. Constructed' = Constructed => SamePresent
      BY DEF SamePresent, Present
<1> QED
  BY <1>1, <1>2, <1>3

\* A step of a consumer that reads.
LEMMA ReaderView ==
  ASSUME NEW c \in Consumers, \A d \in Consumers \ {c} : consumer'[d] = consumer[d],
         headIndex' = headIndex, Constructed' = Constructed,
         UnflaggedOf(consumer'[c]) = UnflaggedOf(consumer[c]),
         UnmovedOf(consumer'[c]) = UnmovedOf(consumer[c]),
         consumer'[c].pc \notin Emptying, consumer[c].pc \notin Emptying
  PROVE  SameView
<1>1. \A d \in Consumers : /\ UnflaggedOf(consumer'[d]) = UnflaggedOf(consumer[d])
                           /\ UnmovedOf(consumer'[d]) = UnmovedOf(consumer[d])
  <2> SUFFICES ASSUME NEW d \in Consumers
               PROVE  /\ UnflaggedOf(consumer'[d]) = UnflaggedOf(consumer[d])
                      /\ UnmovedOf(consumer'[d]) = UnmovedOf(consumer[d])
      OBVIOUS
  <2>1. CASE d = c
        BY <2>1
  <2>2. CASE d # c
    <3>1. consumer'[d] = consumer[d]
          BY <2>2
    <3> QED
          BY <3>1
  <2> QED
        BY <2>1, <2>2
<1>2. SameFlags
      BY <1>1 DEF SameFlags, Unflagged
<1>3. SamePresent
      BY <1>1 DEF SamePresent, Present
<1>4. ASSUME NEW d \in Consumers, NEW k \in Nat
      PROVE  /\ Empties(consumer'[d], k) <=> Empties(consumer[d], k)
             /\ Frees(consumer'[d], k) <=> Frees(consumer[d], k)
  <2>1. CASE d = c
    <3>1. ~ Empties(consumer'[c], k) /\ ~ Empties(consumer[c], k)
          BY DEF Empties
    <3>2. ~ Frees(consumer'[c], k) /\ ~ Frees(consumer[c], k)
          BY DEF Frees, Emptying
    <3> QED
          BY <2>1, <3>1, <3>2
  <2>2. CASE d # c
    <3>1. consumer'[d] = consumer[d]
          BY <2>2
    <3> QED
          BY <3>1
  <2> QED
        BY <2>1, <2>2
<1>5. SameEmptying /\ SameFreeing
      BY <1>4 DEF SameEmptying, SameFreeing
<1> QED
  BY <1>2, <1>3, <1>5 DEF SameView

\* What the state of the producer decides.
LEMMA ProducerFrame ==
  ASSUME CallInv, IndexTypes, RingsInv, GivenUp,
         UNCHANGED <<producer, tailBlock, tailIndex, headers, entries>>
  PROVE  /\ CallInv' /\ IndexTypes' /\ RingsInv' /\ GivenUp'
         /\ FirstNum' = FirstNum /\ Top' = Top /\ UndoneNums' = UndoneNums /\ Nums' = Nums
         /\ Constructed' = Constructed
<1>1. FirstNum' = FirstNum
      BY DEF FirstNum, FirstBase
<1>2. Top' = Top
      BY <1>1 DEF Top
<1>3. UndoneNums' = UndoneNums /\ NumAtTail' = NumAtTail /\ Constructed' = Constructed
      BY <1>1, <1>2 DEF UndoneNums, NumAtTail, Constructed
<1>4. Nums' = Nums
      BY DEF Nums
<1>5. CallInv'
      BY <1>1, <1>2 DEF CallInv
<1>6. IndexTypes'
      BY <1>4 DEF IndexTypes
<1>7. RingsInv'
      BY <1>2, <1>3, <1>4 DEF RingsInv, blockIndex, NewTail
<1>8. GivenUp'
      BY <1>2, <1>3, <1>4 DEF GivenUp
<1> QED
  BY <1>1, <1>2, <1>3, <1>4, <1>5, <1>6, <1>7, <1>8

\* A step of the producer leaves what is known of the consumers.
LEMMA ConsumerFrame ==
  ASSUME RangesInv, EmptyingInv, consumer' = consumer, headIndex' = headIndex
  PROVE  RangesInv' /\ EmptyingInv'
<1>1. RangesInv'
      BY DEF RangesInv
<1>2. \A i : Unflagged(i)' = Unflagged(i)
      BY DEF Unflagged
<1>3. EmptyingInv'
      BY <1>2 DEF EmptyingInv
<1> QED
  BY <1>1, <1>3

\* A step that flags nothing leaves who returns which block.
LEMMA EmptyingFrame ==
  ASSUME EmptyingInv, SameFlags, SameEmptying
  PROVE  EmptyingInv'
<1>1. SUFFICES ASSUME NEW c \in Consumers, NEW k \in Nat, Empties(consumer[c], k)'
               PROVE  /\ \A o \in Offsets : ~ Unflagged(Base(k) + o)'
                      /\ \A d \in Consumers : Empties(consumer[d], k)' => d = c
      BY DEF EmptyingInv
<1>2. Empties(consumer[c], k)
      BY <1>1 DEF SameEmptying
<1>3. /\ \A o \in Offsets : ~ Unflagged(Base(k) + o)
      /\ \A d \in Consumers : Empties(consumer[d], k) => d = c
      BY <1>2 DEF EmptyingInv
<1>4. \A o \in Offsets : Base(k) + o \in Nat
      BY PlaceIs
<1> QED
  BY <1>3, <1>4 DEF SameFlags, SameEmptying

\* The blocks of the producer are numbered.
LEMMA TopType ==
  ASSUME tailIndex \in Nat, producer.taken \in Seq(Blocks)
  PROVE  FirstNum \in Nat /\ Len(producer.taken) \in Nat /\ Top \in Int /\ Top >= FirstNum - 1
<1>1. FirstNum \in Nat
      BY FirstFacts
<1>2. Len(producer.taken) \in Nat
      BY LenProperties
<1> QED
  BY <1>1, <1>2 DEF Top

\* A step that flags nothing leaves which blocks are in use.
LEMMA HeldFrame ==
  ASSUME SameFlags, SameEmptying, Top' = Top
  PROVE  HeldNums' = HeldNums
<1>1. \A k \in Nat, o \in Offsets : Base(k) + o \in Nat
      BY PlaceIs
<1>2. \A k \in Nat : /\ \A o \in Offsets : Unflagged(Base(k) + o)' <=> Unflagged(Base(k) + o)
                     /\ \A c \in Consumers : Empties(consumer[c], k)' <=> Empties(consumer[c], k)
      BY <1>1 DEF SameFlags, SameEmptying
<1>3. \A k \in 0 .. Top : k \in Nat
      OBVIOUS
<1> QED
  BY <1>2, <1>3 DEF HeldNums

\* The blocks as the producer and the pool know them.
LEMMA BlockFrame ==
  ASSUME NEW k \in Nat, NEW b, BlockRight(k, b), SameFlags, SamePresent,
         UNCHANGED <<elements, emptied, tailBlock, producer>>, FirstNum' = FirstNum
  PROVE  BlockRight(k, b)'
<1>1. \A o \in Offsets : Base(k) + o \in Nat
      BY PlaceIs
<1>2. \A o \in Offsets : /\ Unflagged(Base(k) + o)' <=> Unflagged(Base(k) + o)
                         /\ Present(Base(k) + o)' <=> Present(Base(k) + o)
      BY <1>1 DEF SameFlags, SamePresent
<1>3. [o \in Offsets |-> IF Present(Base(k) + o)' THEN Base(k) + o ELSE None]
        = [o \in Offsets |-> IF Present(Base(k) + o) THEN Base(k) + o ELSE None]
      BY <1>2
<1>4. {o \in Offsets : ~ Unflagged(Base(k) + o)'} = {o \in Offsets : ~ Unflagged(Base(k) + o)}
      BY <1>2
<1> QED
  BY <1>3, <1>4 DEF BlockRight

\* What keeps the entry of a block right.
LEMMA EntryFrame ==
  ASSUME NEW k \in Nat, NEW b, EntryRight(k, b), SameFreeing, UndoneNums' = UndoneNums,
         entries' = entries
  PROVE  EntryRight(k, b)'
<1>1. Indexed(k)' <=> Indexed(k)
      BY DEF SameFreeing, Indexed
<1>2. Nums' = Nums
      BY DEF Nums
<1> QED
  BY <1>1, <1>2 DEF EntryRight

\* The part of BlocksRight about the consumers.
ReadersRight(at) ==
  \A c \in Consumers : consumer[c].pc \in {"move", "flag", "unlink", "free"} =>
    consumer[c].block = at[Num(consumer[c].index)]

\* A step of a consumer that only reads.
LEMMA BlocksFrame ==
  ASSUME NEW at \in [HeldNums -> Blocks], BlocksRight(at), SameView, Top' = Top, FirstNum' = FirstNum,
         UndoneNums' = UndoneNums,
         UNCHANGED <<elements, emptied, tailBlock, producer, entries, poolVars>>,
         ReadersRight(at)'
  PROVE  at \in [HeldNums' -> Blocks] /\ BlocksRight(at)'
<1>0. SameFlags /\ SamePresent /\ SameEmptying /\ SameFreeing
      BY DEF SameView
<1>1. HeldNums' = HeldNums
      BY <1>0, HeldFrame
<1>2. Idle' = Idle
      BY DEF Idle, poolVars
<1>3. \A k \in HeldNums : k \in Nat
      BY DEF HeldNums
<1>4. \A k \in HeldNums : BlockRight(k, at[k])'
  <2> SUFFICES ASSUME NEW k \in HeldNums
               PROVE  BlockRight(k, at[k])'
      OBVIOUS
  <2>1. k \in Nat /\ BlockRight(k, at[k])
        BY <1>3 DEF BlocksRight
  <2> QED
        BY <1>0, <2>1, BlockFrame
<1>5. \A k \in HeldNums : EntryRight(k, at[k])'
  <2> SUFFICES ASSUME NEW k \in HeldNums
               PROVE  EntryRight(k, at[k])'
      OBVIOUS
  <2>1. k \in Nat /\ EntryRight(k, at[k])
        BY <1>3 DEF BlocksRight
  <2> QED
        BY <1>0, <2>1, EntryFrame
<1> QED
  BY <1>1, <1>2, <1>4, <1>5 DEF BlocksRight, ReadersRight

-------------------------------------------------------------------------------
(* Steps of a consumer *)

\* Head and tail of the sub-queue.
LEMMA HeadTail ==
  ASSUME CountersInv
  PROVE  headIndex \in Nat /\ tailIndex \in Nat /\ headIndex <= tailIndex
<1>1. Shapes /\ \A c \in Consumers : CountsOf(consumer[c])
      BY DEF CountersInv
<1>2. Total(Due(0)) \in Nat
      BY <1>1, SharesType, TotalType
<1>3. headIndex \in Nat /\ tailIndex \in Nat /\ headIndex + Total(Due(0)) <= tailIndex
      BY <1>1 DEF CountersInv, Shapes
<1> QED
  BY <1>2, <1>3

\* What a consumer is about to take is there.
LEMMA TakenBelow ==
  ASSUME CountersInv, NEW c \in Consumers, consumer[c].pc = "take"
  PROVE  headIndex + consumer[c].end <= tailIndex
<1>1. Shapes /\ \A d \in Consumers : CountsOf(consumer[d])
      BY DEF CountersInv
<1>2. consumer[c].end \in Nat
      BY <1>1 DEF CountsOf
<1>3. PICK f \in [Consumers -> Nat] : \A d \in Consumers : f[d] = 0
  <2>1. [d \in Consumers |-> 0] \in [Consumers -> Nat]
        OBVIOUS
  <2> QED
        BY <2>1
<1>4. PICK g \in [Consumers -> Nat] : g = Due(0) /\ g[c] = consumer[c].end
  <2>1. Due(0) \in [Consumers -> Nat] /\ Due(0)[c] = DueOf(consumer[c], 0)
        BY <1>1, SharesType
  <2>2. DueOf(consumer[c], 0) = consumer[c].end
        BY DEF DueOf
  <2> QED
        BY <2>1, <2>2
<1>5. Total(f) = 0 /\ Total(g) \in Nat
      BY <1>3, TotalNone, TotalType
<1>6. \A d \in Consumers \ {c} : f[d] <= g[d]
      BY <1>3
<1>7. Total(f) + g[c] <= Total(g) + f[c]
      BY <1>6, TotalCompare
<1>8. consumer[c].end <= Total(g)
      BY <1>2, <1>3, <1>4, <1>5, <1>7
<1>9. headIndex + Total(g) <= tailIndex /\ headIndex \in Nat /\ tailIndex \in Nat
      BY <1>1, <1>4 DEF CountersInv, Shapes
<1> QED
  BY <1>2, <1>5, <1>8, <1>9

\* A step of one consumer that keeps its elements, drops some, or takes new ones.
LEMMA RangesStep ==
  ASSUME RangesInv, NEW c \in Consumers, \A d \in Consumers \ {c} : consumer'[d] = consumer[d],
         headIndex \in Nat, headIndex' \in Nat, headIndex <= headIndex',
         NEW w, consumer'[c] = w,
         w.pc \in Reading \cup {"idle", "test", "claim", "check", "give_back", "take"},
         w.pc \in Reading =>
           /\ w.index \in Nat /\ w.end \in Nat /\ w.index < w.end /\ w.end <= headIndex'
           /\ \/ consumer[c].pc \in Reading /\ consumer[c].index <= w.index /\ w.end = consumer[c].end
              \/ headIndex <= w.index
           /\ w.pc = "next" => Offset(w.index) = 0
  PROVE  RangesInv'
<1>1. ASSUME NEW d \in Consumers
      PROVE  /\ consumer'[d].pc \in Reading \cup {"idle", "test", "claim", "check", "give_back", "take"}
             /\ consumer'[d].pc \in Reading =>
                  /\ consumer'[d].index \in Nat /\ consumer'[d].end \in Nat
                  /\ consumer'[d].index < consumer'[d].end /\ consumer'[d].end <= headIndex'
             /\ consumer'[d].pc = "next" => Offset(consumer'[d].index) = 0
  <2>1. CASE d = c
        BY <2>1 DEF Reading
  <2>2. CASE d # c
    <3>1. consumer'[d] = consumer[d]
          BY <2>2
    <3> QED
          BY <3>1 DEF RangesInv
  <2> QED
        BY <2>1, <2>2
<1>2. ASSUME NEW d \in Consumers \ {c}, w.pc \in Reading, consumer[d].pc \in Reading
      PROVE  w.end <= consumer[d].index \/ consumer[d].end <= w.index
  <2>1. /\ consumer[d].index \in Nat /\ consumer[d].end \in Nat
        /\ consumer[d].end <= headIndex
        BY <1>2 DEF RangesInv
  <2>2. CASE headIndex <= w.index
        BY <1>2, <2>1, <2>2
  <2>3. CASE consumer[c].pc \in Reading /\ consumer[c].index <= w.index /\ w.end = consumer[c].end
    <3>1. \/ consumer[c].end <= consumer[d].index
          \/ consumer[d].end <= consumer[c].index
          BY <1>2, <2>3 DEF RangesInv
    <3>2. consumer[c].index \in Nat
          BY <2>3 DEF RangesInv
    <3> QED
          BY <1>2, <2>1, <2>3, <3>1, <3>2
  <2> QED
        BY <1>2, <2>2, <2>3
<1>3. ASSUME NEW a \in Consumers, NEW b \in Consumers, a # b,
             consumer'[a].pc \in Reading, consumer'[b].pc \in Reading
      PROVE  consumer'[a].end <= consumer'[b].index \/ consumer'[b].end <= consumer'[a].index
  <2>1. CASE a = c
    <3>1. consumer'[b] = consumer[b] /\ b \in Consumers \ {c}
          BY <1>3, <2>1
    <3> QED
          BY <1>2, <1>3, <2>1, <3>1
  <2>2. CASE b = c
    <3>1. consumer'[a] = consumer[a] /\ a \in Consumers \ {c}
          BY <1>3, <2>2
    <3> QED
          BY <1>2, <1>3, <2>2, <3>1
  <2>3. CASE a # c /\ b # c
    <3>1. consumer'[a] = consumer[a] /\ consumer'[b] = consumer[b]
          BY <2>3
    <3> QED
          BY <1>3, <3>1 DEF RangesInv
  <2> QED
        BY <2>1, <2>2, <2>3
<1> QED
  BY <1>1, <1>3 DEF RangesInv

\* A step of one consumer that leaves the index alone.
LEMMA AimStep ==
  ASSUME AimInv, NEW c \in Consumers, \A d \in Consumers \ {c} : consumer'[d] = consumer[d],
         headers' = headers, Nums' = Nums,
         consumer'[c].pc \in Reading \ {"header"} => AimRight(consumer'[c], headers, Nums)
  PROVE  AimInv'
<1>1. SUFFICES ASSUME NEW d \in Consumers, consumer'[d].pc \in Reading \ {"header"}
               PROVE  AimRight(consumer'[d], headers, Nums)
      BY DEF AimInv
<1>2. CASE d = c
      BY <1>1, <1>2
<1>3. CASE d # c
  <2>1. consumer'[d] = consumer[d]
        BY <1>3
  <2> QED
        BY <1>1, <2>1 DEF AimInv
<1> QED
  BY <1>2, <1>3

\* What a step of consumer c has to show that changes nothing of what the
\* consumers have still to do.
LEMMA ViewStep ==
  ASSUME CountersInv, ImplicitInv, alive,
         NEW c \in Consumers, \A d \in Consumers \ {c} : consumer'[d] = consumer[d],
         UNCHANGED <<tailIndex, tailBlock, producer, alive, blockVars, implicitVars>>,
         RangesInv', SameView,
         consumer'[c].pc \in Reading \ {"header"} => AimRight(consumer'[c], headers, Nums),
         \A at \in [HeldNums -> Blocks] : BlocksRight(at) =>
           (consumer'[c].pc \in {"move", "flag", "unlink", "free"} =>
              consumer'[c].block = at[Num(consumer'[c].index)])
  PROVE  ImplicitInv'
<1>1. UNCHANGED <<elements, emptied, tailBlock, producer, entries, poolVars, headers, misuse, tailIndex>>
      BY DEF blockVars, implicitVars, poolVars
<1>2. /\ CallInv' /\ IndexTypes' /\ RingsInv' /\ GivenUp'
      /\ FirstNum' = FirstNum /\ Top' = Top /\ UndoneNums' = UndoneNums /\ Nums' = Nums
      BY <1>1, ProducerFrame DEF ImplicitInv
<1>4. EmptyingInv'
      BY EmptyingFrame DEF ImplicitInv, SameView
<1>5. BlockTypes'
      BY <1>1 DEF ImplicitInv, BlockTypes, Idle, poolVars
<1>6. AimInv'
      BY <1>1, <1>2, AimStep DEF ImplicitInv
<1>7. \E at \in [HeldNums' -> Blocks] : BlocksRight(at)'
  <2>1. PICK at \in [HeldNums -> Blocks] : BlocksRight(at)
        BY DEF ImplicitInv
  <2>2. ASSUME NEW d \in Consumers, consumer'[d].pc \in {"move", "flag", "unlink", "free"}
        PROVE  consumer'[d].block = at[Num(consumer'[d].index)]
    <3>1. CASE d = c
          BY <2>1, <2>2, <3>1
    <3>2. CASE d # c
      <4>1. consumer'[d] = consumer[d]
            BY <3>2
      <4> QED
            BY <2>1, <2>2, <4>1 DEF BlocksRight
    <3> QED
          BY <3>1, <3>2
  <2>3. ReadersRight(at)'
        BY <2>2 DEF ReadersRight
  <2>4. at \in [HeldNums' -> Blocks] /\ BlocksRight(at)'
        BY <1>1, <1>2, <2>1, <2>3, BlocksFrame
  <2> QED
        BY <2>4
<1> QED
  BY <1>2, <1>4, <1>5, <1>6, <1>7 DEF ImplicitInv

\* One that only reads.
LEMMA ReadingStep ==
  ASSUME CountersInv, ImplicitInv, alive,
         NEW c \in Consumers, \A d \in Consumers \ {c} : consumer'[d] = consumer[d],
         UNCHANGED <<headIndex, tailIndex, tailBlock, producer, alive, blockVars, implicitVars>>,
         RangesInv', consumer'[c].pc \notin Emptying, consumer[c].pc \notin Emptying,
         UnflaggedOf(consumer'[c]) = UnflaggedOf(consumer[c]),
         UnmovedOf(consumer'[c]) = UnmovedOf(consumer[c]),
         consumer'[c].pc \in Reading \ {"header"} => AimRight(consumer'[c], headers, Nums),
         \A at \in [HeldNums -> Blocks] : BlocksRight(at) =>
           (consumer'[c].pc \in {"move", "flag", "unlink", "free"} =>
              consumer'[c].block = at[Num(consumer'[c].index)])
  PROVE  ImplicitInv'
<1>1. headIndex' = headIndex /\ Constructed' = Constructed
      BY DEF Constructed
<1>2. SameView
      BY <1>1, ReaderView
<1> QED
  BY <1>2, ViewStep

\* A consumer that counts: Look, Test, Claim, Check, GiveBack.
LEMMA CountingStep ==
  ASSUME CountersInv, CountersInv', ImplicitInv, alive,
         NEW c \in Consumers, \A d \in Consumers \ {c} : consumer'[d] = consumer[d],
         UNCHANGED <<headIndex, tailIndex, tailBlock, producer, alive, blockVars, implicitVars>>,
         consumer[c].pc \in {"idle", "test", "claim", "check", "give_back", "take"},
         consumer'[c].pc \in {"idle", "test", "claim", "check", "give_back", "take"}
  PROVE  ImplicitInv'
<1>1. consumer[c].pc \notin Reading /\ consumer'[c].pc \notin Reading
      BY DEF Reading
<1>2. /\ UnflaggedOf(consumer'[c]) = UnflaggedOf(consumer[c])
      /\ UnmovedOf(consumer'[c]) = UnmovedOf(consumer[c])
      BY <1>1 DEF UnflaggedOf, UnmovedOf
<1>3. /\ consumer'[c].pc \notin Emptying /\ consumer[c].pc \notin Emptying
      /\ consumer'[c].pc \notin {"move", "flag", "unlink", "free"}
      BY <1>1 DEF Emptying, Reading
<1>4. RangesInv'
  <2>1. headIndex \in Nat /\ headIndex' \in Nat /\ headIndex <= headIndex'
        BY HeadTail
  <2>2. RangesInv
        BY DEF ImplicitInv
  <2> QED
        BY <1>1, <2>1, <2>2, RangesStep
<1> QED
  BY <1>1, <1>2, <1>3, <1>4, ReadingStep

\* A consumer that looks for its block, or leaves one it has moved on from.
LEMMA SeekingStep ==
  ASSUME CountersInv, CountersInv', ImplicitInv, alive,
         NEW c \in Consumers, \A d \in Consumers \ {c} : consumer'[d] = consumer[d],
         UNCHANGED <<headIndex, tailIndex, tailBlock, producer, alive, blockVars, implicitVars>>,
         consumer[c].pc \in {"header", "mark", "entry", "next"},
         consumer'[c].pc \in {"mark", "entry", "move"},
         consumer'[c].index = consumer[c].index, consumer'[c].end = consumer[c].end,
         AimRight(consumer'[c], headers, Nums),
         \A at \in [HeldNums -> Blocks] : BlocksRight(at) =>
           (consumer'[c].pc = "move" => consumer'[c].block = at[Num(consumer'[c].index)])
  PROVE  ImplicitInv'
<1>1. /\ consumer[c].pc \in Reading /\ consumer'[c].pc \in Reading
      /\ consumer[c].pc \notin Emptying \cup {"flag"} /\ consumer'[c].pc \notin Emptying \cup {"flag"}
      /\ consumer'[c].pc \notin {"next", "flag", "unlink", "free"}
      BY DEF Reading, Emptying
<1>2. /\ UnflaggedOf(consumer'[c]) = UnflaggedOf(consumer[c])
      /\ UnmovedOf(consumer'[c]) = UnmovedOf(consumer[c])
      BY <1>1 DEF UnflaggedOf, UnmovedOf
<1>4. RangesInv'
  <2>1. headIndex \in Nat /\ headIndex' \in Nat /\ headIndex <= headIndex'
        BY HeadTail
  <2>2. RangesInv
        BY DEF ImplicitInv
  <2>3. /\ consumer[c].index \in Nat /\ consumer[c].end \in Nat
        /\ consumer[c].index < consumer[c].end /\ consumer[c].end <= headIndex
        BY <1>1, <2>2 DEF RangesInv
  <2> QED
        BY <1>1, <2>1, <2>2, <2>3, RangesStep
<1>5. consumer'[c].pc \notin Emptying /\ consumer[c].pc \notin Emptying
      BY <1>1
<1> QED
  BY <1>1, <1>2, <1>4, <1>5, ReadingStep

\* The steps of a dequeue up to its claim touch no element.
LEMMA CountingActions ==
  ASSUME CountersInv, CountersInv', ImplicitInv, alive, NEW c \in Consumers, UNCHANGED implicitVars,
         \/ \E max \in CallSizes : Look(c, max)
         \/ Test(c) \/ Claim(c) \/ Check(c) \/ GiveBack(c)
  PROVE  ImplicitInv'
<1>1. consumer = [d \in Consumers |-> consumer[d]]
      BY DEF CountersInv, Shapes
<1>2. ConsumerShape(consumer[c])
      BY DEF CountersInv, Shapes
<1>3. /\ UNCHANGED <<headIndex, tailIndex, tailBlock, producer, alive, blockVars>>
      /\ consumer[c].pc \in {"idle", "test", "claim", "check", "give_back", "take"}
      BY DEF Look, Test, Claim, Check, GiveBack, counterVars
<1>4. /\ \A d \in Consumers \ {c} : consumer'[d] = consumer[d]
      /\ consumer'[c].pc \in {"idle", "test", "claim", "check", "give_back", "take"}
  <2>1. CASE \E max \in CallSizes : Look(c, max)
        BY <1>1, <2>1 DEF Look, IdleConsumer
  <2>2. CASE Test(c)
        BY <1>1, <1>2, <2>2 DEF Test, IdleConsumer, ConsumerShape
  <2>3. CASE Claim(c)
        BY <1>1, <1>2, <2>3 DEF Claim, ConsumerShape
  <2>4. CASE Check(c)
        BY <1>1, <1>2, <2>4 DEF Check, ConsumerShape
  <2>5. CASE GiveBack(c)
        BY <1>1, <1>2, <2>5 DEF GiveBack, IdleConsumer, ConsumerShape
  <2> QED
        BY <2>1, <2>2, <2>3, <2>4, <2>5
<1> QED
  BY <1>3, <1>4, CountingStep

\* The block a consumer stands in is among those it needs.
LEMMA ReaderRange ==
  ASSUME RangesInv, NEW c \in Consumers, consumer[c].pc \in Reading
  PROVE  /\ consumer[c].index \in Nat /\ consumer[c].end \in Nat
         /\ consumer[c].index < consumer[c].end /\ consumer[c].end <= headIndex
         /\ Num(consumer[c].index) \in Nat /\ Num(consumer[c].end - 1) \in Nat
         /\ Num(consumer[c].index) \in Num(consumer[c].index) .. Num(consumer[c].end - 1)
<1>1. /\ consumer[c].index \in Nat /\ consumer[c].end \in Nat
      /\ consumer[c].index < consumer[c].end /\ consumer[c].end <= headIndex
      BY DEF RangesInv
<1>2. consumer[c].end - 1 \in Nat /\ consumer[c].index <= consumer[c].end - 1
      BY <1>1
<1>3. Num(consumer[c].index) \in Nat /\ Num(consumer[c].end - 1) \in Nat
      BY <1>1, <1>2, NumFacts
<1>4. Num(consumer[c].index) <= Num(consumer[c].end - 1)
      BY <1>1, <1>2, NumOrder
<1> QED
  BY <1>1, <1>3, <1>4

\* A dequeue reads the newest ring,
LEMMA ReadHeaderStep ==
  ASSUME CountersInv, CountersInv', ImplicitInv, alive, NEW c \in Consumers, ReadHeader(c)
  PROVE  ImplicitInv'
<1> DEFINE w == [consumer[c] EXCEPT !.pc = "mark", !.header = Len(headers)]
<1>1. ConsumerShape(consumer[c]) /\ consumer = [d \in Consumers |-> consumer[d]]
      BY DEF CountersInv, Shapes
<1>2. w.pc = "mark" /\ w.header = Len(headers) /\ w.index = consumer[c].index /\ w.end = consumer[c].end
      BY <1>1 DEF ConsumerShape
<1>3. /\ consumer'[c] = w /\ \A d \in Consumers \ {c} : consumer'[d] = consumer[d]
      /\ consumer[c].pc = "header" /\ consumer[c].pc \in Reading
      /\ UNCHANGED <<headIndex, tailIndex, tailBlock, producer, alive, blockVars, implicitVars>>
  <2>1. consumer' = [consumer EXCEPT ![c] = w]
        BY DEF ReadHeader
  <2>2. consumer'[c] = w /\ \A d \in Consumers \ {c} : consumer'[d] = consumer[d]
        BY <1>1, <2>1, ConsumerStep
  <2> QED
        BY <2>2 DEF ReadHeader, counterVars, Reading
<1> HIDE DEF w
<1>4. /\ IndexTypes /\ RingsInv /\ RangesInv /\ EmptyingInv /\ producer.taken \in Seq(Blocks)
      /\ headIndex <= tailIndex
      BY HeadTail DEF ImplicitInv, CallInv
<1>5. PICK at \in [HeldNums -> Blocks] : BlocksRight(at)
      BY DEF ImplicitInv
<1>6. ASSUME NEW n \in Num(w.index) .. Num(w.end - 1)
      PROVE  headers # <<>> /\ \E p \in DOMAIN blockIndex.index : Nums[blockIndex.index[p]] = n
  <2>1. ~ Frees(consumer[c], n)
        BY <1>3 DEF Frees
  <2>2. PICK e \in 1 .. Len(entries) : Nums[e] = n
        BY <1>2, <1>3, <1>4, <1>5, <2>1, ReaderEntry
  <2>3. headers # <<>> /\ \E p \in DOMAIN blockIndex.index : blockIndex.index[p] = e
        BY <1>4, EntryPlace
  <2> QED
        BY <2>2, <2>3
<1>7. headers # <<>>
      BY <1>2, <1>3, <1>4, <1>6, ReaderRange
<1>8. Len(headers) \in 1 .. Len(headers) /\ blockIndex = headers[Len(headers)]
      BY <1>4, <1>7, LastRing
<1>9. AimRight(w, headers, Nums)
      BY <1>2, <1>6, <1>8 DEF AimRight
<1> QED
  BY <1>2, <1>3, <1>9, SeekingStep

\* its tail, from which it computes the place of its block,
LEMMA ReadTailStep ==
  ASSUME CountersInv, CountersInv', ImplicitInv, alive, NEW c \in Consumers, ReadTail(c)
  PROVE  ImplicitInv'
<1> DEFINE w == [consumer[c] EXCEPT !.pc = "entry", !.mark = headers[consumer[c].header].tail]
<1>1. ConsumerShape(consumer[c]) /\ consumer = [d \in Consumers |-> consumer[d]]
      BY DEF CountersInv, Shapes
<1>2. /\ w.pc = "entry" /\ w.mark = headers[consumer[c].header].tail /\ w.header = consumer[c].header
      /\ w.index = consumer[c].index /\ w.end = consumer[c].end
      BY <1>1 DEF ConsumerShape
<1>3. /\ consumer'[c] = w /\ \A d \in Consumers \ {c} : consumer'[d] = consumer[d]
      /\ consumer[c].pc = "mark" /\ consumer[c].pc \in Reading
      /\ UNCHANGED <<headIndex, tailIndex, tailBlock, producer, alive, blockVars, implicitVars>>
  <2>1. consumer' = [consumer EXCEPT ![c] = w]
        BY DEF ReadTail
  <2>2. consumer'[c] = w /\ \A d \in Consumers \ {c} : consumer'[d] = consumer[d]
        BY <1>1, <2>1, ConsumerStep
  <2> QED
        BY <2>2 DEF ReadTail, counterVars, Reading
<1> HIDE DEF w
<1>4. /\ IndexTypes /\ RingsInv /\ RangesInv /\ EmptyingInv /\ producer.taken \in Seq(Blocks)
      /\ headIndex <= tailIndex /\ tailIndex \in Nat /\ CallInv
      BY HeadTail DEF ImplicitInv, CallInv
<1>5. AimRight(consumer[c], headers, Nums)
      BY <1>3 DEF ImplicitInv, AimInv
<1>6. PICK r \in 1 .. Len(headers) : r = consumer[c].header
      BY <1>5 DEF AimRight
<1>7. PICK h : h = headers[r]
      OBVIOUS
<1>8. PICK n \in Nat \ {0} : RingOver(h, n, Len(entries))
      BY <1>4, <1>7, RingTyped
<1>9. /\ DOMAIN h.index = 0 .. n - 1 /\ h.tail \in 0 .. n - 1
      /\ Numbers(Nums, Len(entries))
      BY <1>4, <1>8, NumsTyped, RingFacts DEF RingOver
<1>10. Nums[h.index[h.tail]] # -1
  <2>1. headers # <<>>
        BY <1>4 DEF IndexTypes
  <2>2. Len(headers) \in Nat /\ blockIndex = headers[Len(headers)]
        BY <1>4, <2>1, LastRing
  <2>3. CASE r # Len(headers)
    <3>1. OlderRing(h, blockIndex, Nums)
          BY <1>4, <1>7, <2>1, <2>2, <2>3 DEF RingsInv
    <3> QED
          BY <1>9, <3>1 DEF OlderRing
  <2>4. CASE r = Len(headers)
    <3>1. NewestRing(h, Nums, NumAtTail)
          BY <1>4, <1>7, <2>1, <2>2, <2>4 DEF RingsInv
    <3>2. PICK k \in Nat : /\ k = Num(consumer[c].index)
                           /\ k \in Num(consumer[c].index) .. Num(consumer[c].end - 1)
          BY <1>3, <1>4, ReaderRange
    <3>3. ~ Frees(consumer[c], k)
          BY <1>3 DEF Frees
    <3>4. PICK at \in [HeldNums -> Blocks] : BlocksRight(at)
          BY DEF ImplicitInv
    <3>5. PICK e \in 1 .. Len(entries) : Nums[e] = k
          BY <1>3, <1>4, <3>2, <3>3, <3>4, ReaderEntry
    <3>6. k < FirstNum /\ FirstNum \in Nat /\ Top \in Int /\ Top >= FirstNum - 1
          BY <1>3, <1>4, <3>2, ReaderBelow, TopType
    <3>7. NumAtTail \in Int /\ NumAtTail >= FirstNum - 1
      <4>1. CASE producer.pc = "undo"
        <5>1. PICK m \in FirstNum .. Top + 1 : producer.base = Base(m)
              BY <1>4, <4>1 DEF CallInv
        <5>2. m \in Nat
              BY <3>6
        <5>3. Num(producer.base) = m
              BY <5>1, <5>2, NumOfBase
        <5>4. NumAtTail = Top + FirstNum - m
              BY <4>1, <5>3 DEF NumAtTail
        <5> QED
              BY <3>6, <5>1, <5>4
      <4>2. CASE producer.pc # "undo"
            BY <3>6, <4>2 DEF NumAtTail
      <4> QED
            BY <4>1, <4>2
    <3>8. k <= NumAtTail /\ k # -1
          BY <3>2, <3>6, <3>7
    <3>9. Nums[h.index[h.tail]] = NumAtTail
          BY <1>8, <1>9, <3>1, <3>5, <3>7, <3>8, TailUsed
    <3> QED
          BY <3>2, <3>6, <3>7, <3>8, <3>9
  <2> QED
        BY <2>3, <2>4
<1>11. AimRight(w, headers, Nums)
  <2>1. \A i : Frees(w, i) <=> Frees(consumer[c], i)
        BY <1>2, <1>3 DEF Frees
  <2> QED
        BY <1>2, <1>5, <1>6, <1>7, <1>9, <1>10, <2>1, SMTT(30) DEF AimRight
<1> QED
  BY <1>2, <1>3, <1>11, SeekingStep

\* A call has found its place in its ring, or keeps it.
LEMMA AimAt ==
  ASSUME NEW w, NEW hs, NEW nums, w.header \in 1 .. Len(hs), NEW h, h = hs[w.header],
         NEW k, k = Num(w.index), w.pc = "move", w.mark \in DOMAIN h.index,
         nums[h.index[w.mark]] = k, k # -1, Cong(k, k, Capacity(h)),
         \A i \in Num(w.index) .. Num(w.end - 1) : ~ Frees(w, i) =>
           \E q \in DOMAIN h.index : nums[h.index[q]] = i
  PROVE  AimRight(w, hs, nums)
BY DEF AimRight

\* A later step of a call keeps the place the call has found.
LEMMA AimSame ==
  ASSUME NEW me, NEW w, NEW hs, NEW nums, AimRight(me, hs, nums),
         me.pc \in {"move", "flag", "unlink", "free"}, w.pc \in {"move", "flag", "unlink", "free"},
         w.header = me.header, w.index = me.index, w.end = me.end, w.mark = me.mark,
         \A i : ~ Frees(w, i) => ~ Frees(me, i)
  PROVE  AimRight(w, hs, nums)
BY DEF AimRight

\* The ring a consumer has chosen has the entry of its block.
LEMMA AimPlace ==
  ASSUME CountersInv, ImplicitInv, NEW at \in [HeldNums -> Blocks], BlocksRight(at),
         NEW c \in Consumers, consumer[c].pc \in Reading \ {"header"},
         NEW k \in Nat, k = Num(consumer[c].index), ~ Frees(consumer[c], k)
  PROVE  /\ consumer[c].header \in 1 .. Len(headers)
         /\ \E p \in DOMAIN headers[consumer[c].header].index :
              LET e == headers[consumer[c].header].index[p]
              IN  e \in 1 .. Len(entries) /\ Nums[e] = k /\ entries[e].value = at[k] /\ at[k] \in Blocks
<1>1. AimRight(consumer[c], headers, Nums)
      BY DEF ImplicitInv, AimInv
<1>2. PICK r \in 1 .. Len(headers) : r = consumer[c].header
      BY <1>1 DEF AimRight
<1>3. /\ IndexTypes /\ RingsInv /\ RangesInv /\ EmptyingInv /\ producer.taken \in Seq(Blocks)
      /\ headIndex <= tailIndex /\ consumer[c].pc \in Reading
      BY HeadTail DEF ImplicitInv, CallInv
<1>4. k \in Num(consumer[c].index) .. Num(consumer[c].end - 1)
      BY <1>3, ReaderRange
<1>5. PICK e \in 1 .. Len(entries) : Nums[e] = k /\ entries[e].value = at[k] /\ at[k] \in Blocks
      BY <1>3, <1>4, ReaderEntry
<1>6. PICK p \in DOMAIN headers[r].index : Nums[headers[r].index[p]] = k
      BY <1>1, <1>2, <1>4 DEF AimRight
<1>7. headers[r].index[p] \in 1 .. Len(entries)
      BY <1>3 DEF IndexTypes
<1>8. headers[r].index[p] = e
      BY <1>3, <1>5, <1>6, <1>7, EntryOf
<1> QED
  BY <1>2, <1>5, <1>7, <1>8

\* and the entry there.
LEMMA ReadEntryStep ==
  ASSUME CountersInv, CountersInv', ImplicitInv, alive, NEW c \in Consumers, ReadEntry(c)
  PROVE  ImplicitInv'
<1>1. ConsumerShape(consumer[c]) /\ consumer = [d \in Consumers |-> consumer[d]]
      BY DEF CountersInv, Shapes
<1>2. consumer[c].pc = "entry" /\ consumer[c].pc \in Reading \ {"header"} /\ consumer[c].pc \in Reading
      BY DEF ReadEntry, Reading
<1>3. /\ RangesInv /\ IndexTypes /\ RingsInv
      /\ AimRight(consumer[c], headers, Nums)
      BY <1>2 DEF ImplicitInv, AimInv
<1>4. PICK k \in Nat : k = Num(consumer[c].index)
      BY <1>2, <1>3, ReaderRange
<1>5. ~ Frees(consumer[c], k)
      BY <1>2 DEF Frees
<1>6. PICK at0 \in [HeldNums -> Blocks] : BlocksRight(at0)
      BY DEF ImplicitInv
<1>7. PICK r \in 1 .. Len(headers) : r = consumer[c].header
      BY <1>3 DEF AimRight
<1>8. PICK h : h = headers[r]
      OBVIOUS
<1>9. PICK p \in DOMAIN h.index :
        h.index[p] \in 1 .. Len(entries) /\ Nums[h.index[p]] = k /\ entries[h.index[p]].value = at0[k]
  <2>1. \E q \in DOMAIN headers[consumer[c].header].index :
          LET e == headers[consumer[c].header].index[q]
          IN  e \in 1 .. Len(entries) /\ Nums[e] = k /\ entries[e].value = at0[k] /\ at0[k] \in Blocks
        BY <1>2, <1>4, <1>5, <1>6, AimPlace, SMTT(30)
  <2> QED
        BY <1>7, <1>8, <2>1
<1>10. PositionOf(consumer[c].index, h, consumer[c].mark) = p
  <2>1. consumer[c].mark \in DOMAIN headers[r].index /\ Nums[headers[r].index[consumer[c].mark]] # -1
        BY <1>2, <1>3, <1>7 DEF AimRight
  <2>2. p \in DOMAIN headers[r].index /\ Nums[headers[r].index[p]] = Num(consumer[c].index)
        BY <1>4, <1>8, <1>9
  <2>3. consumer[c].index \in Nat
        BY <1>2, <1>3, ReaderRange
  <2> QED
        BY <1>3, <1>8, <2>1, <2>2, <2>3, Position
<1> DEFINE w == [consumer[c] EXCEPT !.pc = "move", !.mark = p, !.block = entries[h.index[p]].value]
<1>11. /\ w.pc = "move" /\ w.mark = p /\ w.header = consumer[c].header
       /\ w.index = consumer[c].index /\ w.end = consumer[c].end /\ w.block = entries[h.index[p]].value
       BY <1>1 DEF ConsumerShape
<1>12. /\ consumer'[c] = w /\ \A d \in Consumers \ {c} : consumer'[d] = consumer[d]
       /\ UNCHANGED <<headIndex, tailIndex, tailBlock, producer, alive, blockVars, implicitVars>>
  <2>1. consumer' = [consumer EXCEPT ![c] = w]
        BY <1>7, <1>8, <1>10 DEF ReadEntry
  <2>2. consumer'[c] = w /\ \A d \in Consumers \ {c} : consumer'[d] = consumer[d]
        BY <1>1, <2>1, ConsumerStep
  <2> QED
        BY <2>2 DEF ReadEntry, counterVars
<1> HIDE DEF w
<1>13. AimRight(w, headers, Nums)
  <2>1. \A i : Frees(w, i) <=> Frees(consumer[c], i)
        BY <1>2, <1>11 DEF Frees
  <2>2. PICK n \in Nat \ {0} : RingOver(h, n, Len(entries))
        BY <1>3, <1>8, RingTyped
  <2>3. Cong(k, k, Capacity(h))
    <3>1. Capacity(h) \in Nat \ {0}
          BY <2>2, RingFacts DEF RingOver
    <3>2. k \in Int
          OBVIOUS
    <3> QED
          BY <3>1, <3>2, CongRefl
  <2>4. /\ w.header \in 1 .. Len(headers)
        /\ \A i \in Num(w.index) .. Num(w.end - 1) : ~ Frees(w, i) =>
             \E q \in DOMAIN h.index : Nums[h.index[q]] = i
        BY <1>3, <1>7, <1>8, <1>11, <2>1 DEF AimRight
  <2> QED
    <3>1. h = headers[w.header] /\ k = Num(w.index)
          BY <1>4, <1>7, <1>8, <1>11
    <3>2. w.mark \in DOMAIN h.index /\ Nums[h.index[w.mark]] = k
          BY <1>9, <1>11
    <3>3. k # -1
          OBVIOUS
    <3>4. w.pc = "move"
          BY <1>11
    <3> QED
          BY <2>3, <2>4, <3>1, <3>2, <3>3, <3>4, AimAt, SMTT(30)
<1>14. \A at \in [HeldNums -> Blocks] : BlocksRight(at) => w.block = at[Num(w.index)]
  <2> SUFFICES ASSUME NEW at \in [HeldNums -> Blocks], BlocksRight(at)
               PROVE  w.block = at[k]
      BY <1>4, <1>11
  <2>1. PICK q \in DOMAIN h.index :
          h.index[q] \in 1 .. Len(entries) /\ Nums[h.index[q]] = k /\ entries[h.index[q]].value = at[k]
    <3>1. \E q \in DOMAIN headers[consumer[c].header].index :
            LET e == headers[consumer[c].header].index[q]
            IN  e \in 1 .. Len(entries) /\ Nums[e] = k /\ entries[e].value = at[k] /\ at[k] \in Blocks
          BY <1>2, <1>4, <1>5, AimPlace, SMTT(30)
    <3> QED
          BY <1>7, <1>8, <3>1
  <2>2. h.index[p] = h.index[q]
        BY <1>3, <1>9, <2>1, EntryOf
  <2> QED
        BY <1>11, <2>1, <2>2
<1> QED
  BY <1>2, <1>11, <1>12, <1>13, <1>14, SeekingStep

\* For the next block it goes on to the next place.
LEMMA ReadNextEntryStep ==
  ASSUME CountersInv, CountersInv', ImplicitInv, alive, NEW c \in Consumers, ReadNextEntry(c)
  PROVE  ImplicitInv'
<1>1. ConsumerShape(consumer[c]) /\ consumer = [d \in Consumers |-> consumer[d]]
      BY DEF CountersInv, Shapes
<1>2. consumer[c].pc = "next" /\ consumer[c].pc \in Reading \ {"header"} /\ consumer[c].pc \in Reading
      BY DEF ReadNextEntry, Reading
<1>3. /\ RangesInv /\ IndexTypes /\ RingsInv
      /\ AimRight(consumer[c], headers, Nums)
      BY <1>2 DEF ImplicitInv, AimInv
<1>4. PICK k \in Nat : k = Num(consumer[c].index)
      BY <1>2, <1>3, ReaderRange
<1>5. ~ Frees(consumer[c], k)
      BY <1>2 DEF Frees
<1>6. PICK at0 \in [HeldNums -> Blocks] : BlocksRight(at0)
      BY DEF ImplicitInv
<1>7. PICK r \in 1 .. Len(headers) : r = consumer[c].header
      BY <1>3 DEF AimRight
<1>8. PICK h : h = headers[r]
      OBVIOUS
<1>9. PICK p \in DOMAIN h.index :
        h.index[p] \in 1 .. Len(entries) /\ Nums[h.index[p]] = k /\ entries[h.index[p]].value = at0[k]
  <2>1. \E q \in DOMAIN headers[consumer[c].header].index :
          LET e == headers[consumer[c].header].index[q]
          IN  e \in 1 .. Len(entries) /\ Nums[e] = k /\ entries[e].value = at0[k] /\ at0[k] \in Blocks
        BY <1>2, <1>4, <1>5, <1>6, AimPlace, SMTT(30)
  <2> QED
        BY <1>7, <1>8, <2>1
<1>9a. PICK n \in Nat \ {0} : RingOver(h, n, Len(entries))
      BY <1>3, <1>8, RingTyped
<1>9b. IsRing(h, n) /\ Capacity(h) = n /\ \A q \in DOMAIN h.index : Nums[h.index[q]] \in Int
      BY <1>3, <1>9a, NumsTyped, NumberAt DEF RingOver
<1>10. (consumer[c].mark + 1) % Capacity(h) = p
  <2>1. PICK mark \in DOMAIN h.index : mark = consumer[c].mark /\ Nums[h.index[mark]] # -1
        BY <1>2, <1>3, <1>7, <1>8 DEF AimRight
  <2>2. Cong(Nums[h.index[mark]] + 1, Nums[h.index[p]], n)
        BY <1>2, <1>3, <1>4, <1>7, <1>8, <1>9, <1>9b, <2>1 DEF AimRight
  <2>3. Ordered(h, Nums)
        BY <1>3, <1>8, RingsOrdered
  <2>4. IsRing(h, n) /\ Nums[h.index[p]] # -1
        BY <1>9, <1>9b
  <2>5. \A q \in DOMAIN h.index : Nums[h.index[q]] \in Int
        BY <1>9b
  <2>6. (mark + 1) % n = p
        BY <2>1, <2>2, <2>3, <2>4, <2>5, NextPlace
  <2> QED
        BY <1>9b, <2>1, <2>6
<1> DEFINE w == [consumer[c] EXCEPT !.pc = "move", !.mark = p, !.block = entries[h.index[p]].value]
<1>11. /\ w.pc = "move" /\ w.mark = p /\ w.header = consumer[c].header
       /\ w.index = consumer[c].index /\ w.end = consumer[c].end /\ w.block = entries[h.index[p]].value
       BY <1>1 DEF ConsumerShape
<1>12. /\ consumer'[c] = w /\ \A d \in Consumers \ {c} : consumer'[d] = consumer[d]
       /\ UNCHANGED <<headIndex, tailIndex, tailBlock, producer, alive, blockVars, implicitVars>>
  <2>1. consumer' = [consumer EXCEPT ![c] = w]
        BY <1>7, <1>8, <1>10 DEF ReadNextEntry
  <2>2. consumer'[c] = w /\ \A d \in Consumers \ {c} : consumer'[d] = consumer[d]
        BY <1>1, <2>1, ConsumerStep
  <2> QED
        BY <2>2 DEF ReadNextEntry, counterVars
<1> HIDE DEF w
<1>13. AimRight(w, headers, Nums)
  <2>1. \A i : Frees(w, i) <=> Frees(consumer[c], i)
        BY <1>2, <1>11 DEF Frees
  <2>3. Cong(k, k, Capacity(h))
    <3>1. n \in Nat \ {0} /\ Capacity(h) = n
          BY <1>9a, <1>9b
    <3>2. k \in Int
          OBVIOUS
    <3>3. Cong(k, k, n)
          BY <3>1, <3>2, CongRefl
    <3> QED
          BY <3>1, <3>3
  <2>4. /\ w.header \in 1 .. Len(headers)
        /\ \A i \in Num(w.index) .. Num(w.end - 1) : ~ Frees(w, i) =>
             \E q \in DOMAIN h.index : Nums[h.index[q]] = i
        BY <1>3, <1>7, <1>8, <1>11, <2>1 DEF AimRight
  <2> QED
    <3>1. h = headers[w.header] /\ k = Num(w.index)
          BY <1>4, <1>7, <1>8, <1>11
    <3>2. w.mark \in DOMAIN h.index /\ Nums[h.index[w.mark]] = k
          BY <1>9, <1>11
    <3>3. k # -1
          OBVIOUS
    <3>4. w.pc = "move"
          BY <1>11
    <3> QED
          BY <2>3, <2>4, <3>1, <3>2, <3>3, <3>4, AimAt, SMTT(30)
<1>14. \A at \in [HeldNums -> Blocks] : BlocksRight(at) => w.block = at[Num(w.index)]
  <2> SUFFICES ASSUME NEW at \in [HeldNums -> Blocks], BlocksRight(at)
               PROVE  w.block = at[k]
      BY <1>4, <1>11
  <2>1. PICK q \in DOMAIN h.index :
          h.index[q] \in 1 .. Len(entries) /\ Nums[h.index[q]] = k /\ entries[h.index[q]].value = at[k]
    <3>1. \E q \in DOMAIN headers[consumer[c].header].index :
            LET e == headers[consumer[c].header].index[q]
            IN  e \in 1 .. Len(entries) /\ Nums[e] = k /\ entries[e].value = at[k] /\ at[k] \in Blocks
          BY <1>2, <1>4, <1>5, AimPlace, SMTT(30)
    <3> QED
          BY <1>7, <1>8, <3>1
  <2>2. h.index[p] = h.index[q]
        BY <1>3, <1>9, <2>1, EntryOf
  <2> QED
        BY <1>11, <2>1, <2>2
<1> QED
  BY <1>2, <1>11, <1>12, <1>13, <1>14, SeekingStep

\* A dequeue takes elements by advancing the head.
LEMMA TakeElements ==
  ASSUME CountersInv, CountersInv', ImplicitInv, alive, NEW c \in Consumers, Take(c),
         UNCHANGED implicitVars
  PROVE  ImplicitInv'
<1> DEFINE w == [consumer[c] EXCEPT !.pc = "header", !.index = headIndex,
                                    !.end = headIndex + consumer[c].end, !.count = 0]
<1>1. ConsumerShape(consumer[c]) /\ consumer = [d \in Consumers |-> consumer[d]]
      BY DEF CountersInv, Shapes
<1>2. w.pc = "header" /\ w.index = headIndex /\ w.end = headIndex + consumer[c].end
      BY <1>1 DEF ConsumerShape
<1>3. /\ consumer'[c] = w /\ \A d \in Consumers \ {c} : consumer'[d] = consumer[d]
      /\ consumer[c].pc = "take" /\ headIndex' = headIndex + consumer[c].end
      /\ UNCHANGED <<tailIndex, tailBlock, producer, alive, blockVars, implicitVars>>
  <2>1. consumer' = [consumer EXCEPT ![c] = w]
        BY DEF Take
  <2>2. consumer'[c] = w /\ \A d \in Consumers \ {c} : consumer'[d] = consumer[d]
        BY <1>1, <2>1, ConsumerStep
  <2> QED
        BY <2>2 DEF Take
<1> HIDE DEF w
<1>4. consumer[c].end \in Nat \ {0}
      BY <1>3 DEF CountersInv, CountsOf
<1>5. /\ headIndex \in Nat /\ headIndex' \in Nat /\ headIndex < headIndex'
      /\ headIndex' <= tailIndex /\ tailIndex \in Nat
  <2>1. headIndex + consumer[c].end <= tailIndex
        BY <1>3, TakenBelow
  <2> QED
        BY <1>3, <1>4, <2>1, HeadTail
<1>6. Constructed' = Constructed /\ Constructed \in Nat /\ tailIndex <= Constructed
  <2>1. producer.count \in Nat
        BY DEF CountersInv, Shapes
  <2> QED
        BY <1>3, <1>5, <2>1 DEF Constructed
<1>7. /\ UnflaggedOf(consumer[c]) = {} /\ UnmovedOf(consumer[c]) = {}
      /\ UnflaggedOf(w) = headIndex .. headIndex' - 1 /\ UnmovedOf(w) = headIndex .. headIndex' - 1
      BY <1>2, <1>3 DEF UnflaggedOf, UnmovedOf, Reading, Emptying
<1>8. SameFlags
  <2> SUFFICES ASSUME NEW i \in Nat
               PROVE  Unflagged(i)' <=> Unflagged(i)
      BY DEF SameFlags
  <2>1. Unflagged(i)' <=> \/ i >= headIndex' \/ i \in UnflaggedOf(w)
                          \/ \E d \in Consumers \ {c} : i \in UnflaggedOf(consumer[d])
        BY <1>3 DEF Unflagged
  <2>2. Unflagged(i) <=> \/ i >= headIndex
                         \/ \E d \in Consumers \ {c} : i \in UnflaggedOf(consumer[d])
        BY <1>7 DEF Unflagged
  <2>3. i >= headIndex <=> i >= headIndex' \/ i \in UnflaggedOf(w)
    <3>0. PICK x \in Nat, y \in Nat : x = headIndex /\ y = headIndex'
          BY <1>5
    <3>1. i \in UnflaggedOf(w) <=> headIndex <= i /\ i < headIndex'
      <4>1. UnflaggedOf(w) = x .. y - 1
            BY <1>7, <3>0
      <4>2. i \in UnflaggedOf(w) <=> x <= i /\ i < y
            BY <4>1
      <4> QED
            BY <3>0, <4>2
    <3> QED
          BY <1>5, <3>1
  <2> QED
        BY <2>1, <2>2, <2>3
<1>9. SamePresent
  <2> SUFFICES ASSUME NEW i \in Nat
               PROVE  Present(i)' <=> Present(i)
      BY DEF SamePresent
  <2>1. Present(i)' <=> \/ i \in headIndex' .. Constructed - 1 \/ i \in UnmovedOf(w)
                        \/ \E d \in Consumers \ {c} : i \in UnmovedOf(consumer[d])
        BY <1>3, <1>6 DEF Present
  <2>2. Present(i) <=> \/ i \in headIndex .. Constructed - 1
                       \/ \E d \in Consumers \ {c} : i \in UnmovedOf(consumer[d])
        BY <1>7 DEF Present
  <2>3. i \in headIndex .. Constructed - 1 <=> i \in headIndex' .. Constructed - 1 \/ i \in UnmovedOf(w)
    <3>0. PICK x \in Nat, y \in Nat : x = headIndex /\ y = headIndex'
          BY <1>5
    <3>1. i \in UnmovedOf(w) <=> headIndex <= i /\ i < headIndex'
      <4>1. UnmovedOf(w) = x .. y - 1
            BY <1>7, <3>0
      <4>2. i \in UnmovedOf(w) <=> x <= i /\ i < y
            BY <4>1
      <4> QED
            BY <3>0, <4>2
    <3> QED
          BY <1>5, <1>6, <3>1
  <2> QED
        BY <2>1, <2>2, <2>3
<1>10. SameEmptying /\ SameFreeing
  <2>1. ASSUME NEW d \in Consumers, NEW k \in Nat
        PROVE  /\ Empties(consumer'[d], k) <=> Empties(consumer[d], k)
               /\ Frees(consumer'[d], k) <=> Frees(consumer[d], k)
    <3>1. CASE d = c
          BY <1>2, <1>3, <3>1 DEF Empties, Frees, Emptying
    <3>2. CASE d # c
      <4>1. consumer'[d] = consumer[d]
            BY <1>3, <3>2
      <4> QED
            BY <4>1
    <3> QED
          BY <3>1, <3>2
  <2> QED
        BY <2>1 DEF SameEmptying, SameFreeing
<1>11. RangesInv'
  <2>1. /\ RangesInv /\ headIndex \in Nat /\ headIndex' \in Nat /\ headIndex <= headIndex'
        /\ \A d \in Consumers \ {c} : consumer'[d] = consumer[d]
        BY <1>3, <1>5 DEF ImplicitInv
  <2>2. /\ w.pc \in Reading \cup {"idle", "test", "claim", "check", "give_back", "take"}
        /\ w.pc # "next"
        BY <1>2 DEF Reading
  <2>3. w.index \in Nat /\ w.end \in Nat /\ w.index < w.end /\ w.end <= headIndex' /\ headIndex <= w.index
        BY <1>2, <1>3, <1>4, <1>5
  <2> QED
        BY <1>3, <2>1, <2>2, <2>3, RangesStep
<1>12. SameView
      BY <1>8, <1>9, <1>10 DEF SameView
<1>13. w.pc \notin {"move", "flag", "unlink", "free"} /\ w.pc \notin Reading \ {"header"}
      BY <1>2
<1> QED
  BY <1>3, <1>11, <1>12, <1>13, ViewStep

\* The elements of a consumer are its own.
LEMMA OwnElements ==
  ASSUME CountersInv, RangesInv, NEW c \in Consumers, consumer[c].pc \in Reading,
         NEW i \in consumer[c].index .. consumer[c].end - 1
  PROVE  /\ i \in Nat /\ i < headIndex
         /\ \A d \in Consumers \ {c} : i \notin UnflaggedOf(consumer[d]) /\ i \notin UnmovedOf(consumer[d])
<1>1. /\ consumer[c].index \in Nat /\ consumer[c].end \in Nat /\ consumer[c].end <= headIndex
      /\ headIndex \in Nat
      BY HeadTail DEF RangesInv
<1>2. ASSUME NEW d \in Consumers \ {c}, consumer[d].pc \in Reading
      PROVE  i \notin UnflaggedOf(consumer[d]) /\ i \notin UnmovedOf(consumer[d])
  <2>1. /\ consumer[d].index \in Nat /\ consumer[d].end \in Nat /\ consumer[d].index < consumer[d].end
        BY <1>2 DEF RangesInv
  <2>2. i \notin consumer[d].index .. consumer[d].end - 1
    <3>1. \/ consumer[c].end <= consumer[d].index
          \/ consumer[d].end <= consumer[c].index
          BY <1>2 DEF RangesInv
    <3> QED
          BY <1>1, <2>1, <3>1
  <2>3. consumer[d].index < EndInBlock(consumer[d]) /\ EndInBlock(consumer[d]) \in Nat
        BY <2>1, BlockEnd
  <2>4. i \notin EndInBlock(consumer[d]) .. consumer[d].end - 1
        BY <1>1, <2>1, <2>2, <2>3
  <2> QED
        BY <2>2, <2>4 DEF UnflaggedOf, UnmovedOf
<1>3. ASSUME NEW d \in Consumers \ {c}, consumer[d].pc \notin Reading
      PROVE  i \notin UnflaggedOf(consumer[d]) /\ i \notin UnmovedOf(consumer[d])
      BY <1>3 DEF UnflaggedOf, UnmovedOf
<1> QED
  BY <1>1, <1>2, <1>3

\* What a consumer has in its block and beyond it.
LEMMA SplitElements ==
  ASSUME CountersInv, RangesInv, NEW c \in Consumers, consumer[c].pc \in Reading
  PROVE  /\ EndInBlock(consumer[c]) \in Nat
         /\ \A i \in Nat :
              /\ i \in consumer[c].index .. consumer[c].end - 1
                   <=> \/ i \in consumer[c].index .. EndInBlock(consumer[c]) - 1
                       \/ i \in EndInBlock(consumer[c]) .. consumer[c].end - 1
              /\ ~ (/\ i \in consumer[c].index .. EndInBlock(consumer[c]) - 1
                    /\ i \in EndInBlock(consumer[c]) .. consumer[c].end - 1)
<1>1. /\ consumer[c].index \in Nat /\ consumer[c].end \in Nat /\ consumer[c].index < consumer[c].end
      BY DEF RangesInv
<1>2. PICK x \in Nat : x = EndInBlock(consumer[c]) /\ consumer[c].index < x /\ x <= consumer[c].end
      BY <1>1, BlockEnd
<1> QED
  BY <1>1, <1>2

\* What is not moved out is not flagged.
LEMMA PresentUnflagged ==
  ASSUME CountersInv, RangesInv, NEW i \in Nat, Present(i)
  PROVE  Unflagged(i)
<1>1. CASE i \in headIndex .. Constructed - 1
      BY <1>1, HeadTail DEF Unflagged
<1>2. ASSUME NEW c \in Consumers, i \in UnmovedOf(consumer[c])
      PROVE  Unflagged(i)
  <2>1. consumer[c].pc \in Reading
        BY <1>2 DEF UnmovedOf
  <2>2. i \in UnflaggedOf(consumer[c])
        BY <1>2, <2>1, SplitElements DEF UnmovedOf, UnflaggedOf
  <2> QED
        BY <2>2 DEF Unflagged
<1> QED
  BY <1>1, <1>2 DEF Present

\* A block in which a step changes nothing.
LEMMA BlockKept ==
  ASSUME NEW k \in Nat, NEW b, BlockRight(k, b),
         \A o \in Offsets : /\ Unflagged(Base(k) + o)' <=> Unflagged(Base(k) + o)
                            /\ Present(Base(k) + o)' <=> Present(Base(k) + o),
         elements'[b] = elements[b], emptied'[b] = emptied[b],
         tailBlock' = tailBlock, producer' = producer, FirstNum' = FirstNum
  PROVE  BlockRight(k, b)'
<1>1. [o \in Offsets |-> IF Present(Base(k) + o)' THEN Base(k) + o ELSE None]
        = [o \in Offsets |-> IF Present(Base(k) + o) THEN Base(k) + o ELSE None]
      OBVIOUS
<1>2. {o \in Offsets : ~ Unflagged(Base(k) + o)'} = {o \in Offsets : ~ Unflagged(Base(k) + o)}
      OBVIOUS
<1> QED
  BY <1>1, <1>2 DEF BlockRight

\* What Destroy does to the elements of a block.
LEMMA DestroyFacts ==
  ASSUME elements \in [Blocks -> [Offsets -> Nat \cup {None}]], misuse = {}, NEW places,
         \A p \in places : elements[p[1]][p[2]] # None, Destroy(places)
  PROVE  /\ misuse' = {} /\ elements' \in [Blocks -> [Offsets -> Nat \cup {None}]]
         /\ \A b \in Blocks : elements'[b] =
              [o \in Offsets |-> IF <<b, o>> \in places THEN None ELSE elements[b][o]]
         /\ \A b \in Blocks : (\A o \in Offsets : <<b, o>> \notin places) => elements'[b] = elements[b]
<1>1. elements' = [b \in Blocks |-> [o \in Offsets |-> IF <<b, o>> \in places THEN None ELSE elements[b][o]]]
      BY DEF Destroy
<1>2. \A b \in Blocks, o \in Offsets : elements[b][o] \in Nat \cup {None}
      OBVIOUS
<1>3. \A b \in Blocks : elements[b] = [o \in Offsets |-> elements[b][o]]
      OBVIOUS
<1>4. misuse' = {}
      BY DEF Destroy
<1>5. \A b \in Blocks : (\A o \in Offsets : <<b, o>> \notin places) => elements'[b] = elements[b]
  <2> SUFFICES ASSUME NEW b \in Blocks, \A o \in Offsets : <<b, o>> \notin places
               PROVE  elements'[b] = elements[b]
      OBVIOUS
  <2>1. elements'[b] = [o \in Offsets |-> elements[b][o]]
        BY <1>1
  <2> QED
        BY <1>3, <2>1
<1> QED
  BY <1>1, <1>2, <1>4, <1>5

\* The block of each number is in use, and those of different numbers differ.
LEMMA HeldBlocks ==
  ASSUME NEW at \in [HeldNums -> Blocks], BlocksRight(at), NEW k \in HeldNums
  PROVE  /\ k \in Nat /\ at[k] \in Blocks /\ at[k] \notin Idle
         /\ \A j \in HeldNums : j # k => at[j] # at[k]
         /\ BlockRight(k, at[k]) /\ EntryRight(k, at[k])
BY DEF BlocksRight, HeldNums

\* A dequeue moves its elements out of a block.
LEMMA MoveStep ==
  ASSUME CountersInv, CountersInv', ImplicitInv, alive, NEW c \in Consumers, Move(c),
         UNCHANGED implicitVars
  PROVE  ImplicitInv'
<1> DEFINE w == [consumer[c] EXCEPT !.pc = "flag"]
<1>1. ConsumerShape(consumer[c]) /\ consumer = [d \in Consumers |-> consumer[d]]
      BY DEF CountersInv, Shapes
<1>2. /\ w.pc = "flag" /\ w.index = consumer[c].index /\ w.end = consumer[c].end
      /\ w.header = consumer[c].header /\ w.mark = consumer[c].mark /\ w.block = consumer[c].block
      BY <1>1 DEF ConsumerShape
<1>3. /\ consumer'[c] = w /\ \A d \in Consumers \ {c} : consumer'[d] = consumer[d]
      /\ consumer[c].pc = "move" /\ consumer[c].pc \in Reading \ {"header"} /\ consumer[c].pc \in Reading
      /\ UNCHANGED <<headIndex, tailIndex, tailBlock, producer, alive, emptied, poolVars, headers, entries>>
      /\ Destroy({consumer[c].block} \X OffsetsTaken(consumer[c]))
  <2>1. consumer' = [consumer EXCEPT ![c] = w]
        BY DEF Move
  <2>2. consumer'[c] = w /\ \A d \in Consumers \ {c} : consumer'[d] = consumer[d]
        BY <1>1, <2>1, ConsumerStep
  <2> QED
        BY <2>2 DEF Move, counterVars, implicitVars, Reading
<1> HIDE DEF w
<1>4. /\ CallInv /\ IndexTypes /\ RingsInv /\ GivenUp /\ RangesInv /\ EmptyingInv /\ BlockTypes /\ AimInv
      BY DEF ImplicitInv
<1>5. PICK at \in [HeldNums -> Blocks] : BlocksRight(at)
      BY DEF ImplicitInv
<1>6. PICK me : me = consumer[c]
      OBVIOUS
<1>7. me.index \in Nat /\ me.end \in Nat /\ me.index < me.end
      BY <1>3, <1>4, <1>6, ReaderRange
<1>8. PICK k \in Nat : k = Num(me.index)
      BY <1>7, NumFacts
<1>9. k \in HeldNums
  <2>1. k \in Num(consumer[c].index) .. Num(consumer[c].end - 1)
        BY <1>3, <1>4, <1>6, <1>8, ReaderRange
  <2>2. headIndex <= tailIndex /\ producer.taken \in Seq(Blocks)
        BY <1>4, HeadTail DEF CallInv
  <2> QED
        BY <1>3, <1>4, <2>1, <2>2, ReaderHolds
<1>10. PICK b \in Blocks : b = at[k] /\ b = me.block /\ b \notin Idle
  <2>1. at[k] \in Blocks /\ at[k] \notin Idle
        BY <1>5, <1>9, HeldBlocks
  <2>2. me.block = at[k]
        BY <1>3, <1>5, <1>6, <1>8 DEF BlocksRight
  <2> QED
        BY <2>1, <2>2
<1>11. PICK x \in Nat : x = EndInBlock(me)
      BY <1>7, BlockEnd
<1>12. /\ \A i \in me.index .. x - 1 : Num(i) = k /\ i = Base(k) + Offset(i)
       /\ \A o \in Offsets : o \in OffsetsTaken(me) <=> Base(k) + o \in me.index .. x - 1
      BY <1>7, <1>8, <1>11, TakenPlaces
<1>13. OffsetsTaken(me) \subseteq Offsets
      BY <1>7, <1>11, NumFacts DEF OffsetsTaken
<1>14. /\ UnmovedOf(me) = me.index .. me.end - 1 /\ UnmovedOf(w) = x .. me.end - 1
       /\ UnflaggedOf(w) = UnflaggedOf(me)
  <2>1. EndInBlock(w) = EndInBlock(me)
        BY <1>2, <1>6 DEF EndInBlock
  <2> QED
        BY <1>2, <1>3, <1>6, <1>11, <2>1 DEF UnmovedOf, UnflaggedOf, Reading, Emptying
<1>15. ASSUME NEW i \in Nat
       PROVE  Present(i)' <=> Present(i) /\ i \notin me.index .. x - 1
  <2>1. Constructed' = Constructed
        BY <1>3 DEF Constructed
  <2>2. Present(i)' <=> \/ i \in headIndex .. Constructed - 1 \/ i \in UnmovedOf(w)
                        \/ \E d \in Consumers \ {c} : i \in UnmovedOf(consumer[d])
        BY <1>3, <2>1 DEF Present
  <2>3. Present(i) <=> \/ i \in headIndex .. Constructed - 1 \/ i \in UnmovedOf(me)
                       \/ \E d \in Consumers \ {c} : i \in UnmovedOf(consumer[d])
        BY <1>6 DEF Present
  <2>4. i \in me.index .. me.end - 1 =>
          i < headIndex /\ \A d \in Consumers \ {c} : i \notin UnmovedOf(consumer[d])
        BY <1>3, <1>4, <1>6, OwnElements
  <2>5. i \in UnmovedOf(me) <=> i \in me.index .. x - 1 \/ i \in UnmovedOf(w)
        BY <1>3, <1>4, <1>6, <1>11, <1>14, SplitElements
  <2>6. ~ (i \in me.index .. x - 1 /\ i \in UnmovedOf(w))
        BY <1>3, <1>4, <1>6, <1>11, <1>14, SplitElements
  <2>7. i < headIndex => i \notin headIndex .. Constructed - 1
        BY HeadTail
  <2>8. i \in me.index .. x - 1 => i \in me.index .. me.end - 1
        BY <1>14, <2>5
  <2> QED
        BY <2>2, <2>3, <2>4, <2>5, <2>6, <2>7, <2>8
<1>16. SameFlags /\ SameEmptying /\ SameFreeing
  <2>1. ASSUME NEW d \in Consumers
        PROVE  /\ UnflaggedOf(consumer'[d]) = UnflaggedOf(consumer[d])
               /\ \A j \in Nat : /\ Empties(consumer'[d], j) <=> Empties(consumer[d], j)
                                 /\ Frees(consumer'[d], j) <=> Frees(consumer[d], j)
    <3>1. CASE d = c
          BY <1>2, <1>3, <1>6, <1>14, <3>1 DEF Empties, Frees, Emptying
    <3>2. CASE d # c
      <4>1. consumer'[d] = consumer[d]
            BY <1>3, <3>2
      <4> QED
            BY <4>1
    <3> QED
          BY <3>1, <3>2
  <2>2. SameFlags
        BY <1>3, <2>1 DEF SameFlags, Unflagged
  <2> QED
        BY <2>1, <2>2 DEF SameEmptying, SameFreeing
<1>17. /\ CallInv' /\ IndexTypes' /\ RingsInv' /\ GivenUp'
       /\ FirstNum' = FirstNum /\ Top' = Top /\ UndoneNums' = UndoneNums /\ Nums' = Nums
      BY <1>3, <1>4, ProducerFrame
<1>18. EmptyingInv'
      BY <1>4, <1>16, EmptyingFrame
<1>19. RangesInv'
  <2>1. /\ headIndex \in Nat /\ headIndex' \in Nat /\ headIndex <= headIndex'
        /\ \A d \in Consumers \ {c} : consumer'[d] = consumer[d]
        BY <1>3, HeadTail
  <2>2. /\ consumer[c].end <= headIndex /\ w.pc \in Reading /\ w.pc # "next"
        BY <1>2, <1>3, <1>4 DEF RangesInv, Reading
  <2> QED
        BY <1>2, <1>3, <1>4, <1>6, <1>7, <2>1, <2>2, RangesStep
<1>20. AimRight(w, headers, Nums)
  <2>1. AimRight(consumer[c], headers, Nums)
        BY <1>3, <1>4 DEF AimInv
  <2>2. \A n : Frees(w, n) <=> Frees(consumer[c], n)
        BY <1>2, <1>3 DEF Frees
  <2> QED
        BY <1>2, <1>3, <2>1, <2>2, AimSame
<1>21. AimInv'
      BY <1>3, <1>4, <1>17, <1>20, AimStep
<1> DEFINE places == {b} \X OffsetsTaken(me)
<1>22. \A o \in OffsetsTaken(me) : elements[b][o] = Base(k) + o /\ elements[b][o] # None
  <2> SUFFICES ASSUME NEW o \in OffsetsTaken(me)
               PROVE  elements[b][o] = Base(k) + o /\ elements[b][o] # None
      OBVIOUS
  <2>1. o \in Offsets /\ Base(k) + o \in me.index .. x - 1 /\ Base(k) + o \in Nat
        BY <1>12, <1>13, PlaceIs
  <2>2. Base(k) + o \in UnmovedOf(me)
        BY <1>3, <1>4, <1>6, <1>11, <1>14, <2>1, SplitElements
  <2>3. Present(Base(k) + o)
        BY <1>6, <2>2 DEF Present
  <2>4. elements[b][o] = Base(k) + o
    <3>1. BlockRight(k, b)
          BY <1>5, <1>9, <1>10, HeldBlocks
    <3> QED
          BY <2>1, <2>3, <3>1 DEF BlockRight
  <2> QED
        BY <2>1, <2>4, BlocksAssumption
<1>23. /\ misuse' = {} /\ elements' \in [Blocks -> [Offsets -> Nat \cup {None}]]
       /\ \A a \in Blocks : elements'[a] =
            [o \in Offsets |-> IF <<a, o>> \in places THEN None ELSE elements[a][o]]
       /\ \A a \in Blocks : (\A o \in Offsets : <<a, o>> \notin places) => elements'[a] = elements[a]
  <2>1. Destroy(places)
        BY <1>3, <1>6, <1>10
  <2>2. \A p \in places : elements[p[1]][p[2]] # None
        BY <1>22
  <2>3. elements \in [Blocks -> [Offsets -> Nat \cup {None}]] /\ misuse = {}
        BY <1>4 DEF BlockTypes
  <2> HIDE DEF places
  <2> QED
        BY <2>1, <2>2, <2>3, DestroyFacts
<1>24. \A a \in Blocks : a # b => elements'[a] = elements[a]
      BY <1>23
<1>25. BlockTypes'
  <2>1. Idle' = Idle /\ Idle \subseteq Blocks
        BY <1>3, <1>4 DEF Idle, poolVars, BlockTypes
  <2>2. \A a \in Idle : elements'[a] = elements[a]
        BY <1>10, <1>24, <2>1
  <2> QED
        BY <1>3, <1>4, <1>23, <2>1, <2>2 DEF BlockTypes, poolVars
<1>26. BlockRight(k, b)'
  <2>1. BlockRight(k, b)
        BY <1>5, <1>9, <1>10, HeldBlocks
  <2>2. elements'[b] = [o \in Offsets |-> IF Present(Base(k) + o)' THEN Base(k) + o ELSE None]
    <3>1. \A o \in Offsets : (IF <<b, o>> \in places THEN None ELSE elements[b][o])
                               = IF Present(Base(k) + o)' THEN Base(k) + o ELSE None
      <4> SUFFICES ASSUME NEW o \in Offsets
                   PROVE  (IF <<b, o>> \in places THEN None ELSE elements[b][o])
                            = IF Present(Base(k) + o)' THEN Base(k) + o ELSE None
          OBVIOUS
      <4>1. Base(k) + o \in Nat
            BY PlaceIs
      <4>2. <<b, o>> \in places <=> Base(k) + o \in me.index .. x - 1
            BY <1>12
      <4>3. elements[b][o] = IF Present(Base(k) + o) THEN Base(k) + o ELSE None
            BY <2>1 DEF BlockRight
      <4>4. Present(Base(k) + o)' <=> Present(Base(k) + o) /\ Base(k) + o \notin me.index .. x - 1
            BY <1>15, <4>1
      <4> QED
            BY <4>2, <4>3, <4>4
    <3>2. elements'[b] = [o \in Offsets |-> IF <<b, o>> \in places THEN None ELSE elements[b][o]]
          BY <1>23
    <3> HIDE DEF places
    <3> QED
          BY <3>1, <3>2
  <2>3. {o \in Offsets : ~ Unflagged(Base(k) + o)'} = {o \in Offsets : ~ Unflagged(Base(k) + o)}
        BY <1>16, PlaceIs DEF SameFlags
  <2> QED
        BY <1>3, <1>17, <2>1, <2>2, <2>3 DEF BlockRight
<1>27. HeldNums' = HeldNums
      BY <1>16, <1>17, HeldFrame
<1>28. ASSUME NEW j \in HeldNums
       PROVE  BlockRight(j, at[j])' /\ EntryRight(j, at[j])'
  <2>1. j \in Nat /\ at[j] \in Blocks /\ BlockRight(j, at[j]) /\ EntryRight(j, at[j])
        BY <1>5, HeldBlocks
  <2>2. EntryRight(j, at[j])'
        BY <1>3, <1>16, <1>17, <2>1, EntryFrame
  <2>3. CASE j = k
        BY <1>10, <1>26, <2>2, <2>3
  <2>4. CASE j # k
    <3>1. at[j] # b
          BY <1>5, <1>9, <1>10, <2>4, HeldBlocks
    <3>2. elements'[at[j]] = elements[at[j]]
          BY <1>24, <2>1, <3>1
    <3>3. \A o \in Offsets : /\ Unflagged(Base(j) + o)' <=> Unflagged(Base(j) + o)
                             /\ Present(Base(j) + o)' <=> Present(Base(j) + o)
      <4> SUFFICES ASSUME NEW o \in Offsets
                   PROVE  /\ Unflagged(Base(j) + o)' <=> Unflagged(Base(j) + o)
                          /\ Present(Base(j) + o)' <=> Present(Base(j) + o)
          OBVIOUS
      <4>1. Base(j) + o \in Nat /\ Num(Base(j) + o) = j
            BY <2>1, PlaceIs
      <4>2. Base(j) + o \notin me.index .. x - 1
            BY <1>12, <2>4, <4>1
      <4> QED
            BY <1>15, <1>16, <4>1, <4>2 DEF SameFlags
    <3>4. emptied'[at[j]] = emptied[at[j]]
          BY <1>3
    <3>5. BlockRight(j, at[j])'
      <4>1. PICK a : a = at[j]
            OBVIOUS
      <4>2. BlockRight(j, a) /\ elements'[a] = elements[a] /\ emptied'[a] = emptied[a]
            BY <2>1, <3>2, <3>4, <4>1
      <4>3. tailBlock' = tailBlock /\ producer' = producer /\ FirstNum' = FirstNum
            BY <1>3, <1>17
      <4>4. BlockRight(j, a)'
            BY <2>1, <3>3, <4>2, <4>3, BlockKept
      <4> QED
            BY <4>1, <4>4
    <3> QED
          BY <2>2, <3>5
  <2> QED
        BY <2>3, <2>4
<1>29. ReadersRight(at)'
  <2> SUFFICES ASSUME NEW d \in Consumers, consumer'[d].pc \in {"move", "flag", "unlink", "free"}
               PROVE  consumer'[d].block = at[Num(consumer'[d].index)]
      BY DEF ReadersRight
  <2>1. CASE d = c
        BY <1>2, <1>3, <1>6, <1>8, <1>10, <2>1
  <2>2. CASE d # c
    <3>1. consumer'[d] = consumer[d]
          BY <1>3, <2>2
    <3> QED
          BY <1>5, <3>1 DEF BlocksRight
  <2> QED
        BY <2>1, <2>2
<1>30. Idle' = Idle
      BY <1>3 DEF Idle, poolVars
<1>31. at \in [HeldNums' -> Blocks] /\ BlocksRight(at)'
      BY <1>5, <1>27, <1>28, <1>29, <1>30 DEF BlocksRight, ReadersRight
<1> QED
  BY <1>3, <1>17, <1>18, <1>19, <1>21, <1>25, <1>31 DEF ImplicitInv

\* A consumer past its block.
LEMMA PastElements ==
  ASSUME CountersInv, RangesInv, NEW c \in Consumers, consumer[c].pc \in {"flag", "free"},
         ConsumerShape(consumer[c])
  PROVE  LET me == consumer[c]
             w == PastBlock(me)
         IN  /\ UnflaggedOf(w) = EndInBlock(me) .. me.end - 1
             /\ UnmovedOf(w) = EndInBlock(me) .. me.end - 1
             /\ w.pc \in {"idle", "next"}
             /\ w.pc = "next" =>
                  /\ w.index = EndInBlock(me) /\ w.end = me.end /\ w.header = me.header /\ w.mark = me.mark
                  /\ w.index \in Nat /\ me.index < w.index /\ w.index < w.end
                  /\ Num(w.index) = Num(me.index) + 1 /\ Offset(w.index) = 0
<1> DEFINE me == consumer[c]
<1>1. me.index \in Nat /\ me.end \in Nat /\ me.index < me.end
      BY DEF RangesInv, Reading
<1>2. PICK k \in Nat : k = Num(me.index)
      BY <1>1, NumFacts
<1>3. PICK x \in Nat : /\ x = EndInBlock(me) /\ me.index < x /\ x <= me.end
                       /\ x = me.end \/ x = Base(k + 1)
      BY <1>1, <1>2, BlockEnd
<1>4. CASE x = me.end
  <2>1. PastBlock(me) = IdleConsumer
        BY <1>3, <1>4 DEF PastBlock
  <2>2. PastBlock(me).pc = "idle"
        BY <2>1 DEF IdleConsumer
  <2>3. x .. me.end - 1 = {}
        BY <1>1, <1>4
  <2> QED
        BY <1>3, <2>2, <2>3 DEF UnflaggedOf, UnmovedOf, Reading
<1>5. CASE x # me.end
  <2>1. PastBlock(me) = [me EXCEPT !.pc = "next", !.index = x, !.block = None]
        BY <1>3, <1>5 DEF PastBlock
  <2>2. /\ PastBlock(me).pc = "next" /\ PastBlock(me).index = x /\ PastBlock(me).end = me.end
        /\ PastBlock(me).header = me.header /\ PastBlock(me).mark = me.mark
        BY <2>1 DEF ConsumerShape
  <2>3. x = Base(k + 1) /\ k + 1 \in Nat
        BY <1>3, <1>5
  <2>4. Num(x) = k + 1 /\ Offset(x) = 0
        BY <2>3, NumOfBase
  <2> QED
        BY <1>1, <1>2, <1>3, <1>5, <2>2, <2>4 DEF UnflaggedOf, UnmovedOf, Reading, Emptying
<1> QED
  BY <1>4, <1>5

\* Past a block the mark stays at the block before.
LEMMA PastAim ==
  ASSUME CountersInv, ImplicitInv, NEW c \in Consumers, consumer[c].pc \in {"flag", "free"},
         PastBlock(consumer[c]).pc = "next"
  PROVE  AimRight(PastBlock(consumer[c]), headers, Nums)
<1>1. PICK me : me = consumer[c] /\ me.pc \in {"flag", "free"} /\ ConsumerShape(me)
      BY DEF CountersInv, Shapes
<1>2. PICK w : w = PastBlock(me)
      OBVIOUS
<1>3. RangesInv /\ IndexTypes
      BY DEF ImplicitInv
<1>4. /\ w.end = me.end /\ w.header = me.header /\ w.mark = me.mark
      /\ w.index \in Nat /\ Num(w.index) = Num(me.index) + 1
      BY <1>1, <1>2, <1>3, PastElements
<1>5. me.pc \in Reading \ {"header"} /\ me.pc \in Reading
      BY <1>1 DEF Reading
<1>6. AimRight(me, headers, Nums)
      BY <1>1, <1>5 DEF ImplicitInv, AimInv
<1>7. PICK k \in Nat : k = Num(me.index)
      BY <1>1, <1>3, <1>5, ReaderRange
<1>8. PICK r \in 1 .. Len(headers) : r = me.header
      BY <1>6 DEF AimRight
<1>9. PICK h : h = headers[r]
      OBVIOUS
<1>10. PICK n \in Nat \ {0} : RingOver(h, n, Len(entries))
      BY <1>3, <1>9, RingTyped
<1>11. PICK mark \in DOMAIN h.index : mark = me.mark /\ Nums[h.index[mark]] # -1
      BY <1>1, <1>6, <1>8, <1>9 DEF AimRight
<1>12. Cong(Nums[h.index[mark]], k, Capacity(h))
      BY <1>1, <1>6, <1>7, <1>8, <1>9, <1>11 DEF AimRight
<1>13. Cong(Nums[h.index[mark]] + 1, k + 1, Capacity(h))
  <2>1. Capacity(h) \in Nat \ {0} /\ Nums[h.index[mark]] \in Int
        BY <1>3, <1>10, NumsTyped, NumberAt
  <2>2. PICK y \in Int : y = Nums[h.index[mark]]
        BY <2>1
  <2>3. y + 1 \in Int /\ k + 1 \in Int /\ (y + 1) - (k + 1) = y - k
        OBVIOUS
  <2>4. Cong(y + 1, k + 1, Capacity(h))
    <3>1. Cong(y, k, Capacity(h)) /\ k \in Int
          BY <1>12, <2>2
    <3> QED
          BY <2>1, <2>3, <3>1, CongShift
  <2> QED
        BY <2>2, <2>4
<1>14. \A i \in Num(w.index) .. Num(w.end - 1) : \E p \in DOMAIN h.index : Nums[h.index[p]] = i
  <2> SUFFICES ASSUME NEW i \in Num(w.index) .. Num(w.end - 1)
               PROVE  \E p \in DOMAIN h.index : Nums[h.index[p]] = i
      OBVIOUS
  <2>1. Num(me.end - 1) \in Nat
        BY <1>1, <1>3, <1>5, ReaderRange
  <2>2. i \in k .. Num(me.end - 1) /\ i # k
        BY <1>4, <1>7, <2>1
  <2>3. ~ Frees(me, i)
        BY <1>7, <2>2 DEF Frees
  <2> QED
        BY <1>6, <1>7, <1>8, <1>9, <2>2, <2>3 DEF AimRight
<1>15. w.pc = "next"
      BY <1>1, <1>2
<1>16. AimRight(w, headers, Nums)
      BY <1>4, <1>7, <1>8, <1>9, <1>11, <1>13, <1>14, <1>15 DEF AimRight
<1> QED
  BY <1>1, <1>2, <1>16

\* A dequeue flags the elements it has moved out; who flags the last returns the block.
LEMMA FlagStep ==
  ASSUME CountersInv, CountersInv', ImplicitInv, alive, NEW c \in Consumers, FlagAndCount(c)
  PROVE  ImplicitInv'
<1> DEFINE w == IF NowEmpty(consumer[c]) THEN [consumer[c] EXCEPT !.pc = "unlink"] ELSE PastBlock(consumer[c])
<1>1. ConsumerShape(consumer[c]) /\ consumer = [d \in Consumers |-> consumer[d]]
      BY DEF CountersInv, Shapes
<1>3. /\ consumer'[c] = w /\ \A d \in Consumers \ {c} : consumer'[d] = consumer[d]
      /\ consumer[c].pc = "flag" /\ consumer[c].pc \in Reading \ {"header"} /\ consumer[c].pc \in Reading
      /\ UNCHANGED <<headIndex, tailIndex, tailBlock, producer, alive, elements, poolVars, headers, entries>>
      /\ SetManyEmpty(consumer[c].block, OffsetsTaken(consumer[c]))
  <2>1. consumer' = [consumer EXCEPT ![c] = w]
        BY DEF FlagAndCount
  <2>2. consumer'[c] = w /\ \A d \in Consumers \ {c} : consumer'[d] = consumer[d]
        BY <1>1, <2>1, ConsumerStep
  <2> QED
        BY <2>2 DEF FlagAndCount, counterVars, implicitVars, Reading
<1>2. /\ NowEmpty(consumer[c]) =>
           /\ w.pc = "unlink" /\ w.index = consumer[c].index /\ w.end = consumer[c].end
           /\ w.header = consumer[c].header /\ w.mark = consumer[c].mark /\ w.block = consumer[c].block
      /\ ~ NowEmpty(consumer[c]) => w = PastBlock(consumer[c])
      BY <1>1 DEF ConsumerShape
<1> HIDE DEF w
<1>4. /\ CallInv /\ IndexTypes /\ RingsInv /\ GivenUp /\ RangesInv /\ EmptyingInv /\ BlockTypes /\ AimInv
      BY DEF ImplicitInv
<1>5. PICK at \in [HeldNums -> Blocks] : BlocksRight(at)
      BY DEF ImplicitInv
<1>6. PICK me : me = consumer[c]
      OBVIOUS
<1>7. me.index \in Nat /\ me.end \in Nat /\ me.index < me.end /\ me.end <= headIndex
      BY <1>3, <1>4, <1>6, ReaderRange
<1>8. PICK k \in Nat : k = Num(me.index)
      BY <1>7, NumFacts
<1>9. k \in HeldNums
  <2>1. k \in Num(consumer[c].index) .. Num(consumer[c].end - 1)
        BY <1>3, <1>4, <1>6, <1>8, ReaderRange
  <2>2. headIndex <= tailIndex /\ producer.taken \in Seq(Blocks)
        BY <1>4, HeadTail DEF CallInv
  <2> QED
        BY <1>3, <1>4, <2>1, <2>2, ReaderHolds
<1>10. PICK b \in Blocks : b = at[k] /\ b = me.block /\ b \notin Idle
  <2>1. at[k] \in Blocks /\ at[k] \notin Idle
        BY <1>5, <1>9, HeldBlocks
  <2>2. me.block = at[k]
        BY <1>3, <1>5, <1>6, <1>8 DEF BlocksRight
  <2> QED
        BY <2>1, <2>2
<1>11. PICK x \in Nat : x = EndInBlock(me) /\ me.index < x /\ x <= me.end
      BY <1>7, BlockEnd
<1>12. /\ \A i \in me.index .. x - 1 : Num(i) = k /\ i = Base(k) + Offset(i)
       /\ \A o \in Offsets : o \in OffsetsTaken(me) <=> Base(k) + o \in me.index .. x - 1
      BY <1>7, <1>8, <1>11, TakenPlaces
<1>13. OffsetsTaken(me) \subseteq Offsets
      BY <1>7, <1>11, NumFacts DEF OffsetsTaken
<1>14. /\ UnflaggedOf(me) = me.index .. me.end - 1 /\ UnmovedOf(me) = x .. me.end - 1
       /\ UnflaggedOf(w) = x .. me.end - 1 /\ UnmovedOf(w) = x .. me.end - 1
  <2>1. UnflaggedOf(me) = me.index .. me.end - 1 /\ UnmovedOf(me) = x .. me.end - 1
        BY <1>3, <1>6, <1>11 DEF UnmovedOf, UnflaggedOf, Reading, Emptying
  <2>2. CASE NowEmpty(me)
    <3>1. EndInBlock(w) = EndInBlock(me)
          BY <1>2, <1>6, <2>2 DEF EndInBlock
    <3> QED
          BY <1>2, <1>6, <1>11, <2>1, <2>2, <3>1 DEF UnmovedOf, UnflaggedOf, Reading, Emptying
  <2>3. CASE ~ NowEmpty(me)
    <3>1. w = PastBlock(consumer[c])
          BY <1>2, <1>6, <2>3
    <3> QED
          BY <1>1, <1>3, <1>4, <1>6, <1>11, <2>1, <3>1, PastElements
  <2> QED
        BY <2>2, <2>3
<1>15. ASSUME NEW i \in Nat
       PROVE  Unflagged(i)' <=> Unflagged(i) /\ i \notin me.index .. x - 1
  <2>2. Unflagged(i)' <=> \/ i >= headIndex \/ i \in UnflaggedOf(w)
                          \/ \E d \in Consumers \ {c} : i \in UnflaggedOf(consumer[d])
        BY <1>3 DEF Unflagged
  <2>3. Unflagged(i) <=> \/ i >= headIndex \/ i \in UnflaggedOf(me)
                         \/ \E d \in Consumers \ {c} : i \in UnflaggedOf(consumer[d])
        BY <1>6 DEF Unflagged
  <2>4. i \in me.index .. me.end - 1 =>
          i < headIndex /\ \A d \in Consumers \ {c} : i \notin UnflaggedOf(consumer[d])
        BY <1>3, <1>4, <1>6, OwnElements
  <2>5. i \in UnflaggedOf(me) <=> i \in me.index .. x - 1 \/ i \in UnflaggedOf(w)
        BY <1>3, <1>4, <1>6, <1>11, <1>14, SplitElements
  <2>6. ~ (i \in me.index .. x - 1 /\ i \in UnflaggedOf(w))
        BY <1>3, <1>4, <1>6, <1>11, <1>14, SplitElements
  <2>7. i < headIndex => ~ (i >= headIndex)
        BY HeadTail
  <2>8. i \in me.index .. x - 1 => i \in me.index .. me.end - 1
        BY <1>14, <2>5
  <2> QED
        BY <2>2, <2>3, <2>4, <2>5, <2>6, <2>7, <2>8
<1>16. SamePresent
  <2>1. Constructed' = Constructed
        BY <1>3 DEF Constructed
  <2>2. \A d \in Consumers : UnmovedOf(consumer'[d]) = UnmovedOf(consumer[d])
    <3> SUFFICES ASSUME NEW d \in Consumers
                 PROVE  UnmovedOf(consumer'[d]) = UnmovedOf(consumer[d])
        OBVIOUS
    <3>1. CASE d = c
          BY <1>3, <1>6, <1>14, <3>1
    <3>2. CASE d # c
      <4>1. consumer'[d] = consumer[d]
            BY <1>3, <3>2
      <4> QED
            BY <4>1
    <3> QED
          BY <3>1, <3>2
  <2> QED
        BY <1>3, <2>1, <2>2 DEF SamePresent, Present
<1>17. /\ CallInv' /\ IndexTypes' /\ RingsInv' /\ GivenUp'
       /\ FirstNum' = FirstNum /\ Top' = Top /\ UndoneNums' = UndoneNums /\ Nums' = Nums
      BY <1>3, <1>4, ProducerFrame
<1>18. emptied[b] = {o \in Offsets : ~ Unflagged(Base(k) + o)} /\ emptied \in [Blocks -> SUBSET Offsets]
  <2>1. BlockRight(k, b)
        BY <1>5, <1>9, <1>10, HeldBlocks
  <2> QED
        BY <1>4, <2>1 DEF BlockRight, BlockTypes
<1>19. /\ emptied'[b] = {o \in Offsets : ~ Unflagged(Base(k) + o)'}
       /\ \A a \in Blocks : a # b => emptied'[a] = emptied[a]
       /\ emptied' \in [Blocks -> SUBSET Offsets] /\ misuse' = {}
  <2>1. emptied' = [emptied EXCEPT ![b] = @ \cup OffsetsTaken(me)]
        BY <1>3, <1>6, <1>10 DEF SetManyEmpty
  <2>2. emptied'[b] = emptied[b] \cup OffsetsTaken(me) /\ \A a \in Blocks : a # b => emptied'[a] = emptied[a]
        BY <1>18, <2>1
  <2>3. \A o \in Offsets : o \in emptied[b] \cup OffsetsTaken(me) <=> ~ Unflagged(Base(k) + o)'
        BY <1>12, <1>15, <1>18, PlaceIs
  <2>4. emptied[b] \cap OffsetsTaken(me) = {}
    <3> SUFFICES ASSUME NEW o \in OffsetsTaken(me)
                 PROVE  o \notin emptied[b]
        OBVIOUS
    <3>1. o \in Offsets /\ Base(k) + o \in me.index .. x - 1 /\ Base(k) + o \in Nat
          BY <1>12, <1>13, PlaceIs
    <3>2. Base(k) + o \in UnflaggedOf(me)
          BY <1>3, <1>4, <1>6, <1>11, <1>14, <3>1, SplitElements
    <3> QED
          BY <1>6, <1>18, <3>2 DEF Unflagged
  <2>5. misuse' = {}
        BY <1>3, <1>4, <1>6, <1>10, <2>4 DEF SetManyEmpty, BlockTypes
  <2>6. emptied' \in [Blocks -> SUBSET Offsets]
        BY <1>13, <1>18, <2>1
  <2>7. emptied[b] \subseteq Offsets
        BY <1>18
  <2> QED
        BY <1>13, <2>2, <2>3, <2>5, <2>6, <2>7
<1>20. NowEmpty(me) <=> \A o \in Offsets : ~ Unflagged(Base(k) + o)'
  <2>1. NowEmpty(me) <=> emptied[b] \cup OffsetsTaken(me) = Offsets
        BY <1>10 DEF NowEmpty
  <2>2. \A o \in Offsets : o \in emptied[b] \cup OffsetsTaken(me) <=> ~ Unflagged(Base(k) + o)'
        BY <1>12, <1>15, <1>18, PlaceIs
  <2>3. emptied[b] \subseteq Offsets
        BY <1>18
  <2> QED
        BY <1>13, <2>1, <2>2, <2>3
<1>21. ASSUME NEW d \in Consumers, NEW j \in Nat
       PROVE  /\ Empties(consumer[d], j)' <=> Empties(consumer[d], j) \/ (NowEmpty(me) /\ d = c /\ j = k)
              /\ Frees(consumer[d], j)' <=> Frees(consumer[d], j)
  <2>1. CASE d # c
    <3>1. consumer'[d] = consumer[d]
          BY <1>3, <2>1
    <3> QED
          BY <2>1, <3>1
  <2>2. CASE d = c
    <3>1. ~ Empties(consumer[c], j) /\ ~ Frees(consumer[c], j)
          BY <1>3 DEF Empties, Frees, Emptying
    <3>2. w.pc \in {"unlink", "idle", "next"}
          BY <1>1, <1>2, <1>3, <1>4, <1>6, PastElements
    <3>3. ~ Frees(w, j)
          BY <3>2 DEF Frees
    <3>4. CASE NowEmpty(me)
          BY <1>2, <1>3, <1>6, <1>8, <2>2, <3>1, <3>3, <3>4 DEF Empties, Emptying
    <3>5. CASE ~ NowEmpty(me)
      <4>1. w.pc \in {"idle", "next"}
            BY <1>1, <1>2, <1>3, <1>4, <1>6, <3>5, PastElements
      <4>2. ~ Empties(w, j)
            BY <4>1 DEF Empties, Emptying
      <4> QED
            BY <1>3, <2>2, <3>1, <3>3, <3>5, <4>2
    <3> QED
          BY <3>4, <3>5
  <2> QED
        BY <2>1, <2>2
<1>22. SameFreeing
      BY <1>21 DEF SameFreeing
<1>23. Unflagged(Base(k) + Offset(me.index)) /\ Offset(me.index) \in Offsets
  <2>1. me.index \in UnflaggedOf(me) /\ me.index = Base(k) + Offset(me.index) /\ Offset(me.index) \in Offsets
    <3>1. me.index \in me.index .. me.end - 1
          BY <1>7
    <3>2. me.index = Base(Num(me.index)) + Offset(me.index) /\ Offset(me.index) \in Offsets
          BY <1>7, NumFacts
    <3> QED
          BY <1>8, <1>14, <3>1, <3>2
  <2> QED
        BY <1>6, <2>1 DEF Unflagged
<1>24. EmptyingInv'
  <2> SUFFICES ASSUME NEW d \in Consumers, NEW j \in Nat, Empties(consumer[d], j)'
               PROVE  /\ \A o \in Offsets : ~ Unflagged(Base(j) + o)'
                      /\ \A a \in Consumers : Empties(consumer[a], j)' => a = d
      BY DEF EmptyingInv
  <2>1. CASE Empties(consumer[d], j)
    <3>1. /\ \A o \in Offsets : ~ Unflagged(Base(j) + o)
          /\ \A a \in Consumers : Empties(consumer[a], j) => a = d
          BY <1>4, <2>1 DEF EmptyingInv
    <3>2. j # k
          BY <1>23, <3>1
    <3> QED
          BY <1>15, <1>21, <3>1, <3>2, PlaceIs
  <2>2. CASE NowEmpty(me) /\ d = c /\ j = k
    <3>1. \A a \in Consumers : ~ Empties(consumer[a], k)
          BY <1>4, <1>23 DEF EmptyingInv
    <3> QED
          BY <1>20, <1>21, <2>2, <3>1
  <2> QED
        BY <1>21, <2>1, <2>2
<1>25. HeldNums' = HeldNums
  <2>1. ASSUME NEW j \in Nat
        PROVE  (\/ \E o \in Offsets : Unflagged(Base(j) + o)'
                \/ \E d \in Consumers : Empties(consumer[d], j)')
               <=> (\/ \E o \in Offsets : Unflagged(Base(j) + o)
                    \/ \E d \in Consumers : Empties(consumer[d], j))
    <3>1. CASE j = k
      <4>1. \E o \in Offsets : Unflagged(Base(k) + o)
            BY <1>23
      <4>2. NowEmpty(me) \/ \E o \in Offsets : Unflagged(Base(k) + o)'
            BY <1>20
      <4> QED
            BY <1>21, <3>1, <4>1, <4>2
    <3>2. CASE j # k
      <4>1. \A o \in Offsets : Unflagged(Base(j) + o)' <=> Unflagged(Base(j) + o)
        <5> SUFFICES ASSUME NEW o \in Offsets
                     PROVE  Unflagged(Base(j) + o)' <=> Unflagged(Base(j) + o)
            OBVIOUS
        <5>1. Base(j) + o \in Nat /\ Num(Base(j) + o) = j
              BY PlaceIs
        <5>2. Base(j) + o \notin me.index .. x - 1
              BY <1>12, <3>2, <5>1
        <5> QED
              BY <1>15, <5>1, <5>2
      <4>2. \A d \in Consumers : Empties(consumer[d], j)' <=> Empties(consumer[d], j)
            BY <1>21, <3>2
      <4> QED
            BY <4>1, <4>2
    <3> QED
          BY <3>1, <3>2
  <2>2. \A j \in 0 .. Top : j \in Nat
        OBVIOUS
  <2> QED
        BY <1>17, <2>1, <2>2 DEF HeldNums
<1>26. RangesInv'
  <2>1. /\ headIndex \in Nat /\ headIndex' \in Nat /\ headIndex <= headIndex'
        /\ \A d \in Consumers \ {c} : consumer'[d] = consumer[d]
        BY <1>3, HeadTail
  <2>2. CASE NowEmpty(me)
    <3>1. w.pc = "unlink" /\ w.index = me.index /\ w.end = me.end /\ w.pc \in Reading
          BY <1>2, <1>6, <2>2 DEF Reading
    <3> QED
          BY <1>3, <1>4, <1>6, <1>7, <2>1, <3>1, RangesStep
  <2>3. CASE ~ NowEmpty(me)
    <3>1. /\ w.pc \in {"idle", "next"}
          /\ w.pc = "next" =>
               /\ w.end = me.end /\ w.index \in Nat /\ me.index < w.index /\ w.index < w.end
               /\ Offset(w.index) = 0
          BY <1>1, <1>2, <1>3, <1>4, <1>6, <2>3, PastElements
    <3>2. w.pc \in Reading \cup {"idle", "test", "claim", "check", "give_back", "take"}
          BY <3>1 DEF Reading
    <3>3. w.pc \in Reading => w.pc = "next"
          BY <3>1 DEF Reading
    <3> QED
          BY <1>3, <1>4, <1>6, <1>7, <2>1, <3>1, <3>2, <3>3, RangesStep
  <2> QED
        BY <2>2, <2>3
<1>27. w.pc \in Reading \ {"header"} => AimRight(w, headers, Nums)
  <2>1. CASE NowEmpty(me)
    <3>1. AimRight(consumer[c], headers, Nums)
          BY <1>3, <1>4 DEF AimInv
    <3>2. \A n : Frees(w, n) <=> Frees(consumer[c], n)
          BY <1>2, <1>3, <1>6, <2>1 DEF Frees
    <3> QED
          BY <1>2, <1>3, <1>6, <2>1, <3>1, <3>2, AimSame
  <2>2. CASE ~ NowEmpty(me)
    <3>1. w.pc \in {"idle", "next"} /\ w = PastBlock(consumer[c])
          BY <1>1, <1>2, <1>3, <1>4, <1>6, <2>2, PastElements
    <3>2. w.pc \in Reading => w.pc = "next"
          BY <3>1 DEF Reading
    <3> QED
          BY <1>3, <3>1, <3>2, PastAim
  <2> QED
        BY <2>1, <2>2
<1>28. AimInv'
      BY <1>3, <1>4, <1>17, <1>27, AimStep
<1>29. BlockTypes'
  <2>1. Idle' = Idle
        BY <1>3 DEF Idle, poolVars
  <2> QED
        BY <1>3, <1>4, <1>19, <2>1 DEF BlockTypes, poolVars
<1>30. ASSUME NEW j \in HeldNums
       PROVE  BlockRight(j, at[j])' /\ EntryRight(j, at[j])'
  <2>1. j \in Nat /\ at[j] \in Blocks /\ BlockRight(j, at[j]) /\ EntryRight(j, at[j])
        BY <1>5, HeldBlocks
  <2>2. EntryRight(j, at[j])'
        BY <1>3, <1>17, <1>22, <2>1, EntryFrame
  <2>3. CASE j = k
    <3>1. BlockRight(k, b)
          BY <1>10, <2>1, <2>3
    <3>2. [o \in Offsets |-> IF Present(Base(k) + o)' THEN Base(k) + o ELSE None]
            = [o \in Offsets |-> IF Present(Base(k) + o) THEN Base(k) + o ELSE None]
          BY <1>16, PlaceIs DEF SamePresent
    <3>3. BlockRight(k, b)'
          BY <1>3, <1>17, <1>19, <3>1, <3>2 DEF BlockRight
    <3> QED
          BY <1>10, <2>2, <2>3, <3>3
  <2>4. CASE j # k
    <3>1. at[j] # b
          BY <1>5, <1>9, <1>10, <2>4, HeldBlocks
    <3>3. \A o \in Offsets : /\ Unflagged(Base(j) + o)' <=> Unflagged(Base(j) + o)
                             /\ Present(Base(j) + o)' <=> Present(Base(j) + o)
      <4> SUFFICES ASSUME NEW o \in Offsets
                   PROVE  /\ Unflagged(Base(j) + o)' <=> Unflagged(Base(j) + o)
                          /\ Present(Base(j) + o)' <=> Present(Base(j) + o)
          OBVIOUS
      <4>1. Base(j) + o \in Nat /\ Num(Base(j) + o) = j
            BY <2>1, PlaceIs
      <4>2. Base(j) + o \notin me.index .. x - 1
            BY <1>12, <2>4, <4>1
      <4> QED
            BY <1>15, <1>16, <4>1, <4>2 DEF SamePresent
    <3>5. BlockRight(j, at[j])'
      <4>1. PICK a : a = at[j]
            OBVIOUS
      <4>2. BlockRight(j, a) /\ elements'[a] = elements[a] /\ emptied'[a] = emptied[a]
            BY <1>3, <1>19, <2>1, <3>1, <4>1
      <4>3. tailBlock' = tailBlock /\ producer' = producer /\ FirstNum' = FirstNum
            BY <1>3, <1>17
      <4>4. BlockRight(j, a)'
            BY <2>1, <3>3, <4>2, <4>3, BlockKept
      <4> QED
            BY <4>1, <4>4
    <3> QED
          BY <2>2, <3>5
  <2> QED
        BY <2>3, <2>4
<1>31. ReadersRight(at)'
  <2> SUFFICES ASSUME NEW d \in Consumers, consumer'[d].pc \in {"move", "flag", "unlink", "free"}
               PROVE  consumer'[d].block = at[Num(consumer'[d].index)]
      BY DEF ReadersRight
  <2>1. CASE d = c
    <3>1. NowEmpty(me)
          BY <1>1, <1>2, <1>3, <1>4, <1>6, <2>1, PastElements
    <3> QED
          BY <1>2, <1>3, <1>6, <1>8, <1>10, <2>1, <3>1
  <2>2. CASE d # c
    <3>1. consumer'[d] = consumer[d]
          BY <1>3, <2>2
    <3> QED
          BY <1>5, <3>1 DEF BlocksRight
  <2> QED
        BY <2>1, <2>2
<1>32. Idle' = Idle
      BY <1>3 DEF Idle, poolVars
<1>33. at \in [HeldNums' -> Blocks] /\ BlocksRight(at)'
      BY <1>5, <1>25, <1>30, <1>31, <1>32 DEF BlocksRight, ReadersRight
<1> QED
  BY <1>3, <1>17, <1>24, <1>26, <1>28, <1>29, <1>33 DEF ImplicitInv

\* A value is stored in an entry.
LEMMA ValueStored ==
  ASSUME IndexTypes, NEW e \in 1 .. Len(entries), NEW v \in Blocks \cup {None},
         entries' = [entries EXCEPT ![e].value = v]
  PROVE  /\ Len(entries') = Len(entries) /\ Nums' = Nums
         /\ entries' \in Seq([key : Nat, value : Blocks \cup {None, Uninit}])
         /\ entries'[e].value = v
         /\ \A f \in 1 .. Len(entries) :
              /\ entries'[f].key = entries[f].key
              /\ f # e => entries'[f].value = entries[f].value
<1>1. /\ Len(entries) \in Nat /\ entries = [f \in 1 .. Len(entries) |-> entries[f]]
      /\ \A f \in 1 .. Len(entries) : entries[f] \in [key : Nat, value : Blocks \cup {None, Uninit}]
      /\ entries \in Seq([key : Nat, value : Blocks \cup {None, Uninit}])
      BY NumsTyped DEF IndexTypes
<1>2. PICK w : w = [entries[e] EXCEPT !.value = v]
      OBVIOUS
<1>3. w \in [key : Nat, value : Blocks \cup {None, Uninit}] /\ w.value = v /\ w.key = entries[e].key
      BY <1>1, <1>2
<1>4. entries' = [entries EXCEPT ![e] = w]
      BY <1>2
<1>5. /\ Len(entries') = Len(entries) /\ entries'[e] = w
      /\ \A f \in 1 .. Len(entries) : f # e => entries'[f] = entries[f]
      /\ entries' \in Seq([key : Nat, value : Blocks \cup {None, Uninit}])
      BY <1>1, <1>3, <1>4
<1>6. \A f \in 1 .. Len(entries) : entries'[f].key = entries[f].key
      BY <1>3, <1>5
<1>7. Nums' = Nums
      BY <1>5, <1>6 DEF Nums
<1> QED
  BY <1>3, <1>5, <1>6, <1>7

\* It does not change where the entries are.
LEMMA ValueFrame ==
  ASSUME IndexTypes, NEW e \in 1 .. Len(entries), NEW v \in Blocks \cup {None},
         entries' = [entries EXCEPT ![e].value = v], headers' = headers
  PROVE  IndexTypes'
<1>1. /\ Len(entries') = Len(entries) /\ Nums' = Nums
      /\ entries' \in Seq([key : Nat, value : Blocks \cup {None, Uninit}])
      /\ \A f \in 1 .. Len(entries) : entries'[f].key = entries[f].key
      BY ValueStored
<1> QED
  BY <1>1 DEF IndexTypes

\* The block is taken out of the index,
LEMMA UnlinkStep ==
  ASSUME CountersInv, CountersInv', ImplicitInv, alive, NEW c \in Consumers, Unlink(c)
  PROVE  ImplicitInv'
<1> DEFINE w == [consumer[c] EXCEPT !.pc = "free"]
<1>1. ConsumerShape(consumer[c]) /\ consumer = [d \in Consumers |-> consumer[d]]
      BY DEF CountersInv, Shapes
<1>2. /\ w.pc = "free" /\ w.index = consumer[c].index /\ w.end = consumer[c].end
      /\ w.header = consumer[c].header /\ w.mark = consumer[c].mark /\ w.block = consumer[c].block
      BY <1>1 DEF ConsumerShape
<1>3. /\ consumer'[c] = w /\ \A d \in Consumers \ {c} : consumer'[d] = consumer[d]
      /\ consumer[c].pc = "unlink" /\ consumer[c].pc \in Reading \ {"header"} /\ consumer[c].pc \in Reading
      /\ UNCHANGED <<headIndex, tailIndex, tailBlock, producer, alive, elements, emptied, poolVars,
                     misuse, headers>>
      /\ entries' = [entries EXCEPT ![headers[consumer[c].header].index[consumer[c].mark]].value = None]
  <2>1. consumer' = [consumer EXCEPT ![c] = w]
        BY DEF Unlink
  <2>2. consumer'[c] = w /\ \A d \in Consumers \ {c} : consumer'[d] = consumer[d]
        BY <1>1, <2>1, ConsumerStep
  <2> QED
        BY <2>2 DEF Unlink, counterVars, blockVars, poolVars, Reading
<1> HIDE DEF w
<1>4. /\ CallInv /\ IndexTypes /\ RingsInv /\ GivenUp /\ RangesInv /\ EmptyingInv /\ BlockTypes /\ AimInv
      BY DEF ImplicitInv
<1>5. PICK at \in [HeldNums -> Blocks] : BlocksRight(at)
      BY DEF ImplicitInv
<1>6. PICK me : me = consumer[c]
      OBVIOUS
<1>7. me.index \in Nat /\ me.end \in Nat /\ me.index < me.end /\ me.end <= headIndex
      BY <1>3, <1>4, <1>6, ReaderRange
<1>8. PICK k \in Nat : k = Num(me.index)
      BY <1>7, NumFacts
<1>9. AimRight(me, headers, Nums)
      BY <1>3, <1>4, <1>6 DEF AimInv
<1>10. PICK r \in 1 .. Len(headers) : r = me.header
      BY <1>9 DEF AimRight
<1>11. PICK h : h = headers[r]
      OBVIOUS
<1>12. PICK n \in Nat \ {0} : RingOver(h, n, Len(entries))
      BY <1>4, <1>11, RingTyped
<1>13. PICK p \in DOMAIN h.index : h.index[p] \in 1 .. Len(entries) /\ Nums[h.index[p]] = k
  <2>1. ~ Frees(consumer[c], k)
        BY <1>3 DEF Frees
  <2>2. \E q \in DOMAIN headers[consumer[c].header].index :
          LET e == headers[consumer[c].header].index[q]
          IN  e \in 1 .. Len(entries) /\ Nums[e] = k /\ entries[e].value = at[k] /\ at[k] \in Blocks
    <3>1. k = Num(consumer[c].index)
          BY <1>6, <1>8
    <3>2. consumer[c].pc \in Reading \ {"header"}
          BY <1>3
    <3> QED
          BY <1>5, <2>1, <3>1, <3>2, AimPlace, SMTT(30)
  <2> QED
        BY <1>6, <1>10, <1>11, <2>2
<1>14. me.mark = p
  <2>1. /\ me.mark \in DOMAIN h.index /\ Nums[h.index[me.mark]] # -1
        /\ Cong(Nums[h.index[me.mark]], k, Capacity(h))
        BY <1>3, <1>6, <1>8, <1>9, <1>10, <1>11 DEF AimRight
  <2>2. IsRing(h, n) /\ Capacity(h) = n
        BY <1>12, RingFacts DEF RingOver
  <2>3. \A q \in DOMAIN h.index : Nums[h.index[q]] \in Int
        BY <1>4, <1>12, NumsTyped, NumberAt
  <2>4. Ordered(h, Nums)
        BY <1>4, <1>11, RingsOrdered
  <2>5. Nums[h.index[p]] # -1 /\ Cong(Nums[h.index[me.mark]], Nums[h.index[p]], n)
        BY <1>13, <2>1, <2>2
  <2> QED
        BY <2>1, <2>2, <2>3, <2>4, <2>5, SamePlace
<1>15. PICK e \in 1 .. Len(entries) : e = h.index[p] /\ Nums[e] = k
      BY <1>13
<1>16. entries' = [entries EXCEPT ![e].value = None]
      BY <1>3, <1>6, <1>10, <1>11, <1>14, <1>15
<1>17. /\ Len(entries') = Len(entries) /\ Nums' = Nums
       /\ entries'[e].value = None
       /\ \A f \in 1 .. Len(entries) : f # e => entries'[f].value = entries[f].value
       /\ IndexTypes'
  <2>1. None \in Blocks \cup {None}
        OBVIOUS
  <2> QED
    <3>1. IndexTypes /\ headers' = headers /\ None \in Blocks \cup {None}
          BY <1>3, <1>4
    <3>2. IndexTypes'
          BY <1>16, <3>1, ValueFrame
    <3>3. /\ Len(entries') = Len(entries) /\ Nums' = Nums /\ entries'[e].value = None
          /\ \A f \in 1 .. Len(entries) : f # e => entries'[f].value = entries[f].value
          BY <1>16, <3>1, ValueStored, ZenonT(30)
    <3> QED
          BY <3>2, <3>3
<1>18. /\ UnflaggedOf(w) = UnflaggedOf(me) /\ UnmovedOf(w) = UnmovedOf(me)
  <2>1. EndInBlock(w) = EndInBlock(me)
        BY <1>2, <1>6 DEF EndInBlock
  <2> QED
        BY <1>2, <1>3, <1>6, <2>1 DEF UnmovedOf, UnflaggedOf, Reading, Emptying
<1>19. SameFlags /\ SamePresent /\ SameEmptying
  <2>1. ASSUME NEW d \in Consumers
        PROVE  /\ UnflaggedOf(consumer'[d]) = UnflaggedOf(consumer[d])
               /\ UnmovedOf(consumer'[d]) = UnmovedOf(consumer[d])
               /\ \A j \in Nat : Empties(consumer'[d], j) <=> Empties(consumer[d], j)
    <3>1. CASE d = c
          BY <1>2, <1>3, <1>6, <1>18, <3>1 DEF Empties, Emptying
    <3>2. CASE d # c
      <4>1. consumer'[d] = consumer[d]
            BY <1>3, <3>2
      <4> QED
            BY <4>1
    <3> QED
          BY <3>1, <3>2
  <2>2. SameFlags
        BY <1>3, <2>1 DEF SameFlags, Unflagged
  <2>3. Constructed' = Constructed
        BY <1>3 DEF Constructed
  <2>4. SamePresent
        BY <1>3, <2>1, <2>3 DEF SamePresent, Present
  <2> QED
        BY <2>1, <2>2, <2>4 DEF SameEmptying
<1>20. FirstNum' = FirstNum /\ Top' = Top
      BY <1>3 DEF FirstNum, FirstBase, Top
<1>21. UndoneNums' = UndoneNums /\ NumAtTail' = NumAtTail
      BY <1>3, <1>20 DEF UndoneNums, NumAtTail
<1>22. CallInv'
      BY <1>3, <1>4, <1>20 DEF CallInv
<1>23. RingsInv'
  <2>1. headers # <<>>
        BY <1>4 DEF IndexTypes
  <2> QED
        BY <1>3, <1>4, <1>17, <1>20, <1>21, <2>1 DEF RingsInv, blockIndex, NewTail
<1>24. GivenUp'
      BY <1>3, <1>4, <1>17, <1>20, <1>21 DEF GivenUp
<1>25. RangesInv'
  <2>1. /\ headIndex \in Nat /\ headIndex' \in Nat /\ headIndex <= headIndex'
        /\ \A d \in Consumers \ {c} : consumer'[d] = consumer[d]
    <3>1. headIndex \in Nat /\ headIndex <= headIndex
          BY HeadTail
    <3>2. headIndex' = headIndex
          BY <1>3
    <3>3. \A d \in Consumers \ {c} : consumer'[d] = consumer[d]
          BY <1>3
    <3> QED
          BY <3>1, <3>2, <3>3
  <2>2. w.pc \in Reading /\ w.pc # "next"
        BY <1>2 DEF Reading
  <2> QED
    <3>1. w.index = me.index /\ w.end = me.end /\ consumer[c].index = me.index /\ consumer[c].end = me.end
          BY <1>2, <1>6
    <3>2. w.index \in Nat /\ w.end \in Nat /\ w.index < w.end /\ w.end <= headIndex
          BY <1>7, <3>1
    <3>3. w.end <= headIndex'
      <4>1. headIndex' = headIndex
            BY <1>3
      <4> QED
            BY <3>2, <4>1
    <3>4. consumer[c].index <= w.index /\ w.end = consumer[c].end
      <4>1. me.index <= me.index
            BY <1>7
      <4> QED
            BY <3>1, <4>1
    <3>5. consumer[c].pc \in Reading
          BY <1>3
    <3>6. consumer'[c] = w
          BY <1>3
    <3> QED
          BY <1>4, <2>1, <2>2, <3>2, <3>3, <3>4, <3>5, <3>6, RangesStep
<1>26. EmptyingInv'
      BY <1>4, <1>19, EmptyingFrame
<1>27. BlockTypes'
  <2>1. Idle' = Idle
        BY <1>3 DEF Idle, poolVars
  <2> QED
        BY <1>3, <1>4, <2>1 DEF BlockTypes, poolVars
<1>28. AimRight(w, headers, Nums)
  <2>1. \A i : ~ Frees(w, i) => ~ Frees(me, i)
        BY <1>3, <1>6 DEF Frees
  <2> QED
        BY <1>2, <1>3, <1>6, <1>9, <2>1, AimSame
<1>29. AimInv'
      BY <1>3, <1>4, <1>17, <1>28, AimStep
<1>30. HeldNums' = HeldNums
      BY <1>19, <1>20, HeldFrame
<1>31. ASSUME NEW j \in HeldNums
       PROVE  BlockRight(j, at[j])' /\ EntryRight(j, at[j])'
  <2>1. j \in Nat /\ BlockRight(j, at[j]) /\ EntryRight(j, at[j])
        BY <1>5, HeldBlocks
  <2>2. BlockRight(j, at[j])'
        BY <1>3, <1>19, <1>20, <2>1, BlockFrame
  <2>3. Indexed(j)' => Indexed(j) /\ j # k
    <3>1. ASSUME Indexed(j)'
          PROVE  Indexed(j) /\ j # k
      <4>1. ~ Frees(w, j)
            BY <1>3, <3>1 DEF Indexed
      <4>2. j # k
            BY <1>2, <1>6, <1>8, <4>1 DEF Frees
      <4>3. \A d \in Consumers : ~ Frees(consumer[d], j)
        <5> SUFFICES ASSUME NEW d \in Consumers
                     PROVE  ~ Frees(consumer[d], j)
            OBVIOUS
        <5>1. CASE d = c
              BY <1>3, <5>1 DEF Frees
        <5>2. CASE d # c
          <6>1. consumer'[d] = consumer[d]
                BY <1>3, <5>2
          <6> QED
                BY <3>1, <6>1 DEF Indexed
        <5> QED
              BY <5>1, <5>2
      <4> QED
            BY <1>21, <3>1, <4>2, <4>3 DEF Indexed
    <3> QED
          BY <3>1
  <2>4. Indexed(j)' => \E f \in 1 .. Len(entries) : Nums[f] = j /\ entries'[f].value = at[j]
    <3> SUFFICES ASSUME Indexed(j)'
                 PROVE  \E f \in 1 .. Len(entries) : Nums[f] = j /\ entries'[f].value = at[j]
        OBVIOUS
    <3>1. PICK f \in 1 .. Len(entries) : Nums[f] = j /\ entries[f].value = at[j]
          BY <2>1, <2>3 DEF EntryRight
    <3>2. f # e
          BY <1>15, <2>3, <3>1
    <3> QED
          BY <1>17, <3>1, <3>2
  <2>5. EntryRight(j, at[j])'
        BY <1>17, <1>21, <2>1, <2>4 DEF EntryRight
  <2> QED
        BY <2>2, <2>5
<1>32. ReadersRight(at)'
  <2> SUFFICES ASSUME NEW d \in Consumers, consumer'[d].pc \in {"move", "flag", "unlink", "free"}
               PROVE  consumer'[d].block = at[Num(consumer'[d].index)]
      BY DEF ReadersRight
  <2>1. CASE d = c
        BY <1>2, <1>3, <1>5, <2>1 DEF BlocksRight
  <2>2. CASE d # c
    <3>1. consumer'[d] = consumer[d]
          BY <1>3, <2>2
    <3> QED
          BY <1>5, <3>1 DEF BlocksRight
  <2> QED
        BY <2>1, <2>2
<1>33. Idle' = Idle
      BY <1>3 DEF Idle, poolVars
<1>34. at \in [HeldNums' -> Blocks] /\ BlocksRight(at)'
      BY <1>5, <1>30, <1>31, <1>32, <1>33 DEF BlocksRight, ReadersRight
<1> QED
  BY <1>3, <1>17, <1>22, <1>23, <1>24, <1>25, <1>26, <1>27, <1>29, <1>34 DEF ImplicitInv

\* given to the free list,
LEMMA FreedIdle ==
  ASSUME NEW bs \in SUBSET Blocks, AddToFreeList(bs),
         unusedPool \subseteq Blocks, heap \subseteq Blocks, freeList \subseteq Blocks
  PROVE  /\ Idle' = Idle \cup bs
         /\ unusedPool' \subseteq Blocks /\ heap' \subseteq Blocks /\ freeList' \subseteq Blocks
<1>1. CASE RECYCLE_ALLOCATED_BLOCKS
      BY <1>1 DEF AddToFreeList, Idle
<1>2. CASE ~ RECYCLE_ALLOCATED_BLOCKS
      BY <1>2 DEF AddToFreeList, Idle
<1> QED
  BY <1>1, <1>2

\* A block of which no element is present holds none.
LEMMA EmptyBlock ==
  ASSUME NEW k \in Nat, NEW b, BlockRight(k, b),
         \A o \in Offsets : ~ Present(Base(k) + o)
  PROVE  elements[b] = [o \in Offsets |-> None]
BY DEF BlockRight

\* and idle from then on.
LEMMA FreeStep ==
  ASSUME CountersInv, CountersInv', ImplicitInv, alive, NEW c \in Consumers, FreeBlock(c)
  PROVE  ImplicitInv'
<1> DEFINE w == PastBlock(consumer[c])
<1>1. ConsumerShape(consumer[c]) /\ consumer = [d \in Consumers |-> consumer[d]]
      BY DEF CountersInv, Shapes
<1>3. /\ consumer'[c] = w /\ \A d \in Consumers \ {c} : consumer'[d] = consumer[d]
      /\ consumer[c].pc = "free" /\ consumer[c].pc \in Reading \ {"header"} /\ consumer[c].pc \in Reading
      /\ UNCHANGED <<headIndex, tailIndex, tailBlock, producer, alive, elements, emptied,
                     misuse, headers, entries>>
      /\ AddToFreeList({consumer[c].block})
  <2>1. consumer' = [consumer EXCEPT ![c] = w]
        BY DEF FreeBlock
  <2>2. consumer'[c] = w /\ \A d \in Consumers \ {c} : consumer'[d] = consumer[d]
        BY <1>1, <2>1, ConsumerStep
  <2> QED
        BY <2>2 DEF FreeBlock, counterVars, implicitVars, Reading
<1> HIDE DEF w
<1>w. w = PastBlock(consumer[c])
      BY DEF w
<1>4. /\ CallInv /\ IndexTypes /\ RingsInv /\ GivenUp /\ RangesInv /\ EmptyingInv /\ BlockTypes /\ AimInv
      BY DEF ImplicitInv
<1>5. PICK at \in [HeldNums -> Blocks] : BlocksRight(at)
      BY DEF ImplicitInv
<1>6. PICK me : me = consumer[c]
      OBVIOUS
<1>7. me.index \in Nat /\ me.end \in Nat /\ me.index < me.end /\ me.end <= headIndex
      BY <1>3, <1>4, <1>6, ReaderRange
<1>8. PICK k \in Nat : k = Num(me.index)
      BY <1>7, NumFacts
<1>9. k \in HeldNums
  <2>1. k \in Num(consumer[c].index) .. Num(consumer[c].end - 1)
        BY <1>3, <1>4, <1>6, <1>8, ReaderRange
  <2>2. headIndex <= tailIndex /\ producer.taken \in Seq(Blocks)
        BY <1>4, HeadTail DEF CallInv
  <2> QED
        BY <1>3, <1>4, <2>1, <2>2, ReaderHolds
<1>10. PICK b \in Blocks : b = at[k] /\ b = me.block
  <2>1. at[k] \in Blocks
        BY <1>5, <1>9, HeldBlocks
  <2>2. me.block = at[k]
        BY <1>3, <1>5, <1>6, <1>8 DEF BlocksRight
  <2> QED
        BY <2>1, <2>2
<1>11. /\ w.pc \in {"idle", "next"}
       /\ w.pc = "next" =>
            /\ w.end = me.end /\ w.index \in Nat /\ me.index < w.index /\ w.index < w.end
            /\ Offset(w.index) = 0
       /\ UnflaggedOf(w) = UnflaggedOf(me) /\ UnmovedOf(w) = UnmovedOf(me)
  <2>1. UnflaggedOf(me) = EndInBlock(me) .. me.end - 1 /\ UnmovedOf(me) = EndInBlock(me) .. me.end - 1
        BY <1>3, <1>6 DEF UnflaggedOf, UnmovedOf, Emptying
  <2>2. consumer[c].pc \in {"flag", "free"}
        BY <1>3
  <2> QED
        BY <1>1, <1>4, <1>6, <1>w, <2>1, <2>2, PastElements
<1>12. ASSUME NEW d \in Consumers
       PROVE  /\ UnflaggedOf(consumer'[d]) = UnflaggedOf(consumer[d])
              /\ UnmovedOf(consumer'[d]) = UnmovedOf(consumer[d])
              /\ \A j \in Nat : /\ Empties(consumer'[d], j) <=> Empties(consumer[d], j) /\ d # c
                                /\ Frees(consumer'[d], j) <=> Frees(consumer[d], j) /\ d # c
  <2>1. CASE d = c
        BY <1>3, <1>6, <1>11, <2>1 DEF Empties, Frees, Emptying
  <2>2. CASE d # c
    <3>1. consumer'[d] = consumer[d]
          BY <1>3, <2>2
    <3> QED
          BY <2>2, <3>1
  <2> QED
        BY <2>1, <2>2
<1>13. SameFlags /\ SamePresent
  <2>1. SameFlags
        BY <1>3, <1>12 DEF SameFlags, Unflagged
  <2>2. Constructed' = Constructed
        BY <1>3 DEF Constructed
  <2>3. SamePresent
        BY <1>3, <1>12, <2>2 DEF SamePresent, Present
  <2> QED
        BY <2>1, <2>3
<1>14. \A j \in Nat : Empties(consumer[c], j) <=> j = k
      BY <1>3, <1>6, <1>8 DEF Empties, Emptying
<1>15. \A j \in Nat : Frees(consumer[c], j) <=> j = k
      BY <1>3, <1>6, <1>8 DEF Frees
<1>16. /\ \A o \in Offsets : ~ Unflagged(Base(k) + o)
       /\ \A d \in Consumers : Empties(consumer[d], k) => d = c
      BY <1>4, <1>14 DEF EmptyingInv
<1>17. /\ CallInv' /\ IndexTypes' /\ RingsInv' /\ GivenUp'
       /\ FirstNum' = FirstNum /\ Top' = Top /\ UndoneNums' = UndoneNums /\ Nums' = Nums
      BY <1>3, <1>4, ProducerFrame
<1>18. EmptyingInv'
  <2> SUFFICES ASSUME NEW d \in Consumers, NEW j \in Nat, Empties(consumer[d], j)'
               PROVE  /\ \A o \in Offsets : ~ Unflagged(Base(j) + o)'
                      /\ \A a \in Consumers : Empties(consumer[a], j)' => a = d
      BY DEF EmptyingInv
  <2>1. Empties(consumer[d], j)
        BY <1>12
  <2>2. /\ \A o \in Offsets : ~ Unflagged(Base(j) + o)
        /\ \A a \in Consumers : Empties(consumer[a], j) => a = d
        BY <1>4, <2>1 DEF EmptyingInv
  <2>3. \A o \in Offsets : ~ Unflagged(Base(j) + o)'
        BY <1>13, <2>2, PlaceIs DEF SameFlags
  <2> QED
        BY <1>12, <2>2, <2>3
<1>19. ASSUME NEW j \in Nat
       PROVE  j \in HeldNums' <=> j \in HeldNums /\ j # k
  <2>1. \A o \in Offsets : Unflagged(Base(j) + o)' <=> Unflagged(Base(j) + o)
        BY <1>13, PlaceIs DEF SameFlags
  <2>2. CASE j = k
    <3>1. \A o \in Offsets : ~ Unflagged(Base(j) + o)'
          BY <1>16, <2>1, <2>2
    <3>2. \A d \in Consumers : ~ Empties(consumer[d], j)'
          BY <1>12, <1>16, <2>2
    <3> QED
          BY <2>2, <3>1, <3>2 DEF HeldNums
  <2>3. CASE j # k
    <3>1. \A d \in Consumers : Empties(consumer[d], j)' <=> Empties(consumer[d], j)
          BY <1>12, <1>14, <2>3
    <3> QED
          BY <1>17, <2>1, <2>3, <3>1 DEF HeldNums
  <2> QED
        BY <2>2, <2>3
<1>20. HeldNums' = HeldNums \ {k}
  <2>1. \A j \in HeldNums : j \in Nat
        BY DEF HeldNums
  <2>2. \A j \in HeldNums' : j \in Nat
        BY DEF HeldNums
  <2> QED
        BY <1>19, <2>1, <2>2
<1>21. /\ Idle' = Idle \cup {b}
       /\ unusedPool' \subseteq Blocks /\ heap' \subseteq Blocks /\ freeList' \subseteq Blocks
  <2>1. {b} \in SUBSET Blocks /\ AddToFreeList({b})
        BY <1>3, <1>6, <1>10
  <2>2. unusedPool \subseteq Blocks /\ heap \subseteq Blocks /\ freeList \subseteq Blocks
        BY <1>4 DEF BlockTypes
  <2> QED
        BY <2>1, <2>2, FreedIdle
<1>22. elements[b] = [o \in Offsets |-> None]
  <2>1. \A o \in Offsets : ~ Present(Base(k) + o)
        BY <1>4, <1>16, PlaceIs, PresentUnflagged
  <2>2. BlockRight(k, b)
        BY <1>5, <1>9, <1>10, HeldBlocks
  <2> QED
        BY <2>1, <2>2, EmptyBlock
<1>23. BlockTypes'
      BY <1>3, <1>4, <1>21, <1>22 DEF BlockTypes
<1>24. RangesInv'
  <2>1. /\ headIndex \in Nat /\ headIndex' \in Nat /\ headIndex <= headIndex'
        /\ \A d \in Consumers \ {c} : consumer'[d] = consumer[d]
        BY <1>3, HeadTail
  <2>2. w.pc \in Reading \cup {"idle", "test", "claim", "check", "give_back", "take"}
        BY <1>11 DEF Reading
  <2>3. w.pc \in Reading => w.pc = "next"
        BY <1>11 DEF Reading
  <2> QED
        BY <1>3, <1>4, <1>6, <1>7, <1>11, <2>1, <2>2, <2>3, RangesStep
<1>25. w.pc \in Reading \ {"header"} => AimRight(w, headers, Nums)
  <2>1. w.pc \in Reading => w.pc = "next"
        BY <1>11 DEF Reading
  <2> QED
        BY <1>3, <1>w, <2>1, PastAim
<1>26. AimInv'
      BY <1>3, <1>4, <1>17, <1>25, AimStep
<1>at. PICK at2 : at2 = [j \in HeldNums \ {k} |-> at[j]]
      OBVIOUS
<1>27. at2 \in [HeldNums' -> Blocks] /\ \A j \in HeldNums' : at2[j] = at[j] /\ j \in HeldNums /\ j # k
      BY <1>20, <1>at
<1>28. ASSUME NEW j \in HeldNums'
       PROVE  BlockRight(j, at2[j])' /\ EntryRight(j, at2[j])'
  <2>1. j \in Nat /\ BlockRight(j, at[j]) /\ EntryRight(j, at[j]) /\ j # k
        BY <1>5, <1>27, HeldBlocks
  <2>2. BlockRight(j, at[j])'
        BY <1>3, <1>13, <1>17, <2>1, BlockFrame
  <2>3. Indexed(j)' <=> Indexed(j)
    <3>1. \A d \in Consumers : Frees(consumer[d], j)' <=> Frees(consumer[d], j)
          BY <1>12, <1>15, <2>1
    <3> QED
          BY <1>17, <3>1 DEF Indexed
  <2>4. EntryRight(j, at[j])'
        BY <1>3, <1>17, <2>1, <2>3 DEF EntryRight
  <2> QED
        BY <1>27, <2>2, <2>4
<1>29. ReadersRight(at2)'
  <2> SUFFICES ASSUME NEW d \in Consumers, consumer'[d].pc \in {"move", "flag", "unlink", "free"}
               PROVE  consumer'[d].block = at2[Num(consumer'[d].index)]
      BY DEF ReadersRight
  <2>1. d # c /\ consumer'[d] = consumer[d]
        BY <1>3, <1>11
  <2>2. consumer[d].pc \in Reading
        BY <2>1 DEF Reading
  <2>3. PICK j \in Nat : /\ j = Num(consumer[d].index)
                         /\ j \in Num(consumer[d].index) .. Num(consumer[d].end - 1)
        BY <1>4, <2>2, ReaderRange
  <2>4. j \in HeldNums
    <3>1. headIndex <= tailIndex /\ producer.taken \in Seq(Blocks)
          BY <1>4, HeadTail DEF CallInv
    <3> QED
          BY <1>4, <2>2, <2>3, <3>1, ReaderHolds
  <2>5. j # k
    <3>1. ~ Empties(consumer[d], k)
          BY <1>16, <2>1
    <3> SUFFICES ASSUME j = k
                 PROVE  FALSE
        OBVIOUS
    <3>2. \E o \in Offsets : Base(k) + o \in UnflaggedOf(consumer[d])
          BY <1>4, <2>2, <2>3, <3>1, ReaderUnflagged
    <3> QED
          BY <1>16, <3>2 DEF Unflagged
  <2>6. j \in HeldNums'
        BY <1>20, <2>4, <2>5
  <2> QED
        BY <1>5, <1>27, <2>1, <2>3, <2>6 DEF BlocksRight
<1>30. BlocksRight(at2)'
  <2>1. \A i, j \in HeldNums' : at2[i] = at2[j] => i = j
        BY <1>5, <1>27 DEF BlocksRight
  <2>2. Blocks \ Idle' = {at2[j] : j \in HeldNums'}
    <3>1. Blocks \ Idle = {at[j] : j \in HeldNums}
          BY <1>5 DEF BlocksRight
    <3>2. \A j \in HeldNums : at[j] = b => j = k
          BY <1>5, <1>9, <1>10 DEF BlocksRight
    <3>3. {at2[j] : j \in HeldNums'} = {at[j] : j \in HeldNums \ {k}}
          BY <1>20, <1>27
    <3> QED
          BY <1>10, <1>21, <3>1, <3>2, <3>3, ZenonT(30)
  <2> QED
        BY <1>28, <1>29, <2>1, <2>2 DEF BlocksRight, ReadersRight
<1> QED
  BY <1>3, <1>17, <1>18, <1>23, <1>24, <1>26, <1>27, <1>30 DEF ImplicitInv

===============================================================================
