------------------------- MODULE SubqueueInvariants -------------------------
(***************************************************************************)
(* Invariants of a sub-queue strong enough to be inductive: what the       *)
(* counters of ProducerBase add up to, how the block index of an implicit  *)
(* producer is filled, and which element is in which block.                *)
(***************************************************************************)
EXTENDS ConcurrentQueue, Integers

-------------------------------------------------------------------------------
(* ProducerBase: the counters *)

\* The sum of f over the consumers: the number of units they have.
Total(f) == Cardinality(UNION {{c} \X (1 .. f[c]) : c \in Consumers})

\* A call is a record of these fields.
ConsumerShape(me) ==
  me \in [pc : {me.pc}, tail : {me.tail}, overcommit : {me.overcommit}, count : {me.count},
          myDequeueCount : {me.myDequeueCount}, index : {me.index}, end : {me.end},
          header : {me.header}, mark : {me.mark}, block : {me.block}]

ProducerShape(p) ==
  p \in [pc : {p.pc}, count : {p.count}, canAlloc : {p.canAlloc}, base : {p.base},
         start : {p.start}, taken : {p.taken}, front : {p.front}, used : {p.used}]

Shapes ==
  /\ consumer = [c \in Consumers |-> consumer[c]]
  /\ \A c \in Consumers : ConsumerShape(consumer[c])
  /\ ProducerShape(producer) /\ producer.count \in Nat
  /\ tailIndex \in Nat /\ headIndex \in Nat
  /\ dequeueOptimisticCount \in Nat /\ dequeueOvercommit \in Nat

\* What a consumer knows while it is counting.
CountsOf(me) ==
  /\ me.pc \in {"test", "claim", "check"} => me.overcommit \in 0 .. dequeueOvercommit
  /\ me.pc \in {"test", "claim", "check", "give_back", "take"} => me.count \in Nat \ {0}
  /\ me.pc = "test" => me.tail \in Nat
  /\ me.pc = "check" => me.myDequeueCount \in 0 .. dequeueOptimisticCount - 1
  /\ me.pc = "give_back" => me.end \in 0 .. me.count - 1
  /\ me.pc = "take" => me.end = me.count

\* What a consumer has claimed and neither taken nor given back.
ClaimedOf(me) == IF me.pc \in {"check", "give_back", "take"} THEN me.count ELSE 0

\* What it may still take, if of those that have not looked at the tail again
\* the ones that claimed before place p get all they claimed.
DueOf(me, p) ==
  IF me.pc \in {"give_back", "take"} THEN me.end
  ELSE IF me.pc = "check" /\ me.myDequeueCount < p THEN me.count
  ELSE 0

Claimed == [c \in Consumers |-> ClaimedOf(consumer[c])]
Due(p) == [c \in Consumers |-> DueOf(consumer[c], p)]

\* A claim that is not granted yet is sure to be granted in full, or those
\* before it cannot take more than the place from which it counts.
ClaimCovered(c) ==
  headIndex + Total(Due(consumer[c].myDequeueCount + 1)) <= tailIndex
ClaimPlaced(c) ==
  headIndex + Total(Due(consumer[c].myDequeueCount)) <=
    consumer[c].myDequeueCount - consumer[c].overcommit

CountersInv ==
  /\ Shapes
  /\ \A c \in Consumers : CountsOf(consumer[c])
  /\ \A c, d \in Consumers :
       /\ consumer[c].pc = "check" /\ consumer[d].pc = "check"
       /\ consumer[c].myDequeueCount = consumer[d].myDequeueCount
       => c = d
  /\ dequeueOptimisticCount = dequeueOvercommit + headIndex + Total(Claimed)
  /\ headIndex + Total(Due(0)) <= tailIndex
  /\ \A c \in Consumers : consumer[c].pc = "check" => ClaimCovered(c) \/ ClaimPlaced(c)

-------------------------------------------------------------------------------
(* ImplicitProducer: the call of the producer *)

\* The first element of the n-th block of the sub-queue, and the block of the
\* i-th element.
Base(n) == BLOCK_SIZE * n
Num(i) == i \div BLOCK_SIZE

\* The blocks the producer had before its call are those below FirstNum.
FirstNum == Num(FirstBase)
Top == FirstNum + Len(producer.taken) - 1

\* The blocks of the call that an undo has taken out of the index.
UndoneNums == IF producer.pc = "undo" THEN FirstNum .. Num(producer.base) - 1 ELSE {}

\* The block whose entry the tail of the index points to.
NumAtTail ==
  IF producer.pc = "block" THEN Top + 1
  ELSE IF producer.pc = "undo" THEN Top + FirstNum - Num(producer.base)
  ELSE Top

ProducerStates == {"idle", "insert", "tail", "block", "construct", "commit", "undo"}

CallInv ==
  LET p == producer
  IN  /\ p.pc \in ProducerStates
      /\ p.taken \in Seq(Blocks)
      /\ p.pc = "idle" => p.taken = <<>>
      /\ p.pc # "idle" =>
           p.count > 0 /\ tailBlock = IF p.taken = <<>> THEN p.start ELSE Last(p.taken)
      /\ p.pc \in {"insert", "tail", "block"} =>
           p.base = Base(Top + 1) /\ p.base < tailIndex + p.count
      /\ p.pc \in {"construct", "commit"} =>
           Base(Top) < tailIndex + p.count /\ tailIndex + p.count <= Base(Top + 1)
      /\ p.pc = "undo" => \E n \in FirstNum .. Top + 1 : p.base = Base(n)
      /\ p.pc \in {"tail", "block"} => headers # <<>>

-------------------------------------------------------------------------------
(* ImplicitProducer: the index *)

\* a and b differ by a multiple of n.
Cong(a, b, n) == \E q \in Int : a = b + n * q

\* The blocks the entries are for, or were before: -1 in one never used.
NumOf(key) == IF key = INVALID_BLOCK_BASE THEN -1 ELSE Num(key)
Nums == [e \in 1 .. Len(entries) |-> NumOf(entries[e].key)]

Headers == UNION {[tail : 0 .. n - 1, index : [0 .. n - 1 -> Nat]] : n \in Nat \ {0}}

IndexTypes ==
  /\ entries \in Seq([key : Nat, value : Blocks \cup {None, Uninit}])
  /\ headers \in Seq(Headers)
  /\ \A r \in 1 .. Len(headers) : \A p \in DOMAIN headers[r].index :
       headers[r].index[p] \in 1 .. Len(entries)
  /\ \A e \in 1 .. Len(entries) : Nums[e] # -1 => entries[e].key = Base(Nums[e])

\* The newest ring, nums being the blocks of the entries and t that of the tail:
\* it has every entry at one place.  Its first v places have been used, for the
\* last of consecutive blocks from low on, and a block has the place of its
\* number, less a constant, modulo the size of the ring.
Filled(h, nums, t, v, low, off) ==
  /\ \A p \in DOMAIN h.index :
       IF p < v THEN /\ nums[h.index[p]] \in low .. low + v - 1
                     /\ Cong(nums[h.index[p]], p + off, Capacity(h))
                ELSE nums[h.index[p]] = -1
  /\ t \in low - 1 .. low + v - 1 /\ Cong(t, h.tail + off, Capacity(h))
  /\ v < Capacity(h) => Cong(low, off, Capacity(h))

NewestRing(h, nums, t) ==
  /\ \A p, q \in DOMAIN h.index : h.index[p] = h.index[q] => p = q
  /\ \A e \in DOMAIN nums : \E p \in DOMAIN h.index : h.index[p] = e
  /\ \E v \in 0 .. Capacity(h), low \in Nat, off \in Nat : Filled(h, nums, t, v, low, off)

\* An older one, g, has been filled, and keeps the order of the blocks.
OlderRing(g, h, nums) ==
  /\ \A p \in DOMAIN g.index : nums[g.index[p]] # -1
  /\ Cong(Capacity(h), 0, Capacity(g))
  /\ \E off \in Nat : \A p \in DOMAIN g.index : Cong(nums[g.index[p]], p + off, Capacity(g))

\* An entry given up by an undo may be filled again.
GivenUp ==
  \A e \in 1 .. Len(entries) :
    /\ Nums[e] > Top \/ Nums[e] \in UndoneNums
    /\ ~ (producer.pc \in {"tail", "block"} /\ Nums[e] = Top + 1)
    => entries[e].value = None

RingsInv ==
  IF headers = <<>> THEN entries = <<>> /\ tailIndex = 0 /\ producer.taken = <<>>
  ELSE /\ NewestRing(blockIndex, Nums, NumAtTail)
       /\ \A r \in 1 .. Len(headers) - 1 : OlderRing(headers[r], blockIndex, Nums)
       /\ producer.pc = "tail" => Nums[blockIndex.index[NewTail]] = Top + 1
       /\ producer.pc = "block" => Nums[blockIndex.index[blockIndex.tail]] = Top + 1

-------------------------------------------------------------------------------
(* ImplicitProducer: the elements of the consumers *)

Reading == {"header", "mark", "entry", "move", "flag", "unlink", "free", "next"}
Emptying == {"unlink", "free"}

RangesInv ==
  /\ \A c \in Consumers :
       /\ consumer[c].pc \in Reading \cup {"idle", "test", "claim", "check", "give_back", "take"}
       /\ consumer[c].pc \in Reading =>
            /\ consumer[c].index \in Nat /\ consumer[c].end \in Nat
            /\ consumer[c].index < consumer[c].end /\ consumer[c].end <= headIndex
       /\ consumer[c].pc = "next" => Offset(consumer[c].index) = 0
  /\ \A c, d \in Consumers :
       c # d /\ consumer[c].pc \in Reading /\ consumer[d].pc \in Reading =>
         \/ consumer[c].end <= consumer[d].index
         \/ consumer[d].end <= consumer[c].index

\* The elements of a consumer not flagged yet, and those not moved out yet.
UnflaggedOf(me) ==
  IF me.pc \notin Reading THEN {}
  ELSE (IF me.pc \in Emptying THEN EndInBlock(me) ELSE me.index) .. me.end - 1
UnmovedOf(me) ==
  IF me.pc \notin Reading THEN {}
  ELSE (IF me.pc \in Emptying \cup {"flag"} THEN EndInBlock(me) ELSE me.index) .. me.end - 1

Unflagged(i) == i >= headIndex \/ \E c \in Consumers : i \in UnflaggedOf(consumer[c])
Constructed == tailIndex + (IF producer.pc = "commit" THEN producer.count ELSE 0)
Present(i) ==
  \/ i \in headIndex .. Constructed - 1
  \/ \E c \in Consumers : i \in UnmovedOf(consumer[c])

\* The consumer that has emptied block k returns it.
Empties(me, k) == me.pc \in Emptying /\ Num(me.index) = k
Frees(me, k) == me.pc = "free" /\ Num(me.index) = k

EmptyingInv ==
  \A c \in Consumers, k \in Nat : Empties(consumer[c], k) =>
    /\ \A o \in Offsets : ~ Unflagged(Base(k) + o)
    /\ \A d \in Consumers : Empties(consumer[d], k) => d = c

-------------------------------------------------------------------------------
(* ImplicitProducer: the blocks *)

\* The blocks in use: those that have elements to be flagged, filled or not,
\* or are about to be returned.
HeldNums ==
  {k \in 0 .. Top : \/ \E o \in Offsets : Unflagged(Base(k) + o)
                    \/ \E c \in Consumers : Empties(consumer[c], k)}

Indexed(k) == k \notin UndoneNums /\ \A c \in Consumers : ~ Frees(consumer[c], k)

BlockRight(k, b) ==
  /\ elements[b] = [o \in Offsets |-> IF Present(Base(k) + o) THEN Base(k) + o ELSE None]
  /\ emptied[b] = {o \in Offsets : ~ Unflagged(Base(k) + o)}
  /\ k >= FirstNum => b = producer.taken[k - FirstNum + 1]
  /\ k = FirstNum - 1 => b = IF producer.pc = "idle" THEN tailBlock ELSE producer.start

EntryRight(k, b) ==
  /\ Indexed(k) => \E e \in 1 .. Len(entries) : Nums[e] = k /\ entries[e].value = b
  /\ k \in UndoneNums => \E e \in 1 .. Len(entries) : Nums[e] = k

\* at: the block of each number.
BlocksRight(at) ==
  /\ \A j, k \in HeldNums : at[j] = at[k] => j = k
  /\ Blocks \ Idle = {at[k] : k \in HeldNums}
  /\ \A k \in HeldNums : BlockRight(k, at[k]) /\ EntryRight(k, at[k])
  /\ \A c \in Consumers : consumer[c].pc \in {"move", "flag", "unlink", "free"} =>
       consumer[c].block = at[Num(consumer[c].index)]

BlockTypes ==
  /\ elements \in [Blocks -> [Offsets -> Nat \cup {None}]]
  /\ emptied \in [Blocks -> SUBSET Offsets]
  /\ unusedPool \subseteq Blocks /\ heap \subseteq Blocks /\ freeList \subseteq Blocks
  /\ \A b \in Idle : elements[b] = [o \in Offsets |-> None]
  /\ misuse = {}

-------------------------------------------------------------------------------
(* ImplicitProducer: where the consumers look *)

\* The ring a consumer has chosen has the blocks it needs, and its mark is the
\* place of the block it stands in or, on its way to the next, of the one it
\* has left; an entry filled again has moved on by whole rings.
AimRight(me, hs, nums) ==
  LET h == hs[me.header]
      k == Num(me.index)
  IN  /\ me.header \in 1 .. Len(hs)
      /\ \A n \in k .. Num(me.end - 1) : ~ Frees(me, n) =>
           \E p \in DOMAIN h.index : nums[h.index[p]] = n
      /\ me.pc # "mark" => me.mark \in DOMAIN h.index /\ nums[h.index[me.mark]] # -1
      /\ me.pc \in {"move", "flag", "unlink", "free"} =>
           Cong(nums[h.index[me.mark]], k, Capacity(h))
      /\ me.pc = "next" => Cong(nums[h.index[me.mark]] + 1, k, Capacity(h))

AimInv ==
  \A c \in Consumers : consumer[c].pc \in Reading \ {"header"} => AimRight(consumer[c], headers, Nums)

\* While the queue lives, and afterwards.
ImplicitInv ==
  /\ CallInv /\ IndexTypes /\ RingsInv /\ GivenUp /\ RangesInv /\ EmptyingInv /\ BlockTypes
  /\ AimInv
  /\ IF alive THEN \E at \in [HeldNums -> Blocks] : BlocksRight(at)
     ELSE Quiet /\ Idle = Blocks

-------------------------------------------------------------------------------
\* The parts that are no sub-queue leave the variables of one as they were.
SubqueueInv ==
  IF part = "implicit" THEN ImplicitInv ELSE part # "explicit" => BaseInit

==============================================================================
