---------------------------- MODULE ProducerBase ----------------------------
(***************************************************************************)
(* A producer of a ConcurrentQueue: the sub-queue into which one thread    *)
(* enqueues and from which any number of threads dequeue.  Here are the    *)
(* four counters of both kinds of producer and the part of a dequeue that  *)
(* decides how many elements the caller may take, and from which index.    *)
(* try_dequeue(item) is a dequeue of at most one element.                  *)
(*                                                                         *)
(* Every atomic operation of the code is a step of its own, in a single    *)
(* order: weaker orders than that are not modelled.  Indexes do not wrap   *)
(* (they have 64 bits).                                                    *)
(***************************************************************************)
EXTENDS QueueBlocks

CONSTANTS
  Consumers,          \* threads that dequeue
  MAX_SUBQUEUE_SIZE,  \* elements a producer may hold
  MaxElements,        \* bound: elements enqueued
  CallSizes,          \* bound: numbers of elements of a call
  MaxOvercommit       \* bound: no new dequeue once dequeueOvercommit is here

ASSUME CallsAssumption == IsFiniteSet(Consumers) /\ CallSizes \subseteq Nat \ {0}

VARIABLES
  tailIndex, headIndex, dequeueOptimisticCount, dequeueOvercommit,
  tailBlock,
  consumer,   \* the call each consumer is in
  producer,   \* the call the producer is in
  alive       \* the queue has not been destroyed

counterVars == <<tailIndex, headIndex, dequeueOptimisticCount, dequeueOvercommit>>
baseVars == <<tailIndex, headIndex, dequeueOptimisticCount, dequeueOvercommit, tailBlock,
              consumer, producer, alive>>

IdleConsumer ==
  [pc |-> "idle", tail |-> 0, overcommit |-> 0, count |-> 0, myDequeueCount |-> 0,
   index |-> 0, end |-> 0, header |-> 0, mark |-> 0, block |-> None]

IdleProducer ==
  [pc |-> "idle", count |-> 0, canAlloc |-> FALSE, base |-> 0, start |-> None,
   taken |-> <<>>, front |-> 0, used |-> 0]

BaseInit ==
  /\ BlocksInit
  /\ tailIndex = 0 /\ headIndex = 0 /\ dequeueOptimisticCount = 0 /\ dequeueOvercommit = 0
  /\ tailBlock = None
  /\ consumer = [c \in Consumers |-> IdleConsumer]
  /\ producer = IdleProducer
  /\ alive = TRUE

BaseTypeOK ==
  /\ BlocksTypeOK
  /\ tailIndex \in 0 .. MaxElements
  /\ headIndex \in Nat /\ dequeueOptimisticCount \in Nat /\ dequeueOvercommit \in Nat
  /\ tailBlock \in Blocks \cup {None}
  /\ \A c \in Consumers : consumer[c].count \in 0 .. Max(CallSizes) /\ consumer[c].block \in Blocks \cup {None}
  /\ alive \in BOOLEAN

(***************************************************************************)
(* Dequeue: how many, and from where                                       *)
(***************************************************************************)

\* The loads of tailIndex and dequeueOvercommit.
Look(c, max) ==
  /\ alive /\ consumer[c].pc = "idle" /\ dequeueOvercommit < MaxOvercommit
  /\ consumer' = [consumer EXCEPT ![c] =
       [IdleConsumer EXCEPT !.pc = "test", !.tail = tailIndex,
                            !.overcommit = dequeueOvercommit, !.count = max]]
  /\ UNCHANGED <<counterVars, tailBlock, producer, alive, blockVars>>

\* dequeueOptimisticCount - overcommit against the tail seen.
Test(c) ==
  LET me == consumer[c]
      there == me.tail - (dequeueOptimisticCount - me.overcommit)
  IN  /\ me.pc = "test"
      /\ consumer' = [consumer EXCEPT ![c] =
           IF there > 0 THEN [@ EXCEPT !.pc = "claim", !.tail = 0, !.count = Min({me.count, there})]
                        ELSE IdleConsumer]
      /\ UNCHANGED <<counterVars, tailBlock, producer, alive, blockVars>>

\* dequeueOptimisticCount.fetch_add
Claim(c) ==
  /\ consumer[c].pc = "claim"
  /\ dequeueOptimisticCount' = dequeueOptimisticCount + consumer[c].count
  /\ consumer' = [consumer EXCEPT ![c] =
       [@ EXCEPT !.pc = "check", !.myDequeueCount = dequeueOptimisticCount]]
  /\ UNCHANGED <<tailIndex, headIndex, dequeueOvercommit, tailBlock, producer, alive, blockVars>>

\* What the caller may take: actualCount.
Granted(me) ==
  LET actual == tailIndex - (me.myDequeueCount - me.overcommit)
  IN  Min({me.count, Max({0, actual})})

\* The second load of tailIndex.  end is the number granted until the index
\* is known.
Check(c) ==
  LET me == consumer[c]
  IN  /\ me.pc = "check"
      /\ consumer' = [consumer EXCEPT ![c] =
           [@ EXCEPT !.pc = IF Granted(me) < me.count THEN "give_back" ELSE "take",
                     !.end = Granted(me), !.myDequeueCount = 0, !.overcommit = 0]]
      /\ UNCHANGED <<counterVars, tailBlock, producer, alive, blockVars>>

\* A slip: nothing is given back when something is granted.
SurplusAllOrNone(me) == IF me.end = 0 THEN me.count ELSE 0

\* What was claimed and not granted.
Surplus(me) == me.count - me.end

\* dequeueOvercommit.fetch_add
GiveBack(c) ==
  LET me == consumer[c]
  IN  /\ me.pc = "give_back"
      /\ dequeueOvercommit' = dequeueOvercommit + Surplus(me)
      /\ consumer' = [consumer EXCEPT ![c] =
           IF me.end = 0 THEN IdleConsumer ELSE [@ EXCEPT !.pc = "take", !.count = me.end]]
      /\ UNCHANGED <<tailIndex, headIndex, dequeueOptimisticCount, tailBlock, producer, alive,
                     blockVars>>

\* headIndex.fetch_add: the elements index .. end - 1 are the caller's.
Take(c) ==
  LET me == consumer[c]
  IN  /\ me.pc = "take"
      /\ headIndex' = headIndex + me.end
      /\ consumer' = [consumer EXCEPT ![c] =
           [@ EXCEPT !.pc = "header", !.index = headIndex, !.end = headIndex + me.end, !.count = 0]]
      /\ UNCHANGED <<tailIndex, dequeueOptimisticCount, dequeueOvercommit, tailBlock, producer,
                     alive, blockVars>>

(***************************************************************************)
(* Dequeue: out of a block                                                 *)
(***************************************************************************)

\* The caller's elements in the block it stands in.
EndInBlock(me) == Min({me.end, BlockBase(me.index) + BLOCK_SIZE})
OffsetsTaken(me) == {Offset(i) : i \in me.index .. EndInBlock(me) - 1}

\* element = std::move(el); el.~T()
Move(c) ==
  LET me == consumer[c]
  IN  /\ me.pc = "move"
      /\ Destroy({me.block} \X OffsetsTaken(me))
      /\ consumer' = [consumer EXCEPT ![c].pc = "flag"]
      /\ UNCHANGED <<counterVars, tailBlock, producer, alive, emptied, nextBlock, poolVars>>

\* The caller after the block: its last one, or one more.
PastBlock(me) ==
  IF EndInBlock(me) = me.end THEN IdleConsumer
  ELSE [me EXCEPT !.pc = "next", !.index = EndInBlock(me), !.block = None]

(***************************************************************************)
(* Enqueue                                                                 *)
(***************************************************************************)

\* The base of the first block an enqueue has to find, and the bases of all.
FirstBase == IF Offset(tailIndex) = 0 THEN tailIndex ELSE BlockBase(tailIndex) + BLOCK_SIZE
BasesNeeded(n) == {BlockBase(i) : i \in FirstBase .. tailIndex + n - 1}

\* The call has the blocks it needs.
HasAllBlocks(p) == p.base \notin BasesNeeded(p.count)

\* The block of each base the call fills.
BlockOf(p) ==
  [b \in {BlockBase(i) : i \in tailIndex .. tailIndex + p.count - 1} |->
     IF b < FirstBase THEN p.start
                      ELSE p.taken[1 + (b - FirstBase) \div BLOCK_SIZE]]

\* MAX_SUBQUEUE_SIZE would be passed by one more block.
Full(base) == MAX_SUBQUEUE_SIZE = 0 \/ MAX_SUBQUEUE_SIZE - BLOCK_SIZE < base - headIndex

\* tailIndex.store
Commit ==
  /\ producer.pc = "commit"
  /\ tailIndex' = tailIndex + producer.count
  /\ producer' = IdleProducer
  /\ UNCHANGED <<headIndex, dequeueOptimisticCount, dequeueOvercommit, tailBlock, consumer,
                 alive, blockVars>>

\* Nobody is in a call: what ~ConcurrentQueue asks of its user.
Quiet == producer.pc = "idle" /\ \A c \in Consumers : consumer[c].pc = "idle"

==============================================================================
