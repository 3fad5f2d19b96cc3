--------------------------- MODULE ConcurrentQueue ---------------------------
(***************************************************************************)
(* The queue of a kv_pairs ring.  Its parts run concurrently but share no  *)
(* variable beyond those of the interface each part states for the others: *)
(* the free list is the set freeList to the sub-queues, a sub-queue has    *)
(* one enqueuer if OneWriter holds of the threads.  So a behaviour here is *)
(* one of a single part: a sub-queue of either kind, the free list or the  *)
(* threads that look for their sub-queues.                                 *)
(***************************************************************************)
EXTENDS ImplicitProducer, ExplicitProducer, FreeList, ImplicitProducers

CONSTANT Parts  \* the parts to look at

ASSUME PartsAssumption == Parts \subseteq {"implicit", "explicit", "free_list", "writers"}

VARIABLE part

vars == <<part, baseVars, blockVars, implicitVars, explicitVars, listVars, writersVars>>

Init ==
  /\ part \in Parts
  /\ BaseInit /\ FreeListInit /\ WritersInit
  /\ IF part = "implicit" THEN ImplicitInit ELSE headers = <<>> /\ entries = <<>>
  /\ IF part = "explicit" THEN ExplicitInit
     ELSE rings = <<>> /\ pr_blockIndexSlotsUsed = 0 /\ pr_blockIndexFront = 0

Next ==
  /\ UNCHANGED part
  /\ \/ /\ part = "implicit" /\ ImplicitNext
        /\ UNCHANGED <<explicitVars, listVars, writersVars>>
     \/ /\ part = "explicit" /\ ExplicitNext
        /\ UNCHANGED <<implicitVars, listVars, writersVars>>
     \/ /\ part = "free_list" /\ FreeListNext
        /\ UNCHANGED <<baseVars, blockVars, implicitVars, explicitVars, writersVars>>
     \/ /\ part = "writers" /\ WritersNext
        /\ UNCHANGED <<baseVars, blockVars, implicitVars, explicitVars, listVars>>

Spec == Init /\ [][Next]_vars

(***************************************************************************)
(* Properties of a sub-queue                                               *)
(***************************************************************************)

\* Whoever dequeues moves out the elements it was granted, each once and from
\* the block that holds it: however enqueues, growing indexes, blocks returned
\* and filled again interleave, no element is lost, overwritten, read before it
\* is there or destroyed twice (the comments of enqueue and dequeue; "make sure
\* the element still doesn't appear in the queue" when its copy throws).
DequeuesRight ==
  /\ misuse = {}
  /\ \A c \in Consumers : consumer[c].pc = "move" =>
       /\ consumer[c].block \in Blocks
       /\ \A i \in consumer[c].index .. EndInBlock(consumer[c]) - 1 :
            elements[consumer[c].block][Offset(i)] = i

\* The head does not pass the tail, and when nobody is dequeuing the claims
\* taken back leave exactly the elements taken: an element can be dequeued as
\* long as it is there, so the sender of the destination's keys, which asks
\* until it has had them all, gets them.
NoneStranded ==
  /\ headIndex <= tailIndex
  /\ alive /\ (\A c \in Consumers : consumer[c].pc = "idle") =>
        dequeueOptimisticCount - dequeueOvercommit = headIndex

\* Between calls, the blocks that are not idle are the ones the destructor will
\* return; after it every block is idle and every element was destroyed.
BlocksAccounted ==
  /\ alive /\ Quiet => Blocks \ Idle = IF part = "implicit" THEN BlocksLeft ELSE ToSet(ListOfBlocks)
  /\ ~alive => Idle = Blocks /\ \A b \in Blocks, o \in Offsets : elements[b][o] = None

==============================================================================
