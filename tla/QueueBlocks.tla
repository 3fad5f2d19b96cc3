----------------------------- MODULE QueueBlocks -----------------------------
(***************************************************************************)
(* The blocks of a ConcurrentQueue and the pool they come from: an initial *)
(* pool, taken once, then the free list, then the heap.  The free list is  *)
(* a set here; FreeList models its pointers and counts.                    *)
(***************************************************************************)
EXTENDS Naturals, FiniteSets, FiniteSetsExt, Sequences, SequencesExt

CONSTANTS
  BLOCK_SIZE,               \* elements of a block
  PoolBlocks,               \* blocks of the initial pool
  HeapBlocks,               \* blocks the heap can hold: a bound
  RECYCLE_ALLOCATED_BLOCKS, \* whether heap blocks go to the free list
  None                      \* nullptr

Blocks == PoolBlocks \cup HeapBlocks
Offsets == 0 .. BLOCK_SIZE - 1

ASSUME BlocksAssumption ==
  /\ BLOCK_SIZE \in Nat /\ BLOCK_SIZE > 1
  /\ PoolBlocks \cap HeapBlocks = {}
  /\ Blocks \subseteq Nat \* addresses
  /\ None \notin Nat
  /\ RECYCLE_ALLOCATED_BLOCKS \in BOOLEAN

VARIABLES
  elements,    \* block -> offset -> the element there, None for raw memory
  emptied,     \* block -> offsets flagged empty (the counter is their number)
  nextBlock,   \* block -> block: the circular list of an explicit producer
  unusedPool,  \* blocks of the initial pool not taken yet
  freeList,    \* blocks on the free list
  heap,        \* heap blocks not allocated
  misuse       \* operations on memory in the wrong state

poolVars == <<unusedPool, freeList, heap>>
blockVars == <<elements, emptied, nextBlock, unusedPool, freeList, heap, misuse>>

BlocksInit ==
  /\ elements = [b \in Blocks |-> [o \in Offsets |-> None]]
  /\ emptied = [b \in Blocks |-> {}]
  /\ nextBlock = [b \in Blocks |-> None]
  /\ unusedPool = PoolBlocks /\ freeList = {} /\ heap = HeapBlocks
  /\ misuse = {}

BlocksTypeOK ==
  /\ emptied \in [Blocks -> SUBSET Offsets]
  /\ nextBlock \in [Blocks -> Blocks \cup {None}]
  /\ unusedPool \subseteq PoolBlocks /\ heap \subseteq HeapBlocks /\ freeList \subseteq Blocks

\* Index of the first element of the block that holds element i, and its place.
BlockBase(i) == i - (i % BLOCK_SIZE)
Offset(i) == i % BLOCK_SIZE

\* is_empty and set_all_empty
IsEmpty(b) == emptied[b] = Offsets

\* requisition_block: a block of the initial pool, of the free list, or of the
\* heap when the caller may allocate.
Requisitionable(canAlloc) ==
  IF unusedPool # {} THEN {Min(unusedPool)}
  ELSE IF freeList # {} THEN freeList
  ELSE IF canAlloc /\ heap # {} THEN {Min(heap)}
  ELSE {}

\* A slip: a block may be the free list's and the producer's.
RequisitionLeaves(b) ==
  /\ unusedPool' = unusedPool \ {b}
  /\ freeList' = freeList
  /\ heap' = heap \ {b}

Requisition(b) ==
  /\ unusedPool' = unusedPool \ {b}
  /\ freeList' = freeList \ {b}
  /\ heap' = heap \ {b}

\* add_block_to_free_list, add_blocks_to_free_list: a heap block is destroyed,
\* unless heap blocks are recycled.
AddToFreeList(bs) ==
  LET destroyed == IF RECYCLE_ALLOCATED_BLOCKS THEN {} ELSE bs \cap HeapBlocks
  IN  /\ freeList' = freeList \cup (bs \ destroyed)
      /\ heap' = heap \cup destroyed
      /\ UNCHANGED unusedPool

\* Every block that nobody uses.
Idle == unusedPool \cup freeList \cup heap

\* Constructs the elements i .. j - 1 (element k is the number k) in the blocks
\* blockOf gives their bases.
Construct(i, j, blockOf) ==
  LET at == [k \in i .. j - 1 |-> <<blockOf[BlockBase(k)], Offset(k)>>]
  IN  /\ elements' = [b \in Blocks |-> [o \in Offsets |->
           IF \E k \in i .. j - 1 : at[k] = <<b, o>>
             THEN CHOOSE k \in i .. j - 1 : at[k] = <<b, o>>
             ELSE elements[b][o]]]
      /\ misuse' = misuse \cup
           {"element overwritten" : k \in {k \in i .. j - 1 : elements[at[k][1]][at[k][2]] # None}}

\* Destroys the elements at the places of a set of <<block, offset>>, whether
\* a dequeue has moved them out or the queue is being destroyed.
Destroy(places) ==
  /\ elements' = [b \in Blocks |-> [o \in Offsets |->
       IF <<b, o>> \in places THEN None ELSE elements[b][o]]]
  /\ misuse' = misuse \cup
       {"no element to destroy" : p \in {p \in places : elements[p[1]][p[2]] = None}}

\* set_many_empty: what it asserts is that the offsets were not flagged.
SetManyEmpty(b, offsets) ==
  /\ emptied' = [emptied EXCEPT ![b] = @ \cup offsets]
  /\ misuse' = misuse \cup (IF emptied[b] \cap offsets = {} THEN {} ELSE {"flagged twice"})

==============================================================================
