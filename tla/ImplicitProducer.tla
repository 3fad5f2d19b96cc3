-------------------------- MODULE ImplicitProducer --------------------------
(***************************************************************************)
(* The producer of a thread that enqueues without a token: the one this    *)
(* program uses.  Its block index is a ring of pointers to entries; when   *)
(* no entry is free a ring of twice the size takes the entries over, and   *)
(* consumers may still be reading the old one.  The consumer that empties  *)
(* a block takes it out of the index and returns it.                       *)
(***************************************************************************)
EXTENDS ProducerBase

CONSTANTS
  IMPLICIT_INITIAL_INDEX_SIZE,
  Uninit    \* the value of an entry before it is first stored

ASSUME IndexAssumption ==
  IMPLICIT_INITIAL_INDEX_SIZE \in Nat /\ IMPLICIT_INITIAL_INDEX_SIZE > 1

INVALID_BLOCK_BASE == 1

VARIABLES
  headers,  \* the rings, oldest first: [tail, index], blockIndex is the last
  entries   \* the entries: [key, value]

implicitVars == <<headers, entries>>

NewEntries(n) == [i \in 1 .. n |-> [key |-> INVALID_BLOCK_BASE, value |-> Uninit]]

\* The constructor; without memory there is no index, then or later.
ImplicitInit ==
  \/ /\ entries = NewEntries(IMPLICIT_INITIAL_INDEX_SIZE)
     /\ headers = <<[tail  |-> IMPLICIT_INITIAL_INDEX_SIZE - 1,
                     index |-> [i \in 0 .. IMPLICIT_INITIAL_INDEX_SIZE - 1 |-> i + 1]]>>
  \/ /\ entries = <<>> /\ headers = <<>>

blockIndex == Last(headers)
Capacity(h) == Cardinality(DOMAIN h.index)
NewTail == (blockIndex.tail + 1) % Capacity(blockIndex)

\* Position in ring h of the block that holds index i, seen from mark, a tail
\* of the ring: get_block_index_index_for_index.
PositionOf(i, h, mark) ==
  (mark + (BlockBase(i) - entries[h.index[mark]].key) \div BLOCK_SIZE) % Capacity(h)

\* new_block_index: the ring from the oldest entry on, then as many new ones.
NewBlockIndex ==
  LET c == Capacity(blockIndex)
  IN  /\ headers' = Append(headers,
           [tail  |-> c - 1,
            index |-> [i \in 0 .. 2 * c - 1 |->
              IF i < c THEN blockIndex.index[(blockIndex.tail + 1 + i) % c]
                       ELSE Len(entries) + i - c + 1]])
      /\ entries' = entries \o NewEntries(c)

(***************************************************************************)
(* Enqueue                                                                 *)
(***************************************************************************)

\* enqueue (one element) and enqueue_bulk.
ImplicitEnqueue(n, canAlloc) ==
  /\ alive /\ producer.pc = "idle" /\ tailIndex + n <= MaxElements
  /\ producer' = [IdleProducer EXCEPT
       !.pc = IF BasesNeeded(n) = {} THEN "construct" ELSE "insert",
       !.count = n, !.canAlloc = canAlloc, !.base = FirstBase, !.start = tailBlock]
  /\ UNCHANGED <<counterVars, tailBlock, consumer, alive, blockVars, implicitVars>>

\* The next entry of the ring may hold a new block.
EntryFree ==
  LET e == entries[blockIndex.index[NewTail]]
  IN  e.key = INVALID_BLOCK_BASE \/ e.value = None

Insertable == headers # <<>> /\ ~Full(producer.base) /\ EntryFree

\* insert_block_index_entry, up to the key.
InsertKey ==
  /\ producer.pc = "insert" /\ Insertable
  /\ entries' = [entries EXCEPT ![blockIndex.index[NewTail]].key = producer.base]
  /\ producer' = [producer EXCEPT !.pc = "tail"]
  /\ UNCHANGED <<counterVars, tailBlock, consumer, alive, blockVars, headers>>

\* insert_block_index_entry: the larger index.
GrowIndex ==
  /\ producer.pc = "insert" /\ ~Full(producer.base)
  /\ headers # <<>> /\ ~EntryFree /\ producer.canAlloc
  /\ NewBlockIndex
  /\ UNCHANGED <<counterVars, tailBlock, consumer, producer, alive, blockVars>>

\* The producer is full, or the index is and cannot grow.
InsertFails ==
  /\ producer.pc = "insert" /\ ~Insertable
  /\ producer' = [producer EXCEPT !.pc = "undo", !.base = FirstBase]
  /\ UNCHANGED <<counterVars, tailBlock, consumer, alive, blockVars, implicitVars>>

\* insert_block_index_entry: the store of tail.
InsertTail ==
  /\ producer.pc = "tail"
  /\ headers' = [headers EXCEPT ![Len(headers)].tail = NewTail]
  /\ producer' = [producer EXCEPT !.pc = "block"]
  /\ UNCHANGED <<counterVars, tailBlock, consumer, alive, blockVars, entries>>

\* requisition_block, reset_empty, and the block into the index.  No consumer
\* looks at the entry before tailIndex passes its base.
ObtainBlock ==
  /\ producer.pc = "block"
  /\ \E b \in Requisitionable(producer.canAlloc) :
       /\ Requisition(b)
       /\ emptied' = [emptied EXCEPT ![b] = {}]
       /\ entries' = [entries EXCEPT ![blockIndex.index[blockIndex.tail]].value = b]
       /\ tailBlock' = b
       /\ LET p == [producer EXCEPT !.base = @ + BLOCK_SIZE, !.taken = Append(@, b)]
          IN  producer' = [p EXCEPT !.pc = IF HasAllBlocks(p) THEN "construct" ELSE "insert"]
  /\ UNCHANGED <<counterVars, consumer, alive, elements, nextBlock, misuse, headers>>

\* rewind_block_index_tail
Rewound(h) == [h EXCEPT !.tail = (@ + Capacity(h) - 1) % Capacity(h)]

\* No block: the entry just inserted is given up.
BlockFails ==
  /\ producer.pc = "block" /\ Requisitionable(FALSE) = {}
  /\ headers' = [headers EXCEPT ![Len(headers)] = Rewound(@)]
  /\ entries' = [entries EXCEPT ![blockIndex.index[blockIndex.tail]].value = None]
  /\ producer' = [producer EXCEPT !.pc = "undo", !.base = FirstBase]
  /\ UNCHANGED <<counterVars, tailBlock, consumer, alive, blockVars>>

\* The elements are constructed.
ConstructAll ==
  /\ producer.pc = "construct"
  /\ Construct(tailIndex, tailIndex + producer.count, BlockOf(producer))
  /\ producer' = [producer EXCEPT !.pc = "commit"]
  /\ UNCHANGED <<counterVars, tailBlock, consumer, alive, emptied, nextBlock, poolVars,
                 implicitVars>>

\* A copy throws: the elements constructed so far are destroyed.
ConstructThrows ==
  /\ producer.pc = "construct"
  /\ producer' = [producer EXCEPT !.pc = "undo", !.base = FirstBase]
  /\ UNCHANGED <<counterVars, tailBlock, consumer, alive, blockVars, implicitVars>>

\* The blocks an undo still has in the index.
InIndex(p) == p.base < FirstBase + BLOCK_SIZE * Len(p.taken)

\* One block of the call out of the index.
UndoEntry ==
  LET e == blockIndex.index[PositionOf(producer.base, blockIndex, blockIndex.tail)]
  IN  /\ producer.pc = "undo" /\ InIndex(producer)
      /\ entries' = [entries EXCEPT ![e].value = None]
      /\ headers' = [headers EXCEPT ![Len(headers)] = Rewound(@)]
      /\ producer' = [producer EXCEPT !.base = @ + BLOCK_SIZE]
      /\ UNCHANGED <<counterVars, tailBlock, consumer, alive, blockVars>>

\* add_blocks_to_free_list, and the tail block the call found.
UndoBlocks ==
  /\ producer.pc = "undo" /\ ~InIndex(producer)
  /\ AddToFreeList(ToSet(producer.taken))
  /\ tailBlock' = producer.start
  /\ producer' = IdleProducer
  /\ UNCHANGED <<counterVars, consumer, alive, elements, emptied, nextBlock, misuse,
                 implicitVars>>

(***************************************************************************)
(* Dequeue                                                                 *)
(***************************************************************************)

\* blockIndex.load
ReadHeader(c) ==
  /\ consumer[c].pc = "header"
  /\ consumer' = [consumer EXCEPT ![c] = [@ EXCEPT !.pc = "mark", !.header = Len(headers)]]
  /\ UNCHANGED <<counterVars, tailBlock, producer, alive, blockVars, implicitVars>>

\* tail.load
ReadTail(c) ==
  /\ consumer[c].pc = "mark"
  /\ consumer' = [consumer EXCEPT ![c] =
       [@ EXCEPT !.pc = "entry", !.mark = headers[consumer[c].header].tail]]
  /\ UNCHANGED <<counterVars, tailBlock, producer, alive, blockVars, implicitVars>>

\* The key at that tail, the entry of the index, its value.  mark is the
\* position of the entry from here on.
ReadEntry(c) ==
  LET me == consumer[c]
      h == headers[me.header]
      pos == PositionOf(me.index, h, me.mark)
  IN  /\ me.pc = "entry"
      /\ consumer' = [consumer EXCEPT ![c] =
           [@ EXCEPT !.pc = "move", !.mark = pos, !.block = entries[h.index[pos]].value]]
      /\ UNCHANGED <<counterVars, tailBlock, producer, alive, blockVars, implicitVars>>

\* The entry after it, in the same ring.
ReadNextEntry(c) ==
  LET me == consumer[c]
      h == headers[me.header]
      pos == (me.mark + 1) % Capacity(h)
  IN  /\ me.pc = "next"
      /\ consumer' = [consumer EXCEPT ![c] =
           [@ EXCEPT !.pc = "move", !.mark = pos, !.block = entries[h.index[pos]].value]]
      /\ UNCHANGED <<counterVars, tailBlock, producer, alive, blockVars, implicitVars>>

\* A slip: a consumer that takes the last element of a block returns it, others
\* may still be moving theirs.
LastOffsetTaken(me) == BLOCK_SIZE - 1 \in OffsetsTaken(me)

\* set_many_empty returns that the block is empty now.
NowEmpty(me) == emptied[me.block] \cup OffsetsTaken(me) = Offsets

FlagAndCount(c) ==
  LET me == consumer[c]
  IN  /\ me.pc = "flag"
      /\ SetManyEmpty(me.block, OffsetsTaken(me))
      /\ consumer' = [consumer EXCEPT ![c] =
           IF NowEmpty(me) THEN [@ EXCEPT !.pc = "unlink"] ELSE PastBlock(me)]
      /\ UNCHANGED <<counterVars, tailBlock, producer, alive, elements, nextBlock, poolVars,
                     implicitVars>>

\* entry->value.store(nullptr)
Unlink(c) ==
  /\ consumer[c].pc = "unlink"
  /\ entries' = [entries EXCEPT
       ![headers[consumer[c].header].index[consumer[c].mark]].value = None]
  /\ consumer' = [consumer EXCEPT ![c].pc = "free"]
  /\ UNCHANGED <<counterVars, tailBlock, producer, alive, blockVars, headers>>

\* add_block_to_free_list
FreeBlock(c) ==
  /\ consumer[c].pc = "free"
  /\ AddToFreeList({consumer[c].block})
  /\ consumer' = [consumer EXCEPT ![c] = PastBlock(@)]
  /\ UNCHANGED <<counterVars, tailBlock, producer, alive, elements, emptied, nextBlock, misuse,
                 implicitVars>>

(***************************************************************************)
(* ~ImplicitProducer                                                       *)
(***************************************************************************)

\* The blocks freed: those of the elements left, and the tail block unless it
\* was filled and emptied, and so freed, already.
BlocksLeft ==
  LET bases == {BlockBase(i) : i \in headIndex .. tailIndex - 1}
  IN  {entries[blockIndex.index[PositionOf(b, blockIndex, blockIndex.tail)]].value : b \in bases}
        \cup (IF tailBlock # None /\ (bases # {} \/ Offset(tailIndex) # 0) THEN {tailBlock} ELSE {})

PlacesLeft ==
  {<<entries[blockIndex.index[PositionOf(i, blockIndex, blockIndex.tail)]].value, Offset(i)>> :
     i \in headIndex .. tailIndex - 1}

DestroyImplicit ==
  /\ alive /\ Quiet
  /\ alive' = FALSE
  /\ Destroy(PlacesLeft)
  /\ AddToFreeList(BlocksLeft)
  /\ UNCHANGED <<counterVars, tailBlock, consumer, producer, emptied, nextBlock, implicitVars>>

\* enqueue_bulk
EnqueueImplicit ==
  \/ \E n \in CallSizes, canAlloc \in BOOLEAN : ImplicitEnqueue(n, canAlloc)
  \/ InsertKey \/ GrowIndex \/ InsertFails \/ InsertTail \/ ObtainBlock \/ BlockFails
  \/ ConstructAll \/ ConstructThrows \/ UndoEntry \/ UndoBlocks
  \/ Commit /\ UNCHANGED implicitVars

\* dequeue_bulk
DequeueImplicit(c) ==
  \/ \E max \in CallSizes : Look(c, max) /\ UNCHANGED implicitVars
  \/ (Test(c) \/ Claim(c) \/ Check(c) \/ GiveBack(c) \/ Take(c) \/ Move(c))
       /\ UNCHANGED implicitVars
  \/ ReadHeader(c) \/ ReadTail(c) \/ ReadEntry(c) \/ ReadNextEntry(c)
  \/ FlagAndCount(c) \/ Unlink(c) \/ FreeBlock(c)

ImplicitNext == EnqueueImplicit \/ (\E c \in Consumers : DequeueImplicit(c)) \/ DestroyImplicit

==============================================================================
