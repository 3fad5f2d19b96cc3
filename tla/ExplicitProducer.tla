-------------------------- MODULE ExplicitProducer --------------------------
(***************************************************************************)
(* The producer of a token.  It keeps its blocks in a circular list and    *)
(* fills again the one ahead of it when that is empty; consumers only set  *)
(* flags.  Its block index is a ring of [base, block], copied into a ring  *)
(* of twice the size when all its places are used.                         *)
(*                                                                         *)
(* enqueue of one element is enqueue_bulk of one: it flags a new block     *)
(* once and writes the index entry after the copy, which only an undo      *)
(* could tell.                                                             *)
(***************************************************************************)
EXTENDS ProducerBase

CONSTANTS
  EXPLICIT_INITIAL_INDEX_SIZE,
  MayUndo   \* whether a call may fail after it has added a block

VARIABLES
  rings,                   \* the block indexes, oldest first: [front, entries]
  pr_blockIndexSlotsUsed,
  pr_blockIndexFront       \* the next place, not the current one

explicitVars == <<rings, pr_blockIndexSlotsUsed, pr_blockIndexFront>>

EmptyEntry == [base |-> 0, block |-> None]
Ring(size, front, filled) ==
  [front   |-> front,
   entries |-> [i \in 0 .. size - 1 |-> IF i < Len(filled) THEN filled[i + 1] ELSE EmptyEntry]]

\* The constructor, with or without memory for the index.
ExplicitInit ==
  /\ pr_blockIndexSlotsUsed = 0 /\ pr_blockIndexFront = 0
  /\ \/ rings = <<Ring(EXPLICIT_INITIAL_INDEX_SIZE, EXPLICIT_INITIAL_INDEX_SIZE - 1, <<>>)>>
     \/ rings = <<>>

ring == Last(rings)
RingSize(r) == Cardinality(DOMAIN r.entries)
IndexSize == IF rings = <<>> THEN EXPLICIT_INITIAL_INDEX_SIZE \div 2 ELSE RingSize(ring)

\* The entries in use, oldest first.
UsedEntries ==
  [i \in 1 .. pr_blockIndexSlotsUsed |->
     ring.entries[(pr_blockIndexFront + IndexSize - pr_blockIndexSlotsUsed + i - 1) % IndexSize]]

\* new_block_index: front is exposed at the place of the last entry the call
\* found.
NewRing(exposed) ==
  rings' = Append(rings,
    Ring(2 * IndexSize, (exposed + 2 * IndexSize - 1) % (2 * IndexSize),
         IF rings = <<>> THEN <<>> ELSE UsedEntries))

(***************************************************************************)
(* Enqueue                                                                 *)
(***************************************************************************)

\* The blocks a call has added are producer.taken; start, front and used are
\* what an undo restores.
ExplicitEnqueue(n, canAlloc) ==
  /\ alive /\ producer.pc = "idle" /\ tailIndex + n <= MaxElements
  /\ producer' = [IdleProducer EXCEPT
       !.pc = IF BasesNeeded(n) = {} THEN "construct" ELSE "ahead",
       !.count = n, !.canAlloc = canAlloc, !.base = FirstBase, !.start = tailBlock,
       !.front = pr_blockIndexFront, !.used = pr_blockIndexSlotsUsed]
  /\ UNCHANGED <<counterVars, tailBlock, consumer, alive, blockVars, explicitVars>>

\* Block b is the next one of the call: the tail block, and in the index.
Add(b, pc) ==
  /\ tailBlock' = b
  /\ rings' = [rings EXCEPT ![Len(rings)].entries[pr_blockIndexFront] =
                 [base |-> producer.base, block |-> b]]
  /\ pr_blockIndexFront' = (pr_blockIndexFront + 1) % IndexSize
  /\ LET p == [producer EXCEPT !.base = @ + BLOCK_SIZE, !.taken = Append(@, b)]
     IN  producer' = [p EXCEPT !.pc = IF HasAllBlocks(p) THEN "construct" ELSE pc]

\* The block ahead can be filled again.
AheadEmpty ==
  /\ tailBlock # None
  /\ producer.taken # <<>> => nextBlock[tailBlock] # producer.taken[1]
  /\ IsEmpty(nextBlock[tailBlock])

ReuseAhead ==
  /\ producer.pc = "ahead" /\ AheadEmpty
  /\ Add(nextBlock[tailBlock], "ahead")
  /\ UNCHANGED <<counterVars, consumer, alive, blockVars, pr_blockIndexSlotsUsed>>

NoneAhead ==
  /\ producer.pc = "ahead" /\ ~AheadEmpty
  /\ producer' = [producer EXCEPT !.pc = "room"]
  /\ UNCHANGED <<counterVars, tailBlock, consumer, alive, blockVars, explicitVars>>

IndexFull == rings = <<>> \/ pr_blockIndexSlotsUsed = IndexSize

\* The index and the producer have room for one more block.
Room ==
  /\ producer.pc = "room" /\ ~(IndexFull \/ Full(producer.base))
  /\ producer' = [producer EXCEPT !.pc = "block"]
  /\ UNCHANGED <<counterVars, tailBlock, consumer, alive, blockVars, explicitVars>>

\* new_block_index; an undo falls back to the place after the last entry the
\* call found.
GrowRing ==
  /\ producer.pc = "room" /\ IndexFull /\ ~Full(producer.base) /\ producer.canAlloc
  /\ NewRing(producer.used)
  /\ pr_blockIndexFront' = IF rings = <<>> THEN 0 ELSE pr_blockIndexSlotsUsed
  /\ producer' = [producer EXCEPT !.pc = "block", !.front = producer.used]
  /\ UNCHANGED <<counterVars, tailBlock, consumer, alive, blockVars, pr_blockIndexSlotsUsed>>

\* The call fails: the blocks it added stay in the list.
Undo ==
  /\ (producer.taken # <<>> => MayUndo)
  /\ pr_blockIndexFront' = producer.front
  /\ pr_blockIndexSlotsUsed' = producer.used
  /\ tailBlock' = IF producer.start # None THEN producer.start
                  ELSE IF producer.taken # <<>> THEN producer.taken[1] ELSE None
  /\ producer' = IdleProducer
  /\ UNCHANGED <<counterVars, consumer, alive, elements, nextBlock, poolVars, misuse, rings>>

NoRoom ==
  /\ producer.pc = "room" /\ (IndexFull \/ Full(producer.base))
  /\ Undo
  /\ UNCHANGED emptied

NoBlock ==
  /\ producer.pc = "block" /\ Requisitionable(FALSE) = {}
  /\ Undo
  /\ UNCHANGED emptied

\* The new block into the circular list, after the tail block.
Linked(b) ==
  IF tailBlock = None THEN [nextBlock EXCEPT ![b] = b]
  ELSE [nextBlock EXCEPT ![b] = nextBlock[tailBlock], ![tailBlock] = b]

\* requisition_block, set_all_empty, and the block into the list and the index.
InsertBlock ==
  /\ producer.pc = "block"
  /\ \E b \in Requisitionable(producer.canAlloc) :
       /\ Requisition(b)
       /\ emptied' = [emptied EXCEPT ![b] = Offsets]
       /\ nextBlock' = Linked(b)
       /\ Add(b, "room")
       /\ pr_blockIndexSlotsUsed' = pr_blockIndexSlotsUsed + 1
  /\ UNCHANGED <<counterVars, consumer, alive, elements, misuse>>

ResetTaken == [b \in Blocks |-> IF b \in ToSet(producer.taken) THEN {} ELSE emptied[b]]

\* reset_empty for the blocks of the call, and the elements.
ConstructInto ==
  /\ producer.pc = "construct"
  /\ Construct(tailIndex, tailIndex + producer.count, BlockOf(producer))
  /\ emptied' = ResetTaken
  /\ producer' = [producer EXCEPT !.pc = IF producer.taken = <<>> THEN "commit" ELSE "publish"]
  /\ UNCHANGED <<counterVars, tailBlock, consumer, alive, nextBlock, poolVars, explicitVars>>

\* The same when a copy throws: the blocks stay in the list, not flagged empty.
ConstructIntoThrows ==
  /\ producer.pc = "construct"
  /\ emptied' = ResetTaken
  /\ Undo

\* front.store
PublishFront ==
  /\ producer.pc = "publish"
  /\ rings' = [rings EXCEPT ![Len(rings)].front =
                 (pr_blockIndexFront + IndexSize - 1) % IndexSize]
  /\ producer' = [producer EXCEPT !.pc = "commit"]
  /\ UNCHANGED <<counterVars, tailBlock, consumer, alive, blockVars, pr_blockIndexSlotsUsed,
                 pr_blockIndexFront>>

(***************************************************************************)
(* Dequeue                                                                 *)
(***************************************************************************)

\* blockIndex.load
ReadRing(c) ==
  /\ consumer[c].pc = "header"
  /\ consumer' = [consumer EXCEPT ![c] = [@ EXCEPT !.pc = "mark", !.header = Len(rings)]]
  /\ UNCHANGED <<counterVars, tailBlock, producer, alive, blockVars, explicitVars>>

\* front.load
ReadFront(c) ==
  /\ consumer[c].pc = "mark"
  /\ consumer' = [consumer EXCEPT ![c] =
       [@ EXCEPT !.pc = "entry", !.mark = rings[consumer[c].header].front]]
  /\ UNCHANGED <<counterVars, tailBlock, producer, alive, blockVars, explicitVars>>

\* The base at front, and the block of the element.
ReadBlock(c) ==
  LET me == consumer[c]
      r == rings[me.header]
      pos == (me.mark + (BlockBase(me.index) - r.entries[me.mark].base) \div BLOCK_SIZE) % RingSize(r)
  IN  /\ me.pc = "entry"
      /\ consumer' = [consumer EXCEPT ![c] =
           [@ EXCEPT !.pc = "move", !.mark = pos, !.block = r.entries[pos].block]]
      /\ UNCHANGED <<counterVars, tailBlock, producer, alive, blockVars, explicitVars>>

ReadNextBlock(c) ==
  LET me == consumer[c]
      r == rings[me.header]
      pos == (me.mark + 1) % RingSize(r)
  IN  /\ me.pc = "next"
      /\ consumer' = [consumer EXCEPT ![c] =
           [@ EXCEPT !.pc = "move", !.mark = pos, !.block = r.entries[pos].block]]
      /\ UNCHANGED <<counterVars, tailBlock, producer, alive, blockVars, explicitVars>>

\* set_many_empty
Flag(c) ==
  LET me == consumer[c]
  IN  /\ me.pc = "flag"
      /\ SetManyEmpty(me.block, OffsetsTaken(me))
      /\ consumer' = [consumer EXCEPT ![c] = PastBlock(me)]
      /\ UNCHANGED <<counterVars, tailBlock, producer, alive, elements, nextBlock, poolVars,
                     explicitVars>>

(***************************************************************************)
(* ~ExplicitProducer                                                       *)
(***************************************************************************)

\* The blocks of the circular list, from the one after the tail block on.
ListOfBlocks ==
  LET walk[n \in Nat] ==
        IF n = 0 THEN <<nextBlock[tailBlock]>>
        ELSE LET w == walk[n - 1]
             IN  IF Last(w) = tailBlock THEN w ELSE Append(w, nextBlock[Last(w)])
  IN  IF tailBlock = None THEN <<>> ELSE walk[Cardinality(Blocks)]

\* The block the head is in the middle of: the first entry in use that does
\* not end before the head.
HalfDequeued ==
  IF Offset(headIndex) = 0 THEN None
  ELSE LET reaching == SelectSeq(UsedEntries, LAMBDA e : e.base + BLOCK_SIZE >= headIndex)
       IN  IF reaching = <<>> THEN None ELSE reaching[1].block

\* The places the destructor takes for elements.
PlacesTaken ==
  {p \in {b \in ToSet(ListOfBlocks) : ~IsEmpty(b)} \X Offsets :
     /\ p[1] = HalfDequeued => p[2] >= Offset(headIndex)
     /\ p[1] = tailBlock /\ Offset(tailIndex) # 0 => p[2] < Offset(tailIndex)}

DestroyExplicit ==
  /\ alive /\ Quiet
  /\ alive' = FALSE
  /\ Destroy(PlacesTaken)
  /\ AddToFreeList(ToSet(ListOfBlocks))
  /\ UNCHANGED <<counterVars, tailBlock, consumer, producer, emptied, nextBlock, explicitVars>>

\* enqueue_bulk
EnqueueExplicit ==
  \/ \E n \in CallSizes, canAlloc \in BOOLEAN : ExplicitEnqueue(n, canAlloc)
  \/ ReuseAhead \/ NoneAhead \/ Room \/ GrowRing \/ NoRoom \/ InsertBlock \/ NoBlock
  \/ ConstructInto \/ ConstructIntoThrows \/ PublishFront
  \/ Commit /\ UNCHANGED explicitVars

\* dequeue_bulk
DequeueExplicit(c) ==
  \/ \E max \in CallSizes : Look(c, max) /\ UNCHANGED explicitVars
  \/ (Test(c) \/ Claim(c) \/ Check(c) \/ GiveBack(c) \/ Take(c) \/ Move(c))
       /\ UNCHANGED explicitVars
  \/ ReadRing(c) \/ ReadFront(c) \/ ReadBlock(c) \/ ReadNextBlock(c) \/ Flag(c)

ExplicitNext == EnqueueExplicit \/ (\E c \in Consumers : DequeueExplicit(c)) \/ DestroyExplicit

==============================================================================
