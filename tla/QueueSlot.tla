------------------------------ MODULE QueueSlot ------------------------------
(***************************************************************************)
(* One slot of a kv_pairs ring, as the two threads of a machine really     *)
(* touch it.  SrcSst and DstSst change a slot in one step; the code changes *)
(* it through a std::shared_ptr, which is two words: the pointer that      *)
(* get() and operator-> read, and the pointer to the reference count.      *)
(* Both assignments,                                                       *)
(*     kv_pairs[q] = make_shared<ConcurrentQueue>()       (ReadKVPairs)    *)
(*     kv_pairs[q] = nullptr                              (SendKVPairs)    *)
(* move a temporary into the slot: they store the pointer, load the old    *)
(* count, store the new one, and release the old one, with no lock between *)
(* the two threads.  The pair RecvKVPairs and WriteKVPairs of the          *)
(* destination has the same lines.                                         *)
(*                                                                         *)
(* The files of the slot (q, q + num_queues, ...) are numbered 0, 1, ...,  *)
(* and each queue is named after its file.                                 *)
(***************************************************************************)
EXTENDS Integers

CONSTANTS
  NumSlotFiles,   \* files that use the slot
  NumPairs,       \* pairs of each of them
  NoQueue

SlotFiles == 0 .. NumSlotFiles - 1

ASSUME SlotAssumption == NumPairs \in Nat \ {0} /\ NumSlotFiles \in Nat /\ NoQueue \notin SlotFiles

VARIABLES
  ptr,        \* the slot's pointer: the queue of a file, or NoQueue
  ctl,        \* the slot's reference count: that of a queue, or NoQueue
  use_count,  \* reference count of each queue
  enqueued,   \* pairs put in each queue
  sent,       \* pairs taken from each queue
  producer,   \* ReadKVPairs: pc, file, and old = the count it took out of the slot
  consumer    \* SendKVPairs: the same

slotVars == <<ptr, ctl, use_count, enqueued, sent, producer, consumer>>

SlotTypeOK ==
  /\ ptr \in SlotFiles \cup {NoQueue}
  /\ ctl \in SlotFiles \cup {NoQueue}
  /\ use_count \in [SlotFiles -> Int]
  /\ enqueued \in [SlotFiles -> 0 .. NumPairs]
  /\ sent \in [SlotFiles -> 0 .. NumPairs]
  /\ \A f \in SlotFiles : sent[f] <= enqueued[f]
  /\ producer \in [pc : {"standby", "point", "load", "store", "release", "enqueue"},
                   file : 0 .. NumSlotFiles, old : SlotFiles \cup {NoQueue}]
  /\ consumer \in [pc : {"wait", "pair", "load", "store", "release"},
                   file : 0 .. NumSlotFiles, old : SlotFiles \cup {NoQueue}]

SlotInit ==
  /\ ptr = NoQueue
  /\ ctl = NoQueue
  /\ use_count = [f \in SlotFiles |-> 0]
  /\ enqueued = [f \in SlotFiles |-> 0]
  /\ sent = [f \in SlotFiles |-> 0]
  /\ producer = [pc |-> "standby", file |-> 0, old |-> NoQueue]
  /\ consumer = [pc |-> "wait", file |-> 0, old |-> NoQueue]

Release(count) ==
  use_count' = IF count = NoQueue THEN use_count ELSE [use_count EXCEPT ![count] = @ - 1]

-------------------------------------------------------------------------------
(* ReadKVPairs, RecvKVPairs *)

\* A slip: no standby.
StandbyNot ==
  /\ producer.pc = "standby"
  /\ producer.file < NumSlotFiles
  /\ use_count' = [use_count EXCEPT ![producer.file] = 1]
  /\ producer' = [producer EXCEPT !.pc = "point"]
  /\ UNCHANGED <<ptr, ctl, enqueued, sent, consumer>>

\* The pointer is null: leave the spin loop and make a queue.
Standby ==
  /\ producer.pc = "standby"
  /\ producer.file < NumSlotFiles
  /\ ptr = NoQueue
  /\ use_count' = [use_count EXCEPT ![producer.file] = 1]
  /\ producer' = [producer EXCEPT !.pc = "point"]
  /\ UNCHANGED <<ptr, ctl, enqueued, sent, consumer>>

\* The temporary's pointer is swapped in, then its count (load, store), and
\* the temporary releases the count it got.
AllocatePoint ==
  /\ producer.pc = "point"
  /\ ptr' = producer.file
  /\ producer' = [producer EXCEPT !.pc = "load"]
  /\ UNCHANGED <<ctl, use_count, enqueued, sent, consumer>>

AllocateLoad ==
  /\ producer.pc = "load"
  /\ producer' = [producer EXCEPT !.pc = "store", !.old = ctl]
  /\ UNCHANGED <<ptr, ctl, use_count, enqueued, sent, consumer>>

AllocateStore ==
  /\ producer.pc = "store"
  /\ ctl' = producer.file
  /\ producer' = [producer EXCEPT !.pc = "release"]
  /\ UNCHANGED <<ptr, use_count, enqueued, sent, consumer>>

AllocateRelease ==
  /\ producer.pc = "release"
  /\ Release(producer.old)
  /\ producer' = [producer EXCEPT !.pc = "enqueue", !.old = NoQueue]
  /\ UNCHANGED <<ptr, ctl, enqueued, sent, consumer>>

Enqueue ==
  /\ producer.pc = "enqueue"
  /\ enqueued[producer.file] < NumPairs
  /\ enqueued' = [enqueued EXCEPT ![producer.file] = @ + 1]
  /\ UNCHANGED <<ptr, ctl, use_count, sent, producer, consumer>>

NextFile ==
  /\ producer.pc = "enqueue"
  /\ enqueued[producer.file] = NumPairs
  /\ producer' = [producer EXCEPT !.pc = "standby", !.file = @ + 1]
  /\ UNCHANGED <<ptr, ctl, use_count, enqueued, sent, consumer>>

Produce ==
  \/ Standby \/ AllocatePoint \/ AllocateLoad \/ AllocateStore \/ AllocateRelease
  \/ Enqueue \/ NextFile

-------------------------------------------------------------------------------
(* SendKVPairs, WriteKVPairs *)

\* The pointer is not null: leave the spin loop.
Wait ==
  /\ consumer.pc = "wait"
  /\ consumer.file < NumSlotFiles
  /\ ptr # NoQueue
  /\ consumer' = [consumer EXCEPT !.pc = "pair"]
  /\ UNCHANGED <<ptr, ctl, use_count, enqueued, sent, producer>>

\* A slip: the result of try_dequeue is not looked at.
DequeueBlindly ==
  /\ consumer.pc = "pair"
  /\ ptr # NoQueue
  /\ sent' = [sent EXCEPT ![ptr] = @ + 1]
  /\ UNCHANGED <<ptr, ctl, use_count, enqueued, producer, consumer>>

Dequeue ==
  /\ consumer.pc = "pair"
  /\ ptr # NoQueue
  /\ sent[ptr] < enqueued[ptr]
  /\ sent' = [sent EXCEPT ![ptr] = @ + 1]
  /\ UNCHANGED <<ptr, ctl, use_count, enqueued, producer, consumer>>

FreePoint ==
  /\ consumer.pc = "pair"
  /\ sent[consumer.file] = NumPairs
  /\ ptr' = NoQueue
  /\ consumer' = [consumer EXCEPT !.pc = "load"]
  /\ UNCHANGED <<ctl, use_count, enqueued, sent, producer>>

FreeLoad ==
  /\ consumer.pc = "load"
  /\ consumer' = [consumer EXCEPT !.pc = "store", !.old = ctl]
  /\ UNCHANGED <<ptr, ctl, use_count, enqueued, sent, producer>>

FreeStore ==
  /\ consumer.pc = "store"
  /\ ctl' = NoQueue
  /\ consumer' = [consumer EXCEPT !.pc = "release"]
  /\ UNCHANGED <<ptr, use_count, enqueued, sent, producer>>

FreeRelease ==
  /\ consumer.pc = "release"
  /\ Release(consumer.old)
  /\ consumer' = [pc |-> "wait", file |-> consumer.file + 1, old |-> NoQueue]
  /\ UNCHANGED <<ptr, ctl, enqueued, sent, producer>>

Consume == Wait \/ Dequeue \/ FreePoint \/ FreeLoad \/ FreeStore \/ FreeRelease

SlotNext == Produce \/ Consume

SlotSpec == SlotInit /\ [][SlotNext]_slotVars

-------------------------------------------------------------------------------

\* The pointer word alone keeps the promise SrcSst and DstSst build on: while a
\* thread works on the queue of a file (src sst.cc:45, 81; dst sst.cc:65, 97)
\* the slot points to the queue of that very file, although the spin loops
\* read it without a lock and the two assignments may overlap.
PointerIsFiles ==
  /\ producer.pc \in {"load", "store", "release"} => ptr = producer.file
  /\ producer.pc = "enqueue" /\ enqueued[producer.file] < NumPairs => ptr = producer.file
  /\ consumer.pc = "pair" => ptr = consumer.file
  /\ ptr = NoQueue => \A f \in SlotFiles : sent[f] = enqueued[f]

\* The queue of file f has been made.
Made(f) == f < producer.file \/ (f = producer.file /\ producer.pc # "standby")

\* "free queues that have been sent" (src sst.cc:104): a queue whose reference
\* count has fallen to zero is one all of whose pairs have been sent.
FreedQueuesAreSent ==
  \A f \in SlotFiles : Made(f) /\ use_count[f] <= 0 => sent[f] = NumPairs

==============================================================================
