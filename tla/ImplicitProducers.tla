------------------------- MODULE ImplicitProducers -------------------------
(***************************************************************************)
(* Which producer a thread enqueues into: the hash tables from thread id   *)
(* to implicit producer, the list of producers, what happens when a thread *)
(* exits (its producer is marked inactive and may be taken over by another *)
(* thread) and when the queue is destroyed by another thread meanwhile.    *)
(*                                                                         *)
(* A thread that exits may start again under the same id (ids are          *)
(* addresses of thread-local variables).  One queue: a notifier has at     *)
(* most one listener.                                                      *)
(***************************************************************************)
EXTENDS Naturals, FiniteSets, Sequences, SequencesExt

CONSTANTS
  Writers,        \* thread ids that enqueue without a token
  HashOf,         \* thread id -> hash
  INITIAL_IMPLICIT_PRODUCER_HASH_SIZE,
  MaxRestarts,    \* bound: threads that start under the id of an exited one
  MaxProducers,   \* bound: memory for producers
  Absent          \* nullptr

Empty == "invalid_thread_id"
Reusable == "invalid_thread_id2"

ASSUME WritersAssumption ==
  /\ IsFiniteSet(Writers) /\ Writers \cap {Empty, Reusable} = {}
  /\ HashOf \in [Writers -> Nat]
  /\ INITIAL_IMPLICIT_PRODUCER_HASH_SIZE \in Nat \ {0}
  /\ Absent \notin Nat \cup Writers

VARIABLES
  hashes,      \* the tables, oldest first: index -> [key, value]
  hashCount,   \* implicitProducerHashCount
  resizing,    \* implicitProducerHashResizeInProgress
  inactive,    \* producer -> BOOLEAN; the list of producers, oldest first
  chain,       \* producer -> the thread whose notifier has its listener
  subscribed,  \* thread -> the listener of its notifier
  mutex,       \* the thread that holds the mutex of the notifiers
  writer,      \* thread -> where it is
  restarts,    \* threads that have done so
  destroyer,   \* the thread that destroys the queue
  freed        \* producers destroyed

writersVars == <<hashes, hashCount, resizing, inactive, chain, subscribed, mutex, writer, restarts,
                 destroyer, freed>>

EmptyTable(size) == [i \in 0 .. size - 1 |-> [key |-> Empty, value |-> Absent]]
NewWriter == [pc |-> "idle", table |-> 0, index |-> 0, count |-> 0, producer |-> Absent]

WritersInit ==
  /\ hashes = <<EmptyTable(INITIAL_IMPLICIT_PRODUCER_HASH_SIZE)>>
  /\ hashCount = 0 /\ resizing = FALSE
  /\ inactive = <<>> /\ chain = <<>>
  /\ subscribed = [t \in Writers |-> Absent]
  /\ mutex = Absent
  /\ writer = [t \in Writers |-> NewWriter]
  /\ restarts = 0
  /\ destroyer = [pc |-> "waiting", at |-> 0]
  /\ freed = {}

TableSize(table) == Cardinality(DOMAIN table)
Slot(t, table, i) == (HashOf[t] + i) % TableSize(table)

\* Where linear probing finds thread t in a table: how many places it goes on,
\* or the size of the table when an empty place comes first.
Probes(t, table) ==
  LET at(i) == table[Slot(t, table, i)].key
      stops == {i \in DOMAIN table : at(i) \in {t, Empty}}
      first == CHOOSE i \in stops : \A j \in stops : i <= j
  IN  IF at(first) = t THEN first ELSE TableSize(table)

Knows(t, table) == Probes(t, table) < TableSize(table)

\* The newest table that knows thread t, 0 when none does.
FoundIn(t) ==
  LET knowing == {k \in 1 .. Len(hashes) : Knows(t, hashes[k])}
  IN  IF knowing = {} THEN 0 ELSE CHOOSE k \in knowing : \A j \in knowing : j <= k

ValueIn(t, k) == hashes[k][Slot(t, hashes[k], Probes(t, hashes[k]))].value

Step(t, fields) == writer' = [writer EXCEPT ![t] = fields]

(***************************************************************************)
(* get_or_add_implicit_producer                                            *)
(***************************************************************************)

\* The search: a thread's own key is written by that thread alone.
Find(t) ==
  LET k == FoundIn(t)
  IN  /\ writer[t].pc = "idle" /\ destroyer.pc = "waiting"
      /\ Step(t, IF k = 0 THEN [NewWriter EXCEPT !.pc = "count", !.table = Len(hashes)]
                 ELSE [NewWriter EXCEPT
                        !.pc = IF k = Len(hashes) THEN "enqueue" ELSE "copy",
                        !.table = Len(hashes), !.producer = ValueIn(t, k)])
      /\ UNCHANGED <<hashes, hashCount, resizing, inactive, chain, subscribed, mutex, restarts,
                     destroyer, freed>>

\* The key and the value at the place probed.
Place(t) ==
  hashes' = [hashes EXCEPT
    ![writer[t].table][Slot(t, hashes[writer[t].table], writer[t].index)] =
      [key |-> t, value |-> writer[t].producer]]

KeyProbed(t) == hashes[writer[t].table][Slot(t, hashes[writer[t].table], writer[t].index)].key

\* The lazy copy of an old entry to the newest table: it is not counted again.
Copy(t) ==
  /\ writer[t].pc = "copy"
  /\ IF KeyProbed(t) \in {Empty, Reusable}
       THEN Place(t) /\ Step(t, [writer[t] EXCEPT !.pc = "enqueue", !.index = 0])
       ELSE Step(t, [writer[t] EXCEPT !.index = @ + 1]) /\ UNCHANGED hashes
  /\ UNCHANGED <<hashCount, resizing, inactive, chain, subscribed, mutex, restarts, destroyer, freed>>

Count(t) ==
  /\ writer[t].pc = "count"
  /\ hashCount' = hashCount + 1
  /\ Step(t, [writer[t] EXCEPT !.pc = "room", !.count = hashCount + 1])
  /\ UNCHANGED <<hashes, resizing, inactive, chain, subscribed, mutex, restarts, destroyer, freed>>

HalfFull(t, k) == writer[t].count >= TableSize(hashes[k]) \div 2

\* test_and_set
LockResize(t) ==
  /\ writer[t].pc = "room" /\ HalfFull(t, writer[t].table) /\ ~resizing
  /\ resizing' = TRUE
  /\ Step(t, [writer[t] EXCEPT !.pc = "resize"])
  /\ UNCHANGED <<hashes, hashCount, inactive, chain, subscribed, mutex, restarts, destroyer, freed>>

ThreeQuartersFull(count, size) == count >= size \div 2 + size \div 4

\* With a table of that size: it is less than three quarters full and the thread
\* may add itself, or somebody else is making room.  index is the producer the
\* thread looks at next.
AfterRoom(t, size, newest) ==
  IF ThreeQuartersFull(writer[t].count, size)
    THEN [writer[t] EXCEPT !.table = newest, !.pc = "room"]
    ELSE [writer[t] EXCEPT !.pc = "recycle", !.index = Len(inactive)]

\* 1 << i
PowerOfTwo[i \in Nat] == IF i = 0 THEN 1 ELSE 2 * PowerOfTwo[i - 1]

\* The smallest size, doubling, of which n places are less than half.
Doubled(n, size) ==
  LET sizes == {size * PowerOfTwo[i] : i \in 1 .. n + 1}
      large == {s \in sizes : n < s \div 2}
  IN  CHOOSE s \in large : \A r \in large : s <= r

\* With the resize lock: the newest table, or one of twice its size.
Resize(t) ==
  /\ writer[t].pc = "resize"
  /\ resizing' = FALSE
  /\ hashes' = IF HalfFull(t, Len(hashes))
                 THEN Append(hashes, EmptyTable(Doubled(writer[t].count, TableSize(Last(hashes)))))
                 ELSE hashes
  /\ Step(t, [AfterRoom(t, TableSize(Last(hashes')), Len(hashes')) EXCEPT !.table = Len(hashes')])
  /\ UNCHANGED <<hashCount, inactive, chain, subscribed, mutex, restarts, destroyer, freed>>

\* No memory for the table: the enqueue fails.
ResizeFails(t) ==
  /\ writer[t].pc = "resize" /\ HalfFull(t, Len(hashes))
  /\ resizing' = FALSE
  /\ hashCount' = hashCount - 1
  /\ Step(t, NewWriter)
  /\ UNCHANGED <<hashes, inactive, chain, subscribed, mutex, restarts, destroyer, freed>>

\* The table has room, or another thread is making some: implicitProducerHash
\* is read again when the table is too full.
SkipResize(t) ==
  /\ writer[t].pc = "room" /\ ~(HalfFull(t, writer[t].table) /\ ~resizing)
  /\ Step(t, AfterRoom(t, TableSize(hashes[writer[t].table]), Len(hashes)))
  /\ UNCHANGED <<hashes, hashCount, resizing, inactive, chain, subscribed, mutex, restarts,
                 destroyer, freed>>

(***************************************************************************)
(* recycle_or_create_producer                                              *)
(***************************************************************************)

\* The loads of inactive, from the newest producer on.
Scan(t) ==
  /\ writer[t].pc = "recycle" /\ writer[t].index > 0
  /\ Step(t, IF inactive[writer[t].index] THEN [writer[t] EXCEPT !.pc = "catch"]
             ELSE [writer[t] EXCEPT !.index = @ - 1])
  /\ UNCHANGED <<hashes, hashCount, resizing, inactive, chain, subscribed, mutex, restarts,
                 destroyer, freed>>

\* A slip: the producer is taken without looking again.
AlwaysCaught(p) == TRUE

\* compare_exchange of inactive
Caught(p) == inactive[p]

Catch(t) ==
  LET p == writer[t].index
  IN  /\ writer[t].pc = "catch"
      /\ inactive' = IF Caught(p) THEN [inactive EXCEPT ![p] = FALSE] ELSE inactive
      /\ Step(t, IF Caught(p)
                   THEN [writer[t] EXCEPT !.pc = "subscribe", !.producer = p, !.index = 0]
                   ELSE [writer[t] EXCEPT !.pc = "recycle", !.index = @ - 1])
      /\ UNCHANGED <<hashes, hashCount, resizing, chain, subscribed, mutex, restarts, destroyer,
                     freed>>

\* create and add_producer
Create(t) ==
  /\ writer[t].pc = "recycle" /\ writer[t].index = 0
  /\ Len(inactive) < MaxProducers
  /\ inactive' = Append(inactive, FALSE)
  /\ chain' = Append(chain, Absent)
  /\ Step(t, [writer[t] EXCEPT !.pc = "subscribe", !.producer = Len(inactive) + 1])
  /\ UNCHANGED <<hashes, hashCount, resizing, subscribed, mutex, restarts, destroyer, freed>>

CreateFails(t) ==
  /\ writer[t].pc = "recycle" /\ writer[t].index = 0
  /\ hashCount' = hashCount - 1
  /\ Step(t, NewWriter)
  /\ UNCHANGED <<hashes, resizing, inactive, chain, subscribed, mutex, restarts, destroyer, freed>>

\* ThreadExitNotifier::subscribe
Subscribe(t) ==
  /\ writer[t].pc = "subscribe" /\ mutex = Absent
  /\ chain' = [chain EXCEPT ![writer[t].producer] = t]
  /\ subscribed' = [subscribed EXCEPT ![t] = writer[t].producer]
  /\ Step(t, [writer[t] EXCEPT !.pc = "insert"])
  /\ UNCHANGED <<hashes, hashCount, resizing, inactive, mutex, restarts, destroyer, freed>>

\* The key into the table: a place given up was counted already.
InsertKeyProbed(t) ==
  /\ writer[t].pc = "insert"
  /\ IF KeyProbed(t) \in {Empty, Reusable}
       THEN Place(t) /\ Step(t, [writer[t] EXCEPT !.pc = "enqueue", !.index = 0])
       ELSE Step(t, [writer[t] EXCEPT !.index = @ + 1]) /\ UNCHANGED hashes
  /\ hashCount' = IF KeyProbed(t) = Reusable THEN hashCount - 1 ELSE hashCount
  /\ UNCHANGED <<resizing, inactive, chain, subscribed, mutex, restarts, destroyer, freed>>

\* The enqueue into the producer found.
EnqueueDone(t) ==
  /\ writer[t].pc = "enqueue"
  /\ Step(t, NewWriter)
  /\ UNCHANGED <<hashes, hashCount, resizing, inactive, chain, subscribed, mutex, restarts,
                 destroyer, freed>>

(***************************************************************************)
(* ~ThreadExitNotifier and implicit_producer_thread_exited                 *)
(***************************************************************************)

\* The lock, and the first listener taken from its chain.
Exit(t) ==
  LET p == subscribed[t]
  IN  /\ writer[t].pc = "idle" /\ mutex = Absent
      /\ IF p = Absent
           THEN /\ Step(t, [NewWriter EXCEPT !.pc = "exited"])
                /\ UNCHANGED <<chain, mutex>>
           ELSE /\ mutex' = t
                /\ chain' = [chain EXCEPT ![p] = Absent]
                /\ Step(t, [NewWriter EXCEPT !.pc = "scrub", !.producer = p,
                                             !.table = Len(hashes)])
      /\ UNCHANGED <<hashes, hashCount, resizing, inactive, subscribed, restarts, destroyer, freed>>

\* One table: the thread's key becomes reusable.
Scrub(t) ==
  LET k == writer[t].table
  IN  /\ writer[t].pc = "scrub"
      /\ hashes' = IF Knows(t, hashes[k])
           THEN [hashes EXCEPT ![k][Slot(t, hashes[k], Probes(t, hashes[k]))].key = Reusable]
           ELSE hashes
      /\ Step(t, IF k > 1 THEN [writer[t] EXCEPT !.table = k - 1]
                 ELSE [writer[t] EXCEPT !.pc = "mark", !.table = 0])
      /\ UNCHANGED <<hashCount, resizing, inactive, chain, subscribed, mutex, restarts, destroyer,
                     freed>>

\* The producer may be taken over.
MarkInactive(t) ==
  /\ writer[t].pc = "mark"
  /\ inactive' = [inactive EXCEPT ![writer[t].producer] = TRUE]
  /\ Step(t, [writer[t] EXCEPT !.pc = "next"])
  /\ UNCHANGED <<hashes, hashCount, resizing, chain, subscribed, mutex, restarts, destroyer, freed>>

\* ptr = ptr->next is read from the listener, inside the producer.
NextListener(t) ==
  /\ writer[t].pc = "next"
  /\ mutex' = Absent
  /\ subscribed' = [subscribed EXCEPT ![t] = Absent]
  /\ Step(t, [NewWriter EXCEPT !.pc = "exited"])
  /\ UNCHANGED <<hashes, hashCount, resizing, inactive, chain, restarts, destroyer, freed>>

\* Another thread with the same id.
StartAgain(t) ==
  /\ writer[t].pc = "exited" /\ restarts < MaxRestarts /\ destroyer.pc = "waiting"
  /\ restarts' = restarts + 1
  /\ Step(t, NewWriter)
  /\ UNCHANGED <<hashes, hashCount, resizing, inactive, chain, subscribed, mutex, destroyer,
                 freed>>

(***************************************************************************)
(* ~ConcurrentQueue and ~ImplicitProducer                                  *)
(***************************************************************************)

\* The user has seen to it that nobody enqueues any more; threads may be alive
\* or on their way out.
StartDestroying ==
  /\ destroyer.pc = "waiting"
  /\ \A t \in Writers : writer[t].pc \in {"idle", "scrub", "mark", "next", "exited"}
  /\ destroyer' = [pc |-> "look", at |-> Len(inactive)]
  /\ UNCHANGED <<hashes, hashCount, resizing, inactive, chain, subscribed, mutex, writer, restarts,
                 freed>>

\* The load of inactive: an inactive producer has no listener any more.
LookInactive ==
  /\ destroyer.pc = "look" /\ destroyer.at > 0
  /\ destroyer' = [destroyer EXCEPT !.pc = IF inactive[destroyer.at] THEN "free" ELSE "unsubscribe"]
  /\ UNCHANGED <<hashes, hashCount, resizing, inactive, chain, subscribed, mutex, writer, restarts,
                 freed>>

\* ThreadExitNotifier::unsubscribe
Unsubscribe ==
  LET p == destroyer.at
  IN  /\ destroyer.pc = "unsubscribe" /\ mutex = Absent
      /\ chain' = [chain EXCEPT ![p] = Absent]
      /\ subscribed' = IF chain[p] = Absent THEN subscribed
                       ELSE [subscribed EXCEPT ![chain[p]] = Absent]
      /\ destroyer' = [destroyer EXCEPT !.pc = "free"]
      /\ UNCHANGED <<hashes, hashCount, resizing, inactive, mutex, writer, restarts, freed>>

FreeProducer ==
  /\ destroyer.pc = "free"
  /\ freed' = freed \cup {destroyer.at}
  /\ destroyer' = [pc |-> "look", at |-> destroyer.at - 1]
  /\ UNCHANGED <<hashes, hashCount, resizing, inactive, chain, subscribed, mutex, writer, restarts>>

WritersNext ==
  \/ \E t \in Writers :
       \/ Find(t) \/ Copy(t) \/ Count(t)
       \/ LockResize(t) \/ Resize(t) \/ ResizeFails(t) \/ SkipResize(t)
       \/ Scan(t) \/ Catch(t) \/ Create(t) \/ CreateFails(t)
       \/ Subscribe(t) \/ InsertKeyProbed(t) \/ EnqueueDone(t)
       \/ Exit(t) \/ Scrub(t) \/ MarkInactive(t) \/ NextListener(t) \/ StartAgain(t)
  \/ StartDestroying \/ LookInactive \/ Unsubscribe \/ FreeProducer

(***************************************************************************)
(* Properties                                                              *)
(***************************************************************************)

\* A producer is used by one thread at a time, although threads exit, start
\* again under the same id and take over one another's producers while tables
\* grow: a sub-queue has a single enqueuer (every comment "we're the only
\* writer thread" relies on it).  And a probe ends: "at least one slot is free
\* in the hash table".
OneWriter ==
  /\ \A t, u \in Writers :
       t # u /\ writer[t].pc = "enqueue" =>
         writer[u].producer # writer[t].producer \/ writer[u].pc \in {"next", "exited"}
  /\ \A t \in Writers : writer[t].pc = "enqueue" => subscribed[t] = writer[t].producer
  /\ \A k \in 1 .. Len(hashes) : \E i \in DOMAIN hashes[k] : hashes[k][i].key = Empty

\* A listener is not destroyed while its notifier is still walking over it.
ListenersOutliveExit ==
  \A t \in Writers : writer[t].pc = "next" => writer[t].producer \notin freed

==============================================================================
