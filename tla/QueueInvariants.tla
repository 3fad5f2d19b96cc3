--------------------------- MODULE QueueInvariants ---------------------------
(***************************************************************************)
(* Invariants of the parts of ConcurrentQueue strong enough to be          *)
(* inductive: which thread has which producer, and what its tables hold.   *)
(***************************************************************************)
EXTENDS ConcurrentQueue, Integers

-------------------------------------------------------------------------------
(* ImplicitProducers: types *)

WriterStates == {"idle", "copy", "count", "room", "resize", "recycle", "catch", "subscribe",
                 "insert", "enqueue", "scrub", "mark", "next", "exited"}

HashEntries == [key : Writers \cup {Empty, Reusable}, value : Nat \cup {Absent}]
HashSizes == {n \in Nat : n >= INITIAL_IMPLICIT_PRODUCER_HASH_SIZE}
HashTables == UNION {[0 .. n - 1 -> HashEntries] : n \in HashSizes}

Producers == 1 .. Len(inactive)

WriterRecords == [pc : WriterStates, table : Nat, index : Nat, count : Int,
                  producer : Producers \cup {Absent}]

WriterTypes ==
  /\ hashes \in Seq(HashTables) /\ Len(hashes) > 0
  /\ hashCount \in Int
  /\ inactive \in Seq(BOOLEAN)
  /\ chain \in Seq(Writers \cup {Absent}) /\ Len(chain) = Len(inactive)
  /\ subscribed \in [Writers -> Producers \cup {Absent}]
  /\ mutex \in Writers \cup {Absent}
  /\ writer \in [Writers -> WriterRecords]
  /\ destroyer \in [pc : {"waiting", "look", "unsubscribe", "free"}, at : Nat]

-------------------------------------------------------------------------------
(* ImplicitProducers: the threads and their producers *)

\* What a thread has at each of its steps.
ClaimsOf(t) ==
  LET me == writer[t]
  IN  /\ me.pc \in {"scrub", "mark", "next"} => mutex = t
      /\ me.pc \in {"copy", "insert", "enqueue", "scrub", "mark", "next"} =>
           me.producer = subscribed[t] /\ me.producer # Absent
      /\ me.pc \in {"idle", "count", "room", "resize", "recycle", "catch", "exited"} =>
           me.producer = Absent
      /\ me.pc = "subscribe" => me.producer # Absent /\ me.index = 0
      /\ me.pc \in {"copy", "count", "room", "resize", "recycle", "catch", "subscribe",
                    "insert", "scrub"} => me.table \in 1 .. Len(hashes)
      /\ me.pc = "recycle" => me.index <= Len(inactive)
      /\ me.pc = "catch" => me.index \in Producers

WriterClaims == \A t \in Writers : ClaimsOf(t)

\* The queue is destroyed when nobody enqueues any more.
DestroyerClaims ==
  destroyer.pc # "waiting" =>
    /\ destroyer.at <= Len(inactive)
    /\ destroyer.pc # "look" => destroyer.at > 0
    /\ \A t \in Writers : writer[t].pc \in {"idle", "scrub", "mark", "next", "exited"}

\* A producer is a thread's from the moment it is created, or caught inactive,
\* until it is marked inactive.
Possesses(t, p) ==
  \/ subscribed[t] = p /\ writer[t].pc # "next"
  \/ writer[t].pc = "subscribe" /\ writer[t].producer = p

OnePossessor ==
  \A p \in Producers :
    /\ inactive[p] => \A t \in Writers : ~Possesses(t, p)
    /\ \A t, u \in Writers : Possesses(t, p) /\ Possesses(u, p) => t = u

-------------------------------------------------------------------------------
(* ImplicitProducers: the tables *)

Holds(t, table) == \E i \in DOMAIN table : table[i].key = t

HasEmpty(table) == \E i \in DOMAIN table : table[i].key = Empty

\* The first n places where thread t looks are taken.
Passed(t, table, n) == \A j \in 0 .. n - 1 : table[Slot(t, table, j)].key # Empty

\* Thread t finds place i before an empty one.
PathTo(t, table, i) ==
  \E n \in 0 .. TableSize(table) - 1 : i = Slot(t, table, n) /\ Passed(t, table, n)

\* Each thread is in a table once at most, where it finds itself.
KeysFound(table) ==
  \A i \in DOMAIN table : table[i].key \in Writers =>
    /\ PathTo(table[i].key, table, i)
    /\ \A j \in DOMAIN table : table[j].key = table[i].key => j = i

\* Where thread t goes on looking for a place in the k-th table.
From(t, k) ==
  IF writer[t].pc \in {"copy", "insert"} /\ writer[t].table = k THEN writer[t].index ELSE 0

Reusables(table) == {i \in DOMAIN table : table[i].key = Reusable}

\* Each reusable place can be left to a thread of its own that is not in the
\* table and would find it: so a thread that finds none takes one place more
\* than there are threads at most.
LeftTo(table, from) ==
  \E own \in [Reusables(table) -> Writers] :
    /\ \A q, r \in Reusables(table) : own[q] = own[r] => q = r
    /\ \A r \in Reusables(table) :
         /\ ~Holds(own[r], table)
         /\ PathTo(own[r], table, r)
         /\ \A j \in 0 .. from[own[r]] - 1 : r # Slot(own[r], table, j)

\* from: thread -> how many places it has passed.
TableInv(table, from) ==
  /\ KeysFound(table)
  /\ LeftTo(table, from)
  /\ \A t \in Writers : Passed(t, table, from[t])

TablesInv == \A k \in 1 .. Len(hashes) : TableInv(hashes[k], [t \in Writers |-> From(t, k)])

\* What the tables say of a thread is right: a thread that is in none of them
\* has no producer or is about to be inserted.
KeysOf(t) ==
  \A k \in 1 .. Len(hashes) : Holds(t, hashes[k]) =>
    /\ subscribed[t] # Absent
    /\ \A i \in DOMAIN hashes[k] : hashes[k][i].key = t => hashes[k][i].value = subscribed[t]
    /\ writer[t].pc \in {"idle", "copy", "enqueue", "scrub"}
    /\ writer[t].pc = "copy" => k # writer[t].table
    /\ writer[t].pc = "scrub" => k <= writer[t].table

KeysInv == destroyer.pc = "waiting" => \A t \in Writers : KeysOf(t)

WritersInv == WriterClaims /\ DestroyerClaims /\ OnePossessor /\ TablesInv /\ KeysInv

\* There are fewer threads than places in the smallest table: the migration has
\* one thread that enqueues into a queue, and 32 places.
FewWriters == Cardinality(Writers) < INITIAL_IMPLICIT_PRODUCER_HASH_SIZE

-------------------------------------------------------------------------------
(* FreeList *)

CallStates == {"idle", "zero", "link", "open", "push", "close", "refs", "count", "next", "pop",
               "release", "forget", "reload"}

Calls == [pc : CallStates, node : Nodes \cup {Null}, head : Nodes \cup {Null},
          next : Nodes \cup {Null} \cup (Int \X BOOLEAN), adding : BOOLEAN]

ListTypes ==
  /\ freeListHead \in Nodes \cup {Null}
  /\ freeListNext \in [Nodes -> Nodes \cup {Null}]
  /\ freeListRefs \in [Nodes -> Int]
  /\ shouldBeOnFreeList \in [Nodes -> BOOLEAN]
  /\ held \in [Threads -> SUBSET Nodes]
  /\ call \in [Threads -> Calls]

\* What a thread has seen: a next pointer does not change while the node is
\* counted or is the thread's to add.
CallRight(t) ==
  LET me == call[t]
  IN  /\ me.pc \in {"zero", "link", "open", "push", "close", "forget"} => me.node \in Nodes
      /\ me.pc \in {"refs", "count", "next", "pop", "release"} => me.head \in Nodes
      /\ me.pc \in {"link", "open", "push", "close", "pop"} => me.next \in Nodes \cup {Null}
      /\ me.pc = "count" => me.next[1] # 0
      /\ me.pc \in {"open", "push"} => freeListNext[me.node] = me.next
      /\ me.pc = "pop" => freeListNext[me.head] = me.next

\* The thread counts the node, has it to add while nobody counts it or while it
\* has the reference of the list, or has popped it.
Counts(t, n) ==
  \/ call[t].pc \in {"next", "pop", "release"} /\ call[t].head = n
  \/ call[t].pc = "forget" /\ call[t].node = n
Closed(t, n) == call[t].pc \in {"zero", "link", "open"} /\ call[t].node = n
Opened(t, n) == call[t].pc \in {"push", "close"} /\ call[t].node = n
Popped(t, n) == call[t].pc = "release" /\ call[t].head = n

Counters(n) == {t \in Threads : Counts(t, n)}
Owns(t, n) == n \in held[t] \/ Closed(t, n) \/ Opened(t, n) \/ Popped(t, n)

\* The list, or somebody for it, has a reference of its own.
ListRef(n, list) == n \in list \/ \E t \in Threads : Opened(t, n) \/ Popped(t, n)

\* A node is on the list, a thread's, or waits for the last who counts it.
NodeRight(n, list) ==
  /\ \A t, u \in Threads : Owns(t, n) /\ Owns(u, n) => t = u
  /\ \A t \in Threads : Owns(t, n) => n \notin list
  /\ \A t \in Threads : n \in held[t] => ~ Closed(t, n) /\ ~ Opened(t, n) /\ ~ Popped(t, n)
  /\ shouldBeOnFreeList[n] =>
       n \notin list /\ \A t \in Threads : n \notin held[t] /\ ~ Opened(t, n) /\ ~ Popped(t, n)
  /\ shouldBeOnFreeList[n] /\ freeListRefs[n] = 0 => \E t \in Threads : Closed(t, n)
  /\ ~ shouldBeOnFreeList[n] => n \in list \/ \E t \in Threads : Owns(t, n)
  /\ \A t \in Threads : Closed(t, n) => shouldBeOnFreeList[n] /\ freeListRefs[n] = 0
  /\ freeListRefs[n] = Cardinality(Counters(n)) + (IF ListRef(n, list) THEN 1 ELSE 0)

\* The pointers lead from the head, node len, down to node 1.
InOrder(order, len) ==
  /\ freeListHead = IF len = 0 THEN Null ELSE order[len]
  /\ \A i \in 1 .. len : freeListNext[order[i]] = IF i = 1 THEN Null ELSE order[i - 1]
  /\ \A i, j \in 1 .. len : order[i] = order[j] => i = j

\* list: the nodes on the list.
ListRight(list) ==
  /\ \A t \in Threads : CallRight(t)
  /\ \A n \in Nodes : NodeRight(n, list)

ListInv ==
  \E len \in 0 .. Cardinality(Nodes) : \E order \in [1 .. len -> Nodes] :
    InOrder(order, len) /\ ListRight({order[i] : i \in 1 .. len})

==============================================================================
