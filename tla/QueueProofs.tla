----------------------------- MODULE QueueProofs ------------------------------
(***************************************************************************)
(* Proofs about the parts of ConcurrentQueue that all threads share, for   *)
(* any number of threads:                                                  *)
(*   - the lock-free free list keeps its nodes (NodesKept), for any nodes; *)
(*   - no producer ever has two threads (OneWriter): not through the hash  *)
(*     tables, not through the notifiers of threads that exit, for any     *)
(*     number of restarts, producers and hashes.                           *)
(*                                                                         *)
(* What matters of a thread's call of the free list is whether it counts a *)
(* node, has it to add while its references are 0 (Closed) or hold the     *)
(* list's own (Opened), or has popped it; each step changes this for one   *)
(* node only.                                                              *)
(***************************************************************************)
EXTENDS QueueInvariants, FiniteSetTheorems, WellFoundedInduction, SequenceTheorems, TLAPS

-------------------------------------------------------------------------------
(* The free list *)

\* A non-empty set of numbers has a least element.
LEMMA LeastNatural ==
  ASSUME NEW S, S \subseteq Nat, S # {}
  PROVE  \E x \in S : \A y \in S : x <= y
<1>1. PICK x \in S : \A y \in S : ~ (<<y, x>> \in OpToRel(<, Nat))
      BY WFMin, NatLessThanWellFounded
<1>2. ASSUME NEW y \in S
      PROVE  ~ (y < x)
  <2>1. x \in Nat /\ y \in Nat
        OBVIOUS
  <2>2. y < x => <<y, x>> \in OpToRel(<, Nat)
        BY <2>1 DEF OpToRel
  <2> QED
        BY <1>1, <2>2
<1> QED
  BY <1>2

-------------------------------------------------------------------------------
(* Steps of one thread *)

\* What a step does to the call of its thread, w, and to those of the others.
LEMMA CallStep ==
  ASSUME ListTypes, NEW t \in Threads, NEW w, call' = [call EXCEPT ![t] = w]
  PROVE  /\ call'[t] = w
         /\ \A u \in Threads \ {t} : call'[u] = call[u]
BY DEF ListTypes

\* The call after a node has been put where it belongs.
LEMMA AfterAddType ==
  ASSUME NEW c \in Calls
  PROVE  /\ AfterAdd(c) \in Calls /\ AfterAdd(c).next = Null
         /\ AfterAdd(c).pc \in {"idle", "refs"}
         /\ AfterAdd(c).pc = "refs" => AfterAdd(c).head \in Nodes
<1>1. IdleCall \in Calls /\ IdleCall.pc = "idle" /\ IdleCall.next = Null
      BY DEF Calls, CallStates, IdleCall
<1>2. CASE c.adding \/ c.head = Null
      BY <1>1, <1>2 DEF AfterAdd
<1>3. CASE ~ (c.adding \/ c.head = Null)
  <2> DEFINE w == [c EXCEPT !.pc = "refs", !.node = Null, !.next = Null]
  <2>1. AfterAdd(c) = w
        BY <1>3 DEF AfterAdd
  <2>2. w.pc = "refs" /\ w.next = Null /\ w.head = c.head /\ w \in Calls
        BY DEF Calls, CallStates
  <2>3. c.head \in Nodes
        BY <1>3 DEF Calls
  <2> QED
        BY <2>1, <2>2, <2>3
<1> QED
  BY <1>2, <1>3

\* What others do to a node is as before.
LEMMA OthersSame ==
  ASSUME NEW u \in Threads, NEW n \in Nodes, call'[u] = call[u], held'[u] = held[u]
  PROVE  /\ Counts(u, n)' <=> Counts(u, n)
         /\ Closed(u, n)' <=> Closed(u, n)
         /\ Opened(u, n)' <=> Opened(u, n)
         /\ Popped(u, n)' <=> Popped(u, n)
         /\ n \in held'[u] <=> n \in held[u]
BY DEF Counts, Closed, Opened, Popped

\* The number of threads that count a node.
LEMMA CountersFinite ==
  ASSUME NEW n \in Nodes
  PROVE  /\ IsFiniteSet(Counters(n)) /\ Cardinality(Counters(n)) \in Nat
         /\ Cardinality(Counters(n)) = 0 <=> \A u \in Threads : ~ Counts(u, n)
<1>1. Counters(n) \subseteq Threads /\ IsFiniteSet(Threads)
      BY NodesAssumption DEF Counters
<1>2. IsFiniteSet(Counters(n))
      BY <1>1, FS_Subset
<1>3. Cardinality(Counters(n)) \in Nat
      BY <1>2, FS_CardinalityType
<1>4. Cardinality(Counters(n)) = 0 <=> Counters(n) = {}
      BY <1>2, FS_EmptySet
<1>5. Counters(n) = {} <=> \A u \in Threads : ~ Counts(u, n)
      BY DEF Counters
<1> QED
  BY <1>2, <1>3, <1>4, <1>5

LEMMA CountersStep ==
  ASSUME NEW t \in Threads, NEW n \in Nodes,
         \A u \in Threads \ {t} : Counts(u, n)' <=> Counts(u, n)
  PROVE  Cardinality(Counters(n))' =
           Cardinality(Counters(n)) + (IF Counts(t, n)' THEN 1 ELSE 0)
                                    - (IF Counts(t, n) THEN 1 ELSE 0)
<1>1. IsFiniteSet(Counters(n)) /\ Cardinality(Counters(n)) \in Nat
      BY CountersFinite
<1>2. CASE Counts(t, n)' <=> Counts(t, n)
  <2>1. Counters(n)' = Counters(n)
        BY <1>2 DEF Counters
  <2> QED
        BY <1>1, <1>2, <2>1
<1>3. CASE Counts(t, n)' /\ ~ Counts(t, n)
  <2>1. Counters(n)' = Counters(n) \cup {t} /\ t \notin Counters(n)
        BY <1>3 DEF Counters
  <2>2. Cardinality(Counters(n) \cup {t}) = Cardinality(Counters(n)) + 1
        BY <1>1, <2>1, FS_AddElement
  <2> QED
        BY <1>1, <1>3, <2>1, <2>2
<1>4. CASE ~ Counts(t, n)' /\ Counts(t, n)
  <2>1. Counters(n)' = Counters(n) \ {t} /\ t \in Counters(n)
        BY <1>4 DEF Counters
  <2>2. Cardinality(Counters(n) \ {t}) = Cardinality(Counters(n)) - 1
        BY <1>1, <2>1, FS_RemoveElement
  <2> QED
        BY <1>1, <1>4, <2>1, <2>2
<1> QED
  BY <1>2, <1>3, <1>4

\* What t does to node n is as before.
Same(t, n) ==
  /\ Counts(t, n)' <=> Counts(t, n)
  /\ Closed(t, n)' <=> Closed(t, n)
  /\ Opened(t, n)' <=> Opened(t, n)
  /\ Popped(t, n)' <=> Popped(t, n)
  /\ n \in held'[t] <=> n \in held[t]

\* A node that a step leaves alone.
LEMMA NodeFrame ==
  ASSUME NEW n \in Nodes, NEW old, NEW new, NodeRight(n, old),
         \A u \in Threads : Same(u, n),
         freeListRefs'[n] = freeListRefs[n],
         shouldBeOnFreeList'[n] = shouldBeOnFreeList[n],
         n \in new <=> n \in old
  PROVE  NodeRight(n, new)'
<1>1. Counters(n)' = Counters(n)
      BY DEF Counters, Same
<1>2. \A u \in Threads : Owns(u, n)' <=> Owns(u, n)
      BY DEF Owns, Same
<1>3. ListRef(n, new)' <=> ListRef(n, old)
      BY DEF ListRef, Same
<1> QED
  BY <1>1, <1>2, <1>3 DEF NodeRight, Same

\* A step of thread t that concerns node m.
LEMMA StepRight ==
  ASSUME ListTypes, NEW old, NEW new, ListRight(old),
         NEW t \in Threads, NEW w, call' = [call EXCEPT ![t] = w],
         \A u \in Threads \ {t} : held'[u] = held[u],
         NEW m,
         \A n \in Nodes \ {m} :
           /\ Same(t, n)
           /\ freeListRefs'[n] = freeListRefs[n]
           /\ shouldBeOnFreeList'[n] = shouldBeOnFreeList[n]
           /\ (n \in new <=> n \in old),
         \A n \in Nodes : freeListNext'[n] # freeListNext[n] => Closed(t, n),
         CallRight(t)',
         m \in Nodes => NodeRight(m, new)'
  PROVE  ListRight(new)'
<1>1. /\ call'[t] = w
      /\ \A u \in Threads \ {t} : call'[u] = call[u]
      BY CallStep
<1>2. ASSUME NEW n \in Nodes \ {m}
      PROVE  NodeRight(n, new)'
  <2>1. \A u \in Threads : Same(u, n)
    <3>1. ASSUME NEW u \in Threads \ {t}
          PROVE  Same(u, n)
          BY <1>1, OthersSame DEF Same
    <3>2. Same(t, n)
          OBVIOUS
    <3> QED
          BY <3>1, <3>2
  <2>2. n \in Nodes /\ NodeRight(n, old)
        BY DEF ListRight
  <2>3. /\ freeListRefs'[n] = freeListRefs[n]
        /\ shouldBeOnFreeList'[n] = shouldBeOnFreeList[n]
        /\ n \in new <=> n \in old
        OBVIOUS
  <2> QED
        BY <2>1, <2>2, <2>3, NodeFrame
<1>3. ASSUME NEW u \in Threads \ {t}
      PROVE  CallRight(u)'
  <2>1. call'[u] = call[u] /\ CallRight(u)
        BY <1>1 DEF ListRight
  <2>2. ASSUME NEW n \in Nodes, Counts(u, n) \/ Closed(u, n) \/ Opened(u, n)
        PROVE  freeListNext'[n] = freeListNext[n]
    <3> SUFFICES ASSUME Closed(t, n)
                 PROVE  FALSE
        OBVIOUS
    <3>1. NodeRight(n, old)
          BY DEF ListRight
    <3>2. ~ Closed(u, n) /\ ~ Opened(u, n)
          BY <3>1 DEF NodeRight, Owns
    <3>3. freeListRefs[n] = 0 /\ (ListRef(n, old) => FALSE)
      <4>1. Cardinality(Counters(n)) \in Nat
            BY CountersFinite
      <4>2. freeListRefs[n] = 0
            BY <3>1 DEF NodeRight
      <4>3. freeListRefs[n] = Cardinality(Counters(n)) + (IF ListRef(n, old) THEN 1 ELSE 0)
            BY <3>1 DEF NodeRight
      <4> QED
            BY <4>1, <4>2, <4>3
    <3>4. Cardinality(Counters(n)) = 0
          BY <3>1, <3>3, CountersFinite DEF NodeRight
    <3> QED
          BY <2>2, <3>2, <3>4, CountersFinite
  <2>3. CASE call[u].pc = "open"
    <3>1. Closed(u, call[u].node) /\ call[u].node \in Nodes
          BY <2>1, <2>3 DEF Closed, CallRight
    <3> QED
          BY <2>1, <2>2, <2>3, <3>1 DEF CallRight
  <2>4. CASE call[u].pc = "push"
    <3>1. Opened(u, call[u].node) /\ call[u].node \in Nodes
          BY <2>1, <2>4 DEF Opened, CallRight
    <3> QED
          BY <2>1, <2>2, <2>4, <3>1 DEF CallRight
  <2>5. CASE call[u].pc = "pop"
    <3>1. Counts(u, call[u].head) /\ call[u].head \in Nodes
          BY <2>1, <2>5 DEF Counts, CallRight
    <3> QED
          BY <2>1, <2>2, <2>5, <3>1 DEF CallRight
  <2>6. CASE call[u].pc \notin {"open", "push", "pop"}
        BY <2>1, <2>6 DEF CallRight
  <2> QED
        BY <2>3, <2>4, <2>5, <2>6
<1> QED
  BY <1>2, <1>3 DEF ListRight

-------------------------------------------------------------------------------
(* Steps that only look *)

LEMMA LooksRight ==
  ASSUME ListTypes, NEW list, ListRight(list),
         NEW t \in Threads, NEW w, call' = [call EXCEPT ![t] = w],
         \A n \in Nodes : Same(t, n),
         UNCHANGED <<freeListRefs, shouldBeOnFreeList, held>>,
         \A n \in Nodes : freeListNext'[n] # freeListNext[n] => Closed(t, n),
         CallRight(t)'
  PROVE  ListRight(list)'
<1>1. Null \notin Nodes
      BY NodesAssumption
<1> QED
  BY <1>1, StepRight

LEMMA LoadHeadToAddRight ==
  ASSUME ListTypes, NEW list, ListRight(list), NEW t \in Threads, LoadHeadToAdd(t)
  PROVE  ListRight(list)'
<1> DEFINE me == call[t]
           w == [me EXCEPT !.pc = "link", !.next = freeListHead]
<1>1. me \in Calls /\ CallRight(t) /\ me.pc = "zero"
      BY DEF ListTypes, ListRight, LoadHeadToAdd
<1>2. w.pc = "link" /\ w.node = me.node /\ w.next = freeListHead
      BY <1>1 DEF Calls
<1>3. call' = [call EXCEPT ![t] = w]
      BY DEF LoadHeadToAdd
<1> HIDE DEF w
<1>4. call'[t] = w
      BY <1>3, CallStep
<1>5. \A n \in Nodes : Same(t, n)
      BY <1>1, <1>2, <1>4 DEF Same, Counts, Closed, Opened, Popped, LoadHeadToAdd
<1>6. CallRight(t)'
      BY <1>1, <1>2, <1>4 DEF CallRight, ListTypes
<1> QED
  BY <1>3, <1>5, <1>6, LooksRight DEF LoadHeadToAdd

LEMMA StoreNextRight ==
  ASSUME ListTypes, NEW list, ListRight(list), NEW t \in Threads, StoreNext(t)
  PROVE  ListRight(list)'
<1> DEFINE me == call[t]
           w == [me EXCEPT !.pc = "open"]
<1>1. me \in Calls /\ CallRight(t) /\ me.pc = "link"
      BY DEF ListTypes, ListRight, StoreNext
<1>2. w.pc = "open" /\ w.node = me.node /\ w.next = me.next
      BY <1>1 DEF Calls
<1>3. call' = [call EXCEPT ![t] = w]
      BY DEF StoreNext, Goto
<1> HIDE DEF w
<1>4. call'[t] = w
      BY <1>3, CallStep
<1>5. \A n \in Nodes : Same(t, n)
      BY <1>1, <1>2, <1>4 DEF Same, Counts, Closed, Opened, Popped, StoreNext
<1>6. me.node \in Nodes /\ freeListNext'[me.node] = me.next
      BY <1>1 DEF CallRight, StoreNext, ListTypes
<1>7. CallRight(t)'
      BY <1>1, <1>2, <1>4, <1>6 DEF CallRight
<1>8. \A n \in Nodes : freeListNext'[n] # freeListNext[n] => Closed(t, n)
      BY <1>1 DEF StoreNext, ListTypes, Closed
<1> QED
  BY <1>3, <1>5, <1>7, <1>8, LooksRight DEF StoreNext

LEMMA PushFailsRight ==
  ASSUME ListTypes, NEW list, ListRight(list), NEW t \in Threads, PushFails(t)
  PROVE  ListRight(list)'
<1> DEFINE me == call[t]
           w == [me EXCEPT !.pc = "close", !.next = freeListHead]
<1>1. me \in Calls /\ CallRight(t) /\ me.pc = "push"
      BY DEF ListTypes, ListRight, PushFails
<1>2. w.pc = "close" /\ w.node = me.node /\ w.next = freeListHead
      BY <1>1 DEF Calls
<1>3. call' = [call EXCEPT ![t] = w]
      BY DEF PushFails
<1> HIDE DEF w
<1>4. call'[t] = w
      BY <1>3, CallStep
<1>5. \A n \in Nodes : Same(t, n)
      BY <1>1, <1>2, <1>4 DEF Same, Counts, Closed, Opened, Popped, PushFails
<1>6. CallRight(t)'
      BY <1>1, <1>2, <1>4 DEF CallRight, ListTypes
<1> QED
  BY <1>3, <1>5, <1>6, LooksRight DEF PushFails

LEMMA LoadHeadRight ==
  ASSUME ListTypes, NEW list, ListRight(list), NEW t \in Threads, LoadHead(t)
  PROVE  ListRight(list)'
<1> DEFINE me == call[t]
           w == IF freeListHead = Null THEN IdleCall
                ELSE [IdleCall EXCEPT !.pc = "refs", !.head = freeListHead]
<1>1. me.pc \in {"idle", "reload"}
      BY DEF LoadHead
<1>2. w.pc \in {"idle", "refs"} /\ (w.pc = "refs" => w.head \in Nodes)
      BY DEF ListTypes, IdleCall
<1>3. call' = [call EXCEPT ![t] = w]
      BY DEF LoadHead
<1> HIDE DEF w
<1>4. call'[t] = w
      BY <1>3, CallStep
<1>5. \A n \in Nodes : Same(t, n)
      BY <1>1, <1>2, <1>4 DEF Same, Counts, Closed, Opened, Popped, LoadHead
<1>6. CallRight(t)'
      BY <1>2, <1>4 DEF CallRight
<1> QED
  BY <1>3, <1>5, <1>6, LooksRight DEF LoadHead

LEMMA LoadRefsRight ==
  ASSUME ListTypes, NEW list, ListRight(list), NEW t \in Threads, LoadRefs(t)
  PROVE  ListRight(list)'
<1> DEFINE me == call[t]
           h == me.head
           seen == <<freeListRefs[h], shouldBeOnFreeList[h]>>
           w == IF freeListRefs[h] = 0 THEN [me EXCEPT !.pc = "reload"]
                ELSE [me EXCEPT !.pc = "count", !.next = seen]
<1>1. me \in Calls /\ me.pc = "refs" /\ h \in Nodes
      BY DEF ListTypes, ListRight, LoadRefs, CallRight
<1>2. w.pc = "reload" \/ (w.pc = "count" /\ w.head \in Nodes /\ w.next[1] # 0)
      BY <1>1 DEF Calls
<1>3. call' = [call EXCEPT ![t] = w]
      BY DEF LoadRefs
<1> HIDE DEF w
<1>4. call'[t] = w
      BY <1>3, CallStep
<1>5. \A n \in Nodes : Same(t, n)
      BY <1>1, <1>2, <1>4 DEF Same, Counts, Closed, Opened, Popped, LoadRefs
<1>6. CallRight(t)'
      BY <1>2, <1>4 DEF CallRight
<1> QED
  BY <1>3, <1>5, <1>6, LooksRight DEF LoadRefs

LEMMA LoadNextRight ==
  ASSUME ListTypes, NEW list, ListRight(list), NEW t \in Threads, LoadNext(t)
  PROVE  ListRight(list)'
<1> DEFINE me == call[t]
           w == [me EXCEPT !.pc = "pop", !.next = freeListNext[me.head]]
<1>1. me \in Calls /\ me.pc = "next" /\ me.head \in Nodes
      BY DEF ListTypes, ListRight, LoadNext, CallRight
<1>2. w.pc = "pop" /\ w.head = me.head /\ w.next = freeListNext[me.head]
      BY <1>1 DEF Calls
<1>3. call' = [call EXCEPT ![t] = w]
      BY DEF LoadNext
<1> HIDE DEF w
<1>4. call'[t] = w
      BY <1>3, CallStep
<1>5. \A n \in Nodes : Same(t, n)
      BY <1>1, <1>2, <1>4 DEF Same, Counts, Closed, Opened, Popped, LoadNext
<1>6. CallRight(t)'
      BY <1>1, <1>2, <1>4 DEF CallRight, LoadNext, ListTypes
<1> QED
  BY <1>3, <1>5, <1>6, LooksRight DEF LoadNext

LEMMA PopFailsRight ==
  ASSUME ListTypes, NEW list, ListRight(list), NEW t \in Threads, PopFails(t)
  PROVE  ListRight(list)'
<1> DEFINE me == call[t]
           w == [me EXCEPT !.pc = "forget", !.node = me.head, !.head = freeListHead,
                           !.next = Null]
<1>1. me \in Calls /\ me.pc = "pop" /\ me.head \in Nodes
      BY DEF ListTypes, ListRight, PopFails, CallRight
<1>2. w.pc = "forget" /\ w.node = me.head
      BY <1>1 DEF Calls
<1>3. call' = [call EXCEPT ![t] = w]
      BY DEF PopFails
<1> HIDE DEF w
<1>4. call'[t] = w
      BY <1>3, CallStep
<1>5. \A n \in Nodes : Same(t, n)
      BY <1>1, <1>2, <1>4 DEF Same, Counts, Closed, Opened, Popped, PopFails
<1>6. CallRight(t)'
      BY <1>1, <1>2, <1>4 DEF CallRight
<1> QED
  BY <1>3, <1>5, <1>6, LooksRight DEF PopFails

-------------------------------------------------------------------------------
(* Steps that move a node *)

\* The references of a node.
LEMMA NodeRefs ==
  ASSUME NEW n \in Nodes, NEW list, NodeRight(n, list)
  PROVE  /\ freeListRefs[n] \in Nat
         /\ freeListRefs[n] = 0 => ~ ListRef(n, list) /\ \A u \in Threads : ~ Counts(u, n)
         /\ \A u \in Threads : Counts(u, n) /\ ListRef(n, list) => freeListRefs[n] >= 2
<1>1. freeListRefs[n] = Cardinality(Counters(n)) + (IF ListRef(n, list) THEN 1 ELSE 0)
      BY DEF NodeRight
<1> QED
  BY <1>1, CountersFinite

\* What a step of thread t does to the references of a node.
LEMMA RefsKept ==
  ASSUME NEW n \in Nodes, NEW old, NEW new, NodeRight(n, old), NEW t \in Threads,
         \A u \in Threads \ {t} : Same(u, n),
         freeListRefs'[n] = freeListRefs[n]
           + (IF Counts(t, n)' THEN 1 ELSE 0) - (IF Counts(t, n) THEN 1 ELSE 0)
           + (IF ListRef(n, new)' THEN 1 ELSE 0) - (IF ListRef(n, old) THEN 1 ELSE 0)
  PROVE  freeListRefs'[n] =
           Cardinality(Counters(n))' + (IF ListRef(n, new)' THEN 1 ELSE 0)
<1>1. freeListRefs[n] = Cardinality(Counters(n)) + (IF ListRef(n, old) THEN 1 ELSE 0)
      BY DEF NodeRight
<1>2. Cardinality(Counters(n))' = Cardinality(Counters(n))
        + (IF Counts(t, n)' THEN 1 ELSE 0) - (IF Counts(t, n) THEN 1 ELSE 0)
      BY CountersStep DEF Same
<1>3. Cardinality(Counters(n)) \in Nat
      BY CountersFinite
<1> QED
  BY <1>1, <1>2, <1>3

LEMMA StoreRefsRight ==
  ASSUME ListTypes, NEW list, ListRight(list), NEW t \in Threads, StoreRefs(t)
  PROVE  ListRight(list)'
<1> DEFINE me == call[t]
           w == [me EXCEPT !.pc = "push"]
<1>1. me \in Calls /\ CallRight(t) /\ me.pc = "open"
      BY DEF ListTypes, ListRight, StoreRefs
<1> PICK m \in Nodes : m = me.node
    BY <1>1 DEF CallRight
<1>2. w.pc = "push" /\ w.node = m /\ w.next = me.next
      BY <1>1 DEF Calls
<1>3. call' = [call EXCEPT ![t] = w] /\ held' = held /\ freeListNext' = freeListNext
      BY DEF StoreRefs, Goto
<1> HIDE DEF w
<1>4. call'[t] = w /\ \A u \in Threads \ {t} : call'[u] = call[u]
      BY <1>3, CallStep
<1>5. \A n \in Nodes \ {m} : Same(t, n)
      BY <1>1, <1>2, <1>3, <1>4 DEF Same, Counts, Closed, Opened, Popped
<1>6. CallRight(t)'
      BY <1>1, <1>2, <1>3, <1>4 DEF CallRight
<1>7. NodeRight(m, list)'
  <2>1. NodeRight(m, list)
        BY DEF ListRight
  <2>2. /\ Closed(t, m) /\ ~ Closed(t, m)' /\ ~ Opened(t, m) /\ Opened(t, m)'
        /\ ~ Counts(t, m) /\ ~ Counts(t, m)' /\ ~ Popped(t, m) /\ ~ Popped(t, m)'
        /\ (m \in held'[t] <=> m \in held[t])
        BY <1>1, <1>2, <1>3, <1>4 DEF Counts, Closed, Opened, Popped
  <2>3. \A u \in Threads \ {t} : Same(u, m)
        BY <1>3, <1>4, OthersSame DEF Same
  <2>4. freeListRefs[m] = 0 /\ freeListRefs'[m] = 1 /\ ~ shouldBeOnFreeList'[m]
        BY <2>1, <2>2 DEF NodeRight, StoreRefs, ListTypes
  <2>5. ~ ListRef(m, list) /\ ListRef(m, list)'
        BY <2>1, <2>2, <2>4, NodeRefs DEF ListRef
  <2>6. freeListRefs'[m] =
          Cardinality(Counters(m))' + (IF ListRef(m, list)' THEN 1 ELSE 0)
        BY <2>1, <2>2, <2>3, <2>4, <2>5, RefsKept
  <2> QED
        BY <2>1, <2>2, <2>3, <2>4, <2>6 DEF NodeRight, Owns, Same
<1>8. ASSUME NEW n \in Nodes \ {m}
      PROVE  freeListRefs'[n] = freeListRefs[n] /\ shouldBeOnFreeList'[n] = shouldBeOnFreeList[n]
      BY DEF StoreRefs, ListTypes
<1> QED
  BY <1>3, <1>5, <1>6, <1>7, <1>8, StepRight

LEMMA AddNodeRight ==
  ASSUME ListTypes, NEW list, ListRight(list), NEW t \in Threads, AddNode(t)
  PROVE  ListRight(list)'
<1> PICK m \in held[t] :
       /\ held' = [held EXCEPT ![t] = @ \ {m}]
       /\ shouldBeOnFreeList' = [shouldBeOnFreeList EXCEPT ![m] = TRUE]
       /\ call' = [call EXCEPT ![t] =
            IF freeListRefs[m] = 0
              THEN [IdleCall EXCEPT !.pc = "zero", !.node = m, !.adding = TRUE] ELSE IdleCall]
    BY DEF AddNode
<1> DEFINE me == call[t]
           w == IF freeListRefs[m] = 0
                THEN [IdleCall EXCEPT !.pc = "zero", !.node = m, !.adding = TRUE] ELSE IdleCall
<1>1. me.pc = "idle" /\ m \in Nodes /\ UNCHANGED <<freeListRefs, freeListNext>>
      BY DEF ListTypes, AddNode
<1>2. IF freeListRefs[m] = 0 THEN w.pc = "zero" /\ w.node = m ELSE w.pc = "idle"
      BY DEF IdleCall
<1>3. call' = [call EXCEPT ![t] = w]
      OBVIOUS
<1> HIDE DEF w
<1>4. call'[t] = w /\ \A u \in Threads \ {t} : call'[u] = call[u] /\ held'[u] = held[u]
      BY <1>3, CallStep DEF ListTypes
<1>5. \A n \in Nodes \ {m} : Same(t, n)
      BY <1>1, <1>2, <1>4 DEF Same, Counts, Closed, Opened, Popped, ListTypes
<1>6. CallRight(t)'
      BY <1>1, <1>2, <1>4 DEF CallRight
<1>7. NodeRight(m, list)'
  <2>1. NodeRight(m, list)
        BY <1>1 DEF ListRight
  <2>2. /\ ~ Closed(t, m) /\ (Closed(t, m)' <=> freeListRefs[m] = 0)
        /\ ~ Opened(t, m) /\ ~ Opened(t, m)' /\ ~ Popped(t, m) /\ ~ Popped(t, m)'
        /\ ~ Counts(t, m) /\ ~ Counts(t, m)' /\ m \in held[t] /\ m \notin held'[t]
        BY <1>1, <1>2, <1>4 DEF Counts, Closed, Opened, Popped, ListTypes
  <2>3. \A u \in Threads \ {t} : Same(u, m)
        BY <1>1, <1>4, OthersSame DEF Same
  <2>4. freeListRefs'[m] = freeListRefs[m] /\ shouldBeOnFreeList'[m]
        BY <1>1 DEF ListTypes
  <2>5. Owns(t, m) /\ m \notin list /\ \A u \in Threads \ {t} : ~ Owns(u, m)
        BY <2>1, <2>2 DEF NodeRight, Owns
  <2>6. ~ ListRef(m, list) /\ ~ ListRef(m, list)'
        BY <2>2, <2>3, <2>5 DEF ListRef, Owns, Same
  <2>7. freeListRefs'[m] =
          Cardinality(Counters(m))' + (IF ListRef(m, list)' THEN 1 ELSE 0)
        BY <1>1, <2>1, <2>2, <2>3, <2>4, <2>6, RefsKept, NodeRefs
  <2> QED
        BY <2>1, <2>2, <2>3, <2>4, <2>5, <2>7 DEF NodeRight, Owns, Same
<1>8. ASSUME NEW n \in Nodes \ {m}
      PROVE  freeListRefs'[n] = freeListRefs[n] /\ shouldBeOnFreeList'[n] = shouldBeOnFreeList[n]
      BY <1>1 DEF ListTypes
<1>9. freeListNext' = freeListNext /\ \A u \in Threads \ {t} : held'[u] = held[u]
      BY <1>1, <1>4
<1> QED
  BY <1>3, <1>5, <1>6, <1>7, <1>8, <1>9, StepRight

LEMMA CloseRefsRight ==
  ASSUME ListTypes, NEW list, ListRight(list), NEW t \in Threads, CloseRefs(t)
  PROVE  ListRight(list)'
<1> DEFINE me == call[t]
           w == IF freeListRefs[me.node] = 1 THEN [me EXCEPT !.pc = "link"] ELSE AfterAdd(me)
<1>1. me \in Calls /\ CallRight(t) /\ me.pc = "close"
      BY DEF ListTypes, ListRight, CloseRefs
<1> PICK m \in Nodes : m = me.node
    BY <1>1 DEF CallRight
<1>2. /\ freeListRefs[m] = 1 => w.pc = "link" /\ w.node = m /\ w.next = me.next
      /\ freeListRefs[m] # 1 =>
           w.pc \in {"idle", "refs"} /\ (w.pc = "refs" => w.head \in Nodes)
      BY <1>1, AfterAddType DEF Calls
<1>3. call' = [call EXCEPT ![t] = w] /\ held' = held /\ freeListNext' = freeListNext
      BY DEF CloseRefs
<1> HIDE DEF w
<1>4. call'[t] = w /\ \A u \in Threads \ {t} : call'[u] = call[u]
      BY <1>3, CallStep
<1>5. \A n \in Nodes \ {m} : Same(t, n)
      BY <1>1, <1>2, <1>3, <1>4 DEF Same, Counts, Closed, Opened, Popped
<1>6. CallRight(t)'
      BY <1>1, <1>2, <1>3, <1>4 DEF CallRight
<1>7. NodeRight(m, list)'
  <2>1. NodeRight(m, list)
        BY DEF ListRight
  <2>2. /\ ~ Closed(t, m) /\ (Closed(t, m)' <=> freeListRefs[m] = 1)
        /\ Opened(t, m) /\ ~ Opened(t, m)' /\ ~ Popped(t, m) /\ ~ Popped(t, m)'
        /\ ~ Counts(t, m) /\ ~ Counts(t, m)' /\ (m \in held'[t] <=> m \in held[t])
        BY <1>1, <1>2, <1>3, <1>4 DEF Counts, Closed, Opened, Popped
  <2>3. \A u \in Threads \ {t} : Same(u, m)
        BY <1>3, <1>4, OthersSame DEF Same
  <2>4. freeListRefs'[m] = freeListRefs[m] - 1 /\ shouldBeOnFreeList'[m]
        BY DEF CloseRefs, ListTypes
  <2>5. /\ Owns(t, m) /\ m \notin list /\ m \notin held[t]
        /\ \A u \in Threads \ {t} : ~ Owns(u, m)
        BY <2>1, <2>2 DEF NodeRight, Owns
  <2>6. ListRef(m, list) /\ ~ ListRef(m, list)'
        BY <2>2, <2>3, <2>5 DEF ListRef, Owns, Same
  <2>7. freeListRefs'[m] =
          Cardinality(Counters(m))' + (IF ListRef(m, list)' THEN 1 ELSE 0)
        BY <2>1, <2>2, <2>3, <2>4, <2>6, RefsKept, NodeRefs
  <2>8. freeListRefs[m] \in Nat
        BY <2>1, NodeRefs
  <2> QED
        BY <2>1, <2>2, <2>3, <2>4, <2>5, <2>7, <2>8 DEF NodeRight, Owns, Same
<1>8. ASSUME NEW n \in Nodes \ {m}
      PROVE  freeListRefs'[n] = freeListRefs[n] /\ shouldBeOnFreeList'[n] = shouldBeOnFreeList[n]
      BY DEF CloseRefs, ListTypes
<1> QED
  BY <1>3, <1>5, <1>6, <1>7, <1>8, StepRight

LEMMA CountNodeRight ==
  ASSUME ListTypes, NEW list, ListRight(list), NEW t \in Threads, CountNode(t)
  PROVE  ListRight(list)'
<1> DEFINE me == call[t]
           same == me.next = <<freeListRefs[me.head], shouldBeOnFreeList[me.head]>>
           w == [me EXCEPT !.pc = IF same THEN "next" ELSE "reload", !.next = Null]
<1>1. me \in Calls /\ CallRight(t) /\ me.pc = "count"
      BY DEF ListTypes, ListRight, CountNode
<1> PICK m \in Nodes : m = me.head
    BY <1>1 DEF CallRight
<1>2. IF same THEN w.pc = "next" /\ w.head = m ELSE w.pc = "reload"
      BY <1>1 DEF Calls
<1>3. /\ call' = [call EXCEPT ![t] = w] /\ held' = held
      /\ UNCHANGED <<freeListNext, shouldBeOnFreeList>>
      /\ freeListRefs' = IF same THEN [freeListRefs EXCEPT ![m] = @ + 1] ELSE freeListRefs
      BY DEF CountNode
<1>a. same => freeListRefs[m] # 0
      BY <1>1 DEF CallRight
<1> HIDE DEF w, same
<1>4. call'[t] = w /\ \A u \in Threads \ {t} : call'[u] = call[u]
      BY <1>3, CallStep
<1>5. \A n \in Nodes \ {m} : Same(t, n)
      BY <1>1, <1>2, <1>3, <1>4 DEF Same, Counts, Closed, Opened, Popped
<1>6. CallRight(t)'
      BY <1>1, <1>2, <1>3, <1>4 DEF CallRight
<1>7. NodeRight(m, list)'
  <2>1. NodeRight(m, list)
        BY DEF ListRight
  <2>2. /\ ~ Closed(t, m) /\ ~ Closed(t, m)' /\ ~ Opened(t, m) /\ ~ Opened(t, m)'
        /\ ~ Popped(t, m) /\ ~ Popped(t, m)' /\ ~ Counts(t, m) /\ (Counts(t, m)' <=> same)
        /\ (m \in held'[t] <=> m \in held[t])
        BY <1>1, <1>2, <1>3, <1>4 DEF Counts, Closed, Opened, Popped
  <2>3. \A u \in Threads \ {t} : Same(u, m)
        BY <1>3, <1>4, OthersSame DEF Same
  <2>4. /\ freeListRefs'[m] = freeListRefs[m] + (IF same THEN 1 ELSE 0)
        /\ shouldBeOnFreeList'[m] = shouldBeOnFreeList[m]
        BY <1>3 DEF ListTypes
  <2>5. ListRef(m, list)' <=> ListRef(m, list)
        BY <2>2, <2>3 DEF ListRef, Same
  <2>6. freeListRefs[m] \in Nat
        BY <2>1, NodeRefs
  <2>7. freeListRefs'[m] =
          Cardinality(Counters(m))' + (IF ListRef(m, list)' THEN 1 ELSE 0)
        BY <2>1, <2>2, <2>3, <2>4, <2>5, <2>6, RefsKept
  <2>8. \A u \in Threads : Closed(u, m) => freeListRefs[m] = 0 /\ ~ same
        BY <1>a, <2>1 DEF NodeRight
  <2> QED
        BY <2>1, <2>2, <2>3, <2>4, <2>6, <2>7, <2>8 DEF NodeRight, Owns, Same
<1>8. ASSUME NEW n \in Nodes \ {m}
      PROVE  freeListRefs'[n] = freeListRefs[n] /\ shouldBeOnFreeList'[n] = shouldBeOnFreeList[n]
      BY <1>3 DEF ListTypes
<1> QED
  BY <1>3, <1>5, <1>6, <1>7, <1>8, StepRight

LEMMA ReleaseRight ==
  ASSUME ListTypes, NEW list, ListRight(list), NEW t \in Threads, Release(t)
  PROVE  ListRight(list)'
<1> DEFINE me == call[t]
<1>1. CallRight(t) /\ me.pc = "release" /\ IdleCall.pc = "idle"
      BY DEF ListTypes, ListRight, Release, IdleCall
<1> PICK m \in Nodes : m = me.head
    BY <1>1 DEF CallRight
<1>3. /\ call' = [call EXCEPT ![t] = IdleCall] /\ held' = [held EXCEPT ![t] = @ \cup {m}]
      /\ UNCHANGED <<freeListNext, shouldBeOnFreeList>>
      /\ freeListRefs' = [freeListRefs EXCEPT ![m] = @ - 2]
      BY DEF Release, PopRefs
<1>4. /\ call'[t] = IdleCall
      /\ \A u \in Threads \ {t} : call'[u] = call[u] /\ held'[u] = held[u]
      BY <1>3, CallStep DEF ListTypes
<1>5. \A n \in Nodes \ {m} : Same(t, n)
      BY <1>1, <1>3, <1>4 DEF Same, Counts, Closed, Opened, Popped, ListTypes
<1>6. CallRight(t)'
      BY <1>1, <1>4 DEF CallRight
<1>7. NodeRight(m, list)'
  <2>1. NodeRight(m, list)
        BY DEF ListRight
  <2>2. /\ ~ Closed(t, m)' /\ ~ Opened(t, m)' /\ Popped(t, m) /\ ~ Popped(t, m)'
        /\ Counts(t, m) /\ ~ Counts(t, m)' /\ m \in held'[t]
        BY <1>1, <1>3, <1>4 DEF Counts, Closed, Opened, Popped, ListTypes
  <2>3. \A u \in Threads \ {t} : Same(u, m)
        BY <1>3, <1>4, OthersSame DEF Same
  <2>4. /\ freeListRefs'[m] = freeListRefs[m] - 2
        /\ ~ shouldBeOnFreeList[m] /\ ~ shouldBeOnFreeList'[m]
        BY <1>3, <2>1, <2>2 DEF ListTypes, NodeRight
  <2>5. Owns(t, m) /\ m \notin list /\ \A u \in Threads \ {t} : ~ Owns(u, m)
        BY <2>1, <2>2 DEF NodeRight, Owns
  <2>6. ListRef(m, list) /\ ~ ListRef(m, list)'
        BY <2>2, <2>3, <2>5 DEF ListRef, Owns, Same
  <2>7. freeListRefs[m] \in Nat
        BY <2>1, NodeRefs
  <2>8. freeListRefs'[m] =
          Cardinality(Counters(m))' + (IF ListRef(m, list)' THEN 1 ELSE 0)
        BY <2>1, <2>2, <2>3, <2>4, <2>6, <2>7, RefsKept
  <2> QED
        BY <2>1, <2>2, <2>3, <2>4, <2>5, <2>8 DEF NodeRight, Owns, Same
<1>8. ASSUME NEW n \in Nodes \ {m}
      PROVE  freeListRefs'[n] = freeListRefs[n] /\ shouldBeOnFreeList'[n] = shouldBeOnFreeList[n]
      BY <1>3 DEF ListTypes
<1>9. freeListNext' = freeListNext /\ \A u \in Threads \ {t} : held'[u] = held[u]
      BY <1>3, <1>4
<1> QED
  BY <1>3, <1>5, <1>6, <1>7, <1>8, <1>9, StepRight

LEMMA ForgetRight ==
  ASSUME ListTypes, NEW list, ListRight(list), NEW t \in Threads, Forget(t)
  PROVE  ListRight(list)'
<1> DEFINE me == call[t]
           w == IF LastToCount(me.node) THEN [me EXCEPT !.pc = "zero"] ELSE AfterAdd(me)
<1>1. me \in Calls /\ CallRight(t) /\ me.pc = "forget"
      BY DEF ListTypes, ListRight, Forget
<1> PICK m \in Nodes : m = me.node
    BY <1>1 DEF CallRight
<1>2. /\ LastToCount(m) => w.pc = "zero" /\ w.node = m
      /\ ~ LastToCount(m) => w.pc \in {"idle", "refs"} /\ (w.pc = "refs" => w.head \in Nodes)
      BY <1>1, AfterAddType DEF Calls
<1>3. /\ call' = [call EXCEPT ![t] = w] /\ held' = held
      /\ UNCHANGED <<freeListNext, shouldBeOnFreeList>>
      /\ freeListRefs' = [freeListRefs EXCEPT ![m] = @ - 1]
      BY DEF Forget
<1> HIDE DEF w
<1>4. call'[t] = w /\ \A u \in Threads \ {t} : call'[u] = call[u]
      BY <1>3, CallStep
<1>5. \A n \in Nodes \ {m} : Same(t, n)
      BY <1>1, <1>2, <1>3, <1>4 DEF Same, Counts, Closed, Opened, Popped
<1>6. CallRight(t)'
      BY <1>1, <1>2, <1>3, <1>4 DEF CallRight
<1>7. NodeRight(m, list)'
  <2>1. NodeRight(m, list)
        BY DEF ListRight
  <2>2. /\ ~ Closed(t, m) /\ (Closed(t, m)' <=> LastToCount(m))
        /\ ~ Opened(t, m) /\ ~ Opened(t, m)' /\ ~ Popped(t, m) /\ ~ Popped(t, m)'
        /\ Counts(t, m) /\ ~ Counts(t, m)' /\ (m \in held'[t] <=> m \in held[t])
        BY <1>1, <1>2, <1>3, <1>4 DEF Counts, Closed, Opened, Popped
  <2>3. \A u \in Threads \ {t} : Same(u, m)
        BY <1>3, <1>4, OthersSame DEF Same
  <2>4. /\ freeListRefs'[m] = freeListRefs[m] - 1
        /\ shouldBeOnFreeList'[m] = shouldBeOnFreeList[m]
        BY <1>3 DEF ListTypes
  <2>5. freeListRefs[m] \in Nat /\ freeListRefs[m] # 0
        BY <2>1, <2>2, NodeRefs
  <2>6. ListRef(m, list)' <=> ListRef(m, list)
        BY <2>2, <2>3 DEF ListRef, Same
  <2>7. freeListRefs'[m] =
          Cardinality(Counters(m))' + (IF ListRef(m, list)' THEN 1 ELSE 0)
        BY <2>1, <2>2, <2>3, <2>4, <2>5, <2>6, RefsKept
  <2>8. \A u \in Threads : ~ Closed(u, m)
        BY <2>1, <2>5 DEF NodeRight
  <2>9. LastToCount(m) <=> shouldBeOnFreeList[m] /\ freeListRefs[m] = 1
        BY DEF LastToCount
  <2> HIDE DEF w
  <2> QED
        BY <2>1, <2>2, <2>3, <2>4, <2>5, <2>7, <2>8, <2>9 DEF NodeRight, Owns, Same
<1>8. ASSUME NEW n \in Nodes \ {m}
      PROVE  freeListRefs'[n] = freeListRefs[n] /\ shouldBeOnFreeList'[n] = shouldBeOnFreeList[n]
      BY <1>3 DEF ListTypes
<1> QED
  BY <1>3, <1>5, <1>6, <1>7, <1>8, StepRight

LEMMA PushRight ==
  ASSUME ListTypes, NEW list, ListRight(list), NEW t \in Threads, Push(t),
         NEW m \in Nodes, m = call[t].node
  PROVE  ListRight(list \cup {m})' /\ m \notin list
<1> DEFINE me == call[t]
           w == AfterAdd(me)
           new == list \cup {m}
<1>1. me \in Calls /\ CallRight(t) /\ me.pc = "push"
      BY DEF ListTypes, ListRight, Push
<1>2. w.pc \in {"idle", "refs"} /\ (w.pc = "refs" => w.head \in Nodes)
      BY <1>1, AfterAddType
<1>3. /\ call' = [call EXCEPT ![t] = w] /\ held' = held
      /\ UNCHANGED <<freeListNext, freeListRefs, shouldBeOnFreeList>>
      BY DEF Push
<1> HIDE DEF w
<1>4. call'[t] = w /\ \A u \in Threads \ {t} : call'[u] = call[u]
      BY <1>3, CallStep
<1>5. \A n \in Nodes \ {m} : Same(t, n)
      BY <1>1, <1>2, <1>3, <1>4 DEF Same, Counts, Closed, Opened, Popped
<1>6. CallRight(t)'
      BY <1>1, <1>2, <1>3, <1>4 DEF CallRight
<1>7. NodeRight(m, new)' /\ m \notin list
  <2>1. NodeRight(m, list)
        BY DEF ListRight
  <2>2. /\ ~ Closed(t, m) /\ ~ Closed(t, m)' /\ Opened(t, m) /\ ~ Opened(t, m)'
        /\ ~ Popped(t, m) /\ ~ Popped(t, m)' /\ ~ Counts(t, m) /\ ~ Counts(t, m)'
        /\ (m \in held'[t] <=> m \in held[t])
        BY <1>1, <1>2, <1>3, <1>4 DEF Counts, Closed, Opened, Popped
  <2>3. \A u \in Threads \ {t} : Same(u, m)
        BY <1>3, <1>4, OthersSame DEF Same
  <2>4. /\ freeListRefs'[m] = freeListRefs[m]
        /\ ~ shouldBeOnFreeList[m] /\ ~ shouldBeOnFreeList'[m]
        BY <1>3, <2>1, <2>2 DEF NodeRight
  <2>5. /\ Owns(t, m) /\ m \notin list /\ m \notin held[t]
        /\ \A u \in Threads \ {t} : ~ Owns(u, m)
        BY <2>1, <2>2 DEF NodeRight, Owns
  <2>6. ListRef(m, list) /\ ListRef(m, new)' /\ m \in new
        BY <2>2 DEF ListRef
  <2>7. freeListRefs[m] \in Nat
        BY <2>1, NodeRefs
  <2>8. freeListRefs'[m] =
          Cardinality(Counters(m))' + (IF ListRef(m, new)' THEN 1 ELSE 0)
        BY <2>1, <2>2, <2>3, <2>4, <2>6, <2>7, RefsKept
  <2> QED
        BY <2>1, <2>2, <2>3, <2>4, <2>5, <2>6, <2>8 DEF NodeRight, Owns, Same
<1>8. ASSUME NEW n \in Nodes \ {m}
      PROVE  n \in new <=> n \in list
      OBVIOUS
<1> HIDE DEF new
<1>9. ListRight(new)'
      BY <1>3, <1>5, <1>6, <1>7, <1>8, StepRight
<1> QED
  BY <1>7, <1>9 DEF new

LEMMA PopRight ==
  ASSUME ListTypes, NEW list, ListRight(list), NEW t \in Threads, Pop(t),
         NEW m \in list, m = call[t].head, m \in Nodes
  PROVE  ListRight(list \ {m})'
<1> DEFINE me == call[t]
           w == [me EXCEPT !.pc = "release"]
           new == list \ {m}
<1>1. me \in Calls /\ CallRight(t) /\ me.pc = "pop"
      BY DEF ListTypes, ListRight, Pop
<1>2. w.pc = "release" /\ w.head = m
      BY <1>1 DEF Calls
<1>3. /\ call' = [call EXCEPT ![t] = w] /\ held' = held
      /\ UNCHANGED <<freeListNext, freeListRefs, shouldBeOnFreeList>>
      BY DEF Pop, Goto
<1> HIDE DEF w
<1>4. call'[t] = w /\ \A u \in Threads \ {t} : call'[u] = call[u]
      BY <1>3, CallStep
<1>5. \A n \in Nodes \ {m} : Same(t, n)
      BY <1>1, <1>2, <1>3, <1>4 DEF Same, Counts, Closed, Opened, Popped
<1>6. CallRight(t)'
      BY <1>1, <1>2, <1>3, <1>4 DEF CallRight
<1>7. NodeRight(m, new)'
  <2>1. NodeRight(m, list)
        BY DEF ListRight
  <2>2. /\ ~ Closed(t, m) /\ ~ Closed(t, m)' /\ ~ Opened(t, m) /\ ~ Opened(t, m)'
        /\ ~ Popped(t, m) /\ Popped(t, m)' /\ Counts(t, m) /\ Counts(t, m)'
        /\ (m \in held'[t] <=> m \in held[t])
        BY <1>1, <1>2, <1>3, <1>4 DEF Counts, Closed, Opened, Popped
  <2>3. \A u \in Threads \ {t} : Same(u, m)
        BY <1>3, <1>4, OthersSame DEF Same
  <2>4. /\ freeListRefs'[m] = freeListRefs[m]
        /\ ~ shouldBeOnFreeList[m] /\ ~ shouldBeOnFreeList'[m]
        BY <1>3, <2>1 DEF NodeRight
  <2>5. m \notin held[t] /\ \A u \in Threads : ~ Owns(u, m)
        BY <2>1 DEF NodeRight, Owns
  <2>6. ListRef(m, list) /\ ListRef(m, new)' /\ m \notin new
        BY <2>2 DEF ListRef
  <2>7. freeListRefs[m] \in Nat
        BY <2>1, NodeRefs
  <2>8. freeListRefs'[m] =
          Cardinality(Counters(m))' + (IF ListRef(m, new)' THEN 1 ELSE 0)
        BY <2>1, <2>2, <2>3, <2>4, <2>6, <2>7, RefsKept
  <2> QED
        BY <2>1, <2>2, <2>3, <2>4, <2>5, <2>6, <2>8 DEF NodeRight, Owns, Same
<1>8. ASSUME NEW n \in Nodes \ {m}
      PROVE  n \in new <=> n \in list
      OBVIOUS
<1> HIDE DEF new
<1>9. ListRight(new)'
      BY <1>3, <1>5, <1>6, <1>7, <1>8, StepRight
<1> QED
  BY <1>9 DEF new

-------------------------------------------------------------------------------
(* The list *)

\* Following the pointers from the head leads through the whole list.
LEMMA OnListIs ==
  ASSUME NEW len \in 0 .. Cardinality(Nodes), NEW order \in [1 .. len -> Nodes],
         InOrder(order, len)
  PROVE  OnList = {order[i] : i \in 1 .. len}
<1> DEFINE Upper(k) == {order[i] : i \in {j \in 1 .. len : j + k >= len}}
           F == [k \in Nat |-> Upper(k)]
           Wider(S) == S \cup ({freeListNext[n] : n \in S} \ {Null})
           reach[k \in Nat] ==
             IF k = 0 THEN {freeListHead} \ {Null} ELSE Wider(reach[k - 1])
<1>1. Cardinality(Nodes) \in Nat
      BY NodesAssumption, FS_CardinalityType
<1>2. OnList = reach[Cardinality(Nodes)]
      BY DEF OnList
<1>3. Upper(0) = {freeListHead} \ {Null}
      BY <1>1, NodesAssumption DEF InOrder
<1>4. ASSUME NEW k \in Nat
      PROVE  Upper(k + 1) = Wider(Upper(k))
  <2>1. ASSUME NEW n \in Upper(k + 1)
        PROVE  n \in Wider(Upper(k))
    <3>1. PICK i \in 1 .. len : i + k + 1 >= len /\ n = order[i]
          BY <1>1
    <3>2. CASE i + k >= len
          BY <1>1, <3>1, <3>2
    <3>3. CASE i + k < len
      <4>1. i + 1 \in 1 .. len /\ (i + 1) + k >= len /\ (i + 1) - 1 = i /\ i + 1 # 1
            BY <1>1, <3>1, <3>3
      <4>2. order[i + 1] \in Upper(k)
            BY <4>1
      <4>3. freeListNext[order[i + 1]] = n
            BY <3>1, <4>1 DEF InOrder
      <4>4. n # Null
            BY <3>1, NodesAssumption
      <4> QED
            BY <4>2, <4>3, <4>4
    <3> QED
          BY <1>1, <3>1, <3>2, <3>3
  <2>2. ASSUME NEW n \in Upper(k)
        PROVE  n \in Upper(k + 1)
    <3>1. PICK i \in 1 .. len : i + k >= len /\ n = order[i]
          BY <1>1
    <3>2. i + (k + 1) >= len
          BY <1>1, <3>1
    <3> QED
          BY <3>1, <3>2
  <2>3. ASSUME NEW n \in Upper(k), freeListNext[n] # Null
        PROVE  freeListNext[n] \in Upper(k + 1)
    <3>1. PICK i \in 1 .. len : i + k >= len /\ n = order[i]
          BY <1>1
    <3>2. i # 1 /\ freeListNext[n] = order[i - 1]
          BY <2>3, <3>1 DEF InOrder
    <3>3. i - 1 \in 1 .. len /\ (i - 1) + (k + 1) >= len
          BY <1>1, <3>1, <3>2
    <3> QED
          BY <3>2, <3>3
  <2> HIDE DEF Upper
  <2> QED
        BY <2>1, <2>2, <2>3
<1>5. Upper(Cardinality(Nodes)) = {order[i] : i \in 1 .. len}
  <2>1. \A j \in 1 .. len : j + Cardinality(Nodes) >= len
        BY <1>1
  <2> QED
        BY <2>1
<1> HIDE DEF Upper, Wider
<1>6. \A k \in Nat : F[k] = Upper(k)
      OBVIOUS
<1>7. F = [k \in Nat |-> IF k = 0 THEN {freeListHead} \ {Null} ELSE Wider(F[k - 1])]
  <2> DEFINE G == [k \in Nat |-> IF k = 0 THEN {freeListHead} \ {Null} ELSE Wider(F[k - 1])]
  <2>1. ASSUME NEW k \in Nat
        PROVE  F[k] = G[k]
    <3>1. CASE k = 0
          BY <1>3, <3>1
    <3>2. CASE k # 0
      <4>1. k - 1 \in Nat /\ (k - 1) + 1 = k
            BY <3>2
      <4>2. Upper(k) = Wider(Upper(k - 1))
            BY <1>4, <4>1
      <4>3. F[k] = Upper(k) /\ F[k - 1] = Upper(k - 1)
            BY <4>1
      <4> QED
            BY <3>2, <4>2, <4>3
    <3> QED
          BY <3>1, <3>2
  <2> QED
        BY <2>1
<1>8. reach = [k \in Nat |-> IF k = 0 THEN {freeListHead} \ {Null} ELSE Wider(reach[k - 1])]
  <2> HIDE DEF F
  <2> QED
        BY <1>7 DEF reach
<1> HIDE DEF reach, F
<1> DEFINE Differ == {k \in Nat : reach[k] # F[k]}
<1>9. Differ = {}
  <2> SUFFICES ASSUME Differ # {}
               PROVE  FALSE
      OBVIOUS
  <2>1. PICK k \in Differ : \A j \in Differ : k <= j
        BY LeastNatural
  <2>2. CASE k = 0
        BY <1>7, <1>8, <2>1, <2>2
  <2>3. CASE k # 0
    <3>1. k - 1 \in Nat /\ k - 1 \notin Differ
          BY <2>1, <2>3
    <3>2. reach[k - 1] = F[k - 1]
          BY <3>1
    <3> QED
          BY <1>7, <1>8, <2>1, <2>3, <3>2
  <2> QED
        BY <2>2, <2>3
<1> QED
  BY <1>1, <1>2, <1>5, <1>6, <1>9

-------------------------------------------------------------------------------
(* The invariants *)

LEMMA ListTypesKept ==
  ASSUME ListTypes, \A t \in Threads : CallRight(t), FreeListNext
  PROVE  ListTypes'
<1>1. PICK t \in Threads :
        \/ AddNode(t) \/ LoadHeadToAdd(t) \/ StoreNext(t) \/ StoreRefs(t)
        \/ Push(t) \/ PushFails(t) \/ CloseRefs(t)
        \/ LoadHead(t) \/ LoadRefs(t) \/ CountNode(t) \/ LoadNext(t)
        \/ Pop(t) \/ PopFails(t) \/ Release(t) \/ Forget(t)
      BY DEF FreeListNext
<1> DEFINE me == call[t]
<1>2. me \in Calls /\ CallRight(t) /\ IdleCall \in Calls /\ AfterAdd(me) \in Calls
      BY AfterAddType DEF ListTypes, IdleCall, Calls, CallStates
<1>3. ASSUME NEW w \in Calls, call' = [call EXCEPT ![t] = w]
      PROVE  call' \in [Threads -> Calls]
      BY <1>3 DEF ListTypes
<1>4. CASE AddNode(t)
  <2>1. PICK n \in held[t] :
          /\ held' = [held EXCEPT ![t] = @ \ {n}]
          /\ shouldBeOnFreeList' = [shouldBeOnFreeList EXCEPT ![n] = TRUE]
          /\ call' = [call EXCEPT ![t] =
               IF freeListRefs[n] = 0
                 THEN [IdleCall EXCEPT !.pc = "zero", !.node = n, !.adding = TRUE]
                 ELSE IdleCall]
        BY <1>4 DEF AddNode
  <2>2. n \in Nodes
        BY DEF ListTypes
  <2>3. [IdleCall EXCEPT !.pc = "zero", !.node = n, !.adding = TRUE] \in Calls
        BY <2>2 DEF IdleCall, Calls, CallStates
  <2>4. call' \in [Threads -> Calls]
        BY <1>2, <1>3, <2>1, <2>3
  <2> QED
        BY <1>4, <2>1, <2>4 DEF ListTypes, AddNode
<1>5. CASE LoadHeadToAdd(t)
  <2>1. [me EXCEPT !.pc = "link", !.next = freeListHead] \in Calls
        BY <1>2 DEF Calls, CallStates, ListTypes
  <2> QED
        BY <1>3, <1>5, <2>1 DEF ListTypes, LoadHeadToAdd
<1>6. CASE StoreNext(t)
  <2>1. [me EXCEPT !.pc = "open"] \in Calls
        BY <1>2 DEF Calls, CallStates
  <2>2. call' \in [Threads -> Calls]
        BY <1>3, <1>6, <2>1 DEF StoreNext, Goto
  <2> QED
        BY <1>2, <1>6, <2>2 DEF ListTypes, StoreNext, CallRight
<1>7. CASE StoreRefs(t)
  <2>1. [me EXCEPT !.pc = "push"] \in Calls
        BY <1>2 DEF Calls, CallStates
  <2>2. call' \in [Threads -> Calls]
        BY <1>3, <1>7, <2>1 DEF StoreRefs, Goto
  <2>3. me.node \in Nodes
        BY <1>2, <1>7 DEF StoreRefs, CallRight
  <2> QED
        BY <1>7, <2>2, <2>3 DEF ListTypes, StoreRefs
<1>8. CASE Push(t)
  <2>1. call' \in [Threads -> Calls]
        BY <1>2, <1>3, <1>8 DEF Push
  <2> QED
        BY <1>2, <1>8, <2>1 DEF ListTypes, Push, CallRight
<1>9. CASE PushFails(t)
  <2>1. [me EXCEPT !.pc = "close", !.next = freeListHead] \in Calls
        BY <1>2 DEF Calls, CallStates, ListTypes
  <2> QED
        BY <1>3, <1>9, <2>1 DEF ListTypes, PushFails
<1>10. CASE CloseRefs(t)
  <2>1. [me EXCEPT !.pc = "link"] \in Calls
        BY <1>2 DEF Calls, CallStates
  <2>2. call' \in [Threads -> Calls]
        BY <1>2, <1>3, <1>10, <2>1 DEF CloseRefs
  <2>3. me.node \in Nodes
        BY <1>2, <1>10 DEF CloseRefs, CallRight
  <2> QED
        BY <1>10, <2>2, <2>3 DEF ListTypes, CloseRefs
<1>11. CASE LoadHead(t)
  <2>1. [IdleCall EXCEPT !.pc = "refs", !.head = freeListHead] \in Calls
        BY DEF Calls, CallStates, ListTypes, IdleCall
  <2>2. call' \in [Threads -> Calls]
        BY <1>2, <1>3, <1>11, <2>1 DEF LoadHead
  <2> QED
        BY <1>11, <2>2 DEF ListTypes, LoadHead
<1>12. CASE LoadRefs(t)
  <2>1. me.head \in Nodes
        BY <1>2, <1>12 DEF LoadRefs, CallRight
  <2>2. <<freeListRefs[me.head], shouldBeOnFreeList[me.head]>> \in Int \X BOOLEAN
        BY <2>1 DEF ListTypes
  <2> DEFINE seen == <<freeListRefs[me.head], shouldBeOnFreeList[me.head]>>
  <2>a. seen \in Int \X BOOLEAN
        BY <2>2
  <2> HIDE DEF seen
  <2>3. [me EXCEPT !.pc = "reload"] \in Calls /\ [me EXCEPT !.pc = "count", !.next = seen] \in Calls
        BY <1>2, <2>a DEF Calls, CallStates
  <2>4. call' \in [Threads -> Calls]
        BY <1>3, <1>12, <2>3 DEF LoadRefs, seen
  <2> QED
        BY <1>12, <2>4 DEF ListTypes, LoadRefs
<1>13. CASE CountNode(t)
  <2> DEFINE same == me.next = <<freeListRefs[me.head], shouldBeOnFreeList[me.head]>>
             w == [me EXCEPT !.pc = IF same THEN "next" ELSE "reload", !.next = Null]
  <2>a. [me EXCEPT !.pc = "next", !.next = Null] \in Calls
        BY <1>2 DEF Calls, CallStates
  <2>b. [me EXCEPT !.pc = "reload", !.next = Null] \in Calls
        BY <1>2 DEF Calls, CallStates
  <2>2. call' = [call EXCEPT ![t] = w]
        BY <1>13 DEF CountNode
  <2>c. w = IF same THEN [me EXCEPT !.pc = "next", !.next = Null]
                    ELSE [me EXCEPT !.pc = "reload", !.next = Null]
    <3> HIDE DEF same
    <3> QED  OBVIOUS
  <2>1. w \in Calls
    <3> HIDE DEF same, w
    <3> QED  BY <2>a, <2>b, <2>c
  <2> HIDE DEF w
  <2>3. call' \in [Threads -> Calls]
        BY <1>3, <2>1, <2>2
  <2>4. freeListRefs' = IF same THEN [freeListRefs EXCEPT ![me.head] = @ + 1] ELSE freeListRefs
        BY <1>13 DEF CountNode
  <2>6. me.head \in Nodes
        BY <1>2, <1>13 DEF CountNode, CallRight
  <2> HIDE DEF same
  <2>5. freeListRefs' \in [Nodes -> Int]
        BY <2>4, <2>6 DEF ListTypes
  <2> QED
        BY <1>13, <2>3, <2>5 DEF ListTypes, CountNode
<1>14. CASE LoadNext(t)
  <2>1. me.head \in Nodes
        BY <1>2, <1>14 DEF LoadNext, CallRight
  <2>2. [me EXCEPT !.pc = "pop", !.next = freeListNext[me.head]] \in Calls
        BY <1>2, <2>1 DEF Calls, CallStates, ListTypes
  <2> QED
        BY <1>3, <1>14, <2>2 DEF ListTypes, LoadNext
<1>15. CASE Pop(t)
  <2>1. [me EXCEPT !.pc = "release"] \in Calls
        BY <1>2 DEF Calls, CallStates
  <2>2. call' \in [Threads -> Calls]
        BY <1>3, <1>15, <2>1 DEF Pop, Goto
  <2> QED
        BY <1>2, <1>15, <2>2 DEF ListTypes, Pop, CallRight
<1>16. CASE PopFails(t)
  <2>1. [me EXCEPT !.pc = "forget", !.node = me.head, !.head = freeListHead, !.next = Null]
          \in Calls
        BY <1>2 DEF Calls, CallStates, ListTypes
  <2> QED
        BY <1>3, <1>16, <2>1 DEF ListTypes, PopFails
<1>17. CASE Release(t)
  <2>1. me.head \in Nodes /\ call' \in [Threads -> Calls]
        BY <1>2, <1>3, <1>17 DEF Release, CallRight
  <2> QED
        BY <1>17, <2>1 DEF ListTypes, Release, PopRefs
<1>18. CASE Forget(t)
  <2>1. [me EXCEPT !.pc = "zero"] \in Calls
        BY <1>2 DEF Calls, CallStates
  <2>2. call' \in [Threads -> Calls]
        BY <1>2, <1>3, <1>18, <2>1 DEF Forget
  <2>3. me.node \in Nodes
        BY <1>2, <1>18 DEF Forget, CallRight
  <2> QED
        BY <1>18, <2>2, <2>3 DEF ListTypes, Forget
<1> QED
  BY <1>1, <1>4, <1>5, <1>6, <1>7, <1>8, <1>9, <1>10, <1>11, <1>12, <1>13, <1>14, <1>15,
     <1>16, <1>17, <1>18

\* There are no more different nodes in a row than there are nodes.
LEMMA OrderFits ==
  ASSUME NEW len \in Nat, NEW order \in [1 .. len -> Nodes],
         \A i, j \in 1 .. len : order[i] = order[j] => i = j
  PROVE  len <= Cardinality(Nodes)
<1>1. order \in Injection(1 .. len, Nodes)
      BY DEF Injection, IsInjective
<1>2. Cardinality(1 .. len) <= Cardinality(Nodes)
      BY <1>1, FS_Injection, NodesAssumption
<1>3. Cardinality(1 .. len) = len
      BY FS_Interval
<1> QED
  BY <1>2, <1>3

\* A step that leaves the head and the pointers of the list.
LEMMA OrderKept ==
  ASSUME NEW len \in 0 .. Cardinality(Nodes), NEW order \in [1 .. len -> Nodes],
         InOrder(order, len), ListRight({order[i] : i \in 1 .. len})',
         freeListHead' = freeListHead,
         \A i \in 1 .. len : freeListNext'[order[i]] = freeListNext[order[i]]
  PROVE  ListInv'
<1>1. InOrder(order, len)'
      BY DEF InOrder
<1> QED
  BY <1>1 DEF ListInv

LEMMA ListInvKept ==
  ASSUME ListTypes, ListInv, FreeListNext
  PROVE  ListInv'
<1>1. PICK t \in Threads :
        \/ AddNode(t) \/ LoadHeadToAdd(t) \/ StoreNext(t) \/ StoreRefs(t)
        \/ Push(t) \/ PushFails(t) \/ CloseRefs(t)
        \/ LoadHead(t) \/ LoadRefs(t) \/ CountNode(t) \/ LoadNext(t)
        \/ Pop(t) \/ PopFails(t) \/ Release(t) \/ Forget(t)
      BY DEF FreeListNext
<1>a. PICK len \in 0 .. Cardinality(Nodes) :
        \E order \in [1 .. len -> Nodes] :
          InOrder(order, len) /\ ListRight({order[i] : i \in 1 .. len})
      BY DEF ListInv
<1>2. PICK order \in [1 .. len -> Nodes] :
        InOrder(order, len) /\ ListRight({order[i] : i \in 1 .. len})
      BY <1>a
<1> DEFINE list == {order[i] : i \in 1 .. len}
<1>3. ListRight(list) /\ InOrder(order, len) /\ \A i \in 1 .. len : order[i] \in list
      BY <1>2
<1>4. Cardinality(Nodes) \in Nat /\ len \in Nat
      BY NodesAssumption, FS_CardinalityType
<1>5. call[t] \in Calls /\ CallRight(t)
      BY <1>3 DEF ListTypes, ListRight
<1> HIDE DEF list
<1>6. ASSUME ListRight(list)', freeListHead' = freeListHead,
             \A i \in 1 .. len : freeListNext'[order[i]] = freeListNext[order[i]]
      PROVE  ListInv'
      BY <1>3, <1>6, OrderKept DEF list
<1>7. CASE \/ AddNode(t) \/ LoadHeadToAdd(t) \/ StoreRefs(t) \/ PushFails(t) \/ CloseRefs(t)
           \/ LoadHead(t) \/ LoadRefs(t) \/ CountNode(t) \/ LoadNext(t) \/ PopFails(t)
           \/ Release(t) \/ Forget(t)
  <2>1. UNCHANGED <<freeListHead, freeListNext>>
        BY <1>7 DEF AddNode, LoadHeadToAdd, StoreRefs, PushFails, CloseRefs, LoadHead, LoadRefs,
                    CountNode, LoadNext, PopFails, Release, Forget
  <2>2. ListRight(list)'
        BY <1>3, <1>7, AddNodeRight, LoadHeadToAddRight, StoreRefsRight, PushFailsRight,
           CloseRefsRight, LoadHeadRight, LoadRefsRight, CountNodeRight, LoadNextRight,
           PopFailsRight, ReleaseRight, ForgetRight
  <2> QED
        BY <1>6, <2>1, <2>2
<1>8. CASE StoreNext(t)
  <2>1. ListRight(list)'
        BY <1>3, <1>8, StoreNextRight
  <2>2. PICK m \in Nodes : m = call[t].node
        BY <1>5, <1>8 DEF StoreNext, CallRight
  <2>3. Closed(t, m) /\ NodeRight(m, list)
        BY <1>3, <1>8, <2>2 DEF StoreNext, Closed, ListRight
  <2>4. m \notin list
        BY <2>3 DEF NodeRight, Owns
  <2>5. freeListHead' = freeListHead /\ \A n \in Nodes \ {m} : freeListNext'[n] = freeListNext[n]
        BY <1>8, <2>2 DEF StoreNext, ListTypes
  <2>6. \A i \in 1 .. len : freeListNext'[order[i]] = freeListNext[order[i]]
        BY <1>3, <2>4, <2>5
  <2> QED
        BY <1>6, <2>1, <2>5, <2>6
<1>9. CASE Push(t)
  <2>1. PICK m \in Nodes : m = call[t].node
        BY <1>5, <1>9 DEF Push, CallRight
  <2>2. ListRight(list \cup {m})' /\ m \notin list
        BY <1>3, <1>9, <2>1, PushRight
  <2> DEFINE n == len + 1
             row == [i \in 1 .. n |-> IF i = n THEN m ELSE order[i]]
  <2>3. /\ n \in Nat /\ row \in [1 .. n -> Nodes] /\ n # 0 /\ row[n] = m
        /\ \A i \in 1 .. len : row[i] = order[i] /\ i \in 1 .. n
        /\ \A i \in 1 .. n : i = n \/ i \in 1 .. len
        BY <1>4
  <2> HIDE DEF row
  <2>4. \A i, j \in 1 .. n : row[i] = row[j] => i = j
        BY <1>3, <2>2, <2>3 DEF InOrder
  <2>5. n \in 0 .. Cardinality(Nodes)
        BY <1>4, <2>3, <2>4, OrderFits
  <2>6. list \cup {m} = {row[i] : i \in 1 .. n}
        BY <1>4, <2>3 DEF list
  <2>7. /\ freeListHead' = m /\ freeListNext' = freeListNext
        /\ freeListNext[m] = IF len = 0 THEN Null ELSE order[len]
        BY <1>3, <1>5, <1>9, <2>1 DEF Push, CallRight, InOrder
  <2>8. \A i \in 1 .. n : freeListNext'[row[i]] = IF i = 1 THEN Null ELSE row[i - 1]
    <3>1. freeListNext'[row[n]] = IF n = 1 THEN Null ELSE row[n - 1]
          BY <1>4, <2>3, <2>7
    <3>2. ASSUME NEW i \in 1 .. len
          PROVE  freeListNext'[row[i]] = IF i = 1 THEN Null ELSE row[i - 1]
      <4>1. freeListNext[order[i]] = IF i = 1 THEN Null ELSE order[i - 1]
            BY <1>3 DEF InOrder
      <4>2. i # 1 => i - 1 \in 1 .. len
            BY <1>4
      <4> QED
            BY <2>3, <2>7, <4>1, <4>2
    <3> QED
          BY <2>3, <3>1, <3>2
  <2>9. InOrder(row, n)'
        BY <2>3, <2>4, <2>7, <2>8 DEF InOrder
  <2> HIDE DEF n
  <2>10. ListRight({row[i] : i \in 1 .. n})'
        BY <2>2, <2>6
  <2> QED
        BY <2>3, <2>5, <2>9, <2>10 DEF ListInv
<1>10. CASE Pop(t)
  <2>1. PICK m \in Nodes : m = call[t].head
        BY <1>5, <1>10 DEF Pop, CallRight
  <2>2. freeListHead = m /\ m # Null
        BY <1>10, <2>1, NodesAssumption DEF Pop
  <2>3. len # 0 /\ m = order[len] /\ len \in 1 .. len
        BY <1>3, <1>4, <2>2 DEF InOrder
  <2>4. ListRight(list \ {m})'
        BY <1>3, <1>10, <2>1, <2>3, PopRight
  <2> DEFINE n == len - 1
             row == [i \in 1 .. n |-> order[i]]
  <2>5. /\ n \in 0 .. Cardinality(Nodes) /\ row \in [1 .. n -> Nodes]
        /\ \A i \in 1 .. n : row[i] = order[i] /\ i \in 1 .. len /\ i # len
        /\ \A i \in 1 .. len : i = len \/ i \in 1 .. n
        BY <1>4, <2>3
  <2> HIDE DEF row
  <2>6. list \ {m} = {row[i] : i \in 1 .. n}
        BY <1>3, <2>3, <2>5 DEF list, InOrder
  <2>7. /\ freeListHead' = freeListNext[m] /\ freeListNext' = freeListNext
        /\ freeListNext[m] = IF len = 1 THEN Null ELSE order[len - 1]
        BY <1>3, <1>5, <1>10, <2>1, <2>3 DEF Pop, CallRight, InOrder
  <2>8. freeListHead' = IF n = 0 THEN Null ELSE row[n]
        BY <1>4, <2>3, <2>5, <2>7
  <2>9. ASSUME NEW i \in 1 .. n
        PROVE  freeListNext'[row[i]] = IF i = 1 THEN Null ELSE row[i - 1]
    <3>1. freeListNext[order[i]] = IF i = 1 THEN Null ELSE order[i - 1]
          BY <1>3, <2>5 DEF InOrder
    <3>2. i # 1 => i - 1 \in 1 .. n
          BY <2>5
    <3> QED
          BY <2>5, <2>7, <3>1, <3>2
  <2>10. \A i, j \in 1 .. n : row[i] = row[j] => i = j
        BY <1>3, <2>5 DEF InOrder
  <2>11. InOrder(row, n)'
        BY <2>8, <2>9, <2>10 DEF InOrder
  <2> HIDE DEF n
  <2>12. ListRight({row[i] : i \in 1 .. n})'
        BY <2>4, <2>6
  <2> QED
        BY <2>5, <2>11, <2>12 DEF ListInv
<1> QED
  BY <1>1, <1>7, <1>8, <1>9, <1>10

LEMMA ListInvInit ==
  ASSUME FreeListInit
  PROVE  ListTypes /\ ListInv
<1>1. PICK t \in Threads : held = [u \in Threads |-> IF u = t THEN Nodes ELSE {}]
      BY DEF FreeListInit
<1>2. /\ \A u \in Threads : call[u] = IdleCall /\ IdleCall.pc = "idle"
      /\ \A n \in Nodes : freeListRefs[n] = 0 /\ ~ shouldBeOnFreeList[n]
      BY DEF FreeListInit, IdleCall
<1>3. ListTypes
      BY <1>1, <1>2 DEF FreeListInit, ListTypes, IdleCall, Calls, CallStates
<1>4. \A u \in Threads : CallRight(u)
      BY <1>2 DEF CallRight
<1>5. ASSUME NEW n \in Nodes
      PROVE  NodeRight(n, {})
  <2>1. \A u \in Threads :
          ~ Counts(u, n) /\ ~ Closed(u, n) /\ ~ Opened(u, n) /\ ~ Popped(u, n)
        BY <1>2 DEF Counts, Closed, Opened, Popped
  <2>2. Cardinality(Counters(n)) = 0 /\ ~ ListRef(n, {})
        BY <2>1, CountersFinite DEF ListRef
  <2>3. \A u \in Threads : n \in held[u] <=> u = t
        BY <1>1
  <2> QED
        BY <1>2, <2>1, <2>2, <2>3 DEF NodeRight, Owns
<1> DEFINE order == [i \in 1 .. 0 |-> Null]
<1>6. order \in [1 .. 0 -> Nodes] /\ {order[i] : i \in 1 .. 0} = {}
      OBVIOUS
<1>7. InOrder(order, 0)
      BY DEF InOrder, FreeListInit
<1>8. 0 \in 0 .. Cardinality(Nodes)
      BY NodesAssumption, FS_CardinalityType
<1>9. ListRight({order[i] : i \in 1 .. 0})
      BY <1>4, <1>5, <1>6 DEF ListRight
<1> HIDE DEF order
<1>10. ListInv
      BY <1>6, <1>7, <1>8, <1>9 DEF ListInv
<1> QED
  BY <1>3, <1>10

LEMMA ListInvImplies ==
  ASSUME ListTypes, ListInv
  PROVE  NodesKept
<1>1. PICK len \in 0 .. Cardinality(Nodes) :
        \E order \in [1 .. len -> Nodes] :
          InOrder(order, len) /\ ListRight({order[i] : i \in 1 .. len})
      BY DEF ListInv
<1>2. PICK order \in [1 .. len -> Nodes] :
        InOrder(order, len) /\ ListRight({order[i] : i \in 1 .. len})
      BY <1>1
<1>3. OnList = {order[i] : i \in 1 .. len}
      BY <1>2, OnListIs
<1>4. ListRight(OnList) /\ OnList \subseteq Nodes
      BY <1>2, <1>3
<1>5. ASSUME NEW t \in Threads, NEW n \in held[t]
      PROVE  /\ n \notin OnList /\ ~ shouldBeOnFreeList[n]
             /\ \A u \in Threads \ {t} : n \notin Mine(u)
  <2>1. n \in Nodes /\ Owns(t, n)
        BY DEF ListTypes, Owns
  <2>2. NodeRight(n, OnList)
        BY <1>4, <2>1 DEF ListRight
  <2>3. n \notin OnList /\ ~ shouldBeOnFreeList[n]
        BY <2>1, <2>2 DEF NodeRight
  <2>4. ASSUME NEW u \in Threads \ {t}
        PROVE  n \notin Mine(u)
    <3>1. ~ Owns(u, n)
          BY <2>1, <2>2 DEF NodeRight
    <3> QED
          BY <3>1 DEF Mine, Owns, Closed, Opened, Popped
  <2> QED
        BY <2>3, <2>4
<1>6. ASSUME \A t \in Threads : call[t].pc = "idle"
      PROVE  (UNION {held[t] : t \in Threads}) \cup OnList = Nodes
  <2>1. ASSUME NEW n \in Nodes
        PROVE  n \in OnList \/ \E t \in Threads : n \in held[t]
    <3>1. NodeRight(n, OnList)
          BY <1>4 DEF ListRight
    <3>2. \A t \in Threads :
            ~ Counts(t, n) /\ ~ Closed(t, n) /\ ~ Opened(t, n) /\ ~ Popped(t, n)
          BY <1>6 DEF Counts, Closed, Opened, Popped
    <3>3. Cardinality(Counters(n)) = 0
          BY <3>2, CountersFinite
    <3>4. ~ shouldBeOnFreeList[n]
          BY <3>1, <3>2, <3>3 DEF NodeRight, ListRef
    <3> QED
          BY <3>1, <3>2, <3>4 DEF NodeRight, Owns
  <2> DEFINE all == UNION {held[t] : t \in Threads}
  <2>2. ASSUME NEW n \in all
        PROVE  n \in Nodes
        BY DEF ListTypes
  <2>3. ASSUME NEW n \in Nodes, n \notin OnList
        PROVE  n \in all
    <3>1. PICK t \in Threads : n \in held[t]
          BY <2>1, <2>3
    <3> QED
          BY <3>1
  <2> HIDE DEF all
  <2>4. all \cup OnList = Nodes
        BY <1>4, <2>2, <2>3
  <2> QED
        BY <2>4 DEF all
<1> QED
  BY <1>5, <1>6 DEF NodesKept

\* No node of the free list is lost or given to two threads, for any number of
\* threads and nodes.
THEOREM NodesKeptCorrect == Spec => []NodesKept
<1>1. Init => ListTypes /\ ListInv
      BY ListInvInit DEF Init
<1>2. ListTypes /\ ListInv /\ [Next]_vars => (ListTypes /\ ListInv)'
  <2> SUFFICES ASSUME ListTypes, ListInv, [Next]_vars
               PROVE  ListTypes' /\ ListInv'
      OBVIOUS
  <2>1. FreeListNext \/ UNCHANGED listVars
        BY DEF Next, vars
  <2>2. CASE FreeListNext
    <3>1. \A t \in Threads : CallRight(t)
          BY DEF ListInv, ListRight
    <3> QED
          BY <2>2, <3>1, ListTypesKept, ListInvKept
  <2>3. CASE UNCHANGED listVars
    <3>1. UNCHANGED <<freeListHead, freeListNext, freeListRefs, shouldBeOnFreeList, held, call>>
          BY <2>3 DEF listVars
    <3>2. ListTypes'
          BY <3>1 DEF ListTypes
    <3>3. PICK len \in 0 .. Cardinality(Nodes) :
            \E order \in [1 .. len -> Nodes] :
              InOrder(order, len) /\ ListRight({order[i] : i \in 1 .. len})
          BY DEF ListInv
    <3>4. PICK order \in [1 .. len -> Nodes] :
            InOrder(order, len) /\ ListRight({order[i] : i \in 1 .. len})
          BY <3>3
    <3> DEFINE list == {order[i] : i \in 1 .. len}
    <3>5. ListRight(list)
          BY <3>4
    <3> HIDE DEF list
    <3>6. \A u \in Threads : CallRight(u)'
          BY <3>1, <3>5 DEF ListRight, CallRight
    <3>7. \A u \in Threads, n \in Nodes : Same(u, n)
          BY <3>1 DEF Same, Counts, Closed, Opened, Popped
    <3>8. \A n \in Nodes : NodeRight(n, list)'
          BY <3>1, <3>5, <3>7, NodeFrame DEF ListRight
    <3>9. ListRight(list)'
          BY <3>6, <3>8 DEF ListRight
    <3>10. ListInv'
          BY <3>1, <3>4, <3>9, OrderKept DEF list
    <3> QED
          BY <3>2, <3>10
  <2> QED
        BY <2>1, <2>2, <2>3
<1>3. ListTypes /\ ListInv => NodesKept
      BY ListInvImplies
<1> QED
  BY <1>1, <1>2, <1>3, PTL DEF Spec

-------------------------------------------------------------------------------
(* Numbers *)

\* A non-empty set of numbers with a bound has a greatest element.
LEMMA GreatestNatural ==
  ASSUME NEW n \in Nat, NEW S, S \subseteq 0 .. n, S # {}
  PROVE  \E x \in S : \A y \in S : y <= x
<1> DEFINE Below == {i \in Nat : \A y \in S : y <= i}
<1>1. n \in Below
      OBVIOUS
<1>2. PICK x \in Below : \A i \in Below : x <= i
      BY <1>1, LeastNatural
<1>3. x \in S
  <2> SUFFICES ASSUME x \notin S
               PROVE  FALSE
      OBVIOUS
  <2>a. x \in Nat /\ \A y \in S : y \in Nat /\ y <= x /\ y # x
        BY <1>2
  <2>1. \A y \in S : y <= x - 1 /\ y \in Nat
        BY <2>a
  <2>c. PICK y \in S : TRUE
        OBVIOUS
  <2>2. x - 1 \in Nat
        BY <2>1, <2>a, <2>c
  <2>3. x - 1 \in Below
        BY <2>1, <2>2
  <2> QED
        BY <1>2, <2>3
<1> QED
  BY <1>2, <1>3

\* 1 << i, which the recursive function PowerOfTwo defines.
LEMMA PowerOfTwoGrows ==
  ASSUME NEW i \in Nat
  PROVE  /\ PowerOfTwo[i] \in Nat /\ PowerOfTwo[i] > i
         /\ PowerOfTwo[i + 1] = 2 * PowerOfTwo[i]
<1> DEFINE Good(n, g) == /\ g \in [0 .. n -> Nat]
                         /\ g[0] = 1
                         /\ \A k \in 1 .. n : g[k] = 2 * g[k - 1]
                         /\ \A k \in 0 .. n : g[k] > k
           Bad == {n \in Nat : ~ \E g : Good(n, g)}
<1>1. Bad = {}
  <2> SUFFICES ASSUME Bad # {}
               PROVE  FALSE
      OBVIOUS
  <2>1. PICK n \in Bad : \A m \in Bad : n <= m
        BY LeastNatural
  <2>2. CASE n = 0
    <3>1. Good(0, [k \in 0 .. 0 |-> 1])
          OBVIOUS
    <3> QED
          BY <2>1, <2>2, <3>1
  <2>3. CASE n > 0
    <3>a. n \in Nat
          BY <2>1
    <3>b. n - 1 \in Nat /\ ~ (n <= n - 1)
          BY <2>3, <3>a
    <3>1. n - 1 \in Nat /\ n - 1 \notin Bad
      <4> HIDE DEF Bad
      <4> QED
          BY <2>1, <3>b
    <3>2. PICK g : Good(n - 1, g)
          BY <3>1
    <3> DEFINE h == [k \in 0 .. n |-> IF k = n THEN 2 * g[n - 1] ELSE g[k]]
    <3>3. g[n - 1] \in Nat /\ g[n - 1] > n - 1
          BY <3>1, <3>2
    <3>4. h \in [0 .. n -> Nat]
          BY <3>1, <3>2, <3>3
    <3>5. h[0] = 1 /\ \A k \in 1 .. n : h[k] = 2 * h[k - 1]
          BY <2>3, <3>1, <3>2, <3>3
    <3>6. \A k \in 0 .. n : h[k] > k
          BY <2>3, <3>1, <3>2, <3>3
    <3>7. Good(n, h)
          BY <3>4, <3>5, <3>6
    <3> QED
          BY <2>1, <3>7
  <2> QED
        BY <2>1, <2>2, <2>3
<1>2. ASSUME NEW n \in Nat, NEW m \in Nat, NEW g, NEW h, Good(n, g), Good(m, h)
      PROVE  \A k \in Nat : k <= n /\ k <= m => g[k] = h[k]
  <2> DEFINE Differ == {k \in Nat : k <= n /\ k <= m /\ g[k] # h[k]}
  <2> SUFFICES ASSUME Differ # {}
               PROVE  FALSE
      OBVIOUS
  <2>1. PICK k \in Differ : \A j \in Differ : k <= j
        BY LeastNatural
  <2>2. k > 0
        BY <1>2, <2>1
  <2>3. k - 1 \in Nat /\ k - 1 \notin Differ
        BY <2>1, <2>2
  <2>4. g[k - 1] = h[k - 1]
        BY <2>1, <2>3
  <2> QED
        BY <1>2, <2>1, <2>2, <2>4
<1> DEFINE Upto(n) == CHOOSE g : Good(n, g)
           F == [n \in Nat |-> Upto(n)[n]]
<1>3. \A n \in Nat : Good(n, Upto(n))
      BY <1>1
<1> HIDE DEF Good, Upto
<1>4. \A n \in Nat : F[n] = Upto(n)[n]
      OBVIOUS
<1>5. \A n \in Nat : F[n] \in Nat /\ F[n] > n
      BY <1>3, <1>4 DEF Good
<1>6. F[0] = 1
      BY <1>3, <1>4 DEF Good
<1>7. ASSUME NEW n \in Nat, n > 0
      PROVE  F[n] = 2 * F[n - 1]
  <2>1. n - 1 \in Nat /\ Good(n, Upto(n)) /\ Good(n - 1, Upto(n - 1))
        BY <1>3, <1>7
  <2>2. Upto(n)[n - 1] = Upto(n - 1)[n - 1]
        BY <1>2, <2>1
  <2> QED
        BY <1>4, <1>7, <2>1, <2>2 DEF Good
<1> HIDE DEF F
<1>8. F = [n \in Nat |-> IF n = 0 THEN 1 ELSE 2 * F[n - 1]]
  <2> DEFINE G == [n \in Nat |-> IF n = 0 THEN 1 ELSE 2 * F[n - 1]]
  <2>1. F = [n \in Nat |-> F[n]]
        BY DEF F
  <2>2. \A n \in Nat : F[n] = G[n]
        BY <1>6, <1>7
  <2> QED
        BY <2>1, <2>2
<1>9. PowerOfTwo = [n \in Nat |-> IF n = 0 THEN 1 ELSE 2 * PowerOfTwo[n - 1]]
      BY <1>8 DEF PowerOfTwo
<1> DEFINE Differ == {n \in Nat : PowerOfTwo[n] # F[n]}
<1>10. Differ = {}
  <2> SUFFICES ASSUME Differ # {}
               PROVE  FALSE
      OBVIOUS
  <2>1. PICK n \in Differ : \A m \in Differ : n <= m
        BY LeastNatural
  <2>2. CASE n = 0
        BY <1>6, <1>9, <2>1, <2>2
  <2>3. CASE n > 0
    <3>1. n - 1 \in Nat /\ n - 1 \notin Differ
          BY <2>1, <2>3
    <3>2. PowerOfTwo[n - 1] = F[n - 1]
          BY <3>1
    <3> QED
          BY <1>7, <1>9, <2>1, <2>3, <3>2
  <2> QED
        BY <2>1, <2>2, <2>3
<1>11. \A n \in Nat : PowerOfTwo[n] = F[n]
      BY <1>10
<1>12. i + 1 \in Nat /\ i + 1 > 0 /\ (i + 1) - 1 = i
      OBVIOUS
<1> QED
  BY <1>5, <1>7, <1>11, <1>12

\* A table that is doubled until it is less than half full is larger.
LEMMA DoubledGrows ==
  ASSUME NEW n \in Nat, NEW size \in Nat \ {0}
  PROVE  Doubled(n, size) \in Nat /\ Doubled(n, size) > size
<1> DEFINE sizes == {size * PowerOfTwo[i] : i \in 1 .. n + 1}
           large == {s \in sizes : n < s \div 2}
<1>1. ASSUME NEW i \in 1 .. n + 1
      PROVE  /\ size * PowerOfTwo[i] \in Nat
             /\ size * PowerOfTwo[i] > size
             /\ (size * PowerOfTwo[i]) \div 2 > i - 1
  <2>1. i - 1 \in Nat /\ (i - 1) + 1 = i
        OBVIOUS
  <2>2. PICK p \in Nat : p = PowerOfTwo[i - 1] /\ p > i - 1 /\ PowerOfTwo[i] = 2 * p
        BY <2>1, PowerOfTwoGrows
  <2>3. size * PowerOfTwo[i] = 2 * (size * p) /\ size * p \in Nat
        BY <2>2
  <2>4. size * p >= p /\ size * p >= size
        BY <2>1, <2>2
  <2>5. (2 * (size * p)) \div 2 = size * p
        BY <2>3
  <2> QED
        BY <2>1, <2>2, <2>3, <2>4, <2>5
<1>2. n + 1 \in 1 .. n + 1
      OBVIOUS
<1>3. size * PowerOfTwo[n + 1] \in large
      BY <1>1, <1>2
<1>4. large \subseteq Nat
      BY <1>1
<1>5. PICK s \in large : \A r \in large : s <= r
      BY <1>3, <1>4, LeastNatural
<1>6. Doubled(n, size) \in large
      BY <1>5 DEF Doubled
<1> QED
  BY <1>1, <1>6

-------------------------------------------------------------------------------
(* Places of a table *)

\* Euclidean division.
LEMMA Division ==
  ASSUME NEW a \in Nat, NEW n \in Nat \ {0}
  PROVE  /\ a \div n \in Nat
         /\ a % n \in 0 .. n - 1
         /\ a = n * (a \div n) + (a % n)
OBVIOUS

\* There is one quotient and one remainder.
LEMMA OneRemainder ==
  ASSUME NEW n \in Nat \ {0}, NEW p \in Nat, NEW q \in Nat,
         NEW r \in 0 .. n - 1, NEW s \in 0 .. n - 1, n * p + r = n * q + s
  PROVE  p = q /\ r = s
<1>1. ASSUME NEW a \in Nat, NEW b \in Nat, a < b
      PROVE  n * a + n <= n * b
  <2>1. PICK d \in Nat : b = a + 1 + d
    <3>1. b - a - 1 \in Nat
          BY <1>1
    <3> QED
          BY <3>1
  <2>2. n * b = n * a + n + n * d
        BY <2>1, Z3
  <2>3. n * d \in Nat
        OBVIOUS
  <2> QED
        BY <2>2, <2>3
<1>2. n * p \in Nat /\ n * q \in Nat
      OBVIOUS
<1>3. ~ (p < q)
  <2>1. p < q => n * p + n <= n * q
        BY <1>1
  <2> QED
        BY <2>1, <1>2
<1>4. ~ (q < p)
  <2>1. q < p => n * q + n <= n * p
        BY <1>1
  <2> QED
        BY <2>1, <1>2
<1>5. p = q
      BY <1>3, <1>4
<1> QED
  BY <1>5, <1>2

\* The remainder of a number written as a multiple and a rest.
LEMMA RemainderOf ==
  ASSUME NEW n \in Nat \ {0}, NEW p \in Nat, NEW r \in 0 .. n - 1, NEW a \in Nat, a = n * p + r
  PROVE  a % n = r
<1>1. a \div n \in Nat /\ a % n \in 0 .. n - 1 /\ a = n * (a \div n) + (a % n)
      BY Division
<1> DEFINE q == a \div n
           s == a % n
<1>2. q \in Nat /\ s \in 0 .. n - 1 /\ n * p + r = n * q + s
      BY <1>1
<1> HIDE DEF q, s
<1>3. r = s
      BY <1>2, OneRemainder
<1> QED
  BY <1>3 DEF s

\* Numbers with one remainder keep one remainder when both are increased.
LEMMA RemainderShift ==
  ASSUME NEW n \in Nat \ {0}, NEW a \in Nat, NEW b \in Nat, NEW d \in Nat, a % n = b % n
  PROVE  (a + d) % n = (b + d) % n
<1> DEFINE p == a \div n
           q == b \div n
           r == a % n
           u == (r + d) \div n
           w == (r + d) % n
<1>1. p \in Nat /\ r \in 0 .. n - 1 /\ a = n * p + r
      BY Division
<1>2. q \in Nat /\ b = n * q + r
      BY Division
<1>3. r + d \in Nat
      BY <1>1
<1>4. u \in Nat /\ w \in 0 .. n - 1 /\ r + d = n * u + w
      BY <1>3, Division
<1> HIDE DEF p, q, r, u, w
<1>5. n * (p + u) = n * p + n * u /\ n * (q + u) = n * q + n * u
      BY <1>1, <1>2, <1>4, Z3
<1>6. n * p \in Nat /\ n * q \in Nat /\ n * u \in Nat
      BY <1>1, <1>2, <1>4
<1>7. a + d = n * (p + u) + w /\ b + d = n * (q + u) + w
      BY <1>1, <1>2, <1>4, <1>5, <1>6
<1>8. p + u \in Nat /\ q + u \in Nat /\ a + d \in Nat /\ b + d \in Nat
      BY <1>1, <1>2, <1>4
<1> DEFINE c == a + d
           e == b + d
           pu == p + u
           qu == q + u
<1>a. c \in Nat /\ e \in Nat /\ pu \in Nat /\ qu \in Nat /\ c = n * pu + w /\ e = n * qu + w
      BY <1>7, <1>8
<1> HIDE DEF c, e, pu, qu
<1>9. c % n = w
      BY <1>4, <1>a, RemainderOf
<1>10. e % n = w
      BY <1>4, <1>a, RemainderOf
<1> QED
  BY <1>9, <1>10 DEF c, e

\* The places of a table.
LEMMA TableDomain ==
  ASSUME NEW table \in HashTables
  PROVE  /\ TableSize(table) \in Nat \ {0}
         /\ TableSize(table) >= INITIAL_IMPLICIT_PRODUCER_HASH_SIZE
         /\ DOMAIN table = 0 .. TableSize(table) - 1
         /\ \A i \in DOMAIN table : table[i] \in HashEntries
<1>1. PICK n \in HashSizes : table \in [0 .. n - 1 -> HashEntries]
      BY DEF HashTables
<1>2. n \in Nat /\ n >= INITIAL_IMPLICIT_PRODUCER_HASH_SIZE /\ n # 0
      BY WritersAssumption DEF HashSizes
<1>3. Cardinality(0 .. n - 1) = n
  <2>1. n - 1 \in Int /\ ~ (0 > n - 1)
        BY <1>2
  <2> QED
        BY <1>2, <2>1, FS_Interval
<1>4. DOMAIN table = 0 .. n - 1 /\ TableSize(table) = n
      BY <1>1, <1>3 DEF TableSize
<1> QED
  BY <1>1, <1>2, <1>4

\* Where a thread probes is a place of the table; it finds each place once in
\* as many steps as there are places, and two threads that meet go on together.
LEMMA SlotFacts ==
  ASSUME NEW table \in HashTables, NEW t \in Writers
  PROVE  /\ \A n \in Nat : Slot(t, table, n) \in DOMAIN table
         /\ \A i \in DOMAIN table : \E n \in DOMAIN table : Slot(t, table, n) = i
         /\ \A m, n \in DOMAIN table : Slot(t, table, m) = Slot(t, table, n) => m = n
<1> DEFINE size == TableSize(table)
           h == HashOf[t] % size
           q == HashOf[t] \div size
<1>1. size \in Nat \ {0} /\ DOMAIN table = 0 .. size - 1
      BY TableDomain
<1>2. HashOf[t] \in Nat
      BY WritersAssumption
<1> HIDE DEF size
<1>3. q \in Nat /\ h \in 0 .. size - 1 /\ HashOf[t] = size * q + h
      BY <1>1, <1>2, Division
<1> HIDE DEF h, q
<1>4. \A n : Slot(t, table, n) = (HashOf[t] + n) % size
      BY DEF Slot, size
<1>5. ASSUME NEW n \in Nat
      PROVE  Slot(t, table, n) \in DOMAIN table
  <2>1. HashOf[t] + n \in Nat
        BY <1>2
  <2> QED
        BY <1>1, <1>4, <2>1, Division
<1>6. size * q \in Nat /\ size * (q + 1) = size * q + size
      BY <1>1, <1>3, Z3
<1>7. ASSUME NEW i \in DOMAIN table
      PROVE  \E n \in DOMAIN table : Slot(t, table, n) = i
  <2>a. i \in 0 .. size - 1
        BY <1>1
  <2>1. CASE h <= i
    <3>1. i - h \in DOMAIN table /\ HashOf[t] + (i - h) = size * q + i
          BY <1>1, <1>3, <1>6, <2>a, <2>1
    <3>2. HashOf[t] + (i - h) \in Nat
          BY <1>1, <1>6, <2>a, <3>1
    <3> DEFINE a == HashOf[t] + (i - h)
    <3>a. a \in Nat /\ a = size * q + i
          BY <3>1, <3>2
    <3> HIDE DEF a
    <3>3. a % size = i
          BY <1>1, <1>3, <2>a, <3>a, RemainderOf, SMTT(30)
    <3> QED
          BY <1>4, <3>1, <3>3 DEF a
  <2>2. CASE i < h
    <3>a. h \in 0 .. size - 1
          BY <1>3
    <3>b. i + size - h \in 0 .. size - 1
          BY <1>1, <2>a, <2>2, <3>a
    <3>c. HashOf[t] + (i + size - h) = size * q + size + i
          BY <1>1, <1>2, <1>3, <1>6, <2>a, <3>a
    <3>1. i + size - h \in DOMAIN table /\ HashOf[t] + (i + size - h) = size * (q + 1) + i
          BY <1>1, <1>6, <3>b, <3>c
    <3>2. HashOf[t] + (i + size - h) \in Nat /\ q + 1 \in Nat
          BY <1>2, <1>3, <3>b
    <3> DEFINE a == HashOf[t] + (i + size - h)
               p == q + 1
    <3>d. a \in Nat /\ p \in Nat /\ a = size * p + i
          BY <3>1, <3>2
    <3> HIDE DEF a, p
    <3>3. a % size = i
          BY <1>1, <2>a, <3>d, RemainderOf
    <3> QED
          BY <1>4, <3>1, <3>3 DEF a
  <2> QED
        BY <2>1, <2>2, <2>a, <1>3
<1>8. ASSUME NEW m \in DOMAIN table, NEW n \in DOMAIN table,
             Slot(t, table, m) = Slot(t, table, n), m < n
      PROVE  FALSE
  <2> DEFINE a == HashOf[t] + m
             b == HashOf[t] + n
             r == a % size
             u == a \div size
             v == b \div size
  <2>a. m \in 0 .. size - 1 /\ n \in 0 .. size - 1
        BY <1>1
  <2>1. a \in Nat /\ b \in Nat /\ a < b /\ b < a + size
        BY <1>1, <1>2, <1>8, <2>a
  <2>b. a % size = b % size
        BY <1>4, <1>8
  <2> HIDE DEF a, b
  <2>2. u \in Nat /\ r \in 0 .. size - 1 /\ a = size * u + r
        BY <1>1, <2>1, Division
  <2>3. v \in Nat /\ b = size * v + r
        BY <1>1, <2>1, <2>b, Division
  <2> HIDE DEF r, u, v
  <2> DEFINE d == b - a
  <2>4. d \in 0 .. size - 1 /\ size * v + 0 = size * u + d
    <3>1. size * u \in Nat /\ size * v \in Nat
          BY <1>1, <2>2, <2>3
    <3> QED
          BY <1>1, <2>1, <2>2, <2>3, <3>1
  <2>5. d # 0
        BY <2>1
  <2> HIDE DEF d
  <2>6. 0 \in 0 .. size - 1
        BY <1>1
  <2>7. 0 = d
        BY <1>1, <2>2, <2>3, <2>4, <2>6, OneRemainder
  <2> QED
        BY <2>5, <2>7
<1>9. ASSUME NEW m \in DOMAIN table, NEW n \in DOMAIN table,
             Slot(t, table, m) = Slot(t, table, n)
      PROVE  m = n
  <2>1. m \in Nat /\ n \in Nat
        BY <1>1
  <2> QED
        BY <1>8, <1>9, <2>1
<1> QED
  BY <1>5, <1>7, <1>9

\* Two threads that meet at a place go on together.
LEMMA SlotTogether ==
  ASSUME NEW table \in HashTables, NEW t \in Writers, NEW u \in Writers,
         NEW m \in Nat, NEW n \in Nat, NEW d \in Nat, Slot(t, table, m) = Slot(u, table, n)
  PROVE  Slot(t, table, m + d) = Slot(u, table, n + d)
<1>1. TableSize(table) \in Nat \ {0}
      BY TableDomain
<1>2. HashOf[t] \in Nat /\ HashOf[u] \in Nat
      BY WritersAssumption
<1>3. (HashOf[t] + m) % TableSize(table) = (HashOf[u] + n) % TableSize(table)
      BY DEF Slot
<1>4. HashOf[t] + m \in Nat /\ HashOf[u] + n \in Nat
      BY <1>2
<1>5. ((HashOf[t] + m) + d) % TableSize(table) = ((HashOf[u] + n) + d) % TableSize(table)
      BY <1>1, <1>3, <1>4, RemainderShift
<1>6. (HashOf[t] + m) + d = HashOf[t] + (m + d) /\ (HashOf[u] + n) + d = HashOf[u] + (n + d)
      BY <1>2
<1> QED
  BY <1>5, <1>6 DEF Slot

-------------------------------------------------------------------------------
(* Probing *)

\* With fewer threads than places, a place is empty: the others are taken by or
\* left to threads, each by a thread of its own.
LEMMA EmptyPlace ==
  ASSUME FewWriters, NEW table \in HashTables, NEW from, KeysFound(table), LeftTo(table, from)
  PROVE  HasEmpty(table)
<1> SUFFICES ASSUME ~ HasEmpty(table)
             PROVE  FALSE
    OBVIOUS
<1>1. PICK own \in [Reusables(table) -> Writers] :
        /\ \A q, r \in Reusables(table) : own[q] = own[r] => q = r
        /\ \A r \in Reusables(table) : ~Holds(own[r], table)
      BY DEF LeftTo
<1>2. \A i \in DOMAIN table : table[i].key \in Writers \cup {Reusable}
      BY TableDomain DEF HasEmpty, HashEntries
<1> DEFINE taker == [i \in DOMAIN table |->
                       IF table[i].key = Reusable THEN own[i] ELSE table[i].key]
<1>3. taker \in [DOMAIN table -> Writers]
      BY <1>1, <1>2 DEF Reusables
<1>4. ASSUME NEW i \in DOMAIN table, NEW j \in DOMAIN table, taker[i] = taker[j]
      PROVE  i = j
  <2>1. CASE i \in Reusables(table) /\ j \in Reusables(table)
        BY <1>1, <1>4, <2>1 DEF Reusables
  <2>2. CASE i \in Reusables(table) /\ j \notin Reusables(table)
        BY <1>1, <1>4, <2>2 DEF Reusables, Holds
  <2>3. CASE i \notin Reusables(table) /\ j \in Reusables(table)
        BY <1>1, <1>4, <2>3 DEF Reusables, Holds
  <2>4. CASE i \notin Reusables(table) /\ j \notin Reusables(table)
    <3>1. table[i].key \in Writers /\ table[j].key = table[i].key
          BY <1>2, <1>4, <2>4 DEF Reusables
    <3> QED
          BY <3>1 DEF KeysFound
  <2> QED
        BY <2>1, <2>2, <2>3, <2>4
<1>5. taker \in Injection(DOMAIN table, Writers)
      BY <1>3, <1>4 DEF Injection, IsInjective
<1>6. IsFiniteSet(Writers)
      BY WritersAssumption
<1>7. Cardinality(DOMAIN table) <= Cardinality(Writers)
      BY <1>5, <1>6, FS_Injection
<1>8. Cardinality(Writers) \in Nat
      BY <1>6, FS_CardinalityType
<1>9. TableSize(table) \in Nat /\ TableSize(table) >= INITIAL_IMPLICIT_PRODUCER_HASH_SIZE
      BY TableDomain
<1>10. INITIAL_IMPLICIT_PRODUCER_HASH_SIZE \in Nat
      BY WritersAssumption
<1> QED
  BY <1>7, <1>8, <1>9, <1>10 DEF FewWriters, TableSize

\* A probe ends before it comes round.
LEMMA ProbeEnds ==
  ASSUME NEW table \in HashTables, HasEmpty(table), NEW t \in Writers, NEW n \in Nat,
         Passed(t, table, n)
  PROVE  n \in DOMAIN table
<1>1. PICK i \in DOMAIN table : table[i].key = Empty
      BY DEF HasEmpty
<1>2. PICK m \in DOMAIN table : Slot(t, table, m) = i
      BY <1>1, SlotFacts
<1>3. m \in 0 .. TableSize(table) - 1 /\ TableSize(table) \in Nat
      BY TableDomain
<1>4. ~ (m \in 0 .. n - 1)
      BY <1>1, <1>2 DEF Passed
<1>5. n <= m
      BY <1>3, <1>4
<1> QED
  BY <1>3, <1>5, TableDomain

\* Linear probing finds a thread that is in the table, and no other.
LEMMA Lookup ==
  ASSUME NEW table \in HashTables, HasEmpty(table), KeysFound(table), NEW t \in Writers
  PROVE  /\ Knows(t, table) <=> Holds(t, table)
         /\ Knows(t, table) => /\ Slot(t, table, Probes(t, table)) \in DOMAIN table
                               /\ table[Slot(t, table, Probes(t, table))].key = t
<1> DEFINE at(i) == table[Slot(t, table, i)].key
           stops == {i \in DOMAIN table : at(i) \in {t, Empty}}
           first == CHOOSE i \in stops : \A j \in stops : i <= j
<1>1. Probes(t, table) = IF at(first) = t THEN first ELSE TableSize(table)
      BY DEF Probes
<1>2. TableSize(table) \in Nat /\ DOMAIN table = 0 .. TableSize(table) - 1
      BY TableDomain
<1>a. \A i \in DOMAIN table : i \in Nat /\ i < TableSize(table)
      BY <1>2
<1>3. stops # {} /\ stops \subseteq Nat
  <2>1. PICK i \in DOMAIN table : table[i].key = Empty
        BY DEF HasEmpty
  <2>2. PICK n \in DOMAIN table : Slot(t, table, n) = i
        BY <2>1, SlotFacts
  <2> QED
        BY <1>a, <2>1, <2>2
<1>4. PICK least \in stops : \A j \in stops : least <= j
      BY <1>3, LeastNatural
<1>5. first \in stops /\ \A j \in stops : first <= j
      BY <1>4
<1> HIDE DEF first
<1>6. first \in Nat /\ first < TableSize(table) /\ Slot(t, table, first) \in DOMAIN table
      BY <1>5, <1>a, SlotFacts
<1>7. Holds(t, table) => at(first) = t
  <2> SUFFICES ASSUME NEW i \in DOMAIN table, table[i].key = t
               PROVE  at(first) = t
      BY DEF Holds
  <2>1. PathTo(t, table, i)
        BY DEF KeysFound
  <2>2. PICK n \in 0 .. TableSize(table) - 1 : i = Slot(t, table, n) /\ Passed(t, table, n)
        BY <2>1 DEF PathTo
  <2>3. n \in stops
        BY <1>2, <2>2
  <2>4. first <= n
        BY <1>5, <2>3
  <2>5. CASE first = n
        BY <2>2, <2>5
  <2>6. CASE first # n
    <3>1. first \in 0 .. n - 1
          BY <1>6, <2>2, <2>4, <2>6
    <3>2. at(first) # Empty
          BY <2>2, <3>1 DEF Passed
    <3> QED
          BY <1>5, <3>2
  <2> QED
        BY <2>5, <2>6
<1>8. at(first) = t => Holds(t, table)
      BY <1>6 DEF Holds
<1>9. Knows(t, table) <=> at(first) = t
      BY <1>1, <1>2, <1>6 DEF Knows
<1> QED
  BY <1>1, <1>6, <1>7, <1>8, <1>9

\* A path stays a path when no place becomes empty.
LEMMA PathStays ==
  ASSUME NEW table \in HashTables, NEW next \in HashTables, DOMAIN next = DOMAIN table,
         \A i \in DOMAIN table : table[i].key # Empty => next[i].key # Empty,
         NEW t \in Writers
  PROVE  /\ \A n : Slot(t, next, n) = Slot(t, table, n)
         /\ \A n : Passed(t, table, n) => Passed(t, next, n)
         /\ \A i : PathTo(t, table, i) => PathTo(t, next, i)
<1>1. TableSize(next) = TableSize(table)
      BY DEF TableSize
<1>2. \A n : Slot(t, next, n) = Slot(t, table, n)
      BY <1>1 DEF Slot
<1>3. \A n : Passed(t, table, n) => Passed(t, next, n)
  <2> SUFFICES ASSUME NEW n, Passed(t, table, n), NEW j \in 0 .. n - 1
               PROVE  next[Slot(t, table, j)].key # Empty
      BY <1>2 DEF Passed
  <2>1. Slot(t, table, j) \in DOMAIN table
        BY SlotFacts
  <2> QED
        BY <2>1 DEF Passed
<1> QED
  BY <1>1, <1>2, <1>3 DEF PathTo

-------------------------------------------------------------------------------
(* What is done to a table *)

\* next is the table once thread t has taken place i.
Placed(next, table, i, t, v) == next = [table EXCEPT ![i] = [key |-> t, value |-> v]]

\* A thread that is not in the table takes the empty or reusable place it has
\* come to.  If the place was left to another thread and the thread was left a
\* place further on, the other thread finds that one instead.
LEMMA PlaceKeeps ==
  ASSUME FewWriters, NEW table \in HashTables, NEW from \in [Writers -> Nat],
         TableInv(table, from), NEW t \in Writers, ~ Holds(t, table),
         NEW v \in Nat \cup {Absent}, NEW i, i = Slot(t, table, from[t]),
         table[i].key \in {Empty, Reusable},
         NEW next, Placed(next, table, i, t, v)
  PROVE  /\ next \in HashTables /\ i \in DOMAIN table
         /\ TableInv(next, [from EXCEPT ![t] = 0])
<1> DEFINE n == from[t]
           from2 == [from EXCEPT ![t] = 0]
<1>1. KeysFound(table) /\ LeftTo(table, from) /\ \A u \in Writers : Passed(u, table, from[u])
      BY DEF TableInv
<1>2. HasEmpty(table)
      BY <1>1, EmptyPlace
<1>3. n \in Nat /\ Passed(t, table, n)
      BY <1>1
<1>4. n \in DOMAIN table
      BY <1>2, <1>3, ProbeEnds
<1>5. i \in DOMAIN table
      BY <1>3, SlotFacts
<1>6. t # Empty /\ t # Reusable /\ Empty # Reusable
      BY WritersAssumption DEF Empty, Reusable
<1>7. next \in HashTables /\ DOMAIN next = DOMAIN table
  <2>1. PICK m \in HashSizes : table \in [0 .. m - 1 -> HashEntries]
        BY DEF HashTables
  <2>2. [key |-> t, value |-> v] \in HashEntries
        BY DEF HashEntries
  <2>3. next \in [0 .. m - 1 -> HashEntries]
        BY <2>1, <2>2 DEF Placed
  <2> QED
        BY <1>5, <2>1, <2>3 DEF HashTables
<1>8. \A j \in DOMAIN table : next[j].key = IF j = i THEN t ELSE table[j].key
      BY <1>5 DEF Placed
<1>9. \A j \in DOMAIN table : table[j].key # Empty => next[j].key # Empty
      BY <1>6, <1>8
<1>10. \A u \in Writers :
         /\ \A m : Slot(u, next, m) = Slot(u, table, m)
         /\ \A m : Passed(u, table, m) => Passed(u, next, m)
         /\ \A j : PathTo(u, table, j) => PathTo(u, next, j)
       BY <1>7, <1>9, PathStays
<1>11. KeysFound(next)
  <2> SUFFICES ASSUME NEW j \in DOMAIN table, next[j].key \in Writers
               PROVE  /\ PathTo(next[j].key, next, j)
                      /\ \A k \in DOMAIN table : next[k].key = next[j].key => k = j
      BY <1>7 DEF KeysFound
  <2>1. CASE j = i
    <3>1. n \in 0 .. TableSize(table) - 1
          BY <1>4, TableDomain
    <3>2. PathTo(t, table, i)
          BY <1>3, <3>1 DEF PathTo
    <3>3. PathTo(t, next, i)
          BY <1>10, <3>2
    <3>4. \A k \in DOMAIN table : next[k].key = t => k = i
          BY <1>8 DEF Holds
    <3> QED
          BY <1>8, <2>1, <3>3, <3>4
  <2>2. CASE j # i
    <3>1. next[j].key = table[j].key /\ table[j].key # t
          BY <1>8, <2>2 DEF Holds
    <3>2. PathTo(table[j].key, table, j)
          BY <1>1, <3>1 DEF KeysFound
    <3>3. \A k \in DOMAIN table : table[k].key = table[j].key => k = j
          BY <1>1, <3>1 DEF KeysFound
    <3> QED
          BY <1>8, <1>10, <3>1, <3>2, <3>3
  <2> QED
        BY <2>1, <2>2
<1>12. PICK own \in [Reusables(table) -> Writers] :
         /\ \A q, r \in Reusables(table) : own[q] = own[r] => q = r
         /\ \A r \in Reusables(table) :
              /\ ~Holds(own[r], table)
              /\ PathTo(own[r], table, r)
              /\ \A j \in 0 .. from[own[r]] - 1 : r # Slot(own[r], table, j)
       BY <1>1 DEF LeftTo
<1>13. Reusables(next) = Reusables(table) \ {i}
       BY <1>6, <1>7, <1>8 DEF Reusables
<1>14. ASSUME NEW own2 \in [Reusables(next) -> Writers],
              \A q, r \in Reusables(next) : own2[q] = own2[r] => q = r,
              \A r \in Reusables(next) :
                /\ own2[r] # t /\ ~Holds(own2[r], table)
                /\ PathTo(own2[r], table, r)
                /\ \A j \in 0 .. from[own2[r]] - 1 : r # Slot(own2[r], table, j)
       PROVE  LeftTo(next, from2)
  <2> SUFFICES ASSUME NEW r \in Reusables(next)
               PROVE  /\ ~Holds(own2[r], next)
                      /\ PathTo(own2[r], next, r)
                      /\ \A j \in 0 .. from2[own2[r]] - 1 : r # Slot(own2[r], next, j)
      BY <1>14 DEF LeftTo
  <2>1. own2[r] \in Writers /\ own2[r] # t /\ ~Holds(own2[r], table)
        BY <1>14
  <2>2. ~Holds(own2[r], next)
        BY <1>7, <1>8, <2>1 DEF Holds
  <2>3. PathTo(own2[r], next, r)
        BY <1>10, <1>14, <2>1
  <2>4. from2[own2[r]] = from[own2[r]]
        BY <2>1
  <2> QED
        BY <1>10, <1>14, <2>1, <2>2, <2>3, <2>4
<1>15. LeftTo(next, from2)
  <2>1. CASE \A r \in Reusables(next) : own[r] # t
    <3> DEFINE own2 == [r \in Reusables(next) |-> own[r]]
    <3>1. own2 \in [Reusables(next) -> Writers]
          BY <1>12, <1>13
    <3>2. \A q, r \in Reusables(next) : own2[q] = own2[r] => q = r
          BY <1>12, <1>13
    <3>3. \A r \in Reusables(next) : own2[r] = own[r] /\ r \in Reusables(table)
          BY <1>13
    <3> HIDE DEF own2
    <3>4. ASSUME NEW r \in Reusables(next)
          PROVE  /\ own2[r] # t /\ ~Holds(own2[r], table)
                 /\ PathTo(own2[r], table, r)
                 /\ \A j \in 0 .. from[own2[r]] - 1 : r # Slot(own2[r], table, j)
          BY <1>12, <2>1, <3>3
    <3> QED
          BY <1>14, <3>1, <3>2, <3>4
  <2>2. ASSUME NEW s \in Reusables(next), own[s] = t
        PROVE  LeftTo(next, from2)
    <3>1. s \in Reusables(table) /\ s # i /\ s \in DOMAIN table
          BY <1>13, <2>2 DEF Reusables
    <3>2. PICK m \in 0 .. TableSize(table) - 1 : s = Slot(t, table, m) /\ Passed(t, table, m)
          BY <1>12, <2>2, <3>1 DEF PathTo
    <3>3. m > n
      <4>1. ~ (m \in 0 .. n - 1)
            BY <1>12, <2>2, <3>1, <3>2
      <4>2. m # n
            BY <3>1, <3>2
      <4> QED
            BY <1>3, <3>2, <4>1, <4>2
    <3>4. table[i].key # Empty
      <4>1. n \in 0 .. m - 1
            BY <1>3, <3>2, <3>3
      <4> QED
            BY <3>2, <4>1 DEF Passed
    <3>5. i \in Reusables(table)
          BY <1>5, <3>4 DEF Reusables
    <3> DEFINE u == own[i]
    <3>6. u \in Writers /\ u # t /\ ~Holds(u, table)
          BY <1>12, <2>2, <3>1, <3>5
    <3>7. PICK l \in 0 .. TableSize(table) - 1 : i = Slot(u, table, l) /\ Passed(u, table, l)
          BY <1>12, <3>5 DEF PathTo
    <3> HIDE DEF u
    <3>8. \A d \in Nat : Slot(u, table, l + d) = Slot(t, table, n + d)
      <4>1. l \in Nat /\ Slot(u, table, l) = Slot(t, table, n)
            BY <3>7
      <4> QED
            BY <1>3, <3>6, <4>1, SlotTogether
    <3> DEFINE e == m - n
               k == l + e
    <3>9. e \in Nat /\ k \in Nat /\ n + e = m /\ e > 0
          BY <1>3, <3>2, <3>3, <3>7
    <3>10. Slot(u, table, k) = s
           BY <3>2, <3>8, <3>9
    <3>11. Passed(u, table, k)
      <4> SUFFICES ASSUME NEW j \in 0 .. k - 1
                   PROVE  table[Slot(u, table, j)].key # Empty
          BY DEF Passed
      <4>1. CASE j < l
            BY <3>7, <4>1 DEF Passed
      <4>2. CASE j >= l
        <5>1. j - l \in Nat /\ j - l < e /\ l + (j - l) = j
              BY <3>7, <3>9, <4>2
        <5>2. n + (j - l) \in 0 .. m - 1
              BY <1>3, <3>9, <5>1
        <5>3. Slot(u, table, j) = Slot(t, table, n + (j - l))
              BY <3>8, <5>1
        <5> QED
              BY <3>2, <5>2, <5>3 DEF Passed
      <4> QED
            BY <4>1, <4>2, <3>7
    <3>12. k \in DOMAIN table
           BY <1>2, <3>6, <3>9, <3>11, ProbeEnds
    <3>13. PathTo(u, table, s)
           BY <3>10, <3>11, <3>12, TableDomain DEF PathTo
    <3>14. \A j \in 0 .. from[u] - 1 : s # Slot(u, table, j)
      <4> SUFFICES ASSUME NEW j \in 0 .. from[u] - 1, s = Slot(u, table, j)
                   PROVE  FALSE
          OBVIOUS
      <4>1. from[u] \in Nat
            BY <3>6
      <4>2. ~ (l \in 0 .. from[u] - 1)
            BY <1>12, <3>5, <3>7 DEF u
      <4>3. j \in Nat /\ j < l
            BY <3>7, <4>1, <4>2
      <4>4. j \in DOMAIN table
            BY <3>7, <4>3, TableDomain
      <4>5. j = k
            BY <3>6, <3>10, <3>12, <4>4, SlotFacts
      <4> QED
            BY <3>7, <3>9, <4>3, <4>5
    <3> DEFINE own2 == [r \in Reusables(next) |-> IF r = s THEN u ELSE own[r]]
    <3>15. own2 \in [Reusables(next) -> Writers]
           BY <1>12, <1>13, <3>6
    <3>16. \A q, r \in Reusables(next) : own2[q] = own2[r] => q = r
      <4>1. \A r \in Reusables(next) : own[r] # u /\ r \in Reusables(table)
            BY <1>12, <1>13, <3>5 DEF u
      <4> QED
            BY <1>12, <4>1
    <3>17. \A r \in Reusables(next) : r # s => own2[r] = own[r] /\ own[r] # t
           BY <1>12, <1>13, <2>2, <3>1
    <3>18. own2[s] = u
           BY <2>2
    <3> HIDE DEF own2
    <3>19. ASSUME NEW r \in Reusables(next)
           PROVE  /\ own2[r] # t /\ ~Holds(own2[r], table)
                  /\ PathTo(own2[r], table, r)
                  /\ \A j \in 0 .. from[own2[r]] - 1 : r # Slot(own2[r], table, j)
      <4>1. CASE r = s
            BY <3>6, <3>13, <3>14, <3>18, <4>1
      <4>2. CASE r # s
            BY <1>12, <1>13, <3>17, <4>2
      <4> QED
            BY <4>1, <4>2
    <3> QED
          BY <1>14, <3>15, <3>16, <3>19
  <2> QED
        BY <2>1, <2>2
<1>16. \A u \in Writers : Passed(u, next, from2[u])
  <2>1. Passed(t, next, 0)
        BY DEF Passed
  <2> QED
        BY <1>1, <1>10, <2>1
<1> QED
  BY <1>5, <1>7, <1>11, <1>15, <1>16 DEF TableInv

\* A thread goes on from a place that is taken.
LEMMA PassKeeps ==
  ASSUME NEW table \in HashTables, NEW from \in [Writers -> Nat], TableInv(table, from),
         NEW t \in Writers, table[Slot(t, table, from[t])].key \notin {Empty, Reusable}
  PROVE  TableInv(table, [from EXCEPT ![t] = @ + 1])
<1> DEFINE n == from[t]
           from2 == [from EXCEPT ![t] = @ + 1]
<1>1. KeysFound(table) /\ LeftTo(table, from) /\ \A u \in Writers : Passed(u, table, from[u])
      BY DEF TableInv
<1>2. n \in Nat /\ from2[t] = n + 1 /\ \A u \in Writers : u # t => from2[u] = from[u]
      BY SMT
<1>3. 0 .. (n + 1) - 1 = (0 .. n - 1) \cup {n}
      BY <1>2
<1>4. Passed(t, table, n + 1)
      BY <1>1, <1>3 DEF Passed
<1> HIDE DEF from2
<1>5. LeftTo(table, from2)
  <2>1. PICK own \in [Reusables(table) -> Writers] :
          /\ \A q, r \in Reusables(table) : own[q] = own[r] => q = r
          /\ \A r \in Reusables(table) :
               /\ ~Holds(own[r], table)
               /\ PathTo(own[r], table, r)
               /\ \A j \in 0 .. from[own[r]] - 1 : r # Slot(own[r], table, j)
        BY <1>1 DEF LeftTo
  <2>2. ASSUME NEW r \in Reusables(table), NEW j \in 0 .. from2[own[r]] - 1
        PROVE  r # Slot(own[r], table, j)
    <3>1. CASE own[r] # t
          BY <1>2, <2>1, <2>2, <3>1
    <3>2. CASE own[r] = t /\ j = n
          BY <3>2 DEF Reusables
    <3>3. CASE own[r] = t /\ j # n
      <4>1. j \in 0 .. n - 1
            BY <1>2, <1>3, <2>2, <3>3
      <4> QED
            BY <2>1, <3>3, <4>1
    <3> QED
          BY <3>1, <3>2, <3>3
  <2> QED
        BY <2>1, <2>2 DEF LeftTo
<1>6. \A u \in Writers : Passed(u, table, from2[u])
      BY <1>1, <1>2, <1>4
<1> QED
  BY <1>1, <1>5, <1>6 DEF TableInv, from2

\* next is the table once place i is left.
Scrubbed(next, table, i) == next = [table EXCEPT ![i].key = Reusable]

\* A thread's key becomes reusable: the place is left to the thread itself.
LEMMA ScrubKeeps ==
  ASSUME NEW table \in HashTables, NEW from \in [Writers -> Nat], TableInv(table, from),
         NEW t \in Writers, from[t] = 0, NEW i \in DOMAIN table, table[i].key = t,
         NEW next, Scrubbed(next, table, i)
  PROVE  /\ next \in HashTables
         /\ TableInv(next, from)
         /\ ~ Holds(t, next)
<1>1. KeysFound(table) /\ LeftTo(table, from) /\ \A u \in Writers : Passed(u, table, from[u])
      BY DEF TableInv
<1>6. t # Empty /\ t # Reusable /\ Empty # Reusable
      BY WritersAssumption DEF Empty, Reusable
<1>7. next \in HashTables /\ DOMAIN next = DOMAIN table
  <2>1. PICK m \in HashSizes : table \in [0 .. m - 1 -> HashEntries]
        BY DEF HashTables
  <2>2. [table[i] EXCEPT !.key = Reusable] \in HashEntries
        BY <2>1 DEF HashEntries
  <2>3. next = [table EXCEPT ![i] = [table[i] EXCEPT !.key = Reusable]]
        BY DEF Scrubbed
  <2>4. next \in [0 .. m - 1 -> HashEntries]
        BY <2>1, <2>2, <2>3
  <2> QED
        BY <2>1, <2>4 DEF HashTables
<1>8. \A j \in DOMAIN table : next[j].key = IF j = i THEN Reusable ELSE table[j].key
  <2>1. table[i] \in HashEntries
        BY TableDomain
  <2> QED
        BY <2>1 DEF HashEntries, Scrubbed
<1>9. \A j \in DOMAIN table : table[j].key # Empty => next[j].key # Empty
      BY <1>6, <1>8
<1>10. \A u \in Writers :
         /\ \A m : Slot(u, next, m) = Slot(u, table, m)
         /\ \A m : Passed(u, table, m) => Passed(u, next, m)
         /\ \A j : PathTo(u, table, j) => PathTo(u, next, j)
       BY <1>7, <1>9, PathStays
<1>11. \A j \in DOMAIN table : table[j].key = t => j = i
       BY <1>1 DEF KeysFound
<1>12. ~ Holds(t, next)
       BY <1>6, <1>7, <1>8, <1>11 DEF Holds
<1>13. KeysFound(next)
  <2> SUFFICES ASSUME NEW j \in DOMAIN table, next[j].key \in Writers
               PROVE  /\ PathTo(next[j].key, next, j)
                      /\ \A k \in DOMAIN table : next[k].key = next[j].key => k = j
      BY <1>7 DEF KeysFound
  <2>1. Reusable \notin Writers
        BY WritersAssumption
  <2>2. next[j].key = table[j].key
        BY <1>8, <2>1
  <2>3. PathTo(table[j].key, table, j)
        BY <1>1, <2>2 DEF KeysFound
  <2>4. \A k \in DOMAIN table : table[k].key = table[j].key => k = j
        BY <1>1, <2>2 DEF KeysFound
  <2> QED
        BY <1>8, <1>10, <2>1, <2>2, <2>3, <2>4
<1>14. PICK own \in [Reusables(table) -> Writers] :
         /\ \A q, r \in Reusables(table) : own[q] = own[r] => q = r
         /\ \A r \in Reusables(table) :
              /\ ~Holds(own[r], table)
              /\ PathTo(own[r], table, r)
              /\ \A j \in 0 .. from[own[r]] - 1 : r # Slot(own[r], table, j)
       BY <1>1 DEF LeftTo
<1>15. Reusables(next) = Reusables(table) \cup {i} /\ i \notin Reusables(table)
       BY <1>6, <1>7, <1>8 DEF Reusables
<1> DEFINE own2 == [r \in Reusables(next) |-> IF r = i THEN t ELSE own[r]]
<1>16. own2 \in [Reusables(next) -> Writers]
       BY <1>14, <1>15
<1>17. \A r \in Reusables(table) : own[r] # t /\ own[r] \in Writers
       BY <1>14 DEF Holds
<1>18. own2[i] = t /\ \A r \in Reusables(table) : own2[r] = own[r] /\ r # i
       BY <1>15
<1>19. \A q, r \in Reusables(next) : own2[q] = own2[r] => q = r
       BY <1>14, <1>15, <1>17, <1>18
<1> HIDE DEF own2
<1>20. ASSUME NEW r \in Reusables(next)
       PROVE  /\ ~Holds(own2[r], next)
              /\ PathTo(own2[r], next, r)
              /\ \A j \in 0 .. from[own2[r]] - 1 : r # Slot(own2[r], next, j)
  <2>1. CASE r = i
    <3>1. PathTo(t, table, i)
          BY <1>1 DEF KeysFound
    <3>2. PathTo(t, next, i)
          BY <1>10, <3>1
    <3>3. 0 .. from[t] - 1 = {}
          OBVIOUS
    <3> QED
          BY <1>12, <1>18, <2>1, <3>2, <3>3
  <2>2. CASE r # i
    <3>1. r \in Reusables(table) /\ own2[r] = own[r]
          BY <1>15, <1>18, <2>2
    <3>2. own[r] \in Writers /\ own[r] # Reusable
          BY <1>17, <3>1, WritersAssumption
    <3>3. ~Holds(own[r], next)
          BY <1>7, <1>8, <1>14, <3>1, <3>2 DEF Holds
    <3> QED
          BY <1>10, <1>14, <3>1, <3>2, <3>3
  <2> QED
        BY <2>1, <2>2
<1>21. LeftTo(next, from)
       BY <1>16, <1>19, <1>20 DEF LeftTo
<1>22. \A u \in Writers : Passed(u, next, from[u])
       BY <1>1, <1>10
<1> QED
  BY <1>7, <1>12, <1>13, <1>21, <1>22 DEF TableInv

\* A new table.
LEMMA EmptyTableKeeps ==
  ASSUME NEW size \in HashSizes, NEW from \in [Writers -> Nat], \A t \in Writers : from[t] = 0
  PROVE  /\ EmptyTable(size) \in HashTables
         /\ TableInv(EmptyTable(size), from)
         /\ \A t \in Writers : ~ Holds(t, EmptyTable(size))
<1> DEFINE table == EmptyTable(size)
<1>1. table \in [0 .. size - 1 -> HashEntries] /\ \A i \in DOMAIN table : table[i].key = Empty
      BY DEF EmptyTable, HashEntries
<1>2. table \in HashTables
      BY <1>1 DEF HashTables
<1> HIDE DEF table
<1>3. Empty \notin Writers /\ Empty # Reusable
      BY WritersAssumption DEF Empty, Reusable
<1>4. \A t \in Writers : ~ Holds(t, table)
      BY <1>1, <1>3 DEF Holds
<1>5. KeysFound(table)
      BY <1>1, <1>3 DEF KeysFound
<1>6. LeftTo(table, from)
  <2>1. Reusables(table) = {}
        BY <1>1, <1>3 DEF Reusables
  <2> DEFINE own == [r \in Reusables(table) |-> 0]
  <2>2. own \in [Reusables(table) -> Writers]
        BY <2>1
  <2> QED
        BY <2>1, <2>2 DEF LeftTo
<1>7. \A t \in Writers : Passed(t, table, from[t])
  <2>1. \A t \in Writers : 0 .. from[t] - 1 = {}
        OBVIOUS
  <2> QED
        BY <2>1 DEF Passed
<1> QED
  BY <1>2, <1>4, <1>5, <1>6, <1>7 DEF TableInv, table

-------------------------------------------------------------------------------
(* Steps *)

\* What a thread is.
LEMMA WriterFields ==
  ASSUME WriterTypes, NEW t \in Writers
  PROVE  /\ writer[t] \in WriterRecords
         /\ writer[t].pc \in WriterStates
         /\ writer[t].table \in Nat /\ writer[t].index \in Nat /\ writer[t].count \in Int
         /\ writer[t].producer \in Producers \cup {Absent}
         /\ Len(inactive) \in Nat /\ Len(hashes) \in Nat /\ Len(hashes) > 0
BY DEF WriterTypes, WriterRecords

\* The newest table that knows a thread is one that holds it.
LEMMA FoundRight ==
  ASSUME FewWriters, WriterTypes, TablesInv, NEW t \in Writers
  PROVE  /\ FoundIn(t) \in 0 .. Len(hashes)
         /\ FoundIn(t) = 0 => \A k \in 1 .. Len(hashes) : ~ Holds(t, hashes[k])
         /\ FoundIn(t) # 0 => /\ Holds(t, hashes[FoundIn(t)])
                              /\ \E i \in DOMAIN hashes[FoundIn(t)] :
                                   /\ hashes[FoundIn(t)][i].key = t
                                   /\ ValueIn(t, FoundIn(t)) = hashes[FoundIn(t)][i].value
                              /\ \A k \in 1 .. Len(hashes) :
                                   k > FoundIn(t) => ~ Holds(t, hashes[k])
<1> DEFINE knowing == {k \in 1 .. Len(hashes) : Knows(t, hashes[k])}
<1>1. Len(hashes) \in Nat /\ \A k \in 1 .. Len(hashes) : hashes[k] \in HashTables
      BY DEF WriterTypes
<1>2. \A k \in 1 .. Len(hashes) : KeysFound(hashes[k]) /\ HasEmpty(hashes[k])
      BY <1>1, EmptyPlace DEF TablesInv, TableInv
<1>3. ASSUME NEW k \in 1 .. Len(hashes)
      PROVE  /\ Knows(t, hashes[k]) <=> Holds(t, hashes[k])
             /\ Knows(t, hashes[k]) =>
                  /\ Slot(t, hashes[k], Probes(t, hashes[k])) \in DOMAIN hashes[k]
                  /\ hashes[k][Slot(t, hashes[k], Probes(t, hashes[k]))].key = t
      BY <1>1, <1>2, Lookup
<1>4. CASE knowing = {}
      BY <1>1, <1>3, <1>4 DEF FoundIn
<1>5. CASE knowing # {}
  <2>1. PICK k \in knowing : \A j \in knowing : j <= k
    <3>1. knowing \subseteq 0 .. Len(hashes)
          BY <1>1
    <3> HIDE DEF knowing
    <3> QED
          BY <1>1, <1>5, <3>1, GreatestNatural
  <2>2. FoundIn(t) \in knowing /\ \A j \in knowing : j <= FoundIn(t)
        BY <1>5, <2>1 DEF FoundIn
  <2> HIDE DEF knowing
  <2>3. FoundIn(t) \in 1 .. Len(hashes) /\ Knows(t, hashes[FoundIn(t)])
        BY <2>2 DEF knowing
  <2>4. Holds(t, hashes[FoundIn(t)])
        BY <1>3, <2>3
  <2>5. \E i \in DOMAIN hashes[FoundIn(t)] :
          /\ hashes[FoundIn(t)][i].key = t
          /\ ValueIn(t, FoundIn(t)) = hashes[FoundIn(t)][i].value
        BY <1>3, <2>3 DEF ValueIn
  <2>6. \A k2 \in 1 .. Len(hashes) : k2 > FoundIn(t) => ~ Holds(t, hashes[k2])
    <3> SUFFICES ASSUME NEW k2 \in 1 .. Len(hashes), k2 > FoundIn(t), Holds(t, hashes[k2])
                 PROVE  FALSE
        OBVIOUS
    <3>1. k2 \in knowing
          BY <1>3 DEF knowing
    <3> QED
          BY <2>2, <2>3, <3>1
  <2> QED
        BY <2>3, <2>4, <2>5, <2>6
<1> QED
  BY <1>4, <1>5

\* What a thread finds is its producer.
LEMMA FindStep ==
  ASSUME FewWriters, WriterTypes, WritersInv, NEW t \in Writers, Find(t), FoundIn(t) # 0
  PROVE  ValueIn(t, FoundIn(t)) = subscribed[t] /\ subscribed[t] # Absent
<1>1. FoundIn(t) \in 1 .. Len(hashes) /\ Holds(t, hashes[FoundIn(t)])
  <2>1. Len(hashes) \in Nat
        BY WriterFields
  <2> QED
        BY <2>1, FoundRight DEF WritersInv
<1>2. PICK i \in DOMAIN hashes[FoundIn(t)] :
        hashes[FoundIn(t)][i].key = t /\ ValueIn(t, FoundIn(t)) = hashes[FoundIn(t)][i].value
      BY FoundRight DEF WritersInv
<1> QED
  BY <1>1, <1>2 DEF WritersInv, KeysInv, KeysOf, Find

\* Thread t takes a place in the k-th table.
TakesPlace(t, k) ==
  /\ k \in 1 .. Len(hashes) /\ hashes' \in Seq(HashTables) /\ Len(hashes') = Len(hashes)
  /\ \A j \in 1 .. Len(hashes) : j # k => hashes'[j] = hashes[j]
  /\ TableInv(hashes'[k], [[u \in Writers |-> From(u, k)] EXCEPT ![t] = 0])
  /\ DOMAIN hashes'[k] = DOMAIN hashes[k]
  /\ \A i \in DOMAIN hashes[k] :
       /\ hashes'[k][i].key = t => hashes'[k][i].value = writer[t].producer
       /\ hashes'[k][i].key # t => hashes'[k][i] = hashes[k][i]

\* A thread that inserts itself into a table is not in it.
LEMMA PlaceStep ==
  ASSUME FewWriters, WriterTypes, WritersInv, NEW t \in Writers,
         writer[t].pc \in {"copy", "insert"}, KeyProbed(t) \in {Empty, Reusable}, Place(t),
         NEW k, k = writer[t].table
  PROVE  TakesPlace(t, k)
<1> DEFINE table == hashes[k]
           from == [u \in Writers |-> From(u, k)]
           i == Slot(t, table, writer[t].index)
           v == writer[t].producer
           next == [table EXCEPT ![i] = [key |-> t, value |-> v]]
<1>1. k \in 1 .. Len(hashes) /\ destroyer.pc = "waiting"
      BY DEF WritersInv, WriterClaims, ClaimsOf, DestroyerClaims
<1>2. hashes \in Seq(HashTables) /\ table \in HashTables
      BY <1>1 DEF WriterTypes
<1>3. from \in [Writers -> Nat] /\ from[t] = writer[t].index
      BY WriterFields DEF From
<1>4. TableInv(table, from)
      BY <1>1 DEF WritersInv, TablesInv
<1>5. ~ Holds(t, table)
      BY <1>1 DEF WritersInv, KeysInv, KeysOf
<1>6. v \in Nat \cup {Absent}
      BY WriterFields DEF Producers
<1>7. hashes' = [hashes EXCEPT ![k] = next]
      BY <1>1, <1>2 DEF Place
<1>8. table[i].key \in {Empty, Reusable}
      BY DEF KeyProbed
<1> HIDE DEF table, from, v
<1>9. i = Slot(t, table, from[t])
      BY <1>3
<1> HIDE DEF i, next
<1>10. Placed(next, table, i, t, v)
       BY DEF Placed, next
<1>11. next \in HashTables /\ i \in DOMAIN table /\ TableInv(next, [from EXCEPT ![t] = 0])
       BY <1>2, <1>3, <1>4, <1>5, <1>6, <1>8, <1>9, <1>10, PlaceKeeps
<1>12. hashes'[k] = next /\ \A j \in 1 .. Len(hashes) : j # k => hashes'[j] = hashes[j]
       BY <1>1, <1>2, <1>7
<1>13. hashes' \in Seq(HashTables) /\ Len(hashes') = Len(hashes)
       BY <1>1, <1>2, <1>7, <1>11
<1>14. DOMAIN next = DOMAIN table
       BY <1>10 DEF Placed
<1>15. \A j \in DOMAIN table : /\ next[j].key = t => next[j].value = v
                               /\ next[j].key # t => next[j] = table[j]
  <2>1. \A j \in DOMAIN table : table[j].key # t
        BY <1>5 DEF Holds
  <2> QED
        BY <1>10, <1>11, <2>1 DEF Placed
<1> QED
  BY <1>1, <1>11, <1>12, <1>13, <1>14, <1>15 DEF table, from, v, TakesPlace

\* A thread that leaves one table.
LEMMA ScrubStep ==
  ASSUME FewWriters, WriterTypes, WritersInv, NEW t \in Writers, Scrub(t),
         NEW k, k = writer[t].table
  PROVE  /\ k \in 1 .. Len(hashes) /\ hashes' \in Seq(HashTables) /\ Len(hashes') = Len(hashes)
         /\ \A j \in 1 .. Len(hashes) : j # k => hashes'[j] = hashes[j]
         /\ TableInv(hashes'[k], [u \in Writers |-> From(u, k)])
         /\ DOMAIN hashes'[k] = DOMAIN hashes[k]
         /\ ~ Holds(t, hashes'[k])
         /\ \A i \in DOMAIN hashes[k] :
              hashes'[k][i].key # Reusable => hashes'[k][i] = hashes[k][i]
<1> DEFINE table == hashes[k]
           from == [u \in Writers |-> From(u, k)]
           i == Slot(t, table, Probes(t, table))
           next == [table EXCEPT ![i].key = Reusable]
<1>1. k \in 1 .. Len(hashes) /\ writer[t].pc = "scrub"
      BY DEF WritersInv, WriterClaims, ClaimsOf, Scrub
<1>2. hashes \in Seq(HashTables) /\ table \in HashTables
      BY <1>1 DEF WriterTypes
<1>3. from \in [Writers -> Nat] /\ from[t] = 0
      BY <1>1, WriterFields DEF From
<1>4. TableInv(table, from)
      BY <1>1 DEF WritersInv, TablesInv
<1>5. HasEmpty(table) /\ KeysFound(table)
      BY <1>2, <1>4, EmptyPlace DEF TableInv
<1>6. hashes' = IF Knows(t, table) THEN [hashes EXCEPT ![k] = next] ELSE hashes
  <2>1. hashes' = IF Knows(t, table) THEN [hashes EXCEPT ![k][i].key = Reusable] ELSE hashes
        BY DEF Scrub
  <2> QED
        BY <1>1, <1>2, <2>1
<1> HIDE DEF table, from, i, next
<1>7. Knows(t, table) <=> Holds(t, table)
      BY <1>2, <1>5, Lookup
<1>8. CASE ~ Knows(t, table)
      BY <1>1, <1>2, <1>4, <1>6, <1>7, <1>8 DEF table, from
<1>9. CASE Knows(t, table)
  <2>1. i \in DOMAIN table /\ table[i].key = t
        BY <1>2, <1>5, <1>9, Lookup DEF i
  <2>2. next = [table EXCEPT ![i].key = Reusable]
        BY DEF next
  <2>3. next \in HashTables /\ TableInv(next, from) /\ ~ Holds(t, next)
        BY <1>2, <1>3, <1>4, <2>1, <2>2, ScrubKeeps DEF Scrubbed
  <2>4. DOMAIN next = DOMAIN table
        BY <2>2
  <2>5. \A j \in DOMAIN table : next[j].key # Reusable => next[j] = table[j]
    <3>1. table[i] \in HashEntries
          BY <1>2, <2>1, TableDomain
    <3> QED
          BY <2>1, <2>2, <3>1 DEF HashEntries
  <2>6. hashes'[k] = next /\ \A j \in 1 .. Len(hashes) : j # k => hashes'[j] = hashes[j]
        BY <1>1, <1>2, <1>6, <1>9
  <2>7. hashes' \in Seq(HashTables) /\ Len(hashes') = Len(hashes)
        BY <1>1, <1>2, <1>6, <1>9, <2>3
  <2> QED
        BY <1>1, <2>3, <2>4, <2>5, <2>6, <2>7 DEF table, from
<1> QED
  BY <1>8, <1>9

\* A table of twice the size or more.
LEMMA ResizeStep ==
  ASSUME FewWriters, WriterTypes, WritersInv, NEW t \in Writers, Resize(t)
  PROVE  \/ hashes' = hashes
         \/ \E table \in HashTables :
              /\ hashes' = Append(hashes, table)
              /\ TableInv(table, [u \in Writers |-> 0])
              /\ \A u \in Writers : ~ Holds(u, table)
<1> SUFFICES ASSUME HalfFull(t, Len(hashes))
             PROVE  \E table \in HashTables :
                      /\ hashes' = Append(hashes, table)
                      /\ TableInv(table, [u \in Writers |-> 0])
                      /\ \A u \in Writers : ~ Holds(u, table)
    BY DEF Resize
<1> DEFINE last == Last(hashes)
           size == Doubled(writer[t].count, TableSize(last))
<1>1. last \in HashTables /\ last = hashes[Len(hashes)]
      BY DEF WriterTypes, Last
<1>2. TableSize(last) \in Nat \ {0} /\ TableSize(last) >= INITIAL_IMPLICIT_PRODUCER_HASH_SIZE
      BY <1>1, TableDomain
<1>3. writer[t].count \in Nat
  <2>1. writer[t].count >= TableSize(last) \div 2
        BY <1>1 DEF HalfFull
  <2> QED
        BY <1>2, <2>1, WriterFields
<1>4. size \in Nat /\ size > TableSize(last)
      BY <1>2, <1>3, DoubledGrows
<1>5. size \in HashSizes
      BY <1>2, <1>4, WritersAssumption DEF HashSizes
<1>6. hashes' = Append(hashes, EmptyTable(size))
      BY DEF Resize
<1> HIDE DEF size
<1>7. [u \in Writers |-> 0] \in [Writers -> Nat]
      OBVIOUS
<1> QED
  BY <1>5, <1>6, <1>7, EmptyTableKeeps

-------------------------------------------------------------------------------
(* Types *)

\* A sequence with one element replaced.
LEMMA SeqExcept ==
  ASSUME NEW S, NEW seq \in Seq(S), NEW next \in [DOMAIN seq -> S]
  PROVE  next \in Seq(S) /\ Len(next) = Len(seq)
<1>1. Len(seq) \in Nat /\ DOMAIN seq = 1 .. Len(seq)
      OBVIOUS
<1> QED
  BY <1>1

\* One thread goes on, the lists keep their lengths.
LEMMA StepTypes ==
  ASSUME WriterTypes, NEW t \in Writers, NEW w \in WriterRecords, Step(t, w),
         hashes' \in Seq(HashTables), Len(hashes') > 0, hashCount' \in Int,
         inactive' \in Seq(BOOLEAN), Len(inactive') = Len(inactive),
         chain' \in Seq(Writers \cup {Absent}), Len(chain') = Len(chain),
         subscribed' \in [Writers -> Producers \cup {Absent}],
         mutex' \in Writers \cup {Absent}, destroyer' = destroyer
  PROVE  WriterTypes'
<1>1. Producers' = Producers
      BY DEF Producers
<1>2. WriterRecords' = WriterRecords
      BY <1>1 DEF WriterRecords
<1>3. writer' \in [Writers -> WriterRecords]
      BY DEF WriterTypes, Step
<1> QED
  BY <1>1, <1>2, <1>3 DEF WriterTypes

\* One thread goes on and nothing else changes but the count and the mutex.
LEMMA LocalTypes ==
  ASSUME WriterTypes, NEW t \in Writers, NEW w \in WriterRecords, Step(t, w),
         hashCount' \in Int, mutex' \in Writers \cup {Absent},
         UNCHANGED <<hashes, inactive, chain, subscribed, destroyer>>
  PROVE  WriterTypes'
<1>1. /\ hashes' \in Seq(HashTables) /\ Len(hashes') > 0
      /\ inactive' \in Seq(BOOLEAN) /\ Len(inactive') = Len(inactive)
      /\ chain' \in Seq(Writers \cup {Absent}) /\ Len(chain') = Len(chain)
      /\ subscribed' \in [Writers -> Producers \cup {Absent}]
      /\ destroyer' = destroyer
      BY DEF WriterTypes
<1> QED
  BY <1>1, StepTypes

\* What a thread becomes.
LEMMA RecordFields ==
  ASSUME NEW me \in WriterRecords
  PROVE  /\ \A p \in WriterStates : [me EXCEPT !.pc = p] \in WriterRecords
         /\ \A n \in Nat : [me EXCEPT !.table = n] \in WriterRecords
         /\ \A n \in Nat : [me EXCEPT !.index = n] \in WriterRecords
         /\ \A n \in Int : [me EXCEPT !.count = n] \in WriterRecords
         /\ \A p \in Producers \cup {Absent} : [me EXCEPT !.producer = p] \in WriterRecords
         /\ NewWriter \in WriterRecords
BY DEF WriterRecords, NewWriter, WriterStates

LEMMA AfterRoomType ==
  ASSUME WriterTypes, NEW t \in Writers, NEW size, NEW newest \in Nat
  PROVE  AfterRoom(t, size, newest) \in WriterRecords
<1>1. writer[t] \in WriterRecords /\ Len(inactive) \in Nat
      BY WriterFields
<1> QED
  BY <1>1 DEF AfterRoom, WriterRecords, WriterStates

LEMMA WriterTypesKept ==
  ASSUME FewWriters, WriterTypes, WritersInv, WritersNext
  PROVE  WriterTypes'
<1>a. hashCount \in Int /\ mutex \in Writers \cup {Absent}
      BY DEF WriterTypes
<1>b. NewWriter \in WriterRecords
      BY DEF NewWriter, WriterRecords, WriterStates
<1>c. /\ hashes \in Seq(HashTables) /\ Len(hashes) > 0 /\ Len(hashes) \in Nat
      /\ inactive \in Seq(BOOLEAN) /\ Len(inactive) \in Nat
      /\ chain \in Seq(Writers \cup {Absent}) /\ Len(chain) = Len(inactive)
      /\ subscribed \in [Writers -> Producers \cup {Absent}]
      BY DEF WriterTypes
<1>d. \A t \in Writers : writer[t] \in WriterRecords
      BY WriterFields
<1>1. ASSUME NEW t \in Writers, Find(t)
      PROVE  WriterTypes'
  <2>0. FoundIn(t) # 0 => ValueIn(t, FoundIn(t)) \in Producers \cup {Absent}
        BY <1>1, <1>c, FindStep
  <2>1. \E w \in WriterRecords : Step(t, w)
        BY <1>1, <1>b, <1>c, <1>d, <2>0 DEF Find, WriterRecords, WriterStates, NewWriter
  <2>2. hashCount' \in Int /\ mutex' \in Writers \cup {Absent}
        BY <1>1, <1>a DEF Find
  <2>3. UNCHANGED <<hashes, inactive, chain, subscribed, destroyer>>
        BY <1>1 DEF Find
  <2> QED
        BY <2>1, <2>2, <2>3, LocalTypes
<1>2. ASSUME NEW t \in Writers, Copy(t)
      PROVE  WriterTypes'
  <2>x. [writer[t] EXCEPT !.pc = "enqueue", !.index = 0] \in WriterRecords
        BY <1>2, <1>a, <1>c, <1>d, WriterFields DEF WriterRecords, WriterStates, Scan, Scrub
  <2>y. [writer[t] EXCEPT !.index = @ + 1] \in WriterRecords
        BY <1>2, <1>a, <1>c, <1>d, WriterFields DEF WriterRecords, WriterStates, Scan, Scrub
  <2>1. \E w \in WriterRecords : Step(t, w)
        BY <1>2, <1>b, <1>c, <1>d, <2>x, <2>y DEF Copy, WriterRecords, WriterStates
  <2>2. hashCount' \in Int /\ mutex' \in Writers \cup {Absent}
        BY <1>2, <1>a DEF Copy
  <2>3. /\ hashes' \in Seq(HashTables) /\ Len(hashes') > 0
        /\ inactive' \in Seq(BOOLEAN) /\ Len(inactive') = Len(inactive)
        /\ chain' \in Seq(Writers \cup {Absent}) /\ Len(chain') = Len(chain)
        /\ subscribed' \in [Writers -> Producers \cup {Absent}]
        /\ destroyer' = destroyer
    <3>1. hashes' \in Seq(HashTables) /\ Len(hashes') > 0
          BY <1>2, <1>c, PlaceStep DEF Copy, TakesPlace
    <3> QED
          BY <1>2, <1>c, <3>1 DEF Copy
  <2> QED
        BY <2>1, <2>2, <2>3, StepTypes
<1>3. ASSUME NEW t \in Writers, Count(t)
      PROVE  WriterTypes'
  <2>0. hashCount + 1 \in Int
        BY <1>a
  <2>x. [writer[t] EXCEPT !.pc = "room", !.count = hashCount + 1] \in WriterRecords
        BY <1>d, <2>0, RecordFields DEF WriterStates
  <2>1. \E w \in WriterRecords : Step(t, w)
        BY <1>3, <1>b, <1>c, <1>d, <2>x DEF Count, WriterRecords, WriterStates
  <2>2. hashCount' \in Int /\ mutex' \in Writers \cup {Absent}
        BY <1>3, <1>a DEF Count
  <2>3. UNCHANGED <<hashes, inactive, chain, subscribed, destroyer>>
        BY <1>3 DEF Count
  <2> QED
        BY <2>1, <2>2, <2>3, LocalTypes
<1>4. ASSUME NEW t \in Writers, LockResize(t)
      PROVE  WriterTypes'
  <2>1. \E w \in WriterRecords : Step(t, w)
        BY <1>4, <1>b, <1>c, <1>d DEF LockResize, WriterRecords, WriterStates
  <2>2. hashCount' \in Int /\ mutex' \in Writers \cup {Absent}
        BY <1>4, <1>a DEF LockResize
  <2>3. UNCHANGED <<hashes, inactive, chain, subscribed, destroyer>>
        BY <1>4 DEF LockResize
  <2> QED
        BY <2>1, <2>2, <2>3, LocalTypes
<1>5. ASSUME NEW t \in Writers, Resize(t)
      PROVE  WriterTypes'
  <2>0. hashes' \in Seq(HashTables) /\ Len(hashes') > 0 /\ Len(hashes') \in Nat
    <3>1. CASE hashes' = hashes
          BY <1>c, <3>1
    <3>2. ASSUME NEW table \in HashTables, hashes' = Append(hashes, table)
          PROVE  hashes' \in Seq(HashTables) /\ Len(hashes') > 0 /\ Len(hashes') \in Nat
          BY <1>c, <3>2
    <3> QED
          BY <1>5, <3>1, <3>2, ResizeStep
  <2>a. AfterRoom(t, TableSize(Last(hashes')), Len(hashes')) \in WriterRecords
        BY <2>0, AfterRoomType
  <2>1. \E w \in WriterRecords : Step(t, w)
        BY <1>5, <1>b, <1>c, <1>d, <2>0, <2>a DEF Resize, WriterRecords, WriterStates
  <2>2. hashCount' \in Int /\ mutex' \in Writers \cup {Absent}
        BY <1>5, <1>a DEF Resize
  <2>3. /\ hashes' \in Seq(HashTables) /\ Len(hashes') > 0
        /\ inactive' \in Seq(BOOLEAN) /\ Len(inactive') = Len(inactive)
        /\ chain' \in Seq(Writers \cup {Absent}) /\ Len(chain') = Len(chain)
        /\ subscribed' \in [Writers -> Producers \cup {Absent}]
        /\ destroyer' = destroyer
        BY <1>5, <1>c, <2>0 DEF Resize
  <2> QED
        BY <2>1, <2>2, <2>3, StepTypes
<1>6. ASSUME NEW t \in Writers, ResizeFails(t)
      PROVE  WriterTypes'
  <2>1. \E w \in WriterRecords : Step(t, w)
        BY <1>6, <1>b, <1>c, <1>d DEF ResizeFails, WriterRecords, WriterStates
  <2>2. hashCount' \in Int /\ mutex' \in Writers \cup {Absent}
        BY <1>6, <1>a DEF ResizeFails
  <2>3. UNCHANGED <<hashes, inactive, chain, subscribed, destroyer>>
        BY <1>6 DEF ResizeFails
  <2> QED
        BY <2>1, <2>2, <2>3, LocalTypes
<1>7. ASSUME NEW t \in Writers, SkipResize(t)
      PROVE  WriterTypes'
  <2>1. \E w \in WriterRecords : Step(t, w)
        BY <1>7, <1>b, <1>c, <1>d, AfterRoomType DEF SkipResize, WriterRecords, WriterStates
  <2>2. hashCount' \in Int /\ mutex' \in Writers \cup {Absent}
        BY <1>7, <1>a DEF SkipResize
  <2>3. UNCHANGED <<hashes, inactive, chain, subscribed, destroyer>>
        BY <1>7 DEF SkipResize
  <2> QED
        BY <2>1, <2>2, <2>3, LocalTypes
<1>8. ASSUME NEW t \in Writers, Scan(t)
      PROVE  WriterTypes'
  <2>x. [writer[t] EXCEPT !.pc = "catch"] \in WriterRecords
        BY <1>8, <1>a, <1>c, <1>d, WriterFields DEF WriterRecords, WriterStates, Scan, Scrub
  <2>y. [writer[t] EXCEPT !.index = @ - 1] \in WriterRecords
        BY <1>8, <1>a, <1>c, <1>d, WriterFields DEF WriterRecords, WriterStates, Scan, Scrub
  <2>1. \E w \in WriterRecords : Step(t, w)
        BY <1>8, <1>b, <1>c, <1>d, <2>x, <2>y DEF Scan, WriterRecords, WriterStates
  <2>2. hashCount' \in Int /\ mutex' \in Writers \cup {Absent}
        BY <1>8, <1>a DEF Scan
  <2>3. UNCHANGED <<hashes, inactive, chain, subscribed, destroyer>>
        BY <1>8 DEF Scan
  <2> QED
        BY <2>1, <2>2, <2>3, LocalTypes
<1>9. ASSUME NEW t \in Writers, Catch(t)
      PROVE  WriterTypes'
  <2>0. writer[t].index \in Producers
        BY <1>9 DEF Catch, WritersInv, WriterClaims, ClaimsOf
  <2>x. [writer[t] EXCEPT !.pc = "subscribe", !.producer = writer[t].index, !.index = 0] \in WriterRecords
        BY <1>d, <2>0 DEF WriterRecords, WriterStates
  <2>y. [writer[t] EXCEPT !.pc = "recycle", !.index = @ - 1] \in WriterRecords
    <3>1. writer[t].index - 1 \in Nat
          BY <1>c, <2>0 DEF Producers
    <3> QED
          BY <1>d, <3>1, RecordFields DEF WriterStates
  <2>1. \E w \in WriterRecords : Step(t, w)
        BY <1>9, <1>b, <1>c, <1>d, <2>x, <2>y DEF Catch, WriterRecords, WriterStates, Producers
  <2>2. hashCount' \in Int /\ mutex' \in Writers \cup {Absent}
        BY <1>9, <1>a DEF Catch
  <2>3. /\ hashes' \in Seq(HashTables) /\ Len(hashes') > 0
        /\ inactive' \in Seq(BOOLEAN) /\ Len(inactive') = Len(inactive)
        /\ chain' \in Seq(Writers \cup {Absent}) /\ Len(chain') = Len(chain)
        /\ subscribed' \in [Writers -> Producers \cup {Absent}]
        /\ destroyer' = destroyer
    <3>1. /\ [inactive EXCEPT ![writer[t].index] = FALSE] \in Seq(BOOLEAN)
          /\ Len([inactive EXCEPT ![writer[t].index] = FALSE]) = Len(inactive)
      <4> DEFINE next == [inactive EXCEPT ![writer[t].index] = FALSE]
      <4>1. inactive \in Seq(BOOLEAN) /\ FALSE \in BOOLEAN /\ next = [inactive EXCEPT ![writer[t].index] = FALSE]
            BY <1>c
      <4>2. inactive \in [DOMAIN inactive -> BOOLEAN]
            BY <4>1
      <4>3. next \in [DOMAIN inactive -> BOOLEAN]
            BY <4>1, <4>2
      <4> HIDE DEF next
      <4>4. next \in Seq(BOOLEAN) /\ Len(next) = Len(inactive)
            BY <4>1, <4>3, SeqExcept
      <4> QED
            BY <4>4 DEF next
    <3> QED
          BY <1>9, <1>c, <3>1 DEF Catch
  <2> QED
        BY <2>1, <2>2, <2>3, StepTypes
<1>10. ASSUME NEW t \in Writers, Create(t)
       PROVE  WriterTypes'
  <2>1. /\ inactive' \in Seq(BOOLEAN) /\ Len(inactive') = Len(inactive) + 1
        /\ chain' \in Seq(Writers \cup {Absent}) /\ Len(chain') = Len(inactive')
        BY <1>10, <1>c DEF Create
  <2>2. Producers' = Producers \cup {Len(inactive) + 1}
        BY <1>c, <2>1 DEF Producers
  <2>3. WriterRecords \subseteq WriterRecords'
        BY <2>2 DEF WriterRecords
  <2>4. [writer[t] EXCEPT !.pc = "subscribe", !.producer = Len(inactive) + 1] \in WriterRecords'
        BY <1>d, <2>2 DEF WriterRecords, WriterStates
  <2>5. writer' \in [Writers -> WriterRecords']
        BY <1>10, <2>3, <2>4 DEF Create, Step, WriterTypes
  <2>6. subscribed' \in [Writers -> Producers' \cup {Absent}]
        BY <1>10, <1>c, <2>2 DEF Create
  <2> QED
        BY <1>10, <2>1, <2>5, <2>6 DEF Create, WriterTypes
<1>11. ASSUME NEW t \in Writers, CreateFails(t)
       PROVE  WriterTypes'
  <2>1. \E w \in WriterRecords : Step(t, w)
        BY <1>11, <1>b, <1>c, <1>d DEF CreateFails, WriterRecords, WriterStates
  <2>2. hashCount' \in Int /\ mutex' \in Writers \cup {Absent}
        BY <1>11, <1>a DEF CreateFails
  <2>3. UNCHANGED <<hashes, inactive, chain, subscribed, destroyer>>
        BY <1>11 DEF CreateFails
  <2> QED
        BY <2>1, <2>2, <2>3, LocalTypes
<1>12. ASSUME NEW t \in Writers, Subscribe(t)
       PROVE  WriterTypes'
  <2>1. \E w \in WriterRecords : Step(t, w)
        BY <1>12, <1>b, <1>c, <1>d DEF Subscribe, WriterRecords, WriterStates
  <2>2. hashCount' \in Int /\ mutex' \in Writers \cup {Absent}
        BY <1>12, <1>a DEF Subscribe
  <2>3. /\ hashes' \in Seq(HashTables) /\ Len(hashes') > 0
        /\ inactive' \in Seq(BOOLEAN) /\ Len(inactive') = Len(inactive)
        /\ chain' \in Seq(Writers \cup {Absent}) /\ Len(chain') = Len(chain)
        /\ subscribed' \in [Writers -> Producers \cup {Absent}]
        /\ destroyer' = destroyer
    <3>1. writer[t].producer \in Producers \cup {Absent}
          BY WriterFields
    <3>2. /\ [chain EXCEPT ![writer[t].producer] = t] \in Seq(Writers \cup {Absent})
          /\ Len([chain EXCEPT ![writer[t].producer] = t]) = Len(chain)
      <4> DEFINE next == [chain EXCEPT ![writer[t].producer] = t]
      <4>1. chain \in Seq(Writers \cup {Absent}) /\ t \in Writers \cup {Absent} /\ next = [chain EXCEPT ![writer[t].producer] = t]
            BY <1>c
      <4>2. chain \in [DOMAIN chain -> Writers \cup {Absent}]
            BY <4>1
      <4>3. next \in [DOMAIN chain -> Writers \cup {Absent}]
            BY <4>1, <4>2
      <4> HIDE DEF next
      <4>4. next \in Seq(Writers \cup {Absent}) /\ Len(next) = Len(chain)
            BY <4>1, <4>3, SeqExcept
      <4> QED
            BY <4>4 DEF next
    <3>3. [subscribed EXCEPT ![t] = writer[t].producer] \in [Writers -> Producers \cup {Absent}]
          BY <1>c, <3>1
    <3> QED
          BY <1>12, <1>c, <3>2, <3>3 DEF Subscribe
  <2> QED
        BY <2>1, <2>2, <2>3, StepTypes
<1>13. ASSUME NEW t \in Writers, InsertKeyProbed(t)
       PROVE  WriterTypes'
  <2>x. [writer[t] EXCEPT !.pc = "enqueue", !.index = 0] \in WriterRecords
        BY <1>13, <1>a, <1>c, <1>d, WriterFields DEF WriterRecords, WriterStates, Scan, Scrub
  <2>y. [writer[t] EXCEPT !.index = @ + 1] \in WriterRecords
        BY <1>13, <1>a, <1>c, <1>d, WriterFields DEF WriterRecords, WriterStates, Scan, Scrub
  <2>1. \E w \in WriterRecords : Step(t, w)
        BY <1>13, <1>b, <1>c, <1>d, <2>x, <2>y DEF InsertKeyProbed, WriterRecords, WriterStates
  <2>2. hashCount' \in Int /\ mutex' \in Writers \cup {Absent}
        BY <1>13, <1>a DEF InsertKeyProbed
  <2>3. /\ hashes' \in Seq(HashTables) /\ Len(hashes') > 0
        /\ inactive' \in Seq(BOOLEAN) /\ Len(inactive') = Len(inactive)
        /\ chain' \in Seq(Writers \cup {Absent}) /\ Len(chain') = Len(chain)
        /\ subscribed' \in [Writers -> Producers \cup {Absent}]
        /\ destroyer' = destroyer
    <3>1. hashes' \in Seq(HashTables) /\ Len(hashes') > 0
          BY <1>13, <1>c, PlaceStep DEF InsertKeyProbed, TakesPlace
    <3> QED
          BY <1>13, <1>c, <3>1 DEF InsertKeyProbed
  <2> QED
        BY <2>1, <2>2, <2>3, StepTypes
<1>14. ASSUME NEW t \in Writers, EnqueueDone(t)
       PROVE  WriterTypes'
  <2>1. \E w \in WriterRecords : Step(t, w)
        BY <1>14, <1>b, <1>c, <1>d DEF EnqueueDone, WriterRecords, WriterStates
  <2>2. hashCount' \in Int /\ mutex' \in Writers \cup {Absent}
        BY <1>14, <1>a DEF EnqueueDone
  <2>3. UNCHANGED <<hashes, inactive, chain, subscribed, destroyer>>
        BY <1>14 DEF EnqueueDone
  <2> QED
        BY <2>1, <2>2, <2>3, LocalTypes
<1>15. ASSUME NEW t \in Writers, Exit(t)
       PROVE  WriterTypes'
  <2>1. \E w \in WriterRecords : Step(t, w)
        BY <1>15, <1>b, <1>c, <1>d DEF Exit, WriterRecords, WriterStates, NewWriter
  <2>2. hashCount' \in Int /\ mutex' \in Writers \cup {Absent}
        BY <1>15, <1>a DEF Exit
  <2>3. /\ hashes' \in Seq(HashTables) /\ Len(hashes') > 0
        /\ inactive' \in Seq(BOOLEAN) /\ Len(inactive') = Len(inactive)
        /\ chain' \in Seq(Writers \cup {Absent}) /\ Len(chain') = Len(chain)
        /\ subscribed' \in [Writers -> Producers \cup {Absent}]
        /\ destroyer' = destroyer
        BY <1>15, <1>c DEF Exit
  <2> QED
        BY <2>1, <2>2, <2>3, StepTypes
<1>16. ASSUME NEW t \in Writers, Scrub(t)
       PROVE  WriterTypes'
  <2>0. writer[t].table \in 1 .. Len(hashes)
        BY <1>16 DEF Scrub, WritersInv, WriterClaims, ClaimsOf
  <2>x. [writer[t] EXCEPT !.table = writer[t].table - 1] \in WriterRecords
    <3>1. writer[t].table - 1 \in Nat
          BY <1>c, <2>0
    <3> QED
          BY <1>d, <3>1, RecordFields
  <2>y. [writer[t] EXCEPT !.pc = "mark", !.table = 0] \in WriterRecords
        BY <1>d DEF WriterRecords, WriterStates
  <2>1. \E w \in WriterRecords : Step(t, w)
        BY <1>16, <1>b, <1>c, <1>d, <2>x, <2>y DEF Scrub, WriterRecords, WriterStates
  <2>2. hashCount' \in Int /\ mutex' \in Writers \cup {Absent}
        BY <1>16, <1>a DEF Scrub
  <2>3. /\ hashes' \in Seq(HashTables) /\ Len(hashes') > 0
        /\ inactive' \in Seq(BOOLEAN) /\ Len(inactive') = Len(inactive)
        /\ chain' \in Seq(Writers \cup {Absent}) /\ Len(chain') = Len(chain)
        /\ subscribed' \in [Writers -> Producers \cup {Absent}]
        /\ destroyer' = destroyer
    <3>1. hashes' \in Seq(HashTables) /\ Len(hashes') > 0
          BY <1>16, <1>c, ScrubStep DEF Scrub
    <3> QED
          BY <1>16, <1>c, <3>1 DEF Scrub
  <2> QED
        BY <2>1, <2>2, <2>3, StepTypes
<1>17. ASSUME NEW t \in Writers, MarkInactive(t)
       PROVE  WriterTypes'
  <2>1. \E w \in WriterRecords : Step(t, w)
        BY <1>17, <1>b, <1>c, <1>d DEF MarkInactive, WriterRecords, WriterStates
  <2>2. hashCount' \in Int /\ mutex' \in Writers \cup {Absent}
        BY <1>17, <1>a DEF MarkInactive
  <2>3. /\ hashes' \in Seq(HashTables) /\ Len(hashes') > 0
        /\ inactive' \in Seq(BOOLEAN) /\ Len(inactive') = Len(inactive)
        /\ chain' \in Seq(Writers \cup {Absent}) /\ Len(chain') = Len(chain)
        /\ subscribed' \in [Writers -> Producers \cup {Absent}]
        /\ destroyer' = destroyer
    <3>1. /\ [inactive EXCEPT ![writer[t].producer] = TRUE] \in Seq(BOOLEAN)
          /\ Len([inactive EXCEPT ![writer[t].producer] = TRUE]) = Len(inactive)
      <4> DEFINE next == [inactive EXCEPT ![writer[t].producer] = TRUE]
      <4>1. inactive \in Seq(BOOLEAN) /\ TRUE \in BOOLEAN /\ next = [inactive EXCEPT ![writer[t].producer] = TRUE]
            BY <1>c
      <4>2. inactive \in [DOMAIN inactive -> BOOLEAN]
            BY <4>1
      <4>3. next \in [DOMAIN inactive -> BOOLEAN]
            BY <4>1, <4>2
      <4> HIDE DEF next
      <4>4. next \in Seq(BOOLEAN) /\ Len(next) = Len(inactive)
            BY <4>1, <4>3, SeqExcept
      <4> QED
            BY <4>4 DEF next
    <3> QED
          BY <1>17, <1>c, <3>1 DEF MarkInactive
  <2> QED
        BY <2>1, <2>2, <2>3, StepTypes
<1>18. ASSUME NEW t \in Writers, NextListener(t)
       PROVE  WriterTypes'
  <2>1. \E w \in WriterRecords : Step(t, w)
        BY <1>18, <1>b, <1>c, <1>d DEF NextListener, WriterRecords, WriterStates, NewWriter
  <2>2. hashCount' \in Int /\ mutex' \in Writers \cup {Absent}
        BY <1>18, <1>a DEF NextListener
  <2>3. /\ hashes' \in Seq(HashTables) /\ Len(hashes') > 0
        /\ inactive' \in Seq(BOOLEAN) /\ Len(inactive') = Len(inactive)
        /\ chain' \in Seq(Writers \cup {Absent}) /\ Len(chain') = Len(chain)
        /\ subscribed' \in [Writers -> Producers \cup {Absent}]
        /\ destroyer' = destroyer
        BY <1>18, <1>c DEF NextListener
  <2> QED
        BY <2>1, <2>2, <2>3, StepTypes
<1>19. ASSUME NEW t \in Writers, StartAgain(t)
       PROVE  WriterTypes'
  <2>1. \E w \in WriterRecords : Step(t, w)
        BY <1>19, <1>b, <1>c, <1>d DEF StartAgain, WriterRecords, WriterStates
  <2>2. hashCount' \in Int /\ mutex' \in Writers \cup {Absent}
        BY <1>19, <1>a DEF StartAgain
  <2>3. UNCHANGED <<hashes, inactive, chain, subscribed, destroyer>>
        BY <1>19 DEF StartAgain
  <2> QED
        BY <2>1, <2>2, <2>3, LocalTypes
<1>20. ASSUME \/ StartDestroying
              \/ LookInactive
              \/ Unsubscribe
              \/ FreeProducer
       PROVE  WriterTypes'
  <2> DEFINE Destroyers == [pc : {"waiting", "look", "unsubscribe", "free"}, at : Nat]
  <2>1. UNCHANGED <<hashes, hashCount, inactive, mutex, writer>>
        BY <1>20 DEF StartDestroying, LookInactive, Unsubscribe, FreeProducer
  <2>2. destroyer' \in Destroyers
    <3>1. destroyer \in Destroyers
          BY DEF WriterTypes
    <3>2. CASE StartDestroying
          BY <1>c, <3>2 DEF StartDestroying
    <3>3. CASE LookInactive
          BY <3>1, <3>3 DEF LookInactive
    <3>4. CASE Unsubscribe
          BY <3>1, <3>4 DEF Unsubscribe
    <3>5. CASE FreeProducer
      <4>1. destroyer.at \in Nat /\ destroyer.at > 0
            BY <3>1, <3>5 DEF WritersInv, DestroyerClaims, FreeProducer
      <4>2. destroyer.at - 1 \in Nat
            BY <4>1
      <4> QED
            BY <3>5, <4>2 DEF FreeProducer
    <3> QED
          BY <1>20, <3>2, <3>3, <3>4, <3>5
  <2>3. /\ chain' \in Seq(Writers \cup {Absent}) /\ Len(chain') = Len(inactive)
        /\ subscribed' \in [Writers -> Producers \cup {Absent}]
    <3>1. CASE Unsubscribe
      <4>1. /\ [chain EXCEPT ![destroyer.at] = Absent] \in Seq(Writers \cup {Absent})
            /\ Len([chain EXCEPT ![destroyer.at] = Absent]) = Len(chain)
        <5> DEFINE next == [chain EXCEPT ![destroyer.at] = Absent]
        <5>1. chain \in Seq(Writers \cup {Absent}) /\ Absent \in Writers \cup {Absent}
              BY <1>c
        <5>3. chain \in [DOMAIN chain -> Writers \cup {Absent}]
              BY <5>1
        <5>4. next \in [DOMAIN chain -> Writers \cup {Absent}]
              BY <5>1, <5>3
        <5> HIDE DEF next
        <5>5. next \in Seq(Writers \cup {Absent}) /\ Len(next) = Len(chain)
              BY <5>1, <5>4, SeqExcept
        <5> QED
              BY <5>5 DEF next
      <4>2. [subscribed EXCEPT ![chain[destroyer.at]] = Absent] \in
              [Writers -> Producers \cup {Absent}]
            BY <1>c
      <4> QED
            BY <1>c, <3>1, <4>1, <4>2 DEF Unsubscribe
    <3>2. CASE ~ Unsubscribe
          BY <1>20, <1>c, <3>2 DEF StartDestroying, LookInactive, FreeProducer
    <3> QED
          BY <3>1, <3>2
  <2>4. Producers' = Producers
        BY <2>1 DEF Producers
  <2>5. WriterRecords' = WriterRecords
        BY <2>4 DEF WriterRecords
  <2> HIDE DEF Destroyers
  <2>6. /\ hashes' \in Seq(HashTables) /\ Len(hashes') > 0 /\ hashCount' \in Int
        /\ inactive' \in Seq(BOOLEAN) /\ Len(inactive') = Len(inactive)
        /\ mutex' \in Writers \cup {Absent}
        BY <1>a, <1>c, <2>1
  <2>7. writer' \in [Writers -> WriterRecords]
        BY <2>1 DEF WriterTypes
  <2> QED
        BY <2>2, <2>3, <2>4, <2>5, <2>6, <2>7 DEF WriterTypes, Destroyers
<1> QED
  BY <1>1, <1>2, <1>3, <1>4, <1>5, <1>6, <1>7, <1>8, <1>9, <1>10, <1>11, <1>12, <1>13, <1>14,
     <1>15, <1>16, <1>17, <1>18, <1>19, <1>20 DEF WritersNext

-------------------------------------------------------------------------------
(* The threads and their producers *)

LEMMA DestroyerClaimsKept ==
  ASSUME WriterTypes, WritersInv, WritersNext
  PROVE  DestroyerClaims'
<1> DEFINE Idlers == {"idle", "scrub", "mark", "next", "exited"}
<1> SUFFICES ASSUME destroyer'.pc # "waiting"
             PROVE  /\ destroyer'.at <= Len(inactive')
                    /\ destroyer'.pc # "look" => destroyer'.at > 0
                    /\ \A t \in Writers : writer'[t].pc \in Idlers
    BY DEF DestroyerClaims
<1>a. /\ destroyer \in [pc : {"waiting", "look", "unsubscribe", "free"}, at : Nat]
      /\ Len(inactive) \in Nat
      BY DEF WriterTypes
<1>b. \A t \in Writers : writer[t] \in WriterRecords
      BY WriterFields
<1>1. CASE destroyer.pc = "waiting"
  <2>1. StartDestroying
        BY <1>1 DEF WritersNext, Find, Copy, Count, LockResize, Resize, ResizeFails, SkipResize, Scan,
          Catch, Create, CreateFails, Subscribe, InsertKeyProbed, EnqueueDone, Exit, Scrub,
          MarkInactive, NextListener, StartAgain, LookInactive, Unsubscribe, FreeProducer
  <2> QED
        BY <1>a, <2>1 DEF StartDestroying
<1>2. CASE destroyer.pc # "waiting"
  <2>1. /\ destroyer.at <= Len(inactive)
        /\ destroyer.pc # "look" => destroyer.at > 0
        /\ \A t \in Writers : writer[t].pc \in Idlers
        BY <1>2 DEF WritersInv, DestroyerClaims
  <2>2. CASE LookInactive \/ Unsubscribe \/ FreeProducer
        BY <1>a, <2>1, <2>2 DEF LookInactive, Unsubscribe, FreeProducer
  <2>3. ASSUME NEW t \in Writers,
               \/ Exit(t)
               \/ Scrub(t)
               \/ MarkInactive(t)
               \/ NextListener(t)
        PROVE  /\ \A u \in Writers : writer'[u].pc \in Idlers
               /\ UNCHANGED <<inactive, destroyer>> \/ MarkInactive(t)
    <3>1. writer \in [Writers -> WriterRecords] /\ writer[t].pc \in Idlers
          BY <2>1 DEF WriterTypes
    <3>2. (\A u \in Writers : u # t => writer'[u] = writer[u]) /\ writer'[t].pc \in Idlers
      <4>1. CASE Exit(t)
            BY <3>1, <4>1 DEF Exit, Step, NewWriter
      <4>2. CASE Scrub(t)
            BY <3>1, <4>2 DEF Scrub, Step, WriterRecords
      <4>3. CASE MarkInactive(t)
            BY <3>1, <4>3 DEF MarkInactive, Step, WriterRecords
      <4>4. CASE NextListener(t)
            BY <3>1, <4>4 DEF NextListener, Step, NewWriter
      <4> QED
            BY <2>3, <4>1, <4>2, <4>3, <4>4
    <3> QED
          BY <2>1, <2>3, <3>2 DEF Exit, Scrub, NextListener
  <2>4. ASSUME NEW t \in Writers, MarkInactive(t)
        PROVE  Len(inactive') = Len(inactive) /\ destroyer' = destroyer
    <3>1. inactive \in Seq(BOOLEAN)
          BY DEF WriterTypes
    <3> QED
          BY <2>4, <3>1 DEF MarkInactive
  <2>5. ~ StartDestroying
        BY <1>2 DEF StartDestroying
  <2>6. \A t \in Writers : ~ (\/ Find(t) \/ Copy(t) \/ Count(t)
                              \/ LockResize(t) \/ Resize(t) \/ ResizeFails(t) \/ SkipResize(t)
                              \/ Scan(t) \/ Catch(t) \/ Create(t) \/ CreateFails(t)
                              \/ Subscribe(t) \/ InsertKeyProbed(t) \/ EnqueueDone(t)
                              \/ StartAgain(t))
        BY <1>2, <2>1 DEF Find, Copy, Count, LockResize, Resize, ResizeFails, SkipResize, Scan,
          Catch, Create, CreateFails, Subscribe, InsertKeyProbed, EnqueueDone, StartAgain
  <2> QED
        BY <2>1, <2>2, <2>3, <2>4, <2>5, <2>6 DEF WritersNext
<1> QED
  BY <1>1, <1>2

\* What a thread has stays when others go on.
LEMMA OthersClaims ==
  ASSUME NEW u \in Writers, ClaimsOf(u), writer'[u] = writer[u], subscribed'[u] = subscribed[u],
         writer[u].index \in Nat, mutex = u => mutex' = u, Len(hashes) \in Nat, Len(hashes') \in Nat,
         Len(hashes) <= Len(hashes'), Len(inactive) \in Nat, Len(inactive') \in Nat,
         Len(inactive) <= Len(inactive')
  PROVE  ClaimsOf(u)'
<1>1. 1 .. Len(hashes) \subseteq 1 .. Len(hashes')
      OBVIOUS
<1>2. Producers \subseteq Producers'
      BY DEF Producers
<1>3. writer[u].index \in Producers => writer[u].index \in Producers'
      BY <1>2
<1>4. writer[u].pc = "recycle" => writer[u].index <= Len(inactive')
      BY DEF ClaimsOf
<1> QED
  BY <1>1, <1>3, <1>4 DEF ClaimsOf

\* One thread goes on, with what it has.
LEMMA StepClaims ==
  ASSUME WriterTypes, WriterTypes', WriterClaims, NEW t \in Writers, NEW w, Step(t, w),
         ClaimsOf(t)',
         \A u \in Writers : u # t =>
           subscribed'[u] = subscribed[u] /\ (mutex = u => mutex' = u),
         Len(hashes) <= Len(hashes'), Len(inactive) <= Len(inactive')
  PROVE  WriterClaims'
<1>1. /\ Len(hashes) \in Nat /\ Len(hashes') \in Nat
      /\ Len(inactive) \in Nat /\ Len(inactive') \in Nat
      BY DEF WriterTypes
<1>2. \A u \in Writers : writer[u].index \in Nat /\ ClaimsOf(u)
      BY WriterFields DEF WriterClaims
<1>3. \A u \in Writers : u # t => writer'[u] = writer[u]
      BY DEF Step, WriterTypes
<1>4. \A u \in Writers : u # t => ClaimsOf(u)'
      BY <1>1, <1>2, <1>3, OthersClaims
<1> QED
  BY <1>4 DEF WriterClaims

LEMMA WriterClaimsKept ==
  ASSUME FewWriters, WriterTypes, WriterTypes', WritersInv, WritersNext
  PROVE  WriterClaims'
<1>a. /\ Len(hashes) \in Nat /\ Len(hashes) > 0 /\ Len(inactive) \in Nat
      /\ Absent \notin Nat /\ Absent \notin Writers
      BY WritersAssumption DEF WriterTypes
<1>b. writer \in [Writers -> WriterRecords] /\ subscribed \in [Writers -> Producers \cup {Absent}]
      BY DEF WriterTypes
<1>c. WriterClaims /\ \A t \in Writers : ClaimsOf(t)
      BY DEF WritersInv, WriterClaims
<1>d. \A t \in Writers : writer[t] \in WriterRecords
      BY <1>b
<1>e. hashes \in Seq(HashTables) /\ inactive \in Seq(BOOLEAN)
      BY DEF WriterTypes
<1>1. ASSUME NEW t \in Writers, Find(t)
      PROVE  WriterClaims'
  <2>1. \E w : Step(t, w)
        BY <1>1 DEF Find
  <2>2. ClaimsOf(t)'
    <3>1. CASE FoundIn(t) = 0
          BY <1>1, <1>a, <1>b, <3>1 DEF Find, ClaimsOf, Step, NewWriter
    <3>2. CASE FoundIn(t) # 0
      <4>1. ValueIn(t, FoundIn(t)) = subscribed[t] /\ subscribed[t] # Absent
            BY <1>1, <3>2, FindStep DEF WritersInv
      <4>2. /\ writer'[t].pc \in {"enqueue", "copy"} /\ writer'[t].table = Len(hashes)
            /\ writer'[t].producer = subscribed[t]
            BY <1>1, <1>b, <3>2, <4>1 DEF Find, Step, NewWriter
      <4>3. UNCHANGED <<hashes, inactive, subscribed, mutex>>
            BY <1>1 DEF Find
      <4> QED
            BY <1>a, <4>1, <4>2, <4>3 DEF ClaimsOf
    <3> QED
          BY <3>1, <3>2
  <2>3. \A u \in Writers : u # t =>
          subscribed'[u] = subscribed[u] /\ (mutex = u => mutex' = u)
        BY <1>1, <1>a, <1>b, <1>c DEF Find
  <2>4. Len(hashes) <= Len(hashes') /\ Len(inactive) <= Len(inactive')
        BY <1>1, <1>a, <1>e DEF Find
  <2> QED
        BY <1>c, <2>1, <2>2, <2>3, <2>4, StepClaims
<1>2. ASSUME NEW t \in Writers, Copy(t)
      PROVE  WriterClaims'
  <2>0. KeyProbed(t) \in {Empty, Reusable} => Len(hashes') = Len(hashes)
        BY <1>2, PlaceStep DEF Copy, TakesPlace
  <2>1. \E w : Step(t, w)
        BY <1>2 DEF Copy
  <2>2. ClaimsOf(t)'
    <3>1. writer[t].producer = subscribed[t] /\ subscribed[t] # Absent
          BY <1>2, <1>c DEF Copy, ClaimsOf
    <3>2. /\ writer'[t].pc \in {writer[t].pc, "enqueue"} /\ writer'[t].table = writer[t].table
          /\ writer'[t].producer = writer[t].producer
      <4>1. CASE KeyProbed(t) \in {Empty, Reusable}
        <5> DEFINE w == [writer[t] EXCEPT !.pc = "enqueue", !.index = 0]
        <5>1. writer' = [writer EXCEPT ![t] = w]
              BY <1>2, <4>1 DEF Copy, Step
        <5>2. w.pc = "enqueue" /\ w.table = writer[t].table /\ w.producer = writer[t].producer
              BY <1>d DEF WriterRecords
        <5> HIDE DEF w
        <5>3. writer'[t] = w
              BY <1>b, <5>1
        <5> QED
              BY <5>2, <5>3
      <4>2. CASE KeyProbed(t) \notin {Empty, Reusable}
            BY <1>2, <1>b, <1>d, <4>2 DEF Copy, Step, WriterRecords
      <4> QED
            BY <4>1, <4>2
    <3>3. UNCHANGED <<inactive, subscribed, mutex>> /\ Len(hashes') = Len(hashes)
          BY <1>2, <2>0 DEF Copy
    <3>4. writer[t].table \in 1 .. Len(hashes) /\ writer[t].pc \in {"copy", "insert"}
          BY <1>2, <1>c DEF Copy, ClaimsOf
    <3> QED
          BY <3>1, <3>2, <3>3, <3>4 DEF ClaimsOf
  <2>3. \A u \in Writers : u # t =>
          subscribed'[u] = subscribed[u] /\ (mutex = u => mutex' = u)
        BY <1>2, <1>a, <1>b, <1>c DEF Copy
  <2>4. Len(hashes) <= Len(hashes') /\ Len(inactive) <= Len(inactive')
        BY <1>2, <1>a, <1>e, <2>0 DEF Copy
  <2> QED
        BY <1>c, <2>1, <2>2, <2>3, <2>4, StepClaims
<1>3. ASSUME NEW t \in Writers, Count(t)
      PROVE  WriterClaims'
  <2>1. \E w : Step(t, w)
        BY <1>3 DEF Count
  <2>2. ClaimsOf(t)'
        BY <1>3, <1>a, <1>b, <1>c, <1>d DEF Count, ClaimsOf, Step, WriterRecords
  <2>3. \A u \in Writers : u # t =>
          subscribed'[u] = subscribed[u] /\ (mutex = u => mutex' = u)
        BY <1>3, <1>a, <1>b, <1>c DEF Count
  <2>4. Len(hashes) <= Len(hashes') /\ Len(inactive) <= Len(inactive')
        BY <1>3, <1>a, <1>e DEF Count
  <2> QED
        BY <1>c, <2>1, <2>2, <2>3, <2>4, StepClaims
<1>4. ASSUME NEW t \in Writers, LockResize(t)
      PROVE  WriterClaims'
  <2>1. \E w : Step(t, w)
        BY <1>4 DEF LockResize
  <2>2. ClaimsOf(t)'
        BY <1>4, <1>a, <1>b, <1>c, <1>d DEF LockResize, ClaimsOf, Step, WriterRecords
  <2>3. \A u \in Writers : u # t =>
          subscribed'[u] = subscribed[u] /\ (mutex = u => mutex' = u)
        BY <1>4, <1>a, <1>b, <1>c DEF LockResize
  <2>4. Len(hashes) <= Len(hashes') /\ Len(inactive) <= Len(inactive')
        BY <1>4, <1>a, <1>e DEF LockResize
  <2> QED
        BY <1>c, <2>1, <2>2, <2>3, <2>4, StepClaims
<1>5. ASSUME NEW t \in Writers, Resize(t)
      PROVE  WriterClaims'
  <2>0. Len(hashes') \in Nat /\ Len(hashes) <= Len(hashes') /\ Len(hashes') > 0
        BY <1>5, <1>a, <1>e, ResizeStep
  <2>1. \E w : Step(t, w)
        BY <1>5 DEF Resize
  <2>2. ClaimsOf(t)'
        BY <1>5, <1>a, <1>b, <1>c, <1>d, <2>0 DEF Resize, ClaimsOf, Step, WriterRecords, AfterRoom
  <2>3. \A u \in Writers : u # t =>
          subscribed'[u] = subscribed[u] /\ (mutex = u => mutex' = u)
        BY <1>5, <1>a, <1>b, <1>c DEF Resize
  <2>4. Len(hashes) <= Len(hashes') /\ Len(inactive) <= Len(inactive')
        BY <1>5, <1>a, <1>e, <2>0 DEF Resize
  <2> QED
        BY <1>c, <2>1, <2>2, <2>3, <2>4, StepClaims
<1>6. ASSUME NEW t \in Writers, ResizeFails(t)
      PROVE  WriterClaims'
  <2>1. \E w : Step(t, w)
        BY <1>6 DEF ResizeFails
  <2>2. ClaimsOf(t)'
        BY <1>6, <1>a, <1>b, <1>c, <1>d DEF ResizeFails, ClaimsOf, Step, NewWriter
  <2>3. \A u \in Writers : u # t =>
          subscribed'[u] = subscribed[u] /\ (mutex = u => mutex' = u)
        BY <1>6, <1>a, <1>b, <1>c DEF ResizeFails
  <2>4. Len(hashes) <= Len(hashes') /\ Len(inactive) <= Len(inactive')
        BY <1>6, <1>a, <1>e DEF ResizeFails
  <2> QED
        BY <1>c, <2>1, <2>2, <2>3, <2>4, StepClaims
<1>7. ASSUME NEW t \in Writers, SkipResize(t)
      PROVE  WriterClaims'
  <2>1. \E w : Step(t, w)
        BY <1>7 DEF SkipResize
  <2>2. ClaimsOf(t)'
        BY <1>7, <1>a, <1>b, <1>c, <1>d DEF SkipResize, ClaimsOf, Step, WriterRecords, AfterRoom
  <2>3. \A u \in Writers : u # t =>
          subscribed'[u] = subscribed[u] /\ (mutex = u => mutex' = u)
        BY <1>7, <1>a, <1>b, <1>c DEF SkipResize
  <2>4. Len(hashes) <= Len(hashes') /\ Len(inactive) <= Len(inactive')
        BY <1>7, <1>a, <1>e DEF SkipResize
  <2> QED
        BY <1>c, <2>1, <2>2, <2>3, <2>4, StepClaims
<1>8. ASSUME NEW t \in Writers, Scan(t)
      PROVE  WriterClaims'
  <2>1. \E w : Step(t, w)
        BY <1>8 DEF Scan
  <2>2. ClaimsOf(t)'
        BY <1>8, <1>a, <1>b, <1>c, <1>d DEF Scan, ClaimsOf, Step, WriterRecords, Producers
  <2>3. \A u \in Writers : u # t =>
          subscribed'[u] = subscribed[u] /\ (mutex = u => mutex' = u)
        BY <1>8, <1>a, <1>b, <1>c DEF Scan
  <2>4. Len(hashes) <= Len(hashes') /\ Len(inactive) <= Len(inactive')
        BY <1>8, <1>a, <1>e DEF Scan
  <2> QED
        BY <1>c, <2>1, <2>2, <2>3, <2>4, StepClaims
<1>9. ASSUME NEW t \in Writers, Catch(t)
      PROVE  WriterClaims'
  <2>1. \E w : Step(t, w)
        BY <1>9 DEF Catch
  <2>2. ClaimsOf(t)'
        BY <1>9, <1>a, <1>b, <1>c, <1>d DEF Catch, ClaimsOf, Step, WriterRecords, Producers
  <2>3. \A u \in Writers : u # t =>
          subscribed'[u] = subscribed[u] /\ (mutex = u => mutex' = u)
        BY <1>9, <1>a, <1>b, <1>c DEF Catch
  <2>4. Len(hashes) <= Len(hashes') /\ Len(inactive) <= Len(inactive')
        BY <1>9, <1>a, <1>e DEF Catch
  <2> QED
        BY <1>c, <2>1, <2>2, <2>3, <2>4, StepClaims
<1>10. ASSUME NEW t \in Writers, Create(t)
       PROVE  WriterClaims'
  <2>1. \E w : Step(t, w)
        BY <1>10 DEF Create
  <2>2. ClaimsOf(t)'
        BY <1>10, <1>a, <1>b, <1>c, <1>d DEF Create, ClaimsOf, Step, WriterRecords
  <2>3. \A u \in Writers : u # t =>
          subscribed'[u] = subscribed[u] /\ (mutex = u => mutex' = u)
        BY <1>10, <1>a, <1>b, <1>c DEF Create
  <2>4. Len(hashes) <= Len(hashes') /\ Len(inactive) <= Len(inactive')
        BY <1>10, <1>a, <1>e DEF Create
  <2> QED
        BY <1>c, <2>1, <2>2, <2>3, <2>4, StepClaims
<1>11. ASSUME NEW t \in Writers, CreateFails(t)
       PROVE  WriterClaims'
  <2>1. \E w : Step(t, w)
        BY <1>11 DEF CreateFails
  <2>2. ClaimsOf(t)'
        BY <1>11, <1>a, <1>b, <1>c, <1>d DEF CreateFails, ClaimsOf, Step, NewWriter
  <2>3. \A u \in Writers : u # t =>
          subscribed'[u] = subscribed[u] /\ (mutex = u => mutex' = u)
        BY <1>11, <1>a, <1>b, <1>c DEF CreateFails
  <2>4. Len(hashes) <= Len(hashes') /\ Len(inactive) <= Len(inactive')
        BY <1>11, <1>a, <1>e DEF CreateFails
  <2> QED
        BY <1>c, <2>1, <2>2, <2>3, <2>4, StepClaims
<1>12. ASSUME NEW t \in Writers, Subscribe(t)
       PROVE  WriterClaims'
  <2>1. \E w : Step(t, w)
        BY <1>12 DEF Subscribe
  <2>2. ClaimsOf(t)'
        BY <1>12, <1>a, <1>b, <1>c, <1>d DEF Subscribe, ClaimsOf, Step, WriterRecords
  <2>3. \A u \in Writers : u # t =>
          subscribed'[u] = subscribed[u] /\ (mutex = u => mutex' = u)
        BY <1>12, <1>a, <1>b, <1>c DEF Subscribe
  <2>4. Len(hashes) <= Len(hashes') /\ Len(inactive) <= Len(inactive')
        BY <1>12, <1>a, <1>e DEF Subscribe
  <2> QED
        BY <1>c, <2>1, <2>2, <2>3, <2>4, StepClaims
<1>13. ASSUME NEW t \in Writers, InsertKeyProbed(t)
       PROVE  WriterClaims'
  <2>0. KeyProbed(t) \in {Empty, Reusable} => Len(hashes') = Len(hashes)
        BY <1>13, PlaceStep DEF InsertKeyProbed, TakesPlace
  <2>1. \E w : Step(t, w)
        BY <1>13 DEF InsertKeyProbed
  <2>2. ClaimsOf(t)'
    <3>1. writer[t].producer = subscribed[t] /\ subscribed[t] # Absent
          BY <1>13, <1>c DEF InsertKeyProbed, ClaimsOf
    <3>2. /\ writer'[t].pc \in {writer[t].pc, "enqueue"} /\ writer'[t].table = writer[t].table
          /\ writer'[t].producer = writer[t].producer
      <4>1. CASE KeyProbed(t) \in {Empty, Reusable}
        <5> DEFINE w == [writer[t] EXCEPT !.pc = "enqueue", !.index = 0]
        <5>1. writer' = [writer EXCEPT ![t] = w]
              BY <1>13, <4>1 DEF InsertKeyProbed, Step
        <5>2. w.pc = "enqueue" /\ w.table = writer[t].table /\ w.producer = writer[t].producer
              BY <1>d DEF WriterRecords
        <5> HIDE DEF w
        <5>3. writer'[t] = w
              BY <1>b, <5>1
        <5> QED
              BY <5>2, <5>3
      <4>2. CASE KeyProbed(t) \notin {Empty, Reusable}
            BY <1>13, <1>b, <1>d, <4>2 DEF InsertKeyProbed, Step, WriterRecords
      <4> QED
            BY <4>1, <4>2
    <3>3. UNCHANGED <<inactive, subscribed, mutex>> /\ Len(hashes') = Len(hashes)
          BY <1>13, <2>0 DEF InsertKeyProbed
    <3>4. writer[t].table \in 1 .. Len(hashes) /\ writer[t].pc \in {"copy", "insert"}
          BY <1>13, <1>c DEF InsertKeyProbed, ClaimsOf
    <3> QED
          BY <3>1, <3>2, <3>3, <3>4 DEF ClaimsOf
  <2>3. \A u \in Writers : u # t =>
          subscribed'[u] = subscribed[u] /\ (mutex = u => mutex' = u)
        BY <1>13, <1>a, <1>b, <1>c DEF InsertKeyProbed
  <2>4. Len(hashes) <= Len(hashes') /\ Len(inactive) <= Len(inactive')
        BY <1>13, <1>a, <1>e, <2>0 DEF InsertKeyProbed
  <2> QED
        BY <1>c, <2>1, <2>2, <2>3, <2>4, StepClaims
<1>14. ASSUME NEW t \in Writers, EnqueueDone(t)
       PROVE  WriterClaims'
  <2>1. \E w : Step(t, w)
        BY <1>14 DEF EnqueueDone
  <2>2. ClaimsOf(t)'
        BY <1>14, <1>a, <1>b, <1>c, <1>d DEF EnqueueDone, ClaimsOf, Step, NewWriter
  <2>3. \A u \in Writers : u # t =>
          subscribed'[u] = subscribed[u] /\ (mutex = u => mutex' = u)
        BY <1>14, <1>a, <1>b, <1>c DEF EnqueueDone
  <2>4. Len(hashes) <= Len(hashes') /\ Len(inactive) <= Len(inactive')
        BY <1>14, <1>a, <1>e DEF EnqueueDone
  <2> QED
        BY <1>c, <2>1, <2>2, <2>3, <2>4, StepClaims
<1>15. ASSUME NEW t \in Writers, Exit(t)
       PROVE  WriterClaims'
  <2>1. \E w : Step(t, w)
        BY <1>15 DEF Exit
  <2>2. ClaimsOf(t)'
    <3>1. CASE subscribed[t] = Absent
          BY <1>15, <1>a, <1>b, <3>1 DEF Exit, ClaimsOf, Step, NewWriter
    <3>2. CASE subscribed[t] # Absent
      <4> DEFINE w == [NewWriter EXCEPT !.pc = "scrub", !.producer = subscribed[t],
                                        !.table = Len(hashes)]
      <4>1. writer' = [writer EXCEPT ![t] = w] /\ mutex' = t
            BY <1>15, <3>2 DEF Exit, Step
      <4>2. w.pc = "scrub" /\ w.table = Len(hashes) /\ w.producer = subscribed[t]
            BY DEF NewWriter
      <4> HIDE DEF w
      <4>3. writer'[t] = w
            BY <1>b, <4>1
      <4>4. UNCHANGED <<hashes, inactive, subscribed>>
            BY <1>15 DEF Exit
      <4> QED
            BY <1>a, <3>2, <4>1, <4>2, <4>3, <4>4 DEF ClaimsOf
    <3> QED
          BY <3>1, <3>2
  <2>3. \A u \in Writers : u # t =>
          subscribed'[u] = subscribed[u] /\ (mutex = u => mutex' = u)
        BY <1>15, <1>a, <1>b, <1>c DEF Exit
  <2>4. Len(hashes) <= Len(hashes') /\ Len(inactive) <= Len(inactive')
        BY <1>15, <1>a, <1>e DEF Exit
  <2> QED
        BY <1>c, <2>1, <2>2, <2>3, <2>4, StepClaims
<1>16. ASSUME NEW t \in Writers, Scrub(t)
       PROVE  WriterClaims'
  <2>0. Len(hashes') = Len(hashes)
        BY <1>16, ScrubStep
  <2>1. \E w : Step(t, w)
        BY <1>16 DEF Scrub
  <2>2. ClaimsOf(t)'
        BY <1>16, <1>a, <1>b, <1>c, <1>d, <2>0 DEF Scrub, ClaimsOf, Step, WriterRecords
  <2>3. \A u \in Writers : u # t =>
          subscribed'[u] = subscribed[u] /\ (mutex = u => mutex' = u)
        BY <1>16, <1>a, <1>b, <1>c DEF Scrub
  <2>4. Len(hashes) <= Len(hashes') /\ Len(inactive) <= Len(inactive')
        BY <1>16, <1>a, <1>e, <2>0 DEF Scrub
  <2> QED
        BY <1>c, <2>1, <2>2, <2>3, <2>4, StepClaims
<1>17. ASSUME NEW t \in Writers, MarkInactive(t)
       PROVE  WriterClaims'
  <2>1. \E w : Step(t, w)
        BY <1>17 DEF MarkInactive
  <2>2. ClaimsOf(t)'
        BY <1>17, <1>a, <1>b, <1>c, <1>d DEF MarkInactive, ClaimsOf, Step, WriterRecords
  <2>3. \A u \in Writers : u # t =>
          subscribed'[u] = subscribed[u] /\ (mutex = u => mutex' = u)
        BY <1>17, <1>a, <1>b, <1>c DEF MarkInactive
  <2>4. Len(hashes) <= Len(hashes') /\ Len(inactive) <= Len(inactive')
        BY <1>17, <1>a, <1>e DEF MarkInactive
  <2> QED
        BY <1>c, <2>1, <2>2, <2>3, <2>4, StepClaims
<1>18. ASSUME NEW t \in Writers, NextListener(t)
       PROVE  WriterClaims'
  <2>1. \E w : Step(t, w)
        BY <1>18 DEF NextListener
  <2>2. ClaimsOf(t)'
        BY <1>18, <1>a, <1>b, <1>c, <1>d DEF NextListener, ClaimsOf, Step, NewWriter
  <2>3. \A u \in Writers : u # t =>
          subscribed'[u] = subscribed[u] /\ (mutex = u => mutex' = u)
        BY <1>18, <1>a, <1>b, <1>c DEF NextListener, ClaimsOf
  <2>4. Len(hashes) <= Len(hashes') /\ Len(inactive) <= Len(inactive')
        BY <1>18, <1>a, <1>e DEF NextListener
  <2> QED
        BY <1>c, <2>1, <2>2, <2>3, <2>4, StepClaims
<1>19. ASSUME NEW t \in Writers, StartAgain(t)
       PROVE  WriterClaims'
  <2>1. \E w : Step(t, w)
        BY <1>19 DEF StartAgain
  <2>2. ClaimsOf(t)'
        BY <1>19, <1>a, <1>b, <1>c, <1>d DEF StartAgain, ClaimsOf, Step, NewWriter
  <2>3. \A u \in Writers : u # t =>
          subscribed'[u] = subscribed[u] /\ (mutex = u => mutex' = u)
        BY <1>19, <1>a, <1>b, <1>c DEF StartAgain
  <2>4. Len(hashes) <= Len(hashes') /\ Len(inactive) <= Len(inactive')
        BY <1>19, <1>a, <1>e DEF StartAgain
  <2> QED
        BY <1>c, <2>1, <2>2, <2>3, <2>4, StepClaims
<1>20. ASSUME \/ StartDestroying
              \/ LookInactive
              \/ FreeProducer
       PROVE  WriterClaims'
  <2>1. UNCHANGED <<hashes, inactive, subscribed, mutex, writer>>
        BY <1>20 DEF StartDestroying, LookInactive, FreeProducer
  <2> QED
        BY <1>c, <2>1 DEF WriterClaims, ClaimsOf, Producers
<1>21. ASSUME Unsubscribe
       PROVE  WriterClaims'
  <2>1. UNCHANGED <<hashes, inactive, mutex, writer>> /\ mutex = Absent
        BY <1>21 DEF Unsubscribe
  <2>2. \A t \in Writers : writer[t].pc \in {"idle", "scrub", "mark", "next", "exited"}
        BY <1>21 DEF WritersInv, DestroyerClaims, Unsubscribe
  <2> QED
        BY <1>a, <1>c, <2>1, <2>2 DEF WriterClaims, ClaimsOf, Producers
<1> QED
  BY <1>1, <1>2, <1>3, <1>4, <1>5, <1>6, <1>7, <1>8, <1>9, <1>10, <1>11, <1>12, <1>13, <1>14,
     <1>15, <1>16, <1>17, <1>18, <1>19, <1>20, <1>21 DEF WritersNext

-------------------------------------------------------------------------------
(* One possessor *)

\* A step by which a thread takes no producer.
LEMMA StepPossessor ==
  ASSUME WriterTypes, OnePossessor, NEW t \in Writers, NEW w, Step(t, w), inactive' = inactive,
         \A u \in Writers : u # t => subscribed'[u] = subscribed[u],
         \A p \in Producers : Possesses(t, p)' => Possesses(t, p)
  PROVE  OnePossessor'
<1>1. \A u \in Writers : u # t => writer'[u] = writer[u]
      BY DEF Step, WriterTypes
<1>2. \A p \in Producers, u \in Writers : Possesses(u, p)' => Possesses(u, p)
      BY <1>1 DEF Possesses
<1>3. Producers' = Producers
      BY DEF Producers
<1> HIDE DEF Possesses
<1> QED
  BY <1>2, <1>3 DEF OnePossessor

LEMMA OnePossessorKept ==
  ASSUME FewWriters, WriterTypes, WritersInv, WritersNext
  PROVE  OnePossessor'
<1>a. /\ writer \in [Writers -> WriterRecords] /\ subscribed \in [Writers -> Producers \cup {Absent}]
      /\ inactive \in Seq(BOOLEAN) /\ Len(inactive) \in Nat
      BY DEF WriterTypes
<1>b. OnePossessor /\ \A t \in Writers : ClaimsOf(t)
      BY DEF WritersInv, WriterClaims
<1>c. \A t \in Writers : writer[t] \in WriterRecords
      BY <1>a
<1>d. Absent \notin Producers /\ Absent \notin Nat
      BY WritersAssumption DEF Producers
<1>1. ASSUME NEW t \in Writers, Find(t)
      PROVE  OnePossessor'
  <2>1. \E w : Step(t, w)
        BY <1>1 DEF Find
  <2>2. inactive' = inactive /\ \A u \in Writers : u # t => subscribed'[u] = subscribed[u]
        BY <1>1, <1>a DEF Find
  <2>3. \A p \in Producers : Possesses(t, p)' => Possesses(t, p)
    <3>1. writer[t].pc # "next" /\ writer'[t].pc # "subscribe"
          BY <1>1, <1>a, <1>c DEF Find, Step, NewWriter
    <3>2. subscribed' = subscribed
          BY <1>1 DEF Find
    <3> QED
          BY <3>1, <3>2 DEF Possesses
  <2> QED
        BY <1>b, <2>1, <2>2, <2>3, StepPossessor
<1>2. ASSUME NEW t \in Writers, Copy(t)
      PROVE  OnePossessor'
  <2>1. \E w : Step(t, w)
        BY <1>2 DEF Copy
  <2>2. inactive' = inactive /\ \A u \in Writers : u # t => subscribed'[u] = subscribed[u]
        BY <1>2, <1>a DEF Copy
  <2>3. \A p \in Producers : Possesses(t, p)' => Possesses(t, p)
    <3>1. writer[t].pc # "next" /\ writer'[t].pc # "subscribe"
      <4>1. CASE KeyProbed(t) \in {Empty, Reusable}
        <5> DEFINE w == [writer[t] EXCEPT !.pc = "enqueue", !.index = 0]
        <5>1. writer' = [writer EXCEPT ![t] = w] /\ writer[t].pc # "next"
              BY <1>2, <4>1 DEF Copy, Step
        <5>2. w.pc = "enqueue"
              BY <1>c DEF WriterRecords
        <5> HIDE DEF w
        <5>3. writer'[t] = w
              BY <1>a, <5>1
        <5> QED
              BY <5>1, <5>2, <5>3
      <4>2. CASE KeyProbed(t) \notin {Empty, Reusable}
            BY <1>2, <1>a, <1>c, <4>2 DEF Copy, Step, WriterRecords
      <4> QED
            BY <4>1, <4>2
    <3>2. subscribed' = subscribed
          BY <1>2 DEF Copy
    <3> QED
          BY <3>1, <3>2 DEF Possesses
  <2> QED
        BY <1>b, <2>1, <2>2, <2>3, StepPossessor
<1>3. ASSUME NEW t \in Writers, Count(t)
      PROVE  OnePossessor'
  <2>1. \E w : Step(t, w)
        BY <1>3 DEF Count
  <2>2. inactive' = inactive /\ \A u \in Writers : u # t => subscribed'[u] = subscribed[u]
        BY <1>3, <1>a DEF Count
  <2>3. \A p \in Producers : Possesses(t, p)' => Possesses(t, p)
    <3>1. writer[t].pc # "next" /\ writer'[t].pc # "subscribe"
          BY <1>3, <1>a, <1>c DEF Count, Step, WriterRecords
    <3>2. subscribed' = subscribed
          BY <1>3 DEF Count
    <3> QED
          BY <3>1, <3>2 DEF Possesses
  <2> QED
        BY <1>b, <2>1, <2>2, <2>3, StepPossessor
<1>4. ASSUME NEW t \in Writers, LockResize(t)
      PROVE  OnePossessor'
  <2>1. \E w : Step(t, w)
        BY <1>4 DEF LockResize
  <2>2. inactive' = inactive /\ \A u \in Writers : u # t => subscribed'[u] = subscribed[u]
        BY <1>4, <1>a DEF LockResize
  <2>3. \A p \in Producers : Possesses(t, p)' => Possesses(t, p)
    <3>1. writer[t].pc # "next" /\ writer'[t].pc # "subscribe"
          BY <1>4, <1>a, <1>c DEF LockResize, Step, WriterRecords
    <3>2. subscribed' = subscribed
          BY <1>4 DEF LockResize
    <3> QED
          BY <3>1, <3>2 DEF Possesses
  <2> QED
        BY <1>b, <2>1, <2>2, <2>3, StepPossessor
<1>5. ASSUME NEW t \in Writers, Resize(t)
      PROVE  OnePossessor'
  <2>1. \E w : Step(t, w)
        BY <1>5 DEF Resize
  <2>2. inactive' = inactive /\ \A u \in Writers : u # t => subscribed'[u] = subscribed[u]
        BY <1>5, <1>a DEF Resize
  <2>3. \A p \in Producers : Possesses(t, p)' => Possesses(t, p)
    <3>1. writer[t].pc # "next" /\ writer'[t].pc # "subscribe"
          BY <1>5, <1>a, <1>c DEF Resize, Step, WriterRecords, AfterRoom
    <3>2. subscribed' = subscribed
          BY <1>5 DEF Resize
    <3> QED
          BY <3>1, <3>2 DEF Possesses
  <2> QED
        BY <1>b, <2>1, <2>2, <2>3, StepPossessor
<1>6. ASSUME NEW t \in Writers, ResizeFails(t)
      PROVE  OnePossessor'
  <2>1. \E w : Step(t, w)
        BY <1>6 DEF ResizeFails
  <2>2. inactive' = inactive /\ \A u \in Writers : u # t => subscribed'[u] = subscribed[u]
        BY <1>6, <1>a DEF ResizeFails
  <2>3. \A p \in Producers : Possesses(t, p)' => Possesses(t, p)
    <3>1. writer[t].pc # "next" /\ writer'[t].pc # "subscribe"
          BY <1>6, <1>a, <1>c DEF ResizeFails, Step, NewWriter
    <3>2. subscribed' = subscribed
          BY <1>6 DEF ResizeFails
    <3> QED
          BY <3>1, <3>2 DEF Possesses
  <2> QED
        BY <1>b, <2>1, <2>2, <2>3, StepPossessor
<1>7. ASSUME NEW t \in Writers, SkipResize(t)
      PROVE  OnePossessor'
  <2>1. \E w : Step(t, w)
        BY <1>7 DEF SkipResize
  <2>2. inactive' = inactive /\ \A u \in Writers : u # t => subscribed'[u] = subscribed[u]
        BY <1>7, <1>a DEF SkipResize
  <2>3. \A p \in Producers : Possesses(t, p)' => Possesses(t, p)
    <3>1. writer[t].pc # "next" /\ writer'[t].pc # "subscribe"
          BY <1>7, <1>a, <1>c DEF SkipResize, Step, WriterRecords, AfterRoom
    <3>2. subscribed' = subscribed
          BY <1>7 DEF SkipResize
    <3> QED
          BY <3>1, <3>2 DEF Possesses
  <2> QED
        BY <1>b, <2>1, <2>2, <2>3, StepPossessor
<1>8. ASSUME NEW t \in Writers, Scan(t)
      PROVE  OnePossessor'
  <2>1. \E w : Step(t, w)
        BY <1>8 DEF Scan
  <2>2. inactive' = inactive /\ \A u \in Writers : u # t => subscribed'[u] = subscribed[u]
        BY <1>8, <1>a DEF Scan
  <2>3. \A p \in Producers : Possesses(t, p)' => Possesses(t, p)
    <3>1. writer[t].pc # "next" /\ writer'[t].pc # "subscribe"
          BY <1>8, <1>a, <1>c DEF Scan, Step, WriterRecords
    <3>2. subscribed' = subscribed
          BY <1>8 DEF Scan
    <3> QED
          BY <3>1, <3>2 DEF Possesses
  <2> QED
        BY <1>b, <2>1, <2>2, <2>3, StepPossessor
<1>9. ASSUME NEW t \in Writers, Catch(t)
      PROVE  OnePossessor'
  <2> DEFINE p == writer[t].index
  <2>1. p \in Producers
        BY <1>9, <1>b DEF Catch, ClaimsOf
  <2>2. CASE ~ inactive[p]
    <3>1. \E w : Step(t, w)
          BY <1>9 DEF Catch
    <3>2. UNCHANGED <<inactive, subscribed>>
          BY <1>9, <2>2 DEF Catch, Caught
    <3>3. writer[t].pc # "next" /\ writer'[t].pc # "subscribe"
          BY <1>9, <1>a, <1>c, <2>2 DEF Catch, Caught, Step, WriterRecords
    <3>4. \A r \in Producers : Possesses(t, r)' => Possesses(t, r)
          BY <3>2, <3>3 DEF Possesses
    <3> QED
          BY <1>b, <3>1, <3>2, <3>4, StepPossessor
  <2>3. CASE inactive[p]
    <3>1. inactive' = [inactive EXCEPT ![p] = FALSE] /\ subscribed' = subscribed
          BY <1>9, <2>3 DEF Catch, Caught
    <3> DEFINE w == [writer[t] EXCEPT !.pc = "subscribe", !.producer = p, !.index = 0]
    <3>2. writer' = [writer EXCEPT ![t] = w] /\ writer[t].pc = "catch"
          BY <1>9, <2>3 DEF Catch, Caught, Step
    <3>3. w.pc = "subscribe" /\ w.producer = p
          BY <1>c DEF WriterRecords
    <3> HIDE DEF w, p
    <3>4. writer'[t] = w /\ \A u \in Writers : u # t => writer'[u] = writer[u]
          BY <1>a, <3>2
    <3>5. \A u \in Writers : \A r \in Producers :
            Possesses(u, r)' => \/ Possesses(u, r) /\ r # p
                                \/ u = t /\ r = p
      <4>1. \A u \in Writers : ~ Possesses(u, p)
            BY <1>b, <2>1, <2>3 DEF OnePossessor
      <4> QED
            BY <3>1, <3>2, <3>3, <3>4, <4>1 DEF Possesses
    <3>6. Producers' = Producers /\ \A r \in Producers : inactive'[r] => inactive[r] /\ r # p
          BY <1>a, <2>1, <3>1 DEF Producers
    <3> QED
          BY <1>b, <3>5, <3>6 DEF OnePossessor
  <2> QED
        BY <2>2, <2>3
<1>10. ASSUME NEW t \in Writers, Create(t)
       PROVE  OnePossessor'
  <2> DEFINE p == Len(inactive) + 1
             w == [writer[t] EXCEPT !.pc = "subscribe", !.producer = p]
  <2>1. inactive' = Append(inactive, FALSE) /\ subscribed' = subscribed
        BY <1>10 DEF Create
  <2>2. writer' = [writer EXCEPT ![t] = w] /\ writer[t].pc = "recycle"
        BY <1>10 DEF Create, Step
  <2>3. w.pc = "subscribe" /\ w.producer = p
        BY <1>c DEF WriterRecords
  <2>4. /\ Producers' = Producers \cup {p} /\ p \notin Producers /\ p # Absent
        /\ \A r \in Producers' : inactive'[r] => inactive[r] /\ r \in Producers
        BY <1>a, <1>d, <2>1 DEF Producers
  <2> HIDE DEF w, p
  <2>5. writer'[t] = w /\ \A u \in Writers : u # t => writer'[u] = writer[u]
        BY <1>a, <2>2
  <2>6. \A u \in Writers : \A r \in Producers' :
          Possesses(u, r)' => \/ Possesses(u, r) /\ r \in Producers
                              \/ u = t /\ r = p
    <3>1. \A u \in Writers : subscribed[u] # p /\ writer[u].producer # p
          BY <1>a, <1>c, <2>4 DEF WriterRecords
    <3> QED
          BY <2>1, <2>2, <2>3, <2>4, <2>5, <3>1 DEF Possesses
  <2> QED
        BY <1>b, <2>4, <2>6 DEF OnePossessor
<1>11. ASSUME NEW t \in Writers, CreateFails(t)
       PROVE  OnePossessor'
  <2>1. \E w : Step(t, w)
        BY <1>11 DEF CreateFails
  <2>2. inactive' = inactive /\ \A u \in Writers : u # t => subscribed'[u] = subscribed[u]
        BY <1>11, <1>a DEF CreateFails
  <2>3. \A p \in Producers : Possesses(t, p)' => Possesses(t, p)
    <3>1. writer[t].pc # "next" /\ writer'[t].pc # "subscribe"
          BY <1>11, <1>a, <1>c DEF CreateFails, Step, NewWriter
    <3>2. subscribed' = subscribed
          BY <1>11 DEF CreateFails
    <3> QED
          BY <3>1, <3>2 DEF Possesses
  <2> QED
        BY <1>b, <2>1, <2>2, <2>3, StepPossessor
<1>12. ASSUME NEW t \in Writers, Subscribe(t)
       PROVE  OnePossessor'
  <2>1. \E w : Step(t, w)
        BY <1>12 DEF Subscribe
  <2>2. inactive' = inactive /\ \A u \in Writers : u # t => subscribed'[u] = subscribed[u]
        BY <1>12, <1>a DEF Subscribe
  <2>3. \A p \in Producers : Possesses(t, p)' => Possesses(t, p)
    <3>1. writer'[t].pc = "insert" /\ writer[t].pc = "subscribe"
          BY <1>12, <1>a, <1>c DEF Subscribe, Step, WriterRecords
    <3>2. subscribed'[t] = writer[t].producer
          BY <1>12, <1>a DEF Subscribe
    <3> QED
          BY <3>1, <3>2 DEF Possesses
  <2> QED
        BY <1>b, <2>1, <2>2, <2>3, StepPossessor
<1>13. ASSUME NEW t \in Writers, InsertKeyProbed(t)
       PROVE  OnePossessor'
  <2>1. \E w : Step(t, w)
        BY <1>13 DEF InsertKeyProbed
  <2>2. inactive' = inactive /\ \A u \in Writers : u # t => subscribed'[u] = subscribed[u]
        BY <1>13, <1>a DEF InsertKeyProbed
  <2>3. \A p \in Producers : Possesses(t, p)' => Possesses(t, p)
    <3>1. writer[t].pc # "next" /\ writer'[t].pc # "subscribe"
      <4>1. CASE KeyProbed(t) \in {Empty, Reusable}
        <5> DEFINE w == [writer[t] EXCEPT !.pc = "enqueue", !.index = 0]
        <5>1. writer' = [writer EXCEPT ![t] = w] /\ writer[t].pc # "next"
              BY <1>13, <4>1 DEF InsertKeyProbed, Step
        <5>2. w.pc = "enqueue"
              BY <1>c DEF WriterRecords
        <5> HIDE DEF w
        <5>3. writer'[t] = w
              BY <1>a, <5>1
        <5> QED
              BY <5>1, <5>2, <5>3
      <4>2. CASE KeyProbed(t) \notin {Empty, Reusable}
            BY <1>13, <1>a, <1>c, <4>2 DEF InsertKeyProbed, Step, WriterRecords
      <4> QED
            BY <4>1, <4>2
    <3>2. subscribed' = subscribed
          BY <1>13 DEF InsertKeyProbed
    <3> QED
          BY <3>1, <3>2 DEF Possesses
  <2> QED
        BY <1>b, <2>1, <2>2, <2>3, StepPossessor
<1>14. ASSUME NEW t \in Writers, EnqueueDone(t)
       PROVE  OnePossessor'
  <2>1. \E w : Step(t, w)
        BY <1>14 DEF EnqueueDone
  <2>2. inactive' = inactive /\ \A u \in Writers : u # t => subscribed'[u] = subscribed[u]
        BY <1>14, <1>a DEF EnqueueDone
  <2>3. \A p \in Producers : Possesses(t, p)' => Possesses(t, p)
    <3>1. writer[t].pc # "next" /\ writer'[t].pc # "subscribe"
          BY <1>14, <1>a, <1>c DEF EnqueueDone, Step, NewWriter
    <3>2. subscribed' = subscribed
          BY <1>14 DEF EnqueueDone
    <3> QED
          BY <3>1, <3>2 DEF Possesses
  <2> QED
        BY <1>b, <2>1, <2>2, <2>3, StepPossessor
<1>15. ASSUME NEW t \in Writers, Exit(t)
       PROVE  OnePossessor'
  <2>1. \E w : Step(t, w)
        BY <1>15 DEF Exit
  <2>2. inactive' = inactive /\ \A u \in Writers : u # t => subscribed'[u] = subscribed[u]
        BY <1>15, <1>a DEF Exit
  <2>3. \A p \in Producers : Possesses(t, p)' => Possesses(t, p)
    <3>1. writer[t].pc = "idle" /\ subscribed' = subscribed
          BY <1>15 DEF Exit
    <3>2. writer'[t].pc # "subscribe"
          BY <1>15, <1>a DEF Exit, Step, NewWriter
    <3> QED
          BY <3>1, <3>2 DEF Possesses
  <2> QED
        BY <1>b, <2>1, <2>2, <2>3, StepPossessor
<1>16. ASSUME NEW t \in Writers, Scrub(t)
       PROVE  OnePossessor'
  <2>1. \E w : Step(t, w)
        BY <1>16 DEF Scrub
  <2>2. inactive' = inactive /\ \A u \in Writers : u # t => subscribed'[u] = subscribed[u]
        BY <1>16, <1>a DEF Scrub
  <2>3. \A p \in Producers : Possesses(t, p)' => Possesses(t, p)
    <3>1. writer[t].pc # "next" /\ writer'[t].pc # "subscribe"
          BY <1>16, <1>a, <1>c DEF Scrub, Step, WriterRecords
    <3>2. subscribed' = subscribed
          BY <1>16 DEF Scrub
    <3> QED
          BY <3>1, <3>2 DEF Possesses
  <2> QED
        BY <1>b, <2>1, <2>2, <2>3, StepPossessor
<1>17. ASSUME NEW t \in Writers, MarkInactive(t)
       PROVE  OnePossessor'
  <2>1. PICK p \in Producers :
          p = writer[t].producer /\ p = subscribed[t] /\ writer[t].pc = "mark"
        BY <1>17, <1>a, <1>b DEF MarkInactive, ClaimsOf
  <2>2. /\ inactive' = [inactive EXCEPT ![p] = TRUE] /\ subscribed' = subscribed
        /\ writer' = [writer EXCEPT ![t] = [writer[t] EXCEPT !.pc = "next"]]
        BY <1>17, <2>1 DEF MarkInactive, Step
  <2>3. Producers' = Producers /\ \A r \in Producers : r # p => (inactive'[r] => inactive[r])
        BY <1>a, <2>1, <2>2 DEF Producers
  <2>4. writer'[t].pc = "next" /\ \A u \in Writers : u # t => writer'[u] = writer[u]
        BY <1>a, <1>c, <2>2 DEF WriterRecords
  <2>5. Possesses(t, p)
        BY <2>1 DEF Possesses
  <2>6. \A u \in Writers : \A r \in Producers : Possesses(u, r)' => u # t /\ Possesses(u, r)
        BY <2>2, <2>4 DEF Possesses
  <2>7. \A u \in Writers : ~ Possesses(u, p)'
        BY <1>b, <2>1, <2>5, <2>6 DEF OnePossessor
  <2> QED
        BY <1>b, <2>3, <2>6, <2>7 DEF OnePossessor
<1>18. ASSUME NEW t \in Writers, NextListener(t)
       PROVE  OnePossessor'
  <2>1. \E w : Step(t, w)
        BY <1>18 DEF NextListener
  <2>2. inactive' = inactive /\ \A u \in Writers : u # t => subscribed'[u] = subscribed[u]
        BY <1>18, <1>a DEF NextListener
  <2>3. \A p \in Producers : Possesses(t, p)' => Possesses(t, p)
    <3>1. writer'[t].pc = "exited" /\ subscribed'[t] = Absent
          BY <1>18, <1>a DEF NextListener, Step, NewWriter
    <3> QED
          BY <1>d, <3>1 DEF Possesses
  <2> QED
        BY <1>b, <2>1, <2>2, <2>3, StepPossessor
<1>19. ASSUME NEW t \in Writers, StartAgain(t)
       PROVE  OnePossessor'
  <2>1. \E w : Step(t, w)
        BY <1>19 DEF StartAgain
  <2>2. inactive' = inactive /\ \A u \in Writers : u # t => subscribed'[u] = subscribed[u]
        BY <1>19, <1>a DEF StartAgain
  <2>3. \A p \in Producers : Possesses(t, p)' => Possesses(t, p)
    <3>1. writer[t].pc # "next" /\ writer'[t].pc # "subscribe"
          BY <1>19, <1>a, <1>c DEF StartAgain, Step, NewWriter
    <3>2. subscribed' = subscribed
          BY <1>19 DEF StartAgain
    <3> QED
          BY <3>1, <3>2 DEF Possesses
  <2> QED
        BY <1>b, <2>1, <2>2, <2>3, StepPossessor
<1>20. ASSUME \/ StartDestroying
              \/ LookInactive
              \/ Unsubscribe
              \/ FreeProducer
       PROVE  OnePossessor'
  <2>1. /\ UNCHANGED <<inactive, writer>>
        /\ \A u \in Writers : subscribed'[u] \in {subscribed[u], Absent}
        BY <1>20, <1>a DEF StartDestroying, LookInactive, Unsubscribe, FreeProducer
  <2>2. Producers' = Producers
        BY <2>1 DEF Producers
  <2>3. \A u \in Writers : \A r \in Producers : Possesses(u, r)' => Possesses(u, r)
        BY <1>d, <2>1 DEF Possesses
  <2> QED
        BY <1>b, <2>1, <2>2, <2>3 DEF OnePossessor
<1> QED
  BY <1>1, <1>2, <1>3, <1>4, <1>5, <1>6, <1>7, <1>8, <1>9, <1>10, <1>11, <1>12, <1>13, <1>14,
     <1>15, <1>16, <1>17, <1>18, <1>19, <1>20 DEF WritersNext

-------------------------------------------------------------------------------
(* The tables *)

\* A step of a thread that is not probing for a place.
LEMMA StepTables ==
  ASSUME WriterTypes, TablesInv, NEW t \in Writers, NEW w, Step(t, w), hashes' = hashes,
         writer[t].pc \notin {"copy", "insert"},
         writer'[t].pc \in {"copy", "insert"} => writer'[t].index = 0
  PROVE  TablesInv'
<1>1. \A u \in Writers : u # t => writer'[u] = writer[u]
      BY DEF Step, WriterTypes
<1>2. \A u \in Writers, k \in 1 .. Len(hashes) : From(u, k)' = From(u, k)
      BY <1>1 DEF From
<1>3. \A k \in 1 .. Len(hashes) : [u \in Writers |-> From(u, k)]' = [u \in Writers |-> From(u, k)]
      BY <1>2
<1> HIDE DEF From
<1> QED
  BY <1>3 DEF TablesInv

\* A step of a thread that is.
LEMMA ProbeTables ==
  ASSUME FewWriters, WriterTypes, WritersInv, NEW t \in Writers,
         writer[t].pc \in {"copy", "insert"},
         \/ /\ KeyProbed(t) \in {Empty, Reusable} /\ Place(t)
            /\ Step(t, [writer[t] EXCEPT !.pc = "enqueue", !.index = 0])
         \/ /\ KeyProbed(t) \notin {Empty, Reusable} /\ hashes' = hashes
            /\ Step(t, [writer[t] EXCEPT !.index = @ + 1])
  PROVE  TablesInv'
<1> DEFINE from(k) == [u \in Writers |-> From(u, k)]
<1>1. PICK k : k = writer[t].table
      OBVIOUS
<1>2. k \in 1 .. Len(hashes) /\ TablesInv
      BY <1>1 DEF WritersInv, WriterClaims, ClaimsOf
<1>3. /\ writer \in [Writers -> WriterRecords] /\ writer[t] \in WriterRecords
      /\ writer[t].index \in Nat
      BY WriterFields DEF WriterTypes
<1>4. \A u \in Writers, j \in 1 .. Len(hashes) : From(u, j) \in Nat
      BY WriterFields DEF From
<1>5. \A j \in 1 .. Len(hashes) : from(j) \in [Writers -> Nat]
      BY <1>4
<1>6. From(t, k) = writer[t].index /\ \A j \in 1 .. Len(hashes) : j # k => From(t, j) = 0
      BY <1>1 DEF From
<1>7. CASE KeyProbed(t) \in {Empty, Reusable}
  <2> DEFINE w == [writer[t] EXCEPT !.pc = "enqueue", !.index = 0]
  <2>1. writer' = [writer EXCEPT ![t] = w] /\ Place(t)
        BY <1>7 DEF Step
  <2>2. w.pc = "enqueue"
        BY <1>3 DEF WriterRecords
  <2> HIDE DEF w
  <2>3. writer'[t].pc = "enqueue" /\ \A u \in Writers : u # t => writer'[u] = writer[u]
        BY <1>3, <2>1, <2>2
  <2>4. \A j \in 1 .. Len(hashes) : from(j)' = [from(j) EXCEPT ![t] = 0]
        BY <2>3 DEF From
  <2>5. \A j \in 1 .. Len(hashes) : j # k => from(j)' = from(j)
        BY <1>6, <2>3 DEF From
  <2>6. /\ Len(hashes') = Len(hashes)
        /\ \A j \in 1 .. Len(hashes) : j # k => hashes'[j] = hashes[j]
        /\ TableInv(hashes'[k], [from(k) EXCEPT ![t] = 0])
        BY <1>1, <1>7, <2>1, PlaceStep DEF TakesPlace
  <2> HIDE DEF from
  <2>7. \A j \in 1 .. Len(hashes) : TableInv(hashes[j], from(j))
        BY <1>2 DEF TablesInv, from
  <2>8. \A j \in 1 .. Len(hashes') : TableInv(hashes'[j], from(j)')
        BY <1>2, <2>4, <2>5, <2>6, <2>7
  <2> QED
        BY <2>8 DEF TablesInv, from
<1>8. CASE KeyProbed(t) \notin {Empty, Reusable}
  <2>1. writer' = [writer EXCEPT ![t] = [writer[t] EXCEPT !.index = @ + 1]] /\ hashes' = hashes
        BY <1>8 DEF Step
  <2>2. /\ writer'[t].pc = writer[t].pc /\ writer'[t].table = writer[t].table
        /\ writer'[t].index = writer[t].index + 1
        /\ \A u \in Writers : u # t => writer'[u] = writer[u]
        BY <1>3, <2>1 DEF WriterRecords
  <2>3. From(t, k)' = From(t, k) + 1
        BY <1>1, <1>6, <2>2 DEF From
  <2>4. \A u \in Writers, j \in 1 .. Len(hashes) : u # t \/ j # k => From(u, j)' = From(u, j)
        BY <1>1, <2>2 DEF From
  <2>5. from(k)' = [from(k) EXCEPT ![t] = @ + 1]
        BY <1>2, <2>3, <2>4
  <2>6. \A j \in 1 .. Len(hashes) : j # k => from(j)' = from(j)
        BY <2>4
  <2>7. \A j \in 1 .. Len(hashes) : TableInv(hashes[j], from(j)) /\ hashes[j] \in HashTables
        BY <1>2 DEF TablesInv, WriterTypes
  <2>8. hashes[k][Slot(t, hashes[k], from(k)[t])].key \notin {Empty, Reusable}
        BY <1>1, <1>6, <1>8 DEF KeyProbed
  <2> HIDE DEF from
  <2>9. TableInv(hashes[k], [from(k) EXCEPT ![t] = @ + 1])
        BY <1>2, <1>5, <2>7, <2>8, PassKeeps
  <2>10. \A j \in 1 .. Len(hashes) : TableInv(hashes[j], from(j)')
         BY <2>5, <2>6, <2>7, <2>9
  <2> QED
        BY <2>1, <2>10 DEF TablesInv, from
<1> QED
  BY <1>7, <1>8

LEMMA TablesInvKept ==
  ASSUME FewWriters, WriterTypes, WritersInv, WritersNext
  PROVE  TablesInv'
<1>a. writer \in [Writers -> WriterRecords] /\ \A t \in Writers : writer[t] \in WriterRecords
      BY DEF WriterTypes
<1>b. TablesInv /\ \A t \in Writers : ClaimsOf(t)
      BY DEF WritersInv, WriterClaims
<1>c. hashes \in Seq(HashTables) /\ Len(hashes) \in Nat
      BY DEF WriterTypes
<1>1. ASSUME NEW t \in Writers, Find(t)
      PROVE  TablesInv'
  <2>1. \E w : Step(t, w)
        BY <1>1 DEF Find
  <2>2. writer[t].pc \notin {"copy", "insert"} /\ hashes' = hashes
        BY <1>1 DEF Find
  <2>3. writer'[t].pc \in {"copy", "insert"} => writer'[t].index = 0
        BY <1>1, <1>a, <1>b DEF Find, Step, NewWriter
  <2> QED
        BY <1>b, <2>1, <2>2, <2>3, StepTables
<1>2. ASSUME NEW t \in Writers, Copy(t)
      PROVE  TablesInv'
      BY <1>2, ProbeTables DEF Copy
<1>3. ASSUME NEW t \in Writers, Count(t)
      PROVE  TablesInv'
  <2>1. \E w : Step(t, w)
        BY <1>3 DEF Count
  <2>2. writer[t].pc \notin {"copy", "insert"} /\ hashes' = hashes
        BY <1>3 DEF Count
  <2>3. writer'[t].pc \in {"copy", "insert"} => writer'[t].index = 0
        BY <1>3, <1>a, <1>b DEF Count, Step, WriterRecords
  <2> QED
        BY <1>b, <2>1, <2>2, <2>3, StepTables
<1>4. ASSUME NEW t \in Writers, LockResize(t)
      PROVE  TablesInv'
  <2>1. \E w : Step(t, w)
        BY <1>4 DEF LockResize
  <2>2. writer[t].pc \notin {"copy", "insert"} /\ hashes' = hashes
        BY <1>4 DEF LockResize
  <2>3. writer'[t].pc \in {"copy", "insert"} => writer'[t].index = 0
        BY <1>4, <1>a, <1>b DEF LockResize, Step, WriterRecords
  <2> QED
        BY <1>b, <2>1, <2>2, <2>3, StepTables
<1>5. ASSUME NEW t \in Writers, Resize(t)
      PROVE  TablesInv'
  <2>1. \E w : Step(t, w)
        BY <1>5 DEF Resize
  <2>2. writer[t].pc \notin {"copy", "insert"} /\ writer'[t].pc \notin {"copy", "insert"}
        BY <1>5, <1>a DEF Resize, AfterRoom, Step, WriterRecords
  <2>3. CASE hashes' = hashes
        BY <1>b, <2>1, <2>2, <2>3, StepTables
  <2>4. ASSUME NEW table \in HashTables, hashes' = Append(hashes, table),
               TableInv(table, [u \in Writers |-> 0])
        PROVE  TablesInv'
    <3>1. \A u \in Writers : u # t => writer'[u] = writer[u]
          BY <2>1 DEF Step, WriterTypes
    <3>2. \A u \in Writers, k \in 1 .. Len(hashes) : From(u, k)' = From(u, k)
          BY <2>2, <3>1 DEF From
    <3>a. PICK n \in Nat : n = Len(hashes) + 1
          BY <1>c
    <3>3. \A u \in Writers : From(u, n)' = 0
      <4>1. \A u \in Writers : writer[u].pc \in {"copy", "insert"} => writer[u].table # n
            BY <1>b, <1>c, <3>a DEF ClaimsOf
      <4> QED
            BY <2>2, <3>1, <4>1 DEF From
    <3>4. \A k \in 1 .. Len(hashes) :
            [u \in Writers |-> From(u, k)'] = [u \in Writers |-> From(u, k)]
          BY <3>2
    <3>5. [u \in Writers |-> From(u, n)'] = [u \in Writers |-> 0]
          BY <3>3
    <3>6. /\ Len(hashes') = n /\ hashes'[n] = table
          /\ \A k \in 1 .. Len(hashes) : hashes'[k] = hashes[k]
          BY <1>c, <2>4, <3>a
    <3>7. ASSUME NEW k \in 1 .. Len(hashes')
          PROVE  TableInv(hashes'[k], [u \in Writers |-> From(u, k)'])
      <4>1. CASE k \in 1 .. Len(hashes)
            BY <1>b, <3>4, <3>6, <4>1 DEF TablesInv
      <4>2. CASE k = n
        <5>1. [u \in Writers |-> From(u, k)'] = [u \in Writers |-> 0] /\ hashes'[k] = table
              BY <3>5, <3>6, <4>2
        <5> QED
              BY <2>4, <5>1
      <4> QED
            BY <1>c, <3>a, <3>6, <4>1, <4>2
    <3> QED
          BY <3>7 DEF TablesInv
  <2> QED
        BY <1>5, <2>3, <2>4, ResizeStep
<1>6. ASSUME NEW t \in Writers, ResizeFails(t)
      PROVE  TablesInv'
  <2>1. \E w : Step(t, w)
        BY <1>6 DEF ResizeFails
  <2>2. writer[t].pc \notin {"copy", "insert"} /\ hashes' = hashes
        BY <1>6 DEF ResizeFails
  <2>3. writer'[t].pc \in {"copy", "insert"} => writer'[t].index = 0
        BY <1>6, <1>a, <1>b DEF ResizeFails, Step, NewWriter
  <2> QED
        BY <1>b, <2>1, <2>2, <2>3, StepTables
<1>7. ASSUME NEW t \in Writers, SkipResize(t)
      PROVE  TablesInv'
  <2>1. \E w : Step(t, w)
        BY <1>7 DEF SkipResize
  <2>2. writer[t].pc \notin {"copy", "insert"} /\ hashes' = hashes
        BY <1>7 DEF SkipResize
  <2>3. writer'[t].pc \in {"copy", "insert"} => writer'[t].index = 0
        BY <1>7, <1>a, <1>b DEF SkipResize, Step, WriterRecords, AfterRoom
  <2> QED
        BY <1>b, <2>1, <2>2, <2>3, StepTables
<1>8. ASSUME NEW t \in Writers, Scan(t)
      PROVE  TablesInv'
  <2>1. \E w : Step(t, w)
        BY <1>8 DEF Scan
  <2>2. writer[t].pc \notin {"copy", "insert"} /\ hashes' = hashes
        BY <1>8 DEF Scan
  <2>3. writer'[t].pc \in {"copy", "insert"} => writer'[t].index = 0
        BY <1>8, <1>a, <1>b DEF Scan, Step, WriterRecords
  <2> QED
        BY <1>b, <2>1, <2>2, <2>3, StepTables
<1>9. ASSUME NEW t \in Writers, Catch(t)
      PROVE  TablesInv'
  <2>1. \E w : Step(t, w)
        BY <1>9 DEF Catch
  <2>2. writer[t].pc \notin {"copy", "insert"} /\ hashes' = hashes
        BY <1>9 DEF Catch
  <2>3. writer'[t].pc \in {"copy", "insert"} => writer'[t].index = 0
        BY <1>9, <1>a, <1>b DEF Catch, Step, WriterRecords
  <2> QED
        BY <1>b, <2>1, <2>2, <2>3, StepTables
<1>10. ASSUME NEW t \in Writers, Create(t)
       PROVE  TablesInv'
  <2>1. \E w : Step(t, w)
        BY <1>10 DEF Create
  <2>2. writer[t].pc \notin {"copy", "insert"} /\ hashes' = hashes
        BY <1>10 DEF Create
  <2>3. writer'[t].pc \in {"copy", "insert"} => writer'[t].index = 0
        BY <1>10, <1>a, <1>b DEF Create, Step, WriterRecords
  <2> QED
        BY <1>b, <2>1, <2>2, <2>3, StepTables
<1>11. ASSUME NEW t \in Writers, CreateFails(t)
       PROVE  TablesInv'
  <2>1. \E w : Step(t, w)
        BY <1>11 DEF CreateFails
  <2>2. writer[t].pc \notin {"copy", "insert"} /\ hashes' = hashes
        BY <1>11 DEF CreateFails
  <2>3. writer'[t].pc \in {"copy", "insert"} => writer'[t].index = 0
        BY <1>11, <1>a, <1>b DEF CreateFails, Step, NewWriter
  <2> QED
        BY <1>b, <2>1, <2>2, <2>3, StepTables
<1>12. ASSUME NEW t \in Writers, Subscribe(t)
       PROVE  TablesInv'
  <2>1. \E w : Step(t, w)
        BY <1>12 DEF Subscribe
  <2>2. writer[t].pc \notin {"copy", "insert"} /\ hashes' = hashes
        BY <1>12 DEF Subscribe
  <2>3. writer'[t].pc \in {"copy", "insert"} => writer'[t].index = 0
        BY <1>12, <1>a, <1>b DEF Subscribe, Step, WriterRecords, ClaimsOf
  <2> QED
        BY <1>b, <2>1, <2>2, <2>3, StepTables
<1>13. ASSUME NEW t \in Writers, InsertKeyProbed(t)
       PROVE  TablesInv'
       BY <1>13, ProbeTables DEF InsertKeyProbed
<1>14. ASSUME NEW t \in Writers, EnqueueDone(t)
       PROVE  TablesInv'
  <2>1. \E w : Step(t, w)
        BY <1>14 DEF EnqueueDone
  <2>2. writer[t].pc \notin {"copy", "insert"} /\ hashes' = hashes
        BY <1>14 DEF EnqueueDone
  <2>3. writer'[t].pc \in {"copy", "insert"} => writer'[t].index = 0
        BY <1>14, <1>a, <1>b DEF EnqueueDone, Step, NewWriter
  <2> QED
        BY <1>b, <2>1, <2>2, <2>3, StepTables
<1>15. ASSUME NEW t \in Writers, Exit(t)
       PROVE  TablesInv'
  <2>1. \E w : Step(t, w)
        BY <1>15 DEF Exit
  <2>2. writer[t].pc \notin {"copy", "insert"} /\ hashes' = hashes
        BY <1>15 DEF Exit
  <2>3. writer'[t].pc \in {"copy", "insert"} => writer'[t].index = 0
        BY <1>15, <1>a, <1>b DEF Exit, Step, NewWriter
  <2> QED
        BY <1>b, <2>1, <2>2, <2>3, StepTables
<1>16. ASSUME NEW t \in Writers, Scrub(t)
       PROVE  TablesInv'
  <2>1. PICK k : k = writer[t].table
        OBVIOUS
  <2>2. /\ Len(hashes') = Len(hashes)
        /\ \A j \in 1 .. Len(hashes) : j # k => hashes'[j] = hashes[j]
        /\ TableInv(hashes'[k], [u \in Writers |-> From(u, k)])
        BY <1>16, <2>1, ScrubStep
  <2>3. \A u \in Writers : u # t => writer'[u] = writer[u]
        BY <1>16, <1>a DEF Scrub, Step
  <2>4. writer[t].pc \notin {"copy", "insert"} /\ writer'[t].pc \notin {"copy", "insert"}
        BY <1>16, <1>a DEF Scrub, Step, WriterRecords
  <2>5. \A u \in Writers, j \in 1 .. Len(hashes) : From(u, j)' = From(u, j)
        BY <2>3, <2>4 DEF From
  <2>6. \A j \in 1 .. Len(hashes) :
          [u \in Writers |-> From(u, j)'] = [u \in Writers |-> From(u, j)]
        BY <2>5
  <2>7. \A j \in 1 .. Len(hashes) : TableInv(hashes'[j], [u \in Writers |-> From(u, j)])
    <3> TAKE j \in 1 .. Len(hashes)
    <3>1. CASE j = k
          BY <2>2, <3>1
    <3>2. CASE j # k
          BY <1>b, <2>2, <3>2 DEF TablesInv
    <3> QED
          BY <3>1, <3>2
  <2>8. \A j \in 1 .. Len(hashes') : TableInv(hashes'[j], [u \in Writers |-> From(u, j)'])
        BY <2>2, <2>6, <2>7
  <2> QED
        BY <2>8 DEF TablesInv
<1>17. ASSUME NEW t \in Writers, MarkInactive(t)
       PROVE  TablesInv'
  <2>1. \E w : Step(t, w)
        BY <1>17 DEF MarkInactive
  <2>2. writer[t].pc \notin {"copy", "insert"} /\ hashes' = hashes
        BY <1>17 DEF MarkInactive
  <2>3. writer'[t].pc \in {"copy", "insert"} => writer'[t].index = 0
        BY <1>17, <1>a, <1>b DEF MarkInactive, Step, WriterRecords
  <2> QED
        BY <1>b, <2>1, <2>2, <2>3, StepTables
<1>18. ASSUME NEW t \in Writers, NextListener(t)
       PROVE  TablesInv'
  <2>1. \E w : Step(t, w)
        BY <1>18 DEF NextListener
  <2>2. writer[t].pc \notin {"copy", "insert"} /\ hashes' = hashes
        BY <1>18 DEF NextListener
  <2>3. writer'[t].pc \in {"copy", "insert"} => writer'[t].index = 0
        BY <1>18, <1>a, <1>b DEF NextListener, Step, NewWriter
  <2> QED
        BY <1>b, <2>1, <2>2, <2>3, StepTables
<1>19. ASSUME NEW t \in Writers, StartAgain(t)
       PROVE  TablesInv'
  <2>1. \E w : Step(t, w)
        BY <1>19 DEF StartAgain
  <2>2. writer[t].pc \notin {"copy", "insert"} /\ hashes' = hashes
        BY <1>19 DEF StartAgain
  <2>3. writer'[t].pc \in {"copy", "insert"} => writer'[t].index = 0
        BY <1>19, <1>a, <1>b DEF StartAgain, Step, NewWriter
  <2> QED
        BY <1>b, <2>1, <2>2, <2>3, StepTables
<1>20. ASSUME \/ StartDestroying
              \/ LookInactive
              \/ Unsubscribe
              \/ FreeProducer
       PROVE  TablesInv'
  <2>1. UNCHANGED <<hashes, writer>>
        BY <1>20 DEF StartDestroying, LookInactive, Unsubscribe, FreeProducer
  <2> QED
        BY <1>b, <2>1 DEF TablesInv, From
<1> QED
  BY <1>1, <1>2, <1>3, <1>4, <1>5, <1>6, <1>7, <1>8, <1>9, <1>10, <1>11, <1>12, <1>13, <1>14,
     <1>15, <1>16, <1>17, <1>18, <1>19, <1>20 DEF WritersNext

-------------------------------------------------------------------------------
(* What the tables say *)

\* A step of a thread that leaves to the others what the tables say of them.
LEMMA StepKeys ==
  ASSUME WriterTypes, KeysInv, NEW t \in Writers, NEW w, Step(t, w), destroyer' = destroyer,
         \A u \in Writers : u # t => subscribed'[u] = subscribed[u],
         \A k \in 1 .. Len(hashes') : \A i \in DOMAIN hashes'[k] :
           hashes'[k][i].key \in Writers /\ hashes'[k][i].key # t =>
             k \in 1 .. Len(hashes) /\ i \in DOMAIN hashes[k] /\ hashes'[k][i] = hashes[k][i],
         destroyer.pc = "waiting" => KeysOf(t)'
  PROVE  KeysInv'
<1>1. \A u \in Writers : u # t => writer'[u] = writer[u]
      BY DEF Step, WriterTypes
<1>2. ASSUME NEW u \in Writers, u # t, KeysOf(u)
      PROVE  KeysOf(u)'
  <2> SUFFICES ASSUME NEW k \in 1 .. Len(hashes'), NEW i \in DOMAIN hashes'[k],
                      hashes'[k][i].key = u
               PROVE  /\ subscribed'[u] # Absent
                      /\ hashes'[k][i].value = subscribed'[u]
                      /\ writer'[u].pc \in {"idle", "copy", "enqueue", "scrub"}
                      /\ writer'[u].pc = "copy" => k # writer'[u].table
                      /\ writer'[u].pc = "scrub" => k <= writer'[u].table
      BY DEF KeysOf, Holds
  <2>1. k \in 1 .. Len(hashes) /\ i \in DOMAIN hashes[k] /\ hashes'[k][i] = hashes[k][i]
        BY <1>2
  <2>2. Holds(u, hashes[k]) /\ hashes[k][i].value = hashes'[k][i].value /\ hashes[k][i].key = u
        BY <2>1 DEF Holds
  <2> QED
        BY <1>1, <1>2, <2>1, <2>2 DEF KeysOf
<1> QED
  BY <1>2 DEF KeysInv

\* A step of a thread that no table holds.
LEMMA StepUnheld ==
  ASSUME WriterTypes, KeysInv, NEW t \in Writers, NEW w, Step(t, w),
         UNCHANGED <<hashes, destroyer>>,
         \A u \in Writers : u # t => subscribed'[u] = subscribed[u],
         writer[t].pc \notin {"idle", "copy", "enqueue", "scrub"}
  PROVE  KeysInv'
<1>1. destroyer.pc = "waiting" => KeysOf(t)
      BY DEF KeysInv
<1>2. destroyer.pc = "waiting" => KeysOf(t)'
      BY <1>1 DEF KeysOf, Holds
<1> QED
  BY <1>2, StepKeys

\* A step of a thread whose producer stays.
LEMMA StepHeld ==
  ASSUME WriterTypes, KeysInv, NEW t \in Writers, NEW w, Step(t, w),
         UNCHANGED <<hashes, subscribed, destroyer>>,
         destroyer.pc = "waiting" =>
           \A k \in 1 .. Len(hashes) : Holds(t, hashes[k]) =>
             /\ writer'[t].pc \in {"idle", "copy", "enqueue", "scrub"}
             /\ writer'[t].pc = "copy" => k # writer'[t].table
             /\ writer'[t].pc = "scrub" => k <= writer'[t].table
  PROVE  KeysInv'
<1>1. destroyer.pc = "waiting" => KeysOf(t)
      BY DEF KeysInv
<1>2. destroyer.pc = "waiting" => KeysOf(t)'
      BY <1>1 DEF KeysOf
<1> QED
  BY <1>2, StepKeys

\* A thread that takes a place.
LEMMA PlaceKeys ==
  ASSUME FewWriters, WriterTypes, WritersInv, NEW t \in Writers,
         writer[t].pc \in {"copy", "insert"}, KeyProbed(t) \in {Empty, Reusable}, Place(t),
         UNCHANGED <<subscribed, destroyer>>,
         NEW w, Step(t, w), w.pc = "enqueue"
  PROVE  KeysInv'
<1>1. PICK k : k = writer[t].table
      OBVIOUS
<1>2. /\ k \in 1 .. Len(hashes) /\ Len(hashes') = Len(hashes)
      /\ \A j \in 1 .. Len(hashes) : j # k => hashes'[j] = hashes[j]
      /\ DOMAIN hashes'[k] = DOMAIN hashes[k]
      /\ \A i \in DOMAIN hashes[k] :
           /\ hashes'[k][i].key = t => hashes'[k][i].value = writer[t].producer
           /\ hashes'[k][i].key # t => hashes'[k][i] = hashes[k][i]
  <2>1. TakesPlace(t, k)
        BY <1>1, PlaceStep
  <2> QED
        BY <2>1 DEF TakesPlace
<1>3. KeysInv /\ KeysOf(t) /\ ClaimsOf(t)
      BY DEF WritersInv, KeysInv, WriterClaims, DestroyerClaims
<1>4. writer'[t].pc = "enqueue"
      BY DEF WriterTypes, Step
<1>5. \A j \in 1 .. Len(hashes') : \A i \in DOMAIN hashes'[j] :
        hashes'[j][i].key # t =>
          j \in 1 .. Len(hashes) /\ i \in DOMAIN hashes[j] /\ hashes'[j][i] = hashes[j][i]
      BY <1>2
<1>6. writer[t].producer = subscribed[t] /\ subscribed[t] # Absent
      BY <1>3 DEF ClaimsOf
<1>7. KeysOf(t)'
  <2> SUFFICES ASSUME NEW j \in 1 .. Len(hashes'), NEW i \in DOMAIN hashes'[j],
                      hashes'[j][i].key = t
               PROVE  hashes'[j][i].value = subscribed[t]
      BY <1>4, <1>6 DEF KeysOf
  <2>1. CASE j = k
        BY <1>2, <1>6, <2>1
  <2>2. CASE j # k
    <3>1. j \in 1 .. Len(hashes) /\ hashes'[j] = hashes[j]
          BY <1>2, <2>2
    <3> QED
          BY <1>3, <3>1 DEF KeysOf, Holds
  <2> QED
        BY <2>1, <2>2
<1> QED
  BY <1>3, <1>5, <1>7, StepKeys

\* A step of a thread that is probing for a place.
LEMMA ProbeKeys ==
  ASSUME FewWriters, WriterTypes, WritersInv, NEW t \in Writers,
         writer[t].pc \in {"copy", "insert"}, UNCHANGED <<subscribed, destroyer>>,
         \/ /\ KeyProbed(t) \in {Empty, Reusable} /\ Place(t)
            /\ Step(t, [writer[t] EXCEPT !.pc = "enqueue", !.index = 0])
         \/ /\ KeyProbed(t) \notin {Empty, Reusable} /\ hashes' = hashes
            /\ Step(t, [writer[t] EXCEPT !.index = @ + 1])
  PROVE  KeysInv'
<1>2. destroyer.pc = "waiting"
      BY DEF WritersInv, DestroyerClaims
<1>3. /\ writer \in [Writers -> WriterRecords] /\ writer[t] \in WriterRecords
      BY WriterFields DEF WriterTypes
<1>4. KeysInv /\ KeysOf(t)
      BY <1>2 DEF WritersInv, KeysInv
<1>5. CASE KeyProbed(t) \in {Empty, Reusable}
  <2> DEFINE w == [writer[t] EXCEPT !.pc = "enqueue", !.index = 0]
  <2>1. Place(t) /\ Step(t, w)
        BY <1>5
  <2>2. w.pc = "enqueue"
        BY <1>3 DEF WriterRecords
  <2> HIDE DEF w
  <2> QED
        BY <1>5, <2>1, <2>2, PlaceKeys
<1>6. CASE KeyProbed(t) \notin {Empty, Reusable}
  <2> DEFINE w == [writer[t] EXCEPT !.index = @ + 1]
  <2>1. writer' = [writer EXCEPT ![t] = w] /\ hashes' = hashes /\ Step(t, w)
        BY <1>6 DEF Step
  <2>2. w.pc = writer[t].pc /\ w.table = writer[t].table
        BY <1>3 DEF WriterRecords
  <2> HIDE DEF w
  <2>3. writer'[t] = w
        BY <1>3, <2>1
  <2>4. \A j \in 1 .. Len(hashes) : Holds(t, hashes[j]) =>
          /\ writer'[t].pc \in {"idle", "copy", "enqueue", "scrub"}
          /\ writer'[t].pc = "copy" => j # writer'[t].table
          /\ writer'[t].pc = "scrub" => j <= writer'[t].table
        BY <1>4, <2>2, <2>3 DEF KeysOf
  <2> QED
        BY <1>4, <2>1, <2>4, StepHeld
<1> QED
  BY <1>5, <1>6

LEMMA KeysInvKept ==
  ASSUME FewWriters, WriterTypes, WritersInv, WritersNext
  PROVE  KeysInv'
<1>a. writer \in [Writers -> WriterRecords] /\ \A t \in Writers : writer[t] \in WriterRecords
      BY DEF WriterTypes
<1>b. KeysInv /\ \A t \in Writers : destroyer.pc = "waiting" => KeysOf(t)
      BY DEF WritersInv, KeysInv
<1>c. hashes \in Seq(HashTables) /\ Len(hashes) \in Nat
      BY DEF WriterTypes
<1>d. subscribed \in [Writers -> Producers \cup {Absent}]
      BY DEF WriterTypes
<1>1. ASSUME NEW t \in Writers, Find(t)
      PROVE  KeysInv'
  <2>1. /\ destroyer.pc = "waiting" /\ UNCHANGED <<hashes, subscribed, destroyer>>
        /\ \E w : Step(t, w)
        BY <1>1 DEF Find
  <2>2. CASE FoundIn(t) = 0
    <3>1. \A k \in 1 .. Len(hashes) : ~ Holds(t, hashes[k])
          BY <2>2, FoundRight DEF WritersInv
    <3> QED
          BY <1>b, <2>1, <3>1, StepHeld
  <2>3. CASE FoundIn(t) # 0
    <3>1. /\ writer'[t].pc = IF FoundIn(t) = Len(hashes) THEN "enqueue" ELSE "copy"
          /\ writer'[t].table = Len(hashes)
          BY <1>1, <1>a, <2>3 DEF Find, Step, NewWriter
    <3>2. /\ FoundIn(t) \in 1 .. Len(hashes)
          /\ \A k \in 1 .. Len(hashes) : k > FoundIn(t) => ~ Holds(t, hashes[k])
          BY <1>c, <2>3, FoundRight DEF WritersInv
    <3>3. writer'[t].pc = "copy" => ~ Holds(t, hashes[Len(hashes)])
          BY <1>c, <3>1, <3>2
    <3> QED
          BY <1>b, <2>1, <3>1, <3>3, StepHeld
  <2> QED
        BY <2>2, <2>3
<1>2. ASSUME NEW t \in Writers, Copy(t)
      PROVE  KeysInv'
      BY <1>2, ProbeKeys DEF Copy
<1>3. ASSUME NEW t \in Writers, Count(t)
      PROVE  KeysInv'
  <2>1. \E w : Step(t, w)
        BY <1>3 DEF Count
  <2>2. /\ writer[t].pc \notin {"idle", "copy", "enqueue", "scrub"}
        /\ UNCHANGED <<hashes, destroyer>>
        /\ \A u \in Writers : u # t => subscribed'[u] = subscribed[u]
        BY <1>3, <1>d DEF Count
  <2> QED
        BY <1>b, <2>1, <2>2, StepUnheld
<1>4. ASSUME NEW t \in Writers, LockResize(t)
      PROVE  KeysInv'
  <2>1. \E w : Step(t, w)
        BY <1>4 DEF LockResize
  <2>2. /\ writer[t].pc \notin {"idle", "copy", "enqueue", "scrub"}
        /\ UNCHANGED <<hashes, destroyer>>
        /\ \A u \in Writers : u # t => subscribed'[u] = subscribed[u]
        BY <1>4, <1>d DEF LockResize
  <2> QED
        BY <1>b, <2>1, <2>2, StepUnheld
<1>6. ASSUME NEW t \in Writers, ResizeFails(t)
      PROVE  KeysInv'
  <2>1. \E w : Step(t, w)
        BY <1>6 DEF ResizeFails
  <2>2. /\ writer[t].pc \notin {"idle", "copy", "enqueue", "scrub"}
        /\ UNCHANGED <<hashes, destroyer>>
        /\ \A u \in Writers : u # t => subscribed'[u] = subscribed[u]
        BY <1>6, <1>d DEF ResizeFails
  <2> QED
        BY <1>b, <2>1, <2>2, StepUnheld
<1>7. ASSUME NEW t \in Writers, SkipResize(t)
      PROVE  KeysInv'
  <2>1. \E w : Step(t, w)
        BY <1>7 DEF SkipResize
  <2>2. /\ writer[t].pc \notin {"idle", "copy", "enqueue", "scrub"}
        /\ UNCHANGED <<hashes, destroyer>>
        /\ \A u \in Writers : u # t => subscribed'[u] = subscribed[u]
        BY <1>7, <1>d DEF SkipResize
  <2> QED
        BY <1>b, <2>1, <2>2, StepUnheld
<1>8. ASSUME NEW t \in Writers, Scan(t)
      PROVE  KeysInv'
  <2>1. \E w : Step(t, w)
        BY <1>8 DEF Scan
  <2>2. /\ writer[t].pc \notin {"idle", "copy", "enqueue", "scrub"}
        /\ UNCHANGED <<hashes, destroyer>>
        /\ \A u \in Writers : u # t => subscribed'[u] = subscribed[u]
        BY <1>8, <1>d DEF Scan
  <2> QED
        BY <1>b, <2>1, <2>2, StepUnheld
<1>9. ASSUME NEW t \in Writers, Catch(t)
      PROVE  KeysInv'
  <2>1. \E w : Step(t, w)
        BY <1>9 DEF Catch
  <2>2. /\ writer[t].pc \notin {"idle", "copy", "enqueue", "scrub"}
        /\ UNCHANGED <<hashes, destroyer>>
        /\ \A u \in Writers : u # t => subscribed'[u] = subscribed[u]
        BY <1>9, <1>d DEF Catch
  <2> QED
        BY <1>b, <2>1, <2>2, StepUnheld
<1>10. ASSUME NEW t \in Writers, Create(t)
       PROVE  KeysInv'
  <2>1. \E w : Step(t, w)
        BY <1>10 DEF Create
  <2>2. /\ writer[t].pc \notin {"idle", "copy", "enqueue", "scrub"}
        /\ UNCHANGED <<hashes, destroyer>>
        /\ \A u \in Writers : u # t => subscribed'[u] = subscribed[u]
        BY <1>10, <1>d DEF Create
  <2> QED
        BY <1>b, <2>1, <2>2, StepUnheld
<1>11. ASSUME NEW t \in Writers, CreateFails(t)
       PROVE  KeysInv'
  <2>1. \E w : Step(t, w)
        BY <1>11 DEF CreateFails
  <2>2. /\ writer[t].pc \notin {"idle", "copy", "enqueue", "scrub"}
        /\ UNCHANGED <<hashes, destroyer>>
        /\ \A u \in Writers : u # t => subscribed'[u] = subscribed[u]
        BY <1>11, <1>d DEF CreateFails
  <2> QED
        BY <1>b, <2>1, <2>2, StepUnheld
<1>12. ASSUME NEW t \in Writers, Subscribe(t)
       PROVE  KeysInv'
  <2>1. \E w : Step(t, w)
        BY <1>12 DEF Subscribe
  <2>2. /\ writer[t].pc \notin {"idle", "copy", "enqueue", "scrub"}
        /\ UNCHANGED <<hashes, destroyer>>
        /\ \A u \in Writers : u # t => subscribed'[u] = subscribed[u]
        BY <1>12, <1>d DEF Subscribe
  <2> QED
        BY <1>b, <2>1, <2>2, StepUnheld
<1>17. ASSUME NEW t \in Writers, MarkInactive(t)
       PROVE  KeysInv'
  <2>1. \E w : Step(t, w)
        BY <1>17 DEF MarkInactive
  <2>2. /\ writer[t].pc \notin {"idle", "copy", "enqueue", "scrub"}
        /\ UNCHANGED <<hashes, destroyer>>
        /\ \A u \in Writers : u # t => subscribed'[u] = subscribed[u]
        BY <1>17, <1>d DEF MarkInactive
  <2> QED
        BY <1>b, <2>1, <2>2, StepUnheld
<1>18. ASSUME NEW t \in Writers, NextListener(t)
       PROVE  KeysInv'
  <2>1. \E w : Step(t, w)
        BY <1>18 DEF NextListener
  <2>2. /\ writer[t].pc \notin {"idle", "copy", "enqueue", "scrub"}
        /\ UNCHANGED <<hashes, destroyer>>
        /\ \A u \in Writers : u # t => subscribed'[u] = subscribed[u]
        BY <1>18, <1>d DEF NextListener
  <2> QED
        BY <1>b, <2>1, <2>2, StepUnheld
<1>19. ASSUME NEW t \in Writers, StartAgain(t)
       PROVE  KeysInv'
  <2>1. \E w : Step(t, w)
        BY <1>19 DEF StartAgain
  <2>2. /\ writer[t].pc \notin {"idle", "copy", "enqueue", "scrub"}
        /\ UNCHANGED <<hashes, destroyer>>
        /\ \A u \in Writers : u # t => subscribed'[u] = subscribed[u]
        BY <1>19, <1>d DEF StartAgain
  <2> QED
        BY <1>b, <2>1, <2>2, StepUnheld
<1>5. ASSUME NEW t \in Writers, Resize(t)
      PROVE  KeysInv'
  <2>1. /\ writer[t].pc \notin {"idle", "copy", "enqueue", "scrub"}
        /\ UNCHANGED <<subscribed, destroyer>> /\ \E w : Step(t, w)
        BY <1>5 DEF Resize
  <2>2. CASE hashes' = hashes
        BY <1>b, <2>1, <2>2, StepUnheld
  <2>3. ASSUME NEW table \in HashTables, hashes' = Append(hashes, table),
               \A u \in Writers : ~ Holds(u, table)
        PROVE  KeysInv'
    <3>1. \A k \in 1 .. Len(hashes') : \A i \in DOMAIN hashes'[k] :
            hashes'[k][i].key \in Writers =>
              k \in 1 .. Len(hashes) /\ i \in DOMAIN hashes[k] /\ hashes'[k][i] = hashes[k][i]
      <4> SUFFICES ASSUME NEW k \in 1 .. Len(hashes'), NEW i \in DOMAIN hashes'[k],
                          hashes'[k][i].key \in Writers
                   PROVE  k \in 1 .. Len(hashes) /\ hashes'[k] = hashes[k]
          OBVIOUS
      <4>1. /\ Len(hashes') = Len(hashes) + 1 /\ hashes'[Len(hashes) + 1] = table
            /\ \A j \in 1 .. Len(hashes) : hashes'[j] = hashes[j]
            BY <1>c, <2>3
      <4>2. k # Len(hashes) + 1
            BY <2>3, <4>1 DEF Holds
      <4> QED
            BY <1>c, <4>1, <4>2
    <3>2. destroyer.pc = "waiting" => KeysOf(t)'
      <4> SUFFICES ASSUME destroyer.pc = "waiting", NEW k \in 1 .. Len(hashes'),
                          Holds(t, hashes'[k])
                   PROVE  FALSE
          BY DEF KeysOf
      <4>1. k \in 1 .. Len(hashes) /\ Holds(t, hashes[k])
            BY <3>1 DEF Holds
      <4> QED
            BY <1>b, <2>1, <4>1 DEF KeysOf
    <3> QED
          BY <1>b, <2>1, <3>1, <3>2, StepKeys
  <2> QED
        BY <1>5, <2>2, <2>3, ResizeStep
<1>13. ASSUME NEW t \in Writers, InsertKeyProbed(t)
       PROVE  KeysInv'
       BY <1>13, ProbeKeys DEF InsertKeyProbed
<1>14. ASSUME NEW t \in Writers, EnqueueDone(t)
       PROVE  KeysInv'
  <2>1. (\E w : Step(t, w)) /\ UNCHANGED <<hashes, subscribed, destroyer>>
        BY <1>14 DEF EnqueueDone
  <2>2. writer'[t].pc = "idle"
        BY <1>14, <1>a DEF EnqueueDone, Step, NewWriter
  <2> QED
        BY <1>b, <2>1, <2>2, StepHeld
<1>15. ASSUME NEW t \in Writers, Exit(t)
       PROVE  KeysInv'
  <2>1. (\E w : Step(t, w)) /\ UNCHANGED <<hashes, subscribed, destroyer>>
        BY <1>15 DEF Exit
  <2>2. CASE subscribed[t] = Absent
    <3>1. destroyer.pc = "waiting" => \A k \in 1 .. Len(hashes) : ~ Holds(t, hashes[k])
          BY <1>b, <2>2 DEF KeysOf
    <3> QED
          BY <1>b, <2>1, <3>1, StepHeld
  <2>3. CASE subscribed[t] # Absent
    <3> DEFINE w == [NewWriter EXCEPT !.pc = "scrub", !.producer = subscribed[t],
                                      !.table = Len(hashes)]
    <3>1. writer' = [writer EXCEPT ![t] = w]
          BY <1>15, <2>3 DEF Exit, Step
    <3>2. w.pc = "scrub" /\ w.table = Len(hashes)
          BY DEF NewWriter
    <3> HIDE DEF w
    <3>3. writer'[t] = w
          BY <1>a, <3>1
    <3>4. \A k \in 1 .. Len(hashes) : k <= writer'[t].table
          BY <1>c, <3>2, <3>3
    <3> QED
          BY <1>b, <2>1, <3>2, <3>3, <3>4, StepHeld
  <2> QED
        BY <2>2, <2>3
<1>16. ASSUME NEW t \in Writers, Scrub(t)
       PROVE  KeysInv'
  <2>1. PICK k : k = writer[t].table
        OBVIOUS
  <2>2. /\ k \in 1 .. Len(hashes) /\ Len(hashes') = Len(hashes)
        /\ \A j \in 1 .. Len(hashes) : j # k => hashes'[j] = hashes[j]
        /\ DOMAIN hashes'[k] = DOMAIN hashes[k]
        /\ ~ Holds(t, hashes'[k])
        /\ \A i \in DOMAIN hashes[k] :
             hashes'[k][i].key # Reusable => hashes'[k][i] = hashes[k][i]
        BY <1>16, <2>1, ScrubStep, ZenonT(30)
  <2>3. (\E w : Step(t, w)) /\ UNCHANGED <<subscribed, destroyer>> /\ writer[t].pc = "scrub"
        BY <1>16 DEF Scrub
  <2>4. /\ writer'[t].pc = IF k > 1 THEN "scrub" ELSE "mark"
        /\ k > 1 => writer'[t].table = k - 1
        BY <1>16, <1>a, <2>1 DEF Scrub, Step, WriterRecords
  <2>5. Reusable \notin Writers
        BY WritersAssumption
  <2>6. \A j \in 1 .. Len(hashes') : \A i \in DOMAIN hashes'[j] :
          hashes'[j][i].key \in Writers =>
            j \in 1 .. Len(hashes) /\ i \in DOMAIN hashes[j] /\ hashes'[j][i] = hashes[j][i]
        BY <2>2, <2>5
  <2>7. destroyer.pc = "waiting" => KeysOf(t)'
    <3> SUFFICES ASSUME destroyer.pc = "waiting", NEW j \in 1 .. Len(hashes'),
                        Holds(t, hashes'[j])
                 PROVE  /\ subscribed[t] # Absent
                        /\ \A i \in DOMAIN hashes'[j] :
                             hashes'[j][i].key = t => hashes'[j][i].value = subscribed[t]
                        /\ writer'[t].pc = "scrub" /\ j <= writer'[t].table
        BY <2>3 DEF KeysOf
    <3>1. j # k /\ j \in 1 .. Len(hashes) /\ hashes'[j] = hashes[j]
          BY <2>2
    <3>2. /\ subscribed[t] # Absent /\ j <= k
          /\ \A i \in DOMAIN hashes[j] : hashes[j][i].key = t => hashes[j][i].value = subscribed[t]
          BY <1>b, <2>1, <2>3, <3>1 DEF KeysOf
    <3>3. k > 1 /\ j <= k - 1
          BY <1>c, <2>2, <3>1, <3>2
    <3> QED
          BY <2>4, <3>1, <3>2, <3>3
  <2> QED
        BY <1>b, <2>3, <2>6, <2>7, StepKeys
<1>20. ASSUME \/ StartDestroying
              \/ LookInactive
              \/ Unsubscribe
              \/ FreeProducer
       PROVE  KeysInv'
  <2>1. destroyer'.pc # "waiting"
    <3>1. destroyer \in [pc : {"waiting", "look", "unsubscribe", "free"}, at : Nat]
          BY DEF WriterTypes
    <3> QED
          BY <1>20, <3>1 DEF StartDestroying, LookInactive, Unsubscribe, FreeProducer
  <2> QED
        BY <2>1 DEF KeysInv
<1> QED
  BY <1>1, <1>2, <1>3, <1>4, <1>5, <1>6, <1>7, <1>8, <1>9, <1>10, <1>11, <1>12, <1>13, <1>14,
     <1>15, <1>16, <1>17, <1>18, <1>19, <1>20 DEF WritersNext

-------------------------------------------------------------------------------
(* Theorem *)

LEMMA WritersInvInit ==
  ASSUME FewWriters, WritersInit
  PROVE  WriterTypes /\ WritersInv
<1> DEFINE size == INITIAL_IMPLICIT_PRODUCER_HASH_SIZE
           table == EmptyTable(size)
<1>1. size \in HashSizes /\ Absent \notin Nat /\ Absent \notin Writers
      BY WritersAssumption DEF HashSizes
<1>2. hashes = <<table>> /\ \A t \in Writers : writer[t] = NewWriter /\ subscribed[t] = Absent
      BY DEF WritersInit
<1>3. \A t \in Writers : writer[t].pc = "idle" /\ writer[t].producer = Absent
      BY <1>2 DEF NewWriter
<1> DEFINE from == [t \in Writers |-> 0]
<1>4. from \in [Writers -> Nat] /\ \A t \in Writers : from[t] = 0
      OBVIOUS
<1> HIDE DEF size, from
<1>5. table \in HashTables /\ TableInv(table, from) /\ \A t \in Writers : ~ Holds(t, table)
      BY <1>1, <1>4, EmptyTableKeeps
<1> HIDE DEF table
<1>6. WriterTypes
  <2>1. NewWriter \in WriterRecords
        BY DEF NewWriter, WriterRecords, WriterStates
  <2>2. writer \in [Writers -> WriterRecords]
        BY <2>1 DEF WritersInit
  <2>3. hashes \in Seq(HashTables) /\ Len(hashes) > 0
        BY <1>2, <1>5
  <2> QED
        BY <2>2, <2>3 DEF WritersInit, WriterTypes
<1>7. WriterClaims /\ DestroyerClaims
      BY <1>3 DEF WriterClaims, ClaimsOf, DestroyerClaims, WritersInit
<1>8. OnePossessor
  <2>1. Producers = {}
        BY DEF WritersInit, Producers
  <2> QED
        BY <2>1 DEF OnePossessor
<1>9. TablesInv
  <2>1. \A k : [t \in Writers |-> From(t, k)] = from
        BY <1>3 DEF From, from
  <2> QED
        BY <1>2, <1>5, <2>1 DEF TablesInv
<1>10. KeysInv
       BY <1>2, <1>5 DEF KeysInv, KeysOf
<1> QED
  BY <1>6, <1>7, <1>8, <1>9, <1>10 DEF WritersInv

LEMMA WritersInvImplies ==
  ASSUME FewWriters, WriterTypes, WritersInv
  PROVE  OneWriter
<1>a. /\ subscribed \in [Writers -> Producers \cup {Absent}] /\ Absent \notin Producers
      /\ hashes \in Seq(HashTables)
      BY WritersAssumption DEF WriterTypes, Producers
<1>b. (\A t \in Writers : ClaimsOf(t)) /\ OnePossessor
      BY DEF WritersInv, WriterClaims
<1>1. ASSUME NEW t \in Writers, NEW u \in Writers, t # u, writer[t].pc = "enqueue",
             writer[u].producer = writer[t].producer, writer[u].pc \notin {"next", "exited"}
      PROVE  FALSE
  <2>1. subscribed[t] = writer[t].producer /\ writer[t].producer \in Producers
        BY <1>1, <1>a, <1>b DEF ClaimsOf
  <2>2. PICK p \in Producers : p = writer[t].producer
        BY <2>1
  <2>3. Possesses(t, p)
        BY <1>1, <2>1, <2>2 DEF Possesses
  <2>4. writer[u].producer = p /\ p # Absent
        BY <1>1, <1>a, <2>2
  <2>5. writer[u].pc \in {"copy", "insert", "enqueue", "scrub", "mark", "subscribe"}
    <3>1. writer[u].pc \in WriterStates
          BY WriterFields
    <3> QED
          BY <1>1, <1>b, <2>4, <3>1 DEF ClaimsOf, WriterStates
  <2>6. Possesses(u, p)
        BY <1>1, <1>b, <2>4, <2>5 DEF ClaimsOf, Possesses
  <2> QED
        BY <1>1, <1>b, <2>3, <2>6 DEF OnePossessor
<1>2. \A t \in Writers : writer[t].pc = "enqueue" => subscribed[t] = writer[t].producer
      BY <1>b DEF ClaimsOf
<1>3. \A k \in 1 .. Len(hashes) : HasEmpty(hashes[k])
  <2> TAKE k \in 1 .. Len(hashes)
  <2>1. hashes[k] \in HashTables
        BY <1>a
  <2>2. \E from : KeysFound(hashes[k]) /\ LeftTo(hashes[k], from)
        BY DEF WritersInv, TablesInv, TableInv
  <2> QED
        BY <2>1, <2>2, EmptyPlace
<1> QED
  BY <1>1, <1>2, <1>3 DEF OneWriter, HasEmpty

\* Fewer threads than places in the first table: a producer is used by one
\* thread at a time and every table has an empty place, for any threads, any
\* hashes of theirs, any sizes, exits and restarts.
THEOREM OneWriterCorrect ==
  ASSUME FewWriters
  PROVE  Spec => []OneWriter
<1>1. Init => WriterTypes /\ WritersInv
      BY WritersInvInit DEF Init
<1>2. WriterTypes /\ WritersInv /\ [Next]_vars => (WriterTypes /\ WritersInv)'
  <2> SUFFICES ASSUME WriterTypes, WritersInv, [Next]_vars
               PROVE  WriterTypes' /\ WritersInv'
      OBVIOUS
  <2>1. WritersNext \/ UNCHANGED writersVars
        BY DEF Next, vars
  <2>2. CASE WritersNext
    <3>1. WriterTypes'
          BY <2>2, WriterTypesKept
    <3> QED
          BY <2>2, <3>1, WriterClaimsKept, DestroyerClaimsKept, OnePossessorKept, TablesInvKept,
             KeysInvKept DEF WritersInv
  <2>3. CASE UNCHANGED writersVars
    <3>1. UNCHANGED <<hashes, hashCount, inactive, chain, subscribed, mutex, writer, destroyer>>
          BY <2>3 DEF writersVars
    <3>2. WriterTypes'
          BY <3>1 DEF WriterTypes, WriterRecords, Producers
    <3>3. WriterClaims' /\ DestroyerClaims'
          BY <3>1 DEF WritersInv, WriterClaims, ClaimsOf, DestroyerClaims, Producers
    <3>4. OnePossessor'
          BY <3>1 DEF WritersInv, OnePossessor, Possesses, Producers
    <3>5. TablesInv'
          BY <3>1 DEF WritersInv, TablesInv, From
    <3>6. KeysInv'
          BY <3>1 DEF WritersInv, KeysInv, KeysOf
    <3> QED
          BY <3>2, <3>3, <3>4, <3>5, <3>6 DEF WritersInv
  <2> QED
        BY <2>1, <2>2, <2>3
<1>3. WriterTypes /\ WritersInv => OneWriter
      BY WritersInvImplies
<1> QED
  BY <1>1, <1>2, <1>3, PTL DEF Spec

===============================================================================
