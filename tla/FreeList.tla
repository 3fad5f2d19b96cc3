------------------------------ MODULE FreeList ------------------------------
(***************************************************************************)
(* The lock-free free list of blocks, with its reference counts: a node is *)
(* popped under a count, so that its next pointer does not change, and a   *)
(* node that is given back while others still count it is put on the list  *)
(* by the last of them.  To the rest of the queue it is the set freeList   *)
(* of QueueBlocks.                                                         *)
(***************************************************************************)
EXTENDS Naturals, FiniteSets

CONSTANTS
  Threads,   \* threads that take nodes and give them back
  Nodes,
  Null

ASSUME NodesAssumption == IsFiniteSet(Threads) /\ IsFiniteSet(Nodes) /\ Null \notin Nodes

VARIABLES
  freeListHead,
  freeListNext,       \* node -> node
  freeListRefs,       \* node -> count
  shouldBeOnFreeList, \* node -> the top bit of its freeListRefs
  held,               \* thread -> nodes that are its own
  call                \* thread -> the call it is in

listVars == <<freeListHead, freeListNext, freeListRefs, shouldBeOnFreeList, held, call>>

IdleCall == [pc |-> "idle", node |-> Null, head |-> Null, next |-> Null, adding |-> FALSE]

\* Every node comes from the initial pool or the heap, and is somebody's.
FreeListInit ==
  /\ freeListHead = Null
  /\ freeListNext = [n \in Nodes |-> Null]
  /\ freeListRefs = [n \in Nodes |-> 0]
  /\ shouldBeOnFreeList = [n \in Nodes |-> FALSE]
  /\ \E t \in Threads : held = [u \in Threads |-> IF u = t THEN Nodes ELSE {}]
  /\ call = [t \in Threads |-> IdleCall]

Goto(t, pc) == call' = [call EXCEPT ![t].pc = pc]

\* A thread has put the node where it belongs: add returns, try_get goes on
\* from the head it has.
AfterAdd(c) ==
  IF c.adding \/ c.head = Null THEN IdleCall
  ELSE [c EXCEPT !.pc = "refs", !.node = Null, !.next = Null]

\* add: fetch_add(SHOULD_BE_ON_FREELIST)
AddNode(t) ==
  /\ call[t].pc = "idle"
  /\ \E n \in held[t] :
       /\ held' = [held EXCEPT ![t] = @ \ {n}]
       /\ shouldBeOnFreeList' = [shouldBeOnFreeList EXCEPT ![n] = TRUE]
       /\ call' = [call EXCEPT ![t] =
            IF freeListRefs[n] = 0
              THEN [IdleCall EXCEPT !.pc = "zero", !.node = n, !.adding = TRUE] ELSE IdleCall]
  /\ UNCHANGED <<freeListHead, freeListNext, freeListRefs>>

(***************************************************************************)
(* add_knowing_refcount_is_zero; head is the expected head of the list.    *)
(* While a getter runs it, head keeps the head its own CAS saw; next is    *)
(* the expected head here.                                                 *)
(***************************************************************************)

LoadHeadToAdd(t) ==
  /\ call[t].pc = "zero"
  /\ call' = [call EXCEPT ![t] = [@ EXCEPT !.pc = "link", !.next = freeListHead]]
  /\ UNCHANGED <<freeListHead, freeListNext, freeListRefs, shouldBeOnFreeList, held>>

StoreNext(t) ==
  /\ call[t].pc = "link"
  /\ freeListNext' = [freeListNext EXCEPT ![call[t].node] = call[t].next]
  /\ Goto(t, "open")
  /\ UNCHANGED <<freeListHead, freeListRefs, shouldBeOnFreeList, held>>

\* freeListRefs.store(1): the list's own reference, and the bit is cleared.
StoreRefs(t) ==
  /\ call[t].pc = "open"
  /\ freeListRefs' = [freeListRefs EXCEPT ![call[t].node] = 1]
  /\ shouldBeOnFreeList' = [shouldBeOnFreeList EXCEPT ![call[t].node] = FALSE]
  /\ Goto(t, "push")
  /\ UNCHANGED <<freeListHead, freeListNext, held>>

Push(t) ==
  /\ call[t].pc = "push" /\ freeListHead = call[t].next
  /\ freeListHead' = call[t].node
  /\ call' = [call EXCEPT ![t] = AfterAdd(@)]
  /\ UNCHANGED <<freeListNext, freeListRefs, shouldBeOnFreeList, held>>

PushFails(t) ==
  /\ call[t].pc = "push" /\ freeListHead # call[t].next
  /\ call' = [call EXCEPT ![t] = [@ EXCEPT !.pc = "close", !.next = freeListHead]]
  /\ UNCHANGED <<freeListHead, freeListNext, freeListRefs, shouldBeOnFreeList, held>>

\* fetch_add(SHOULD_BE_ON_FREELIST - 1): try again only when nobody counts it.
CloseRefs(t) ==
  LET n == call[t].node
  IN  /\ call[t].pc = "close"
      /\ freeListRefs' = [freeListRefs EXCEPT ![n] = @ - 1]
      /\ shouldBeOnFreeList' = [shouldBeOnFreeList EXCEPT ![n] = TRUE]
      /\ call' = [call EXCEPT ![t] =
           IF freeListRefs[n] = 1 THEN [@ EXCEPT !.pc = "link"] ELSE AfterAdd(@)]
      /\ UNCHANGED <<freeListHead, freeListNext, held>>

(***************************************************************************)
(* try_get                                                                 *)
(***************************************************************************)

LoadHead(t) ==
  /\ call[t].pc \in {"idle", "reload"}
  /\ call' = [call EXCEPT ![t] =
       IF freeListHead = Null THEN IdleCall
       ELSE [IdleCall EXCEPT !.pc = "refs", !.head = freeListHead]]
  /\ UNCHANGED <<freeListHead, freeListNext, freeListRefs, shouldBeOnFreeList, held>>

\* The load of the count.  next keeps the number the CAS expects.
LoadRefs(t) ==
  LET h == call[t].head
  IN  /\ call[t].pc = "refs"
      /\ call' = [call EXCEPT ![t] =
           IF freeListRefs[h] = 0 THEN [@ EXCEPT !.pc = "reload"]
           ELSE [@ EXCEPT !.pc = "count", !.next = <<freeListRefs[h], shouldBeOnFreeList[h]>>]]
      /\ UNCHANGED <<freeListHead, freeListNext, freeListRefs, shouldBeOnFreeList, held>>

\* The count goes up by one if it has not changed.
CountNode(t) ==
  LET h == call[t].head
      same == call[t].next = <<freeListRefs[h], shouldBeOnFreeList[h]>>
  IN  /\ call[t].pc = "count"
      /\ freeListRefs' = IF same THEN [freeListRefs EXCEPT ![h] = @ + 1] ELSE freeListRefs
      /\ call' = [call EXCEPT ![t] =
           [@ EXCEPT !.pc = IF same THEN "next" ELSE "reload", !.next = Null]]
      /\ UNCHANGED <<freeListHead, freeListNext, shouldBeOnFreeList, held>>

LoadNext(t) ==
  /\ call[t].pc = "next"
  /\ call' = [call EXCEPT ![t] = [@ EXCEPT !.pc = "pop", !.next = freeListNext[call[t].head]]]
  /\ UNCHANGED <<freeListHead, freeListNext, freeListRefs, shouldBeOnFreeList, held>>

Pop(t) ==
  /\ call[t].pc = "pop" /\ freeListHead = call[t].head
  /\ freeListHead' = call[t].next
  /\ Goto(t, "release")
  /\ UNCHANGED <<freeListNext, freeListRefs, shouldBeOnFreeList, held>>

PopFails(t) ==
  /\ call[t].pc = "pop" /\ freeListHead # call[t].head
  /\ call' = [call EXCEPT ![t] =
       [@ EXCEPT !.pc = "forget", !.node = call[t].head, !.head = freeListHead, !.next = Null]]
  /\ UNCHANGED <<freeListHead, freeListNext, freeListRefs, shouldBeOnFreeList, held>>

\* References given up by a thread that has popped a node: its own and the
\* list's.
PopRefs == 2

Release(t) ==
  LET h == call[t].head
  IN  /\ call[t].pc = "release"
      /\ freeListRefs' = [freeListRefs EXCEPT ![h] = @ - PopRefs]
      /\ held' = [held EXCEPT ![t] = @ \cup {h}]
      /\ call' = [call EXCEPT ![t] = IdleCall]
      /\ UNCHANGED <<freeListHead, freeListNext, shouldBeOnFreeList>>

\* A slip: the last one to count a node does not put it on the list.
NeverLast(n) == FALSE

\* The thread is the last to count a node that should be on the list.
LastToCount(n) == shouldBeOnFreeList[n] /\ freeListRefs[n] = 1

\* fetch_sub(1) on the node that was not popped.
Forget(t) ==
  LET n == call[t].node
  IN  /\ call[t].pc = "forget"
      /\ freeListRefs' = [freeListRefs EXCEPT ![n] = @ - 1]
      /\ call' = [call EXCEPT ![t] =
           IF LastToCount(n) THEN [@ EXCEPT !.pc = "zero"] ELSE AfterAdd(@)]
      /\ UNCHANGED <<freeListHead, freeListNext, shouldBeOnFreeList, held>>

FreeListNext ==
  \E t \in Threads :
    \/ AddNode(t) \/ LoadHeadToAdd(t) \/ StoreNext(t) \/ StoreRefs(t)
    \/ Push(t) \/ PushFails(t) \/ CloseRefs(t)
    \/ LoadHead(t) \/ LoadRefs(t) \/ CountNode(t) \/ LoadNext(t)
    \/ Pop(t) \/ PopFails(t) \/ Release(t) \/ Forget(t)

(***************************************************************************)
(* Properties                                                              *)
(***************************************************************************)

\* The nodes on the list, by following the pointers.
OnList ==
  LET reach[k \in Nat] ==
        IF k = 0 THEN {freeListHead} \ {Null}
        ELSE reach[k - 1] \cup ({freeListNext[n] : n \in reach[k - 1]} \ {Null})
  IN  reach[Cardinality(Nodes)]

\* The node a thread has in its hands.
Mine(t) ==
  held[t] \cup
  (IF call[t].pc = "release" THEN {call[t].head} ELSE {}) \cup
  (IF call[t].pc \in {"zero", "link", "open", "push", "close"} THEN {call[t].node} ELSE {})

\* A node that try_get returns is nobody else's, is not on the list and is not
\* about to be put there (the assertion of try_get on SHOULD_BE_ON_FREELIST),
\* and when no call is running no node is lost: however the calls interleave,
\* and although a node may be popped, given back and popped again while a
\* thread still looks at it.
NodesKept ==
  /\ \A t \in Threads : \A n \in held[t] :
       /\ n \notin OnList /\ ~shouldBeOnFreeList[n]
       /\ \A u \in Threads \ {t} : n \notin Mine(u)
  /\ (\A t \in Threads : call[t].pc = "idle") =>
       (UNION {held[t] : t \in Threads}) \cup OnList = Nodes

==============================================================================
