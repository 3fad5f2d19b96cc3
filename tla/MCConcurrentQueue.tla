-------------------------- MODULE MCConcurrentQueue --------------------------
(* A queue small enough for TLC: blocks of two elements, two in the initial *)
(* pool and two on the heap, two threads that hash to the same place.       *)
EXTENDS ConcurrentQueue, TLC

Pool == 1 .. 2
Heap == 3 .. 4
SameHash == [t \in Writers |-> 1]
Symmetry == Permutations(Consumers \cup Writers) \cup Permutations(Threads)

==============================================================================
