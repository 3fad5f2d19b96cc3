---------------------------- MODULE SubqueueProofs ----------------------------
(***************************************************************************)
(* Proofs about the two things a sub-queue rests on:                       *)
(*   - its counters: the head does not pass the tail, and the claims taken *)
(*     back leave exactly the elements taken (NoneStranded), for any       *)
(*     number of consumers;                                                *)
(*   - the rings of the block index of an implicit producer, for any size. *)
(*                                                                         *)
(* What matters of the consumers are the sums, over all of them, of what   *)
(* they have claimed and of what is due to them.  A block has a number,    *)
(* and an entry of the index that of the block it is or was for.  In a     *)
(* ring the number at a place is congruent to the place, up to one offset  *)
(* for the whole ring (Ordered).                                           *)
(***************************************************************************)
EXTENDS SubqueueInvariants, FiniteSetTheorems, WellFoundedInduction, SequenceTheorems, TLAPS

-------------------------------------------------------------------------------
(* The counters of a sub-queue: sums *)

Units(f) == UNION {{c} \X (1 .. f[c]) : c \in Consumers}
OthersUnits(f, c) == UNION {{d} \X (1 .. f[d]) : d \in Consumers \ {c}}

LEMMA UnitsFinite ==
  ASSUME NEW f \in [Consumers -> Nat], NEW S \in SUBSET Consumers
  PROVE  IsFiniteSet(UNION {{c} \X (1 .. f[c]) : c \in S})
<1> DEFINE T == {{c} \X (1 .. f[c]) : c \in S}
           g == [c \in S |-> {c} \X (1 .. f[c])]
<1>1. IsFiniteSet(S)
      BY CallsAssumption, FS_Subset
<1>2. g \in Surjection(S, T)
      BY DEF Surjection
<1>3. IsFiniteSet(T)
  <2> HIDE DEF T, g
  <2> QED
      BY <1>1, <1>2, FS_Surjection
<1>4. \A U \in T : IsFiniteSet(U)
  <2> SUFFICES ASSUME NEW c \in S
               PROVE  IsFiniteSet({c} \X (1 .. f[c]))
      OBVIOUS
  <2>1. f[c] \in Nat
        OBVIOUS
  <2>2. IsFiniteSet({c})
        BY FS_Singleton
  <2>3. IsFiniteSet(1 .. f[c])
        BY <2>1, FS_Interval
  <2> QED
        BY <2>2, <2>3, FS_Product
<1> HIDE DEF T
<1>5. IsFiniteSet(UNION T)
      BY <1>3, <1>4, FS_UNION
<1> QED
  BY <1>5 DEF T

\* The units of one consumer and of the others.
LEMMA TotalSplit ==
  ASSUME NEW f \in [Consumers -> Nat], NEW c \in Consumers
  PROVE  /\ Total(f) = f[c] + Cardinality(OthersUnits(f, c))
         /\ Cardinality(OthersUnits(f, c)) \in Nat
<1> DEFINE A == {c} \X (1 .. f[c])
           B == OthersUnits(f, c)
<1>1. f[c] \in Nat
      OBVIOUS
<1>2. IsFiniteSet(A) /\ Cardinality(A) = f[c]
  <2>1. IsFiniteSet({c}) /\ Cardinality({c}) = 1
        BY FS_Singleton
  <2>2. IsFiniteSet(1 .. f[c]) /\ Cardinality(1 .. f[c]) = f[c]
        BY <1>1, FS_Interval
  <2>3. IsFiniteSet(A) /\ Cardinality(A) = 1 * f[c]
        BY <2>1, <2>2, FS_Product
  <2> QED
        BY <2>3, <1>1
<1>3. IsFiniteSet(B)
      BY UnitsFinite DEF OthersUnits
<1>4. A \cap B = {}
      BY DEF OthersUnits
<1>5. Units(f) = A \cup B
      BY DEF Units, OthersUnits
<1> HIDE DEF A, B
<1>6. Cardinality(A \cup B) = Cardinality(A) + Cardinality(B) - Cardinality(A \cap B)
      BY <1>2, <1>3, FS_Union
<1>7. Cardinality(A \cap B) = 0
      BY <1>4, FS_EmptySet
<1>8. Cardinality(B) \in Nat
      BY <1>3, FS_CardinalityType
<1>9. Total(f) = Cardinality(A \cup B)
      BY <1>5 DEF Total, Units
<1> QED
  BY <1>1, <1>2, <1>6, <1>7, <1>8, <1>9 DEF B

LEMMA TotalType ==
  ASSUME NEW f \in [Consumers -> Nat]
  PROVE  Total(f) \in Nat
BY UnitsFinite, FS_CardinalityType DEF Total

\* A consumer more or less: the sums differ as its shares do, and if the others
\* have at most as much, by as much at most.
LEMMA TotalCompare ==
  ASSUME NEW f \in [Consumers -> Nat], NEW g \in [Consumers -> Nat], NEW c \in Consumers,
         \A d \in Consumers \ {c} : f[d] <= g[d]
  PROVE  Total(f) + g[c] <= Total(g) + f[c]
<1> DEFINE A == OthersUnits(f, c)
           B == OthersUnits(g, c)
<1>1. A \subseteq B
  <2> SUFFICES ASSUME NEW d \in Consumers \ {c}, NEW u \in {d} \X (1 .. f[d])
               PROVE  u \in {d} \X (1 .. g[d])
      BY DEF OthersUnits
  <2>1. f[d] \in Nat /\ g[d] \in Nat /\ f[d] <= g[d]
        OBVIOUS
  <2> QED
        BY <2>1
<1>2. IsFiniteSet(B)
      BY UnitsFinite DEF OthersUnits
<1>3. Total(f) = f[c] + Cardinality(A) /\ Cardinality(A) \in Nat
      BY TotalSplit
<1>4. Total(g) = g[c] + Cardinality(B) /\ Cardinality(B) \in Nat
      BY TotalSplit
<1> HIDE DEF A, B
<1>5. Cardinality(A) <= Cardinality(B)
      BY <1>1, <1>2, FS_Subset
<1>6. f[c] \in Nat /\ g[c] \in Nat
      OBVIOUS
<1> QED
  BY <1>3, <1>4, <1>5, <1>6

LEMMA TotalExcept ==
  ASSUME NEW f \in [Consumers -> Nat], NEW g \in [Consumers -> Nat], NEW c \in Consumers,
         \A d \in Consumers \ {c} : f[d] = g[d]
  PROVE  Total(f) + g[c] = Total(g) + f[c]
<1>1. \A d \in Consumers \ {c} : f[d] \in Nat /\ g[d] \in Nat /\ f[d] <= g[d] /\ g[d] <= f[d]
      OBVIOUS
<1>2. Total(f) + g[c] <= Total(g) + f[c]
      BY <1>1, TotalCompare
<1>3. Total(g) + f[c] <= Total(f) + g[c]
      BY <1>1, TotalCompare
<1>4. Total(f) \in Nat /\ Total(g) \in Nat /\ f[c] \in Nat /\ g[c] \in Nat
      BY TotalType
<1> QED
  BY <1>2, <1>3, <1>4

LEMMA TotalLess ==
  ASSUME NEW f \in [Consumers -> Nat], NEW g \in [Consumers -> Nat],
         \A d \in Consumers : f[d] <= g[d]
  PROVE  Total(f) <= Total(g)
<1>1. Units(f) \subseteq Units(g)
  <2> SUFFICES ASSUME NEW d \in Consumers, NEW u \in {d} \X (1 .. f[d])
               PROVE  u \in {d} \X (1 .. g[d])
      BY DEF Units
  <2>1. f[d] \in Nat /\ g[d] \in Nat /\ f[d] <= g[d]
        OBVIOUS
  <2> QED
        BY <2>1
<1>2. IsFiniteSet(Units(g))
      BY UnitsFinite DEF Units
<1> QED
  BY <1>1, <1>2, FS_Subset DEF Total, Units

LEMMA TotalNone ==
  ASSUME NEW f, \A d \in Consumers : f[d] = 0
  PROVE  Total(f) = 0
<1>1. UNION {{c} \X (1 .. f[c]) : c \in Consumers} = {}
      OBVIOUS
<1> QED
  BY <1>1, FS_EmptySet DEF Total

LEMMA MinOfTwo ==
  ASSUME NEW a \in Int, NEW b \in Int
  PROVE  /\ Min({a, b}) = IF a <= b THEN a ELSE b
         /\ Max({a, b}) = IF a <= b THEN b ELSE a
BY DEF Min, Max

-------------------------------------------------------------------------------
(* Steps *)

Counting == {"check", "give_back", "take"}

LEMMA ConsumerStep ==
  ASSUME consumer = [c \in Consumers |-> consumer[c]], NEW c \in Consumers, NEW w,
         consumer' = [consumer EXCEPT ![c] = w]
  PROVE  /\ consumer' = [d \in Consumers |-> consumer'[d]]
         /\ consumer'[c] = w
         /\ \A d \in Consumers \ {c} : consumer'[d] = consumer[d]
OBVIOUS

LEMMA SharesType ==
  ASSUME Shapes, \A c \in Consumers : CountsOf(consumer[c]), NEW p
  PROVE  /\ Claimed \in [Consumers -> Nat]
         /\ Due(p) \in [Consumers -> Nat]
         /\ \A c \in Consumers : Claimed[c] = ClaimedOf(consumer[c]) /\ Due(p)[c] = DueOf(consumer[c], p)
<1>1. ASSUME NEW c \in Consumers
      PROVE  ClaimedOf(consumer[c]) \in Nat /\ DueOf(consumer[c], p) \in Nat
  BY DEF CountsOf, ClaimedOf, DueOf
<1> QED
  BY <1>1 DEF Claimed, Due

\* A step that leaves the claims alone.
LEMMA NoClaimStep ==
  ASSUME CountersInv, Shapes', \A c \in Consumers : CountsOf(consumer[c])',
         \A c \in Consumers : consumer'[c] = consumer[c]
            \/ (consumer[c].pc \notin Counting /\ consumer'[c].pc \notin Counting),
         headIndex' = headIndex, tailIndex' >= tailIndex,
         dequeueOptimisticCount' = dequeueOptimisticCount, dequeueOvercommit' = dequeueOvercommit
  PROVE  CountersInv'
<1>1. \A c \in Consumers : ClaimedOf(consumer[c])' = ClaimedOf(consumer[c])
      BY DEF ClaimedOf, Counting
<1>2. Claimed' = Claimed
      BY <1>1 DEF Claimed
<1>3. \A p : \A c \in Consumers : DueOf(consumer'[c], p) = DueOf(consumer[c], p)
      BY DEF DueOf, Counting
<1>4. ASSUME NEW p
      PROVE  [c \in Consumers |-> DueOf(consumer'[c], p)] = Due(p)
      BY <1>3 DEF Due
<1>5. Due(0)' = Due(0)
      BY <1>4 DEF Due
<1>6. ASSUME NEW c \in Consumers, consumer'[c].pc = "check"
      PROVE  consumer'[c] = consumer[c] /\ (ClaimCovered(c)' \/ ClaimPlaced(c)')
  <2>1. consumer'[c] = consumer[c]
        BY <1>6 DEF Counting
  <2>2. PICK m : m = consumer[c].myDequeueCount
        OBVIOUS
  <2>3. Due(m)' = Due(m) /\ Due(m + 1)' = Due(m + 1)
        BY <1>4 DEF Due
  <2>4. ClaimCovered(c) \/ ClaimPlaced(c)
        BY <1>6, <2>1 DEF CountersInv
  <2>5. headIndex' = headIndex /\ headIndex \in Nat /\ tailIndex \in Nat /\ tailIndex' \in Nat
        BY DEF CountersInv, Shapes
  <2>6. Total(Due(m + 1)) \in Nat
        BY SharesType, TotalType DEF CountersInv
  <2>7. Total(Due(m + 1))' = Total(Due(m + 1)) /\ Total(Due(m))' = Total(Due(m))
        BY <2>3 DEF Total
  <2> QED
        BY <2>1, <2>2, <2>4, <2>5, <2>6, <2>7 DEF ClaimCovered, ClaimPlaced
<1>7. Total(Claimed)' = Total(Claimed) /\ Total(Due(0))' = Total(Due(0))
      BY <1>2, <1>5 DEF Total
<1>8. Total(Due(0)) \in Nat /\ headIndex \in Nat /\ tailIndex \in Nat /\ tailIndex' \in Nat
      BY SharesType, TotalType DEF CountersInv, Shapes
<1>9. headIndex' + Total(Due(0))' <= tailIndex'
      BY <1>7, <1>8 DEF CountersInv
<1> QED
  BY <1>6, <1>7, <1>9 DEF CountersInv

\* What a step leaves to the consumers that do not take it.
LEMMA OthersShares ==
  ASSUME CountersInv, Shapes', \A d \in Consumers : CountsOf(consumer[d])',
         NEW c \in Consumers, \A d \in Consumers \ {c} : consumer'[d] = consumer[d]
  PROVE  /\ Claimed \in [Consumers -> Nat] /\ Claimed' \in [Consumers -> Nat]
         /\ \A d \in Consumers \ {c} : Claimed'[d] = Claimed[d]
         /\ Claimed[c] = ClaimedOf(consumer[c]) /\ Claimed'[c] = ClaimedOf(consumer'[c])
<1>1. \A d \in Consumers : CountsOf(consumer[d])
      BY DEF CountersInv
<1>2. \A d \in Consumers : ClaimedOf(consumer[d]) \in Nat
      BY <1>1 DEF CountsOf, ClaimedOf
<1>3. \A d \in Consumers : ClaimedOf(consumer[d])' \in Nat
      BY DEF CountsOf, ClaimedOf
<1>4. \A d \in Consumers : ClaimedOf(consumer[d])' = ClaimedOf(consumer'[d])
      BY DEF ClaimedOf
<1> QED
  BY <1>2, <1>3, <1>4 DEF Claimed

LEMMA OthersDue ==
  ASSUME CountersInv, Shapes', \A d \in Consumers : CountsOf(consumer[d])',
         NEW c \in Consumers, \A d \in Consumers \ {c} : consumer'[d] = consumer[d],
         NEW p
  PROVE  /\ Due(p) \in [Consumers -> Nat] /\ Due(p)' \in [Consumers -> Nat]
         /\ \A d \in Consumers \ {c} : Due(p)'[d] = Due(p)[d]
         /\ Due(p)[c] = DueOf(consumer[c], p) /\ Due(p)'[c] = DueOf(consumer'[c], p)
         /\ \A d \in Consumers : Due(p)[d] = DueOf(consumer[d], p) /\ Due(p)'[d] = DueOf(consumer'[d], p)
         /\ Total(Due(p)) \in Nat /\ Total(Due(p))' \in Nat
         /\ Total(Due(p))' + DueOf(consumer[c], p) = Total(Due(p)) + DueOf(consumer'[c], p)
<1>1. \A d \in Consumers : CountsOf(consumer[d])
      BY DEF CountersInv
<1>2. \A d \in Consumers : DueOf(consumer[d], p) \in Nat
      BY <1>1 DEF CountsOf, DueOf
<1>3. \A d \in Consumers : DueOf(consumer'[d], p) \in Nat
      BY DEF CountsOf, DueOf
<1> DEFINE G == [d \in Consumers |-> DueOf(consumer'[d], p)]
<1>4. Due(p)' = G
      BY DEF Due
<1>5. Due(p) \in [Consumers -> Nat] /\ \A d \in Consumers : Due(p)[d] = DueOf(consumer[d], p)
      BY <1>2 DEF Due
<1>6. G \in [Consumers -> Nat] /\ \A d \in Consumers : G[d] = DueOf(consumer'[d], p)
      BY <1>3
<1>7. \A d \in Consumers \ {c} : G[d] = Due(p)[d]
      BY <1>5, <1>6
<1>8. Total(Due(p))' = Total(G)
      BY <1>4 DEF Total
<1> HIDE DEF G
<1>9. Total(G) + Due(p)[c] = Total(Due(p)) + G[c]
      BY <1>5, <1>6, <1>7, TotalExcept
<1>10. Total(G) \in Nat /\ Total(Due(p)) \in Nat
      BY <1>5, <1>6, TotalType
<1> QED
  BY <1>4, <1>5, <1>6, <1>7, <1>8, <1>9, <1>10

LEMMA ClaimStep ==
  ASSUME CountersInv, Shapes', \A d \in Consumers : CountsOf(consumer[d])',
         NEW c \in Consumers, Claim(c)
  PROVE  CountersInv'
<1> DEFINE w == [consumer[c] EXCEPT !.pc = "check", !.myDequeueCount = dequeueOptimisticCount]
<1>1. /\ consumer'[c] = w
      /\ \A d \in Consumers \ {c} : consumer'[d] = consumer[d]
      /\ consumer[c].pc = "claim"
      BY ConsumerStep DEF CountersInv, Shapes, Claim
<1>2. /\ consumer'[c].pc = "check" /\ consumer'[c].myDequeueCount = dequeueOptimisticCount
      /\ consumer'[c].count = consumer[c].count /\ consumer'[c].overcommit = consumer[c].overcommit
      BY <1>1 DEF CountersInv, Shapes, ConsumerShape
<1>3. /\ consumer[c].count \in Nat \ {0} /\ consumer[c].overcommit \in 0 .. dequeueOvercommit
      /\ \A d \in Consumers : CountsOf(consumer[d])
      BY <1>1 DEF CountersInv, CountsOf
<1>4. /\ headIndex' = headIndex /\ tailIndex' = tailIndex /\ dequeueOvercommit' = dequeueOvercommit
      /\ dequeueOptimisticCount' = dequeueOptimisticCount + consumer[c].count
      /\ headIndex \in Nat /\ tailIndex \in Nat /\ dequeueOvercommit \in Nat
      /\ dequeueOptimisticCount \in Nat
      BY DEF Claim, CountersInv, Shapes
<1> HIDE DEF w
<1>5. dequeueOptimisticCount' = dequeueOvercommit' + headIndex' + Total(Claimed)'
  <2>1. ClaimedOf(consumer[c]) = 0 /\ ClaimedOf(consumer'[c]) = consumer[c].count
        BY <1>1, <1>2 DEF ClaimedOf
  <2>2. Total(Claimed') + Claimed[c] = Total(Claimed) + Claimed'[c]
        BY <1>1, OthersShares, TotalExcept
  <2>3. Total(Claimed') = Total(Claimed) + consumer[c].count /\ Total(Claimed) \in Nat
    <3>1. Claimed[c] = 0 /\ Claimed'[c] = consumer[c].count
          BY <1>1, <2>1, OthersShares
    <3>2. Total(Claimed) \in Nat /\ Total(Claimed') \in Nat
          BY <1>1, OthersShares, TotalType
    <3> QED
          BY <2>2, <3>1, <3>2, <1>3
  <2>4. Total(Claimed)' = Total(Claimed')
        BY DEF Total
  <2> QED
        BY <1>3, <1>4, <2>3, <2>4 DEF CountersInv
<1>6. ASSUME NEW p \in Nat, p <= dequeueOptimisticCount
      PROVE  Total(Due(p))' = Total(Due(p)) /\ Total(Due(p)) \in Nat
  <2>1. DueOf(consumer[c], p) = 0 /\ DueOf(consumer'[c], p) = 0
        BY <1>1, <1>2, <1>4, <1>6 DEF DueOf
  <2>2. Total(Due(p))' + 0 = Total(Due(p)) + 0 /\ Total(Due(p))' \in Nat /\ Total(Due(p)) \in Nat
        BY <2>1, <1>1, OthersDue
  <2> QED
        BY <2>2
<1>7. headIndex' + Total(Due(0))' <= tailIndex'
      BY <1>4, <1>6 DEF CountersInv
<1>8. ASSUME NEW d \in Consumers \ {c}, consumer'[d].pc = "check"
      PROVE  /\ consumer[d].pc = "check" /\ consumer[d].myDequeueCount < dequeueOptimisticCount
             /\ consumer'[d].myDequeueCount # consumer'[c].myDequeueCount
             /\ ClaimCovered(d)' \/ ClaimPlaced(d)'
  <2>1. consumer'[d] = consumer[d]
        BY <1>1
  <2>2. PICK m : m = consumer[d].myDequeueCount
        OBVIOUS
  <2>3. m \in Nat /\ m < dequeueOptimisticCount /\ m + 1 <= dequeueOptimisticCount
        BY <1>3, <1>4, <1>8, <2>1, <2>2 DEF CountsOf
  <2>4. Total(Due(m))' = Total(Due(m)) /\ Total(Due(m + 1))' = Total(Due(m + 1))
        BY <2>3, <1>4, <1>6
  <2>5. ClaimCovered(d) \/ ClaimPlaced(d)
        BY <1>8, <2>1 DEF CountersInv
  <2>6. ClaimCovered(d)' \/ ClaimPlaced(d)'
        BY <1>4, <2>1, <2>2, <2>4, <2>5 DEF ClaimCovered, ClaimPlaced
  <2> QED
        BY <1>2, <1>4, <1>8, <2>1, <2>2, <2>3, <2>6
<1>9. ClaimPlaced(c)'
  <2>1. PICK m : m = dequeueOptimisticCount
        OBVIOUS
  <2>2. \A d \in Consumers : Due(m)[d] \in Nat /\ Claimed[d] \in Nat /\ Due(m)[d] <= Claimed[d]
    <3> SUFFICES ASSUME NEW d \in Consumers
                 PROVE  DueOf(consumer[d], m) <= ClaimedOf(consumer[d])
                        /\ DueOf(consumer[d], m) \in Nat /\ ClaimedOf(consumer[d]) \in Nat
        BY DEF Due, Claimed
    <3> QED
        BY <1>3 DEF DueOf, ClaimedOf, CountsOf
  <2>3. Total(Due(m)) <= Total(Claimed)
        BY <2>2, <1>1, OthersDue, OthersShares, TotalLess
  <2>4. Total(Due(m))' = Total(Due(m)) /\ Total(Due(m)) \in Nat
        BY <2>1, <1>4, <1>6
  <2>5. Total(Claimed) \in Nat
        BY <1>1, OthersShares, TotalType
  <2>6. headIndex' + Total(Due(m))' <= m - consumer[c].overcommit
        BY <2>1, <2>3, <2>4, <2>5, <1>3, <1>4 DEF CountersInv
  <2> QED
        BY <2>1, <2>6, <1>2 DEF ClaimPlaced
<1> QED
  BY <1>2, <1>5, <1>7, <1>8, <1>9, <1>1 DEF CountersInv

\* What is granted is at most what was claimed, and what is there.
LEMMA GrantedBounds ==
  ASSUME NEW me, me.count \in Nat \ {0}, me.myDequeueCount \in Nat, me.overcommit \in Nat,
         tailIndex \in Nat
  PROVE  /\ Granted(me) \in 0 .. me.count
         /\ Granted(me) > 0 => Granted(me) <= tailIndex - (me.myDequeueCount - me.overcommit)
<1> DEFINE actual == tailIndex - (me.myDequeueCount - me.overcommit)
<1>1. actual \in Int
      OBVIOUS
<1> HIDE DEF actual
<1>2. Max({0, actual}) = IF 0 <= actual THEN actual ELSE 0
  <2>1. PICK z \in Int : z = 0
        OBVIOUS
  <2>2. Max({z, actual}) = IF z <= actual THEN actual ELSE z
        BY <1>1, MinOfTwo
  <2> QED
        BY <2>1, <2>2
<1>3. PICK a \in Nat : a = Max({0, actual})
      BY <1>1, <1>2
<1>4. Min({me.count, a}) = IF me.count <= a THEN me.count ELSE a
      BY MinOfTwo
<1>5. Granted(me) = Min({me.count, a})
      BY <1>3 DEF Granted, actual
<1> QED
  BY <1>1, <1>2, <1>3, <1>4, <1>5 DEF actual

LEMMA CheckStep ==
  ASSUME CountersInv, Shapes', \A d \in Consumers : CountsOf(consumer[d])',
         NEW c \in Consumers, Check(c)
  PROVE  CountersInv'
<1> DEFINE w == [consumer[c] EXCEPT
                   !.pc = IF Granted(consumer[c]) < consumer[c].count THEN "give_back" ELSE "take",
                   !.end = Granted(consumer[c]), !.myDequeueCount = 0, !.overcommit = 0]
<1>1. /\ consumer'[c] = w
      /\ \A d \in Consumers \ {c} : consumer'[d] = consumer[d]
      /\ consumer[c].pc = "check"
      BY ConsumerStep DEF CountersInv, Shapes, Check
<1>2. PICK g : g = Granted(consumer[c])
      OBVIOUS
<1>3. /\ consumer'[c].pc \in {"give_back", "take"} /\ consumer'[c].end = g
      /\ consumer'[c].count = consumer[c].count
      BY <1>1, <1>2 DEF CountersInv, Shapes, ConsumerShape
<1> HIDE DEF w
<1>4. PICK p, n, o : p = consumer[c].myDequeueCount /\ n = consumer[c].count
                     /\ o = consumer[c].overcommit
      OBVIOUS
<1>5. /\ n \in Nat \ {0} /\ o \in Nat /\ p \in Nat
      /\ \A d \in Consumers : CountsOf(consumer[d])
      BY <1>1, <1>4 DEF CountersInv, CountsOf, Shapes
<1>6. /\ headIndex' = headIndex /\ tailIndex' = tailIndex /\ dequeueOvercommit' = dequeueOvercommit
      /\ dequeueOptimisticCount' = dequeueOptimisticCount
      /\ headIndex \in Nat /\ tailIndex \in Nat
      BY DEF Check, CountersInv, Shapes, counterVars
<1>7. g \in 0 .. n /\ (g > 0 => g <= tailIndex - (p - o))
      BY <1>2, <1>4, <1>5, <1>6, GrantedBounds
<1>8. dequeueOptimisticCount' = dequeueOvercommit' + headIndex' + Total(Claimed)'
  <2>1. ClaimedOf(consumer'[c]) = ClaimedOf(consumer[c])
        BY <1>1, <1>3 DEF ClaimedOf
  <2>2. Claimed' = Claimed
        BY <1>1, <2>1, OthersShares
  <2> QED
        BY <2>2, <1>6 DEF CountersInv, Total
<1>9. ASSUME NEW q
      PROVE  /\ Total(Due(q))' \in Nat /\ Total(Due(q)) \in Nat
             /\ q \in Nat /\ p < q => Total(Due(q))' <= Total(Due(q))
             /\ q \in Nat /\ ~ (p < q) => Total(Due(q))' = Total(Due(q)) + g
  <2>1. /\ Total(Due(q))' + DueOf(consumer[c], q) = Total(Due(q)) + DueOf(consumer'[c], q)
        /\ Total(Due(q))' \in Nat /\ Total(Due(q)) \in Nat
        BY <1>1, OthersDue
  <2>2. DueOf(consumer'[c], q) = g
        BY <1>3 DEF DueOf
  <2>3. DueOf(consumer[c], q) = IF p < q THEN n ELSE 0
        BY <1>1, <1>4 DEF DueOf
  <2> QED
        BY <2>1, <2>2, <2>3, <1>5, <1>7
<1>10. ClaimCovered(c) \/ ClaimPlaced(c)
      BY <1>1 DEF CountersInv
\* With what c is granted, those before it are within the tail.
<1>11. ASSUME NEW q \in Nat, q <= p, g > 0 \/ ClaimCovered(c)
       PROVE  headIndex + Total(Due(q))' <= tailIndex
  <2>1. \A d \in Consumers \ {c} : /\ Due(q)[d] \in Nat /\ Due(p)[d] \in Nat /\ Due(p + 1)[d] \in Nat
                                   /\ Due(q)[d] <= Due(p)[d] /\ Due(p)[d] <= Due(p + 1)[d]
    <3> SUFFICES ASSUME NEW d \in Consumers \ {c}
                 PROVE  /\ DueOf(consumer[d], q) \in Nat /\ DueOf(consumer[d], p) \in Nat
                        /\ DueOf(consumer[d], p + 1) \in Nat
                        /\ DueOf(consumer[d], q) <= DueOf(consumer[d], p)
                        /\ DueOf(consumer[d], p) <= DueOf(consumer[d], p + 1)
        BY DEF Due
    <3>1. CountsOf(consumer[d]) /\ dequeueOptimisticCount \in Nat
          BY <1>5 DEF CountersInv, Shapes
    <3>2. consumer[d].pc = "check" => consumer[d].myDequeueCount \in Nat /\ consumer[d].count \in Nat
          BY <3>1 DEF CountsOf
    <3>3. consumer[d].pc \in {"give_back", "take"} => consumer[d].end \in Nat
          BY <3>1 DEF CountsOf
    <3> QED
          BY <3>2, <3>3, <1>5, <1>11 DEF DueOf
  <2>2. /\ Due(q) \in [Consumers -> Nat] /\ Due(p) \in [Consumers -> Nat]
        /\ Due(p + 1) \in [Consumers -> Nat]
        /\ Due(q)[c] = DueOf(consumer[c], q) /\ Due(p)[c] = DueOf(consumer[c], p)
        /\ Due(p + 1)[c] = DueOf(consumer[c], p + 1)
        BY <1>1, OthersDue
  <2>3. /\ DueOf(consumer[c], q) = 0 /\ DueOf(consumer[c], p) = 0
        /\ DueOf(consumer[c], p + 1) = n
    <3>1. ~ (p < q) /\ ~ (p < p) /\ p < p + 1
          BY <1>5, <1>11
    <3> QED
          BY <3>1, <1>1, <1>4 DEF DueOf
  <2>4. Total(Due(q)) + Due(p)[c] <= Total(Due(p)) + Due(q)[c]
        BY <2>1, <2>2, TotalCompare
  <2>5. \A d \in Consumers \ {c} : Due(q)[d] <= Due(p + 1)[d]
        BY <2>1
  <2>6. Total(Due(q)) + Due(p + 1)[c] <= Total(Due(p + 1)) + Due(q)[c]
        BY <2>2, <2>5, TotalCompare
  <2>7. Total(Due(q))' = Total(Due(q)) + g
        BY <1>9, <1>5, <1>11
  <2>8. /\ Total(Due(q)) \in Nat /\ Total(Due(p)) \in Nat /\ Total(Due(p + 1)) \in Nat
        BY <1>9
  <2>9. Total(Due(q)) <= Total(Due(p)) /\ Total(Due(q)) + n <= Total(Due(p + 1))
        BY <2>2, <2>3, <2>4, <2>6, <2>8, <1>5
  <2>10. CASE ClaimCovered(c)
    <3>1. headIndex + Total(Due(p + 1)) <= tailIndex
          BY <2>10, <1>4 DEF ClaimCovered
    <3> QED
          BY <3>1, <2>7, <2>8, <2>9, <1>5, <1>6, <1>7
  <2>11. CASE g > 0 /\ ClaimPlaced(c)
    <3>1. headIndex + Total(Due(p)) <= p - o
          BY <2>11, <1>4 DEF ClaimPlaced
    <3> QED
          BY <3>1, <2>11, <2>7, <2>8, <2>9, <1>5, <1>6, <1>7
  <2> QED
        BY <2>10, <2>11, <1>10, <1>11
<1>12. ASSUME NEW q \in Nat, q <= p, ~ (g > 0)
       PROVE  Total(Due(q))' = Total(Due(q))
      BY <1>5, <1>7, <1>9, <1>12
<1>13. headIndex' + Total(Due(0))' <= tailIndex'
      BY <1>5, <1>6, <1>11, <1>12 DEF CountersInv
<1>14. ASSUME NEW d \in Consumers, consumer'[d].pc = "check"
       PROVE  consumer'[d] = consumer[d] /\ d # c /\ (ClaimCovered(d)' \/ ClaimPlaced(d)')
  <2>1. consumer'[d] = consumer[d] /\ d # c /\ consumer[d].pc = "check"
        BY <1>1, <1>3, <1>14
  <2>2. PICK q, u : q = consumer[d].myDequeueCount /\ u = consumer[d].overcommit
        OBVIOUS
  <2>3. q \in Nat /\ q # p /\ u \in Nat
        BY <1>1, <1>4, <1>5, <2>1, <2>2 DEF CountersInv, CountsOf, Shapes
  <2>4. /\ ClaimCovered(d)' <=> headIndex' + Total(Due(q + 1))' <= tailIndex'
        /\ ClaimPlaced(d)' <=> headIndex' + Total(Due(q))' <= q - u
        BY <2>1, <2>2 DEF ClaimCovered, ClaimPlaced
  <2>5. \/ headIndex + Total(Due(q + 1)) <= tailIndex
        \/ headIndex + Total(Due(q)) <= q - u
        BY <2>1, <2>2 DEF CountersInv, ClaimCovered, ClaimPlaced
  <2>6. /\ Total(Due(q)) \in Nat /\ Total(Due(q + 1)) \in Nat
        /\ Total(Due(q))' \in Nat /\ Total(Due(q + 1))' \in Nat
        BY <1>9
  <2>7. CASE p < q
    <3>1. Total(Due(q))' <= Total(Due(q)) /\ Total(Due(q + 1))' <= Total(Due(q + 1))
          BY <2>3, <2>7, <1>5, <1>9
    <3> QED
          BY <3>1, <2>1, <2>3, <2>4, <2>5, <2>6, <1>6
  <2>8. CASE q < p /\ (g > 0 \/ ClaimCovered(c))
    <3>1. q + 1 \in Nat /\ q + 1 <= p
          BY <2>3, <2>8, <1>5
    <3>2. headIndex + Total(Due(q + 1))' <= tailIndex
          BY <3>1, <2>8, <1>11
    <3> QED
          BY <3>2, <2>1, <2>4, <1>6
  <2>9. CASE q < p /\ ~ (g > 0)
    <3>1. q + 1 \in Nat /\ q + 1 <= p /\ q <= p
          BY <2>3, <2>9, <1>5
    <3>2. Total(Due(q))' = Total(Due(q)) /\ Total(Due(q + 1))' = Total(Due(q + 1))
          BY <3>1, <2>3, <2>9, <1>12
    <3> QED
          BY <3>2, <2>1, <2>4, <2>5, <1>6
  <2> QED
        BY <2>3, <2>7, <2>8, <2>9, <1>5
<1> QED
  BY <1>8, <1>13, <1>14 DEF CountersInv

LEMMA GiveBackStep ==
  ASSUME CountersInv, Shapes', \A d \in Consumers : CountsOf(consumer[d])',
         NEW c \in Consumers, GiveBack(c)
  PROVE  CountersInv'
<1>1. /\ consumer'[c] = IF consumer[c].end = 0 THEN IdleConsumer
                        ELSE [consumer[c] EXCEPT !.pc = "take", !.count = consumer[c].end]
      /\ \A d \in Consumers \ {c} : consumer'[d] = consumer[d]
      /\ consumer[c].pc = "give_back"
      BY ConsumerStep DEF CountersInv, Shapes, GiveBack
<1>2. PICK e, n : e = consumer[c].end /\ n = consumer[c].count
      OBVIOUS
<1>3. /\ e # 0 => consumer'[c].pc = "take" /\ consumer'[c].end = e /\ consumer'[c].count = e
      /\ e = 0 => consumer'[c].pc = "idle"
      BY <1>1, <1>2 DEF CountersInv, Shapes, ConsumerShape, IdleConsumer
<1>4. n \in Nat \ {0} /\ e \in 0 .. n - 1
      BY <1>1, <1>2 DEF CountersInv, CountsOf
<1>5. /\ headIndex' = headIndex /\ tailIndex' = tailIndex
      /\ dequeueOvercommit' = dequeueOvercommit + (n - e)
      /\ dequeueOptimisticCount' = dequeueOptimisticCount
      /\ headIndex \in Nat /\ tailIndex \in Nat /\ dequeueOvercommit \in Nat
      BY <1>2 DEF GiveBack, CountersInv, Shapes, Surplus
<1>6. dequeueOptimisticCount' = dequeueOvercommit' + headIndex' + Total(Claimed)'
  <2>1. ClaimedOf(consumer[c]) = n /\ ClaimedOf(consumer'[c]) = e
        BY <1>1, <1>2, <1>3 DEF ClaimedOf
  <2>2. Total(Claimed') + Claimed[c] = Total(Claimed) + Claimed'[c]
        BY <1>1, OthersShares, TotalExcept
  <2>3. Claimed[c] = n /\ Claimed'[c] = e
        BY <1>1, <2>1, OthersShares
  <2>4. Total(Claimed) \in Nat /\ Total(Claimed') \in Nat
        BY <1>1, OthersShares, TotalType
  <2>5. Total(Claimed)' = Total(Claimed')
        BY DEF Total
  <2>6. Total(Claimed)' = Total(Claimed) - (n - e)
        BY <2>2, <2>3, <2>4, <2>5, <1>4
  <2> QED
        BY <1>4, <1>5, <2>4, <2>6 DEF CountersInv
<1>7. ASSUME NEW q
      PROVE  Total(Due(q))' = Total(Due(q)) /\ Total(Due(q)) \in Nat
  <2>1. DueOf(consumer'[c], q) = e /\ DueOf(consumer[c], q) = e
        BY <1>1, <1>2, <1>3 DEF DueOf
  <2>2. /\ Total(Due(q))' + DueOf(consumer[c], q) = Total(Due(q)) + DueOf(consumer'[c], q)
        /\ Total(Due(q))' \in Nat /\ Total(Due(q)) \in Nat
        BY <1>1, OthersDue
  <2> QED
        BY <2>1, <2>2, <1>4
<1>8. ASSUME NEW d \in Consumers, consumer'[d].pc = "check"
      PROVE  consumer'[d] = consumer[d] /\ (ClaimCovered(d)' \/ ClaimPlaced(d)')
  <2>1. consumer'[d] = consumer[d]
        BY <1>1, <1>3, <1>8
  <2>2. PICK q : q = consumer[d].myDequeueCount
        OBVIOUS
  <2>3. Total(Due(q))' = Total(Due(q)) /\ Total(Due(q + 1))' = Total(Due(q + 1))
        BY <1>7
  <2> QED
        BY <1>5, <1>8, <2>1, <2>2, <2>3 DEF CountersInv, ClaimCovered, ClaimPlaced
<1>9. headIndex' + Total(Due(0))' <= tailIndex'
      BY <1>5, <1>7 DEF CountersInv
<1> QED
  BY <1>6, <1>8, <1>9 DEF CountersInv

LEMMA TakeStep ==
  ASSUME CountersInv, Shapes', \A d \in Consumers : CountsOf(consumer[d])',
         NEW c \in Consumers, Take(c)
  PROVE  CountersInv'
<1>1. /\ consumer'[c] = [consumer[c] EXCEPT !.pc = "header", !.index = headIndex,
                                            !.end = headIndex + consumer[c].end, !.count = 0]
      /\ \A d \in Consumers \ {c} : consumer'[d] = consumer[d]
      /\ consumer[c].pc = "take"
      BY ConsumerStep DEF CountersInv, Shapes, Take
<1>2. PICK n : n = consumer[c].count
      OBVIOUS
<1>3. consumer'[c].pc = "header"
      BY <1>1 DEF CountersInv, Shapes, ConsumerShape
<1>4. n \in Nat /\ consumer[c].end = n
      BY <1>1, <1>2 DEF CountersInv, CountsOf
<1>5. /\ headIndex' = headIndex + n /\ tailIndex' = tailIndex
      /\ dequeueOvercommit' = dequeueOvercommit
      /\ dequeueOptimisticCount' = dequeueOptimisticCount
      /\ headIndex \in Nat /\ tailIndex \in Nat /\ dequeueOvercommit \in Nat
      BY <1>4 DEF Take, CountersInv, Shapes
<1>6. dequeueOptimisticCount' = dequeueOvercommit' + headIndex' + Total(Claimed)'
  <2>1. ClaimedOf(consumer[c]) = n /\ ClaimedOf(consumer'[c]) = 0
        BY <1>1, <1>2, <1>3 DEF ClaimedOf
  <2>2. Total(Claimed') + Claimed[c] = Total(Claimed) + Claimed'[c]
        BY <1>1, OthersShares, TotalExcept
  <2>3. Claimed[c] = n /\ Claimed'[c] = 0
        BY <1>1, <2>1, OthersShares
  <2>4. Total(Claimed) \in Nat /\ Total(Claimed') \in Nat
        BY <1>1, OthersShares, TotalType
  <2>5. Total(Claimed)' = Total(Claimed')
        BY DEF Total
  <2> QED
        BY <1>4, <1>5, <2>2, <2>3, <2>4, <2>5 DEF CountersInv
<1>7. ASSUME NEW q
      PROVE  headIndex' + Total(Due(q))' = headIndex + Total(Due(q))
  <2>1. DueOf(consumer'[c], q) = 0 /\ DueOf(consumer[c], q) = n
        BY <1>1, <1>3, <1>4 DEF DueOf
  <2>2. /\ Total(Due(q))' + DueOf(consumer[c], q) = Total(Due(q)) + DueOf(consumer'[c], q)
        /\ Total(Due(q))' \in Nat /\ Total(Due(q)) \in Nat
        BY <1>1, OthersDue
  <2> QED
        BY <2>1, <2>2, <1>4, <1>5
<1>8. ASSUME NEW d \in Consumers, consumer'[d].pc = "check"
      PROVE  consumer'[d] = consumer[d] /\ (ClaimCovered(d)' \/ ClaimPlaced(d)')
  <2>1. consumer'[d] = consumer[d]
        BY <1>1, <1>3, <1>8
  <2>2. PICK q : q = consumer[d].myDequeueCount
        OBVIOUS
  <2>3. /\ headIndex' + Total(Due(q))' = headIndex + Total(Due(q))
        /\ headIndex' + Total(Due(q + 1))' = headIndex + Total(Due(q + 1))
        BY <1>7
  <2> QED
        BY <1>5, <1>8, <2>1, <2>2, <2>3 DEF CountersInv, ClaimCovered, ClaimPlaced
<1>9. headIndex' + Total(Due(0))' <= tailIndex'
      BY <1>5, <1>7 DEF CountersInv
<1> QED
  BY <1>6, <1>8, <1>9 DEF CountersInv

-------------------------------------------------------------------------------
(* Actions *)

\* A step of the producer.
LEMMA ProducerCounts ==
  ASSUME CountersInv, consumer' = consumer, ProducerShape(producer)', producer'.count \in Nat,
         headIndex' = headIndex, tailIndex' \in Nat, tailIndex' >= tailIndex,
         dequeueOptimisticCount' = dequeueOptimisticCount, dequeueOvercommit' = dequeueOvercommit
  PROVE  CountersInv'
<1>1. Shapes'
      BY DEF CountersInv, Shapes, ConsumerShape
<1>2. \A c \in Consumers : CountsOf(consumer[c])'
      BY DEF CountersInv, CountsOf
<1>3. \A c \in Consumers : consumer'[c] = consumer[c]
            \/ (consumer[c].pc \notin Counting /\ consumer'[c].pc \notin Counting)
      OBVIOUS
<1> QED
  BY <1>1, <1>2, <1>3, NoClaimStep

\* A step of a consumer to the record w.
LEMMA ShapesKept ==
  ASSUME CountersInv, NEW c \in Consumers, NEW w, ConsumerShape(w),
         consumer' = [consumer EXCEPT ![c] = w],
         headIndex' \in Nat, dequeueOptimisticCount' \in Nat, dequeueOvercommit' \in Nat,
         tailIndex' = tailIndex, producer' = producer
  PROVE  /\ Shapes'
         /\ consumer'[c] = w
         /\ \A d \in Consumers \ {c} : consumer'[d] = consumer[d]
<1>1. /\ consumer' = [d \in Consumers |-> consumer'[d]]
      /\ consumer'[c] = w
      /\ \A d \in Consumers \ {c} : consumer'[d] = consumer[d]
      BY ConsumerStep DEF CountersInv, Shapes
<1>2. ASSUME NEW d \in Consumers
      PROVE  ConsumerShape(consumer[d])'
  <2>1. ConsumerShape(consumer'[d])
        BY <1>1 DEF CountersInv, Shapes
  <2> QED
        BY <2>1 DEF ConsumerShape
<1>3. ProducerShape(producer)' /\ producer'.count \in Nat
      BY DEF CountersInv, Shapes, ProducerShape
<1> QED
  BY <1>1, <1>2, <1>3 DEF CountersInv, Shapes

\* What the others know stays right when there is more to give back.
LEMMA OthersCounts ==
  ASSUME CountersInv, NEW d \in Consumers, consumer'[d] = consumer[d],
         dequeueOvercommit' \in Nat, dequeueOvercommit' >= dequeueOvercommit,
         dequeueOptimisticCount' \in Nat, dequeueOptimisticCount' >= dequeueOptimisticCount
  PROVE  CountsOf(consumer[d])'
<1>1. CountsOf(consumer[d]) /\ dequeueOvercommit \in Nat /\ dequeueOptimisticCount \in Nat
      BY DEF CountersInv, Shapes
<1> QED
  BY <1>1 DEF CountsOf

LEMMA ReaderCounts ==
  ASSUME CountersInv, NEW c \in Consumers, NEW w, ConsumerShape(w),
         consumer' = [consumer EXCEPT ![c] = w],
         consumer[c].pc \notin Counting, w.pc \notin Counting \cup {"test", "claim"},
         UNCHANGED <<counterVars, producer>>
  PROVE  CountersInv'
<1>1. /\ headIndex' = headIndex /\ tailIndex' = tailIndex /\ producer' = producer
      /\ dequeueOptimisticCount' = dequeueOptimisticCount /\ dequeueOvercommit' = dequeueOvercommit
      /\ headIndex \in Nat /\ tailIndex \in Nat
      /\ dequeueOptimisticCount \in Nat /\ dequeueOvercommit \in Nat
      BY DEF counterVars, CountersInv, Shapes
<1>2. Shapes' /\ consumer'[c] = w /\ \A d \in Consumers \ {c} : consumer'[d] = consumer[d]
      BY <1>1, ShapesKept
<1>3. \A d \in Consumers \ {c} : CountsOf(consumer[d])'
      BY <1>1, <1>2, OthersCounts
<1>4. CountsOf(consumer[c])'
      BY <1>2 DEF CountsOf, Counting
<1>5. \A d \in Consumers : CountsOf(consumer[d])'
      BY <1>3, <1>4
<1>6. \A d \in Consumers : consumer'[d] = consumer[d]
            \/ (consumer[d].pc \notin Counting /\ consumer'[d].pc \notin Counting)
      BY <1>2
<1>7. tailIndex' >= tailIndex
      BY <1>1
<1> QED
  BY <1>1, <1>2, <1>5, <1>6, <1>7, NoClaimStep

LEMMA LookCounts ==
  ASSUME CountersInv, NEW c \in Consumers, NEW max \in CallSizes, Look(c, max)
  PROVE  CountersInv'
<1> DEFINE w == [IdleConsumer EXCEPT !.pc = "test", !.tail = tailIndex,
                                     !.overcommit = dequeueOvercommit, !.count = max]
<1>1. /\ headIndex' = headIndex /\ tailIndex' = tailIndex /\ producer' = producer
      /\ dequeueOptimisticCount' = dequeueOptimisticCount /\ dequeueOvercommit' = dequeueOvercommit
      /\ headIndex \in Nat /\ tailIndex \in Nat
      /\ dequeueOptimisticCount \in Nat /\ dequeueOvercommit \in Nat
      BY DEF counterVars, CountersInv, Shapes, Look
<1>2. /\ ConsumerShape(w) /\ w.pc = "test" /\ w.tail = tailIndex
      /\ w.overcommit = dequeueOvercommit /\ w.count = max
      BY DEF ConsumerShape, IdleConsumer
<1>3. consumer' = [consumer EXCEPT ![c] = w] /\ consumer[c].pc = "idle"
      BY DEF Look
<1> HIDE DEF w
<1>4. Shapes' /\ consumer'[c] = w /\ \A d \in Consumers \ {c} : consumer'[d] = consumer[d]
      BY <1>1, <1>2, <1>3, ShapesKept
<1>5. \A d \in Consumers \ {c} : CountsOf(consumer[d])'
      BY <1>1, <1>4, OthersCounts
<1>6. CountsOf(consumer[c])'
      BY <1>1, <1>2, <1>4, CallsAssumption DEF CountsOf
<1>7. \A d \in Consumers : CountsOf(consumer[d])'
      BY <1>5, <1>6
<1>8. \A d \in Consumers : consumer'[d] = consumer[d]
            \/ (consumer[d].pc \notin Counting /\ consumer'[d].pc \notin Counting)
      BY <1>2, <1>3, <1>4 DEF Counting
<1>9. tailIndex' >= tailIndex
      BY <1>1
<1> QED
  BY <1>1, <1>4, <1>7, <1>8, <1>9, NoClaimStep

LEMMA TestCounts ==
  ASSUME CountersInv, NEW c \in Consumers, Test(c)
  PROVE  CountersInv'
<1>1. /\ headIndex' = headIndex /\ tailIndex' = tailIndex /\ producer' = producer
      /\ dequeueOptimisticCount' = dequeueOptimisticCount /\ dequeueOvercommit' = dequeueOvercommit
      /\ headIndex \in Nat /\ tailIndex \in Nat
      /\ dequeueOptimisticCount \in Nat /\ dequeueOvercommit \in Nat
      BY DEF counterVars, CountersInv, Shapes, Test
<1>2. PICK there : there = consumer[c].tail - (dequeueOptimisticCount - consumer[c].overcommit)
      OBVIOUS
<1>3. CountsOf(consumer[c]) /\ consumer[c].pc = "test" /\ ConsumerShape(consumer[c])
      BY DEF CountersInv, Shapes, Test
<1>4. /\ there \in Int /\ consumer[c].count \in Nat \ {0}
      /\ consumer[c].overcommit \in 0 .. dequeueOvercommit
      BY <1>1, <1>2, <1>3 DEF CountsOf
<1>5. PICK m : m = Min({consumer[c].count, there})
      OBVIOUS
<1>6. there > 0 => m \in Nat \ {0}
  <2>1. m = IF consumer[c].count <= there THEN consumer[c].count ELSE there
        BY <1>4, <1>5, MinOfTwo
  <2> QED
        BY <2>1, <1>4
<1> DEFINE w == IF there > 0 THEN [consumer[c] EXCEPT !.pc = "claim", !.tail = 0, !.count = m]
                             ELSE IdleConsumer
<1>7. consumer' = [consumer EXCEPT ![c] = w]
      BY <1>2, <1>5 DEF Test
<1>8. /\ ConsumerShape(w)
      /\ w.pc \in {"claim", "idle"}
      /\ w.pc = "claim" => w.count \in Nat \ {0} /\ w.overcommit = consumer[c].overcommit
      BY <1>3, <1>6 DEF ConsumerShape, IdleConsumer
<1> HIDE DEF w
<1>9. Shapes' /\ consumer'[c] = w /\ \A d \in Consumers \ {c} : consumer'[d] = consumer[d]
      BY <1>1, <1>7, <1>8, ShapesKept
<1>10. \A d \in Consumers \ {c} : CountsOf(consumer[d])'
      BY <1>1, <1>9, OthersCounts
<1>11. CountsOf(consumer[c])'
      BY <1>1, <1>4, <1>8, <1>9 DEF CountsOf
<1>12. \A d \in Consumers : CountsOf(consumer[d])'
      BY <1>10, <1>11
<1>13. \A d \in Consumers : consumer'[d] = consumer[d]
            \/ (consumer[d].pc \notin Counting /\ consumer'[d].pc \notin Counting)
      BY <1>3, <1>8, <1>9 DEF Counting
<1>14. tailIndex' >= tailIndex
      BY <1>1
<1> QED
  BY <1>1, <1>9, <1>12, <1>13, <1>14, NoClaimStep

LEMMA ClaimCounts ==
  ASSUME CountersInv, NEW c \in Consumers, Claim(c)
  PROVE  CountersInv'
<1>1. /\ headIndex' = headIndex /\ tailIndex' = tailIndex /\ producer' = producer
      /\ dequeueOvercommit' = dequeueOvercommit
      /\ dequeueOptimisticCount' = dequeueOptimisticCount + consumer[c].count
      /\ headIndex \in Nat /\ tailIndex \in Nat
      /\ dequeueOptimisticCount \in Nat /\ dequeueOvercommit \in Nat
      BY DEF CountersInv, Shapes, Claim
<1> DEFINE w == [consumer[c] EXCEPT !.pc = "check", !.myDequeueCount = dequeueOptimisticCount]
<1>2. CountsOf(consumer[c]) /\ consumer[c].pc = "claim" /\ ConsumerShape(consumer[c])
      BY DEF CountersInv, Shapes, Claim
<1>3. consumer[c].count \in Nat \ {0} /\ consumer[c].overcommit \in 0 .. dequeueOvercommit
      BY <1>2 DEF CountsOf
<1>4. consumer' = [consumer EXCEPT ![c] = w]
      BY DEF Claim
<1>5. /\ ConsumerShape(w) /\ w.pc = "check" /\ w.count = consumer[c].count
      /\ w.overcommit = consumer[c].overcommit /\ w.myDequeueCount = dequeueOptimisticCount
      BY <1>2 DEF ConsumerShape
<1> HIDE DEF w
<1>6. /\ dequeueOptimisticCount' \in Nat /\ dequeueOptimisticCount' > dequeueOptimisticCount
      BY <1>1, <1>3
<1>7. Shapes' /\ consumer'[c] = w /\ \A d \in Consumers \ {c} : consumer'[d] = consumer[d]
      BY <1>1, <1>4, <1>5, <1>6, ShapesKept
<1>8. \A d \in Consumers \ {c} : CountsOf(consumer[d])'
      BY <1>1, <1>6, <1>7, OthersCounts
<1>9. CountsOf(consumer[c])'
      BY <1>1, <1>3, <1>5, <1>6, <1>7 DEF CountsOf
<1> QED
  BY <1>7, <1>8, <1>9, ClaimStep

LEMMA CheckCounts ==
  ASSUME CountersInv, NEW c \in Consumers, Check(c)
  PROVE  CountersInv'
<1>1. /\ headIndex' = headIndex /\ tailIndex' = tailIndex /\ producer' = producer
      /\ dequeueOptimisticCount' = dequeueOptimisticCount /\ dequeueOvercommit' = dequeueOvercommit
      /\ headIndex \in Nat /\ tailIndex \in Nat
      /\ dequeueOptimisticCount \in Nat /\ dequeueOvercommit \in Nat
      BY DEF counterVars, CountersInv, Shapes, Check
<1>2. CountsOf(consumer[c]) /\ consumer[c].pc = "check" /\ ConsumerShape(consumer[c])
      BY DEF CountersInv, Shapes, Check
<1>3. /\ consumer[c].count \in Nat \ {0} /\ consumer[c].overcommit \in Nat
      /\ consumer[c].myDequeueCount \in Nat
      BY <1>1, <1>2 DEF CountsOf
<1>4. PICK g : g = Granted(consumer[c])
      OBVIOUS
<1>5. g \in 0 .. consumer[c].count
      BY <1>1, <1>3, <1>4, GrantedBounds
<1> DEFINE w == [consumer[c] EXCEPT
                   !.pc = IF g < consumer[c].count THEN "give_back" ELSE "take",
                   !.end = g, !.myDequeueCount = 0, !.overcommit = 0]
<1>6. consumer' = [consumer EXCEPT ![c] = w]
      BY <1>4 DEF Check
<1>7. /\ ConsumerShape(w) /\ w.count = consumer[c].count /\ w.end = g
      /\ w.pc = IF g < consumer[c].count THEN "give_back" ELSE "take"
      BY <1>2 DEF ConsumerShape
<1> HIDE DEF w
<1>8. Shapes' /\ consumer'[c] = w /\ \A d \in Consumers \ {c} : consumer'[d] = consumer[d]
      BY <1>1, <1>6, <1>7, ShapesKept
<1>9. \A d \in Consumers \ {c} : CountsOf(consumer[d])'
      BY <1>1, <1>8, OthersCounts
<1>10. CountsOf(consumer[c])'
      BY <1>3, <1>5, <1>7, <1>8 DEF CountsOf
<1> QED
  BY <1>8, <1>9, <1>10, CheckStep

LEMMA GiveBackCounts ==
  ASSUME CountersInv, NEW c \in Consumers, GiveBack(c)
  PROVE  CountersInv'
<1>1. CountsOf(consumer[c]) /\ consumer[c].pc = "give_back" /\ ConsumerShape(consumer[c])
      BY DEF CountersInv, Shapes, GiveBack
<1>2. consumer[c].count \in Nat \ {0} /\ consumer[c].end \in 0 .. consumer[c].count - 1
      BY <1>1 DEF CountsOf
<1>3. /\ headIndex' = headIndex /\ tailIndex' = tailIndex /\ producer' = producer
      /\ dequeueOptimisticCount' = dequeueOptimisticCount
      /\ dequeueOvercommit' = dequeueOvercommit + (consumer[c].count - consumer[c].end)
      /\ headIndex \in Nat /\ tailIndex \in Nat
      /\ dequeueOptimisticCount \in Nat /\ dequeueOvercommit \in Nat
      BY DEF CountersInv, Shapes, GiveBack, Surplus
<1>4. dequeueOvercommit' \in Nat /\ dequeueOvercommit' >= dequeueOvercommit
      BY <1>2, <1>3
<1> DEFINE w == IF consumer[c].end = 0 THEN IdleConsumer
                ELSE [consumer[c] EXCEPT !.pc = "take", !.count = consumer[c].end]
<1>5. consumer' = [consumer EXCEPT ![c] = w]
      BY DEF GiveBack
<1>6. /\ ConsumerShape(w) /\ w.pc \in {"idle", "take"}
      /\ w.pc = "take" => w.end = w.count /\ w.count \in Nat \ {0}
  <2>1. CASE consumer[c].end = 0
        BY <2>1 DEF ConsumerShape, IdleConsumer
  <2>2. CASE consumer[c].end # 0
    <3> DEFINE v == [consumer[c] EXCEPT !.pc = "take", !.count = consumer[c].end]
    <3>1. ConsumerShape(v) /\ v.pc = "take" /\ v.end = consumer[c].end /\ v.count = consumer[c].end
          BY <1>1 DEF ConsumerShape
    <3>2. w = v
          BY <2>2
    <3> HIDE DEF v, w
    <3> QED
          BY <1>2, <2>2, <3>1, <3>2
  <2> QED
        BY <2>1, <2>2
<1> HIDE DEF w
<1>7. Shapes' /\ consumer'[c] = w /\ \A d \in Consumers \ {c} : consumer'[d] = consumer[d]
      BY <1>3, <1>4, <1>5, <1>6, ShapesKept
<1>8. \A d \in Consumers \ {c} : CountsOf(consumer[d])'
      BY <1>3, <1>4, <1>7, OthersCounts
<1>9. CountsOf(consumer[c])'
      BY <1>6, <1>7 DEF CountsOf
<1> QED
  BY <1>7, <1>8, <1>9, GiveBackStep

LEMMA TakeCounts ==
  ASSUME CountersInv, NEW c \in Consumers, Take(c)
  PROVE  CountersInv'
<1>1. CountsOf(consumer[c]) /\ consumer[c].pc = "take" /\ ConsumerShape(consumer[c])
      BY DEF CountersInv, Shapes, Take
<1>2. consumer[c].end \in Nat
      BY <1>1 DEF CountsOf
<1>3. /\ headIndex' = headIndex + consumer[c].end /\ tailIndex' = tailIndex /\ producer' = producer
      /\ dequeueOptimisticCount' = dequeueOptimisticCount /\ dequeueOvercommit' = dequeueOvercommit
      /\ headIndex \in Nat /\ tailIndex \in Nat
      /\ dequeueOptimisticCount \in Nat /\ dequeueOvercommit \in Nat
      BY DEF CountersInv, Shapes, Take
<1> DEFINE w == [consumer[c] EXCEPT !.pc = "header", !.index = headIndex,
                                    !.end = headIndex + consumer[c].end, !.count = 0]
<1>4. consumer' = [consumer EXCEPT ![c] = w]
      BY DEF Take
<1>5. ConsumerShape(w) /\ w.pc = "header"
      BY <1>1 DEF ConsumerShape
<1> HIDE DEF w
<1>6. headIndex' \in Nat
      BY <1>2, <1>3
<1>7. Shapes' /\ consumer'[c] = w /\ \A d \in Consumers \ {c} : consumer'[d] = consumer[d]
      BY <1>3, <1>4, <1>5, <1>6, ShapesKept
<1>8. \A d \in Consumers \ {c} : CountsOf(consumer[d])'
      BY <1>3, <1>7, OthersCounts
<1>9. CountsOf(consumer[c])'
      BY <1>5, <1>7 DEF CountsOf
<1> QED
  BY <1>7, <1>8, <1>9, TakeStep

LEMMA CommitCounts ==
  ASSUME CountersInv, Commit
  PROVE  CountersInv'
<1>1. /\ consumer' = consumer /\ producer' = IdleProducer
      /\ tailIndex' = tailIndex + producer.count /\ headIndex' = headIndex
      /\ dequeueOptimisticCount' = dequeueOptimisticCount /\ dequeueOvercommit' = dequeueOvercommit
      /\ producer.count \in Nat /\ tailIndex \in Nat
      BY DEF Commit, CountersInv, Shapes
<1>2. ProducerShape(producer)' /\ producer'.count \in Nat
      BY <1>1 DEF IdleProducer, ProducerShape
<1>3. tailIndex' \in Nat /\ tailIndex' >= tailIndex
      BY <1>1
<1> QED
  BY <1>1, <1>2, <1>3, ProducerCounts

\* A step of the producer that is in a call.
LEMMA CallCounts ==
  ASSUME CountersInv, ProducerShape(producer)', producer'.count \in Nat,
         UNCHANGED <<counterVars, consumer>>
  PROVE  CountersInv'
<1>1. /\ consumer' = consumer /\ headIndex' = headIndex /\ tailIndex' = tailIndex
      /\ dequeueOptimisticCount' = dequeueOptimisticCount /\ dequeueOvercommit' = dequeueOvercommit
      /\ tailIndex \in Nat
      BY DEF counterVars, CountersInv, Shapes
<1>2. tailIndex' \in Nat /\ tailIndex' >= tailIndex
      BY <1>1
<1> QED
  BY <1>1, <1>2, ProducerCounts

\* One that leaves the call as it is.
LEMMA SameCounts ==
  ASSUME CountersInv, UNCHANGED <<counterVars, consumer, producer>>
  PROVE  CountersInv'
<1>1. ProducerShape(producer)' /\ producer'.count \in Nat
      BY DEF CountersInv, Shapes, ProducerShape
<1> QED
  BY <1>1, CallCounts

LEMMA EnqueueImplicitCounts ==
  ASSUME CountersInv, EnqueueImplicit
  PROVE  CountersInv'
<1>1. ProducerShape(producer) /\ producer.count \in Nat
      BY DEF CountersInv, Shapes
<1>2. ASSUME NEW n \in CallSizes, NEW canAlloc \in BOOLEAN, ImplicitEnqueue(n, canAlloc)
      PROVE  CountersInv'
  <2>1. ProducerShape(producer)' /\ producer'.count \in Nat
        BY <1>2, CallsAssumption DEF ImplicitEnqueue, IdleProducer, ProducerShape
  <2> QED
        BY <1>2, <2>1, CallCounts DEF ImplicitEnqueue
<1>3. CASE InsertKey
  <2>1. ProducerShape(producer)' /\ producer'.count \in Nat
        BY <1>1, <1>3 DEF InsertKey, ProducerShape
  <2> QED
        BY <1>3, <2>1, CallCounts DEF InsertKey
<1>4. CASE GrowIndex
      BY <1>4, SameCounts DEF GrowIndex
<1>5. CASE InsertFails
  <2>1. ProducerShape(producer)' /\ producer'.count \in Nat
        BY <1>1, <1>5 DEF InsertFails, ProducerShape
  <2> QED
        BY <1>5, <2>1, CallCounts DEF InsertFails
<1>6. CASE InsertTail
  <2>1. ProducerShape(producer)' /\ producer'.count \in Nat
        BY <1>1, <1>6 DEF InsertTail, ProducerShape
  <2> QED
        BY <1>6, <2>1, CallCounts DEF InsertTail
<1>7. CASE ObtainBlock
  <2>1. ProducerShape(producer)' /\ producer'.count \in Nat
        BY <1>1, <1>7 DEF ObtainBlock, ProducerShape
  <2> QED
        BY <1>7, <2>1, CallCounts DEF ObtainBlock
<1>8. CASE BlockFails
  <2>1. ProducerShape(producer)' /\ producer'.count \in Nat
        BY <1>1, <1>8 DEF BlockFails, ProducerShape
  <2> QED
        BY <1>8, <2>1, CallCounts DEF BlockFails
<1>9. CASE ConstructAll
  <2>1. ProducerShape(producer)' /\ producer'.count \in Nat
        BY <1>1, <1>9 DEF ConstructAll, ProducerShape
  <2> QED
        BY <1>9, <2>1, CallCounts DEF ConstructAll
<1>10. CASE ConstructThrows
  <2>1. ProducerShape(producer)' /\ producer'.count \in Nat
        BY <1>1, <1>10 DEF ConstructThrows, ProducerShape
  <2> QED
        BY <1>10, <2>1, CallCounts DEF ConstructThrows
<1>11. CASE UndoEntry
  <2>1. ProducerShape(producer)' /\ producer'.count \in Nat
        BY <1>1, <1>11 DEF UndoEntry, ProducerShape
  <2> QED
        BY <1>11, <2>1, CallCounts DEF UndoEntry
<1>12. CASE UndoBlocks
  <2>1. ProducerShape(producer)' /\ producer'.count \in Nat
        BY <1>12 DEF UndoBlocks, IdleProducer, ProducerShape
  <2> QED
        BY <1>12, <2>1, CallCounts DEF UndoBlocks
<1> QED
  BY <1>2, <1>3, <1>4, <1>5, <1>6, <1>7, <1>8, <1>9, <1>10, <1>11, <1>12, CommitCounts
     DEF EnqueueImplicit

LEMMA EnqueueExplicitCounts ==
  ASSUME CountersInv, EnqueueExplicit
  PROVE  CountersInv'
<1>1. ProducerShape(producer) /\ producer.count \in Nat
      BY DEF CountersInv, Shapes
<1>2. ASSUME NEW n \in CallSizes, NEW canAlloc \in BOOLEAN, ExplicitEnqueue(n, canAlloc)
      PROVE  CountersInv'
  <2>1. ProducerShape(producer)' /\ producer'.count \in Nat
        BY <1>2, CallsAssumption DEF ExplicitEnqueue, IdleProducer, ProducerShape
  <2> QED
        BY <1>2, <2>1, CallCounts DEF ExplicitEnqueue
<1>3. ASSUME NEW b, NEW pc, Add(b, pc)
      PROVE  ProducerShape(producer)' /\ producer'.count \in Nat
      BY <1>1, <1>3 DEF Add, ProducerShape
<1>4. CASE ReuseAhead
      BY <1>3, <1>4, CallCounts DEF ReuseAhead
<1>5. CASE NoneAhead
  <2>1. ProducerShape(producer)' /\ producer'.count \in Nat
        BY <1>1, <1>5 DEF NoneAhead, ProducerShape
  <2> QED
        BY <1>5, <2>1, CallCounts DEF NoneAhead
<1>6. CASE Room
  <2>1. ProducerShape(producer)' /\ producer'.count \in Nat
        BY <1>1, <1>6 DEF Room, ProducerShape
  <2> QED
        BY <1>6, <2>1, CallCounts DEF Room
<1>7. CASE GrowRing
  <2>1. ProducerShape(producer)' /\ producer'.count \in Nat
        BY <1>1, <1>7 DEF GrowRing, ProducerShape
  <2> QED
        BY <1>7, <2>1, CallCounts DEF GrowRing
<1>8. CASE InsertBlock
      BY <1>3, <1>8, CallCounts DEF InsertBlock
<1>9. CASE ConstructInto
  <2>1. ProducerShape(producer)' /\ producer'.count \in Nat
        BY <1>1, <1>9 DEF ConstructInto, ProducerShape
  <2> QED
        BY <1>9, <2>1, CallCounts DEF ConstructInto
<1>10. CASE PublishFront
  <2>1. ProducerShape(producer)' /\ producer'.count \in Nat
        BY <1>1, <1>10 DEF PublishFront, ProducerShape
  <2> QED
        BY <1>10, <2>1, CallCounts DEF PublishFront
<1>11. CASE Undo
  <2>1. ProducerShape(producer)' /\ producer'.count \in Nat
        BY <1>11 DEF Undo, IdleProducer, ProducerShape
  <2> QED
        BY <1>11, <2>1, CallCounts DEF Undo
<1> QED
  BY <1>2, <1>4, <1>5, <1>6, <1>7, <1>8, <1>9, <1>10, <1>11, CommitCounts
     DEF EnqueueExplicit, NoRoom, NoBlock, ConstructIntoThrows

\* A consumer past a block is in no call that counts.
LEMMA PastBlockShape ==
  ASSUME NEW me, ConsumerShape(me)
  PROVE  ConsumerShape(PastBlock(me)) /\ PastBlock(me).pc \in {"idle", "next"}
<1>1. CASE EndInBlock(me) = me.end
      BY <1>1 DEF PastBlock, IdleConsumer, ConsumerShape
<1>2. CASE EndInBlock(me) # me.end
      BY <1>2 DEF PastBlock, ConsumerShape
<1> QED
  BY <1>1, <1>2

LEMMA DequeueImplicitCounts ==
  ASSUME CountersInv, NEW c \in Consumers, DequeueImplicit(c)
  PROVE  CountersInv'
<1>1. ConsumerShape(consumer[c])
      BY DEF CountersInv, Shapes
<1>2. ASSUME NEW max \in CallSizes, Look(c, max)
      PROVE  CountersInv'
      BY <1>2, LookCounts
<1>3. CASE Move(c)
  <2> DEFINE w == [consumer[c] EXCEPT !.pc = "flag"]
  <2>1. consumer' = [consumer EXCEPT ![c] = w] /\ consumer[c].pc = "move"
        BY <1>3 DEF Move
  <2>2. ConsumerShape(w) /\ w.pc = "flag"
        BY <1>1 DEF ConsumerShape
  <2> HIDE DEF w
  <2> QED
        BY <1>3, <2>1, <2>2, ReaderCounts DEF Move, Counting
<1>4. CASE ReadHeader(c)
  <2> DEFINE w == [consumer[c] EXCEPT !.pc = "mark", !.header = Len(headers)]
  <2>1. consumer' = [consumer EXCEPT ![c] = w] /\ consumer[c].pc = "header"
        BY <1>4 DEF ReadHeader
  <2>2. ConsumerShape(w) /\ w.pc = "mark"
        BY <1>1 DEF ConsumerShape
  <2> HIDE DEF w
  <2> QED
        BY <1>4, <2>1, <2>2, ReaderCounts DEF ReadHeader, Counting
<1>5. CASE ReadTail(c)
  <2> DEFINE w == [consumer[c] EXCEPT !.pc = "entry", !.mark = headers[consumer[c].header].tail]
  <2>1. consumer' = [consumer EXCEPT ![c] = w] /\ consumer[c].pc = "mark"
        BY <1>5 DEF ReadTail
  <2>2. ConsumerShape(w) /\ w.pc = "entry"
        BY <1>1 DEF ConsumerShape
  <2> HIDE DEF w
  <2> QED
        BY <1>5, <2>1, <2>2, ReaderCounts DEF ReadTail, Counting
<1>6. CASE ReadEntry(c)
  <2> DEFINE w == LET h == headers[consumer[c].header]
                  pos == PositionOf(consumer[c].index, h, consumer[c].mark)
              IN  [consumer[c] EXCEPT !.pc = "move", !.mark = pos, !.block = entries[h.index[pos]].value]
  <2>1. consumer' = [consumer EXCEPT ![c] = w] /\ consumer[c].pc = "entry"
        BY <1>6 DEF ReadEntry
  <2>2. ConsumerShape(w) /\ w.pc = "move"
        BY <1>1 DEF ConsumerShape
  <2> HIDE DEF w
  <2> QED
        BY <1>6, <2>1, <2>2, ReaderCounts DEF ReadEntry, Counting
<1>7. CASE ReadNextEntry(c)
  <2> DEFINE w == LET h == headers[consumer[c].header]
                  pos == (consumer[c].mark + 1) % Capacity(h)
              IN  [consumer[c] EXCEPT !.pc = "move", !.mark = pos, !.block = entries[h.index[pos]].value]
  <2>1. consumer' = [consumer EXCEPT ![c] = w] /\ consumer[c].pc = "next"
        BY <1>7 DEF ReadNextEntry
  <2>2. ConsumerShape(w) /\ w.pc = "move"
        BY <1>1 DEF ConsumerShape
  <2> HIDE DEF w
  <2> QED
        BY <1>7, <2>1, <2>2, ReaderCounts DEF ReadNextEntry, Counting
<1>8. CASE Unlink(c)
  <2> DEFINE w == [consumer[c] EXCEPT !.pc = "free"]
  <2>1. consumer' = [consumer EXCEPT ![c] = w] /\ consumer[c].pc = "unlink"
        BY <1>8 DEF Unlink
  <2>2. ConsumerShape(w) /\ w.pc = "free"
        BY <1>1 DEF ConsumerShape
  <2> HIDE DEF w
  <2> QED
        BY <1>8, <2>1, <2>2, ReaderCounts DEF Unlink, Counting
<1>9. CASE FlagAndCount(c)
  <2> DEFINE w == IF NowEmpty(consumer[c]) THEN [consumer[c] EXCEPT !.pc = "unlink"]
                                           ELSE PastBlock(consumer[c])
  <2>1. consumer' = [consumer EXCEPT ![c] = w] /\ consumer[c].pc = "flag"
        BY <1>9 DEF FlagAndCount
  <2>2. ConsumerShape(w) /\ w.pc \in {"unlink", "idle", "next"}
    <3>1. CASE NowEmpty(consumer[c])
          BY <1>1, <3>1 DEF ConsumerShape
    <3>2. CASE ~ NowEmpty(consumer[c])
          BY <1>1, <3>2, PastBlockShape
    <3> QED
          BY <3>1, <3>2
  <2> HIDE DEF w
  <2> QED
        BY <1>9, <2>1, <2>2, ReaderCounts DEF FlagAndCount, Counting
<1>10. CASE FreeBlock(c)
  <2> DEFINE w == PastBlock(consumer[c])
  <2>1. consumer' = [consumer EXCEPT ![c] = w] /\ consumer[c].pc = "free"
        BY <1>10 DEF FreeBlock
  <2>2. ConsumerShape(w) /\ w.pc \in {"idle", "next"}
        BY <1>1, PastBlockShape
  <2> HIDE DEF w
  <2> QED
        BY <1>10, <2>1, <2>2, ReaderCounts DEF FreeBlock, Counting
<1> QED
  BY <1>2, <1>3, <1>4, <1>5, <1>6, <1>7, <1>8, <1>9, <1>10,
     TestCounts, ClaimCounts, CheckCounts, GiveBackCounts, TakeCounts DEF DequeueImplicit

LEMMA DequeueExplicitCounts ==
  ASSUME CountersInv, NEW c \in Consumers, DequeueExplicit(c)
  PROVE  CountersInv'
<1>1. ConsumerShape(consumer[c])
      BY DEF CountersInv, Shapes
<1>2. ASSUME NEW max \in CallSizes, Look(c, max)
      PROVE  CountersInv'
      BY <1>2, LookCounts
<1>3. CASE Move(c)
  <2> DEFINE w == [consumer[c] EXCEPT !.pc = "flag"]
  <2>1. consumer' = [consumer EXCEPT ![c] = w] /\ consumer[c].pc = "move"
        BY <1>3 DEF Move
  <2>2. ConsumerShape(w) /\ w.pc = "flag"
        BY <1>1 DEF ConsumerShape
  <2> HIDE DEF w
  <2> QED
        BY <1>3, <2>1, <2>2, ReaderCounts DEF Move, Counting
<1>4. CASE ReadRing(c)
  <2> DEFINE w == [consumer[c] EXCEPT !.pc = "mark", !.header = Len(rings)]
  <2>1. consumer' = [consumer EXCEPT ![c] = w] /\ consumer[c].pc = "header"
        BY <1>4 DEF ReadRing
  <2>2. ConsumerShape(w) /\ w.pc = "mark"
        BY <1>1 DEF ConsumerShape
  <2> HIDE DEF w
  <2> QED
        BY <1>4, <2>1, <2>2, ReaderCounts DEF ReadRing, Counting
<1>5. CASE ReadFront(c)
  <2> DEFINE w == [consumer[c] EXCEPT !.pc = "entry", !.mark = rings[consumer[c].header].front]
  <2>1. consumer' = [consumer EXCEPT ![c] = w] /\ consumer[c].pc = "mark"
        BY <1>5 DEF ReadFront
  <2>2. ConsumerShape(w) /\ w.pc = "entry"
        BY <1>1 DEF ConsumerShape
  <2> HIDE DEF w
  <2> QED
        BY <1>5, <2>1, <2>2, ReaderCounts DEF ReadFront, Counting
<1>6. CASE ReadBlock(c)
  <2> DEFINE w == LET r == rings[consumer[c].header]
                  pos == (consumer[c].mark + (BlockBase(consumer[c].index)
                            - r.entries[consumer[c].mark].base) \div BLOCK_SIZE) % RingSize(r)
              IN  [consumer[c] EXCEPT !.pc = "move", !.mark = pos, !.block = r.entries[pos].block]
  <2>1. consumer' = [consumer EXCEPT ![c] = w] /\ consumer[c].pc = "entry"
        BY <1>6 DEF ReadBlock
  <2>2. ConsumerShape(w) /\ w.pc = "move"
        BY <1>1 DEF ConsumerShape
  <2> HIDE DEF w
  <2> QED
        BY <1>6, <2>1, <2>2, ReaderCounts DEF ReadBlock, Counting
<1>7. CASE ReadNextBlock(c)
  <2> DEFINE w == LET r == rings[consumer[c].header]
                  pos == (consumer[c].mark + 1) % RingSize(r)
              IN  [consumer[c] EXCEPT !.pc = "move", !.mark = pos, !.block = r.entries[pos].block]
  <2>1. consumer' = [consumer EXCEPT ![c] = w] /\ consumer[c].pc = "next"
        BY <1>7 DEF ReadNextBlock
  <2>2. ConsumerShape(w) /\ w.pc = "move"
        BY <1>1 DEF ConsumerShape
  <2> HIDE DEF w
  <2> QED
        BY <1>7, <2>1, <2>2, ReaderCounts DEF ReadNextBlock, Counting
<1>8. CASE Flag(c)
  <2> DEFINE w == PastBlock(consumer[c])
  <2>1. consumer' = [consumer EXCEPT ![c] = w] /\ consumer[c].pc = "flag"
        BY <1>8 DEF Flag
  <2>2. ConsumerShape(w) /\ w.pc \in {"idle", "next"}
        BY <1>1, PastBlockShape
  <2> HIDE DEF w
  <2> QED
        BY <1>8, <2>1, <2>2, ReaderCounts DEF Flag, Counting
<1> QED
  BY <1>2, <1>3, <1>4, <1>5, <1>6, <1>7, <1>8,
     TestCounts, ClaimCounts, CheckCounts, GiveBackCounts, TakeCounts DEF DequeueExplicit

-------------------------------------------------------------------------------
(* The invariant *)

LEMMA CountersInit ==
  ASSUME Init
  PROVE  CountersInv
<1>1. /\ tailIndex = 0 /\ headIndex = 0 /\ dequeueOptimisticCount = 0 /\ dequeueOvercommit = 0
      /\ consumer = [c \in Consumers |-> IdleConsumer] /\ producer = IdleProducer
      BY DEF Init, BaseInit
<1>2. \A c \in Consumers : consumer[c] = IdleConsumer /\ consumer[c].pc = "idle"
      BY <1>1 DEF IdleConsumer
<1>3. Shapes
      BY <1>1 DEF Shapes, ConsumerShape, ProducerShape, IdleConsumer, IdleProducer
<1>4. \A c \in Consumers : CountsOf(consumer[c])
      BY <1>2 DEF CountsOf
<1>5. \A c \in Consumers : Claimed[c] = 0 /\ Due(0)[c] = 0
      BY <1>2 DEF Claimed, Due, ClaimedOf, DueOf
<1>6. Total(Claimed) = 0 /\ Total(Due(0)) = 0
      BY <1>5, TotalNone
<1> QED
  BY <1>1, <1>2, <1>3, <1>4, <1>6 DEF CountersInv

LEMMA CountersNext ==
  ASSUME CountersInv, [Next]_vars
  PROVE  CountersInv'
<1>1. CASE ImplicitNext
  <2>1. CASE DestroyImplicit
        BY <2>1, SameCounts DEF DestroyImplicit
  <2> QED
        BY <1>1, <2>1, EnqueueImplicitCounts, DequeueImplicitCounts DEF ImplicitNext
<1>2. CASE ExplicitNext
  <2>1. CASE DestroyExplicit
        BY <2>1, SameCounts DEF DestroyExplicit
  <2> QED
        BY <1>2, <2>1, EnqueueExplicitCounts, DequeueExplicitCounts DEF ExplicitNext
<1>3. CASE UNCHANGED baseVars
      BY <1>3, SameCounts DEF baseVars, counterVars
<1> QED
  BY <1>1, <1>2, <1>3 DEF Next, vars

\* When nobody is dequeuing there is no claim.
LEMMA CountersSafe ==
  ASSUME CountersInv
  PROVE  NoneStranded
<1>1. \A c \in Consumers : CountsOf(consumer[c])
      BY DEF CountersInv
<1>2. Total(Due(0)) \in Nat
      BY <1>1, SharesType, TotalType DEF CountersInv
<1>3. headIndex <= tailIndex
      BY <1>2 DEF CountersInv, Shapes
<1>4. ASSUME \A c \in Consumers : consumer[c].pc = "idle"
      PROVE  dequeueOptimisticCount - dequeueOvercommit = headIndex
  <2>1. \A c \in Consumers : Claimed[c] = 0
        BY <1>4 DEF Claimed, ClaimedOf
  <2>2. Total(Claimed) = 0
        BY <2>1, TotalNone
  <2> QED
        BY <2>2 DEF CountersInv, Shapes
<1> QED
  BY <1>3, <1>4 DEF NoneStranded

\* A dequeue may claim more than there is, look at a tail that has moved since
\* and give back late: still the head never passes the tail, and once nobody is
\* dequeuing every element that was not taken can be claimed again.
THEOREM NoneStrandedCorrect == Spec => []NoneStranded
<1>1. Init => CountersInv
      BY CountersInit
<1>2. CountersInv /\ [Next]_vars => CountersInv'
      BY CountersNext
<1>3. CountersInv => NoneStranded
      BY CountersSafe
<1> QED
  BY <1>1, <1>2, <1>3, PTL DEF Spec

-------------------------------------------------------------------------------
(* Numbers *)

LEMMA BlockSize == BLOCK_SIZE \in Nat /\ BLOCK_SIZE > 1
BY BlocksAssumption

\* The first element of a block; one block on it is BLOCK_SIZE larger.
LEMMA BaseFacts ==
  ASSUME NEW k \in Int
  PROVE  /\ Base(k) \in Int
         /\ Base(k + 1) = Base(k) + BLOCK_SIZE
         /\ Base(k - 1) = Base(k) - BLOCK_SIZE
         /\ k \in Nat => Base(k) \in Nat
         /\ k = 0 => Base(k) = 0
<1>1. PICK b \in Nat : b = BLOCK_SIZE /\ b > 1
      BY BlockSize
<1>2. b * (k + 1) = b * k + b /\ b * (k - 1) = b * k - b
      BY Z3
<1>3. b * k \in Int /\ (k \in Nat => b * k \in Nat) /\ (k = 0 => b * k = 0)
      OBVIOUS
<1> QED
  BY <1>1, <1>2, <1>3 DEF Base

\* It is linear in the number of the block.
LEMMA BaseSum ==
  ASSUME NEW j \in Int, NEW k \in Int
  PROVE  Base(j + k) = Base(j) + Base(k) /\ Base(j - k) = Base(j) - Base(k)
<1>1. PICK b \in Nat : b = BLOCK_SIZE
      BY BlockSize
<1>2. b * (j + k) = b * j + b * k /\ b * (j - k) = b * j - b * k
      BY Z3
<1> QED
  BY <1>1, <1>2 DEF Base

\* Two blocks are at least one block apart.
LEMMA BaseGap ==
  ASSUME NEW j \in Int, NEW k \in Int, j < k
  PROVE  Base(j) + BLOCK_SIZE <= Base(k)
<1>1. PICK b \in Nat : b = BLOCK_SIZE /\ b > 1
      BY BlockSize
<1>2. PICK d \in Nat : d = k - j - 1
      OBVIOUS
<1>3. b * d \in Nat /\ b * j \in Int
      OBVIOUS
<1>4. k = j + 1 + d
      BY <1>2
<1>5. b * (j + 1 + d) = b * j + b + b * d
      BY Z3
<1> QED
  BY <1>1, <1>3, <1>4, <1>5 DEF Base

\* Base keeps the order.
LEMMA BaseOrder ==
  ASSUME NEW j \in Int, NEW k \in Int
  PROVE  /\ Base(j) <= Base(k) <=> j <= k
         /\ Base(j) < Base(k) <=> j < k
         /\ Base(j) = Base(k) <=> j = k
<1>1. Base(j) \in Int /\ Base(k) \in Int
      BY BaseFacts
<1>2. CASE j < k
      BY <1>1, <1>2, BaseGap, BlockSize
<1>3. CASE k < j
      BY <1>1, <1>3, BaseGap, BlockSize
<1>4. CASE j = k
      BY <1>1, <1>4
<1> QED
  BY <1>2, <1>3, <1>4

\* The block of an element, and its place in the block.
LEMMA NumFacts ==
  ASSUME NEW i \in Nat
  PROVE  /\ Num(i) \in Nat
         /\ Offset(i) \in Offsets
         /\ i = Base(Num(i)) + Offset(i)
         /\ BlockBase(i) = Base(Num(i))
         /\ Base(Num(i)) <= i /\ i < Base(Num(i)) + BLOCK_SIZE
<1>1. PICK b \in Nat \ {0} : b = BLOCK_SIZE
      BY BlockSize
<1>2. i \div b \in Nat /\ i % b \in 0 .. b - 1 /\ i = b * (i \div b) + (i % b)
      OBVIOUS
<1>3. b * (i \div b) \in Int
      BY <1>2
<1> QED
  BY <1>1, <1>2, <1>3 DEF Num, Offset, Offsets, Base, BlockBase

\* Where an element is.
LEMMA NumIs ==
  ASSUME NEW i \in Nat, NEW k \in Int, Base(k) <= i, i < Base(k) + BLOCK_SIZE
  PROVE  Num(i) = k /\ Offset(i) = i - Base(k)
<1>1. /\ Num(i) \in Nat /\ i = Base(Num(i)) + Offset(i)
      /\ Base(Num(i)) <= i /\ i < Base(Num(i)) + BLOCK_SIZE
      BY NumFacts
<1>2. Base(k) \in Int /\ Base(Num(i)) \in Int
      BY <1>1, BaseFacts
<1>3. ~ (Num(i) < k)
      BY <1>1, <1>2, BaseGap, BlockSize
<1>4. ~ (k < Num(i))
      BY <1>1, <1>2, BaseGap, BlockSize
<1>5. Num(i) = k
      BY <1>1, <1>3, <1>4
<1>6. Offset(i) \in Int
      BY NumFacts, BlockSize DEF Offsets
<1> QED
  BY <1>1, <1>2, <1>5, <1>6

\* The element at a place of a block.
LEMMA PlaceIs ==
  ASSUME NEW k \in Nat, NEW o \in Offsets
  PROVE  Base(k) + o \in Nat /\ Num(Base(k) + o) = k /\ Offset(Base(k) + o) = o
<1>1. o \in Nat /\ o < BLOCK_SIZE
      BY BlockSize DEF Offsets
<1>2. Base(k) \in Nat
      BY BaseFacts
<1>3. PICK i \in Nat : i = Base(k) + o
      BY <1>1, <1>2
<1>4. Base(k) <= i /\ i < Base(k) + BLOCK_SIZE
      BY <1>1, <1>2, <1>3, BlockSize
<1>5. Num(i) = k /\ Offset(i) = i - Base(k)
      BY <1>4, NumIs
<1> QED
  BY <1>1, <1>2, <1>3, <1>5

\* The first element of a block is at place 0.
LEMMA NumOfBase ==
  ASSUME NEW k \in Nat
  PROVE  Base(k) \in Nat /\ Num(Base(k)) = k /\ Offset(Base(k)) = 0 /\ BlockBase(Base(k)) = Base(k)
<1>1. Base(k) \in Nat
      BY BaseFacts
<1>2. Num(Base(k)) = k /\ Offset(Base(k)) = Base(k) - Base(k)
      BY <1>1, BlockSize, NumIs
<1>3. BlockBase(Base(k)) = Base(Num(Base(k)))
      BY <1>1, NumFacts
<1> QED
  BY <1>1, <1>2, <1>3

\* Blocks are in the order of their elements.
LEMMA NumOrder ==
  ASSUME NEW i \in Nat, NEW j \in Nat, i <= j
  PROVE  Num(i) <= Num(j)
<1>1. Num(i) \in Nat /\ Num(j) \in Nat /\ Base(Num(i)) <= i /\ j < Base(Num(j)) + BLOCK_SIZE
      BY NumFacts
<1>2. Base(Num(i)) \in Int /\ Base(Num(j)) \in Int
      BY <1>1, BaseFacts
<1>3. ~ (Num(j) < Num(i))
      BY <1>1, <1>2, BaseGap, BlockSize
<1> QED
  BY <1>1, <1>3

\* The blocks of an enqueue start at the first that begins at the tail or later.
LEMMA FirstFacts ==
  ASSUME tailIndex \in Nat
  PROVE  /\ FirstNum \in Nat /\ FirstBase = Base(FirstNum)
         /\ tailIndex <= Base(FirstNum) /\ Base(FirstNum) < tailIndex + BLOCK_SIZE
         /\ Base(FirstNum - 1) < tailIndex
<1>1. PICK k \in Nat : /\ k = Num(tailIndex) /\ tailIndex = Base(k) + Offset(tailIndex)
                       /\ BlockBase(tailIndex) = Base(k)
                       /\ Base(k) <= tailIndex /\ tailIndex < Base(k) + BLOCK_SIZE
      BY NumFacts
<1>2. Base(k) \in Nat /\ Base(k + 1) = Base(k) + BLOCK_SIZE /\ Base(k + 1) \in Nat
      BY BaseFacts
<1>3. Offset(tailIndex) \in Int
      BY NumFacts, BlockSize DEF Offsets
<1>4. PICK f \in Nat : FirstBase = Base(f) /\ tailIndex <= Base(f) /\ Base(f) < tailIndex + BLOCK_SIZE
  <2>1. CASE Offset(tailIndex) = 0
    <3>1. FirstBase = Base(k)
          BY <1>1, <1>2, <1>3, <2>1 DEF FirstBase
    <3> QED
          BY <3>1, <1>1, <1>2, <1>3, <2>1, BlockSize
  <2>2. CASE Offset(tailIndex) # 0
    <3>1. FirstBase = Base(k + 1)
          BY <1>1, <1>2, <2>2 DEF FirstBase
    <3>2. k + 1 \in Nat
          OBVIOUS
    <3>3. Offset(tailIndex) > 0
          BY <1>3, <2>2, NumFacts, BlockSize DEF Offsets
    <3> QED
          BY <3>1, <3>2, <3>3, <1>1, <1>2, <1>3, BlockSize
  <2> QED
        BY <2>1, <2>2
<1>5. FirstNum = f
      BY <1>4, NumOfBase DEF FirstNum
<1>6. Base(f - 1) = Base(f) - BLOCK_SIZE /\ Base(f) \in Nat
      BY BaseFacts
<1> QED
  BY <1>4, <1>5, <1>6, BlockSize

\* When i elements end in block f - 1, block f is the next to begin.
LEMMA FirstIs ==
  ASSUME NEW i \in Nat, NEW f \in Nat, i <= Base(f), Base(f - 1) < i
  PROVE  Num(IF Offset(i) = 0 THEN i ELSE BlockBase(i) + BLOCK_SIZE) = f
<1>1. PICK n \in Nat : n = Num(i)
      BY NumFacts
<1>2. /\ i = Base(n) + Offset(i) /\ Offset(i) \in Nat /\ BlockBase(i) = Base(n)
      /\ Base(n) <= i /\ i < Base(n) + BLOCK_SIZE
      BY <1>1, NumFacts DEF Offsets
<1>3. /\ Base(n) \in Nat /\ Base(f) \in Nat /\ Base(f - 1) \in Int
      /\ Base(n + 1) = Base(n) + BLOCK_SIZE /\ Base(n + 1) \in Int
      BY BaseFacts
<1>4. f - 1 < n + 1 /\ n <= f
  <2>1. Base(f - 1) < Base(n + 1) /\ Base(n) <= Base(f)
        BY <1>2, <1>3
  <2> QED
        BY <2>1, BaseOrder
<1>5. CASE Offset(i) = 0
  <2>1. Base(f - 1) < Base(n)
        BY <1>2, <1>3, <1>5
  <2>2. f - 1 < n
        BY <2>1, BaseOrder
  <2> QED
        BY <1>1, <1>4, <1>5, <2>2
<1>6. CASE Offset(i) # 0
  <2>1. Base(n) < Base(f)
        BY <1>2, <1>3, <1>6
  <2>2. n < f
        BY <2>1, BaseOrder
  <2>3. f = n + 1
        BY <1>4, <2>2
  <2> QED
        BY <1>2, <1>3, <1>6, <2>3, NumOfBase
<1> QED
  BY <1>5, <1>6

-------------------------------------------------------------------------------
(* Congruence *)

\* Congruence is reflexive, also up to the modulus,
LEMMA CongRefl ==
  ASSUME NEW n \in Nat \ {0}, NEW a \in Int
  PROVE  Cong(a, a, n) /\ Cong(a + n, a, n) /\ Cong(a - n, a, n)
<1>1. a = a + n * 0 /\ a + n = a + n * 1 /\ a - n = a + n * (-1)
      OBVIOUS
<1> QED
  BY <1>1 DEF Cong

\* symmetric,
LEMMA CongSym ==
  ASSUME NEW n \in Nat \ {0}, NEW a \in Int, NEW b \in Int, Cong(a, b, n)
  PROVE  Cong(b, a, n)
<1>1. PICK q \in Int : a = b + n * q
      BY DEF Cong
<1>2. n * (-q) = -(n * q) /\ n * q \in Int /\ -q \in Int
      BY Z3
<1>3. b = a + n * (-q)
      BY <1>1, <1>2
<1> QED
  BY <1>2, <1>3 DEF Cong

\* and transitive.
LEMMA CongTrans ==
  ASSUME NEW n \in Nat \ {0}, NEW a \in Int, NEW b \in Int, NEW c \in Int,
         Cong(a, b, n), Cong(b, c, n)
  PROVE  Cong(a, c, n)
<1>1. PICK q \in Int : a = b + n * q
      BY DEF Cong
<1>2. PICK r \in Int : b = c + n * r
      BY DEF Cong
<1>3. n * (r + q) = n * r + n * q /\ n * r \in Int /\ n * q \in Int /\ r + q \in Int
      BY Z3
<1>4. a = c + n * (r + q)
      BY <1>1, <1>2, <1>3
<1> QED
  BY <1>3, <1>4 DEF Cong

\* Only the difference matters.
LEMMA CongShift ==
  ASSUME NEW n \in Nat \ {0}, NEW a \in Int, NEW b \in Int, NEW x \in Int, NEW y \in Int,
         Cong(a, b, n), x - y = a - b
  PROVE  Cong(x, y, n)
<1>1. PICK q \in Int : a = b + n * q
      BY DEF Cong
<1>2. n * q \in Int
      OBVIOUS
<1>3. x = y + n * q
      BY <1>1, <1>2
<1> QED
  BY <1>3 DEF Cong

\* Two numbers at the same place of one turn are the same.
LEMMA CongSame ==
  ASSUME NEW n \in Nat \ {0}, NEW a \in Int, NEW b \in Int, Cong(a, b, n), a - b < n, b - a < n
  PROVE  a = b
<1>1. PICK q \in Int : a = b + n * q
      BY DEF Cong
<1>2. n * q \in Int
      OBVIOUS
<1>3. CASE q >= 1
  <2>1. PICK d \in Nat : q = 1 + d
    <3>1. q - 1 \in Nat
          BY <1>3
    <3> QED
          BY <3>1
  <2>2. n * (1 + d) = n + n * d /\ n * d \in Nat
        BY Z3
  <2> QED
        BY <1>1, <2>1, <2>2
<1>4. CASE q <= -1
  <2>1. PICK d \in Nat : q = -1 - d
    <3>1. -1 - q \in Nat
          BY <1>4
    <3>2. q = -1 - (-1 - q)
          OBVIOUS
    <3> QED
          BY <3>1, <3>2
  <2>2. n * (-1 - d) = -n - n * d /\ n * d \in Nat
        BY Z3
  <2> QED
        BY <1>1, <2>1, <2>2
<1>5. CASE q = 0
      BY <1>1, <1>5
<1> QED
  BY <1>3, <1>4, <1>5

\* A number is congruent to its remainder.
LEMMA CongMod ==
  ASSUME NEW n \in Nat \ {0}, NEW a \in Int
  PROVE  a % n \in 0 .. n - 1 /\ Cong(a % n, a, n) /\ Cong(a, a % n, n)
<1>1. a % n \in 0 .. n - 1 /\ a \div n \in Int /\ a = n * (a \div n) + (a % n)
      BY Z3
<1>2. PICK q \in Int : q = a \div n
      BY <1>1
<1>3. n * q \in Int /\ a = (a % n) + n * q
      BY <1>1, <1>2
<1>4. Cong(a, a % n, n)
      BY <1>3 DEF Cong
<1>5. a % n \in Int
      BY <1>1
<1> QED
  BY <1>1, <1>4, <1>5, CongSym

\* A ring that n goes round a whole number of times.
LEMMA CongDown ==
  ASSUME NEW n \in Nat \ {0}, NEW m \in Nat \ {0}, NEW a \in Int, NEW b \in Int,
         Cong(n, 0, m), Cong(a, b, n)
  PROVE  Cong(a, b, m)
<1>1. PICK q \in Int : a = b + n * q
      BY DEF Cong
<1>2. PICK r \in Int : n = 0 + m * r
      BY DEF Cong
<1>3. n * q = m * (r * q) /\ r * q \in Int
  <2>1. n = m * r
        BY <1>2
  <2>2. (m * r) * q = m * (r * q) /\ r * q \in Int
        BY Z3
  <2> QED
        BY <2>1, <2>2
<1> QED
  BY <1>1, <1>3 DEF Cong

\* The one at the same place of the turn that starts at low.
LEMMA CongRange ==
  ASSUME NEW n \in Nat \ {0}, NEW low \in Int, NEW v \in 0 .. n,
         NEW a \in low .. low + v - 1, NEW b \in low .. low + v - 1, Cong(a, b, n)
  PROVE  a = b
BY CongSame

-------------------------------------------------------------------------------
(* Rings *)

IsRing(h, n) == n \in Nat \ {0} /\ h \in [tail : 0 .. n - 1, index : [0 .. n - 1 -> Nat]]

\* What the parts of a ring are.
LEMMA RingFacts ==
  ASSUME NEW h, NEW n, IsRing(h, n)
  PROVE  /\ n \in Nat \ {0} /\ h.tail \in 0 .. n - 1
         /\ DOMAIN h.index = 0 .. n - 1 /\ Capacity(h) = n
         /\ h \in Headers
<1>1. n \in Nat \ {0} /\ h.tail \in 0 .. n - 1 /\ DOMAIN h.index = 0 .. n - 1
      BY DEF IsRing
<1>2. Cardinality(0 .. n - 1) = n
  <2>1. 0 \in Int /\ n - 1 \in Int
        BY <1>1
  <2>2. Cardinality(0 .. n - 1) = IF 0 > n - 1 THEN 0 ELSE (n - 1) - 0 + 1
        BY <2>1, FS_Interval
  <2> QED
        BY <1>1, <2>2
<1>3. h \in Headers
      BY DEF IsRing, Headers
<1> QED
  BY <1>1, <1>2, <1>3 DEF Capacity

\* Every header is a ring of some size.
LEMMA HeaderRing ==
  ASSUME NEW h \in Headers
  PROVE  \E n \in Nat \ {0} : IsRing(h, n)
BY DEF Headers, IsRing

\* A ring whose tail has moved is a ring.
LEMMA TailStored ==
  ASSUME NEW h, NEW n, IsRing(h, n), NEW p \in 0 .. n - 1
  PROVE  /\ IsRing([h EXCEPT !.tail = p], n)
         /\ [h EXCEPT !.tail = p].tail = p /\ [h EXCEPT !.tail = p].index = h.index
BY DEF IsRing

\* The used places of a ring are in the order of their blocks.
Ordered(h, nums) ==
  \E off \in Nat : \A p \in DOMAIN h.index :
    nums[h.index[p]] # -1 => Cong(nums[h.index[p]], p + off, Capacity(h))

\* In an ordered ring, congruent numbers are at one place.
LEMMA SamePlace ==
  ASSUME NEW h, NEW n, IsRing(h, n), NEW nums, Ordered(h, nums),
         \A p \in DOMAIN h.index : nums[h.index[p]] \in Int,
         NEW p \in DOMAIN h.index, NEW q \in DOMAIN h.index,
         nums[h.index[p]] # -1, nums[h.index[q]] # -1,
         Cong(nums[h.index[p]], nums[h.index[q]], n)
  PROVE  p = q
<1>1. n \in Nat \ {0} /\ p \in 0 .. n - 1 /\ q \in 0 .. n - 1 /\ Capacity(h) = n
      BY RingFacts
<1>2. PICK off \in Nat : /\ Cong(nums[h.index[p]], p + off, n)
                         /\ Cong(nums[h.index[q]], q + off, n)
      BY <1>1 DEF Ordered
<1>3. PICK i \in Int : i = nums[h.index[p]]
      OBVIOUS
<1>4. PICK j \in Int : j = nums[h.index[q]]
      OBVIOUS
<1>5. p + off \in Int /\ q + off \in Int
      BY <1>1
<1>6. Cong(p + off, i, n)
      BY <1>1, <1>2, <1>3, <1>5, CongSym
<1>7. Cong(p + off, j, n)
      BY <1>1, <1>3, <1>4, <1>5, <1>6, CongTrans
<1>8. Cong(p + off, q + off, n)
      BY <1>1, <1>2, <1>4, <1>5, <1>7, CongTrans
<1>9. (p + off) - (q + off) = p - q /\ p \in Int /\ q \in Int
      BY <1>1
<1>10. Cong(p, q, n)
      BY <1>1, <1>5, <1>8, <1>9, CongShift
<1>11. p - q < n /\ q - p < n
      BY <1>1
<1> QED
  BY <1>1, <1>9, <1>10, <1>11, CongSame

\* From the place mark of one block to the place p of another.
LEMMA SeekPlace ==
  ASSUME NEW h, NEW n, IsRing(h, n), NEW nums, Ordered(h, nums),
         \A p \in DOMAIN h.index : nums[h.index[p]] \in Int,
         NEW mark \in DOMAIN h.index, NEW p \in DOMAIN h.index,
         nums[h.index[mark]] # -1, nums[h.index[p]] # -1
  PROVE  (mark + (nums[h.index[p]] - nums[h.index[mark]])) % n = p
<1>1. n \in Nat \ {0} /\ p \in 0 .. n - 1 /\ mark \in 0 .. n - 1 /\ Capacity(h) = n
      BY RingFacts
<1>2. PICK off \in Nat : /\ Cong(nums[h.index[p]], p + off, n)
                         /\ Cong(nums[h.index[mark]], mark + off, n)
      BY <1>1 DEF Ordered
<1>3. PICK k \in Int : k = nums[h.index[p]]
      OBVIOUS
<1>4. PICK m \in Int : m = nums[h.index[mark]]
      OBVIOUS
<1>5. PICK x \in Int : x = mark + (k - m)
      BY <1>1
<1>6. Cong(k - off, p, n)
  <2>1. p + off \in Int /\ k - off \in Int /\ p \in Int /\ (k - off) - p = k - (p + off)
        BY <1>1
  <2> QED
        BY <1>1, <1>2, <1>3, <2>1, CongShift
<1>7. Cong(k - off, x, n)
  <2>1. mark + off \in Int /\ k - off \in Int /\ (k - off) - x = m - (mark + off)
        BY <1>1, <1>5
  <2> QED
        BY <1>1, <1>2, <1>4, <2>1, CongShift
<1>8. x % n \in 0 .. n - 1 /\ Cong(x, x % n, n)
      BY <1>1, CongMod
<1>9. Cong(k - off, x % n, n)
      BY <1>1, <1>7, <1>8, CongTrans
<1>10. Cong(p, k - off, n)
      BY <1>1, <1>6, CongSym
<1>11. Cong(p, x % n, n)
      BY <1>1, <1>8, <1>9, <1>10, CongTrans
<1>12. p = x % n
  <2>1. PICK z \in 0 .. n - 1 : z = x % n
        BY <1>8
  <2>2. Cong(p, z, n)
        BY <1>11, <2>1
  <2>3. p - z < n /\ z - p < n /\ z \in Int /\ p \in Int
        BY <1>1
  <2>4. p = z
        BY <1>1, <2>2, <2>3, CongSame
  <2> QED
        BY <2>1, <2>4
<1> QED
  BY <1>3, <1>4, <1>5, <1>12

\* From the place mark, whose block is congruent to the one before, to p.
LEMMA NextPlace ==
  ASSUME NEW h, NEW n, IsRing(h, n), NEW nums, Ordered(h, nums),
         \A p \in DOMAIN h.index : nums[h.index[p]] \in Int,
         NEW mark \in DOMAIN h.index, NEW p \in DOMAIN h.index,
         nums[h.index[mark]] # -1, nums[h.index[p]] # -1,
         Cong(nums[h.index[mark]] + 1, nums[h.index[p]], n)
  PROVE  (mark + 1) % n = p
<1>1. n \in Nat \ {0} /\ p \in 0 .. n - 1 /\ mark \in 0 .. n - 1 /\ Capacity(h) = n
      BY RingFacts
<1>2. PICK off \in Nat : /\ Cong(nums[h.index[p]], p + off, n)
                         /\ Cong(nums[h.index[mark]], mark + off, n)
      BY <1>1 DEF Ordered
<1>3. PICK k \in Int : k = nums[h.index[p]]
      OBVIOUS
<1>4. PICK m \in Int : m = nums[h.index[mark]]
      OBVIOUS
<1>5. PICK x \in Int : x = mark + 1
      BY <1>1
<1>6. Cong(m + 1, x + off, n)
  <2>1. mark + off \in Int /\ x + off \in Int /\ (m + 1) - (x + off) = m - (mark + off)
        BY <1>1, <1>5
  <2> QED
        BY <1>1, <1>2, <1>4, <2>1, CongShift
<1>7. Cong(m + 1, p + off, n)
      BY <1>1, <1>2, <1>3, <1>4, CongTrans
<1>8. Cong(p + off, x + off, n)
  <2>1. Cong(p + off, m + 1, n)
        BY <1>1, <1>7, CongSym
  <2> QED
        BY <1>1, <1>6, <2>1, CongTrans
<1>9. Cong(p, x, n)
  <2>1. p + off \in Int /\ x + off \in Int
        BY <1>1
  <2>2. p \in Int /\ p - x = (p + off) - (x + off)
        BY <1>1
  <2> QED
        BY <1>1, <1>8, <2>1, <2>2, CongShift
<1>10. x % n \in 0 .. n - 1 /\ Cong(x, x % n, n)
      BY <1>1, CongMod
<1>11. Cong(p, x % n, n)
      BY <1>1, <1>9, <1>10, CongTrans
<1>12. p = x % n
  <2>1. PICK z \in 0 .. n - 1 : z = x % n
        BY <1>10
  <2>2. Cong(p, z, n)
        BY <1>11, <2>1
  <2>3. p - z < n /\ z - p < n /\ z \in Int /\ p \in Int
        BY <1>1
  <2>4. p = z
        BY <1>1, <2>2, <2>3, CongSame
  <2> QED
        BY <2>1, <2>4
<1> QED
  BY <1>5, <1>12

\* The place of block y in the newest ring, or where it comes next.
LEMMA FilledPlace ==
  ASSUME NEW h, NEW n, IsRing(h, n), NEW nums, NEW t \in Int,
         NEW v \in 0 .. n, NEW low \in Nat, NEW off \in Nat, Filled(h, nums, t, v, low, off),
         NEW x \in 0 .. n - 1, NEW y \in low .. low + v, Cong(y, x + off, n)
  PROVE  /\ y < low + v => x < v /\ nums[h.index[x]] = y
         /\ y = low + v /\ v < n => x = v
         /\ v = n => x < v
         /\ y = low + v /\ v = n => nums[h.index[x]] = low
<1>1. n \in Nat \ {0} /\ DOMAIN h.index = 0 .. n - 1 /\ Capacity(h) = n
      BY RingFacts
<1>2. ASSUME v < n
      PROVE  x = y - low
  <2>1. Cong(low, off, n)
        BY <1>1, <1>2 DEF Filled
  <2>2. x \in Int /\ x + off \in Int /\ low + x \in Int /\ (x + off) - (low + x) = off - low
        BY <1>1
  <2>a. low \in Int /\ off \in Int /\ y \in Int
        OBVIOUS
  <2>3. Cong(off, low, n)
        BY <1>1, <2>1, <2>a, CongSym
  <2>4. Cong(x + off, low + x, n)
        BY <1>1, <2>2, <2>3, CongShift
  <2>5. Cong(y, low + x, n)
        BY <1>1, <2>2, <2>4, CongTrans
  <2>6. PICK z \in Int : z = low + x
        BY <2>2
  <2>7. Cong(y, z, n) /\ y - z < n /\ z - y < n
        BY <1>1, <1>2, <2>5, <2>6
  <2>8. y = z
        BY <1>1, <2>a, <2>7, CongSame
  <2> QED
        BY <2>2, <2>6, <2>8
<1>3. ASSUME x < v
      PROVE  /\ nums[h.index[x]] \in low .. low + v - 1
             /\ Cong(nums[h.index[x]], y, n)
  <2>1. nums[h.index[x]] \in low .. low + v - 1 /\ Cong(nums[h.index[x]], x + off, n)
        BY <1>1, <1>3 DEF Filled
  <2>2. x + off \in Int /\ y \in Int
        BY <1>1
  <2>3. Cong(x + off, y, n)
        BY <1>1, <2>2, CongSym
  <2> QED
        BY <1>1, <2>1, <2>2, <2>3, CongTrans
<1>4. y < low + v => x < v
      BY <1>1, <1>2
<1>5. ASSUME y < low + v
      PROVE  nums[h.index[x]] = y
  <2>1. y \in low .. low + v - 1
        BY <1>5
  <2> QED
        BY <1>1, <1>3, <1>4, <1>5, <2>1, CongRange, SMTT(30)
<1>6. ASSUME y = low + v, v = n
      PROVE  nums[h.index[x]] = low
  <2>1. Cong(y, low, n)
        BY <1>1, <1>6, CongRefl
  <2>2. Cong(nums[h.index[x]], low, n)
        BY <1>1, <1>3, <1>6, <2>1, CongTrans
  <2>3. low \in low .. low + v - 1 /\ v \in 0 .. n
        BY <1>1, <1>6
  <2> QED
        BY <1>1, <1>3, <1>6, <2>2, <2>3, CongRange, SMTT(30)
<1> QED
  BY <1>2, <1>4, <1>5, <1>6

\* The numbers of entries, and rings of them.
Numbers(nums, N) == N \in Nat /\ nums \in [1 .. N -> Int]
RingOver(h, n, N) == IsRing(h, n) /\ \A p \in 0 .. n - 1 : h.index[p] \in 1 .. N

\* The numbers at the places of a ring are numbers.
LEMMA NumberAt ==
  ASSUME NEW h, NEW n, NEW N, RingOver(h, n, N), NEW nums, Numbers(nums, N)
  PROVE  /\ DOMAIN h.index = 0 .. n - 1 /\ Capacity(h) = n /\ n \in Nat \ {0}
         /\ \A p \in 0 .. n - 1 : h.index[p] \in 1 .. N /\ nums[h.index[p]] \in Int
         /\ \A p \in DOMAIN h.index : h.index[p] \in DOMAIN nums /\ nums[h.index[p]] \in Int
BY RingFacts DEF RingOver, Numbers

\* The newest ring is ordered,
LEMMA NewestOrdered ==
  ASSUME NEW h, NEW n, IsRing(h, n), NEW nums, NEW t, NewestRing(h, nums, t)
  PROVE  Ordered(h, nums)
<1>1. PICK v \in 0 .. Capacity(h), low \in Nat, off \in Nat : Filled(h, nums, t, v, low, off)
      BY DEF NewestRing
<1>2. \A p \in DOMAIN h.index : nums[h.index[p]] # -1 => Cong(nums[h.index[p]], p + off, Capacity(h))
      BY <1>1 DEF Filled
<1> QED
  BY <1>2 DEF Ordered

\* and so are the older ones.
LEMMA OlderOrdered ==
  ASSUME NEW g, NEW h, NEW nums, OlderRing(g, h, nums)
  PROVE  Ordered(g, nums)
BY DEF OlderRing, Ordered

\* No two entries are for the same block.
LEMMA OneEntry ==
  ASSUME NEW h, NEW n, NEW N, RingOver(h, n, N), NEW nums, Numbers(nums, N), NEW t,
         NewestRing(h, nums, t), NEW e \in 1 .. N, NEW f \in 1 .. N, nums[e] = nums[f], nums[e] # -1
  PROVE  e = f
<1>1. DOMAIN nums = 1 .. N
      BY DEF Numbers
<1>2. PICK p \in DOMAIN h.index : h.index[p] = e
      BY <1>1 DEF NewestRing
<1>3. PICK q \in DOMAIN h.index : h.index[q] = f
      BY <1>1 DEF NewestRing
<1>4. Ordered(h, nums) /\ IsRing(h, n)
      BY NewestOrdered DEF RingOver
<1>5. n \in Nat \ {0} /\ \A z \in DOMAIN h.index : nums[h.index[z]] \in Int
      BY NumberAt
<1>6. Cong(nums[h.index[p]], nums[h.index[q]], n)
      BY <1>2, <1>3, <1>5, CongRefl
<1>7. p = q
      BY <1>2, <1>3, <1>4, <1>5, <1>6, SamePlace
<1> QED
  BY <1>2, <1>3, <1>7

\* The tail moves with the block it stands for.
LEMMA TailMoves ==
  ASSUME NEW h, NEW n, NEW N, RingOver(h, n, N), NEW nums, Numbers(nums, N),
         NEW t \in Int, NewestRing(h, nums, t), NEW u \in Int, NEW p \in 0 .. n - 1,
         Cong(p - h.tail, u - t, n),
         NEW e \in 1 .. N, nums[e] # -1, nums[e] = u \/ nums[e] = u + 1
  PROVE  NewestRing([h EXCEPT !.tail = p], nums, u)
<1>1. /\ DOMAIN h.index = 0 .. n - 1 /\ Capacity(h) = n /\ n \in Nat \ {0} /\ IsRing(h, n)
      /\ DOMAIN nums = 1 .. N /\ h.tail \in 0 .. n - 1
      BY NumberAt, RingFacts DEF RingOver, Numbers
<1>2. PICK k : k = [h EXCEPT !.tail = p]
      OBVIOUS
<1>3. k.tail = p /\ k.index = h.index /\ Capacity(k) = n
      BY <1>1, <1>2, TailStored DEF Capacity
<1>4. PICK v \in 0 .. n, low \in Nat, off \in Nat : Filled(h, nums, t, v, low, off)
      BY <1>1 DEF NewestRing
<1>5. PICK q \in 0 .. n - 1 : h.index[q] = e
      BY <1>1 DEF NewestRing
<1>6. nums[e] \in low .. low + v - 1
      BY <1>1, <1>4, <1>5 DEF Filled
<1>7. u \in low - 1 .. low + v - 1
      BY <1>6
<1>8. Cong(u, p + off, n)
  <2>1. PICK a \in 0 .. n - 1 : a = h.tail
        BY <1>1
  <2>2. Cong(t, a + off, n) /\ Cong(p - a, u - t, n)
        BY <1>1, <1>4, <2>1 DEF Filled
  <2>3. p \in Int /\ a \in Int /\ off \in Int
        BY <1>1
  <2>4. PICK b \in Int : b = u + a + off - t
        BY <2>3
  <2>5. Cong(u, b, n)
    <3>1. a + off \in Int /\ u - b = t - (a + off)
          BY <2>3, <2>4
    <3> QED
          BY <1>1, <2>2, <3>1, CongShift
  <2>6. Cong(b, p + off, n)
    <3>1. u - t \in Int /\ p - a \in Int /\ p + off \in Int
          BY <2>3
    <3>2. Cong(u - t, p - a, n)
          BY <1>1, <2>2, <3>1, CongSym
    <3>3. b - (p + off) = (u - t) - (p - a)
          BY <2>3, <2>4
    <3> QED
          BY <1>1, <3>1, <3>2, <3>3, CongShift
  <2>7. p + off \in Int
        BY <2>3
  <2> QED
        BY <1>1, <2>5, <2>6, <2>7, CongTrans
<1>9. Filled(k, nums, u, v, low, off)
      BY <1>1, <1>3, <1>4, <1>7, <1>8 DEF Filled
<1>10. NewestRing(k, nums, u)
      BY <1>1, <1>3, <1>9 DEF NewestRing
<1> QED
  BY <1>2, <1>10

\* Entries that are filled again move on by whole rings.
NumsMove(nums, ms, n, N) ==
  \A e \in 1 .. N : nums[e] # -1 => ms[e] # -1 /\ Cong(ms[e], nums[e], n)

\* An older ring stays one when entries are filled again a whole newer ring on.
LEMMA OlderMoves ==
  ASSUME NEW g, NEW m, NEW N, RingOver(g, m, N), NEW nums, Numbers(nums, N),
         NEW h, NEW n \in Nat \ {0}, Capacity(h) = n, OlderRing(g, h, nums),
         NEW ms, Numbers(ms, N), NumsMove(nums, ms, n, N)
  PROVE  OlderRing(g, h, ms)
<1>1. DOMAIN g.index = 0 .. m - 1 /\ Capacity(g) = m /\ m \in Nat \ {0}
      BY NumberAt
<1>2. PICK off \in Nat : \A p \in 0 .. m - 1 : Cong(nums[g.index[p]], p + off, m)
      BY <1>1 DEF OlderRing
<1>3. ASSUME NEW p \in 0 .. m - 1
      PROVE  ms[g.index[p]] # -1 /\ Cong(ms[g.index[p]], p + off, m)
  <2>1. PICK e \in 1 .. N : e = g.index[p]
        BY NumberAt
  <2>2. nums[e] # -1 /\ nums[e] \in Int /\ ms[e] \in Int
        BY <1>1, <2>1 DEF OlderRing, Numbers
  <2>3. ms[e] # -1 /\ Cong(ms[e], nums[e], n)
        BY <2>2 DEF NumsMove
  <2>4. Cong(n, 0, m)
        BY <1>1 DEF OlderRing
  <2>5. Cong(ms[e], nums[e], m)
        BY <1>1, <2>2, <2>3, <2>4, CongDown
  <2>6. Cong(nums[e], p + off, m) /\ p + off \in Int
        BY <1>2, <2>1
  <2>7. Cong(ms[e], p + off, m)
        BY <1>1, <2>2, <2>5, <2>6, CongTrans
  <2> QED
        BY <2>1, <2>3, <2>7
<1> QED
  BY <1>1, <1>3 DEF OlderRing

\* The place after the tail is that of the next block.
LEMMA NextTail ==
  ASSUME NEW h, NEW n, IsRing(h, n), NEW nums, NEW t \in Int, NEW v, NEW low, NEW off \in Nat,
         Filled(h, nums, t, v, low, off), NEW x \in 0 .. n - 1, Cong(x - h.tail, 1, n)
  PROVE  Cong(t + 1, x + off, n)
<1>1. n \in Nat \ {0} /\ Capacity(h) = n /\ h.tail \in 0 .. n - 1
      BY RingFacts
<1>2. PICK a \in 0 .. n - 1 : a = h.tail
      BY <1>1
<1>3. Cong(t, a + off, n) /\ Cong(x - a, 1, n)
      BY <1>1, <1>2 DEF Filled
<1>4. x \in Int /\ a \in Int /\ off \in Int
      BY <1>1
<1>5. a + off \in Int /\ a + off + 1 \in Int /\ x + off \in Int /\ x - a \in Int /\ t + 1 \in Int
      BY <1>4
<1>6. Cong(t + 1, a + off + 1, n)
  <2>1. (t + 1) - (a + off + 1) = t - (a + off)
        BY <1>4
  <2> QED
        BY <1>1, <1>3, <1>5, <2>1, CongShift
<1>7. Cong(a + off + 1, x + off, n)
  <2>1. Cong(1, x - a, n)
        BY <1>1, <1>3, <1>5, CongSym
  <2>2. (a + off + 1) - (x + off) = 1 - (x - a)
        BY <1>4
  <2> QED
        BY <1>1, <1>5, <2>1, <2>2, CongShift
<1> QED
  BY <1>1, <1>5, <1>6, <1>7, CongTrans

\* The key of the next block is stored in the place after the tail.
LEMMA KeyStored ==
  ASSUME NEW h, NEW n, NEW N, RingOver(h, n, N), NEW nums, Numbers(nums, N),
         NEW t \in Int, NewestRing(h, nums, t), NEW x \in 0 .. n - 1, Cong(x - h.tail, 1, n),
         NEW ms, ms = [nums EXCEPT ![h.index[x]] = t + 1]
  PROVE  NewestRing(h, ms, t) /\ NumsMove(nums, ms, n, N) /\ Numbers(ms, N)
<1>1. /\ DOMAIN h.index = 0 .. n - 1 /\ Capacity(h) = n /\ n \in Nat \ {0} /\ IsRing(h, n)
      /\ DOMAIN nums = 1 .. N /\ DOMAIN ms = 1 .. N
      /\ \A p \in 0 .. n - 1 : h.index[p] \in 1 .. N /\ nums[h.index[p]] \in Int
      BY NumberAt DEF RingOver, Numbers
<1>2. PICK v \in 0 .. n, low \in Nat, off \in Nat : Filled(h, nums, t, v, low, off)
      BY <1>1 DEF NewestRing
<1>3. PICK e \in 1 .. N : e = h.index[x]
      BY <1>1
<1>4. PICK y \in Int : y = t + 1
      OBVIOUS
<1>5. /\ ms[e] = y /\ \A f \in 1 .. N : f # e => ms[f] = nums[f]
      /\ \A p \in 0 .. n - 1 : p # x => ms[h.index[p]] = nums[h.index[p]]
  <2>1. \A p \in 0 .. n - 1 : h.index[p] = e => p = x
        BY <1>1, <1>3 DEF NewestRing
  <2> QED
        BY <1>1, <1>3, <1>4, <2>1 DEF Numbers
<1>6. y \in low .. low + v
      BY <1>1, <1>2, <1>4 DEF Filled
<1>7. Cong(y, x + off, n)
      BY <1>1, <1>2, <1>4, NextTail
<1>8. /\ y < low + v => x < v /\ nums[e] = y
      /\ y = low + v /\ v < n => x = v
      /\ v = n => x < v
      /\ y = low + v /\ v = n => nums[e] = low
  <2>1. IsRing(h, n)
        BY <1>1
  <2>2. /\ y < low + v => x < v /\ nums[h.index[x]] = y
        /\ y = low + v /\ v < n => x = v
        /\ v = n => x < v
        /\ y = low + v /\ v = n => nums[h.index[x]] = low
        BY <2>1, <1>2, <1>6, <1>7, FilledPlace
  <2> QED
        BY <2>2, <1>3
<1>0. n \in Nat /\ n > 0 /\ v \in Nat /\ v <= n
      BY <1>1
<1>9. NewestRing(h, ms, t)
  <2>1. SUFFICES \E w \in 0 .. n, l \in Nat, o \in Nat : Filled(h, ms, t, w, l, o)
        BY <1>1 DEF NewestRing
  <2>2. CASE y < low + v
    <3>1. \A p \in 0 .. n - 1 : ms[h.index[p]] = nums[h.index[p]]
          BY <1>3, <1>5, <1>8, <2>2
    <3>2. Filled(h, ms, t, v, low, off)
          BY <1>1, <1>2, <3>1 DEF Filled
    <3> QED
          BY <3>2
  <2>3. CASE y = low + v /\ v < n
    <3>1. x = v
          BY <1>8, <2>3
    <3>2. ASSUME NEW p \in 0 .. n - 1
          PROVE  IF p < v + 1 THEN /\ ms[h.index[p]] \in low .. low + v
                                   /\ Cong(ms[h.index[p]], p + off, n)
                              ELSE ms[h.index[p]] = -1
      <4>1. CASE p = x
            BY <1>3, <1>5, <1>7, <2>3, <3>1, <4>1
      <4>2. CASE p # x
        <5>1. ms[h.index[p]] = nums[h.index[p]]
              BY <1>5, <4>2
        <5>2. IF p < v THEN nums[h.index[p]] \in low .. low + v - 1 /\ Cong(nums[h.index[p]], p + off, n)
                       ELSE nums[h.index[p]] = -1
              BY <1>1, <1>2 DEF Filled
        <5>3. p < v + 1 <=> p < v
              BY <3>1, <4>2
        <5>4. \A i \in low .. low + v - 1 : i \in low .. low + v
              OBVIOUS
        <5> QED
              BY <5>1, <5>2, <5>3, <5>4
      <4> QED
            BY <4>1, <4>2
    <3>3. PICK w \in 0 .. n : w = v + 1
          BY <1>0, <2>3
    <3>4. low + w - 1 = low + v
          BY <3>3
    <3>5. t \in low - 1 .. low + w - 1 /\ Cong(t, h.tail + off, n) /\ Cong(low, off, n)
      <4>1. t \in low - 1 .. low + v - 1 /\ Cong(t, h.tail + off, n) /\ Cong(low, off, n)
            BY <1>1, <1>2, <2>3 DEF Filled
      <4> QED
            BY <3>4, <4>1
    <3>6. Filled(h, ms, t, w, low, off)
          BY <1>1, <3>2, <3>3, <3>4, <3>5 DEF Filled
    <3> QED
          BY <3>6
  <2>4. CASE y = low + v /\ v = n
    <3>1. nums[e] = low
          BY <1>8, <2>4
    <3>2. ASSUME NEW p \in 0 .. n - 1
          PROVE  ms[h.index[p]] \in low + 1 .. low + n /\ Cong(ms[h.index[p]], p + off, n)
      <4>1. CASE p = x
        <5>1. y \in low + 1 .. low + n
              BY <1>1, <2>4
        <5> QED
              BY <1>3, <1>5, <1>7, <4>1, <5>1
      <4>2. CASE p # x
        <5>1. ms[h.index[p]] = nums[h.index[p]]
              BY <1>5, <4>2
        <5>2. nums[h.index[p]] \in low .. low + n - 1 /\ Cong(nums[h.index[p]], p + off, n)
          <6>1. p < v
                BY <1>0, <2>4
          <6>2. nums[h.index[p]] \in low .. low + v - 1 /\ Cong(nums[h.index[p]], p + off, n)
                BY <1>1, <1>2, <6>1 DEF Filled
          <6> QED
                BY <2>4, <6>2
        <5>3. nums[h.index[p]] # low
          <6>1. SUFFICES ASSUME nums[h.index[p]] = low
                         PROVE  FALSE
                OBVIOUS
          <6>2. h.index[p] = e
            <7>1. h.index[p] \in 1 .. N /\ low # -1 /\ nums[e] = nums[h.index[p]] /\ nums[e] # -1
                  BY <1>1, <3>1, <6>1
            <7> QED
                  BY <7>1, OneEntry
          <6> QED
                BY <1>1, <1>3, <4>2, <6>2 DEF NewestRing
        <5>4. nums[h.index[p]] \in low + 1 .. low + n
              BY <1>0, <5>2, <5>3
        <5> QED
              BY <5>1, <5>2, <5>4
      <4> QED
            BY <4>1, <4>2
    <3>3. PICK l \in Nat : l = low + 1
          OBVIOUS
    <3>4. l + n - 1 = low + n
          BY <1>1, <3>3
    <3>5. t \in l - 1 .. l + n - 1 /\ Cong(t, h.tail + off, n)
      <4>1. Cong(t, h.tail + off, n)
            BY <1>1, <1>2 DEF Filled
      <4>2. t = low + n - 1
            BY <1>0, <1>4, <2>4
      <4> QED
            BY <1>1, <3>3, <3>4, <4>1, <4>2
    <3>6. Filled(h, ms, t, n, l, off)
      <4>1. \A p \in DOMAIN h.index :
              IF p < n THEN ms[h.index[p]] \in l .. l + n - 1 /\ Cong(ms[h.index[p]], p + off, Capacity(h))
                       ELSE ms[h.index[p]] = -1
        <5> SUFFICES ASSUME NEW p \in 0 .. n - 1
                     PROVE  IF p < n THEN ms[h.index[p]] \in l .. l + n - 1 /\ Cong(ms[h.index[p]], p + off, n)
                                     ELSE ms[h.index[p]] = -1
            BY <1>1
        <5>1. p < n
              BY <1>0
        <5> QED
              BY <3>2, <3>3, <3>4, <5>1
      <4>2. ~ (n < Capacity(h))
            BY <1>1, <1>0
      <4> QED
            BY <1>1, <3>5, <4>1, <4>2 DEF Filled
    <3>7. n \in 0 .. n
          BY <1>0
    <3> QED
          BY <3>6, <3>7
  <2> QED
    <3>1. y < low + v \/ y = low + v
          BY <1>0, <1>6
    <3>2. v < n \/ v = n
          BY <1>0
    <3> QED
          BY <2>2, <2>3, <2>4, <3>1, <3>2
<1>10. NumsMove(nums, ms, n, N)
  <2>1. SUFFICES ASSUME NEW f \in 1 .. N, nums[f] # -1
                 PROVE  ms[f] # -1 /\ Cong(ms[f], nums[f], n)
        BY DEF NumsMove
  <2>2. nums[f] \in Int
        BY DEF Numbers
  <2>3. CASE f # e
        BY <1>1, <1>5, <2>1, <2>2, <2>3, CongRefl
  <2>4. CASE f = e
    <3>1. x < v
      <4>1. IF x < v THEN TRUE ELSE nums[h.index[x]] = -1
            BY <1>1, <1>2 DEF Filled
      <4> QED
            BY <1>3, <2>1, <2>4, <4>1
    <3>2. CASE y < low + v
          BY <1>1, <1>5, <1>8, <2>1, <2>4, <3>2, CongRefl
    <3>3. CASE y = low + v
      <4>1. v = n
            BY <1>1, <1>8, <3>1, <3>3
      <4>2. nums[e] = low /\ ms[e] = low + n
            BY <1>5, <1>8, <3>3, <4>1
      <4>3. low \in Int /\ low + n # -1
            BY <1>1
      <4>4. Cong(low + n, low, n)
            BY <1>1, <4>3, CongRefl
      <4> QED
            BY <2>4, <4>2, <4>3, <4>4
    <3> QED
          BY <1>6, <3>2, <3>3
  <2> QED
        BY <2>3, <2>4
<1>11. Numbers(ms, N)
      BY <1>3, <1>4 DEF Numbers
<1> QED
  BY <1>9, <1>10, <1>11

\* The ring of twice the size: k, of which the places below n are those of h
\* from the one after the tail on.
Doubles(k, h, n, N) ==
  /\ IsRing(k, 2 * n) /\ k.tail = n - 1
  /\ \A i \in 0 .. n - 1 : k.index[i] = h.index[(h.tail + 1 + i) % n]
  /\ \A i \in n .. 2 * n - 1 : k.index[i] = N + i - n + 1

\* A ring twice as large is a ring over the old entries and the new.
LEMMA DoubleOver ==
  ASSUME NEW h, NEW n, NEW N \in Nat, RingOver(h, n, N), NEW k, Doubles(k, h, n, N)
  PROVE  RingOver(k, 2 * n, N + n) /\ 2 * n \in Nat \ {0} /\ Capacity(k) = 2 * n
<1>1. /\ n \in Nat \ {0} /\ h.tail \in 0 .. n - 1 /\ \A p \in 0 .. n - 1 : h.index[p] \in 1 .. N
      BY RingFacts DEF RingOver
<1>2. ASSUME NEW i \in 0 .. 2 * n - 1
      PROVE  k.index[i] \in 1 .. N + n
  <2>1. CASE i < n
    <3>1. PICK a \in Int : a = h.tail + 1 + i
          BY <1>1
    <3>2. a % n \in 0 .. n - 1
          BY <1>1, CongMod
    <3>3. k.index[i] = h.index[a % n]
          BY <1>1, <2>1, <3>1 DEF Doubles
    <3>4. k.index[i] \in 1 .. N
          BY <1>1, <3>2, <3>3
    <3> QED
          BY <1>1, <3>4
  <2>2. CASE i >= n
    <3>1. k.index[i] = N + i - n + 1
          BY <1>1, <2>2 DEF Doubles
    <3> QED
          BY <1>1, <2>2, <3>1
  <2> QED
        BY <1>1, <2>1, <2>2
<1>3. IsRing(k, 2 * n)
      BY DEF Doubles
<1> QED
  BY <1>2, <1>3, RingFacts DEF RingOver

\* GrowIndex makes a newest ring of the same order, and an older one of the old.
LEMMA RingGrows ==
  ASSUME NEW h, NEW n, NEW N, RingOver(h, n, N), NEW nums, Numbers(nums, N),
         NEW t \in Int, NewestRing(h, nums, t), NEW x \in 0 .. n - 1, Cong(x - h.tail, 1, n),
         nums[h.index[x]] # -1, nums[h.index[x]] # t + 1,
         NEW k, Doubles(k, h, n, N), NEW ms, Numbers(ms, N + n),
         \A e \in 1 .. N : ms[e] = nums[e], \A e \in N + 1 .. N + n : ms[e] = -1
  PROVE  NewestRing(k, ms, t) /\ OlderRing(h, k, ms)
<1>1. /\ DOMAIN h.index = 0 .. n - 1 /\ Capacity(h) = n /\ n \in Nat \ {0} /\ IsRing(h, n)
      /\ DOMAIN nums = 1 .. N /\ N \in Nat /\ h.tail \in 0 .. n - 1
      /\ \A p \in 0 .. n - 1 : h.index[p] \in 1 .. N /\ nums[h.index[p]] \in Int
      BY NumberAt, RingFacts DEF RingOver, Numbers
<1>2. /\ RingOver(k, 2 * n, N + n) /\ Capacity(k) = 2 * n /\ DOMAIN k.index = 0 .. 2 * n - 1
      /\ 2 * n \in Nat \ {0} /\ DOMAIN ms = 1 .. N + n /\ k.tail = n - 1
  <2>1. N \in Nat
        BY <1>1
  <2>2. RingOver(k, 2 * n, N + n) /\ 2 * n \in Nat \ {0} /\ Capacity(k) = 2 * n
        BY <2>1, DoubleOver
  <2>3. IsRing(k, 2 * n) /\ k.tail = n - 1
        BY DEF Doubles
  <2>4. DOMAIN k.index = 0 .. 2 * n - 1
        BY <2>3 DEF IsRing
  <2>5. DOMAIN ms = 1 .. N + n
        BY DEF Numbers
  <2> QED
        BY <2>2, <2>3, <2>4, <2>5
<1>3. PICK v \in 0 .. n, low \in Nat, off \in Nat : Filled(h, nums, t, v, low, off)
      BY <1>1 DEF NewestRing
<1>0. n \in Nat /\ n > 0 /\ v \in Nat /\ v <= n
      BY <1>1
<1>4. v = n /\ t = low + n - 1
  <2>1. PICK y \in Int : y = t + 1
        OBVIOUS
  <2>2. y \in low .. low + v
        BY <1>1, <1>3, <2>1 DEF Filled
  <2>3. Cong(y, x + off, n)
        BY <1>1, <1>3, <2>1, NextTail
  <2>a. IsRing(h, n)
        BY <1>1
  <2>4. /\ y < low + v => x < v /\ nums[h.index[x]] = y
        /\ y = low + v /\ v < n => x = v
        BY <2>a, <1>3, <2>2, <2>3, FilledPlace
  <2>5. y = low + v
        BY <1>0, <2>1, <2>2, <2>4
  <2>6. x < v
    <3>1. IF x < v THEN TRUE ELSE nums[h.index[x]] = -1
          BY <1>1, <1>3 DEF Filled
    <3> QED
          BY <3>1
  <2>7. v = n
        BY <1>0, <2>4, <2>5, <2>6
  <2> QED
        BY <1>0, <2>1, <2>5, <2>7
<1>5. \A p \in 0 .. n - 1 : /\ nums[h.index[p]] \in low .. low + n - 1
                            /\ Cong(nums[h.index[p]], p + off, n)
  <2>1. \A p \in 0 .. n - 1 : p < v
        BY <1>0, <1>4
  <2>2. \A p \in 0 .. n - 1 : /\ nums[h.index[p]] \in low .. low + v - 1
                              /\ Cong(nums[h.index[p]], p + off, n)
        BY <1>1, <1>3, <2>1 DEF Filled
  <2> QED
        BY <1>4, <2>2
<1>6. ASSUME NEW i \in 0 .. n - 1
      PROVE  k.index[i] \in 1 .. N /\ nums[k.index[i]] = low + i
  <2>1. PICK a \in Nat : a = h.tail + 1 + i
        BY <1>1
  <2>b. a \in Int /\ n \in Nat \ {0}
        BY <1>1
  <2>2. a % n \in 0 .. n - 1 /\ Cong(a, a % n, n)
        BY <2>b, CongMod
  <2>3. PICK p \in 0 .. n - 1 : p = a % n
        BY <2>2
  <2>4. k.index[i] = h.index[p]
        BY <2>1, <2>3 DEF Doubles
  <2>5. PICK y \in Int : y = low + i
        BY <1>0
  <2>6. Cong(y, p + off, n)
    <3>1. Cong(t, h.tail + off, n)
          BY <1>1, <1>3 DEF Filled
    <3>2. PICK b \in 0 .. n - 1 : b = h.tail
          BY <1>1
    <3>3. t + 1 + i \in Int /\ a + off \in Int /\ p + off \in Int /\ b + off \in Int /\ p \in Int
          BY <1>1, <2>1
    <3>4. Cong(t + 1 + i, a + off, n)
      <4>0. a = b + 1 + i /\ b \in Int /\ i \in Int
            BY <1>1, <2>1, <3>2
      <4>1. (t + 1 + i) - (a + off) = t - (b + off)
            BY <4>0
      <4>2. Cong(t, b + off, n)
            BY <3>1, <3>2
      <4>3. n \in Nat \ {0} /\ t \in Int /\ b + off \in Int /\ t + 1 + i \in Int /\ a + off \in Int
            BY <1>1, <3>3
      <4> QED
            BY <4>1, <4>2, <4>3, CongShift
    <3>5. Cong(a + off, p + off, n)
      <4>1. Cong(a, p, n)
            BY <2>2, <2>3
      <4>2. (a + off) - (p + off) = a - p
            BY <2>b, <3>3
      <4>3. p \in Int /\ a + off \in Int /\ p + off \in Int
            BY <3>3
      <4> QED
            BY <2>b, <4>1, <4>2, <4>3, CongShift
    <3>6. Cong(t + 1 + i, p + off, n)
          BY <1>1, <3>3, <3>4, <3>5, CongTrans
    <3>7. y = (t + 1 + i) - n
          BY <1>0, <1>4, <2>5
    <3>8. Cong(y, t + 1 + i, n)
          BY <1>1, <3>3, <3>7, CongRefl
    <3> QED
          BY <1>1, <3>3, <3>6, <3>8, CongTrans
  <2>7. y \in low .. low + v /\ y < low + v
        BY <1>0, <1>4, <2>5
  <2>a. IsRing(h, n)
        BY <1>1
  <2>8. nums[h.index[p]] = y
        BY <2>a, <1>3, <2>6, <2>7, FilledPlace
  <2> QED
        BY <1>1, <2>4, <2>5, <2>8
<1>7. \A i \in n .. 2 * n - 1 : k.index[i] = N + i - n + 1
      BY DEF Doubles
<1>8. \A p, q \in 0 .. 2 * n - 1 : k.index[p] = k.index[q] => p = q
  <2>1. SUFFICES ASSUME NEW p \in 0 .. 2 * n - 1, NEW q \in 0 .. 2 * n - 1, k.index[p] = k.index[q]
                 PROVE  p = q
        OBVIOUS
  <2>2. CASE p < n /\ q < n
    <3>1. p \in 0 .. n - 1 /\ q \in 0 .. n - 1
          BY <1>0, <2>2
    <3>2. low + p = low + q
          BY <1>6, <2>1, <3>1
    <3> QED
          BY <3>1, <3>2
  <2>3. CASE p < n /\ q >= n
    <3>1. p \in 0 .. n - 1 /\ q \in n .. 2 * n - 1
          BY <1>0, <2>3
    <3>2. k.index[p] \in 1 .. N /\ k.index[q] = N + q - n + 1
          BY <1>6, <1>7, <3>1
    <3> QED
          BY <1>1, <1>0, <2>1, <3>1, <3>2
  <2>4. CASE p >= n /\ q < n
    <3>1. q \in 0 .. n - 1 /\ p \in n .. 2 * n - 1
          BY <1>0, <2>4
    <3>2. k.index[q] \in 1 .. N /\ k.index[p] = N + p - n + 1
          BY <1>6, <1>7, <3>1
    <3> QED
          BY <1>1, <1>0, <2>1, <3>1, <3>2
  <2>5. CASE p >= n /\ q >= n
    <3>1. p \in n .. 2 * n - 1 /\ q \in n .. 2 * n - 1
          BY <1>0, <2>5
    <3>2. N + p - n + 1 = N + q - n + 1
          BY <1>7, <2>1, <3>1
    <3> QED
          BY <1>1, <1>0, <3>1, <3>2, SMTT(30)
  <2> QED
        BY <1>0, <2>2, <2>3, <2>4, <2>5
<1>9. \A e \in 1 .. N + n : \E p \in 0 .. 2 * n - 1 : k.index[p] = e
  <2>1. SUFFICES ASSUME NEW e \in 1 .. N + n
                 PROVE  \E p \in 0 .. 2 * n - 1 : k.index[p] = e
        OBVIOUS
  <2>2. CASE e <= N
    <3>1. e \in 1 .. N
          BY <1>1, <2>2
    <3>2. PICK q \in 0 .. n - 1 : h.index[q] = e
          BY <1>1, <3>1 DEF NewestRing
    <3>3. nums[e] \in low .. low + n - 1
          BY <1>5, <3>2
    <3>4. PICK p \in 0 .. n - 1 : nums[e] = low + p
      <4>1. nums[e] - low \in 0 .. n - 1 /\ nums[e] = low + (nums[e] - low)
            BY <1>0, <3>3
      <4> QED
            BY <4>1
    <3>5. k.index[p] \in 1 .. N /\ nums[k.index[p]] = nums[e] /\ nums[e] # -1
          BY <1>6, <3>4
    <3>6. k.index[p] = e
          BY <3>1, <3>5, OneEntry
    <3>7. p \in 0 .. 2 * n - 1
          BY <1>0
    <3> QED
          BY <3>6, <3>7
  <2>3. CASE e > N
    <3>1. PICK p \in n .. 2 * n - 1 : e = N + p - n + 1
      <4>1. PICK d \in 1 .. n : e = N + d
        <5>1. e - N \in 1 .. n /\ e = N + (e - N)
              BY <1>1, <1>0, <2>3
        <5> QED
              BY <5>1
      <4>2. d + n - 1 \in n .. 2 * n - 1
            BY <1>0
      <4>3. e = N + (d + n - 1) - n + 1
            BY <1>1, <1>0, <4>1
      <4> QED
            BY <4>2, <4>3
    <3>2. k.index[p] = e /\ p \in 0 .. 2 * n - 1
          BY <1>7, <1>0, <3>1
    <3> QED
          BY <3>2
  <2> QED
        BY <1>1, <1>0, <2>2, <2>3
<1>10. Filled(k, ms, t, n, low, low)
  <2>1. ASSUME NEW p \in 0 .. 2 * n - 1
        PROVE  IF p < n THEN ms[k.index[p]] \in low .. low + n - 1 /\ Cong(ms[k.index[p]], p + low, 2 * n)
                        ELSE ms[k.index[p]] = -1
    <3>1. CASE p < n
      <4>1. p \in 0 .. n - 1
            BY <1>0, <3>1
      <4>2. ms[k.index[p]] = low + p
            BY <1>6, <4>1
      <4>3. low + p \in low .. low + n - 1 /\ low + p \in Int /\ low + p = p + low
            BY <1>0, <4>1
      <4>4. Cong(low + p, low + p, 2 * n)
            BY <1>2, <4>3, CongRefl
      <4> QED
            BY <3>1, <4>2, <4>3, <4>4
    <3>2. CASE p >= n
      <4>1. p \in n .. 2 * n - 1
            BY <1>0, <3>2
      <4>2. k.index[p] = N + p - n + 1
            BY <1>7, <4>1
      <4>3. N + p - n + 1 \in N + 1 .. N + n
        <5>1. N \in Int /\ p \in Int /\ n \in Int /\ p >= n /\ p <= 2 * n - 1
              BY <1>1, <1>0, <4>1
        <5> QED
              BY <5>1
      <4>4. ms[k.index[p]] = -1
            BY <4>2, <4>3
      <4>5. ~ (p < n)
            BY <1>0, <4>1
      <4> QED
            BY <4>4, <4>5
    <3> QED
          BY <1>0, <3>1, <3>2
  <2>2. t \in low - 1 .. low + n - 1 /\ Cong(t, k.tail + low, Capacity(k)) /\ Cong(low, low, 2 * n)
    <3>1. k.tail + low = t /\ t \in low - 1 .. low + n - 1
          BY <1>2, <1>0, <1>4
    <3>2. Cong(t, t, 2 * n) /\ Cong(low, low, 2 * n)
      <4>1. 2 * n \in Nat \ {0} /\ low \in Int
            BY <1>2
      <4> QED
            BY <4>1, CongRefl
    <3> QED
          BY <1>2, <3>1, <3>2
  <2> QED
        BY <1>2, <2>1, <2>2 DEF Filled
<1>11. NewestRing(k, ms, t)
  <2>1. n \in 0 .. 2 * n
        BY <1>0
  <2> QED
        BY <1>2, <1>8, <1>9, <1>10, <2>1 DEF NewestRing
<1>12. OlderRing(h, k, ms)
  <2>1. Cong(2 * n, 0, n)
    <3>1. 2 * n = 0 + n * 2
          BY <1>0
    <3> QED
          BY <3>1 DEF Cong
  <2>a. \A y \in low .. low + n - 1 : y # -1
        OBVIOUS
  <2>2. \A p \in 0 .. n - 1 : ms[h.index[p]] = nums[h.index[p]] /\ nums[h.index[p]] # -1
    <3>1. \A p \in 0 .. n - 1 : h.index[p] \in 1 .. N /\ nums[h.index[p]] \in low .. low + n - 1
          BY <1>1, <1>5
    <3> QED
          BY <2>a, <3>1
  <2>3. \A p \in 0 .. n - 1 : ms[h.index[p]] # -1 /\ Cong(ms[h.index[p]], p + off, n)
        BY <1>5, <2>2
  <2> QED
        BY <1>1, <1>2, <2>1, <2>3 DEF OlderRing
<1> QED
  BY <1>11, <1>12

\* Rings older than the one that grows.
LEMMA OlderGrows ==
  ASSUME NEW g, NEW m, NEW N, RingOver(g, m, N), NEW nums, NEW h, NEW n \in Nat \ {0}, Capacity(h) = n,
         OlderRing(g, h, nums), NEW k, Capacity(k) = 2 * n, NEW ms, \A e \in 1 .. N : ms[e] = nums[e]
  PROVE  OlderRing(g, k, ms)
<1>1. DOMAIN g.index = 0 .. m - 1 /\ Capacity(g) = m /\ m \in Nat \ {0}
      /\ \A p \in 0 .. m - 1 : g.index[p] \in 1 .. N
      BY RingFacts DEF RingOver
<1>2. Cong(2 * n, 0, m)
  <2>1. PICK q \in Int : n = 0 + m * q
        BY <1>1 DEF OlderRing, Cong
  <2>2. m * (2 * q) = 2 * (m * q) /\ 2 * q \in Int /\ m * q \in Int
        BY <1>1, Z3
  <2>3. 2 * n = 0 + m * (2 * q)
        BY <2>1, <2>2
  <2> QED
        BY <2>2, <2>3 DEF Cong
<1>3. \A p \in 0 .. m - 1 : ms[g.index[p]] = nums[g.index[p]]
      BY <1>1
<1> QED
  BY <1>1, <1>2, <1>3 DEF OlderRing

===============================================================================
