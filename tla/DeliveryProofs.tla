--------------------------- MODULE DeliveryProofs ---------------------------
(***************************************************************************)
(* The safety of the outbox and of delivery, for every cap and any number  *)
(* of entries.                                                             *)
(***************************************************************************)
EXTENDS Delivery, FiniteSetTheorems, WellFoundedInduction, TLAPS

-----------------------------------------------------------------------------
(* The selections.                                                         *)

\* Ids up to a bound, and any part of them, can be counted.
LEMMA BoundedRowsFinite ==
    ASSUME NEW n \in Nat, NEW rows \in SUBSET (1..n)
    PROVE  IsFiniteSet(rows)
<1>1. IsFiniteSet(1..n)
  BY FS_Interval
<1>2. QED
  BY <1>1, FS_Subset

\* _enforce_cap deletes some of the rows it looks at, and of these every
\* deleted one is older than every one it keeps.
LEMMA ExcessIsOldest ==
    ASSUME NEW n \in Nat, NEW rows \in SUBSET (1..n), NEW cap \in Nat
    PROVE  /\ Excess(rows, cap) \subseteq rows
           /\ \A i \in Excess(rows, cap), j \in rows \ Excess(rows, cap) : i < j
<1>1. Excess(rows, cap) \subseteq rows
  BY DEF Excess
<1>2. ASSUME NEW i \in Excess(rows, cap), NEW j \in rows \ Excess(rows, cap),
             ~(i < j)
      PROVE  FALSE
  <2> DEFINE Newer(k) == {m \in rows : m > k}
  <2>1. /\ i \in rows /\ j \in rows /\ i # j
        /\ \A m \in rows : m \in Nat
    BY <1>1
  <2>2. Newer(i) \subseteq Newer(j)
    <3>1. j < i
      BY <1>2, <2>1
    <3>2. ASSUME NEW m \in rows, m > i
          PROVE  m > j
      BY <2>1, <3>1, <3>2
    <3>3. QED
      BY <3>2
  <2>3. IsFiniteSet(Newer(j)) /\ IsFiniteSet(Newer(i))
    <3>1. Newer(j) \in SUBSET (1..n) /\ Newer(i) \in SUBSET (1..n)
      OBVIOUS
    <3>2. QED
      BY <3>1, BoundedRowsFinite
  <2>4. /\ Cardinality(Newer(i)) <= Cardinality(Newer(j))
        /\ Cardinality(Newer(i)) \in Nat
        /\ Cardinality(Newer(j)) \in Nat
    BY <2>2, <2>3, FS_Subset, FS_CardinalityType
  <2>5. Cardinality(Newer(i)) >= cap
    BY DEF Excess
  <2>6. Cardinality(Newer(j)) >= cap
    BY <2>4, <2>5
  <2>7. j \in Excess(rows, cap)
    BY <2>6 DEF Excess
  <2>8. QED
    BY <2>7
<1>3. QED
  BY <1>1, <1>2

\* Among any rows there is an oldest, and a newest.
LEMMA OldestExists ==
    ASSUME NEW rows \in SUBSET Nat, rows # {}
    PROVE  \E i \in rows : \A j \in rows : i <= j
<1> DEFINE R == OpToRel(<, Nat)
<1>1. IsWellFoundedOn(R, Nat)
  BY NatLessThanWellFounded, Zenon
<1>2. \A i, j \in Nat : i < j => <<i, j>> \in R
  BY DEF OpToRel
<1> HIDE DEF R
<1>3. PICK i \in rows : \A j \in rows : ~ (<<j, i>> \in R)
  BY <1>1, WFMin
<1>4. \A j \in rows : j \in Nat /\ ~(j < i)
  BY <1>2, <1>3
<1>5. QED
  BY <1>4

LEMMA NewestExists ==
    ASSUME NEW n \in Nat, NEW rows \in SUBSET (1..n), rows # {}
    PROVE  \E i \in rows : \A j \in rows : j <= i
<1> DEFINE Above == {m \in Nat : \A j \in rows : j <= m}
<1>1. n \in Above
  OBVIOUS
<1>2. PICK m \in Above : \A k \in Above : m <= k
  BY <1>1, OldestExists
<1>3. m \in rows
  <2>1. SUFFICES ASSUME m \notin rows PROVE FALSE
    OBVIOUS
  <2>2. m - 1 \in Above
    <3>1. m \in Nat /\ \A j \in rows : j \in Nat /\ 1 <= j /\ j <= m /\ j # m
      BY <2>1
    <3>2. \A j \in rows : j <= m - 1
      BY <3>1
    <3>3. m - 1 \in Nat
      <4>1. PICK j \in rows : TRUE
        OBVIOUS
      <4>2. QED
        BY <3>1, <4>1
    <3>4. QED
      BY <3>2, <3>3
  <2>3. QED
    BY <1>2, <2>2
<1>4. QED
  BY <1>2, <1>3

\* _enforce_cap leaves no more rows than the cap: behind the oldest that it
\* leaves there are fewer than that.
LEMMA CapIsEnforced ==
    ASSUME NEW n \in Nat, NEW rows \in SUBSET (1..n), NEW cap \in Nat
    PROVE  Cardinality(rows \ Excess(rows, cap)) <= cap
<1> DEFINE kept == rows \ Excess(rows, cap)
<1>1. kept \in SUBSET (1..n) /\ IsFiniteSet(kept) /\ Cardinality(kept) \in Nat
  BY BoundedRowsFinite, FS_CardinalityType
<1>2. CASE kept = {}
  BY <1>2, FS_EmptySet
<1>3. CASE kept # {}
  <2>1. PICK i \in kept : \A j \in kept : i <= j
    <3> HIDE DEF kept
    <3>1. QED
      BY <1>1, <1>3, OldestExists
  <2> DEFINE newer == {j \in rows : j > i}
  <2>2. /\ IsFiniteSet(newer) /\ Cardinality(newer) \in Nat
        /\ Cardinality(newer) < cap
    <3>1. IsFiniteSet(newer) /\ Cardinality(newer) \in Nat
      BY BoundedRowsFinite, FS_CardinalityType
    <3>2. ~(Cardinality(newer) >= cap)
      BY <2>1 DEF Excess
    <3>3. QED
      BY <3>1, <3>2
  <2>3. kept \ {i} \subseteq newer
    BY <1>1, <2>1
  <2> HIDE DEF kept, newer
  <2>4. Cardinality(kept \ {i}) <= Cardinality(newer)
    BY <2>2, <2>3, FS_Subset
  <2>5. Cardinality(kept \ {i}) = Cardinality(kept) - 1
    BY <1>1, <2>1, FS_RemoveElement
  <2>6. QED
    BY <1>1, <2>2, <2>4, <2>5 DEF kept
<1>4. QED
  BY <1>2, <1>3

\* pending(limit) returns no more rows than the limit: before the newest that
\* it returns there are fewer than that.
LEMMA BatchIsLimited ==
    ASSUME NEW n \in Nat, NEW rows \in SUBSET (1..n), NEW limit \in Nat
    PROVE  Cardinality(Oldest(rows, limit)) <= limit
<1> DEFINE batch == Oldest(rows, limit)
<1>1. batch \in SUBSET (1..n) /\ IsFiniteSet(batch) /\ Cardinality(batch) \in Nat
  <2>1. batch \in SUBSET (1..n)
    BY DEF Oldest
  <2>2. QED
    BY <2>1, BoundedRowsFinite, FS_CardinalityType
<1>2. CASE batch = {}
  BY <1>2, FS_EmptySet
<1>3. CASE batch # {}
  <2>1. PICK i \in batch : \A j \in batch : j <= i
    <3> HIDE DEF batch
    <3>1. QED
      BY <1>1, <1>3, NewestExists
  <2> DEFINE older == {j \in rows : j < i}
  <2>2. /\ IsFiniteSet(older) /\ Cardinality(older) \in Nat
        /\ Cardinality(older) < limit
    <3>1. IsFiniteSet(older) /\ Cardinality(older) \in Nat
      BY BoundedRowsFinite, FS_CardinalityType
    <3>2. Cardinality(older) < limit
      BY <2>1 DEF Oldest
    <3>3. QED
      BY <3>1, <3>2
  <2>3. batch \ {i} \subseteq older
    BY <1>1, <2>1 DEF Oldest
  <2> HIDE DEF batch, older
  <2>4. Cardinality(batch \ {i}) <= Cardinality(older)
    BY <2>2, <2>3, FS_Subset
  <2>5. Cardinality(batch \ {i}) = Cardinality(batch) - 1
    BY <1>1, <2>1, FS_RemoveElement
  <2>6. QED
    BY <1>1, <2>2, <2>4, <2>5 DEF batch
<1>4. QED
  BY <1>2, <1>3

\* A batch of some rows is not empty.
LEMMA BatchHasOldest ==
    ASSUME NEW n \in Nat, NEW rows \in SUBSET (1..n), rows # {},
           NEW limit \in Nat \ {0}
    PROVE  Oldest(rows, limit) # {}
<1>1. PICK i \in rows : \A j \in rows : i <= j
  BY OldestExists
<1>2. {j \in rows : j < i} = {}
  <2>1. \A j \in rows : j \in Nat /\ ~(j < i)
    BY <1>1
  <2>2. QED
    BY <2>1
<1>3. Cardinality({j \in rows : j < i}) < limit
  BY <1>2, FS_EmptySet
<1>4. QED
  BY <1>3 DEF Oldest

-----------------------------------------------------------------------------
(* Outbox.                                                                 *)

USE CapAssumption, MaxIdAssumption

\* Ids are handed out in order, and only ids that were handed out are used.
LEMMA OutboxStepTypes ==
    ASSUME TypeOK, [Next]_outboxVars
    PROVE  TypeOK' /\ last <= last'
<1>1. CASE Enqueue
  <2> DEFINE rows == unsent \cup {last + 1}
             gone == Excess(rows, Cap)
  <2>1. gone \subseteq rows
    BY DEF Excess
  <2>2. /\ last' = last + 1 /\ last' \in 0..MaxId /\ last \in Nat
        /\ rows \subseteq 1..last'
    BY <1>1 DEF Enqueue, TypeOK
  <2>3. /\ unsent' = rows \ gone
        /\ evicted' = evicted \cup gone
        /\ sent' = sent
    BY <1>1 DEF Enqueue
  <2>4. 1..last \subseteq 1..last'
    BY <2>2
  <2> HIDE DEF gone, rows
  <2>5. QED
    BY <2>1, <2>2, <2>3, <2>4 DEF TypeOK
<1>2. CASE TornEnqueue
  BY <1>2 DEF TornEnqueue, TypeOK
<1>3. ASSUME NEW i \in 1..last, MarkPublished(i)
      PROVE  TypeOK' /\ last <= last'
  BY <1>3 DEF MarkPublished, TypeOK
<1>4. ASSUME NEW stale \in SUBSET sent, PrunePublished(stale)
      PROVE  TypeOK' /\ last <= last'
  BY <1>4 DEF PrunePublished, TypeOK
<1>5. CASE UNCHANGED outboxVars
  BY <1>5 DEF outboxVars, TypeOK
<1>6. QED
  BY <1>1, <1>2, <1>3, <1>4, <1>5 DEF Next

\* The rows of the table have ids that were handed out.
THEOREM OutboxTypeCorrect == Spec => []TypeOK
<1>1. Init => TypeOK
  BY DEF Init, TypeOK
<1>2. TypeOK /\ [Next]_outboxVars => TypeOK'
  BY OutboxStepTypes
<1>3. QED
  BY <1>1, <1>2, PTL DEF Spec

\* Everything that a step of the outbox preserves, in one invariant: the
\* order of eviction needs that the ids are bounded, and that a row that is
\* evicted is not also waiting.
OutboxInv == TypeOK /\ OneFate /\ OldestGoFirst

LEMMA OutboxInvInit == Init => OutboxInv
  BY DEF Init, OutboxInv, TypeOK, OneFate, OldestGoFirst

\* Enqueue adds the newest id, and so what the cap evicts then is older than
\* all that stays.
LEMMA EnqueuePreserves ==
    ASSUME OutboxInv, Enqueue
    PROVE  OutboxInv'
<1> DEFINE rows == unsent \cup {last + 1}
           gone == Excess(rows, Cap)
<1>1. /\ last \in Nat /\ last + 1 \in Nat
      /\ rows \in SUBSET (1..(last + 1))
  BY DEF OutboxInv, TypeOK
<1>2. /\ gone \subseteq rows
      /\ \A i \in gone, j \in rows \ gone : i < j
  <2> HIDE DEF rows
  <2>1. QED
    BY <1>1, ExcessIsOldest
<1>3. /\ last' = last + 1
      /\ unsent' = rows \ gone
      /\ evicted' = evicted \cup gone
      /\ sent' = sent
      /\ last < MaxId
  BY DEF Enqueue
<1> HIDE DEF gone
<1>4. TypeOK'
  BY <1>1, <1>2, <1>3 DEF OutboxInv, TypeOK
<1>5. OneFate'
  BY <1>1, <1>2, <1>3 DEF OutboxInv, TypeOK, OneFate
<1>6. OldestGoFirst'
  BY <1>1, <1>2, <1>3 DEF OutboxInv, TypeOK, OldestGoFirst
<1>7. QED
  BY <1>4, <1>5, <1>6 DEF OutboxInv

LEMMA OutboxStepPreserves ==
    ASSUME OutboxInv, [Next]_outboxVars
    PROVE  OutboxInv'
<1>1. CASE Enqueue
  BY <1>1, EnqueuePreserves
<1>2. CASE TornEnqueue
  BY <1>2 DEF TornEnqueue, OutboxInv, TypeOK, OneFate, OldestGoFirst
<1>3. ASSUME NEW i \in 1..last, MarkPublished(i)
      PROVE  OutboxInv'
  BY <1>3 DEF MarkPublished, OutboxInv, TypeOK, OneFate, OldestGoFirst
<1>4. ASSUME NEW stale \in SUBSET sent, PrunePublished(stale)
      PROVE  OutboxInv'
  BY <1>4 DEF PrunePublished, OutboxInv, TypeOK, OneFate, OldestGoFirst
<1>5. CASE UNCHANGED outboxVars
  BY <1>5 DEF outboxVars, OutboxInv, TypeOK, OneFate, OldestGoFirst
<1>6. QED
  BY <1>1, <1>2, <1>3, <1>4, <1>5 DEF Next

-----------------------------------------------------------------------------
(* Delivery.                                                               *)

\* Every step of delivery is a step of the outbox, or leaves it alone.
LEMMA DeliveryStepIsOutboxStep ==
    ASSUME DTypeOK, [DNext]_deliveryVars
    PROVE  [Next]_outboxVars
<1>1. CASE Queue
  BY <1>1 DEF Queue, Next
<1>2. CASE Arrive
  BY <1>2 DEF Arrive, outboxVars
<1>3. CASE Settle
  BY <1>3 DEF Settle, Next, DTypeOK
<1>4. CASE Forget
  BY <1>4 DEF Forget, Next
<1>5. CASE UNCHANGED deliveryVars
  BY <1>5 DEF deliveryVars, outboxVars
<1>6. QED
  BY <1>1, <1>2, <1>3, <1>4, <1>5 DEF DNext

LEMMA DeliveryStepTypes ==
    ASSUME DTypeOK, [DNext]_deliveryVars
    PROVE  DTypeOK' /\ last <= last'
<1>1. TypeOK' /\ last <= last'
  BY DeliveryStepIsOutboxStep, OutboxStepTypes DEF DTypeOK
<1>2. arrived' \subseteq 1..last'
  <2>1. arrived' \subseteq 1..last
    BY DEF DNext, Queue, Arrive, Settle, Forget, deliveryVars, DTypeOK
  <2>2. QED
    BY <1>1, <2>1 DEF DTypeOK, TypeOK
<1>3. QED
  BY <1>1, <1>2 DEF DTypeOK

\* No entry is lost, for the reason that each step takes an entry out of
\* unsent only for one of the two good reasons; that a confirmed entry has
\* arrived is needed for the entries that are pruned.
DeliveryInv ==
    /\ OutboxInv
    /\ arrived \subseteq 1..last
    /\ ConfirmedWasReceived
    /\ NoSilentLoss

LEMMA DeliveryInvInit == DInit => DeliveryInv
  BY OutboxInvInit
     DEF DInit, Init, DeliveryInv, ConfirmedWasReceived, NoSilentLoss

LEMMA DeliveryStepPreserves ==
    ASSUME DeliveryInv, [DNext]_deliveryVars
    PROVE  DeliveryInv'
<1>1. DTypeOK
  BY DEF DeliveryInv, OutboxInv, DTypeOK
<1>2. OutboxInv'
  BY <1>1, DeliveryStepIsOutboxStep, OutboxStepPreserves DEF DeliveryInv
<1>3. /\ arrived' \subseteq 1..last'
      /\ ConfirmedWasReceived'
      /\ NoSilentLoss'
  <2>1. CASE Queue /\ Enqueue
    <3>1. Excess(unsent \cup {last + 1}, Cap) \subseteq unsent \cup {last + 1}
      BY DEF Excess
    <3>2. QED
      BY <1>1, <2>1, <3>1
         DEF Queue, Enqueue, DeliveryInv, DTypeOK, TypeOK,
             ConfirmedWasReceived, NoSilentLoss
  <2>2. CASE Queue /\ TornEnqueue
    BY <1>1, <2>2 DEF Queue, TornEnqueue, DeliveryInv, DTypeOK, TypeOK,
                      ConfirmedWasReceived, NoSilentLoss
  <2>3. CASE Arrive
    BY <2>3 DEF Arrive, outboxVars, DeliveryInv, ConfirmedWasReceived,
                NoSilentLoss
  <2>4. CASE Settle
    BY <2>4 DEF Settle, MarkPublished, DeliveryInv, ConfirmedWasReceived,
                NoSilentLoss
  <2>5. CASE Forget
    BY <2>5 DEF Forget, PrunePublished, DeliveryInv, ConfirmedWasReceived,
                NoSilentLoss
  <2>6. CASE UNCHANGED deliveryVars
    BY <2>6 DEF deliveryVars, DeliveryInv, ConfirmedWasReceived, NoSilentLoss
  <2>7. QED
    BY <2>1, <2>2, <2>3, <2>4, <2>5, <2>6 DEF DNext, Queue
<1>4. QED
  BY <1>2, <1>3 DEF DeliveryInv

\* Delivery keeps all its promises: nothing is lost in silence, a row is
\* confirmed only once it was received, and eviction takes the oldest.
THEOREM DeliverySafe ==
    DSpec => [](ConfirmedWasReceived /\ NoSilentLoss /\ OneFate /\ OldestGoFirst)
<1>1. DeliveryInv => ConfirmedWasReceived /\ NoSilentLoss /\ OneFate
                        /\ OldestGoFirst
  BY DEF DeliveryInv, OutboxInv
<1>2. QED
  BY <1>1, DeliveryInvInit, DeliveryStepPreserves, PTL DEF DSpec

\* An entry that is not owed to the broker any more - confirmed, evicted or
\* even forgotten - is never owed again: only new entries join the backlog.
SettledForGood == unsent' \cap (1..last) \subseteq unsent

LEMMA OutboxStepSettles ==
    ASSUME TypeOK, [Next]_outboxVars
    PROVE  SettledForGood
<1> USE DEF SettledForGood
<1>1. CASE Enqueue \/ TornEnqueue
  <2>1. unsent' \subseteq unsent \cup {last + 1}
    BY <1>1 DEF Enqueue, TornEnqueue
  <2>2. last + 1 \notin 1..last
    BY DEF TypeOK
  <2>3. QED
    BY <2>1, <2>2
<1>2. CASE \E i \in 1..last : MarkPublished(i)
  BY <1>2 DEF MarkPublished
<1>3. CASE \E stale \in SUBSET sent : PrunePublished(stale)
  BY <1>3 DEF PrunePublished
<1>4. CASE UNCHANGED outboxVars
  BY <1>4 DEF outboxVars
<1>5. QED
  BY <1>1, <1>2, <1>3, <1>4 DEF Next

\* A settled entry stays settled, also when its row is long gone.
THEOREM SettledIsFinal == Spec => [][SettledForGood]_outboxVars
<1>1. TypeOK /\ [Next]_outboxVars => [SettledForGood]_outboxVars
  BY OutboxStepSettles
<1>2. QED
  BY <1>1, OutboxTypeCorrect, PTL DEF Spec

\* Delivery is the outbox with a broker: its table behaves like Outbox.
THEOREM DeliveryImplementsOutbox == DSpec => Spec
<1>1. DInit => Init
  BY DEF DInit
<1>2. DeliveryInv => DTypeOK
  BY DEF DeliveryInv, OutboxInv, DTypeOK
<1>3. DeliveryInv /\ [DNext]_deliveryVars => [Next]_outboxVars
  BY <1>2, DeliveryStepIsOutboxStep
<1>4. QED
  BY <1>1, <1>3, DeliveryInvInit, DeliveryStepPreserves, PTL DEF DSpec, Spec

\* A confirmed row is never owed again.
THEOREM ConfirmedIsFinal == Spec => [][sent \cap unsent' = {}]_outboxVars
<1>1. ASSUME OutboxInv, [Next]_outboxVars
      PROVE  sent \cap unsent' = {} \/ UNCHANGED outboxVars
  <2>1. CASE Enqueue
    <3>1. unsent' \subseteq unsent \cup {last + 1}
      BY <2>1 DEF Enqueue
    <3>2. last + 1 \notin sent
      BY <1>1 DEF OutboxInv, TypeOK
    <3>3. QED
      BY <1>1, <3>1, <3>2 DEF OutboxInv, OneFate
  <2>2. CASE TornEnqueue
    BY <1>1, <2>2 DEF TornEnqueue, OutboxInv, TypeOK, OneFate
  <2>3. CASE \E i \in 1..last : MarkPublished(i)
    BY <1>1, <2>3 DEF MarkPublished, OutboxInv, OneFate
  <2>4. CASE \E stale \in SUBSET sent : PrunePublished(stale)
    BY <1>1, <2>4 DEF PrunePublished, OutboxInv, OneFate
  <2>5. QED
    BY <1>1, <2>1, <2>2, <2>3, <2>4 DEF Next
<1>2. QED
  BY <1>1, OutboxInvInit, OutboxStepPreserves, PTL DEF Spec

=============================================================================
