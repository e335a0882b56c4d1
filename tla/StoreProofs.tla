---------------------------- MODULE StoreProofs -----------------------------
(***************************************************************************)
(* The lock, the transactions and the cap of store.py, for any number of   *)
(* threads, rows, cycles and power losses, and that its statements         *)
(* implement Outbox.                                                       *)
(***************************************************************************)
EXTENDS Store, FiniteSetTheorems, WellFoundedInduction, TLAPS

USE NoThreadAssumption

LEMMA BoundsAreNaturals ==
    /\ Cap \in Nat /\ Limit \in Nat
    /\ MaxId \in Nat /\ MaxCycles \in Nat /\ MaxCrashes \in Nat
  BY StoreNatAssumption

USE BoundsAreNaturals

-----------------------------------------------------------------------------
(* The invariant.                                                          *)

InTransaction(t) == pc[t] \in {"begun", "recorded", "inserted", "capped"}

\* The thread that is inside a method holds the lock, and a transaction is
\* open exactly while somebody is inside transaction().
LockInv ==
    /\ \A t \in Thread : pc[t] # "idle" <=> lock = t
    /\ txn <=> \E t \in Thread : InTransaction(t)

\* The view of the connection after each statement of a transaction.
Recorded == [disk EXCEPT !.state = cycles]
Inserted == [WithRow(Recorded) EXCEPT !.batch = Recorded.state]
Capped == WithoutExcess(Inserted)

\* The connection sees the disk, but for what the open transaction has done.
TxnInv ==
    /\ ~txn => conn = disk
    /\ \A t \in Thread :
          /\ pc[t] = "begun" => conn = disk
          /\ pc[t] = "recorded" => conn = Recorded
          /\ pc[t] = "inserted" => conn = Inserted
          /\ pc[t] = "capped" => conn = Capped
          /\ InTransaction(t) => disk.last < MaxId

\* Rows have ids that were handed out, and one fate each.
RowsOK(db) ==
    /\ db \in Database
    /\ db.unsent \cup db.sent \cup db.evicted \subseteq 1..db.last
    /\ db.unsent \cap db.sent = {}
    /\ db.unsent \cap db.evicted = {}

\* On the connection the counter is exact at any time, until a COMMIT fails.
DropInv ==
    /\ atBoot \subseteq disk.evicted
    /\ dropped >= Cardinality(conn.evicted \ atBoot)
    /\ cancelled = 0 => dropped = Cardinality(conn.evicted \ atBoot)

DatabaseInv == TxnInv /\ RowsOK(disk) /\ RowsOK(conn) /\ WholeCycle

StoreInv ==
    TypeOK /\ LockInv /\ DatabaseInv /\ ReadsOnlyCommitted /\ DropInv
    /\ BacklogBounded

-----------------------------------------------------------------------------
(* The rows.                                                               *)

LEMMA RowsFinite ==
    ASSUME NEW n \in Nat, NEW rows \in SUBSET (1..n)
    PROVE  IsFiniteSet(rows) /\ Cardinality(rows) \in Nat
<1>1. IsFiniteSet(1..n)
  BY FS_Interval
<1>2. IsFiniteSet(rows)
  BY <1>1, FS_Subset
<1>3. QED
  BY <1>2, FS_CardinalityType

\* Among any rows there is an oldest.
LEMMA OldestExists ==
    ASSUME NEW n \in Nat, NEW rows \in SUBSET (1..n), rows # {}
    PROVE  \E i \in rows : \A j \in rows : i <= j
<1> DEFINE R == OpToRel(<, Nat)
<1>1. IsWellFoundedOn(R, Nat)
  BY NatLessThanWellFounded, Zenon
<1>2. \A i, j \in Nat : i < j => <<i, j>> \in R
  BY DEF OpToRel
<1> HIDE DEF R
<1>3. rows \subseteq Nat
  OBVIOUS
<1>4. PICK i \in rows : \A j \in rows : ~ (<<j, i>> \in R)
  BY <1>1, <1>3, WFMin
<1>5. \A j \in rows : ~(j < i)
  BY <1>2, <1>3, <1>4
<1>6. QED
  BY <1>3, <1>5

\* _enforce_cap leaves no more rows than the cap.
LEMMA CapIsEnforced ==
    ASSUME NEW n \in Nat, NEW rows \in SUBSET (1..n), NEW cap \in Nat
    PROVE  Cardinality(rows \ Excess(rows, cap)) <= cap
<1> DEFINE kept == rows \ Excess(rows, cap)
<1>1. /\ kept \in SUBSET (1..n)
      /\ IsFiniteSet(kept)
      /\ Cardinality(kept) \in Nat
  BY RowsFinite
<1>2. CASE kept = {}
  BY <1>2, FS_EmptySet
<1>3. CASE kept # {}
  <2>1. PICK i \in kept : \A j \in kept : i <= j
    <3> HIDE DEF kept
    <3>1. QED
      BY <1>1, <1>3, OldestExists
  <2> DEFINE newer == {j \in rows : j > i}
  <2>2. /\ Cardinality(newer) \in Nat
        /\ IsFiniteSet(newer)
        /\ Cardinality(newer) < cap
    <3>1. Cardinality(newer) \in Nat /\ IsFiniteSet(newer)
      BY RowsFinite
    <3>2. ~(Cardinality(newer) >= cap)
      BY <2>1 DEF Excess
    <3>3. QED
      BY <3>1, <3>2
  <2>3. kept \ {i} \subseteq newer
    BY <1>1, <2>1
  <2> HIDE DEF kept, newer
  <2>4. Cardinality(kept \ {i}) <= Cardinality(newer)
    BY <2>2, <2>3, FS_Subset
  <2>5. Cardinality(kept \ {i}) = Cardinality(kept) - 1
    BY <1>1, <2>1, FS_RemoveElement
  <2>6. QED
    BY <1>1, <2>2, <2>4, <2>5 DEF kept
<1>4. QED
  BY <1>2, <1>3

\* INSERT gives the new row an id that no row has.
LEMMA RowAdded ==
    ASSUME NEW db, RowsOK(db), db.last < MaxId
    PROVE  /\ RowsOK(WithRow(db))
           /\ WithRow(db).last = db.last + 1
           /\ WithRow(db).unsent = db.unsent \cup {db.last + 1}
           /\ WithRow(db).sent = db.sent
           /\ WithRow(db).evicted = db.evicted
           /\ WithRow(db).state = db.state
           /\ WithRow(db).batch = db.batch
<1> DEFINE after == WithRow(db)
<1>1. after = [db EXCEPT !.last = @ + 1, !.unsent = @ \cup {db.last + 1}]
  BY DEF WithRow
<1>2. /\ db.last \in 0..MaxId /\ db.last + 1 \in 1..MaxId
      /\ db \in Database
  BY DEF RowsOK, Database
<1> HIDE DEF after
<1>3. /\ after.last = db.last + 1
      /\ after.unsent = db.unsent \cup {db.last + 1}
      /\ after.sent = db.sent
      /\ after.evicted = db.evicted
      /\ after.state = db.state
      /\ after.batch = db.batch
  BY <1>1, <1>2 DEF Database
<1>4. after \in Database
  <2>1. db.unsent \cup {db.last + 1} \in SUBSET (1..MaxId)
    BY <1>2 DEF Database
  <2>2. db.last + 1 \in 0..MaxId
    BY <1>2
  <2>3. QED
    BY <1>1, <1>2, <2>1, <2>2 DEF Database
<1>5. /\ after.unsent \cup after.sent \cup after.evicted \subseteq 1..after.last
      /\ after.unsent \cap after.sent = {}
      /\ after.unsent \cap after.evicted = {}
  <2>1. 1..(db.last + 1) = (1..db.last) \cup {db.last + 1}
    BY <1>2
  <2>2. db.last + 1 \notin 1..db.last
    BY <1>2
  <2>3. QED
    BY <1>3, <2>1, <2>2 DEF RowsOK
<1>6. QED
  BY <1>3, <1>4, <1>5 DEF RowsOK, after

\* The cap moves rows from the unsent to the evicted ones.
LEMMA ExcessRemoved ==
    ASSUME NEW db, RowsOK(db)
    PROVE  LET gone == Excess(db.unsent, Cap)
               after == WithoutExcess(db)
           IN  /\ RowsOK(after)
               /\ after.last = db.last
               /\ after.unsent = db.unsent \ gone
               /\ after.sent = db.sent
               /\ after.evicted = db.evicted \cup gone
               /\ after.state = db.state
               /\ after.batch = db.batch
               /\ gone \subseteq db.unsent
               /\ Cardinality(after.unsent) <= Cap
<1> DEFINE gone == Excess(db.unsent, Cap)
           after == WithoutExcess(db)
<1>1. gone \subseteq db.unsent
  BY DEF Excess
<1>2. Cardinality(db.unsent \ gone) <= Cap
  <2>1. db.last \in Nat /\ db.unsent \in SUBSET (1..db.last)
    BY DEF RowsOK, Database
  <2>2. QED
    BY <2>1, CapIsEnforced
<1>3. after = [db EXCEPT !.unsent = @ \ gone, !.evicted = @ \cup gone]
  BY DEF WithoutExcess
<1> HIDE DEF gone, after
<1>4. /\ after.last = db.last
      /\ after.unsent = db.unsent \ gone
      /\ after.sent = db.sent
      /\ after.evicted = db.evicted \cup gone
      /\ after.state = db.state
      /\ after.batch = db.batch
  BY <1>3 DEF RowsOK, Database
<1>5. RowsOK(after)
  BY <1>1, <1>3, <1>4 DEF RowsOK, Database
<1>6. QED
  BY <1>1, <1>2, <1>4, <1>5 DEF gone, after

\* UPDATE, and DELETE of the retention.
LEMMA RowsSettled ==
    ASSUME NEW db, RowsOK(db), NEW i, NEW stale
    PROVE  /\ RowsOK([db EXCEPT !.unsent = @ \ {i},
                               !.sent = @ \cup (db.unsent \cap {i})])
           /\ RowsOK([db EXCEPT !.sent = @ \ stale])
  BY DEF RowsOK, Database

-----------------------------------------------------------------------------
(* The lock.                                                               *)

LEMMA HolderIsAlone ==
    ASSUME LockInv, NEW t \in Thread, pc[t] # "idle"
    PROVE  /\ lock = t
           /\ \A u \in Thread \ {t} : pc[u] = "idle"
           /\ txn <=> InTransaction(t)
  BY DEF LockInv, InTransaction

LEMMA FreeLock ==
    ASSUME LockInv, lock = NoThread
    PROVE  /\ \A u \in Thread : pc[u] = "idle"
           /\ ~txn
  BY DEF LockInv, InTransaction

LEMMA LockInvInit == Init => LockInv
  BY DEF Init, LockInv, InTransaction

LEMMA LockStep ==
    ASSUME TypeOK, LockInv, [Next]_vars
    PROVE  LockInv'
<1>1. ASSUME NEW t \in Thread, Begin(t) \/ EnqueueInsert(t)
      PROVE  LockInv'
  <2>1. /\ \A u \in Thread : pc[u] = "idle"
        /\ ~txn
    BY <1>1, FreeLock DEF Begin, EnqueueInsert, Available
  <2>2. QED
    BY <1>1, <2>1 DEF Begin, EnqueueInsert, TypeOK, LockInv, InTransaction
<1>2. ASSUME NEW t \in Thread, Record(t) \/ Insert(t) \/ EnforceCap(t)
      PROVE  LockInv'
  <2>1. /\ pc[t] \in {"begun", "recorded", "inserted"}
        /\ \E p \in {"recorded", "inserted", "capped"} :
              pc' = [pc EXCEPT ![t] = p]
        /\ lock' = lock /\ txn' = txn
    BY <1>2 DEF Record, Insert, EnforceCap
  <2>2. lock = t /\ txn
    BY <2>1, HolderIsAlone DEF InTransaction
  <2>3. QED
    BY <2>1, <2>2 DEF TypeOK, LockInv, InTransaction
<1>3. ASSUME NEW t \in Thread,
             \/ Commit(t) \/ CommitFails(t) \/ Rollback(t)
             \/ EnqueueCap(t) \/ EnqueueCapFails(t)
      PROVE  LockInv'
  <2>1. /\ pc[t] # "idle"
        /\ pc' = [pc EXCEPT ![t] = "idle"]
        /\ lock' = NoThread
    BY <1>3 DEF Commit, CommitFails, Rollback, EnqueueCap, EnqueueCapFails
  <2>2. /\ \A u \in Thread \ {t} : pc[u] = "idle"
        /\ txn <=> InTransaction(t)
    BY <2>1, HolderIsAlone
  <2>3. ~txn'
    BY <1>3, <2>2 DEF Commit, CommitFails, Rollback, EnqueueCap,
                      EnqueueCapFails, InTransaction
  <2>4. \A u \in Thread : pc'[u] = "idle"
    BY <2>1, <2>2 DEF TypeOK
  <2>5. QED
    BY <2>1, <2>3, <2>4 DEF LockInv, InTransaction
<1>4. ASSUME NEW t \in Thread,
             \/ Pending(t) \/ MarkPublished(t) \/ PrunePublished(t)
             \/ Close(t) \/ UNCHANGED vars
      PROVE  LockInv'
  <2>1. UNCHANGED <<lock, pc, txn>>
    BY <1>4 DEF Pending, MarkPublished, PrunePublished, Close, vars
  <2>2. QED
    BY <2>1 DEF LockInv, InTransaction
<1>5. CASE Crash
  BY <1>5 DEF Crash, LockInv, InTransaction
<1>6. CASE UNCHANGED vars
  BY <1>6 DEF vars, LockInv, InTransaction
<1>7. QED
  BY <1>1, <1>2, <1>3, <1>4, <1>5, <1>6 DEF Next, Step

-----------------------------------------------------------------------------
(* The transaction, and what is on disk.                                   *)

LEMMA StateRecorded ==
    ASSUME NEW db, RowsOK(db), NEW c \in 0..MaxCycles
    PROVE  LET after == [db EXCEPT !.state = c]
           IN  /\ RowsOK(after)
               /\ after.state = c
               /\ after.last = db.last
               /\ after.unsent = db.unsent
               /\ after.sent = db.sent
               /\ after.evicted = db.evicted
               /\ after.batch = db.batch
  BY DEF RowsOK, Database

LEMMA BatchQueued ==
    ASSUME NEW db, RowsOK(db), db.last < MaxId
    PROVE  LET after == [WithRow(db) EXCEPT !.batch = db.state]
           IN  /\ RowsOK(after)
               /\ after.state = db.state
               /\ after.batch = db.state
               /\ after.evicted = db.evicted
               /\ after.sent = db.sent
               /\ after.last = db.last + 1
               /\ after.unsent = db.unsent \cup {db.last + 1}
<1> DEFINE row == WithRow(db)
<1>1. /\ RowsOK(row)
      /\ row.evicted = db.evicted /\ row.sent = db.sent
      /\ row.state = db.state /\ row.last = db.last + 1
      /\ row.unsent = db.unsent \cup {db.last + 1}
  BY RowAdded
<1>2. db.state \in 0..MaxCycles
  BY DEF RowsOK, Database
<1> HIDE DEF row
<1>3. /\ RowsOK([row EXCEPT !.batch = db.state])
      /\ [row EXCEPT !.batch = db.state].state = db.state
      /\ [row EXCEPT !.batch = db.state].batch = db.state
      /\ [row EXCEPT !.batch = db.state].evicted = db.evicted
      /\ [row EXCEPT !.batch = db.state].sent = db.sent
      /\ [row EXCEPT !.batch = db.state].last = db.last + 1
      /\ [row EXCEPT !.batch = db.state].unsent = db.unsent \cup {db.last + 1}
  BY <1>1, <1>2 DEF RowsOK, Database
<1>4. QED
  BY <1>3 DEF row

\* A transaction that got as far as COMMIT agrees with itself, and has
\* confirmed nothing.
LEMMA CycleIsWhole ==
    ASSUME RowsOK(disk), disk.last < MaxId, cycles \in 0..MaxCycles
    PROVE  /\ RowsOK(Recorded) /\ Recorded.evicted = disk.evicted
           /\ Recorded.sent = disk.sent /\ Recorded.last = disk.last
           /\ RowsOK(Inserted) /\ Inserted.evicted = disk.evicted
           /\ Inserted.sent = disk.sent
           /\ Capped.sent = disk.sent
           /\ Capped.state = Capped.batch
           /\ LET rows == disk.unsent \cup {disk.last + 1}
                  gone == Excess(rows, Cap)
              IN  /\ Capped.last = disk.last + 1
                  /\ Capped.unsent = rows \ gone
                  /\ Capped.evicted = disk.evicted \cup gone
           /\ Cardinality(Capped.unsent) <= Cap
<1>1. /\ RowsOK(Recorded) /\ Recorded.evicted = disk.evicted
      /\ Recorded.sent = disk.sent /\ Recorded.last = disk.last
      /\ Recorded.unsent = disk.unsent
  BY StateRecorded DEF Recorded
<1>2. /\ RowsOK(Inserted) /\ Inserted.evicted = disk.evicted
      /\ Inserted.sent = disk.sent /\ Inserted.state = Inserted.batch
      /\ Inserted.last = disk.last + 1
      /\ Inserted.unsent = disk.unsent \cup {disk.last + 1}
  BY <1>1, BatchQueued DEF Inserted
<1>3. /\ Capped.sent = Inserted.sent /\ Capped.state = Inserted.state
      /\ Capped.batch = Inserted.batch /\ Capped.last = Inserted.last
      /\ Capped.unsent = Inserted.unsent \ Excess(Inserted.unsent, Cap)
      /\ Capped.evicted = Inserted.evicted \cup Excess(Inserted.unsent, Cap)
      /\ Cardinality(Capped.unsent) <= Cap
  BY <1>2, ExcessRemoved DEF Capped
<1>4. QED
  BY <1>1, <1>2, <1>3

LEMMA DatabaseInit == Init => DatabaseInv
  BY DEF Init, DatabaseInv, TxnInv, InTransaction, RowsOK, Database, Empty, WholeCycle

\* In autocommit every statement is on disk when it returns.
LEMMA DatabaseStep ==
    ASSUME TypeOK, LockInv, DatabaseInv, [Next]_vars
    PROVE  DatabaseInv'
<1>1. ASSUME NEW t \in Thread, Begin(t)
      PROVE  DatabaseInv'
  <2>1. /\ \A u \in Thread : pc[u] = "idle"
        /\ conn = disk
    BY <1>1, FreeLock DEF Begin, Available, DatabaseInv, TxnInv
  <2>2. UNCHANGED <<disk, conn>> /\ txn' /\ conn.last < MaxId
        /\ pc' = [pc EXCEPT ![t] = "begun"]
    BY <1>1 DEF Begin
  <2>3. TxnInv'
    BY <2>1, <2>2 DEF TypeOK, TxnInv, InTransaction
  <2>4. QED
    BY <2>2, <2>3 DEF DatabaseInv, RowsOK, WholeCycle
<1>2. ASSUME NEW t \in Thread, Record(t) \/ Insert(t) \/ EnforceCap(t)
      PROVE  DatabaseInv'
  <2>1. /\ pc[t] # "idle" /\ InTransaction(t)
        /\ UNCHANGED <<lock, txn, cycles>>
    BY <1>2 DEF Record, Insert, EnforceCap, InTransaction
  <2>2. /\ txn
        /\ \A u \in Thread \ {t} : pc[u] = "idle"
    BY <2>1, HolderIsAlone
  <2>3. UNCHANGED disk
    BY <1>2, <2>2 DEF Record, Insert, EnforceCap, Execute
  <2>4. disk.last < MaxId /\ cycles \in 0..MaxCycles
    BY <2>1 DEF DatabaseInv, TxnInv, TypeOK
  <2>5. \/ conn' = Recorded /\ pc' = [pc EXCEPT ![t] = "recorded"]
        \/ conn' = Inserted /\ pc' = [pc EXCEPT ![t] = "inserted"]
        \/ conn' = Capped /\ pc' = [pc EXCEPT ![t] = "capped"]
    <3>1. CASE Record(t)
      BY <3>1 DEF Record, Execute, Recorded, DatabaseInv, TxnInv
    <3>2. CASE Insert(t)
      BY <3>2 DEF Insert, Execute, Inserted, DatabaseInv, TxnInv
    <3>3. CASE EnforceCap(t)
      BY <3>3 DEF EnforceCap, Execute, Capped, DatabaseInv, TxnInv
    <3>4. QED
      BY <1>2, <3>1, <3>2, <3>3
  <2>6. /\ Recorded' = Recorded
        /\ Inserted' = Inserted
        /\ Capped' = Capped
    BY <2>1, <2>3 DEF Recorded, Inserted, Capped
  <2>7. RowsOK(Recorded) /\ RowsOK(Inserted) /\ RowsOK(Capped)
    BY <2>4, CycleIsWhole, ExcessRemoved DEF DatabaseInv, Capped
  <2>8. TxnInv'
    BY <2>1, <2>2, <2>3, <2>4, <2>5, <2>6 DEF TypeOK, TxnInv, InTransaction
  <2>9. RowsOK(conn)' /\ RowsOK(disk)'
    BY <2>3, <2>5, <2>7 DEF DatabaseInv, RowsOK
  <2>10. QED
    BY <2>3, <2>8, <2>9 DEF DatabaseInv, WholeCycle
<1>3. ASSUME NEW t \in Thread,
             Commit(t) \/ CommitFails(t) \/ Rollback(t)
      PROVE  DatabaseInv'
  <2>1. /\ pc[t] # "idle" /\ InTransaction(t)
        /\ pc' = [pc EXCEPT ![t] = "idle"]
        /\ ~txn'
    BY <1>3 DEF Commit, CommitFails, Rollback, InTransaction
  <2>2. \A u \in Thread : pc'[u] = "idle"
    BY <2>1, HolderIsAlone DEF TypeOK
  <2>3. \/ conn' = disk /\ disk' = disk
        \/ conn' = conn /\ disk' = conn /\ conn.state = conn.batch
    <3>1. CASE Commit(t)
      <4>1. conn = Capped
        BY <3>1 DEF Commit, DatabaseInv, TxnInv
      <4>2. Capped.state = Capped.batch
        BY <2>1, CycleIsWhole DEF DatabaseInv, TxnInv, TypeOK
      <4>3. QED
        BY <3>1, <4>1, <4>2 DEF Commit
    <3>2. CASE CommitFails(t) \/ Rollback(t)
      BY <3>2 DEF CommitFails, Rollback
    <3>3. QED
      BY <1>3, <3>1, <3>2
  <2>4. TxnInv'
    BY <2>1, <2>2, <2>3 DEF TxnInv, InTransaction
  <2>5. QED
    BY <2>3, <2>4 DEF DatabaseInv, RowsOK, WholeCycle
<1>4. ASSUME NEW t \in Thread,
             \/ EnqueueInsert(t) \/ EnqueueCap(t) \/ EnqueueCapFails(t)
             \/ Pending(t) \/ MarkPublished(t) \/ PrunePublished(t)
             \/ Close(t)
      PROVE  DatabaseInv'
  <2>1. ~txn /\ conn = disk
    <3>1. CASE EnqueueCap(t) \/ EnqueueCapFails(t)
      BY <3>1, HolderIsAlone
         DEF EnqueueCap, EnqueueCapFails, InTransaction, DatabaseInv, TxnInv
    <3>2. CASE lock = NoThread
      BY <3>2, FreeLock DEF DatabaseInv, TxnInv
    <3>3. QED
      BY <1>4, <3>1, <3>2 DEF EnqueueInsert, Pending, MarkPublished,
                              PrunePublished, Close, Available
  <2>2. disk' = conn' /\ txn' = txn
    BY <1>4, <2>1 DEF EnqueueInsert, EnqueueCap, EnqueueCapFails, Pending,
                      MarkPublished, PrunePublished, Close, Execute
  <2>3. RowsOK(conn') /\ conn'.state = conn.state /\ conn'.batch = conn.batch
    <3>1. CASE EnqueueInsert(t)
      <4>1. conn' = WithRow(conn)
        BY <3>1 DEF EnqueueInsert, Execute
      <4>2. QED
        BY <3>1, <4>1, RowAdded DEF EnqueueInsert, DatabaseInv
    <3>2. CASE EnqueueCap(t)
      <4>1. conn' = WithoutExcess(conn)
        BY <3>2 DEF EnqueueCap, Execute
      <4>2. QED
        BY <4>1, ExcessRemoved DEF DatabaseInv
    <3>3. CASE MarkPublished(t)
      <4>1. PICK i \in snap[t] :
                conn' = [conn EXCEPT !.unsent = @ \ {i},
                                     !.sent = @ \cup (conn.unsent \cap {i})]
        BY <3>3 DEF MarkPublished, Execute
      <4>2. RowsOK(conn')
        BY <4>1, RowsSettled DEF DatabaseInv
      <4>3. QED
        BY <4>1, <4>2 DEF DatabaseInv, RowsOK, Database
    <3>4. CASE PrunePublished(t)
      <4>1. PICK stale \in SUBSET conn.sent :
                conn' = [conn EXCEPT !.sent = @ \ stale]
        BY <3>4 DEF PrunePublished, Execute
      <4>2. RowsOK(conn')
        BY <4>1, RowsSettled DEF DatabaseInv
      <4>3. QED
        BY <4>1, <4>2 DEF DatabaseInv, RowsOK, Database
    <3>5. CASE conn' = conn
      BY <3>5 DEF DatabaseInv
    <3>6. QED
      BY <1>4, <3>1, <3>2, <3>3, <3>4, <3>5
         DEF EnqueueCapFails, Pending, Close
  <2>4. LockInv'
    BY <1>4, LockStep DEF Next, Step
  <2>5. TxnInv'
    BY <2>1, <2>2, <2>4 DEF TxnInv, LockInv, InTransaction
  <2>6. QED
    BY <2>1, <2>2, <2>3, <2>5 DEF DatabaseInv, RowsOK, WholeCycle
<1>5. CASE Crash
  BY <1>5 DEF Crash, DatabaseInv, TxnInv, InTransaction, RowsOK, WholeCycle
<1>6. CASE UNCHANGED vars
  <2>1. UNCHANGED <<disk, conn, txn, pc, cycles>>
    BY <1>6 DEF vars
  <2>2. QED
    BY <2>1 DEF DatabaseInv, TxnInv, InTransaction, RowsOK, WholeCycle,
                Recorded, Inserted, Capped
<1>7. QED
  BY <1>1, <1>2, <1>3, <1>4, <1>5, <1>6 DEF Next, Step

\* All that a step does to the disk.
LEMMA DiskSteps ==
    ASSUME TypeOK, LockInv, DatabaseInv, NEW t \in Thread, Step(t)
    PROVE  \/ UNCHANGED <<disk, torn>>
           \/ Commit(t) /\ disk' = Capped /\ torn' = 0
           \/ EnqueueInsert(t) /\ disk' = WithRow(disk) /\ torn' = torn + 1
           \/ EnqueueCap(t) /\ disk' = WithoutExcess(disk) /\ torn' = 0
           \/ /\ MarkPublished(t) /\ torn' = torn
              /\ \E i \in snap[t] :
                    disk' = [disk EXCEPT !.unsent = @ \ {i},
                                         !.sent = @ \cup (disk.unsent \cap {i})]
           \/ /\ PrunePublished(t) /\ torn' = torn
              /\ \E stale \in SUBSET disk.sent :
                    disk' = [disk EXCEPT !.sent = @ \ stale]
<1>1. CASE Record(t) \/ Insert(t) \/ EnforceCap(t)
  <2>1. txn
    BY <1>1, HolderIsAlone DEF Record, Insert, EnforceCap, InTransaction
  <2>2. QED
    BY <1>1, <2>1 DEF Record, Insert, EnforceCap, Execute, history
<1>2. CASE Commit(t)
  BY <1>2 DEF Commit, DatabaseInv, TxnInv
<1>3. CASE EnqueueCap(t)
  <2>1. ~txn /\ conn = disk
    BY <1>3, HolderIsAlone DEF EnqueueCap, InTransaction, DatabaseInv, TxnInv
  <2>2. QED
    BY <1>3, <2>1 DEF EnqueueCap, Execute
<1>4. CASE EnqueueInsert(t) \/ MarkPublished(t) \/ PrunePublished(t)
  <2>1. ~txn /\ conn = disk
    BY <1>4, FreeLock DEF EnqueueInsert, MarkPublished, PrunePublished,
                          Available, DatabaseInv, TxnInv
  <2>2. CASE EnqueueInsert(t)
    BY <2>1, <2>2 DEF EnqueueInsert, Execute
  <2>3. CASE MarkPublished(t)
    BY <2>1, <2>3 DEF MarkPublished, Execute, history
  <2>4. CASE PrunePublished(t)
    BY <2>1, <2>4 DEF PrunePublished, Execute, history
  <2>5. QED
    BY <1>4, <2>2, <2>3, <2>4
<1>5. CASE \/ Begin(t) \/ CommitFails(t) \/ Rollback(t)
           \/ EnqueueCapFails(t) \/ Pending(t) \/ Close(t)
  BY <1>5 DEF Begin, CommitFails, Rollback, EnqueueCapFails, Pending, Close,
                 history
<1>6. QED
  BY <1>1, <1>2, <1>3, <1>4, <1>5 DEF Step

\* Ids that were handed out stay so, and what the cap took stays gone.
LEMMA DiskGrows ==
    ASSUME TypeOK, LockInv, DatabaseInv, [Next]_vars
    PROVE  /\ disk.last \in Nat /\ disk'.last \in Nat
           /\ disk.last <= disk'.last
           /\ disk.evicted \subseteq disk'.evicted
<1>1. disk.last \in Nat
  BY DEF TypeOK, Database
<1>2. ASSUME NEW t \in Thread, Step(t)
      PROVE  disk'.last \in {disk.last, disk.last + 1}
             /\ disk.evicted \subseteq disk'.evicted
  <2>1. CASE disk' = disk
    BY <2>1
  <2>2. CASE Commit(t) /\ disk' = Capped
    <3>1. disk.last < MaxId /\ cycles \in 0..MaxCycles
      BY <2>2 DEF Commit, DatabaseInv, TxnInv, InTransaction, TypeOK
    <3>2. QED
      BY <2>2, <3>1, CycleIsWhole DEF DatabaseInv
  <2>3. CASE EnqueueInsert(t) /\ disk' = WithRow(disk)
    <3>1. disk.last < MaxId
      BY <2>3, FreeLock DEF EnqueueInsert, Available, DatabaseInv, TxnInv
    <3>2. QED
      BY <2>3, <3>1, RowAdded DEF DatabaseInv
  <2>4. CASE disk' = WithoutExcess(disk)
    BY <2>4, ExcessRemoved DEF DatabaseInv
  <2>5. CASE \E i : disk' = [disk EXCEPT !.unsent = @ \ {i},
                                 !.sent = @ \cup (disk.unsent \cap {i})]
    BY <2>5 DEF TypeOK, Database
  <2>6. CASE \E stale : disk' = [disk EXCEPT !.sent = @ \ stale]
    BY <2>6 DEF TypeOK, Database
  <2>7. QED
    BY <1>2, <2>1, <2>2, <2>3, <2>4, <2>5, <2>6, DiskSteps
<1>3. CASE Crash \/ UNCHANGED vars
  BY <1>1, <1>3 DEF Crash, vars
<1>4. QED
  BY <1>1, <1>2, <1>3 DEF Next

\* pending() runs while the lock is free, and then nothing is uncommitted.
LEMMA ReadsStep ==
    ASSUME TypeOK, LockInv, DatabaseInv, ReadsOnlyCommitted, [Next]_vars
    PROVE  ReadsOnlyCommitted'
<1>1. \A u \in Thread : snap'[u] \subseteq snap[u] \cup 1..disk.last
  <2>1. ASSUME NEW t \in Thread, Pending(t)
        PROVE  \A u \in Thread : snap'[u] \subseteq snap[u] \cup 1..disk.last
    <3>1. conn = disk
      BY <2>1, FreeLock DEF Pending, Available, DatabaseInv, TxnInv
    <3>2. Oldest(conn.unsent, Limit) \subseteq 1..disk.last
      BY <3>1 DEF Oldest, DatabaseInv, RowsOK
    <3>3. QED
      BY <2>1, <3>2 DEF Pending, TypeOK
  <2>2. ASSUME NEW t \in Thread, MarkPublished(t)
        PROVE  \A u \in Thread : snap'[u] \subseteq snap[u]
    BY <2>2 DEF MarkPublished, TypeOK
  <2>3. CASE Crash
    BY <2>3 DEF Crash
  <2>4. CASE UNCHANGED snap
    BY <2>4
  <2>5. QED
    BY <2>1, <2>2, <2>3, <2>4
       DEF Next, Step, Begin, Record, Insert, EnforceCap, Commit, CommitFails,
           Rollback, EnqueueInsert, EnqueueCap, EnqueueCapFails,
           PrunePublished, Close, memory, vars
<1>2. 1..disk.last \subseteq 1..disk'.last
  BY DiskGrows
<1>3. QED
  BY <1>1, <1>2 DEF ReadsOnlyCommitted

-----------------------------------------------------------------------------
(* The cap and its counter.                                                *)

LEMMA BacklogStep ==
    ASSUME TypeOK, LockInv, DatabaseInv, BacklogBounded, [Next]_vars
    PROVE  BacklogBounded'
<1>1. /\ Cardinality(disk.unsent) \in Nat /\ IsFiniteSet(disk.unsent)
      /\ torn \in Nat /\ Cap \in Nat
  BY RowsFinite DEF TypeOK, Database
<1>2. ASSUME NEW t \in Thread, Step(t)
      PROVE  BacklogBounded'
  <2>1. CASE UNCHANGED <<disk, torn>>
    BY <2>1 DEF BacklogBounded
  <2>2. CASE Commit(t) /\ disk' = Capped /\ torn' = 0
    <3>1. disk.last < MaxId /\ cycles \in 0..MaxCycles
      BY <2>2 DEF Commit, DatabaseInv, TxnInv, InTransaction, TypeOK
    <3>2. QED
      BY <1>1, <2>2, <3>1, CycleIsWhole DEF DatabaseInv, BacklogBounded
  <2>3. CASE EnqueueInsert(t) /\ disk' = WithRow(disk) /\ torn' = torn + 1
    <3>1. disk.last < MaxId
      BY <2>3, FreeLock DEF EnqueueInsert, Available, DatabaseInv, TxnInv
    <3>2. disk'.unsent = disk.unsent \cup {disk.last + 1}
      BY <2>3, <3>1, RowAdded DEF DatabaseInv
    <3>3. Cardinality(disk'.unsent) <= Cardinality(disk.unsent) + 1
      <4>1. Cardinality(disk.unsent \cup {disk.last + 1})
              \in {Cardinality(disk.unsent), Cardinality(disk.unsent) + 1}
        BY <1>1, FS_AddElement
      <4>2. QED
        BY <1>1, <3>2, <4>1
    <3>4. Cardinality(disk'.unsent) \in Nat
      BY <1>1, <3>2, FS_AddElement, FS_CardinalityType
    <3>5. QED
      BY <1>1, <2>3, <3>3, <3>4 DEF BacklogBounded
  <2>4. CASE disk' = WithoutExcess(disk) /\ torn' = 0
    BY <1>1, <2>4, ExcessRemoved DEF DatabaseInv, BacklogBounded
  <2>5. CASE disk'.unsent \subseteq disk.unsent /\ torn' = torn
    <3>1. Cardinality(disk'.unsent) <= Cardinality(disk.unsent)
      BY <1>1, <2>5, FS_Subset
    <3>2. Cardinality(disk'.unsent) \in Nat
      BY <1>1, <2>5, FS_Subset, FS_CardinalityType
    <3>3. QED
      BY <1>1, <2>5, <3>1, <3>2 DEF BacklogBounded
  <2>6. ASSUME NEW i, disk' = [disk EXCEPT !.unsent = @ \ {i},
                                   !.sent = @ \cup (disk.unsent \cap {i})]
        PROVE  disk'.unsent \subseteq disk.unsent
    BY <2>6 DEF TypeOK, Database
  <2>7. ASSUME NEW stale, disk' = [disk EXCEPT !.sent = @ \ stale]
        PROVE  disk'.unsent \subseteq disk.unsent
    BY <2>7 DEF TypeOK, Database
  <2>8. QED
    BY <1>2, <2>1, <2>2, <2>3, <2>4, <2>5, <2>6, <2>7, DiskSteps
<1>3. CASE Crash \/ UNCHANGED vars
  BY <1>3 DEF Crash, vars, BacklogBounded
<1>4. QED
  BY <1>2, <1>3 DEF Next

LEMMA RowInserted ==
    ASSUME TypeOK, LockInv, DatabaseInv, NEW t \in Thread,
           Insert(t) \/ EnqueueInsert(t)
    PROVE  /\ conn'.unsent = conn.unsent \cup {conn.last + 1}
           /\ conn'.evicted = conn.evicted
<1>1. CASE EnqueueInsert(t)
  BY <1>1, RowAdded DEF EnqueueInsert, Execute, DatabaseInv
<1>2. CASE Insert(t)
  <2>1. disk.last < MaxId /\ conn = Recorded
    BY <1>2 DEF Insert, DatabaseInv, TxnInv, InTransaction
  <2>2. conn.last < MaxId
    BY <2>1, CycleIsWhole DEF DatabaseInv, TypeOK
  <2>3. QED
    BY <1>2, <2>2, BatchQueued DEF Insert, Execute, DatabaseInv
<1>3. QED
  BY <1>1, <1>2

\* All that a step does to the rows that were evicted and to their counter.
LEMMA CountedSteps ==
    ASSUME TypeOK, LockInv, DatabaseInv, NEW t \in Thread, Step(t)
    PROVE  /\ UNCHANGED atBoot
           /\ \/ UNCHANGED <<dropped, cancelled>> /\ conn'.evicted = conn.evicted
              \/ /\ conn'.evicted = conn.evicted \cup Excess(conn.unsent, Cap)
                 /\ dropped' = dropped + Cardinality(Excess(conn.unsent, Cap))
                 /\ UNCHANGED cancelled
              \/ conn' = disk /\ UNCHANGED dropped /\ cancelled' = cancelled + 1
<1>1. UNCHANGED atBoot
  BY DEF Step, Begin, Record, Insert, EnforceCap, Commit, CommitFails, Rollback,
         EnqueueInsert, EnqueueCap, EnqueueCapFails, Pending, MarkPublished,
         PrunePublished, Close, history
<1>2. CASE EnforceCap(t) \/ EnqueueCap(t)
  <2>1. /\ conn' = WithoutExcess(conn)
        /\ dropped' = dropped + Cardinality(Excess(conn.unsent, Cap))
        /\ UNCHANGED cancelled
    BY <1>2 DEF EnforceCap, EnqueueCap, Execute, history
  <2>2. QED
    BY <1>1, <2>1, ExcessRemoved DEF DatabaseInv
<1>3. CASE CommitFails(t)
  BY <1>1, <1>3 DEF CommitFails, memory
<1>4. CASE Rollback(t)
  <2>1. InTransaction(t) /\ conn \in {disk, Recorded, Inserted}
    BY <1>4 DEF Rollback, InTransaction, DatabaseInv, TxnInv
  <2>2. conn.evicted = disk.evicted
    BY <2>1, CycleIsWhole DEF DatabaseInv, TxnInv, TypeOK
  <2>3. QED
    BY <1>1, <1>4, <2>2 DEF Rollback, memory, history
<1>5. CASE Insert(t) \/ EnqueueInsert(t)
  BY <1>1, <1>5, RowInserted DEF Insert, EnqueueInsert, memory, history
<1>6. CASE Record(t) \/ MarkPublished(t) \/ PrunePublished(t)
  <2>1. conn'.evicted = conn.evicted
    BY <1>6 DEF Record, MarkPublished, PrunePublished, Execute, TypeOK, Database
  <2>2. QED
    BY <1>1, <1>6, <2>1
       DEF Record, MarkPublished, PrunePublished, memory, history
<1>7. CASE Begin(t) \/ Commit(t) \/ EnqueueCapFails(t) \/ Pending(t) \/ Close(t)
  BY <1>1, <1>7
     DEF Begin, Commit, EnqueueCapFails, Pending, Close, memory, history
<1>8. QED
  BY <1>2, <1>3, <1>4, <1>5, <1>6, <1>7 DEF Step

\* The connection has lost all that the disk has lost.
LEMMA ConnectionAhead ==
    ASSUME TypeOK, LockInv, DatabaseInv
    PROVE  disk.evicted \subseteq conn.evicted
<1>1. CASE ~txn
  BY <1>1 DEF DatabaseInv, TxnInv
<1>2. ASSUME NEW t \in Thread, InTransaction(t)
      PROVE  disk.evicted \subseteq conn.evicted
  <2>1. /\ disk.last < MaxId /\ cycles \in 0..MaxCycles
        /\ conn \in {disk, Recorded, Inserted, Capped}
    BY <1>2 DEF InTransaction, DatabaseInv, TxnInv, TypeOK
  <2>2. QED
    BY <2>1, CycleIsWhole DEF DatabaseInv
<1>3. QED
  BY <1>1, <1>2 DEF LockInv

LEMMA DropStep ==
    ASSUME TypeOK, LockInv, DatabaseInv, DropInv, [Next]_vars
    PROVE  DropInv'
<1> DEFINE lost == conn.evicted \ atBoot
<1>1. /\ IsFiniteSet(lost) /\ Cardinality(lost) \in Nat
      /\ dropped \in Nat /\ cancelled \in Nat
  <2>1. lost \in SUBSET (1..MaxId) /\ dropped \in Nat /\ cancelled \in Nat
    BY DEF TypeOK, Database
  <2> HIDE DEF lost
  <2>2. QED
    BY <2>1, RowsFinite
<1>2. disk.evicted \subseteq disk'.evicted
  BY DiskGrows
<1>3. ASSUME NEW t \in Thread, Step(t)
      PROVE  DropInv'
  <2>1. atBoot' = atBoot /\ atBoot' \subseteq disk'.evicted
    BY <1>2, <1>3, CountedSteps DEF DropInv
  <2>2. CASE UNCHANGED <<dropped, cancelled>> /\ conn'.evicted = conn.evicted
    BY <2>1, <2>2 DEF DropInv
  <2>3. CASE /\ conn'.evicted = conn.evicted \cup Excess(conn.unsent, Cap)
             /\ dropped' = dropped + Cardinality(Excess(conn.unsent, Cap))
             /\ UNCHANGED cancelled
    <3> DEFINE gone == Excess(conn.unsent, Cap)
    <3>1. gone \subseteq conn.unsent
      BY DEF Excess
    <3>2. gone \in SUBSET (1..MaxId) /\ gone \cap conn.evicted = {}
      BY <3>1 DEF DatabaseInv, RowsOK, Database
    <3>3. IsFiniteSet(gone) /\ Cardinality(gone) \in Nat
      BY <3>2, RowsFinite
    <3>4. atBoot \subseteq conn.evicted
      BY ConnectionAhead DEF DropInv
    <3> HIDE DEF gone
    <3>5. conn'.evicted \ atBoot' = lost \cup gone /\ lost \cap gone = {}
      BY <2>1, <2>3, <3>2, <3>4 DEF gone
    <3> HIDE DEF lost
    <3>6. Cardinality(lost \cup gone) = Cardinality(lost) + Cardinality(gone)
      <4>1. Cardinality(lost \cap gone) = 0
        BY <3>5, FS_EmptySet
      <4>2. Cardinality(lost \cup gone)
              = Cardinality(lost) + Cardinality(gone) - Cardinality(lost \cap gone)
        BY <1>1, <3>3, FS_Union
      <4>3. QED
        BY <1>1, <3>3, <4>1, <4>2
    <3>7. /\ dropped >= Cardinality(lost)
          /\ cancelled = 0 => dropped = Cardinality(lost)
      BY DEF DropInv, lost
    <3>8. /\ dropped' = dropped + Cardinality(gone)
          /\ cancelled' = cancelled
      BY <2>3 DEF gone
    <3>9. /\ dropped' >= Cardinality(conn'.evicted \ atBoot')
          /\ cancelled' = 0 => dropped' = Cardinality(conn'.evicted \ atBoot')
      BY <1>1, <3>3, <3>5, <3>6, <3>7, <3>8
    <3>10. QED
      BY <2>1, <3>9 DEF DropInv
  <2>4. CASE conn' = disk /\ UNCHANGED dropped /\ cancelled' = cancelled + 1
    <3>1. disk.evicted \ atBoot \in SUBSET lost
      BY ConnectionAhead
    <3>2. Cardinality(disk.evicted \ atBoot) <= Cardinality(lost)
          /\ Cardinality(disk.evicted \ atBoot) \in Nat
      BY <1>1, <3>1, FS_Subset, FS_CardinalityType
    <3>3. dropped' >= Cardinality(conn'.evicted \ atBoot')
      BY <1>1, <2>1, <2>4, <3>2 DEF DropInv
    <3>4. cancelled' # 0
      BY <1>1, <2>4
    <3>5. QED
      BY <2>1, <3>3, <3>4 DEF DropInv
  <2>5. QED
    BY <1>3, <2>2, <2>3, <2>4, CountedSteps
<1>4. CASE Crash
  <2>1. conn'.evicted \ atBoot' = {} /\ dropped' = 0 /\ cancelled' = 0
        /\ atBoot' \subseteq disk'.evicted
    BY <1>4 DEF Crash
  <2>2. QED
    BY <2>1, FS_EmptySet DEF DropInv
<1>5. CASE UNCHANGED vars
  BY <1>5 DEF vars, DropInv
<1>6. QED
  BY <1>3, <1>4, <1>5 DEF Next

-----------------------------------------------------------------------------
(* The theorems.                                                           *)

LEMMA StoreInit == Init => StoreInv
<1> SUFFICES ASSUME Init PROVE StoreInv
  OBVIOUS
<1>1. LockInv /\ DatabaseInv
  BY LockInvInit, DatabaseInit
<1>2. TypeOK
  <2>1. disk \in Database /\ conn \in Database
    BY <1>1 DEF DatabaseInv, RowsOK
  <2>2. /\ lock \in Thread \cup {NoThread}
        /\ pc \in [Thread -> {"idle", "begun", "recorded", "inserted", "capped",
                              "queued"}]
        /\ snap \in [Thread -> SUBSET (1..MaxId)]
        /\ atBoot \in SUBSET (1..MaxId)
    BY DEF Init
  <2>3. txn \in BOOLEAN /\ closed \in BOOLEAN
    BY DEF Init
  <2>4. /\ dropped \in Nat /\ torn \in Nat /\ cancelled \in Nat
        /\ cycles \in 0..MaxCycles /\ crashes \in 0..MaxCrashes
    BY DEF Init
  <2>5. QED
    BY <2>1, <2>2, <2>3, <2>4 DEF TypeOK
<1>3. ReadsOnlyCommitted
  BY DEF Init, ReadsOnlyCommitted
<1>4. disk.unsent = {} /\ disk.evicted = {} /\ conn.evicted \ atBoot = {}
  BY DEF Init, Empty
<1>5. DropInv /\ BacklogBounded
  BY <1>4, FS_EmptySet DEF Init, DropInv, BacklogBounded
<1>6. QED
  BY <1>1, <1>2, <1>3, <1>5 DEF StoreInv

LEMMA TypesStep ==
    ASSUME TypeOK, DatabaseInv', [Next]_vars
    PROVE  TypeOK'
<1>1. disk' \in Database /\ conn' \in Database
  BY DEF DatabaseInv, RowsOK
<1>2. Cardinality(Excess(conn.unsent, Cap)) \in Nat
  <2>1. Excess(conn.unsent, Cap) \in SUBSET (1..MaxId)
    BY DEF Excess, TypeOK, Database
  <2>2. QED
    BY <2>1, RowsFinite
<1>3. Oldest(conn.unsent, Limit) \subseteq 1..MaxId
  BY DEF Oldest, TypeOK, Database
<1>4. ASSUME NEW t \in Thread, Step(t)
      PROVE  TypeOK'
  <2>1. CASE Begin(t)
    BY <1>1, <2>1 DEF TypeOK, Begin, memory, history
  <2>2. CASE Record(t) \/ Insert(t)
    <3>1. \/ pc' = [pc EXCEPT ![t] = "recorded"]
          \/ pc' = [pc EXCEPT ![t] = "inserted"]
      BY <2>2 DEF Record, Insert
    <3>2. UNCHANGED <<txn, lock, cycles, memory, history>>
      BY <2>2 DEF Record, Insert
    <3>3. QED
      BY <1>1, <3>1, <3>2 DEF TypeOK, memory, history
  <2>8. CASE Commit(t) \/ CommitFails(t) \/ Rollback(t) \/ EnqueueCapFails(t)
    <3>1. /\ pc' = [pc EXCEPT ![t] = "idle"]
          /\ lock' = NoThread /\ txn' \in BOOLEAN
      BY <2>8 DEF Commit, CommitFails, Rollback, EnqueueCapFails, TypeOK
    <3>4. torn' \in Nat /\ cancelled' \in Nat
      <4>1. /\ torn' = torn \/ torn' = 0
            /\ cancelled' = cancelled \/ cancelled' = cancelled + 1
        BY <2>8 DEF Commit, CommitFails, Rollback, EnqueueCapFails, history
      <4>2. QED
        BY <4>1 DEF TypeOK
    <3>2. UNCHANGED <<cycles, memory, crashes, atBoot>>
      BY <2>8 DEF Commit, CommitFails, Rollback, EnqueueCapFails, history
    <3>3. QED
      BY <1>1, <3>1, <3>2, <3>4 DEF TypeOK, memory
  <2>9. CASE EnqueueInsert(t)
    BY <1>1, <2>9 DEF TypeOK, EnqueueInsert, memory
  <2>10. CASE Close(t)
    BY <1>1, <2>10 DEF TypeOK, Close, history
  <2>3. CASE EnforceCap(t) \/ EnqueueCap(t)
    <3>1. /\ pc' = [pc EXCEPT ![t] = "capped"] \/ pc' = [pc EXCEPT ![t] = "idle"]
          /\ lock' = NoThread \/ UNCHANGED lock
          /\ dropped' = dropped + Cardinality(Excess(conn.unsent, Cap))
          /\ torn' = 0 \/ UNCHANGED torn
          /\ UNCHANGED <<txn, cycles, snap, closed, crashes, atBoot, cancelled>>
      BY <2>3 DEF EnforceCap, EnqueueCap, history
    <3>2. dropped' \in Nat /\ torn' \in Nat
      BY <1>2, <3>1 DEF TypeOK
    <3>3. QED
      BY <1>1, <3>1, <3>2 DEF TypeOK
  <2>4. CASE Pending(t)
    BY <1>3, <2>4 DEF TypeOK, Pending, history
  <2>5. CASE MarkPublished(t)
    BY <1>1, <2>5 DEF TypeOK, MarkPublished, history
  <2>6. CASE PrunePublished(t)
    BY <1>1, <2>6 DEF TypeOK, PrunePublished, memory, history
  <2>7. QED
    BY <1>4, <2>1, <2>2, <2>3, <2>4, <2>5, <2>6, <2>8, <2>9, <2>10 DEF Step
<1>5. CASE Crash
  <2>1. disk.evicted \in SUBSET (1..MaxId)
    BY DEF TypeOK, Database
  <2>2. crashes + 1 \in 0..MaxCrashes
    BY <1>5 DEF TypeOK, Crash
  <2>3. QED
    BY <1>1, <1>5, <2>1, <2>2 DEF TypeOK, Crash
<1>6. CASE UNCHANGED vars
  BY <1>6 DEF TypeOK, vars
<1>7. QED
  BY <1>4, <1>5, <1>6 DEF Next

LEMMA StoreStep ==
    ASSUME StoreInv, [Next]_vars
    PROVE  StoreInv'
<1>1. LockInv' /\ DatabaseInv'
  BY LockStep, DatabaseStep DEF StoreInv
<1>2. TypeOK'
  BY <1>1, TypesStep DEF StoreInv
<1>3. ReadsOnlyCommitted' /\ DropInv' /\ BacklogBounded'
  BY ReadsStep, DropStep, BacklogStep DEF StoreInv
<1>4. QED
  BY <1>1, <1>2, <1>3 DEF StoreInv

\* The database, the lock and the counter keep their types.
THEOREM StoreTypeCorrect == Spec => []TypeOK
<1>1. StoreInv => TypeOK
  BY DEF StoreInv
<1>2. QED
  BY <1>1, StoreInit, StoreStep, PTL DEF Spec

\* Whatever the threads do, fails or is cut off: a sampling cycle is on disk
\* whole or not at all, nobody reads what may be rolled back, and the backlog
\* exceeds the cap only by the enqueues that were cut off.
THEOREM StoreSafe ==
    Spec => [](WholeCycle /\ ReadsOnlyCommitted /\ BacklogBounded)
<1>1. StoreInv => WholeCycle /\ ReadsOnlyCommitted /\ BacklogBounded
  BY DEF StoreInv, DatabaseInv
<1>2. QED
  BY <1>1, StoreInit, StoreStep, PTL DEF Spec

\* Between two methods the counter tells of every row that the cap took since
\* the start, and of no other unless a COMMIT failed.
THEOREM DropsAreCounted == Spec => []NoSilentDrop
<1>1. StoreInv => NoSilentDrop
  <2> SUFFICES ASSUME StoreInv, lock = NoThread
               PROVE  /\ dropped >= EvictedSinceBoot
                      /\ cancelled = 0 => dropped = EvictedSinceBoot
    BY DEF NoSilentDrop
  <2>1. conn = disk
    BY FreeLock DEF StoreInv, DatabaseInv, TxnInv
  <2>2. QED
    BY <2>1 DEF StoreInv, DropInv, EvictedSinceBoot
<1>2. QED
  BY <1>1, StoreInit, StoreStep, PTL DEF Spec

\* No rollback and no power loss makes a confirmed row owed again.
THEOREM ConfirmedForGood == Spec => ConfirmedStaysConfirmed
<1>1. ASSUME StoreInv, [Next]_vars
      PROVE  conn.sent \cap conn'.unsent = {} \/ UNCHANGED vars
  <2>1. TypeOK /\ LockInv /\ DatabaseInv
    BY <1>1 DEF StoreInv
  <2>2. conn.sent \cap conn.unsent = {}
        /\ disk.sent \cap disk.unsent = {}
    BY <2>1 DEF DatabaseInv, RowsOK
  <2>3. conn.sent = disk.sent
    <3>1. CASE ~txn
      BY <2>1, <3>1 DEF DatabaseInv, TxnInv
    <3>2. ASSUME NEW t \in Thread, InTransaction(t)
          PROVE  conn.sent = disk.sent
      <4>1. /\ disk.last < MaxId /\ cycles \in 0..MaxCycles
            /\ conn \in {disk, Recorded, Inserted, Capped}
        BY <2>1, <3>2 DEF InTransaction, DatabaseInv, TxnInv, TypeOK
      <4>2. QED
        BY <2>1, <4>1, CycleIsWhole DEF DatabaseInv
    <3>3. QED
      BY <2>1, <3>1, <3>2 DEF LockInv
  <2>4. CASE conn' \in {conn, disk}
    BY <2>2, <2>3, <2>4
  <2>5. ASSUME NEW t \in Thread, Insert(t) \/ EnqueueInsert(t)
        PROVE  conn.sent \cap conn'.unsent = {}
    <3>2. conn'.unsent = conn.unsent \cup {conn.last + 1}
      BY <2>1, <2>5, RowInserted
    <3>3. conn.last + 1 \notin conn.sent
      <4>1. conn.last \in Nat /\ conn.sent \subseteq 1..conn.last
        BY <2>1 DEF DatabaseInv, RowsOK, Database
      <4>2. QED
        BY <4>1
    <3>4. QED
      BY <2>2, <3>2, <3>3
  <2>6. ASSUME NEW t \in Thread,
               \/ Record(t) \/ EnforceCap(t) \/ EnqueueCap(t)
               \/ MarkPublished(t) \/ PrunePublished(t)
        PROVE  conn.sent \cap conn'.unsent = {}
    <3>1. conn'.unsent \subseteq conn.unsent
      <4>1. CASE Record(t) \/ PrunePublished(t)
        BY <2>1, <4>1 DEF Record, PrunePublished, Execute, TypeOK, Database
      <4>4. CASE MarkPublished(t)
        <5>1. PICK i \in snap[t] :
                  conn' = [conn EXCEPT !.unsent = @ \ {i},
                                       !.sent = @ \cup (conn.unsent \cap {i})]
          BY <4>4 DEF MarkPublished, Execute
        <5>2. QED
          BY <2>1, <5>1 DEF TypeOK, Database
      <4>2. CASE EnforceCap(t) \/ EnqueueCap(t)
        BY <2>1, <4>2, ExcessRemoved DEF EnforceCap, EnqueueCap, Execute,
                                         DatabaseInv
      <4>3. QED
        BY <2>6, <4>1, <4>2, <4>4
    <3>2. QED
      BY <2>2, <3>1
  <2>7. QED
    BY <1>1, <2>4, <2>5, <2>6
       DEF Next, Step, Crash, Begin, Commit, CommitFails, Rollback,
           EnqueueCapFails, Pending, Close, vars
<1>2. QED
  BY <1>1, StoreInit, StoreStep, PTL DEF Spec, ConfirmedStaysConfirmed

-----------------------------------------------------------------------------
(* The statements implement Outbox.                                        *)

\* The row of an enqueue that is not complete is the newest on disk.
QueuedInv == \A t \in Thread : pc[t] = "queued" => disk.last \in disk.unsent

LEMMA QueuedStep ==
    ASSUME StoreInv, QueuedInv, [Next]_vars
    PROVE  QueuedInv'
<1>1. TypeOK /\ LockInv /\ DatabaseInv
  BY DEF StoreInv
<1>2. ASSUME NEW t \in Thread, EnqueueInsert(t)
      PROVE  disk'.last \in disk'.unsent
  <2>1. ~txn /\ conn = disk
    BY <1>1, <1>2, FreeLock
       DEF EnqueueInsert, Available, DatabaseInv, TxnInv
  <2>2. disk' = WithRow(disk) /\ disk.last < MaxId
    BY <1>2, <2>1 DEF EnqueueInsert, Execute
  <2>3. QED
    BY <1>1, <2>2, RowAdded DEF DatabaseInv
<1>3. ASSUME NEW t \in Thread, Step(t), ~EnqueueInsert(t),
             NEW u \in Thread, pc'[u] = "queued"
      PROVE  disk' = disk /\ pc[u] = "queued"
  <2>1. pc[u] = "queued"
    BY <1>1, <1>3
       DEF TypeOK, Step, Begin, Record, Insert, EnforceCap, Commit, CommitFails,
           Rollback, EnqueueCap, EnqueueCapFails, Pending, MarkPublished,
           PrunePublished, Close
  <2>2. lock = u /\ lock # NoThread
    BY <1>1, <2>1, HolderIsAlone
  <2>3. ~(t # u /\ pc[t] # "idle")
    BY <1>1, <2>2, HolderIsAlone
  <2>4. t # u
    BY <1>1, <1>3, <2>1, <2>2
       DEF TypeOK, Step, Begin, Record, Insert, EnforceCap, Commit, CommitFails,
           Rollback, EnqueueCap, EnqueueCapFails, Pending, MarkPublished,
           PrunePublished, Close, Available
  <2>5. QED
    BY <1>3, <2>2, <2>3, <2>4
       DEF Step, Begin, Record, Insert, EnforceCap, Commit, CommitFails,
           Rollback, EnqueueCap, EnqueueCapFails, Pending, MarkPublished,
           PrunePublished, Close, Available
<1>4. CASE Crash \/ UNCHANGED vars
  BY <1>4 DEF Crash, vars, QueuedInv
<1>5. QED
  BY <1>2, <1>3, <1>4 DEF Next, QueuedInv

\* An enqueue that is complete, or was cut off, adds its row to the abstract
\* table, and every other step is one statement on the disk or none.
LEMMA StepImplements ==
    ASSUME StoreInv, QueuedInv, [Next]_vars
    PROVE  [O!Next]_(O!outboxVars)
<1>1. TypeOK /\ LockInv /\ DatabaseInv /\ ReadsOnlyCommitted
  BY DEF StoreInv
<1>2. /\ disk.last \in 0..MaxId /\ disk.unsent \subseteq 1..disk.last
      /\ disk.last + 1 \notin disk.unsent
  <2>1. disk.last \in 0..MaxId /\ disk.unsent \subseteq 1..disk.last
    BY <1>1 DEF DatabaseInv, RowsOK, Database
  <2>2. QED
    BY <2>1
<1>3. ASSUME UNCHANGED disk, Inserting' = Inserting
      PROVE  UNCHANGED O!outboxVars
  BY <1>3 DEF O!outboxVars
<1>4. ASSUME Inserting, ~Inserting', UNCHANGED disk
      PROVE  O!TornEnqueue
  <2>1. disk.last \in disk.unsent
    BY <1>4 DEF Inserting, QueuedInv
  <2>2. (disk.unsent \ {disk.last}) \cup {disk.last} = disk.unsent
    BY <2>1
  <2>3. disk.last - 1 < MaxId /\ disk.last - 1 + 1 = disk.last
    BY <1>2
  <2>4. QED
    BY <1>4, <2>2, <2>3 DEF O!TornEnqueue
<1>5. ASSUME NEW t \in Thread, EnqueueInsert(t)
      PROVE  UNCHANGED O!outboxVars
  <2>1. /\ ~txn /\ conn = disk
        /\ ~Inserting
    BY <1>1, <1>5, FreeLock
       DEF EnqueueInsert, Available, DatabaseInv, TxnInv, Inserting
  <2>2. Inserting'
    BY <1>1, <1>5 DEF EnqueueInsert, TypeOK, Inserting
  <2>3. disk' = WithRow(disk) /\ disk.last < MaxId
    BY <1>5, <2>1 DEF EnqueueInsert, Execute
  <2>4. /\ disk'.last = disk.last + 1
        /\ disk'.unsent = disk.unsent \cup {disk.last + 1}
        /\ disk'.sent = disk.sent /\ disk'.evicted = disk.evicted
    BY <1>1, <2>3, RowAdded DEF DatabaseInv
  <2>5. /\ disk'.last - 1 = disk.last
        /\ disk'.unsent \ {disk'.last} = disk.unsent
    BY <1>2, <2>4
  <2>6. QED
    BY <2>1, <2>2, <2>4, <2>5 DEF O!outboxVars
<1>6. ASSUME NEW t \in Thread, EnqueueCap(t)
      PROVE  O!Enqueue
  <2>1. /\ ~txn /\ conn = disk
        /\ Inserting /\ ~Inserting'
    <3>1. pc[t] = "queued" /\ pc' = [pc EXCEPT ![t] = "idle"]
      BY <1>6 DEF EnqueueCap
    <3>2. /\ \A u \in Thread \ {t} : pc[u] = "idle"
          /\ ~txn
      BY <1>1, <3>1, HolderIsAlone DEF InTransaction
    <3>3. QED
      BY <1>1, <3>1, <3>2 DEF TypeOK, Inserting, DatabaseInv, TxnInv
  <2>2. disk' = WithoutExcess(disk)
    BY <1>6, <2>1 DEF EnqueueCap, Execute
  <2>3. /\ disk'.last = disk.last
        /\ disk'.unsent = disk.unsent \ Excess(disk.unsent, Cap)
        /\ disk'.sent = disk.sent
        /\ disk'.evicted = disk.evicted \cup Excess(disk.unsent, Cap)
    BY <1>1, <2>2, ExcessRemoved DEF DatabaseInv
  <2>4. disk.last \in disk.unsent
    BY <2>1 DEF Inserting, QueuedInv
  <2>5. (disk.unsent \ {disk.last}) \cup {disk.last - 1 + 1} = disk.unsent
    BY <1>2, <2>4
  <2>6. disk.last - 1 < MaxId /\ disk.last - 1 + 1 = disk.last
    BY <1>2
  <2>7. O!Excess(disk.unsent, Cap) = Excess(disk.unsent, Cap)
    BY DEF O!Excess, Excess, O!Cardinality, Cardinality
  <2>8. QED
    BY <2>1, <2>3, <2>5, <2>6, <2>7 DEF O!Enqueue
<1>7. ASSUME NEW t \in Thread, Commit(t)
      PROVE  O!Enqueue
  <2>1. ~Inserting /\ ~Inserting'
    BY <1>1, <1>7, HolderIsAlone DEF Commit, TypeOK, Inserting
  <2>2. /\ disk' = Capped
        /\ disk.last < MaxId /\ cycles \in 0..MaxCycles
    BY <1>1, <1>7 DEF Commit, DatabaseInv, TxnInv, InTransaction, TypeOK
  <2> DEFINE rows == disk.unsent \cup {disk.last + 1}
  <2>3. /\ disk'.last = disk.last + 1
        /\ disk'.unsent = rows \ Excess(rows, Cap)
        /\ disk'.sent = disk.sent
        /\ disk'.evicted = disk.evicted \cup Excess(rows, Cap)
    BY <1>1, <2>2, CycleIsWhole DEF DatabaseInv
  <2>4. O!Excess(rows, Cap) = Excess(rows, Cap)
    BY DEF O!Excess, Excess, O!Cardinality, Cardinality
  <2>5. QED
    BY <2>1, <2>2, <2>3, <2>4 DEF O!Enqueue
<1>8. ASSUME NEW t \in Thread, MarkPublished(t) \/ PrunePublished(t)
      PROVE  O!Next
  <2>1. /\ ~txn /\ conn = disk
        /\ ~Inserting /\ ~Inserting'
    BY <1>1, <1>8, FreeLock
       DEF MarkPublished, PrunePublished, Available, DatabaseInv, TxnInv,
           Inserting
  <2>2. CASE MarkPublished(t)
    <3>1. PICK i \in snap[t] :
              disk' = [disk EXCEPT !.unsent = @ \ {i},
                                   !.sent = @ \cup (disk.unsent \cap {i})]
      BY <2>1, <2>2 DEF MarkPublished, Execute
    <3>2. /\ disk'.unsent = disk.unsent \ {i}
          /\ disk'.sent = disk.sent \cup (disk.unsent \cap {i})
          /\ disk'.last = disk.last /\ disk'.evicted = disk.evicted
      BY <1>1, <3>1 DEF TypeOK, Database
    <3>3. i \in 1..disk.last
      BY <1>1 DEF ReadsOnlyCommitted
    <3>4. O!MarkPublished(i)
      BY <2>1, <3>2 DEF O!MarkPublished
    <3>5. QED
      BY <2>1, <3>3, <3>4 DEF O!Next
  <2>3. CASE PrunePublished(t)
    <3>1. PICK stale \in SUBSET disk.sent :
              disk' = [disk EXCEPT !.sent = @ \ stale]
      BY <2>1, <2>3 DEF PrunePublished, Execute
    <3>2. /\ disk'.sent = disk.sent \ stale /\ disk'.unsent = disk.unsent
          /\ disk'.last = disk.last /\ disk'.evicted = disk.evicted
      BY <1>1, <3>1 DEF TypeOK, Database
    <3>3. O!PrunePublished(stale)
      BY <2>1, <3>2 DEF O!PrunePublished
    <3>4. QED
      BY <3>3 DEF O!Next
  <2>4. QED
    BY <1>8, <2>2, <2>3
<1>9. ASSUME NEW t \in Thread,
             \/ Begin(t) \/ Record(t) \/ Insert(t) \/ EnforceCap(t)
             \/ CommitFails(t) \/ Rollback(t) \/ Pending(t) \/ Close(t)
      PROVE  UNCHANGED O!outboxVars
  <2>1. UNCHANGED disk
    <3>1. CASE Record(t) \/ Insert(t) \/ EnforceCap(t)
      <4>1. txn
        BY <1>1, <3>1, HolderIsAlone
           DEF Record, Insert, EnforceCap, InTransaction
      <4>2. QED
        BY <3>1, <4>1 DEF Record, Insert, EnforceCap, Execute
    <3>2. QED
      BY <1>9, <3>1 DEF Begin, CommitFails, Rollback, Pending, Close
  <2>2. (~Inserting /\ ~Inserting') \/ UNCHANGED pc
    <3>1. CASE Begin(t)
      BY <1>1, <3>1, FreeLock DEF Begin, Available, TypeOK, Inserting
    <3>2. CASE Record(t) \/ Insert(t) \/ EnforceCap(t) \/ CommitFails(t)
               \/ Rollback(t)
      <4>1. /\ pc[t] \notin {"idle", "queued"}
            /\ \E p \in {"recorded", "inserted", "capped", "idle"} :
                  pc' = [pc EXCEPT ![t] = p]
        BY <3>2 DEF Record, Insert, EnforceCap, CommitFails, Rollback
      <4>2. \A u \in Thread \ {t} : pc[u] = "idle"
        BY <1>1, <4>1, HolderIsAlone
      <4>3. QED
        BY <1>1, <4>1, <4>2 DEF TypeOK, Inserting
    <3>3. CASE Pending(t) \/ Close(t)
      BY <3>3 DEF Pending, Close
    <3>4. QED
      BY <1>9, <3>1, <3>2, <3>3
  <2>3. Inserting' = Inserting
    BY <2>2 DEF Inserting
  <2>4. QED
    BY <1>3, <2>1, <2>3
<1>10. ASSUME NEW t \in Thread, EnqueueCapFails(t)
       PROVE  O!TornEnqueue
  <2>1. Inserting /\ ~Inserting' /\ UNCHANGED disk
    BY <1>1, <1>10, HolderIsAlone DEF EnqueueCapFails, TypeOK, Inserting
  <2>2. QED
    BY <1>4, <2>1
<1>11. CASE Crash
  <2>1. ~Inserting' /\ UNCHANGED disk
    BY <1>11 DEF Crash, Inserting
  <2>2. CASE Inserting
    BY <1>4, <2>1, <2>2 DEF O!Next
  <2>3. CASE ~Inserting
    <3>1. UNCHANGED O!outboxVars
      BY <2>1, <2>3 DEF O!outboxVars
    <3>2. QED
      BY <3>1
  <2>4. QED
    BY <2>2, <2>3
<1>12. CASE UNCHANGED vars
  <2>1. UNCHANGED disk /\ Inserting' = Inserting
    BY <1>12 DEF vars, Inserting
  <2>2. QED
    BY <1>3, <2>1
<1>13. QED
  BY <1>5, <1>6, <1>7, <1>8, <1>9, <1>10, <1>11, <1>12 DEF Next, Step, O!Next

\* Every crash, rollback and interleaving of the statements looks to the
\* callers of the store like the atomic operations of Outbox on the disk.
THEOREM StoreImplementsOutbox == Spec => OutboxSpec
<1>1. Init => O!Init
  BY DEF Init, Empty, Inserting, O!Init
<1>2. Init => QueuedInv
  BY DEF Init, QueuedInv
<1>3. QED
  BY <1>1, <1>2, StoreInit, StoreStep, QueuedStep, StepImplements, PTL
     DEF Spec, OutboxSpec, O!Spec

=============================================================================
