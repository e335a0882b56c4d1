------------------------------- MODULE Store --------------------------------
(***************************************************************************)
(* store.py, statement by statement.  The threads of the agent share one   *)
(* SQLite connection behind a re-entrant lock.  Outside a transaction      *)
(* every statement commits on its own; inside BEGIN ... COMMIT the changes *)
(* of *any* statement on the connection, whichever thread runs it, are     *)
(* only visible on the connection until COMMIT, and ROLLBACK undoes them.  *)
(*                                                                         *)
(* A method that runs a single statement under the lock is one step that   *)
(* needs the lock to be free.  A method that runs several holds the lock   *)
(* from its first step to its last.                                        *)
(***************************************************************************)
EXTENDS OutboxOps

CONSTANTS
    Thread,       \* the threads that call the store
    NoThread,     \* nobody: the lock is free
    Cap,          \* max_outbox_entries
    Limit,        \* the limit of pending()
    MaxId,        \* bound of the model: ids of outbox rows
    MaxCycles,    \* bound of the model: sampling cycles begun
    MaxCrashes    \* bound of the model: power losses

ASSUME NoThreadAssumption == NoThread \notin Thread
ASSUME StoreNatAssumption ==
    {Cap, Limit, MaxId, MaxCycles, MaxCrashes} \subseteq Nat

VARIABLES
    disk,      \* the committed database
    conn,      \* the database as the shared connection sees it
    txn,       \* a transaction is open on the connection
    lock,      \* who holds Store._lock
    pc,        \* how far each thread is in a method of several statements
    snap,      \* what the last pending() of each thread returned
    dropped,   \* Store._dropped_entries
    closed,    \* the connection is closed
    cycles,    \* sampling cycles begun, the captured_at of their readings
    crashes,   \* bound of the model
    atBoot,    \* history: the rows evicted before this process started
    torn,      \* history: INSERTs since the cap was last enforced on disk
    cancelled  \* history: COMMITs that failed in this process

vars == <<disk, conn, txn, lock, pc, snap, dropped, closed, cycles, crashes,
          atBoot, torn, cancelled>>

memory == <<snap, dropped, closed>>
history == <<crashes, atBoot, torn, cancelled>>

\* The rows of outbox by id, and for asset_state the sampling cycle whose
\* readings it holds.  batch is the cycle of the newest telemetry row,
\* evicted the rows that _enforce_cap deleted; both are history.
Database ==
    [last : 0..MaxId,
     unsent : SUBSET (1..MaxId),
     sent : SUBSET (1..MaxId),
     evicted : SUBSET (1..MaxId),
     state : 0..MaxCycles,
     batch : 0..MaxCycles]

Empty ==
    [last |-> 0, unsent |-> {}, sent |-> {}, evicted |-> {},
     state |-> 0, batch |-> 0]

Init ==
    /\ disk = Empty
    /\ conn = Empty
    /\ txn = FALSE
    /\ lock = NoThread
    /\ pc = [t \in Thread |-> "idle"]
    /\ snap = [t \in Thread |-> {}]
    /\ dropped = 0
    /\ closed = FALSE
    /\ cycles = 0
    /\ crashes = 0
    /\ atBoot = {}
    /\ torn = 0
    /\ cancelled = 0

-----------------------------------------------------------------------------
(* The connection.                                                         *)

\* Runs a statement whose effect on the connection's view is db.
Execute(db) ==
    /\ conn' = db
    /\ disk' = IF txn THEN disk ELSE db

WithRow(db) ==
    [db EXCEPT !.last = @ + 1, !.unsent = @ \cup {db.last + 1}]

WithoutExcess(db) ==
    LET excess == Excess(db.unsent, Cap)
    IN  [db EXCEPT !.unsent = @ \ excess, !.evicted = @ \cup excess]

\* Broken variant: the statements do not take the lock.
AvailableUnlocked(t) == ~closed /\ pc[t] = "idle"

\* Thread t is between methods, and the lock is free for it to take.
Available(t) == ~closed /\ pc[t] = "idle" /\ lock = NoThread

-----------------------------------------------------------------------------
(* transaction(), as SamplingRunner.sample_once uses it: BEGIN IMMEDIATE,  *)
(* record_all, enqueue, COMMIT.                                            *)

\* Broken variant: the statements of the block run in autocommit.
BeginNothing(t) ==
    /\ Available(t)
    /\ cycles < MaxCycles
    /\ conn.last < MaxId
    /\ lock' = t
    /\ pc' = [pc EXCEPT ![t] = "begun"]
    /\ cycles' = cycles + 1
    /\ UNCHANGED <<txn, disk, conn, memory, history>>

Begin(t) ==
    /\ Available(t)
    /\ cycles < MaxCycles
    /\ conn.last < MaxId
    /\ lock' = t
    /\ txn' = TRUE
    /\ pc' = [pc EXCEPT ![t] = "begun"]
    /\ cycles' = cycles + 1
    /\ UNCHANGED <<disk, conn, memory, history>>

Record(t) ==
    /\ pc[t] = "begun"
    /\ Execute([conn EXCEPT !.state = cycles])
    /\ pc' = [pc EXCEPT ![t] = "recorded"]
    /\ UNCHANGED <<txn, lock, cycles, memory, history>>

Insert(t) ==
    /\ pc[t] = "recorded"
    /\ Execute([WithRow(conn) EXCEPT !.batch = conn.state])
    /\ pc' = [pc EXCEPT ![t] = "inserted"]
    /\ UNCHANGED <<txn, lock, cycles, memory, history>>

\* Broken variant: the counter is moved by the room that is left.
EnforceCapSigned(t) ==
    /\ pc[t] = "inserted"
    /\ Execute(WithoutExcess(conn))
    /\ dropped' = (dropped + Cap) - Cardinality(conn.unsent)
    /\ pc' = [pc EXCEPT ![t] = "capped"]
    /\ UNCHANGED <<txn, lock, cycles, snap, closed, history>>

\* The rows deleted are added to the counter when the DELETE returns, inside
\* the transaction.
EnforceCap(t) ==
    /\ pc[t] = "inserted"
    /\ Execute(WithoutExcess(conn))
    /\ dropped' = dropped + Cardinality(Excess(conn.unsent, Cap))
    /\ pc' = [pc EXCEPT ![t] = "capped"]
    /\ UNCHANGED <<txn, lock, cycles, snap, closed, history>>

Commit(t) ==
    /\ pc[t] = "capped"
    /\ disk' = conn
    /\ txn' = FALSE
    /\ lock' = NoThread
    /\ pc' = [pc EXCEPT ![t] = "idle"]
    /\ torn' = 0
    /\ UNCHANGED <<conn, cycles, memory, crashes, atBoot, cancelled>>

\* A COMMIT that cannot write the log (disk full) makes SQLite roll back and
\* raises outside the try block.  The counter keeps what the DELETE added.
CommitFails(t) ==
    /\ pc[t] = "capped"
    /\ conn' = disk
    /\ txn' = FALSE
    /\ lock' = NoThread
    /\ pc' = [pc EXCEPT ![t] = "idle"]
    /\ cancelled' = cancelled + 1
    /\ UNCHANGED <<disk, cycles, memory, crashes, atBoot, torn>>

\* Broken variant: the except branch commits what there is.
RollbackKeeps(t) ==
    /\ pc[t] \in {"begun", "recorded", "inserted"}
    /\ disk' = conn
    /\ txn' = FALSE
    /\ lock' = NoThread
    /\ pc' = [pc EXCEPT ![t] = "idle"]
    /\ UNCHANGED <<conn, cycles, memory, history>>

\* A statement of the block raises, and so the block is rolled back.
Rollback(t) ==
    /\ pc[t] \in {"begun", "recorded", "inserted"}
    /\ conn' = disk
    /\ txn' = FALSE
    /\ lock' = NoThread
    /\ pc' = [pc EXCEPT ![t] = "idle"]
    /\ UNCHANGED <<disk, cycles, memory, history>>

-----------------------------------------------------------------------------
(* enqueue() on its own, as Publisher.publish_now uses it.                 *)

EnqueueInsert(t) ==
    /\ Available(t)
    /\ conn.last < MaxId
    /\ lock' = t
    /\ Execute(WithRow(conn))
    /\ pc' = [pc EXCEPT ![t] = "queued"]
    /\ torn' = torn + 1
    /\ UNCHANGED <<txn, cycles, memory, crashes, atBoot, cancelled>>

\* Broken variant: the rows deleted are not counted.
EnqueueCapSilent(t) ==
    /\ pc[t] = "queued"
    /\ Execute(WithoutExcess(conn))
    /\ lock' = NoThread
    /\ pc' = [pc EXCEPT ![t] = "idle"]
    /\ torn' = 0
    /\ UNCHANGED <<txn, cycles, memory, crashes, atBoot, cancelled>>

EnqueueCap(t) ==
    /\ pc[t] = "queued"
    /\ Execute(WithoutExcess(conn))
    /\ dropped' = dropped + Cardinality(Excess(conn.unsent, Cap))
    /\ lock' = NoThread
    /\ pc' = [pc EXCEPT ![t] = "idle"]
    /\ torn' = 0
    /\ UNCHANGED <<txn, cycles, snap, closed, crashes, atBoot, cancelled>>

\* The DELETE raises; the row that was inserted stays.
EnqueueCapFails(t) ==
    /\ pc[t] = "queued"
    /\ lock' = NoThread
    /\ pc' = [pc EXCEPT ![t] = "idle"]
    /\ UNCHANGED <<disk, conn, txn, cycles, memory, history>>

-----------------------------------------------------------------------------
(* The methods of one statement.                                           *)

\* Broken variant: the SELECT runs without the lock.
PendingUnlocked(t) ==
    /\ AvailableUnlocked(t)
    /\ snap' = [snap EXCEPT ![t] = Oldest(conn.unsent, Limit)]
    /\ UNCHANGED <<disk, conn, txn, lock, pc, dropped, closed, cycles, history>>

Pending(t) ==
    /\ Available(t)
    /\ snap' = [snap EXCEPT ![t] = Oldest(conn.unsent, Limit)]
    /\ UNCHANGED <<disk, conn, txn, lock, pc, dropped, closed, cycles, history>>

\* Broken variant: the UPDATE runs without the lock.
MarkPublishedUnlocked(t) ==
    /\ AvailableUnlocked(t)
    /\ \E i \in snap[t] :
          /\ Execute([conn EXCEPT !.unsent = @ \ {i},
                                  !.sent = @ \cup (conn.unsent \cap {i})])
          /\ snap' = [snap EXCEPT ![t] = @ \ {i}]
    /\ UNCHANGED <<txn, lock, pc, dropped, closed, cycles, history>>

\* An entry of the last pending() is confirmed.  Rows that are confirmed
\* already, or gone, match nothing.
MarkPublished(t) ==
    /\ Available(t)
    /\ \E i \in snap[t] :
          /\ Execute([conn EXCEPT !.unsent = @ \ {i},
                                  !.sent = @ \cup (conn.unsent \cap {i})])
          /\ snap' = [snap EXCEPT ![t] = @ \ {i}]
    /\ UNCHANGED <<txn, lock, pc, dropped, closed, cycles, history>>

\* Which confirmed rows are old enough is up to the wall clock.
PrunePublished(t) ==
    /\ Available(t)
    /\ \E stale \in SUBSET conn.sent :
          /\ stale # {}
          /\ Execute([conn EXCEPT !.sent = @ \ stale])
    /\ UNCHANGED <<txn, lock, pc, memory, cycles, history>>

Close(t) ==
    /\ Available(t)
    /\ closed' = TRUE
    /\ UNCHANGED <<disk, conn, txn, lock, pc, snap, dropped, cycles, history>>

\* The process dies, or ends with its threads still running, and a new one
\* opens the file: what was not committed is gone, and so is the counter.
Crash ==
    /\ crashes < MaxCrashes
    /\ crashes' = crashes + 1
    /\ conn' = disk
    /\ txn' = FALSE
    /\ lock' = NoThread
    /\ pc' = [t \in Thread |-> "idle"]
    /\ snap' = [t \in Thread |-> {}]
    /\ dropped' = 0
    /\ closed' = FALSE
    /\ atBoot' = disk.evicted
    /\ cancelled' = 0
    /\ UNCHANGED <<disk, cycles, torn>>

-----------------------------------------------------------------------------
Step(t) ==
    \/ Begin(t)
    \/ Record(t)
    \/ Insert(t)
    \/ EnforceCap(t)
    \/ Commit(t)
    \/ CommitFails(t)
    \/ Rollback(t)
    \/ EnqueueInsert(t)
    \/ EnqueueCap(t)
    \/ EnqueueCapFails(t)
    \/ Pending(t)
    \/ MarkPublished(t)
    \/ PrunePublished(t)
    \/ Close(t)

Next == Crash \/ \E t \in Thread : Step(t)

Spec == Init /\ [][Next]_vars
-----------------------------------------------------------------------------
TypeOK ==
    /\ disk \in Database
    /\ conn \in Database
    /\ txn \in BOOLEAN
    /\ lock \in Thread \cup {NoThread}
    /\ pc \in [Thread -> {"idle", "begun", "recorded", "inserted", "capped",
                          "queued"}]
    /\ snap \in [Thread -> SUBSET (1..MaxId)]
    /\ dropped \in Nat
    /\ closed \in BOOLEAN
    /\ cycles \in 0..MaxCycles
    /\ crashes \in 0..MaxCrashes
    /\ atBoot \in SUBSET (1..MaxId)
    /\ torn \in Nat
    /\ cancelled \in Nat

\* A sampling cycle lands whole or not at all (store.py:157): after a crash,
\* a failed statement or a failed COMMIT, asset_state never tells of readings
\* for which no telemetry batch was queued, or the other way round.
WholeCycle == disk.state = disk.batch

\* pending() never returns a row that a rollback may still take back: the
\* publisher would send readings that the machine's own record denies, under
\* an id that a later row gets again.
ReadsOnlyCommitted == \A t \in Thread : snap[t] \subseteq 1..disk.last

\* The cap bounds what is on disk.  Only rows whose enqueue was cut off after
\* its INSERT exceed it, and the next enqueue that completes takes them too.
BacklogBounded == Cardinality(disk.unsent) <= Cap + torn

EvictedSinceBoot == Cardinality(disk.evicted \ atBoot)

\* dropped_entries never tells of less loss than there was, and is exact as
\* long as no COMMIT failed: a crash or a rollback between the DELETE of
\* _enforce_cap and the counter leaves no row that is lost and not counted.
NoSilentDrop ==
    lock = NoThread =>
        /\ dropped >= EvictedSinceBoot
        /\ cancelled = 0 => dropped = EvictedSinceBoot

\* A row that mark_published has confirmed is never owed to the broker
\* again, whatever is rolled back or lost afterwards (store.py:270, and
\* synchronous=FULL at store.py:131).
ConfirmedStaysConfirmed == [][conn.sent \cap conn'.unsent = {}]_vars

\* The statements implement the atomic operations of Outbox.  While an
\* enqueue outside a transaction has its row inserted and its cap not yet
\* enforced, the lock hides the row from everybody: it is added to the
\* abstract table when the cap is enforced, or when the method is cut off.
Inserting == \E t \in Thread : pc[t] = "queued"

O == INSTANCE Outbox WITH
        last    <- IF Inserting THEN disk.last - 1 ELSE disk.last,
        unsent  <- IF Inserting THEN disk.unsent \ {disk.last} ELSE disk.unsent,
        sent    <- disk.sent,
        evicted <- disk.evicted

\* Every crash, rollback and interleaving of the statements of store.py looks
\* to its callers like the atomic operations of Outbox on the disk.
OutboxSpec == O!Spec

=============================================================================
