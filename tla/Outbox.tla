------------------------------- MODULE Outbox -------------------------------
(***************************************************************************)
(* What the outbox table promises its users: every operation of store.py   *)
(* that changes the table is one atomic step on the rows that are on disk. *)
(*                                                                         *)
(* Store shows that the SQL statements behind these steps implement this   *)
(* module, and Agent builds its threads out of these steps.                *)
(***************************************************************************)
EXTENDS OutboxOps

CONSTANTS
    Cap,      \* max_outbox_entries
    MaxId     \* bound of the model: how many rows are ever inserted

ASSUME CapAssumption == Cap \in Nat
ASSUME MaxIdAssumption == MaxId \in Nat

VARIABLES
    last,     \* the newest id handed out (sqlite_sequence)
    unsent,   \* ids of the rows with published_at IS NULL
    sent,     \* ids of the rows with a published_at
    evicted   \* history: ids the cap has deleted unpublished

outboxVars == <<last, unsent, sent, evicted>>

Init ==
    /\ last = 0
    /\ unsent = {}
    /\ sent = {}
    /\ evicted = {}

-----------------------------------------------------------------------------
\* INSERT, then _enforce_cap: the new row may push older unsent rows out.
Enqueue ==
    /\ last < MaxId
    /\ last' = last + 1
    /\ LET rows == unsent \cup {last + 1}
           dropped == Excess(rows, Cap)
       IN  /\ unsent' = rows \ dropped
           /\ evicted' = evicted \cup dropped
    /\ UNCHANGED sent

\* The registration is enqueued outside a transaction, so its INSERT commits
\* on its own: the process can end before the cap is enforced.
TornEnqueue ==
    /\ last < MaxId
    /\ last' = last + 1
    /\ unsent' = unsent \cup {last + 1}
    /\ UNCHANGED <<sent, evicted>>

\* UPDATE ... WHERE id = i AND published_at IS NULL: nothing happens to a row
\* that is already confirmed, or that the cap has deleted meanwhile.
MarkPublished(i) ==
    /\ unsent' = unsent \ {i}
    /\ sent' = sent \cup (unsent \cap {i})
    /\ UNCHANGED <<last, evicted>>

\* DELETE of the confirmed rows that are older than the retention window.
PrunePublished(stale) ==
    /\ stale \subseteq sent
    /\ sent' = sent \ stale
    /\ UNCHANGED <<last, unsent, evicted>>

Next ==
    \/ Enqueue
    \/ TornEnqueue
    \/ \E i \in 1..last : MarkPublished(i)
    \/ \E stale \in SUBSET sent : PrunePublished(stale)

Spec == Init /\ [][Next]_outboxVars

-----------------------------------------------------------------------------
TypeOK ==
    /\ last \in 0..MaxId
    /\ unsent \subseteq 1..last
    /\ sent \subseteq 1..last
    /\ evicted \subseteq 1..last

\* A row is waiting, or confirmed, or evicted, never two of these: a
\* confirmation that comes after the eviction of its row does not bring the
\* row back, and a row that was counted as lost is not also kept.
OneFate ==
    /\ unsent \cap sent = {}
    /\ unsent \cap evicted = {}
    /\ sent \cap evicted = {}

=============================================================================
