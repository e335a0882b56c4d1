------------------------------ MODULE Delivery ------------------------------
(***************************************************************************)
(* What the agent promises the cloud, without threads, links or crashes:   *)
(* the operations of the outbox, where an entry is confirmed only after    *)
(* the broker has it, and the broker gets nothing but entries that were    *)
(* queued.  Agent implements this module.                                  *)
(***************************************************************************)
EXTENDS Outbox

VARIABLE
    arrived   \* ids of the entries the broker has accepted at least once

deliveryVars == <<last, unsent, sent, evicted, arrived>>

DInit == Init /\ arrived = {}

Queue == (Enqueue \/ TornEnqueue) /\ UNCHANGED arrived

\* Again and again, and also after the entry was evicted: delivery is
\* at-least-once, and a copy that is under way cannot be called back.
Arrive ==
    /\ \E i \in 1..last : arrived' = arrived \cup {i}
    /\ UNCHANGED outboxVars

Settle == (\E i \in arrived : MarkPublished(i)) /\ UNCHANGED arrived

Forget ==
    (\E stale \in SUBSET sent : PrunePublished(stale)) /\ UNCHANGED arrived

DNext == Queue \/ Arrive \/ Settle \/ Forget

DSpec == DInit /\ [][DNext]_deliveryVars

-----------------------------------------------------------------------------
DTypeOK == TypeOK /\ arrived \subseteq 1..last

\* Confirmed, then forgotten (publisher.py:6): a row counts as published
\* only if the broker has it.
ConfirmedWasReceived == sent \subseteq arrived

\* Nothing disappears in silence: every entry ever queued is still owed, or
\* has reached the broker, or was evicted by the cap.
NoSilentLoss == 1..last \subseteq unsent \cup arrived \cup evicted

\* The cap drops the oldest (store.py:88-92): whatever is still waiting is
\* newer than everything that was given up.
OldestGoFirst == \A i \in evicted, j \in unsent : i < j

=============================================================================
