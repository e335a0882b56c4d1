------------------------------ MODULE OutboxOps ------------------------------
(***************************************************************************)
(* The two selections that store.py makes among the unpublished rows of    *)
(* the outbox table.  A row is known by its AUTOINCREMENT id: the ids are  *)
(* never reused after a commit, and a smaller id is an older row.          *)
(***************************************************************************)
EXTENDS Naturals, FiniteSets

\* Broken variant: a cap that is one row too generous.
ExcessOffByOne(rows, cap) ==
    {i \in rows : Cardinality({j \in rows : j > i}) > cap}

\* What _enforce_cap deletes: the oldest rows, as many as exceed the cap.
\* A row goes when at least cap newer rows stay behind it.
Excess(rows, cap) ==
    {i \in rows : Cardinality({j \in rows : j > i}) >= cap}

\* Broken variant: ORDER BY id DESC.
OldestReversed(rows, limit) ==
    {i \in rows : Cardinality({j \in rows : j > i}) < limit}

\* What pending(limit) selects: the limit oldest rows.
Oldest(rows, limit) ==
    {i \in rows : Cardinality({j \in rows : j < i}) < limit}

=============================================================================
