---------------------------- MODULE AgentProofs -----------------------------
(***************************************************************************)
(* The agent for every cap, batch size, number of entries and number of    *)
(* faults: it implements Delivery, and so keeps all that Delivery          *)
(* promises; its loops are Loops, and the store outlives them; and what    *)
(* reaches the broker reaches it in order, with nothing skipped.           *)
(***************************************************************************)
EXTENDS Agent, DeliveryProofs, SequenceTheorems

USE CapAssumption, MaxIdAssumption, BatchAssumption, MaxFaultsAssumption

\* The inductive invariant: types, and who waits for which message.  The
\* second part is what makes a confirmation trustworthy: without it the
\* acknowledgement of an older message could be taken for the current one's.
AgentInv == ATypeOK /\ QueueMatchesDrains

-----------------------------------------------------------------------------
(* Every step is a step of Delivery.                                       *)

LEMMA DrainStepIsDeliveryStep ==
    ASSUME AgentInv, NEW d \in Drainer, DrainStep(d)
    PROVE  [DNext]_deliveryVars
<1>1. CASE DrainOffline(d) \/ DrainBegin(d) \/ Send(d) \/ SendRefused(d)
           \/ Unanswered(d) \/ ConfirmFails(d)
  BY <1>1 DEF DrainOffline, DrainBegin, Send, SendRefused, Unanswered,
              ConfirmFails
<1>2. CASE Confirm(d)
  <2>1. cur[d] \in arrived
    BY <1>2 DEF AgentInv, QueueMatchesDrains, Confirm
  <2>2. QED
    BY <1>2, <2>1 DEF Confirm, Confirmed, DNext, Settle
<1>3. CASE Prune(d)
  BY <1>3 DEF Prune, DNext, Forget
<1>4. QED
  BY <1>1, <1>2, <1>3 DEF DrainStep

LEMMA BrokerStepIsDeliveryStep ==
    ASSUME AgentInv, LinkUp \/ LinkDown \/ BrokerReceives \/ BrokerAcks
    PROVE  [DNext]_deliveryVars
<1>1. CASE LinkUp \/ LinkDown \/ BrokerAcks
  BY <1>1 DEF LinkUp, LinkDown, BrokerAcks
<1>2. CASE BrokerReceives
  <2> DEFINE next == outq[reached + 1]
  <2>1. /\ outq \in Seq(Message)
        /\ reached \in 0..Len(outq)
        /\ last \in 0..MaxId
        /\ \A k \in 1..Len(outq) : outq[k].id <= last
    BY DEF AgentInv, ATypeOK, ClientTypeOK, DTypeOK, TypeOK
  <2>2. reached + 1 \in 1..Len(outq)
    <3>1. Len(outq) \in Nat
      BY <2>1, LenProperties
    <3>2. reached < Len(outq)
      BY <1>2 DEF BrokerReceives
    <3>3. QED
      BY <2>1, <3>1, <3>2
  <2>3. next.id \in 1..last
    <3>1. next \in Message /\ next.id <= last
      BY <2>1, <2>2
    <3>2. QED
      BY <2>1, <3>1 DEF Message
  <2>4. QED
    BY <1>2, <2>3 DEF BrokerReceives, DNext, Arrive
<1>3. QED
  BY <1>1, <1>2

LEMMA LoopStepIsDeliveryStep ==
    ASSUME \/ SamplerTick \/ SamplerCommit \/ SamplerFails \/ PublisherTick
           \/ \E l \in Loop : ThreadEnds(l)
    PROVE  [DNext]_deliveryVars
<1>1. CASE SamplerCommit
  BY <1>1 DEF SamplerCommit, DNext, Queue
<1>2. CASE SamplerTick \/ SamplerFails \/ PublisherTick
  BY <1>2 DEF SamplerTick, SamplerFails, PublisherTick
<1>3. CASE \E l \in Loop : ThreadEnds(l)
  BY <1>3 DEF ThreadEnds
<1>4. QED
  BY <1>1, <1>2, <1>3

LEMMA MainStepIsDeliveryStep ==
    ASSUME MainStep \/ Crash \/ CrashInAnnounce
    PROVE  [DNext]_deliveryVars
<1>1. CASE Announce
  BY <1>1 DEF Announce, DNext, Queue
<1>2. CASE Boot \/ StartLoops \/ StopSampler \/ JoinSampler \/ JoinPublisher
           \/ StopClient \/ CloseStore
  BY <1>2 DEF Boot, StartLoops, StopSampler, JoinSampler, JoinPublisher,
              StopClient, CloseStore
<1>3. CASE Exit \/ Crash
  BY <1>3 DEF Exit, Crash, ProcessEnds, deliveryVars, outboxVars
<1>4. CASE CrashInAnnounce
  BY <1>4 DEF CrashInAnnounce, ProcessEnds, DNext, Queue
<1>5. QED
  BY <1>1, <1>2, <1>3, <1>4 DEF MainStep

LEMMA AgentStepIsDeliveryStep ==
    ASSUME AgentInv, [ANext]_vars
    PROVE  [DNext]_deliveryVars
<1>1. CASE ANext
  BY <1>1, DrainStepIsDeliveryStep, BrokerStepIsDeliveryStep,
     LoopStepIsDeliveryStep, MainStepIsDeliveryStep DEF ANext
<1>2. CASE UNCHANGED vars
  BY <1>2 DEF vars, deliveryVars
<1>3. QED
  BY <1>1, <1>2

-----------------------------------------------------------------------------
(* Types.                                                                  *)

LEMMA AgentInvInit == AInit => AgentInv
<1> SUFFICES ASSUME AInit
             PROVE  AgentInv
  OBVIOUS
<1>1. DTypeOK
  BY DEF AInit, DInit, Init, DTypeOK, TypeOK
<1>2. ProcessTypeOK
  <2>1. 0 \in 0..MaxFaults
    OBVIOUS
  <2>2. QED
    BY <2>1 DEF AInit, ProcessTypeOK
<1>3. DrainTypeOK
  <2>1. last = 0
    BY DEF AInit, DInit, Init
  <2>2. 0 \in 0..last
    BY <2>1
  <2>3. QED
    BY <2>2 DEF AInit, DrainTypeOK
<1>4. ClientTypeOK
  <2>1. outq = <<>> /\ reached = 0 /\ link = FALSE
    BY DEF AInit
  <2>2. outq \in Seq(Message) /\ Len(outq) = 0
    BY <2>1, EmptySeq
  <2>3. 0 \in 0..Len(outq) /\ 1..Len(outq) = {}
    BY <2>2
  <2>4. QED
    BY <2>1, <2>2, <2>3 DEF ClientTypeOK
<1>5. QueueMatchesDrains
  BY DEF AInit, QueueMatchesDrains, Drainer
<1>6. QED
  BY <1>1, <1>2, <1>3, <1>4, <1>5 DEF AgentInv, ATypeOK

\* Registrations get the id that is handed out, and faults are counted.
LEMMA AgentStepCounts ==
    ASSUME [ANext]_vars
    PROVE  /\ \/ regs' = regs
              \/ regs' = regs \cup {last + 1} /\ last' = last + 1
           /\ UNCHANGED faults \/ Fault
<1> USE DEF bounds, NoFault
<1>1. ASSUME NEW d \in Drainer, DrainStep(d)
      PROVE  regs' = regs /\ (UNCHANGED faults \/ Fault)
  BY <1>1 DEF DrainStep, DrainOffline, DrainBegin, Send, SendRefused,
              Unanswered, Confirm, Confirmed, ConfirmFails, Prune
<1>2. CASE LinkUp \/ LinkDown \/ BrokerReceives \/ BrokerAcks
  BY <1>2 DEF LinkUp, LinkDown, BrokerReceives, BrokerAcks
<1>3. CASE SamplerTick \/ SamplerCommit \/ SamplerFails \/ PublisherTick
  BY <1>3 DEF SamplerTick, SamplerCommit, SamplerFails, PublisherTick
<1>4. CASE \E l \in Loop : ThreadEnds(l)
  BY <1>4 DEF ThreadEnds
<1>5. CASE Announce
  BY <1>5 DEF Announce, Enqueue
<1>6. CASE Boot \/ StartLoops \/ StopSampler \/ JoinSampler \/ JoinPublisher
           \/ StopClient \/ CloseStore
  BY <1>6 DEF Boot, StartLoops, StopSampler, JoinSampler, JoinPublisher,
              StopClient, CloseStore
<1>7. CASE Exit \/ Crash
  BY <1>7 DEF Exit, Crash
<1>8. CASE CrashInAnnounce
  BY <1>8 DEF CrashInAnnounce, TornEnqueue
<1>9. CASE UNCHANGED vars
  BY <1>9 DEF vars
<1>10. QED
  BY <1>1, <1>2, <1>3, <1>4, <1>5, <1>6, <1>7, <1>8, <1>9 DEF ANext, MainStep

LEMMA ProcessTypesPreserved ==
    ASSUME AgentInv, [ANext]_vars, DTypeOK', last <= last'
    PROVE  ProcessTypeOK'
<1>1. ProcessTypeOK /\ last \in Nat /\ last' \in Nat
  BY DEF AgentInv, ATypeOK, DTypeOK, TypeOK
<1>2. regs' \subseteq 1..last'
  <2>1. regs \subseteq 1..last
    BY <1>1 DEF ProcessTypeOK
  <2>2. CASE regs' = regs
    BY <1>1, <2>1, <2>2
  <2>3. CASE regs' = regs \cup {last + 1} /\ last' = last + 1
    BY <1>1, <2>1, <2>3
  <2>4. QED
    BY <2>2, <2>3, AgentStepCounts
<1>3. faults' \in 0..MaxFaults
  <2>1. faults \in 0..MaxFaults
    BY <1>1 DEF ProcessTypeOK
  <2>2. CASE UNCHANGED faults
    BY <2>1, <2>2
  <2>3. CASE Fault
    BY <2>1, <2>3 DEF Fault
  <2>4. QED
    BY <2>2, <2>3, AgentStepCounts
<1> DEFINE Control ==
        /\ phase \in {"off", "starting", "announcing", "running",
                      "stopping sampler", "stopping publisher", "draining",
                      "closing", "done"}
        /\ alive \subseteq Loop /\ stopping \subseteq Loop
        /\ joined \subseteq Loop
        /\ sampling \in BOOLEAN /\ closed \in BOOLEAN
        /\ overran \in BOOLEAN
<1>4. Control
  BY <1>1 DEF ProcessTypeOK
<1>5. Control'
  <2> USE <1>4 DEF process, bounds
  <2>1. ASSUME NEW d \in Drainer, DrainStep(d)
        PROVE  Control'
    <3>1. CASE Confirm(d)
      BY <3>1 DEF Confirm, Confirmed
    <3>2. CASE ~Confirm(d)
      BY <2>1, <3>2 DEF DrainStep, DrainOffline, DrainBegin, Send,
                        SendRefused, Unanswered, ConfirmFails, Prune
    <3>3. QED
      BY <3>1, <3>2
  <2>2. CASE LinkUp \/ LinkDown \/ BrokerReceives \/ BrokerAcks
    BY <2>2 DEF LinkUp, LinkDown, BrokerReceives, BrokerAcks
  <2>3. CASE SamplerTick \/ SamplerCommit \/ SamplerFails \/ PublisherTick
    BY <2>3 DEF SamplerTick, SamplerCommit, SamplerFails, PublisherTick
  <2>4. CASE \E l \in Loop : ThreadEnds(l)
    BY <2>4 DEF ThreadEnds
  <2>5. CASE Boot \/ Announce \/ StartLoops
    BY <2>5 DEF Boot, Announce, StartLoops
  <2>6. CASE StopSampler \/ StopClient
    BY <2>6 DEF StopSampler, StopClient, Loop
  <2>7. CASE JoinSampler
    BY <2>7 DEF JoinSampler, Loop
  <2>8. CASE JoinPublisher
    BY <2>8 DEF JoinPublisher, Loop
  <2>9. CASE CloseStore
    BY <2>9 DEF CloseStore
  <2>10. CASE Exit \/ Crash \/ CrashInAnnounce
    BY <2>10 DEF Exit, Crash, CrashInAnnounce, ProcessEnds
  <2>11. CASE UNCHANGED vars
    BY <2>11 DEF vars
  <2>12. QED
    BY <2>1, <2>2, <2>3, <2>4, <2>5, <2>6, <2>7, <2>8, <2>9, <2>10, <2>11
       DEF ANext, MainStep
<1>6. QED
  BY <1>2, <1>3, <1>5 DEF ProcessTypeOK

LEMMA DrainTypesPreserved ==
    ASSUME AgentInv, [ANext]_vars, DTypeOK', last <= last'
    PROVE  DrainTypeOK'
<1>1. /\ DrainTypeOK /\ last \in Nat /\ last' \in Nat
      /\ unsent \subseteq 1..last
  BY DEF AgentInv, ATypeOK, DTypeOK, TypeOK
<1>2. 1..last \subseteq 1..last' /\ 0..last \subseteq 0..last'
  BY <1>1
<1> DEFINE Pc == {"idle", "ready", "sending", "waiting", "confirming",
                  "pruning"}
\* What the steps do to the three functions, apart from what ids exist.
<1>3. /\ at' \in [Drainer -> Pc]
      /\ todo' \in [Drainer -> SUBSET (1..last)]
      /\ cur' \in [Drainer -> 0..last]
  <2>1. /\ at \in [Drainer -> Pc]
        /\ todo \in [Drainer -> SUBSET (1..last)]
        /\ cur \in [Drainer -> 0..last]
    BY <1>1 DEF DrainTypeOK
  <2> USE <2>1 DEF drains
  <2>2. ASSUME NEW d \in Drainer, DrainStep(d)
        PROVE  <1>3!1 /\ <1>3!2 /\ <1>3!3
    <3>1. CASE DrainOffline(d) \/ SendRefused(d) \/ Unanswered(d)
               \/ ConfirmFails(d) \/ Prune(d)
      BY <3>1 DEF DrainOffline, SendRefused, Unanswered, ConfirmFails, Prune
    <3>2. CASE DrainBegin(d)
      <4>1. Oldest(unsent, Batch) \in SUBSET (1..last)
        BY <1>1 DEF Oldest
      <4>2. QED
        BY <3>2, <4>1 DEF DrainBegin
    <3>3. CASE Send(d)
      <4>1. PICK i \in todo[d] : cur' = [cur EXCEPT ![d] = i]
        BY <3>3 DEF Send
      <4>2. i \in 0..last
        BY <1>1, <4>1
      <4>3. QED
        BY <3>3, <4>1, <4>2 DEF Send
    <3>4. CASE Confirm(d)
      BY <3>4 DEF Confirm, Confirmed
    <3>5. QED
      BY <2>2, <3>1, <3>2, <3>3, <3>4 DEF DrainStep
  <2>3. CASE LinkUp \/ LinkDown \/ BrokerReceives
    BY <2>3 DEF LinkUp, LinkDown, BrokerReceives
  <2>4. CASE BrokerAcks
    BY <2>4 DEF BrokerAcks
  <2>5. CASE SamplerTick \/ SamplerCommit \/ SamplerFails
    BY <2>5 DEF SamplerTick, SamplerCommit, SamplerFails
  <2>6. CASE PublisherTick
    BY <2>6 DEF PublisherTick
  <2>7. CASE \E l \in Loop : ThreadEnds(l)
    BY <2>7 DEF ThreadEnds
  <2>8. CASE Boot \/ StartLoops \/ StopSampler \/ JoinSampler \/ StopClient
             \/ CloseStore
    BY <2>8 DEF Boot, StartLoops, StopSampler, JoinSampler, StopClient,
                CloseStore
  <2>9. CASE Announce \/ JoinPublisher
    BY <2>9 DEF Announce, JoinPublisher
  <2>10. CASE Exit \/ Crash \/ CrashInAnnounce
    <3>1. 0 \in 0..last
      BY <1>1
    <3>2. QED
      BY <2>10, <3>1 DEF Exit, Crash, CrashInAnnounce, ProcessEnds
  <2>11. CASE UNCHANGED vars
    BY <2>11 DEF vars
  <2>12. QED
    BY <2>2, <2>3, <2>4, <2>5, <2>6, <2>7, <2>8, <2>9, <2>10, <2>11
       DEF ANext, MainStep
<1>4. QED
  BY <1>2, <1>3 DEF DrainTypeOK

LEMMA ClientTypesPreserved ==
    ASSUME AgentInv, [ANext]_vars, DTypeOK', last <= last'
    PROVE  ClientTypeOK'
<1>1. /\ ClientTypeOK /\ DrainTypeOK
      /\ last \in 0..MaxId /\ last' \in Nat
  BY DEF AgentInv, ATypeOK, DTypeOK, TypeOK
<1>2. /\ link \in BOOLEAN /\ outq \in Seq(Message)
      /\ \A k \in 1..Len(outq) : outq[k].id <= last
      /\ reached \in 0..Len(outq)
      /\ Len(outq) \in Nat
      /\ \A k \in 1..Len(outq) : outq[k] \in Message /\ outq[k].id \in Nat
  <2>1. ClientTypeOK
    BY <1>1
  <2>2. outq \in Seq(Message) /\ Len(outq) \in Nat
    BY <2>1, LenProperties DEF ClientTypeOK
  <2>3. \A k \in 1..Len(outq) : outq[k] \in Message
    BY <2>2, ElementOfSeq
  <2>4. QED
    BY <2>1, <2>2, <2>3 DEF ClientTypeOK, Message
<1>3. \A k \in 1..Len(outq) : outq[k].id <= last'
  BY <1>1, <1>2
<1>4. link' \in BOOLEAN
  BY <1>2 DEF ANext, DrainStep, DrainOffline, DrainBegin, Send, SendRefused,
      Unanswered, Confirm, Confirmed, ConfirmFails, Prune, LinkUp, LinkDown,
      BrokerReceives, BrokerAcks, SamplerTick, SamplerCommit, SamplerFails,
      PublisherTick, ThreadEnds, MainStep, Boot, Announce, StartLoops,
      StopSampler, JoinSampler, JoinPublisher, StopClient, CloseStore, Exit,
      Crash, CrashInAnnounce, ProcessEnds, vars, network
<1>5. CASE UNCHANGED <<outq, reached>>
  BY <1>2, <1>3, <1>4, <1>5 DEF ClientTypeOK
<1>6. ASSUME NEW d \in Drainer, Send(d)
      PROVE  ClientTypeOK'
  <2>1. PICK i \in todo[d] : outq' = Append(outq, [id |-> i, by |-> d])
    BY <1>6 DEF Send
  <2>2. [id |-> i, by |-> d] \in Message /\ i \in 1..last
    BY <1>1 DEF DrainTypeOK, Message
  <2>3. /\ outq' \in Seq(Message) /\ Len(outq') = Len(outq) + 1
        /\ \A k \in 1..Len(outq) : outq'[k] = outq[k]
        /\ outq'[Len(outq) + 1] = [id |-> i, by |-> d]
    BY <1>2, <2>1, <2>2, AppendProperties
  <2>4. \A k \in 1..Len(outq') : outq'[k].id <= last'
    <3>1. SUFFICES ASSUME NEW k \in 1..Len(outq')
                   PROVE  outq'[k].id <= last'
      OBVIOUS
    <3>2. CASE k = Len(outq) + 1
      BY <1>1, <2>2, <2>3, <3>2
    <3>3. CASE k # Len(outq) + 1
      <4>1. k \in 1..Len(outq)
        BY <1>2, <2>3, <3>3
      <4>2. QED
        BY <1>3, <2>3, <4>1
    <3>4. QED
      BY <3>2, <3>3
  <2>5. reached' \in 0..Len(outq')
    BY <1>2, <1>6, <2>3 DEF Send
  <2>6. QED
    BY <1>4, <2>3, <2>4, <2>5 DEF ClientTypeOK
<1>7. ASSUME NEW d \in Drainer, Unanswered(d)
      PROVE  ClientTypeOK'
  <2>1. outq' = Orphaned(d) /\ reached' = reached
    BY <1>7 DEF Unanswered
  <2>2. /\ DOMAIN outq = 1..Len(outq)
        /\ outq' \in [1..Len(outq) -> Message]
        /\ \A k \in 1..Len(outq) : outq'[k].id = outq[k].id
    <3>1. DOMAIN outq = 1..Len(outq)
      BY <1>2, LenProperties
    <3>2. \A k \in 1..Len(outq) :
             [outq[k] EXCEPT !.by = "nobody"] \in Message
      BY <1>2 DEF Message
    <3>3. QED
      BY <1>2, <2>1, <3>1, <3>2 DEF Orphaned, Message
  <2>3. outq' \in Seq(Message) /\ Len(outq') = Len(outq)
    BY <1>2, <2>2
  <2>4. QED
    BY <1>2, <1>3, <1>4, <2>1, <2>2, <2>3 DEF ClientTypeOK
<1>8. CASE BrokerReceives
  BY <1>2, <1>3, <1>4, <1>8 DEF BrokerReceives, ClientTypeOK
<1>9. CASE BrokerAcks
  <2>1. outq # <<>> /\ reached > 0
    BY <1>2, <1>9 DEF BrokerAcks
  <2>2. /\ outq' \in Seq(Message) /\ Len(outq') = Len(outq) - 1
        /\ \A k \in 1..Len(outq') : outq'[k] = outq[k + 1]
    BY <1>2, <1>9, <2>1, HeadTailProperties DEF BrokerAcks
  <2>3. \A k \in 1..Len(outq') : outq'[k].id <= last'
    BY <1>2, <1>3, <2>2
  <2>4. reached' \in 0..Len(outq')
    BY <1>2, <1>9, <2>1, <2>2 DEF BrokerAcks
  <2>5. QED
    BY <1>4, <2>2, <2>3, <2>4 DEF ClientTypeOK
<1>10. CASE ProcessEnds
  <2>1. outq' = <<>> /\ reached' = 0
    BY <1>10 DEF ProcessEnds
  <2>2. outq' \in Seq(Message) /\ Len(outq') = 0
    BY <2>1, EmptySeq
  <2>3. QED
    BY <1>4, <2>1, <2>2 DEF ClientTypeOK
<1>11. \/ UNCHANGED <<outq, reached>> \/ ProcessEnds
       \/ \E d \in Drainer : Send(d) \/ Unanswered(d)
       \/ BrokerReceives \/ BrokerAcks
  BY DEF ANext, DrainStep, DrainOffline, DrainBegin, SendRefused,
      Confirm, Confirmed, ConfirmFails, Prune, LinkUp, LinkDown, SamplerTick,
      SamplerCommit, SamplerFails, PublisherTick, ThreadEnds, MainStep, Boot,
      Announce, StartLoops, StopSampler, JoinSampler, JoinPublisher,
      StopClient, CloseStore, Exit, Crash, CrashInAnnounce, vars, network
<1>12. QED
  BY <1>5, <1>6, <1>7, <1>8, <1>9, <1>10, <1>11

-----------------------------------------------------------------------------
(* Who waits for what.                                                     *)

\* A step is quiet if it leaves the client's queue alone and moves no
\* drainer into or out of a wait or a confirmation.
Quiet ==
    /\ UNCHANGED <<outq, reached>>
    /\ \A d \in Drainer :
          \/ at[d] = "waiting"
          \/ at'[d] \in {"waiting", "confirming"}
          => at'[d] = at[d] /\ cur'[d] = cur[d]

\* The part of QueueMatchesDrains that the client's queue is about.
WaitsMatch ==
    /\ \A k \in 1..reached : outq[k].id \in arrived
    /\ \A k \in 1..Len(outq), d \in Drainer :
          outq[k].by = d => at[d] = "waiting" /\ outq[k].id = cur[d]
    /\ \A k, l \in 1..Len(outq) :
          outq[k].by = outq[l].by /\ outq[k].by \in Drainer => k = l
    /\ \A d \in Drainer : at[d] = "confirming" => cur[d] \in arrived

\* The broker forgets nothing.
LEMMA ArrivedGrows ==
    ASSUME [DNext]_deliveryVars
    PROVE  arrived \subseteq arrived'
BY DEF DNext, Queue, Arrive, Settle, Forget, deliveryVars

\* Nor does a still step end a confirmation, or change what has arrived.
Still ==
    /\ UNCHANGED <<outq, reached, arrived>>
    /\ \A d \in Drainer :
          \/ at[d] \in {"waiting", "confirming"}
          \/ at'[d] \in {"waiting", "confirming"}
          => at'[d] = at[d] /\ cur'[d] = cur[d]

\* Every step is still but seven: a message is sent, given up, confirmed,
\* with or without success, received or acknowledged, or the process ends.
LEMMA StillSteps ==
    ASSUME AgentInv, [ANext]_vars
    PROVE  \/ Still \/ ProcessEnds \/ BrokerReceives \/ BrokerAcks
           \/ \E d \in Drainer : \/ Send(d) \/ Unanswered(d)
                                 \/ Confirm(d) \/ ConfirmFails(d)
<1>1. at \in [Drainer -> {"idle", "ready", "sending", "waiting",
                          "confirming", "pruning"}]
  BY DEF AgentInv, ATypeOK, DrainTypeOK
<1> USE <1>1 DEF Still
<1>2. ASSUME NEW d \in Drainer, DrainOffline(d) \/ DrainBegin(d)
                                \/ SendRefused(d) \/ Prune(d)
      PROVE  Still
  BY <1>2 DEF DrainOffline, DrainBegin, SendRefused, Prune, network,
              deliveryVars
<1>3. CASE LinkUp \/ LinkDown
  BY <1>3 DEF LinkUp, LinkDown, drains, deliveryVars
<1>4. CASE SamplerTick \/ SamplerCommit \/ SamplerFails \/ PublisherTick
  BY <1>4 DEF SamplerTick, SamplerCommit, SamplerFails, PublisherTick,
              drains, network, deliveryVars
<1>5. CASE \E l \in Loop : ThreadEnds(l)
  BY <1>5 DEF ThreadEnds, drains, network, deliveryVars
<1>6. CASE Boot \/ StartLoops \/ StopSampler \/ JoinSampler \/ StopClient
           \/ CloseStore
  BY <1>6 DEF Boot, StartLoops, StopSampler, JoinSampler, StopClient,
              CloseStore, drains, network, deliveryVars
<1>7. CASE Announce \/ JoinPublisher
  <2>1. /\ UNCHANGED <<outq, reached, arrived, cur>>
        /\ at' = [at EXCEPT !["main"] = "ready"]
        /\ at["main"] = "idle"
    BY <1>7 DEF Announce, JoinPublisher, network, deliveryVars, AgentInv,
                QueueMatchesDrains
  <2>2. QED
    BY <2>1
<1>8. CASE Exit \/ Crash \/ CrashInAnnounce
  BY <1>8 DEF Exit, Crash, CrashInAnnounce
<1>9. CASE UNCHANGED vars
  BY <1>9 DEF vars, drains, network
<1>10. QED
  BY <1>2, <1>3, <1>4, <1>5, <1>6, <1>7, <1>8, <1>9
     DEF ANext, DrainStep, MainStep

\* A confirmation is quiet, too.
LEMMA QuietSteps ==
    ASSUME AgentInv, [ANext]_vars
    PROVE  \/ Quiet \/ ProcessEnds \/ BrokerReceives \/ BrokerAcks
           \/ \E d \in Drainer : Send(d) \/ Unanswered(d)
<1>1. Still => Quiet
  BY DEF Still, Quiet
<1>2. ASSUME NEW d \in Drainer, Confirm(d) \/ ConfirmFails(d)
      PROVE  Quiet
  BY <1>2 DEF Confirm, Confirmed, ConfirmFails, Quiet, network, AgentInv,
              ATypeOK, DrainTypeOK
<1>3. QED
  BY <1>1, <1>2, StillSteps

LEMMA WaitsMatchPreserved ==
    ASSUME AgentInv, [ANext]_vars
    PROVE  WaitsMatch'
<1>1. /\ WaitsMatch /\ outq \in Seq(Message) /\ Len(outq) \in Nat
      /\ reached \in 0..Len(outq) /\ DOMAIN outq = 1..Len(outq)
      /\ at \in [Drainer -> {"idle", "ready", "sending", "waiting",
                             "confirming", "pruning"}]
      /\ cur \in [Drainer -> 0..last]
  <2>1. outq \in Seq(Message)
    BY DEF AgentInv, ATypeOK, ClientTypeOK
  <2>2. Len(outq) \in Nat /\ DOMAIN outq = 1..Len(outq)
    BY <2>1, LenProperties
  <2>3. QED
    BY <2>1, <2>2 DEF AgentInv, QueueMatchesDrains, WaitsMatch, ATypeOK,
                      ClientTypeOK, DrainTypeOK
<1>2. arrived \subseteq arrived'
  BY AgentStepIsDeliveryStep, ArrivedGrows
<1>3. CASE Quiet
  BY <1>1, <1>2, <1>3 DEF Quiet, WaitsMatch
<1>4. CASE ProcessEnds
  <2>1. /\ Len(outq') = 0 /\ reached' = 0
        /\ \A d \in Drainer : at'[d] = "idle"
    BY <1>4 DEF ProcessEnds
  <2>2. 1..reached' = {} /\ 1..Len(outq') = {}
    BY <2>1
  <2>3. QED
    BY <2>1, <2>2 DEF WaitsMatch
<1>5. ASSUME NEW d \in Drainer, Send(d)
      PROVE  WaitsMatch'
  <2>1. PICK i \in todo[d] : /\ outq' = Append(outq, [id |-> i, by |-> d])
                             /\ cur' = [cur EXCEPT ![d] = i]
    BY <1>5 DEF Send
  <2>2. /\ at[d] = "sending" /\ at' = [at EXCEPT ![d] = "waiting"]
        /\ reached' = reached /\ UNCHANGED arrived
    BY <1>5 DEF Send, deliveryVars
  <2>3. [id |-> i, by |-> d] \in Message
    BY <2>1 DEF AgentInv, ATypeOK, DTypeOK, TypeOK, DrainTypeOK, Message
  <2>4. /\ Len(outq') = Len(outq) + 1
        /\ \A k \in 1..Len(outq) : outq'[k] = outq[k]
        /\ outq'[Len(outq) + 1] = [id |-> i, by |-> d]
    BY <1>1, <2>1, <2>3, AppendProperties
  <2>5. /\ 1..Len(outq') = 1..Len(outq) \cup {Len(outq) + 1}
        /\ 1..reached \subseteq 1..Len(outq)
    BY <1>1, <2>4
  <2>6. \A k \in 1..Len(outq) : outq[k].by # d
    BY <1>1, <2>2 DEF WaitsMatch
  <2>7. \A k \in 1..reached' : outq'[k].id \in arrived'
    BY <1>1, <2>2, <2>4, <2>5 DEF WaitsMatch
  <2>8. \A k \in 1..Len(outq'), e \in Drainer :
           outq'[k].by = e => at'[e] = "waiting" /\ outq'[k].id = cur'[e]
    <3>1. ASSUME NEW k \in 1..Len(outq), NEW e \in Drainer, outq'[k].by = e
          PROVE  at'[e] = "waiting" /\ outq'[k].id = cur'[e]
      BY <1>1, <2>1, <2>2, <2>4, <2>6, <3>1 DEF WaitsMatch
    <3>2. /\ outq'[Len(outq) + 1].by = d /\ at'[d] = "waiting"
          /\ outq'[Len(outq) + 1].id = cur'[d]
      BY <1>1, <2>1, <2>2, <2>4
    <3>3. QED
      BY <2>5, <3>1, <3>2
  <2>9. \A k, l \in 1..Len(outq') :
           outq'[k].by = outq'[l].by /\ outq'[k].by \in Drainer => k = l
    <3>1. \A k, l \in 1..Len(outq) :
             outq'[k].by = outq'[l].by /\ outq'[k].by \in Drainer => k = l
      BY <1>1, <2>4 DEF WaitsMatch
    <3>2. \A k \in 1..Len(outq) : outq'[k].by # outq'[Len(outq) + 1].by
      BY <2>4, <2>6
    <3>3. QED
      BY <2>5, <3>1, <3>2
  <2>10. \A e \in Drainer : at'[e] = "confirming" => cur'[e] \in arrived'
    BY <1>1, <2>1, <2>2 DEF WaitsMatch
  <2>11. QED
    BY <2>7, <2>8, <2>9, <2>10 DEF WaitsMatch
<1>6. ASSUME NEW d \in Drainer, Unanswered(d)
      PROVE  WaitsMatch'
  <2>1. /\ outq' = Orphaned(d) /\ reached' = reached
        /\ at' = [at EXCEPT ![d] = "pruning"] /\ UNCHANGED <<cur, arrived>>
    BY <1>6 DEF Unanswered, deliveryVars
  <2>2. /\ DOMAIN outq' = 1..Len(outq)
        /\ \A k \in 1..Len(outq) :
              /\ outq'[k].id = outq[k].id
              /\ outq'[k].by = IF outq[k].by = d THEN "nobody" ELSE outq[k].by
    <3>1. \A k \in 1..Len(outq) : outq[k] \in Message
      BY <1>1, ElementOfSeq
    <3>2. QED
      BY <1>1, <2>1, <3>1 DEF Orphaned, Message
  <2>3. Len(outq') = Len(outq)
    <3>1. \A k \in 1..Len(outq) : outq'[k] \in Message
      <4>1. \A k \in 1..Len(outq) : outq[k] \in Message
        BY <1>1, ElementOfSeq
      <4>2. \A k \in 1..Len(outq) :
               [outq[k] EXCEPT !.by = "nobody"] \in Message
        BY <4>1 DEF Message
      <4>3. QED
        BY <1>1, <2>1, <4>1, <4>2 DEF Orphaned
    <3>2. outq' \in [1..Len(outq) -> Message]
      BY <1>1, <2>1, <3>1 DEF Orphaned
    <3>3. QED
      BY <1>1, <3>2
  <2>4. "nobody" \notin Drainer
    BY DEF Drainer
  <2>5. 1..reached \subseteq 1..Len(outq)
    BY <1>1
  <2>6. \A k \in 1..Len(outq'), e \in Drainer :
           outq'[k].by = e => e # d /\ outq[k].by = e
    BY <2>2, <2>3, <2>4
  <2>7. \A k \in 1..reached' : outq'[k].id \in arrived'
    BY <1>1, <2>1, <2>2, <2>5 DEF WaitsMatch
  <2>8. \A k \in 1..Len(outq'), e \in Drainer :
           outq'[k].by = e => at'[e] = "waiting" /\ outq'[k].id = cur'[e]
    BY <1>1, <2>1, <2>2, <2>3, <2>6 DEF WaitsMatch
  <2>9. \A k, l \in 1..Len(outq') :
           outq'[k].by = outq'[l].by /\ outq'[k].by \in Drainer => k = l
    BY <1>1, <2>3, <2>6 DEF WaitsMatch
  <2>10. \A e \in Drainer : at'[e] = "confirming" => cur'[e] \in arrived'
    BY <1>1, <2>1 DEF WaitsMatch
  <2>11. QED
    BY <2>7, <2>8, <2>9, <2>10 DEF WaitsMatch
<1>7. CASE BrokerReceives
  <2>1. /\ reached' = reached + 1 /\ UNCHANGED <<outq, at, cur>>
        /\ arrived' = arrived \cup {outq[reached + 1].id}
    BY <1>7 DEF BrokerReceives, drains
  <2>2. 1..reached' = 1..reached \cup {reached + 1}
    BY <1>1, <2>1
  <2>3. \A k \in 1..reached' : outq'[k].id \in arrived'
    BY <1>1, <2>1, <2>2 DEF WaitsMatch
  <2>4. QED
    BY <1>1, <1>2, <2>1, <2>3 DEF WaitsMatch
<1>8. CASE BrokerAcks
  <2>1. /\ outq' = Tail(outq) /\ reached' = reached - 1 /\ reached > 0
        /\ at' = [d \in Drainer |->
                     IF Head(outq).by = d THEN "confirming" ELSE at[d]]
        /\ UNCHANGED <<cur, arrived>>
    BY <1>8 DEF BrokerAcks, deliveryVars
  <2>2. outq # <<>> /\ 1 \in 1..Len(outq) /\ 1 \in 1..reached
    BY <1>1, <2>1
  <2>3. /\ Head(outq) = outq[1] /\ Len(outq') = Len(outq) - 1
        /\ \A k \in 1..Len(outq') : outq'[k] = outq[k + 1]
    BY <1>1, <2>1, <2>2, HeadTailProperties
  <2>4. /\ \A k \in 1..Len(outq') : k + 1 \in 1..Len(outq) /\ k + 1 # 1
        /\ \A k \in 1..reached' : k + 1 \in 1..reached /\ k \in 1..Len(outq')
        /\ \A k, l \in 1..Len(outq') : k + 1 = l + 1 => k = l
    BY <1>1, <2>1, <2>3
  <2>5. \A k \in 1..reached' : outq'[k].id \in arrived'
    BY <1>1, <2>1, <2>3, <2>4 DEF WaitsMatch
  <2>6. \A k \in 1..Len(outq'), e \in Drainer :
           outq'[k].by = e => at'[e] = "waiting" /\ outq'[k].id = cur'[e]
    <3> SUFFICES ASSUME NEW k \in 1..Len(outq'), NEW e \in Drainer,
                        outq'[k].by = e
                 PROVE  at'[e] = "waiting" /\ outq'[k].id = cur'[e]
      OBVIOUS
    <3>1. outq[k + 1].by = e /\ k + 1 \in 1..Len(outq) /\ k + 1 # 1
      BY <2>3, <2>4
    <3>2. at[e] = "waiting" /\ outq[k + 1].id = cur[e]
      BY <1>1, <3>1 DEF WaitsMatch
    <3>3. Head(outq).by # e
      BY <1>1, <2>2, <2>3, <3>1 DEF WaitsMatch
    <3>4. QED
      BY <2>1, <2>3, <3>2, <3>3
  <2>7. \A k, l \in 1..Len(outq') :
           outq'[k].by = outq'[l].by /\ outq'[k].by \in Drainer => k = l
    <3> SUFFICES ASSUME NEW k \in 1..Len(outq'), NEW l \in 1..Len(outq'),
                        outq'[k].by = outq'[l].by, outq'[k].by \in Drainer
                 PROVE  k = l
      OBVIOUS
    <3>1. k + 1 \in 1..Len(outq) /\ l + 1 \in 1..Len(outq)
      BY <2>4
    <3>2. outq[k + 1].by = outq[l + 1].by /\ outq[k + 1].by \in Drainer
      BY <2>3
    <3>3. k + 1 = l + 1
      BY <1>1, <3>1, <3>2 DEF WaitsMatch
    <3>4. QED
      BY <2>4, <3>3
  <2>8. \A e \in Drainer : at'[e] = "confirming" => cur'[e] \in arrived'
    <3> SUFFICES ASSUME NEW e \in Drainer, at'[e] = "confirming"
                 PROVE  cur'[e] \in arrived'
      OBVIOUS
    <3>1. CASE Head(outq).by = e
      BY <1>1, <2>1, <2>2, <2>3, <3>1 DEF WaitsMatch
    <3>2. CASE Head(outq).by # e
      BY <1>1, <2>1, <3>2 DEF WaitsMatch
    <3>3. QED
      BY <3>1, <3>2
  <2>9. QED
    BY <2>5, <2>6, <2>7, <2>8 DEF WaitsMatch
<1>9. QED
  BY QuietSteps, <1>3, <1>4, <1>5, <1>6, <1>7, <1>8

\* The main thread drains only while it announces and at shutdown.
LEMMA MainDrainsInPhase ==
    ASSUME AgentInv, [ANext]_vars
    PROVE  at'["main"] # "idle" => phase' \in {"announcing", "draining"}
<1>1. /\ at["main"] # "idle" => phase \in {"announcing", "draining"}
      /\ \A k \in 1..Len(outq) : outq[k].by = "main" => at["main"] = "waiting"
      /\ at \in [Drainer -> {"idle", "ready", "sending", "waiting",
                             "confirming", "pruning"}]
      /\ outq \in Seq(Message) /\ reached \in 0..Len(outq)
  BY DEF AgentInv, QueueMatchesDrains, ATypeOK, ClientTypeOK, DrainTypeOK,
         Drainer
<1>2. "main" \in Drainer /\ "publisher" \in Drainer /\ "main" # "publisher"
  BY DEF Drainer
<1> USE <1>1, <1>2 DEF process, drains
<1>3. ASSUME NEW d \in Drainer, DrainStep(d)
      PROVE  UNCHANGED phase /\ (at["main"] = "idle" => at'["main"] = "idle")
  <2>1. at[d] # "idle" /\ UNCHANGED phase
    BY <1>3 DEF DrainStep, DrainOffline, DrainBegin, Send, SendRefused,
                Unanswered, Confirm, Confirmed, ConfirmFails, Prune
  <2>2. \E to \in {"idle", "ready", "sending", "waiting", "confirming",
                    "pruning"} : at' = [at EXCEPT ![d] = to]
    BY <1>3 DEF DrainStep, DrainOffline, DrainBegin, Send, SendRefused,
                Unanswered, Confirm, Confirmed, ConfirmFails, Prune
  <2>3. QED
    BY <2>1, <2>2
<1>4. CASE LinkUp \/ LinkDown \/ BrokerReceives
  BY <1>4 DEF LinkUp, LinkDown, BrokerReceives
<1>5. CASE BrokerAcks
  <2>1. outq # <<>> /\ 1 \in 1..Len(outq) /\ Head(outq) = outq[1]
    <3>1. Len(outq) \in Nat /\ reached > 0
      BY <1>5, LenProperties DEF BrokerAcks
    <3>2. outq # <<>> /\ 1 \in 1..Len(outq)
      BY <3>1
    <3>3. QED
      BY <3>2, HeadTailProperties
  <2>2. QED
    BY <1>5, <2>1 DEF BrokerAcks
<1>6. CASE SamplerTick \/ SamplerCommit \/ SamplerFails \/ PublisherTick
  BY <1>6 DEF SamplerTick, SamplerCommit, SamplerFails, PublisherTick
<1>7. CASE \E l \in Loop : ThreadEnds(l)
  BY <1>7 DEF ThreadEnds
<1>8. CASE Boot \/ Announce \/ StartLoops \/ StopSampler \/ JoinSampler
           \/ JoinPublisher \/ StopClient \/ CloseStore
  BY <1>8 DEF Boot, Announce, StartLoops, StopSampler, JoinSampler,
              JoinPublisher, StopClient, CloseStore
<1>9. CASE Exit \/ Crash \/ CrashInAnnounce
  BY <1>9 DEF Exit, Crash, CrashInAnnounce, ProcessEnds
<1>10. CASE UNCHANGED vars
  BY <1>10 DEF vars
<1>11. QED
  BY <1>3, <1>4, <1>5, <1>6, <1>7, <1>8, <1>9, <1>10 DEF ANext, MainStep

-----------------------------------------------------------------------------
(* The agent implements Delivery.                                          *)

\* AgentInv is inductive.
LEMMA AgentInvPreserved == AgentInv /\ [ANext]_vars => AgentInv'
<1> SUFFICES ASSUME AgentInv, [ANext]_vars
             PROVE  AgentInv'
  OBVIOUS
<1>1. [DNext]_deliveryVars
  BY AgentStepIsDeliveryStep
<1>2. DTypeOK' /\ last <= last'
  BY <1>1, DeliveryStepTypes DEF AgentInv, ATypeOK
<1>3. ProcessTypeOK' /\ DrainTypeOK' /\ ClientTypeOK'
  BY <1>2, ProcessTypesPreserved, DrainTypesPreserved, ClientTypesPreserved
<1>4. QueueMatchesDrains'
  BY WaitsMatchPreserved, MainDrainsInPhase DEF QueueMatchesDrains, WaitsMatch
<1>5. QED
  BY <1>2, <1>3, <1>4 DEF AgentInv, ATypeOK

\* Every state of the agent has its type, for every value of the constants.
THEOREM AgentTypeCorrect == ASpec => []ATypeOK
<1>1. AgentInv => ATypeOK
  BY DEF AgentInv
<1>2. QED
  BY AgentInvInit, AgentInvPreserved, <1>1, PTL DEF ASpec

\* The client's queue and the drains always agree on who waits for which
\* message, however link drops, timeouts and restarts fall.
THEOREM AgentQueue == ASpec => []QueueMatchesDrains
<1>1. AgentInv => QueueMatchesDrains
  BY DEF AgentInv
<1>2. QED
  BY AgentInvInit, AgentInvPreserved, <1>1, PTL DEF ASpec

\* The agent implements Delivery: in particular it confirms only what the
\* broker has (broker.py, publish() returns True only after the PUBACK).
THEOREM AgentImplementsDelivery == ASpec => DeliverySpec
<1>1. AInit => DInit
  BY DEF AInit
<1>2. AgentInv /\ [ANext]_vars => [DNext]_deliveryVars
  BY AgentStepIsDeliveryStep
<1>3. QED
  BY AgentInvInit, AgentInvPreserved, <1>1, <1>2, PTL
     DEF ASpec, DeliverySpec, DSpec

\* What Delivery promises therefore holds of the threads, the link and the
\* crashes of the agent: nothing is confirmed that the broker lacks, nothing
\* is lost but what the cap evicted, and the cap takes the oldest.
THEOREM AgentSafe ==
    ASpec => [](ConfirmedWasReceived /\ NoSilentLoss /\ OneFate /\ OldestGoFirst)
BY AgentImplementsDelivery, DeliverySafe, PTL DEF DeliverySpec

-----------------------------------------------------------------------------
(* The two loops.                                                          *)

\* What the main thread knows of its loops in each phase, and a loop's task
\* of its thread.  A loop is only started when nothing is left of an earlier
\* process, and after JoinPublisher a publisher that lives is one that has
\* overrun its join.
LoopsInv ==
    /\ sampling => "sampler" \in alive
    /\ at["publisher"] # "idle" => "publisher" \in alive
    /\ joined \cap alive = {}
    /\ phase \in {"off", "starting", "announcing"} =>
          alive = {} /\ stopping = {} /\ joined = {}
    /\ phase = "running" => stopping = {} /\ joined = {}
    /\ closed => joined = Loop
    /\ ~overran /\ phase = "draining" => "publisher" \notin alive

\* The steps that neither start nor stop anything: a drain goes on or ends.
LEMMA DrainStepControl ==
    ASSUME AgentInv, NEW d \in Drainer, DrainStep(d)
    PROVE  /\ UNCHANGED <<process, overran>>
           /\ at[d] # "idle"
           /\ \E to \in {"idle", "ready", "sending", "waiting", "confirming",
                         "pruning"} : at' = [at EXCEPT ![d] = to]
<1>1. CASE DrainOffline(d) \/ DrainBegin(d) \/ SendRefused(d) \/ Prune(d)
  BY <1>1 DEF DrainOffline, DrainBegin, SendRefused, Prune, bounds
<1>2. CASE Send(d) \/ Unanswered(d) \/ ConfirmFails(d)
  BY <1>2 DEF Send, Unanswered, ConfirmFails, bounds
<1>3. CASE Confirm(d)
  BY <1>3 DEF Confirm, Confirmed, bounds
<1>4. QED
  BY <1>1, <1>2, <1>3 DEF DrainStep

\* An acknowledgement moves a drainer from its wait to the confirmation, and
\* so no drainer begins or ends.
LEMMA AckKeepsBusy ==
    ASSUME AgentInv, BrokerAcks
    PROVE  /\ at' \in [Drainer -> {"idle", "ready", "sending", "waiting",
                                   "confirming", "pruning"}]
           /\ \A d \in Drainer :
                 \/ at'[d] = at[d]
                 \/ at[d] = "waiting" /\ at'[d] = "confirming"
<1>1. /\ at \in [Drainer -> {"idle", "ready", "sending", "waiting",
                             "confirming", "pruning"}]
      /\ \A k \in 1..Len(outq), d \in Drainer :
            outq[k].by = d => at[d] = "waiting"
      /\ outq \in Seq(Message) /\ reached \in 0..Len(outq)
      /\ Len(outq) \in Nat
  <2>1. outq \in Seq(Message)
    BY DEF AgentInv, ATypeOK, ClientTypeOK
  <2>2. Len(outq) \in Nat
    BY <2>1, LenProperties
  <2>3. QED
    BY <2>1, <2>2 DEF AgentInv, QueueMatchesDrains, ATypeOK, ClientTypeOK,
                      DrainTypeOK
<1>2. outq # <<>> /\ 1 \in 1..Len(outq)
  BY <1>1 DEF BrokerAcks
<1>3. Head(outq) = outq[1]
  BY <1>1, <1>2, HeadTailProperties
<1>4. QED
  BY <1>1, <1>2, <1>3 DEF BrokerAcks

LEMMA LoopsInvPreserved ==
    ASSUME AgentInv, LoopsInv, [ANext]_vars
    PROVE  LoopsInv'
<1> USE DEF LoopsInv
<1>1. /\ at \in [Drainer -> {"idle", "ready", "sending", "waiting",
                             "confirming", "pruning"}]
      /\ alive \subseteq Loop /\ joined \subseteq Loop
  BY DEF AgentInv, ATypeOK, DrainTypeOK, ProcessTypeOK
<1>2. "main" \in Drainer /\ "publisher" \in Drainer /\ "main" # "publisher"
      /\ Loop = {"sampler", "publisher"}
  BY DEF Drainer, Loop
<1>3. ASSUME NEW d \in Drainer, DrainStep(d)
      PROVE  LoopsInv'
  <2>1. /\ UNCHANGED <<phase, alive, stopping, joined, sampling, closed>>
        /\ UNCHANGED overran /\ at[d] # "idle"
    BY <1>3, DrainStepControl DEF process
  <2>2. PICK to \in {"idle", "ready", "sending", "waiting", "confirming",
                     "pruning"} : at' = [at EXCEPT ![d] = to]
    BY <1>3, DrainStepControl
  <2>3. at'["publisher"] # "idle" => at["publisher"] # "idle"
    BY <1>1, <1>2, <2>1, <2>2
  <2>4. QED
    BY <2>1, <2>3
<1>4. CASE LinkUp \/ LinkDown \/ BrokerReceives
  BY <1>4 DEF LinkUp, LinkDown, BrokerReceives, process, drains, bounds
<1>5. CASE BrokerAcks
  BY <1>2, <1>5, AckKeepsBusy DEF BrokerAcks, process, bounds
<1>6. CASE SamplerTick \/ SamplerCommit \/ SamplerFails
  <2>1. /\ UNCHANGED <<phase, alive, stopping, joined, closed, at, overran>>
        /\ sampling' => "sampler" \in alive
    BY <1>6 DEF SamplerTick, SamplerCommit, SamplerFails, drains, bounds
  <2>2. QED
    BY <2>1
<1>7. CASE PublisherTick
  <2>1. /\ UNCHANGED <<phase, alive, stopping, joined, sampling, closed>>
        /\ UNCHANGED overran /\ "publisher" \in alive
    BY <1>7 DEF PublisherTick, process, bounds
  <2>2. QED
    BY <2>1
<1>8. ASSUME NEW l \in Loop, ThreadEnds(l)
      PROVE  LoopsInv'
  <2>1. /\ UNCHANGED <<phase, stopping, joined, sampling, closed, at, overran>>
        /\ alive' = alive \ {l} /\ ~Busy(l)
    BY <1>8 DEF ThreadEnds, drains, bounds
  <2>2. /\ sampling => l # "sampler"
        /\ at["publisher"] # "idle" => l # "publisher"
    BY <1>2, <2>1 DEF Busy
  <2>3. QED
    BY <2>1, <2>2
<1>9. CASE Boot \/ StartLoops \/ StopSampler
  <2>1. UNCHANGED <<joined, sampling, closed, at, overran>>
    BY <1>9 DEF Boot, StartLoops, StopSampler, drains, bounds
  <2>2. CASE Boot
    BY <2>1, <2>2 DEF Boot
  <2>3. CASE StartLoops
    BY <1>2, <2>1, <2>3 DEF StartLoops
  <2>4. CASE StopSampler
    <3>1. phase' = "stopping sampler" /\ alive' = alive
      BY <2>4 DEF StopSampler
    <3>2. QED
      BY <2>1, <3>1
  <2>5. QED
    BY <1>9, <2>2, <2>3, <2>4
<1>10. CASE Announce
  BY <1>1, <1>2, <1>10 DEF Announce, bounds
<1>11. CASE JoinSampler
  BY <1>1, <1>2, <1>11 DEF JoinSampler, drains
<1>12. CASE JoinPublisher
  <2>1. /\ UNCHANGED <<alive, stopping, sampling, closed>>
        /\ phase' = "draining" /\ at'["publisher"] = at["publisher"]
    BY <1>1, <1>2, <1>12 DEF JoinPublisher
  <2>2. CASE "publisher" \in alive
    <3>1. overran' = TRUE /\ joined' = joined
      BY <1>12, <2>2 DEF JoinPublisher
    <3>2. QED
      BY <2>1, <3>1
  <2>3. CASE "publisher" \notin alive
    <3>1. joined' = joined \cup {"publisher"}
      BY <1>12, <2>3 DEF JoinPublisher
    <3>2. QED
      BY <1>1, <1>2, <2>1, <2>3, <3>1
  <2>4. QED
    BY <2>2, <2>3
<1>13. CASE StopClient \/ CloseStore
  <2>1. /\ UNCHANGED <<alive, stopping, joined, sampling, at, overran>>
        /\ phase' \in {"closing", "done"}
    BY <1>13 DEF StopClient, CloseStore, drains, bounds
  <2>2. closed' => joined = Loop
    BY <1>13 DEF StopClient, CloseStore
  <2>3. QED
    BY <2>1, <2>2
<1>14. CASE Exit \/ Crash \/ CrashInAnnounce
  BY <1>2, <1>14 DEF Exit, Crash, CrashInAnnounce, ProcessEnds
<1>15. CASE UNCHANGED vars
  BY <1>15 DEF vars, process, drains, bounds
<1>16. QED
  BY <1>3, <1>4, <1>5, <1>6, <1>7, <1>8, <1>9, <1>10, <1>11, <1>12, <1>13,
     <1>14, <1>15 DEF ANext, MainStep

LEMMA LoopsInvInit == AInit => LoopsInv
BY DEF AInit, LoopsInv, Drainer

\* The store is closed only when no thread can use it any more, in whatever
\* combination the joins of stop() time out (agent.py, Agent.stop).
THEOREM StoreClosedLast == ASpec => []ClosedMeansQuiescent
<1>1. AgentInv /\ LoopsInv => ClosedMeansQuiescent
  BY DEF AgentInv, ATypeOK, ProcessTypeOK, LoopsInv, ClosedMeansQuiescent
<1>2. QED
  BY AgentInvInit, AgentInvPreserved, LoopsInvInit, LoopsInvPreserved, <1>1,
     PTL DEF ASpec

LEMMA SamplerStepIsLoopStep ==
    ASSUME AgentInv, LoopsInv, [ANext]_vars
    PROVE  [SamplerLoop!LNext]_(SamplerLoop!loopVars)
<1> USE DEF SamplerLoop!loopVars
<1> DEFINE Same == UNCHANGED <<"sampler" \in alive, "sampler" \in stopping,
                               sampling>>
<1>1. sampling \in BOOLEAN
  BY DEF AgentInv, ATypeOK, ProcessTypeOK
<1>2. ASSUME NEW d \in Drainer, DrainStep(d)
      PROVE  Same
  BY <1>2, DrainStepControl DEF process
<1>3. CASE LinkUp \/ LinkDown \/ BrokerReceives \/ BrokerAcks \/ PublisherTick
  BY <1>3 DEF LinkUp, LinkDown, BrokerReceives, BrokerAcks, PublisherTick,
              process
<1>4. CASE SamplerTick
  BY <1>4 DEF SamplerTick, SamplerLoop!LNext, SamplerLoop!Tick
<1>5. CASE SamplerCommit \/ SamplerFails
  BY <1>5 DEF SamplerCommit, SamplerFails, SamplerLoop!LNext,
              SamplerLoop!TickEnds
<1>6. ASSUME NEW l \in Loop, ThreadEnds(l)
      PROVE  Same \/ SamplerLoop!End
  BY <1>6 DEF ThreadEnds, Busy, Loop, SamplerLoop!End
<1>7. CASE StartLoops
  BY <1>7 DEF StartLoops, LoopsInv, Loop, SamplerLoop!LNext,
              SamplerLoop!Start
<1>8. CASE StopSampler
  BY <1>8 DEF StopSampler, SamplerLoop!LNext, SamplerLoop!SetStop
<1>9. CASE Boot \/ Announce \/ JoinSampler \/ JoinPublisher \/ StopClient
           \/ CloseStore
  <2>1. /\ UNCHANGED <<alive, sampling>>
        /\ stopping' = stopping \/ stopping' = stopping \cup {"publisher"}
    BY <1>9 DEF Boot, Announce, JoinSampler, JoinPublisher, StopClient,
                CloseStore
  <2>2. QED
    BY <2>1
<1>10. CASE Exit \/ Crash \/ CrashInAnnounce
  BY <1>10 DEF Exit, Crash, CrashInAnnounce, ProcessEnds, SamplerLoop!LNext,
               SamplerLoop!Kill
<1>11. CASE UNCHANGED vars
  BY <1>11 DEF vars, process
<1>12. QED
  BY <1>2, <1>3, <1>4, <1>5, <1>6, <1>7, <1>8, <1>9, <1>10, <1>11
     DEF ANext, MainStep, SamplerLoop!LNext

LEMMA PublisherStepIsLoopStep ==
    ASSUME AgentInv, LoopsInv, [ANext]_vars
    PROVE  [PublisherLoop!LNext]_(PublisherLoop!loopVars)
<1> USE DEF PublisherLoop!loopVars
<1> DEFINE Same == UNCHANGED <<"publisher" \in alive, "publisher" \in stopping,
                               at["publisher"] # "idle">>
<1>1. at \in [Drainer -> {"idle", "ready", "sending", "waiting",
                          "confirming", "pruning"}]
  BY DEF AgentInv, ATypeOK, DrainTypeOK
<1>2. "main" \in Drainer /\ "publisher" \in Drainer /\ "main" # "publisher"
  BY DEF Drainer
<1>3. ASSUME NEW d \in Drainer, DrainStep(d)
      PROVE  Same \/ PublisherLoop!TickEnds
  <2>1. UNCHANGED <<alive, stopping>> /\ at[d] # "idle"
    BY <1>3, DrainStepControl DEF process
  <2>2. PICK to \in {"idle", "ready", "sending", "waiting", "confirming",
                     "pruning"} : at' = [at EXCEPT ![d] = to]
    BY <1>3, DrainStepControl
  <2>3. QED
    BY <1>1, <1>2, <2>1, <2>2 DEF PublisherLoop!TickEnds
<1>4. CASE LinkUp \/ LinkDown \/ BrokerReceives
  BY <1>4 DEF LinkUp, LinkDown, BrokerReceives, process, drains
<1>5. CASE BrokerAcks
  BY <1>2, <1>5, AckKeepsBusy DEF BrokerAcks, process
<1>6. CASE SamplerTick \/ SamplerCommit \/ SamplerFails
  BY <1>6 DEF SamplerTick, SamplerCommit, SamplerFails, drains
<1>7. CASE PublisherTick
  BY <1>1, <1>2, <1>7 DEF PublisherTick, process, PublisherLoop!LNext,
                          PublisherLoop!Tick
<1>8. ASSUME NEW l \in Loop, ThreadEnds(l)
      PROVE  Same \/ PublisherLoop!End
  BY <1>8 DEF ThreadEnds, Busy, Loop, drains, PublisherLoop!End
<1>9. CASE StartLoops
  BY <1>9 DEF StartLoops, LoopsInv, Loop, drains, PublisherLoop!LNext,
              PublisherLoop!Start
<1>10. CASE JoinSampler
  BY <1>10 DEF JoinSampler, drains, PublisherLoop!LNext,
               PublisherLoop!SetStop
<1>11. CASE StopSampler
  <2>1. /\ UNCHANGED <<alive, at>>
        /\ stopping = {} /\ stopping' = {"sampler"}
    BY <1>11 DEF StopSampler, LoopsInv, drains
  <2>2. QED
    BY <2>1
<1>12. CASE Announce \/ JoinPublisher
  BY <1>1, <1>2, <1>12 DEF Announce, JoinPublisher
<1>13. CASE Boot \/ StopClient \/ CloseStore
  BY <1>13 DEF Boot, StopClient, CloseStore, drains
<1>14. CASE Exit \/ Crash \/ CrashInAnnounce
  BY <1>2, <1>14 DEF Exit, Crash, CrashInAnnounce, ProcessEnds,
                     PublisherLoop!LNext, PublisherLoop!Kill
<1>15. CASE UNCHANGED vars
  BY <1>15 DEF vars, process, drains
<1>16. QED
  BY <1>3, <1>4, <1>5, <1>6, <1>7, <1>8, <1>9, <1>10, <1>11, <1>12, <1>13,
     <1>14, <1>15 DEF ANext, MainStep, PublisherLoop!LNext

\* Whatever the main thread, the faults and the restarts do, each loop is
\* the Loop that Scheduler implements (scheduler.py).
THEOREM LoopsFollowScheduler == ASpec => LoopsAreScheduled
<1>1. AInit => SamplerLoop!LInit /\ PublisherLoop!LInit
  BY DEF AInit, SamplerLoop!LInit, PublisherLoop!LInit, Drainer
<1>2. QED
  BY AgentInvInit, AgentInvPreserved, LoopsInvInit, LoopsInvPreserved,
     SamplerStepIsLoopStep, PublisherStepIsLoopStep, <1>1, PTL
     DEF ASpec, LoopsAreScheduled, SamplerLoop!LSpec, PublisherLoop!LSpec

-----------------------------------------------------------------------------
(* The order in which entries reach the broker.                            *)

\* pending() takes the oldest rows: nothing older than a row of the batch is
\* left out of the batch.
LEMMA OldestIsPrefix ==
    ASSUME NEW n \in Nat, NEW rows \in SUBSET (1..n), NEW limit \in Nat
    PROVE  /\ Oldest(rows, limit) \subseteq rows
           /\ \A i \in Oldest(rows, limit), j \in rows :
                 j < i => j \in Oldest(rows, limit)
<1>1. Oldest(rows, limit) \subseteq rows
  BY DEF Oldest
<1>2. ASSUME NEW i \in Oldest(rows, limit), NEW j \in rows, j < i
      PROVE  j \in Oldest(rows, limit)
  <2> DEFINE Older(k) == {m \in rows : m < k}
  <2>1. i \in rows /\ \A m \in rows : m \in Nat
    BY <1>1
  <2>2. Older(j) \subseteq Older(i)
    <3>1. ASSUME NEW m \in rows, m < j
          PROVE  m < i
      BY <1>2, <2>1, <3>1
    <3>2. QED
      BY <3>1
  <2>3. IsFiniteSet(Older(i)) /\ IsFiniteSet(Older(j))
    <3>1. Older(i) \in SUBSET (1..n) /\ Older(j) \in SUBSET (1..n)
      OBVIOUS
    <3>2. QED
      BY <3>1, BoundedRowsFinite
  <2>4. /\ Cardinality(Older(j)) <= Cardinality(Older(i))
        /\ Cardinality(Older(i)) \in Nat
        /\ Cardinality(Older(j)) \in Nat
    BY <2>2, <2>3, FS_Subset, FS_CardinalityType
  <2>5. Cardinality(Older(i)) < limit
    BY DEF Oldest
  <2>6. Cardinality(Older(j)) < limit
    BY <2>4, <2>5
  <2>7. QED
    BY <2>6 DEF Oldest
<1>3. QED
  BY <1>1, <1>2

\* Where a drainer has entries to send, or one under way.
Holding == {"sending", "waiting", "confirming"}

\* What is older than an entry of a batch is in the batch or not owed any
\* more; what is older than a message of the client has reached the broker
\* or was given up before the message was handed over.
GapInv ==
    /\ \A d \in Drainer : \A i \in todo[d], j \in 1..last :
          j < i => j \in todo[d] \/ j \notin unsent
    /\ \A k \in 1..Len(outq), j \in 1..last :
          j < outq[k].id => j \in arrived \cup evicted
    /\ NoGap

\* With one drain at a time, whatever is sent next is no older than anything
\* that was sent before: what is owed, what the client keeps, and what is
\* left of the batch stand in this order behind what has arrived.
Ordered ==
    /\ \A i \in unsent, k \in arrived : k <= i
    /\ \A i \in unsent, p \in 1..Len(outq) : outq[p].id <= i
    /\ \A p, q \in 1..Len(outq) : p <= q => outq[p].id <= outq[q].id
    /\ \A p \in 1..Len(outq), k \in arrived : p > reached => k <= outq[p].id
    /\ \A d \in Drainer : at[d] \in Holding =>
          \A i \in todo[d] : /\ \A k \in arrived : k <= i
                             /\ \A p \in 1..Len(outq) : outq[p].id <= i

OrderInv == ~overran => Ordered

\* The steps that matter neither for gaps nor for the order.
Calm ==
    /\ UNCHANGED <<last, unsent, evicted, arrived, todo, reached>>
    /\ Len(outq') = Len(outq)
    /\ \A k \in 1..Len(outq) : outq'[k].id = outq[k].id
    /\ \A d \in Drainer : at'[d] \in Holding => at[d] \in Holding
    /\ overran => overran'

\* An entry is queued, by the sampler or by main.
Queues ==
    /\ Enqueue
    /\ UNCHANGED <<arrived, todo, outq, reached, overran>>
    /\ \A d \in Drainer : at'[d] \in Holding => at[d] \in Holding

\* The process ends, and may leave a registration without its cap.
Ends == ProcessEnds /\ (TornEnqueue \/ UNCHANGED outboxVars)

\* The ids in use have been handed out.
LEMMA Ids ==
    ASSUME AgentInv
    PROVE  /\ last \in Nat
           /\ unsent \subseteq 1..last /\ arrived \subseteq 1..last
           /\ evicted \subseteq 1..last
           /\ \A d \in Drainer : todo[d] \subseteq 1..last
           /\ todo \in [Drainer -> SUBSET (1..last)]
           /\ outq \in Seq(Message) /\ Len(outq) \in Nat
           /\ DOMAIN outq = 1..Len(outq)
           /\ \A k \in 1..Len(outq) : outq[k] \in Message
           /\ \A k \in 1..Len(outq) : outq[k].id \in 1..last
           /\ reached \in 0..Len(outq)
           /\ at \in [Drainer -> {"idle", "ready", "sending", "waiting",
                                  "confirming", "pruning"}]
           /\ cur \in [Drainer -> 0..last]
<1>1. DTypeOK /\ DrainTypeOK /\ ClientTypeOK
  BY DEF AgentInv, ATypeOK
<1>2. /\ outq \in Seq(Message)
      /\ \A k \in 1..Len(outq) : outq[k].id <= last
      /\ last \in Nat
  BY <1>1 DEF ClientTypeOK, DTypeOK, TypeOK
<1>3. Len(outq) \in Nat /\ DOMAIN outq = 1..Len(outq)
  BY <1>2, LenProperties
<1>4. \A k \in 1..Len(outq) : outq[k] \in Message
  BY <1>2, ElementOfSeq
<1>5. \A k \in 1..Len(outq) : outq[k].id \in 1..last
  BY <1>2, <1>4 DEF Message
<1>6. QED
  BY <1>1, <1>2, <1>3, <1>4, <1>5
     DEF DTypeOK, TypeOK, DrainTypeOK, ClientTypeOK

LEMMA OrphanedKeepsIds ==
    ASSUME AgentInv, NEW d \in Drainer, outq' = Orphaned(d)
    PROVE  /\ Len(outq') = Len(outq)
           /\ \A k \in 1..Len(outq) : outq'[k].id = outq[k].id
<1>1. \A k \in 1..Len(outq) : [outq[k] EXCEPT !.by = "nobody"] \in Message
  BY Ids DEF Message
<1>2. /\ outq' \in [1..Len(outq) -> Message]
      /\ \A k \in 1..Len(outq) : outq'[k].id = outq[k].id
  BY Ids, <1>1 DEF Orphaned, Message
<1>3. Len(outq') = Len(outq)
  BY Ids, <1>2
<1>4. QED
  BY <1>2, <1>3

LEMMA OrderSteps ==
    ASSUME AgentInv, [ANext]_vars
    PROVE  \/ Calm \/ Queues \/ Ends \/ BrokerReceives \/ BrokerAcks
           \/ \E d \in Drainer : DrainBegin(d) \/ Send(d) \/ Confirm(d)
<1> USE DEF Holding
<1>1. at \in [Drainer -> {"idle", "ready", "sending", "waiting",
                          "confirming", "pruning"}]
  BY DEF AgentInv, ATypeOK, DrainTypeOK
<1>2. "main" \in Drainer /\ "publisher" \in Drainer
  BY DEF Drainer
<1>3. ASSUME NEW d \in Drainer,
             DrainOffline(d) \/ SendRefused(d) \/ ConfirmFails(d) \/ Prune(d)
      PROVE  Calm
  <2>1. /\ UNCHANGED <<last, unsent, evicted, arrived, todo, reached, outq,
                       overran>>
        /\ at' = [at EXCEPT ![d] = "idle"] \/ at' = [at EXCEPT ![d] = "pruning"]
    BY <1>3 DEF DrainOffline, SendRefused, ConfirmFails, Prune,
                PrunePublished, deliveryVars, network, bounds
  <2>2. QED
    BY <1>1, <2>1 DEF Calm
<1>4. ASSUME NEW d \in Drainer, Unanswered(d)
      PROVE  Calm
  <2>1. /\ UNCHANGED <<last, unsent, evicted, arrived, todo, reached, overran>>
        /\ outq' = Orphaned(d) /\ at' = [at EXCEPT ![d] = "pruning"]
    BY <1>4 DEF Unanswered, deliveryVars
  <2>2. QED
    BY <1>1, <2>1, OrphanedKeepsIds DEF Calm
<1>5. CASE LinkUp \/ LinkDown
  BY <1>5 DEF LinkUp, LinkDown, Calm, deliveryVars, drains, bounds
<1>6. CASE SamplerTick \/ SamplerFails
  BY <1>6 DEF SamplerTick, SamplerFails, Calm, deliveryVars, drains, network,
              bounds
<1>7. CASE SamplerCommit
  BY <1>7 DEF SamplerCommit, Queues, drains, network, bounds
<1>8. CASE PublisherTick
  BY <1>1, <1>2, <1>8 DEF PublisherTick, Calm, deliveryVars, network, bounds
<1>9. ASSUME NEW l \in Loop, ThreadEnds(l)
      PROVE  Calm
  BY <1>9 DEF ThreadEnds, Calm, deliveryVars, drains, network, bounds
<1>10. CASE Announce
  BY <1>1, <1>2, <1>10 DEF Announce, Queues, network, bounds
<1>11. CASE Boot \/ StartLoops \/ StopSampler \/ JoinSampler
  BY <1>11 DEF Boot, StartLoops, StopSampler, JoinSampler, Calm,
               deliveryVars, drains, network, bounds
<1>12. CASE JoinPublisher
  <2>1. UNCHANGED <<last, unsent, evicted, arrived, todo, reached, outq>>
    BY <1>12 DEF JoinPublisher, deliveryVars, network
  <2>2. overran => overran'
    BY <1>12 DEF JoinPublisher
  <2>3. at' = [at EXCEPT !["main"] = "ready"]
    BY <1>12 DEF JoinPublisher
  <2>4. QED
    BY <1>1, <1>2, <2>1, <2>2, <2>3 DEF Calm
<1>13. CASE StopClient \/ CloseStore
  BY <1>13 DEF StopClient, CloseStore, Calm, deliveryVars, drains, network,
               bounds
<1>14. CASE Exit \/ Crash \/ CrashInAnnounce
  BY <1>14 DEF Exit, Crash, CrashInAnnounce, Ends
<1>15. CASE UNCHANGED vars
  BY <1>15 DEF vars, Calm, drains, network, bounds
<1>16. QED
  BY <1>3, <1>4, <1>5, <1>6, <1>7, <1>8, <1>9, <1>10, <1>11, <1>12, <1>13,
     <1>14, <1>15 DEF ANext, DrainStep, MainStep

LEMMA EnqueueGrows ==
    ASSUME Enqueue \/ TornEnqueue
    PROVE  /\ last' = last + 1
           /\ unsent' \subseteq unsent \cup {last + 1}
           /\ evicted \subseteq evicted'
BY DEF Enqueue, TornEnqueue

\* Send takes the oldest entry that is left, and appends it.
LEMMA SendAppendsOldest ==
    ASSUME AgentInv, NEW d \in Drainer, Send(d)
    PROVE  \E i \in todo[d] :
              /\ \A j \in todo[d] : i <= j
              /\ i \in 1..last
              /\ Len(outq') = Len(outq) + 1
              /\ \A k \in 1..Len(outq) : outq'[k] = outq[k]
              /\ outq'[Len(outq) + 1].id = i
<1>1. PICK i \in todo[d] : /\ \A j \in todo[d] : i <= j
                           /\ outq' = Append(outq, [id |-> i, by |-> d])
  BY DEF Send
<1>2. i \in 1..last /\ [id |-> i, by |-> d] \in Message
  <2>1. i \in 1..last
    BY <1>1, Ids
  <2>2. last \in 0..MaxId
    BY DEF AgentInv, ATypeOK, DTypeOK, TypeOK
  <2>3. i \in 1..MaxId
    BY <2>1, <2>2
  <2>4. QED
    BY <2>1, <2>3 DEF Message
<1>3. /\ Len(outq') = Len(outq) + 1
      /\ \A k \in 1..Len(outq) : outq'[k] = outq[k]
      /\ outq'[Len(outq) + 1] = [id |-> i, by |-> d]
  BY <1>1, <1>2, Ids, AppendProperties
<1>4. QED
  BY <1>1, <1>2, <1>3

\* An acknowledgement takes the first message.
LEMMA AckTakesFirst ==
    ASSUME AgentInv, BrokerAcks
    PROVE  /\ Len(outq') = Len(outq) - 1 /\ Len(outq) > 0
           /\ \A k \in 1..Len(outq') : outq'[k] = outq[k + 1]
           /\ reached' = reached - 1
           /\ UNCHANGED <<last, unsent, evicted, arrived, todo, overran>>
<1>1. outq # <<>> /\ Len(outq) > 0
  BY Ids DEF BrokerAcks
<1>2. outq' = Tail(outq) /\ reached' = reached - 1
      /\ UNCHANGED <<last, unsent, evicted, arrived, todo, overran>>
  BY DEF BrokerAcks, deliveryVars, bounds
<1>3. QED
  BY <1>1, <1>2, Ids, HeadTailProperties

LEMMA GapInvPreserved ==
    ASSUME AgentInv, DeliveryInv, GapInv, [ANext]_vars
    PROVE  GapInv'
<1> USE DEF GapInv
<1>1. CASE Calm
  BY <1>1, Ids DEF Calm, NoGap
<1>2. CASE Queues
  <2>1. /\ last' = last + 1 /\ unsent' \subseteq unsent \cup {last + 1}
        /\ evicted \subseteq evicted'
        /\ UNCHANGED <<arrived, todo, outq, reached>>
    BY <1>2, EnqueueGrows DEF Queues
  <2>2. ASSUME NEW d \in Drainer, NEW i \in todo'[d], NEW j \in 1..last',
               j < i
        PROVE  j \in todo'[d] \/ j \notin unsent'
    <3>1. i \in 1..last /\ i \in todo[d]
      BY <2>1, <2>2, Ids
    <3>2. j \in 1..last /\ j # last + 1
      BY <2>1, <2>2, <3>1, Ids
    <3>3. QED
      BY <2>1, <2>2, <3>1, <3>2
  <2>3. ASSUME NEW k \in 1..Len(outq'), NEW j \in 1..last', j < outq'[k].id
        PROVE  j \in arrived' \cup evicted'
    <3>1. k \in 1..Len(outq) /\ outq[k].id \in 1..last /\ j < outq[k].id
      BY <2>1, <2>3, Ids
    <3>2. j \in 1..last
      BY <2>1, <3>1, Ids
    <3>3. QED
      BY <2>1, <3>1, <3>2
  <2>4. NoGap'
    <3>1. ASSUME NEW i \in arrived, NEW j \in 1..(last + 1), j < i
          PROVE  j \in 1..last
      BY <3>1, Ids
    <3>2. QED
      BY <2>1, <3>1 DEF NoGap
  <2>5. QED
    BY <2>2, <2>3, <2>4
<1>3. CASE Ends
  <2>1. /\ last' = last \/ last' = last + 1
        /\ evicted \subseteq evicted' /\ arrived' = arrived
        /\ \A d \in Drainer : todo'[d] = {}
        /\ Len(outq') = 0
    BY <1>3, EnqueueGrows DEF Ends, ProcessEnds, outboxVars
  <2>2. NoGap'
    <3>1. ASSUME NEW i \in arrived, NEW j \in 1..last', j < i
          PROVE  j \in 1..last
      BY <2>1, <3>1, Ids
    <3>2. QED
      BY <2>1, <3>1 DEF NoGap
  <2>3. 1..Len(outq') = {}
    BY <2>1
  <2>4. QED
    BY <2>1, <2>2, <2>3
<1>4. CASE BrokerReceives
  <2>1. /\ reached + 1 \in 1..Len(outq)
        /\ arrived' = arrived \cup {outq[reached + 1].id}
        /\ UNCHANGED <<last, unsent, evicted, todo, outq>>
    BY <1>4, Ids DEF BrokerReceives, outboxVars, drains
  <2>2. NoGap'
    BY <2>1 DEF NoGap
  <2>3. QED
    BY <2>1, <2>2
<1>5. CASE BrokerAcks
  <2>1. \A k \in 1..Len(outq') : k + 1 \in 1..Len(outq)
    BY <1>5, AckTakesFirst, Ids
  <2>2. QED
    BY <1>5, <2>1, AckTakesFirst DEF NoGap
<1>6. ASSUME NEW d \in Drainer, DrainBegin(d)
      PROVE  GapInv'
  <2>1. /\ todo' = [todo EXCEPT ![d] = Oldest(unsent, Batch)]
        /\ UNCHANGED <<last, unsent, evicted, arrived, outq>>
    BY <1>6 DEF DrainBegin, deliveryVars, network
  <2>2. \A i \in Oldest(unsent, Batch), j \in unsent :
           j < i => j \in Oldest(unsent, Batch)
    <3>1. last \in Nat /\ unsent \in SUBSET (1..last) /\ Batch \in Nat
      BY Ids
    <3>2. QED
      BY <3>1, OldestIsPrefix
  <2>3. QED
    BY <2>1, <2>2, Ids DEF NoGap
<1>7. ASSUME NEW d \in Drainer, Send(d)
      PROVE  GapInv'
  <2>1. UNCHANGED <<last, unsent, evicted, arrived, todo>>
    BY <1>7 DEF Send, deliveryVars
  <2>2. PICK i \in todo[d] :
              /\ \A j \in todo[d] : i <= j
              /\ i \in 1..last
              /\ Len(outq') = Len(outq) + 1
              /\ \A k \in 1..Len(outq) : outq'[k] = outq[k]
              /\ outq'[Len(outq) + 1].id = i
    BY <1>7, SendAppendsOldest
  <2>3. ASSUME NEW j \in 1..last, j < i
        PROVE  j \in arrived \cup evicted
    <3>1. j \notin todo[d]
      BY <2>2, <2>3
    <3>2. j \notin unsent
      BY <2>3, <3>1
    <3>3. QED
      BY <3>2 DEF DeliveryInv, NoSilentLoss
  <2>4. 1..Len(outq') = 1..Len(outq) \cup {Len(outq) + 1}
    BY <2>2, Ids
  <2>5. QED
    BY <2>1, <2>2, <2>3, <2>4 DEF NoGap
<1>8. ASSUME NEW d \in Drainer, Confirm(d)
      PROVE  GapInv'
  <2>1. /\ todo' = [todo EXCEPT ![d] = @ \ {cur[d]}]
        /\ unsent' = unsent \ {cur[d]}
        /\ UNCHANGED <<last, evicted, arrived, outq>>
    BY <1>8 DEF Confirm, Confirmed, MarkPublished, network
  <2>2. QED
    BY <2>1, Ids DEF NoGap
<1>9. QED
  BY OrderSteps, <1>1, <1>2, <1>3, <1>4, <1>5, <1>6, <1>7, <1>8

\* Two drains are under way only after the publisher has outlived its join.
LEMMA DrainsApart ==
    ASSUME AgentInv, LoopsInv, ~overran, NEW d \in Drainer, NEW e \in Drainer,
           at[d] # "idle", at[e] # "idle"
    PROVE  d = e
BY DEF AgentInv, QueueMatchesDrains, LoopsInv, Drainer

LEMMA OrderInvPreserved ==
    ASSUME AgentInv, LoopsInv, GapInv, OrderInv, [ANext]_vars
    PROVE  OrderInv'
<1> USE DEF OrderInv
<1>1. CASE Calm
  <2>1. /\ UNCHANGED <<unsent, arrived, todo, reached>>
        /\ Len(outq') = Len(outq)
        /\ \A k \in 1..Len(outq) : outq'[k].id = outq[k].id
        /\ \A d \in Drainer : at'[d] \in Holding => at[d] \in Holding
        /\ overran => overran'
    BY <1>1 DEF Calm
  <2>2. QED
    BY <2>1 DEF Ordered
<1>2. CASE Queues
  <2>1. /\ unsent' \subseteq unsent \cup {last + 1}
        /\ UNCHANGED <<arrived, todo, outq, reached, overran>>
        /\ \A d \in Drainer : at'[d] \in Holding => at[d] \in Holding
    BY <1>2, EnqueueGrows DEF Queues
  <2>2. /\ \A k \in arrived : k <= last + 1
        /\ \A p \in 1..Len(outq) : outq[p].id <= last + 1
    BY Ids
  <2>3. QED
    BY <2>1, <2>2 DEF Ordered
<1>3. CASE Ends
  <2>1. /\ unsent' \subseteq unsent \cup {last + 1}
        /\ UNCHANGED <<arrived, overran>>
        /\ \A d \in Drainer : at'[d] = "idle"
        /\ Len(outq') = 0
    BY <1>3, EnqueueGrows DEF Ends, ProcessEnds, outboxVars
  <2>2. \A k \in arrived : k <= last + 1
    BY Ids
  <2>3. 1..Len(outq') = {} /\ "idle" \notin Holding
    BY <2>1 DEF Holding
  <2>4. QED
    BY <2>1, <2>2, <2>3 DEF Ordered
<1>4. CASE BrokerReceives
  <2>1. /\ reached + 1 \in 1..Len(outq) /\ reached' = reached + 1
        /\ arrived' = arrived \cup {outq[reached + 1].id}
        /\ UNCHANGED <<unsent, todo, outq, at, overran>>
    BY <1>4, Ids DEF BrokerReceives, outboxVars, drains, bounds
  <2>2. \A p \in 1..Len(outq) : p > reached + 1 => p > reached /\ reached + 1 <= p
    BY Ids
  <2>3. QED
    BY <2>1, <2>2 DEF Ordered
<1>5. CASE BrokerAcks
  <2>1. /\ \A k \in 1..Len(outq') : k + 1 \in 1..Len(outq)
        /\ \A p, q \in 1..Len(outq') : p <= q => p + 1 <= q + 1
        /\ \A p \in 1..Len(outq') : p > reached' => p + 1 > reached
    BY <1>5, AckTakesFirst, Ids
  <2>2. \A d \in Drainer : at'[d] \in Holding => at[d] \in Holding
    BY <1>5, AckKeepsBusy DEF Holding
  <2>3. QED
    BY <1>5, <2>1, <2>2, AckTakesFirst DEF Ordered
<1>6. ASSUME NEW d \in Drainer, DrainBegin(d)
      PROVE  OrderInv'
  <2>1. /\ todo' = [todo EXCEPT ![d] = Oldest(unsent, Batch)]
        /\ \E to \in {"pruning", "sending"} : at' = [at EXCEPT ![d] = to]
        /\ UNCHANGED <<unsent, arrived, outq, reached, overran>>
    BY <1>6 DEF DrainBegin, deliveryVars, network, bounds
  <2>2. Oldest(unsent, Batch) \subseteq unsent
    BY DEF Oldest
  <2>3. QED
    BY <2>1, <2>2, Ids DEF Ordered
<1>7. ASSUME NEW d \in Drainer, Send(d)
      PROVE  OrderInv'
  <2> SUFFICES ASSUME ~overran'
               PROVE  Ordered'
    OBVIOUS
  <2>1. /\ UNCHANGED <<last, unsent, arrived, todo, reached, overran>>
        /\ at' = [at EXCEPT ![d] = "waiting"] /\ at[d] = "sending"
    BY <1>7 DEF Send, deliveryVars, bounds
  <2>2. PICK i \in todo[d] :
              /\ \A j \in todo[d] : i <= j
              /\ i \in 1..last
              /\ Len(outq') = Len(outq) + 1
              /\ \A k \in 1..Len(outq) : outq'[k] = outq[k]
              /\ outq'[Len(outq) + 1].id = i
    BY <1>7, SendAppendsOldest
  <2>3. Ordered
    BY <2>1
  <2>4. 1..Len(outq') = 1..Len(outq) \cup {Len(outq) + 1}
    BY <2>2, Ids
  <2>5. \A u \in unsent : i <= u
    <3>1. ASSUME NEW u \in unsent, ~(i <= u)
          PROVE  FALSE
      <4>1. u \in 1..last /\ u < i
        BY <2>2, <3>1, Ids
      <4>2. u \in todo[d]
        BY <3>1, <4>1 DEF GapInv
      <4>3. QED
        BY <2>2, <3>1, <4>2
    <3>2. QED
      BY <3>1
  <2>6. /\ \A k \in arrived : k <= i
        /\ \A p \in 1..Len(outq) : outq[p].id <= i
    BY <2>1, <2>2, <2>3 DEF Ordered, Holding
  <2>7. \A u \in unsent', p \in 1..Len(outq') : outq'[p].id <= u
    BY <2>1, <2>2, <2>3, <2>4, <2>5 DEF Ordered
  <2>8. \A p, q \in 1..Len(outq') : p <= q => outq'[p].id <= outq'[q].id
    <3>1. \A p \in 1..Len(outq) : ~(Len(outq) + 1 <= p)
      BY Ids
    <3>2. i <= i
      BY <2>2
    <3>3. QED
      BY <2>2, <2>3, <2>4, <2>6, <3>1, <3>2 DEF Ordered
  <2>9. \A p \in 1..Len(outq'), k \in arrived' :
           p > reached' => k <= outq'[p].id
    BY <2>1, <2>2, <2>3, <2>4, <2>6 DEF Ordered
  <2>10. ASSUME NEW e \in Drainer, at'[e] \in Holding, NEW j \in todo'[e]
         PROVE  /\ \A k \in arrived' : k <= j
                /\ \A p \in 1..Len(outq') : outq'[p].id <= j
    <3>1. e = d
      <4>1. at[e] # "idle" /\ at[d] # "idle"
        BY <2>1, <2>10, Ids DEF Holding
      <4>2. ~overran
        BY <2>1
      <4>3. QED
        BY <4>1, <4>2, DrainsApart
    <3>2. j \in todo[d]
      BY <2>1, <2>10, <3>1
    <3>3. /\ \A k \in arrived : k <= j
          /\ \A p \in 1..Len(outq) : outq[p].id <= j
      BY <2>1, <2>3, <3>2 DEF Ordered, Holding
    <3>4. QED
      BY <2>1, <2>2, <2>4, <3>2, <3>3
  <2>11. QED
    BY <2>1, <2>3, <2>7, <2>8, <2>9, <2>10 DEF Ordered
<1>8. ASSUME NEW d \in Drainer, Confirm(d)
      PROVE  OrderInv'
  <2>1. /\ todo' = [todo EXCEPT ![d] = @ \ {cur[d]}]
        /\ unsent' = unsent \ {cur[d]} /\ at[d] = "confirming"
        /\ \E to \in {"pruning", "sending"} : at' = [at EXCEPT ![d] = to]
        /\ UNCHANGED <<arrived, outq, reached, overran>>
    BY <1>8 DEF Confirm, Confirmed, MarkPublished, network, bounds
  <2>2. /\ \A e \in Drainer : todo'[e] \subseteq todo[e]
        /\ \A e \in Drainer : at'[e] \in Holding => at[e] \in Holding
    BY <2>1, Ids DEF Holding
  <2>3. QED
    BY <2>1, <2>2 DEF Ordered
<1>9. QED
  BY OrderSteps, <1>1, <1>2, <1>3, <1>4, <1>5, <1>6, <1>7, <1>8

\* All that the agent's steps preserve.
AgentSafeInv == AgentInv /\ DeliveryInv /\ LoopsInv /\ GapInv /\ OrderInv

LEMMA AgentSafeInvInit == AInit => AgentSafeInv
<1> SUFFICES ASSUME AInit
             PROVE  AgentSafeInv
  OBVIOUS
<1>1. DeliveryInv
  BY DeliveryInvInit DEF AInit
<1>2. /\ unsent = {} /\ arrived = {} /\ Len(outq) = 0
      /\ \A d \in Drainer : todo[d] = {}
  BY DEF AInit, DInit, Init
<1>3. 1..Len(outq) = {}
  BY <1>2
<1>4. GapInv /\ OrderInv
  BY <1>2, <1>3 DEF GapInv, OrderInv, Ordered, NoGap
<1>5. QED
  BY <1>1, <1>4, AgentInvInit, LoopsInvInit DEF AgentSafeInv

LEMMA AgentSafeInvPreserved == AgentSafeInv /\ [ANext]_vars => AgentSafeInv'
<1> SUFFICES ASSUME AgentSafeInv, [ANext]_vars
             PROVE  AgentSafeInv'
  OBVIOUS
<1>1. AgentInv' /\ DeliveryInv'
  BY AgentInvPreserved, AgentStepIsDeliveryStep, DeliveryStepPreserves
     DEF AgentSafeInv
<1>2. LoopsInv' /\ GapInv' /\ OrderInv'
  BY LoopsInvPreserved, GapInvPreserved, OrderInvPreserved DEF AgentSafeInv
<1>3. QED
  BY <1>1, <1>2 DEF AgentSafeInv

\* Stopping at the first failure means that no entry is skipped, even while
\* two drains overlap at shutdown (publisher.py:10).
THEOREM NothingSkipped == ASpec => []NoGap
<1>1. AgentSafeInv => NoGap
  BY DEF AgentSafeInv, GapInv
<1>2. QED
  BY AgentSafeInvInit, AgentSafeInvPreserved, <1>1, PTL DEF ASpec

\* A crash or a lost answer costs the resend of one entry (publisher.py:76).
THEOREM AtMostOneResent == ASpec => []OneResendAtMost
<1>1. ASSUME AgentSafeInv, ~overran
      PROVE  Cardinality(arrived \cap unsent) <= 1
  <2>1. /\ \A i \in unsent, k \in arrived : k <= i
        /\ unsent \subseteq 1..last /\ last \in Nat
    BY <1>1, Ids DEF AgentSafeInv, OrderInv, Ordered
  <2>2. \A i, k \in arrived \cap unsent : i = k
    <3>1. ASSUME NEW i \in arrived \cap unsent, NEW k \in arrived \cap unsent
          PROVE  i = k
      <4>1. i \in unsent /\ i \in arrived /\ k \in unsent /\ k \in arrived
        OBVIOUS
      <4>2. i \in Nat /\ k \in Nat
        BY <2>1, <4>1
      <4>3. i <= k /\ k <= i
        BY <2>1, <4>1
      <4>4. QED
        BY <4>2, <4>3
    <3>2. QED
      BY <3>1
  <2>3. CASE arrived \cap unsent = {}
    <3>1. Cardinality({}) = 0
      BY FS_EmptySet
    <3>2. QED
      BY <2>3, <3>1
  <2>4. CASE arrived \cap unsent # {}
    <3>1. PICK i \in arrived \cap unsent : TRUE
      BY <2>4
    <3>2. arrived \cap unsent = {i}
      BY <2>2, <3>1
    <3>3. Cardinality({i}) = 1
      BY FS_Singleton
    <3>4. Cardinality(arrived \cap unsent) = 1
      BY <3>2, <3>3, Zenon
    <3>5. QED
      BY <3>4
  <2>5. QED
    BY <2>3, <2>4
<1>2. AgentSafeInv => OneResendAtMost
  BY <1>1 DEF OneResendAtMost
<1>3. QED
  BY AgentSafeInvInit, AgentSafeInvPreserved, <1>2, PTL DEF ASpec

\* Readings reach the broker in the order the machine produced them, across
\* timeouts with copies under way, reconnects, evictions, restarts and
\* crashes, unless the publisher has outlived its join (publisher.py:10-13).
THEOREM ArrivalsKeepOrder == ASpec => InOrderArrival
<1>1. ASSUME AgentSafeInv, [ANext]_vars, ~overran,
             NEW i \in arrived' \ arrived, NEW k \in arrived
      PROVE  k < i
  <2>1. arrived' # arrived
    BY <1>1
  <2>2. BrokerReceives
    BY <2>1, <1>1, OrderSteps
       DEF AgentSafeInv, Calm, Queues, Ends, ProcessEnds, BrokerAcks,
           DrainBegin, Send, Confirm, Confirmed, deliveryVars
  <2>3. /\ reached + 1 \in 1..Len(outq) /\ reached + 1 > reached
        /\ i = outq[reached + 1].id /\ i # k
        /\ i \in Nat /\ k \in Nat
    BY <1>1, <2>2, Ids DEF BrokerReceives, AgentSafeInv
  <2>4. k <= i
    BY <1>1, <2>3 DEF AgentSafeInv, OrderInv, Ordered
  <2>5. QED
    BY <2>3, <2>4
<1>2. AgentSafeInv /\ [ANext]_vars =>
         [~overran => \A i \in arrived' \ arrived, k \in arrived : k < i]_vars
  BY <1>1
<1>3. QED
  BY AgentSafeInvInit, AgentSafeInvPreserved, <1>2, PTL
     DEF ASpec, InOrderArrival

-----------------------------------------------------------------------------
(* The length of a drain, and of the backlog.                              *)

\* The moves that a drain can make, whatever happens beside it.
DrainMoves(d) ==
    \/ UNCHANGED <<at[d], todo[d], cur[d]>>
    \/ at'[d] = "idle"
    \/ at[d] = "idle" /\ at'[d] = "ready"
    \/ /\ at[d] = "ready"
       /\ todo'[d] = Oldest(unsent, Batch)
       /\ at'[d] = IF unsent = {} THEN "pruning" ELSE "sending"
    \/ /\ at[d] = "sending" /\ at'[d] = "waiting"
       /\ cur'[d] \in todo[d] /\ todo'[d] = todo[d]
    \/ at[d] \in {"sending", "waiting"} /\ at'[d] = "pruning"
    \/ /\ at[d] = "waiting" /\ at'[d] = "confirming"
       /\ UNCHANGED <<todo[d], cur[d]>>
    \/ /\ at[d] = "confirming"
       /\ todo'[d] = todo[d] \ {cur[d]}
       /\ at'[d] = IF todo'[d] = {} THEN "pruning" ELSE "sending"

LEMMA DrainerMoves ==
    ASSUME AgentInv, [ANext]_vars, NEW d \in Drainer
    PROVE  DrainMoves(d)
<1>1. /\ at \in [Drainer -> {"idle", "ready", "sending", "waiting",
                             "confirming", "pruning"}]
      /\ todo \in [Drainer -> SUBSET (1..last)]
      /\ cur \in [Drainer -> 0..last]
  BY Ids
<1>2. "main" \in Drainer /\ "publisher" \in Drainer
  BY DEF Drainer
<1> USE <1>1, <1>2 DEF DrainMoves
<1>3. ASSUME NEW e \in Drainer, DrainStep(e)
      PROVE  DrainMoves(d)
  <2>1. CASE d # e
    <3>1. at'[d] = at[d] /\ todo'[d] = todo[d] /\ cur'[d] = cur[d]
      BY <1>3, <2>1 DEF DrainStep, DrainOffline, DrainBegin, Send, SendRefused,
             Unanswered, Confirm, Confirmed, ConfirmFails, Prune
    <3>2. QED
      BY <3>1
  <2>2. CASE d = e
    <3>1. CASE DrainOffline(d) \/ ConfirmFails(d) \/ Prune(d)
      BY <3>1 DEF DrainOffline, ConfirmFails, Prune
    <3>2. CASE SendRefused(d) \/ Unanswered(d)
      BY <3>2 DEF SendRefused, Unanswered
    <3>3. CASE DrainBegin(d)
      BY <3>3 DEF DrainBegin
    <3>4. CASE Send(d)
      <4>1. PICK i \in todo[d] : cur' = [cur EXCEPT ![d] = i]
        BY <3>4 DEF Send
      <4>2. QED
        BY <3>4, <4>1 DEF Send
    <3>5. CASE Confirm(d)
      BY <3>5 DEF Confirm, Confirmed
    <3>6. QED
      BY <1>3, <2>2, <3>1, <3>2, <3>3, <3>4, <3>5 DEF DrainStep
  <2>3. QED
    BY <2>1, <2>2
<1>4. CASE BrokerAcks
  <2>1. at'[d] = at[d] \/ (at[d] = "waiting" /\ at'[d] = "confirming")
    BY <1>4, AckKeepsBusy
  <2>2. UNCHANGED <<todo, cur>>
    BY <1>4 DEF BrokerAcks
  <2>3. QED
    BY <2>1, <2>2
<1>5. CASE PublisherTick
  BY <1>5 DEF PublisherTick
<1>6. CASE Announce \/ JoinPublisher
  <2>1. /\ at' = [at EXCEPT !["main"] = "ready"] /\ UNCHANGED <<todo, cur>>
        /\ at["main"] = "idle"
    BY <1>6 DEF Announce, JoinPublisher, AgentInv, QueueMatchesDrains
  <2>2. QED
    BY <2>1
<1>7. CASE Exit \/ Crash \/ CrashInAnnounce
  BY <1>7 DEF Exit, Crash, CrashInAnnounce, ProcessEnds
<1>8. CASE LinkUp \/ LinkDown \/ BrokerReceives \/ SamplerTick
           \/ SamplerCommit \/ SamplerFails \/ \E l \in Loop : ThreadEnds(l)
  BY <1>8 DEF LinkUp, LinkDown, BrokerReceives, SamplerTick, SamplerCommit,
              SamplerFails, ThreadEnds, drains
<1>9. CASE Boot \/ StartLoops \/ StopSampler \/ JoinSampler \/ StopClient
           \/ CloseStore
  BY <1>9 DEF Boot, StartLoops, StopSampler, JoinSampler, StopClient,
              CloseStore, drains
<1>10. CASE UNCHANGED vars
  BY <1>10 DEF vars, drains
<1>11. QED
  BY <1>3, <1>4, <1>5, <1>6, <1>7, <1>8, <1>9, <1>10 DEF ANext, MainStep

\* A drain has something in hand, at most a batch of it, and the entry that
\* it has sent is part of that.
BatchInv ==
    \A d \in Drainer :
        /\ at[d] \in Holding => todo[d] # {} /\ Cardinality(todo[d]) <= Batch
        /\ at[d] \in {"waiting", "confirming"} => cur[d] \in todo[d]

LEMMA BatchInvInit == AInit => BatchInv
  BY DEF AInit, BatchInv, Holding

\* What is in hand can be counted, and shrinks with each confirmation.
LEMMA BatchCounts ==
    ASSUME AgentInv, NEW d \in Drainer
    PROVE  /\ Cardinality(todo[d]) \in Nat
           /\ todo[d] # {} => Cardinality(todo[d]) > 0
           /\ cur[d] \in todo[d] =>
                 Cardinality(todo[d] \ {cur[d]}) = Cardinality(todo[d]) - 1
<1>1. last \in Nat /\ todo[d] \in SUBSET (1..last)
  BY Ids
<1>2. IsFiniteSet(todo[d]) /\ Cardinality(todo[d]) \in Nat
  BY <1>1, BoundedRowsFinite, FS_CardinalityType
<1>3. todo[d] # {} => Cardinality(todo[d]) # 0
  BY <1>2, FS_EmptySet
<1>4. cur[d] \in todo[d] =>
          Cardinality(todo[d] \ {cur[d]}) = Cardinality(todo[d]) - 1
  BY <1>2, FS_RemoveElement
<1>5. QED
  BY <1>2, <1>3, <1>4

LEMMA BatchInvPreserved ==
    ASSUME AgentInv, BatchInv, [ANext]_vars
    PROVE  BatchInv'
<1> SUFFICES ASSUME NEW d \in Drainer
             PROVE  /\ at'[d] \in Holding =>
                          todo'[d] # {} /\ Cardinality(todo'[d]) <= Batch
                    /\ at'[d] \in {"waiting", "confirming"} =>
                          cur'[d] \in todo'[d]
  BY DEF BatchInv
<1> USE DEF Holding
<1>1. DrainMoves(d)
  BY DrainerMoves
<1>2. CASE /\ at[d] = "ready"
           /\ todo'[d] = Oldest(unsent, Batch)
           /\ at'[d] = IF unsent = {} THEN "pruning" ELSE "sending"
  <2>1. /\ last \in Nat /\ unsent \in SUBSET (1..last)
        /\ Batch \in Nat /\ Batch \in Nat \ {0}
    BY Ids
  <2>2. Cardinality(Oldest(unsent, Batch)) <= Batch
    BY <2>1, BatchIsLimited
  <2>3. unsent # {} => Oldest(unsent, Batch) # {}
    BY <2>1, BatchHasOldest
  <2>4. QED
    BY <1>2, <2>2, <2>3
<1>3. CASE /\ at[d] = "confirming"
           /\ todo'[d] = todo[d] \ {cur[d]}
           /\ at'[d] = IF todo'[d] = {} THEN "pruning" ELSE "sending"
  <2>1. cur[d] \in todo[d] /\ Cardinality(todo[d]) <= Batch
    BY <1>3 DEF BatchInv
  <2>2. Cardinality(todo'[d]) = Cardinality(todo[d]) - 1
        /\ Cardinality(todo[d]) \in Nat
    BY <1>3, <2>1, BatchCounts
  <2>3. QED
    BY <1>3, <2>1, <2>2
<1>4. QED
  BY <1>1, <1>2, <1>3 DEF BatchInv, DrainMoves

LEMMA DrainShortens ==
    ASSUME AgentInv, BatchInv, [ANext]_vars, NEW d \in Drainer,
           at'[d] # at[d] \/ todo'[d] # todo[d]
    PROVE  StepsLeft(d)' < IF at[d] = "idle" THEN 3 * Batch + 3
                           ELSE StepsLeft(d)
<1> DEFINE n == Cardinality(todo[d])
           m == Cardinality(todo'[d])
<1>1. DrainMoves(d)
  BY DrainerMoves
<1>2. /\ n \in Nat /\ m \in Nat
      /\ at[d] \in Holding => n > 0 /\ n <= Batch
      /\ at'[d] \in Holding => m > 0 /\ m <= Batch
      /\ at[d] = "confirming" /\ todo'[d] = todo[d] \ {cur[d]} => m = n - 1
  <2>1. AgentInv' /\ BatchInv'
    BY AgentInvPreserved, BatchInvPreserved
  <2>2. n \in Nat /\ (todo[d] # {} => n > 0)
    BY BatchCounts
  <2>3. m \in Nat /\ (todo'[d] # {} => m > 0)
    <3>1. last' \in Nat /\ todo'[d] \in SUBSET (1..last')
      BY <2>1 DEF AgentInv, ATypeOK, DTypeOK, TypeOK, DrainTypeOK
    <3>2. IsFiniteSet(todo'[d]) /\ m \in Nat
      BY <3>1, BoundedRowsFinite, FS_CardinalityType
    <3>3. todo'[d] # {} => m # 0
      BY <3>2, FS_EmptySet
    <3>4. QED
      BY <3>2, <3>3
  <2>4. at[d] = "confirming" /\ todo'[d] = todo[d] \ {cur[d]} => m = n - 1
    BY BatchCounts DEF BatchInv
  <2>5. QED
    BY <2>1, <2>2, <2>3, <2>4 DEF BatchInv
<1>3. /\ at[d] \in {"idle", "ready", "sending", "waiting", "confirming", "pruning"}
      /\ Batch \in Nat
  BY Ids
<1>4. StepsLeft(d) = CASE at[d] = "idle"       -> 0
                       [] at[d] = "pruning"    -> 1
                       [] at[d] = "confirming" -> 3 * n - 1
                       [] at[d] = "waiting"    -> 3 * n
                       [] at[d] = "sending"    -> 3 * n + 1
                       [] at[d] = "ready"      -> 3 * Batch + 2
  BY DEF StepsLeft
<1>5. StepsLeft(d)' = CASE at'[d] = "idle"       -> 0
                        [] at'[d] = "pruning"    -> 1
                        [] at'[d] = "confirming" -> 3 * m - 1
                        [] at'[d] = "waiting"    -> 3 * m
                        [] at'[d] = "sending"    -> 3 * m + 1
                        [] at'[d] = "ready"      -> 3 * Batch + 2
  BY DEF StepsLeft
<1>6. todo'[d] = todo[d] => m = n
  OBVIOUS
<1>7. todo'[d] = {} => m = 0
  BY FS_EmptySet
<1> HIDE DEF n, m
<1>8. QED
  BY <1>1, <1>2, <1>3, <1>4, <1>5, <1>6, <1>7 DEF DrainMoves, Holding

\* A drain is "bounded, because refusing to exit is worse than a delay"
\* (agent.py:123): no drain takes more than three steps for each entry of one
\* batch, and two before and one after them, however fast the sampler adds
\* entries, whatever the cap evicts, and whatever the link does.
THEOREM DrainsEnd == ASpec => DrainsAreBounded
<1>1. AgentInv /\ BatchInv /\ [ANext]_vars => (AgentInv /\ BatchInv)'
  BY AgentInvPreserved, BatchInvPreserved
<1>2. AgentInv /\ BatchInv /\ [ANext]_vars =>
         [\A d \in Drainer :
             at'[d] # at[d] \/ todo'[d] # todo[d] =>
                 StepsLeft(d)' < IF at[d] = "idle" THEN 3 * Batch + 3
                                 ELSE StepsLeft(d)]_vars
  BY DrainShortens
<1>3. QED
  BY AgentInvInit, BatchInvInit, <1>1, <1>2, PTL DEF ASpec, DrainsAreBounded

\* No process before its announcement has a loop that could add an entry.
Unannounced == {"off", "starting"}

\* What a step can do to the backlog and to the registrations.
QueueMoves ==
    \/ /\ UNCHANGED <<last, regs>> /\ unsent' \subseteq unsent
       /\ phase' \in Unannounced \/ phase \notin Unannounced
    \/ Enqueue /\ UNCHANGED regs /\ phase \notin Unannounced
    \/ Enqueue /\ regs' = regs \cup {last + 1}
    \/ TornEnqueue /\ regs' = regs \cup {last + 1} /\ phase' = "off"

LEMMA AgentQueueMoves ==
    ASSUME AgentInv, LoopsInv, [ANext]_vars
    PROVE  QueueMoves
<1> USE DEF QueueMoves, Unannounced
<1>1. ASSUME NEW d \in Drainer, DrainStep(d)
      PROVE  QueueMoves
  <2>1. at[d] # "idle" /\ UNCHANGED <<regs, phase>>
    BY <1>1, DrainStepControl
       DEF process, DrainStep, DrainOffline, DrainBegin, Send, SendRefused,
           Unanswered, Confirm, Confirmed, ConfirmFails, Prune
  <2>2. phase \notin Unannounced
    BY <2>1 DEF AgentInv, QueueMatchesDrains, LoopsInv, Drainer
  <2>3. UNCHANGED last /\ unsent' \subseteq unsent
    BY <1>1 DEF DrainStep, DrainOffline, DrainBegin, Send, SendRefused,
                Unanswered, Confirm, ConfirmFails, Prune, MarkPublished,
                PrunePublished, deliveryVars
  <2>4. QED
    BY <2>1, <2>2, <2>3
<1>2. CASE LinkUp \/ LinkDown \/ BrokerAcks \/ SamplerTick \/ SamplerFails
           \/ PublisherTick \/ \E l \in Loop : ThreadEnds(l)
  BY <1>2 DEF LinkUp, LinkDown, BrokerAcks, SamplerTick, SamplerFails,
              PublisherTick, ThreadEnds, deliveryVars, process
<1>3. CASE BrokerReceives
  BY <1>3 DEF BrokerReceives, outboxVars, process
<1>4. CASE SamplerCommit
  BY <1>4 DEF SamplerCommit, LoopsInv
<1>5. CASE Announce
  BY <1>5 DEF Announce
<1>6. CASE Boot \/ StartLoops \/ StopSampler \/ JoinSampler \/ JoinPublisher
           \/ StopClient \/ CloseStore
  BY <1>6 DEF Boot, StartLoops, StopSampler, JoinSampler, JoinPublisher,
              StopClient, CloseStore, deliveryVars
<1>7. CASE Exit \/ Crash
  BY <1>7 DEF Exit, Crash, ProcessEnds, outboxVars
<1>8. CASE CrashInAnnounce
  BY <1>8 DEF CrashInAnnounce, ProcessEnds
<1>9. CASE UNCHANGED vars
  BY <1>9 DEF vars, process
<1>10. QED
  BY <1>1, <1>2, <1>3, <1>4, <1>5, <1>6, <1>7, <1>8, <1>9 DEF ANext, MainStep

\* _enforce_cap bounds the table, although a crash between the INSERT of a
\* registration and the cap leaves one row too many each time: the
\* announcement of the next process makes it good before its loops start
\* (store.py, Store.enqueue and _enforce_cap; agent.py, Agent._announce).
THEOREM BacklogStaysCapped == ASpec => []BacklogIsCapped
<1>1. AInit => BacklogIsCapped
  BY DEF AInit, BacklogIsCapped
<1>2. ASSUME AgentSafeInv, BacklogIsCapped, [ANext]_vars
      PROVE  BacklogIsCapped'
  <2>1. /\ last \in Nat /\ unsent \in SUBSET (1..last)
        /\ IsFiniteSet(unsent) /\ Cardinality(unsent) \in Nat
    BY <1>2, Ids, BoundedRowsFinite, FS_CardinalityType DEF AgentSafeInv
  <2>2. CASE Enqueue
    <3> DEFINE rows == unsent \cup {last + 1}
    <3>1. last + 1 \in Nat /\ rows \in SUBSET (1..(last + 1))
      BY <2>1
    <3>2. unsent' = rows \ Excess(rows, Cap)
      BY <2>2 DEF Enqueue
    <3>3. Cardinality(unsent') <= Cap
      BY <3>1, <3>2, CapIsEnforced
    <3>4. QED
      BY <3>3 DEF BacklogIsCapped
  <2>3. CASE /\ unsent' \subseteq unsent
             /\ phase' \in Unannounced \/ phase \notin Unannounced
    <3>1. /\ Cardinality(unsent') <= Cardinality(unsent)
          /\ Cardinality(unsent') \in Nat
      BY <2>1, <2>3, FS_Subset, FS_CardinalityType
    <3>2. QED
      BY <1>2, <2>1, <2>3, <3>1 DEF BacklogIsCapped, Unannounced
  <2>4. CASE phase' = "off"
    BY <2>4 DEF BacklogIsCapped
  <2>5. QED
    BY <1>2, <2>2, <2>3, <2>4, AgentQueueMoves DEF AgentSafeInv, QueueMoves
<1>3. QED
  BY <1>1, <1>2, AgentSafeInvInit, AgentSafeInvPreserved, PTL DEF ASpec

\* Every reading ever queued is younger than some registration, and a
\* process that has announced itself has left one behind.
RegsInv ==
    /\ \A i \in (1..last) \ regs : \E r \in regs : r < i
    /\ phase \notin Unannounced => regs # {}

LEMMA RegsInvPreserved ==
    ASSUME AgentSafeInv, RegsInv, [ANext]_vars
    PROVE  RegsInv'
<1> USE DEF RegsInv, Unannounced
<1>1. /\ last \in Nat /\ regs \subseteq 1..last
  BY Ids DEF AgentSafeInv, AgentInv, ATypeOK, ProcessTypeOK
<1>2. CASE UNCHANGED <<last, regs>>
  <2>1. phase' \in Unannounced \/ phase \notin Unannounced
    BY <1>1, <1>2, AgentQueueMoves
       DEF AgentSafeInv, QueueMoves, Enqueue, TornEnqueue
  <2>2. QED
    BY <1>2, <2>1
<1>3. CASE last' = last + 1 /\ regs' = regs \cup {last + 1}
  BY <1>1, <1>3
<1>4. CASE last' = last + 1 /\ regs' = regs /\ phase \notin Unannounced
  <2>1. PICK r \in regs : TRUE
    BY <1>4
  <2>2. r < last + 1
    BY <1>1, <2>1
  <2>3. QED
    BY <1>1, <1>4, <2>2
<1>5. QED
  BY <1>2, <1>3, <1>4, AgentQueueMoves
     DEF AgentSafeInv, QueueMoves, Enqueue, TornEnqueue

\* agent.py:8 says that the backend learns what the machine is before its
\* readings.  It can fail by eviction and in no other way: for every reading
\* that the broker has, a registration was queued before, and each one that
\* was has arrived or was evicted.
THEOREM OnlyEvictionHidesRegistration == ASpec => []AnnouncedOrEvicted
<1>1. AInit => RegsInv
  BY DEF AInit, DInit, Init, RegsInv, Unannounced
<1>2. ASSUME AgentSafeInv, RegsInv, NEW i \in arrived \ regs
      PROVE  /\ \E r \in regs : r < i
             /\ \A r \in regs : r < i => r \in arrived \cup evicted
  <2>1. i \in 1..last /\ regs \subseteq 1..last
    BY <1>2, Ids DEF AgentSafeInv, AgentInv, ATypeOK, ProcessTypeOK
  <2>2. NoGap
    BY <1>2 DEF AgentSafeInv, GapInv
  <2>3. QED
    BY <1>2, <2>1, <2>2 DEF RegsInv, NoGap
<1>3. AgentSafeInv /\ RegsInv => AnnouncedOrEvicted
  BY <1>2 DEF AnnouncedOrEvicted
<1>4. QED
  BY <1>1, <1>3, AgentSafeInvInit, AgentSafeInvPreserved, RegsInvPreserved, PTL
     DEF ASpec

-----------------------------------------------------------------------------
(* From the threads down to the table.                                     *)

\* Whatever threads, links and crashes do, the table behaves like Outbox.
THEOREM AgentImplementsOutbox == ASpec => Spec
<1>1. ASpec => DSpec
  BY AgentImplementsDelivery DEF DeliverySpec
<1>2. QED
  BY <1>1, DeliveryImplementsOutbox

\* An entry that was confirmed, evicted or forgotten is never owed again,
\* across restarts too: a drain of the old batch, a late confirmation or a
\* crash brings no row back (store.py, mark_published and _enforce_cap).
THEOREM AgentSettledIsFinal == ASpec => [][SettledForGood]_outboxVars
  BY AgentImplementsOutbox, SettledIsFinal

-----------------------------------------------------------------------------
(* The client keeps the contract of BrokerClient.                          *)

\* What the contract speaks of: what each drain's publish() has handed over
\* and whether it has returned True, and what the broker has not got.
Asked == [d \in Drainer |-> IF at[d] = "waiting" THEN cur[d] ELSE 0]
Told == [d \in Drainer |-> at[d] = "confirming"]
Left == [k \in 1..(Len(outq) - reached) |-> outq[reached + k].id]

\* A step of the contract, with the client's own names.
ContractMove ==
    \/ Client!Receive
    \/ \E d \in Drainer : \/ Client!Call(d) \/ Client!ReturnTrue(d)
                          \/ Client!ReturnFalse(d)
    \/ Client!Reset
    \/ UNCHANGED <<Asked, Told, Left, arrived>>

LEMMA SequenceIsFunction ==
    ASSUME NEW S, NEW q \in Seq(S), NEW n \in Nat, Len(q) = n
    PROVE  q = [k \in 1..n |-> q[k]]
<1>1. DOMAIN q = 1..n /\ q \in [1..Len(q) -> S]
  BY LenProperties
<1>2. QED
  BY <1>1

LEMMA LeftIsQueue ==
    ASSUME AgentInv
    PROVE  /\ Len(outq) - reached \in Nat
           /\ Left \in [1..(Len(outq) - reached) -> 1..MaxId]
           /\ Left \in Seq(1..MaxId) /\ Len(Left) = Len(outq) - reached
<1>1. /\ Len(outq) \in Nat /\ reached \in 0..Len(outq) /\ last \in 0..MaxId
      /\ \A k \in 1..Len(outq) : outq[k].id \in 1..last
  BY Ids DEF AgentInv, ATypeOK, DTypeOK, TypeOK
<1>2. Len(outq) - reached \in Nat
  BY <1>1
<1>3. \A k \in 1..(Len(outq) - reached) : outq[reached + k].id \in 1..MaxId
  <2>1. ASSUME NEW k \in 1..(Len(outq) - reached)
        PROVE  outq[reached + k].id \in 1..last
    <3>1. reached + k \in 1..Len(outq)
      BY <1>1
    <3>2. QED
      BY <1>1, <3>1
  <2>2. QED
    BY <1>1, <2>1
<1>4. Left \in [1..(Len(outq) - reached) -> 1..MaxId]
  BY <1>3 DEF Left
<1>5. QED
  BY <1>2, <1>4

\* The queue is left alone if its ids and the broker's place in it are.
LEMMA SameLeft ==
    ASSUME AgentInv, reached' = reached, Len(outq') = Len(outq),
           \A k \in 1..Len(outq) : outq'[k].id = outq[k].id
    PROVE  Left' = Left
<1>1. Len(outq) \in Nat /\ reached \in 0..Len(outq)
  BY Ids
<1>2. \A k \in 1..(Len(outq) - reached) : reached + k \in 1..Len(outq)
  BY <1>1
<1>3. QED
  BY <1>2 DEF Left

\* Where only one drain moves, and ends its call.
LEMMA OneReturns ==
    ASSUME AgentInv, NEW d \in Drainer,
           at' = [at EXCEPT ![d] = "idle"] \/ at' = [at EXCEPT ![d] = "pruning"]
           \/ at' = [at EXCEPT ![d] = "sending"],
           cur' = cur, arrived' = arrived, Left' = Left
    PROVE  Client!ReturnFalse(d)
<1>1. /\ at \in [Drainer -> {"idle", "ready", "sending", "waiting",
                             "confirming", "pruning"}]
      /\ cur \in [Drainer -> 0..last]
  BY Ids
<1>2. Asked' = [Asked EXCEPT ![d] = 0] /\ Told' = [Told EXCEPT ![d] = FALSE]
  BY <1>1 DEF Asked, Told
<1>3. QED
  BY <1>2 DEF Client!ReturnFalse, Asked, Told, Left

LEMMA SendIsCall ==
    ASSUME AgentInv, NEW d \in Drainer, Send(d)
    PROVE  Client!Call(d)
<1>1. PICK i \in todo[d] : /\ cur' = [cur EXCEPT ![d] = i]
                           /\ outq' = Append(outq, [id |-> i, by |-> d])
  BY DEF Send
<1>2. /\ at[d] = "sending" /\ at' = [at EXCEPT ![d] = "waiting"]
      /\ arrived' = arrived /\ reached' = reached
  BY DEF Send, deliveryVars
<1>3. i \in 1..MaxId /\ [id |-> i, by |-> d] \in Message
  <2>1. i \in 1..last /\ last \in 0..MaxId
    BY <1>1, Ids DEF AgentInv, ATypeOK, DTypeOK, TypeOK
  <2>2. i \in 1..MaxId
    BY <2>1
  <2>3. QED
    BY <2>2 DEF Message
<1>4. /\ Len(outq') = Len(outq) + 1
      /\ \A k \in 1..Len(outq) : outq'[k] = outq[k]
      /\ outq'[Len(outq) + 1] = [id |-> i, by |-> d]
  BY <1>1, <1>3, Ids, AppendProperties
<1>5. /\ Asked[d] = 0 /\ Asked' = [Asked EXCEPT ![d] = i] /\ Told' = Told
  BY <1>1, <1>2, Ids DEF Asked, Told
<1> DEFINE n == Len(outq) - reached
<1>6. /\ n \in Nat /\ Len(outq') - reached' = n + 1
      /\ Len(outq) \in Nat /\ reached \in Nat
      /\ reached + (n + 1) = Len(outq) + 1
  BY <1>2, <1>4, Ids
<1>7. Left \in Seq(1..MaxId) /\ Len(Left) = n
  BY LeftIsQueue
<1>8. /\ Append(Left, i) \in Seq(1..MaxId) /\ Len(Append(Left, i)) = n + 1
      /\ \A k \in 1..n : Append(Left, i)[k] = outq[reached + k].id
      /\ Append(Left, i)[n + 1] = i
  <2>1. /\ Append(Left, i) \in Seq(1..MaxId) /\ Len(Append(Left, i)) = n + 1
        /\ \A k \in 1..n : Append(Left, i)[k] = Left[k]
        /\ Append(Left, i)[n + 1] = i
    <3> HIDE DEF n
    <3>1. QED
      BY <1>3, <1>7, AppendProperties
  <2>2. \A k \in 1..n : Left[k] = outq[reached + k].id
    BY DEF Left
  <2>3. QED
    BY <2>1, <2>2, Zenon
<1>9. Left' = [k \in 1..(n + 1) |-> outq'[reached + k].id]
  BY <1>2, <1>6 DEF Left
<1> HIDE DEF n
<1>10. \A k \in 1..(n + 1) : outq'[reached + k].id = Append(Left, i)[k]
  <2>1. ASSUME NEW k \in 1..n
        PROVE  outq'[reached + k].id = Append(Left, i)[k]
    <3>1. reached + k \in 1..Len(outq)
      BY <1>6
    <3>2. QED
      BY <1>4, <1>8, <3>1
  <2>2. outq'[reached + (n + 1)].id = Append(Left, i)[n + 1]
    BY <1>4, <1>6, <1>8
  <2>3. \A k \in 1..(n + 1) : k \in 1..n \/ k = n + 1
    BY <1>6
  <2>4. QED
    BY <2>1, <2>2, <2>3, Zenon
<1>11. Left' = Append(Left, i)
  <2>1. Append(Left, i) = [k \in 1..(n + 1) |-> Append(Left, i)[k]]
    <3>1. n + 1 \in Nat
      BY <1>6
    <3> DEFINE longer == Append(Left, i)
    <3>2. longer \in Seq(1..MaxId) /\ Len(longer) = n + 1
      BY <1>8
    <3> HIDE DEF longer
    <3>3. longer = [k \in 1..(n + 1) |-> longer[k]]
      BY <3>1, <3>2, SequenceIsFunction
    <3>4. QED
      BY <3>3 DEF longer
  <2>2. QED
    BY <1>9, <1>10, <2>1
<1>12. QED
  BY <1>2, <1>3, <1>5, <1>11 DEF Client!Call, Asked, Told, Left

LEMMA ArrivalIsReceive ==
    ASSUME AgentInv, BrokerReceives
    PROVE  Client!Receive
<1>1. /\ Len(outq) \in Nat /\ reached \in Nat /\ reached < Len(outq)
      /\ reached' = reached + 1 /\ outq' = outq
      /\ arrived' = arrived \cup {outq[reached + 1].id}
      /\ at' = at /\ cur' = cur
  BY Ids DEF BrokerReceives, drains
<1> DEFINE n == Len(outq) - reached
<1>2. /\ n \in Nat \ {0} /\ Len(outq') - reached' = n - 1
  BY <1>1
<1>3. Left \in Seq(1..MaxId) /\ Len(Left) = n /\ Left # <<>>
  BY <1>2, LeftIsQueue
<1>4. /\ Head(Left) = outq[reached + 1].id
      /\ Len(Tail(Left)) = n - 1
      /\ \A k \in 1..(n - 1) : Tail(Left)[k] = outq[reached + (k + 1)].id
  <2>1. Head(Left) = Left[1] /\ Tail(Left) \in Seq(1..MaxId)
        /\ Len(Tail(Left)) = n - 1
        /\ \A k \in 1..(n - 1) : Tail(Left)[k] = Left[k + 1]
    BY <1>2, <1>3, HeadTailProperties
  <2>2. Left[1] = outq[reached + 1].id
    BY <1>2 DEF Left
  <2>3. \A k \in 1..(n - 1) : Left[k + 1] = outq[reached + (k + 1)].id
    BY <1>2 DEF Left
  <2>4. QED
    BY <2>1, <2>2, <2>3
<1>5. Tail(Left) = [k \in 1..(n - 1) |-> Tail(Left)[k]]
  <2>1. Tail(Left) \in Seq(1..MaxId)
    BY <1>3, HeadTailProperties
  <2>2. n - 1 \in Nat
    BY <1>2
  <2> HIDE DEF n
  <2>3. QED
    BY <1>4, <2>1, <2>2, SequenceIsFunction
<1>6. Left' = [k \in 1..(n - 1) |-> outq[reached + (k + 1)].id]
  <2>1. Left' = [k \in 1..(n - 1) |-> outq[reached + 1 + k].id]
    BY <1>1, <1>2 DEF Left
  <2>2. \A k \in 1..(n - 1) : reached + 1 + k = reached + (k + 1)
    BY <1>1
  <2>3. QED
    BY <2>1, <2>2
<1>7. Left' = Tail(Left)
  BY <1>4, <1>5, <1>6
<1>8. Asked' = Asked /\ Told' = Told
  BY <1>1 DEF Asked, Told
<1>9. QED
  BY <1>1, <1>3, <1>4, <1>7, <1>8 DEF Client!Receive, Asked, Told, Left

LEMMA AckReturnsTrue ==
    ASSUME AgentInv, BrokerAcks
    PROVE  ContractMove
<1>1. /\ outq \in Seq(Message) /\ Len(outq) \in Nat /\ reached \in Nat
      /\ reached > 0 /\ reached <= Len(outq)
      /\ at' = [d \in Drainer |->
                   IF Head(outq).by = d THEN "confirming" ELSE at[d]]
      /\ cur' = cur /\ arrived' = arrived
      /\ at \in [Drainer -> {"idle", "ready", "sending", "waiting",
                             "confirming", "pruning"}]
      /\ cur \in [Drainer -> 0..last]
  BY Ids DEF BrokerAcks, deliveryVars
<1>2. 1 \in 1..Len(outq) /\ 1 \in 1..reached /\ outq # <<>>
  BY <1>1
<1>3. Head(outq) = outq[1]
  BY <1>1, <1>2, HeadTailProperties
<1>4. Left' = Left
  <2>1. /\ Len(outq') = Len(outq) - 1 /\ reached' = reached - 1
        /\ \A k \in 1..Len(outq') : outq'[k] = outq[k + 1]
    BY AckTakesFirst
  <2>2. Len(outq') - reached' = Len(outq) - reached
    BY <1>1, <2>1
  <2>3. ASSUME NEW k \in 1..(Len(outq) - reached)
        PROVE  outq'[reached' + k] = outq[reached + k]
    <3>1. reached' + k \in 1..Len(outq') /\ reached' + k + 1 = reached + k
      BY <1>1, <2>1
    <3>2. QED
      BY <2>1, <3>1
  <2>4. QED
    BY <2>2, <2>3 DEF Left
<1>5. ASSUME NEW d \in Drainer, Head(outq).by = d
      PROVE  Client!ReturnTrue(d)
  <2>1. at[d] = "waiting" /\ cur[d] = outq[1].id /\ cur[d] \in arrived
    BY <1>2, <1>3, <1>5 DEF AgentInv, QueueMatchesDrains
  <2>2. Asked[d] \in arrived
    BY <2>1 DEF Asked
  <2>3. at' = [at EXCEPT ![d] = "confirming"]
    BY <1>1, <1>5
  <2>4. Asked' = [Asked EXCEPT ![d] = 0] /\ Told' = [Told EXCEPT ![d] = TRUE]
    <3>1. at'[d] = "confirming" /\ \A e \in Drainer \ {d} : at'[e] = at[e]
      BY <1>1, <2>3
    <3>2. cur' = cur
      BY <1>1
    <3>3. QED
      BY <3>1, <3>2 DEF Asked, Told
  <2>5. QED
    BY <1>1, <1>4, <2>2, <2>4 DEF Client!ReturnTrue, Asked, Told, Left
<1>6. CASE \A d \in Drainer : Head(outq).by # d
  <2>1. at' = at
    BY <1>1, <1>6
  <2>2. QED
    BY <1>1, <1>4, <2>1 DEF ContractMove, Asked, Told
<1>7. QED
  BY <1>5, <1>6 DEF ContractMove

LEMMA AgentContractStep ==
    ASSUME AgentInv, [ANext]_vars
    PROVE  ContractMove
<1>1. CASE Still
  <2>1. Left' = Left
    BY <1>1 DEF Still, Left
  <2>2. Asked' = Asked /\ Told' = Told
    BY <1>1 DEF Still, Asked, Told
  <2>3. QED
    BY <1>1, <2>1, <2>2 DEF Still, ContractMove
<1>2. ASSUME NEW d \in Drainer, Send(d)
      PROVE  ContractMove
  BY <1>2, SendIsCall DEF ContractMove
<1>3. ASSUME NEW d \in Drainer, Unanswered(d)
      PROVE  ContractMove
  <2>1. Left' = Left
    BY <1>3, OrphanedKeepsIds, SameLeft DEF Unanswered
  <2>2. QED
    BY <1>3, <2>1, OneReturns DEF Unanswered, ContractMove, deliveryVars
<1>4. ASSUME NEW d \in Drainer, Confirm(d) \/ ConfirmFails(d)
      PROVE  ContractMove
  <2>1. /\ UNCHANGED <<outq, reached, arrived, cur>>
        /\ \/ at' = [at EXCEPT ![d] = "idle"]
           \/ at' = [at EXCEPT ![d] = "pruning"]
           \/ at' = [at EXCEPT ![d] = "sending"]
    BY <1>4 DEF Confirm, Confirmed, ConfirmFails, network, deliveryVars
  <2>2. Left' = Left
    BY <2>1 DEF Left
  <2>3. QED
    BY <2>1, <2>2, OneReturns DEF ContractMove
<1>5. CASE BrokerReceives
  BY <1>5, ArrivalIsReceive DEF ContractMove
<1>6. CASE BrokerAcks
  BY <1>6, AckReturnsTrue
<1>7. CASE ProcessEnds
  <2>1. /\ Asked' = [d \in Drainer |-> 0] /\ Told' = [d \in Drainer |-> FALSE]
        /\ arrived' = arrived
    BY <1>7 DEF ProcessEnds, Asked, Told
  <2>2. Left' = <<>>
    BY <1>7 DEF ProcessEnds, Left
  <2>3. QED
    BY <2>1, <2>2 DEF Client!Reset, ContractMove, Asked, Told, Left
<1>8. QED
  BY <1>1, <1>2, <1>3, <1>4, <1>5, <1>6, <1>7, StillSteps

\* broker.py:9, seen from the drains: a drain goes on to mark an entry
\* published only when publish() has returned True for that entry and so the
\* broker has it, and what it gave up may still arrive, in its turn - with
\* two drains on one client, through reconnects, and until a crash ends it.
THEOREM AgentClientKeepsContract == ASpec => ClientSpec
<1>1. AInit => Client!CInit
  <2>1. ASSUME AInit
        PROVE  /\ Asked = [d \in Drainer |-> 0]
               /\ Told = [d \in Drainer |-> FALSE] /\ Left = <<>>
               /\ arrived = {}
    <3>1. Asked = [d \in Drainer |-> 0] /\ Told = [d \in Drainer |-> FALSE]
      BY <2>1 DEF AInit, Asked, Told
    <3>2. outq = <<>> /\ reached = 0 /\ Len(outq) = 0 /\ arrived = {}
      BY <2>1 DEF AInit, DInit
    <3>3. 1..(Len(outq) - reached) = {}
      BY <3>2
    <3>4. Left = <<>>
      BY <3>3 DEF Left
    <3>5. QED
      BY <3>1, <3>2, <3>4
  <2>2. QED
    BY <2>1 DEF Client!CInit, Asked, Told, Left
<1>2. AgentInv /\ [ANext]_vars => [Client!CNext]_(Client!contractVars)
  BY AgentContractStep
     DEF ContractMove, Client!CNext, Client!contractVars, Asked, Told, Left
<1>3. QED
  BY <1>1, <1>2, AgentInvInit, AgentInvPreserved, PTL
     DEF ASpec, ClientSpec, Client!CSpec

=============================================================================
