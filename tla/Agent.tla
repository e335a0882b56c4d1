------------------------------- MODULE Agent --------------------------------
(***************************************************************************)
(* The agent process: the main thread that starts and stops it, the        *)
(* sampler and publisher loops, the outbox between them, the MQTT client   *)
(* and the broker behind a link that drops.  The store's operations are    *)
(* the atomic steps of Outbox, which Store justifies.                      *)
(*                                                                         *)
(* drain_once runs in two threads: in the publisher loop, and in main,     *)
(* once to announce the machine and once more at shutdown.                 *)
(***************************************************************************)
EXTENDS Delivery, Sequences

CONSTANTS
    Batch,       \* publish_batch_size
    MaxFaults    \* bound of the model: link drops, unanswered publishes,
                 \* failed statements, overrun joins and crashes

ASSUME BatchAssumption == Batch \in Nat \ {0}
ASSUME MaxFaultsAssumption == MaxFaults \in Nat

Loop == {"sampler", "publisher"}
Drainer == {"main", "publisher"}

VARIABLES
    regs,       \* ids of the registrations; the other entries are telemetry
    phase,      \* where the main thread is in Agent.start() and stop()
    alive,      \* the loops whose thread runs
    stopping,   \* the loops whose stop event is set
    joined,     \* the loops whose Scheduler.stop() returned True
    sampling,   \* the sampler is inside sample_once
    at,         \* where each drainer is in drain_once
    todo,       \* entries of pending() a drainer has not confirmed yet
    cur,        \* the entry a drainer is sending
    closed,     \* the store is closed
    link,       \* client.is_connected()
    outq,       \* messages the client holds unacknowledged, oldest first,
                \* with the drainer that waits for each
    reached,    \* how many of them, from the front, the broker has got
    faults,     \* faults so far
    overran     \* history: a publisher thread outlived its join

process == <<phase, alive, stopping, joined, sampling, closed>>
drains == <<at, todo, cur>>
network == <<link, outq, reached>>
bounds == <<faults, overran>>
vars == <<last, unsent, sent, evicted, arrived, regs, process, drains,
          network, bounds>>

AInit ==
    /\ DInit
    /\ regs = {}
    /\ phase = "off"
    /\ alive = {}
    /\ stopping = {}
    /\ joined = {}
    /\ sampling = FALSE
    /\ at = [d \in Drainer |-> "idle"]
    /\ todo = [d \in Drainer |-> {}]
    /\ cur = [d \in Drainer |-> 0]
    /\ closed = FALSE
    /\ link = FALSE
    /\ outq = <<>>
    /\ reached = 0
    /\ faults = 0
    /\ overran = FALSE

Fault == faults < MaxFaults /\ faults' = faults + 1
NoFault == UNCHANGED faults

-----------------------------------------------------------------------------
(* drain_once.                                                             *)

\* Not connected: nothing is sent and nothing pruned.
DrainOffline(d) ==
    /\ at[d] = "ready"
    /\ ~link
    /\ at' = [at EXCEPT ![d] = "idle"]
    /\ UNCHANGED <<deliveryVars, regs, process, todo, cur, network, bounds>>

\* pending(batch_size) is read once, for the whole drain.
DrainBegin(d) ==
    /\ at[d] = "ready"
    /\ link
    /\ todo' = [todo EXCEPT ![d] = Oldest(unsent, Batch)]
    /\ at' = [at EXCEPT ![d] = IF unsent = {} THEN "pruning" ELSE "sending"]
    /\ UNCHANGED <<deliveryVars, regs, process, cur, network, bounds>>

\* Broken variant: the entry is confirmed on the handoff to the client.
SendAndForget(d) ==
    /\ at[d] = "sending"
    /\ link
    /\ \E i \in todo[d] :
          /\ \A j \in todo[d] : i <= j
          /\ cur' = [cur EXCEPT ![d] = i]
          /\ outq' = Append(outq, [id |-> i, by |-> "nobody"])
    /\ at' = [at EXCEPT ![d] = "confirming"]
    /\ UNCHANGED <<deliveryVars, regs, process, todo, link, reached, bounds>>

\* The oldest entry left is handed to the client, which keeps it until the
\* broker acknowledges it, across reconnects.
Send(d) ==
    /\ at[d] = "sending"
    /\ link
    /\ \E i \in todo[d] :
          /\ \A j \in todo[d] : i <= j
          /\ cur' = [cur EXCEPT ![d] = i]
          /\ outq' = Append(outq, [id |-> i, by |-> d])
    /\ at' = [at EXCEPT ![d] = "waiting"]
    /\ UNCHANGED <<deliveryVars, regs, process, todo, link, reached, bounds>>

\* Broken variant: the drain goes on with the next entry.
SendSkipped(d) ==
    /\ at[d] = "sending"
    /\ ~link
    /\ \E i \in todo[d] :
          /\ \A j \in todo[d] : i <= j
          /\ todo' = [todo EXCEPT ![d] = @ \ {i}]
    /\ at' = [at EXCEPT ![d] = IF todo'[d] = {} THEN "pruning" ELSE "sending"]
    /\ UNCHANGED <<deliveryVars, regs, process, cur, network, bounds>>

\* publish() finds the link down: the drain stops at its first failure.
SendRefused(d) ==
    /\ at[d] = "sending"
    /\ ~link
    /\ at' = [at EXCEPT ![d] = "pruning"]
    /\ UNCHANGED <<deliveryVars, regs, process, todo, cur, network, bounds>>

\* A message whose sender no longer waits stays with the client.
Orphaned(d) ==
    [k \in DOMAIN outq |->
        IF outq[k].by = d THEN [outq[k] EXCEPT !.by = "nobody"] ELSE outq[k]]

\* Broken variant: no answer is taken for an acknowledgement.
UnansweredConfirms(d) ==
    /\ at[d] = "waiting"
    /\ IF link THEN Fault ELSE NoFault
    /\ outq' = Orphaned(d)
    /\ at' = [at EXCEPT ![d] = "confirming"]
    /\ UNCHANGED <<deliveryVars, regs, process, todo, cur, link, reached,
                   overran>>

\* Broken variant: the message stays tied to the drain that gave it up.
UnansweredKept(d) ==
    /\ at[d] = "waiting"
    /\ IF link THEN Fault ELSE NoFault
    /\ at' = [at EXCEPT ![d] = "pruning"]
    /\ UNCHANGED <<deliveryVars, regs, process, todo, cur, network, overran>>

\* Broken variant: only a link that is up makes the wait end.
UnansweredOnline(d) ==
    /\ at[d] = "waiting"
    /\ link /\ Fault
    /\ outq' = Orphaned(d)
    /\ at' = [at EXCEPT ![d] = "pruning"]
    /\ UNCHANGED <<deliveryVars, regs, process, todo, cur, link, reached,
                   overran>>

\* wait_for_publish times out, or the client reports an error after it has
\* taken the message.  On a link that is up this is one of the faults.
Unanswered(d) ==
    /\ at[d] = "waiting"
    /\ IF link THEN Fault ELSE NoFault
    /\ outq' = Orphaned(d)
    /\ at' = [at EXCEPT ![d] = "pruning"]
    /\ UNCHANGED <<deliveryVars, regs, process, todo, cur, link, reached,
                   overran>>

\* Broken variant: the batch is read again after each confirmation.
ConfirmedRefetching(d) ==
    /\ todo' = [todo EXCEPT ![d] = Oldest(unsent \ {cur[d]}, Batch)]
    /\ at' = [at EXCEPT ![d] = IF todo'[d] = {} THEN "pruning" ELSE "sending"]
    /\ UNCHANGED <<arrived, regs, process, cur, network, bounds>>

\* The entries of a drain are marked published one by one.
Confirmed(d) ==
    /\ todo' = [todo EXCEPT ![d] = @ \ {cur[d]}]
    /\ at' = [at EXCEPT ![d] = IF todo'[d] = {} THEN "pruning" ELSE "sending"]
    /\ UNCHANGED <<arrived, regs, process, cur, network, bounds>>

\* Broken variant: the marking waits for the end of the batch.
ConfirmAtEnd(d) ==
    /\ at[d] = "confirming"
    /\ IF todo[d] = {cur[d]}
       THEN MarkPublished(cur[d])
       ELSE UNCHANGED outboxVars
    /\ Confirmed(d)

\* mark_published([entry.id]), once publish() has returned True.
Confirm(d) ==
    /\ at[d] = "confirming"
    /\ MarkPublished(cur[d])
    /\ Confirmed(d)

\* Broken variant: the exception ends the publisher's thread.
ConfirmFailsFatally(d) ==
    /\ at[d] = "confirming"
    /\ phase # "announcing"
    /\ Fault
    /\ at' = [at EXCEPT ![d] = "idle"]
    /\ alive' = alive \ {d}
    /\ UNCHANGED <<deliveryVars, regs, phase, stopping, joined, sampling,
                   closed, todo, cur, network, overran>>

\* mark_published raises.  The loop's on_error and the handler in stop() let
\* the thread go on; during start() the process ends, which is a Crash.
ConfirmFails(d) ==
    /\ at[d] = "confirming"
    /\ phase # "announcing"
    /\ Fault
    /\ at' = [at EXCEPT ![d] = "idle"]
    /\ UNCHANGED <<deliveryVars, regs, process, todo, cur, network, overran>>

\* Every drain that got past its first check ends by pruning.
Prune(d) ==
    /\ at[d] = "pruning"
    /\ \E stale \in SUBSET sent : PrunePublished(stale)
    /\ at' = [at EXCEPT ![d] = "idle"]
    /\ UNCHANGED <<arrived, regs, process, todo, cur, network, bounds>>

-----------------------------------------------------------------------------
(* The client and the broker.                                              *)

\* client.start() has been called and client.stop() has not: the network
\* loop runs and reconnects by itself.
ClientRuns == phase \notin {"off", "closing", "done"}

LinkUp ==
    /\ ClientRuns
    /\ ~link
    /\ link' = TRUE
    /\ UNCHANGED <<deliveryVars, regs, process, drains, outq, reached, bounds>>

\* The broker may have the front messages already: the client sends them
\* again after the reconnect, and nothing new arrives by that.
LinkDown ==
    /\ link
    /\ Fault
    /\ link' = FALSE
    /\ UNCHANGED <<deliveryVars, regs, process, drains, outq, reached, overran>>

\* QoS 1 on one connection: messages arrive in the order they were sent.
BrokerReceives ==
    /\ link
    /\ reached < Len(outq)
    /\ reached' = reached + 1
    /\ arrived' = arrived \cup {outq[reached + 1].id}
    /\ UNCHANGED <<outboxVars, regs, process, drains, link, outq, bounds>>

\* PUBACK: the client drops the message, and wakes its sender if it waits.
BrokerAcks ==
    /\ link
    /\ reached > 0
    /\ outq' = Tail(outq)
    /\ reached' = reached - 1
    /\ at' = [d \in Drainer |->
                 IF Head(outq).by = d THEN "confirming" ELSE at[d]]
    /\ UNCHANGED <<deliveryVars, regs, process, todo, cur, link, bounds>>

-----------------------------------------------------------------------------
(* The sampler and publisher threads, each a Scheduler loop.               *)

\* Broken variant: the stop event is not looked at.
SamplerTickAnyway ==
    /\ "sampler" \in alive
    /\ ~sampling
    /\ last < MaxId
    /\ sampling' = TRUE
    /\ UNCHANGED <<deliveryVars, regs, phase, alive, stopping, joined,
                   closed, drains, network, bounds>>

SamplerTick ==
    /\ "sampler" \in alive \ stopping
    /\ ~sampling
    /\ last < MaxId
    /\ sampling' = TRUE
    /\ UNCHANGED <<deliveryVars, regs, phase, alive, stopping, joined,
                   closed, drains, network, bounds>>

\* sample_once commits state and batch, or its transaction is rolled back
\* and on_error reports it; the readings of that cycle are not kept.
SamplerCommit ==
    /\ sampling
    /\ sampling' = FALSE
    /\ Enqueue
    /\ UNCHANGED <<arrived, regs, phase, alive, stopping, joined, closed,
                   drains, network, bounds>>

SamplerFails ==
    /\ sampling
    /\ Fault
    /\ sampling' = FALSE
    /\ UNCHANGED <<deliveryVars, regs, phase, alive, stopping, joined,
                   closed, drains, network, overran>>

PublisherTick ==
    /\ "publisher" \in alive \ stopping
    /\ at["publisher"] = "idle"
    /\ at' = [at EXCEPT !["publisher"] = "ready"]
    /\ UNCHANGED <<deliveryVars, regs, process, todo, cur, network, bounds>>

Busy(l) == IF l = "sampler" THEN sampling ELSE at["publisher"] # "idle"

\* The loop sees its stop event, between two ticks.
ThreadEnds(l) ==
    /\ l \in alive \cap stopping
    /\ ~Busy(l)
    /\ alive' = alive \ {l}
    /\ UNCHANGED <<deliveryVars, regs, phase, stopping, joined, sampling,
                   closed, drains, network, bounds>>

-----------------------------------------------------------------------------
(* The main thread.                                                        *)

\* A process starts: the store is opened and client.start() begins to
\* connect.
Boot ==
    /\ phase = "off"
    /\ last < MaxId
    /\ phase' = "starting"
    /\ UNCHANGED <<deliveryVars, regs, alive, stopping, joined, sampling,
                   closed, drains, network, bounds>>

\* Broken variant: the drain begins, and the registration was never queued.
AnnounceUnqueued ==
    /\ phase = "starting"
    /\ regs' = regs \cup {last + 1}
    /\ phase' = "announcing"
    /\ at' = [at EXCEPT !["main"] = "ready"]
    /\ UNCHANGED <<deliveryVars, alive, stopping, joined, sampling, closed,
                   todo, cur, network, bounds>>

\* _announce: the registration is queued, and a drain begins.
Announce ==
    /\ phase = "starting"
    /\ Enqueue
    /\ regs' = regs \cup {last + 1}
    /\ phase' = "announcing"
    /\ at' = [at EXCEPT !["main"] = "ready"]
    /\ UNCHANGED <<arrived, alive, stopping, joined, sampling, closed,
                   todo, cur, network, bounds>>

StartLoops ==
    /\ phase = "announcing"
    /\ at["main"] = "idle"
    /\ phase' = "running"
    /\ alive' = Loop
    /\ UNCHANGED <<deliveryVars, regs, stopping, joined, sampling, closed,
                   drains, network, bounds>>

\* SIGINT or SIGTERM: stop() sets the sampler's event and joins its thread.
StopSampler ==
    /\ phase = "running"
    /\ phase' = "stopping sampler"
    /\ stopping' = {"sampler"}
    /\ UNCHANGED <<deliveryVars, regs, alive, joined, sampling, closed,
                   drains, network, bounds>>

\* The join ends with the thread, or after five seconds without it.  Then
\* the publisher is stopped the same way.
JoinSampler ==
    /\ phase = "stopping sampler"
    /\ IF "sampler" \in alive THEN Fault /\ UNCHANGED joined
       ELSE NoFault /\ joined' = joined \cup {"sampler"}
    /\ phase' = "stopping publisher"
    /\ stopping' = stopping \cup {"publisher"}
    /\ UNCHANGED <<deliveryVars, regs, alive, sampling, closed, drains,
                   network, overran>>

\* One last drain follows, whether or not the publisher's has ended.
JoinPublisher ==
    /\ phase = "stopping publisher"
    /\ IF "publisher" \in alive
       THEN Fault /\ overran' = TRUE /\ UNCHANGED joined
       ELSE NoFault /\ UNCHANGED overran /\ joined' = joined \cup {"publisher"}
    /\ phase' = "draining"
    /\ at' = [at EXCEPT !["main"] = "ready"]
    /\ UNCHANGED <<deliveryVars, regs, alive, stopping, sampling, closed,
                   todo, cur, network>>

StopClient ==
    /\ phase = "draining"
    /\ at["main"] = "idle"
    /\ phase' = "closing"
    /\ link' = FALSE
    /\ UNCHANGED <<deliveryVars, regs, alive, stopping, joined, sampling,
                   closed, drains, outq, reached, bounds>>

\* Broken variant: one loop that ended is enough.
CloseStoreAnyJoined ==
    /\ phase = "closing"
    /\ closed' = (joined # {})
    /\ phase' = "done"
    /\ UNCHANGED <<deliveryVars, regs, alive, stopping, joined, sampling,
                   drains, network, bounds>>

\* The store is left open if a thread may still use it.
CloseStore ==
    /\ phase = "closing"
    /\ closed' = (joined = Loop)
    /\ phase' = "done"
    /\ UNCHANGED <<deliveryVars, regs, alive, stopping, joined, sampling,
                   drains, network, bounds>>

\* What the process keeps in memory is gone.  The loops are daemon threads,
\* and so a clean exit ends them where they are.
ProcessEnds ==
    /\ phase' = "off"
    /\ alive' = {}
    /\ stopping' = {}
    /\ joined' = {}
    /\ sampling' = FALSE
    /\ at' = [d \in Drainer |-> "idle"]
    /\ todo' = [d \in Drainer |-> {}]
    /\ cur' = [d \in Drainer |-> 0]
    /\ closed' = FALSE
    /\ link' = FALSE
    /\ outq' = <<>>
    /\ reached' = 0
    /\ UNCHANGED <<arrived, overran>>

Exit ==
    /\ phase = "done"
    /\ ProcessEnds
    /\ UNCHANGED <<outboxVars, regs, faults>>

Crash ==
    /\ phase # "off"
    /\ Fault
    /\ ProcessEnds
    /\ UNCHANGED <<outboxVars, regs>>

\* The process dies between the INSERT of the registration and the cap.
CrashInAnnounce ==
    /\ phase = "starting"
    /\ Fault
    /\ TornEnqueue
    /\ regs' = regs \cup {last + 1}
    /\ ProcessEnds

-----------------------------------------------------------------------------
DrainStep(d) ==
    \/ DrainOffline(d)
    \/ DrainBegin(d)
    \/ Send(d)
    \/ SendRefused(d)
    \/ Unanswered(d)
    \/ Confirm(d)
    \/ ConfirmFails(d)
    \/ Prune(d)

MainStep ==
    \/ Boot
    \/ Announce
    \/ StartLoops
    \/ StopSampler
    \/ JoinSampler
    \/ JoinPublisher
    \/ StopClient
    \/ CloseStore
    \/ Exit

ANext ==
    \/ \E d \in Drainer : DrainStep(d)
    \/ LinkUp
    \/ LinkDown
    \/ BrokerReceives
    \/ BrokerAcks
    \/ SamplerTick
    \/ SamplerCommit
    \/ SamplerFails
    \/ PublisherTick
    \/ \E l \in Loop : ThreadEnds(l)
    \/ MainStep
    \/ Crash
    \/ CrashInAnnounce

ASpec == AInit /\ [][ANext]_vars
-----------------------------------------------------------------------------
(* Fairness.  Threads are scheduled, a wait ends with its timeout, and a   *)
(* connected broker answers; a tick is due again and again.  Nothing makes *)
(* a signal arrive, a process start again or a fault happen.               *)

AgentFairness ==
    /\ \A d \in Drainer :
          WF_vars(\/ DrainOffline(d) \/ DrainBegin(d) \/ Send(d)
                  \/ SendRefused(d) \/ Confirm(d) \/ Prune(d)
                  \/ (~link /\ Unanswered(d)))
    /\ WF_vars(BrokerReceives \/ BrokerAcks)
    /\ WF_vars(SamplerCommit)
    /\ WF_vars(PublisherTick)
    /\ \A l \in Loop : WF_vars(ThreadEnds(l))
    /\ WF_vars(StartLoops \/ JoinSampler \/ JoinPublisher \/ StopClient
               \/ CloseStore)

FairSpec == ASpec /\ AgentFairness

\* What is assumed of the network only where it is said: the client, which
\* tries again for ever, gets a connection some day.
Reconnects == WF_vars(LinkUp)

-----------------------------------------------------------------------------
Message == [id : 1..MaxId, by : Drainer \cup {"nobody"}]

ProcessTypeOK ==
    /\ regs \subseteq 1..last
    /\ phase \in {"off", "starting", "announcing", "running",
                  "stopping sampler", "stopping publisher", "draining",
                  "closing", "done"}
    /\ alive \subseteq Loop
    /\ stopping \subseteq Loop
    /\ joined \subseteq Loop
    /\ sampling \in BOOLEAN
    /\ closed \in BOOLEAN
    /\ faults \in 0..MaxFaults
    /\ overran \in BOOLEAN

DrainTypeOK ==
    /\ at \in [Drainer -> {"idle", "ready", "sending", "waiting",
                           "confirming", "pruning"}]
    /\ todo \in [Drainer -> SUBSET (1..last)]
    /\ cur \in [Drainer -> 0..last]

ClientTypeOK ==
    /\ link \in BOOLEAN
    /\ outq \in Seq(Message)
    /\ \A k \in 1..Len(outq) : outq[k].id <= last
    /\ reached \in 0..Len(outq)

ATypeOK == DTypeOK /\ ProcessTypeOK /\ DrainTypeOK /\ ClientTypeOK

\* The client's queue and the drains agree on who waits for what: an entry is
\* about to be confirmed only if the broker has it, each drain waits for at
\* most one message, its current entry's, and a message whose sender has
\* given up never answers a later wait.
QueueMatchesDrains ==
    /\ \A k \in 1..reached : outq[k].id \in arrived
    /\ \A k \in 1..Len(outq), d \in Drainer :
          outq[k].by = d => at[d] = "waiting" /\ outq[k].id = cur[d]
    /\ \A k, l \in 1..Len(outq) :
          outq[k].by = outq[l].by /\ outq[k].by \in Drainer => k = l
    /\ \A d \in Drainer : at[d] = "confirming" => cur[d] \in arrived
    /\ at["main"] # "idle" => phase \in {"announcing", "draining"}

\* Threads, timeouts, reconnects, restarts and crashes together do nothing
\* but the operations of Delivery: in particular an entry is confirmed only
\* after the broker has it, and only the cap gives an entry up.
DeliverySpec == DSpec

\* The client of this module, as the drains see it.
Client == INSTANCE BrokerContract WITH
             Sender    <- Drainer,
             Message   <- 1..MaxId,
             NoMessage <- 0,
             sending   <- [d \in Drainer |->
                              IF at[d] = "waiting" THEN cur[d] ELSE 0],
             answer    <- [d \in Drainer |-> at[d] = "confirming"],
             kept      <- [k \in 1..(Len(outq) - reached) |->
                              outq[reached + k].id],
             got       <- arrived

\* It keeps the contract that MqttClient keeps, although two drains share
\* it, give messages up and call again: what a drain takes for confirmed is
\* what publish() has returned True for.
ClientSpec == Client!CSpec

\* Both loops behave like the Loop that Scheduler implements.
SamplerLoop == INSTANCE Loop WITH
                  alive <- "sampler" \in alive,
                  stop  <- "sampler" \in stopping,
                  busy  <- sampling

PublisherLoop == INSTANCE Loop WITH
                    alive <- "publisher" \in alive,
                    stop  <- "publisher" \in stopping,
                    busy  <- at["publisher"] # "idle"

\* What the main thread, the faults and the restarts do to the two loops is
\* what their schedulers do: no tick begins once the stop event was seen,
\* and no loop ends before that while the process lives.
LoopsAreScheduled == SamplerLoop!LSpec /\ PublisherLoop!LSpec

\* Nothing is skipped (publisher.py:10): when the broker has an entry, it
\* has every older one, except those that the cap gave up.  This holds even
\* while two drains overlap at shutdown.
NoGap ==
    \A i \in arrived, j \in 1..last :
        j < i => j \in arrived \cup evicted

\* Stop at the first failure: the broker sees each entry for the first time
\* in the order in which the machine produced them, also across timeouts
\* with copies still under way, reconnects and restarts - as long as the
\* publisher thread has not outlived its join, see NeverOvertaken.
InOrderArrival ==
    [][~overran =>
          \A i \in arrived' \ arrived, k \in arrived : k < i]_vars

\* publisher.py:10-13: "readings reach the cloud in the order the machine
\* produced them, and a batch is never quietly overtaken by a later one."
NeverOvertaken ==
    [][\A i \in arrived' \ arrived, k \in arrived : k < i]_vars

\* A crash costs the resend of a single message (publisher.py:76): at most
\* one entry that the broker has is still waiting to be sent.
OneResendAtMost == ~overran => Cardinality(arrived \cap unsent) <= 1

\* Agent.stop closes the store only when no thread can still use it.
ClosedMeansQuiescent ==
    closed => alive = {} /\ ~sampling /\ at["publisher"] = "idle"

\* What is left of a drain: the three steps of each entry that it has still
\* to confirm, and what comes before and after them.
StepsLeft(d) ==
    CASE at[d] = "idle"       -> 0
      [] at[d] = "pruning"    -> 1
      [] at[d] = "confirming" -> 3 * Cardinality(todo[d]) - 1
      [] at[d] = "waiting"    -> 3 * Cardinality(todo[d])
      [] at[d] = "sending"    -> 3 * Cardinality(todo[d]) + 1
      [] at[d] = "ready"      -> 3 * Batch + 2

\* A drain is "bounded, because refusing to exit is worse than a delay"
\* (agent.py:123): it sends at most batch_size entries, and whatever the
\* sampler queues, the link does and the cap evicts beside it, each of its
\* steps brings it nearer to its end.
DrainsAreBounded ==
    [][\A d \in Drainer :
          at'[d] # at[d] \/ todo'[d] # todo[d] =>
              StepsLeft(d)' < IF at[d] = "idle" THEN 3 * Batch + 3
                              ELSE StepsLeft(d)]_vars

\* While the loops run the backlog is within the cap, also after any number
\* of crashes that cut an announcement off: the next one makes it good.
BacklogIsCapped ==
    phase \notin {"off", "starting"} => Cardinality(unsent) <= Cap

\* agent.py:8 fails by eviction only: every registration that is older than
\* a reading the broker has reached the broker too, or the cap has taken it,
\* and the process that took the reading had queued one.
AnnouncedOrEvicted ==
    \A i \in arrived \ regs :
        /\ \E r \in regs : r < i
        /\ \A r \in regs : r < i => r \in arrived \cup evicted

\* agent.py:8: "Registration is queued before sampling begins, so the
\* backend learns what the machine is before it starts receiving readings
\* from it."
RegistrationBeforeTelemetry ==
    (arrived \ regs) # {} => (arrived \cap regs) # {}

\* With a link that comes back, a queued entry does not wait for ever: the
\* running agent gets it confirmed, or the cap gives it up.
EventuallySettled ==
    Reconnects =>
        \A i \in 1..MaxId :
            i \in unsent /\ phase = "running"
                ~> i \notin unsent \/ phase # "running"

\* Shutdown must complete regardless (agent.py:131): of a thread that does
\* not end, a broker that is silent, and a network that never comes back.
StopCompletes == phase = "stopping sampler" ~> phase \in {"done", "off"}

=============================================================================
