# FactoryFleet: TLA+ verification

FactoryFleet's edge agent (`src/agent`, Python) samples sensors on a plant
machine, keeps every reading in a SQLite outbox, and sends the outbox over
MQTT whenever the broker can be reached. The agent is the part of the
repository in which threads, crashes, timeouts and retries meet, so it is the
core of this project. The backend (`src/backend`, Java) is an in-memory asset
registry so far, which serves requests in parallel; `src/infra` is
configuration.

Line numbers such as `store.py:172` are lines of
`src/agent/factoryfleet_agent/`.

## 1. Inventory

| Part | State | Operations | What is hard | What makes it right |
|---|---|---|---|---|
| Store (`store.py`) | tables `asset_state`, `outbox`; `_dropped_entries`; the shared connection and its `RLock` | `transaction`, `record_all`, `enqueue` (with `_enforce_cap`), `pending`, `mark_published`, `prune_published`, `close` | one connection for all threads, statements that fail, a COMMIT that fails, power loss between two statements; a path at which no database can be opened | a cycle lands whole or not at all; confirmed stays confirmed; the cap drops the oldest, and counts it |
| Publisher (`transport/publisher.py`) | none of its own; a batch held during a drain | `drain_once`, `publish_now`, `_prune` | runs in two threads; the batch is stale while it is sent; a failure between the broker's answer and the UPDATE | confirmed only after the broker has it; stop at the first failure, so nothing is skipped or overtaken |
| MQTT client (`transport/broker.py`) | connected flag, paho's queue of unacknowledged messages | `start`, `publish` (blocks, with a timeout), `stop`, the two callbacks | paho resends behind the publisher's back; a late PUBACK; a wait that nobody answers | `publish` is True only for an acknowledged message |
| Scheduler (`scheduler.py`) | stop event, thread handle | `start`, `stop` (join with timeout), `_loop` | stop against check against task; a join that times out; tasks that raise | one thread, no end without the event, at most one task after it |
| Agent (`agent.py`, `main.py`) | the objects above, in a lifecycle | `start` (`_announce`), `stop`, signal handlers | shutdown while threads are busy; crash and restart | registration goes first; the store is not closed under a thread; shutdown ends |
| Sampling runner (`runner.py`) | the transaction of a cycle | `sample_once` | failure half-way through a cycle | the record of the machine and the outbox agree |
| Production counter (`sensors/cycle_count.py`) | the total, the time of the last reading, the time of the start | `read` | a wall clock that is set, also between two looks at it; rounding | the total follows production; total and rate agree |
| Sensors and commands (`sensors/base.py`) | a lock and the fields of each sensor | `create_all`, `sample`, `execute` | a command beside a read of the same fields; a read, a judgement or a handler that raises | a reading shows one instant; the lock is released; a broken sensor does not end a cycle |
| Simulated sensors (`sensors/`) | simulated waveforms | constructors, `read`, `evaluate` | options that are missing or no numbers | - |
| Configuration (`config.py`) | none | `load` and its checks | values that pass a check and fail what uses them: booleans, infinities, NaN, numbers that are too large, files that are missing or are no certificates; reading that raises | what is checked does not fail later |
| Wire format (`wire.py`, `timeutil.py`) | none | build payloads and topics | a stale `sentAt` | a batch has a reading for every declared sensor |
| Asset registry (`backend/.../asset`) | a concurrent map of mutable assets | `register`, `find`, `findBySite`, and the response built from the asset | a clock read outside the atomic update, plain fields read without a lock | idempotent registration: one record per asset, no mixture of declarations left behind, nothing overlooked |
| Cloud ingestion (`infra/terraform`) | declared resources | - | - | - |

How they interact: the sampler thread (a Scheduler around `sample_once`) and
the publisher thread (a Scheduler around `drain_once`) share the Store. The
main thread starts both after it has queued the registration and drained once,
and on a signal stops the sampler, then the publisher, drains once more, stops
the MQTT client and closes the Store. The MQTT client has a network thread of
its own that reconnects and resends. After a crash everything but the SQLite
file is gone.

## 2. Modules

```
 OutboxOps                    the two selections: cap and batch
    |
 Outbox  <--- implements ---  Store        (store.py, statement by statement)
    |                           MCStore    (two interchangeable threads)
 Delivery <-- implements ---  Agent        (threads, link, broker, shutdown)
                                |
 Loop    <--- implements ---  Scheduler    (scheduler.py)
    ^---- both loops of Agent are instances of it

 BrokerContract <- implements - MqttClient     (broker.py, with paho outside)
    ^------------- implements - Agent          (the client that its drains share)
 AssetDirectory <- implements - AssetRegistry  (the backend; MCAssetRegistry)
 CycleCount                                    (sensors/cycle_count.py)

 Config                       what load() accepts
    |
 Sampling                     (sensors/base.py, runner.py)
    |
 Startup                      (main.py, and what the configuration does;
                               MCStartup)

 DeliveryProofs  StoreProofs       AgentProofs    SchedulerProofs
 RegistryProofs  MqttClientProofs  StartupProofs  CycleProofs
```

- **OutboxOps** - `Excess` is what `_enforce_cap` deletes, `Oldest` what
  `pending` selects. A row is its AUTOINCREMENT id.
- **Outbox** - the table as its callers may think of it: every operation is one
  atomic step on what is on disk. `TornEnqueue` is the exception that the code
  allows: the registration is enqueued outside a transaction, and the process
  can end between its INSERT and the DELETE of the cap.
- **Store** - the same table through one shared connection: `conn` is what the
  connection sees, `disk` what is committed. Outside a transaction every
  statement commits; inside one, statements of *any* thread belong to it, which
  is why the lock matters. A method of one statement is one step that needs the
  lock free; a method of several holds it from its first step to its last.
  `CommitFails` is a COMMIT that cannot be written. `Crash` is power loss or
  the end of the process.
- **Delivery** - Outbox with the broker: entries are queued, arrive (again and
  again), are confirmed only if they have arrived, and are forgotten.
- **Agent** - extends Delivery with the process. `phase` is the place of the
  main thread in `start()` and `stop()`; `at`, `todo` and `cur` are the local
  state of `drain_once` in each thread that runs it; `outq` is paho's queue of
  unacknowledged messages, `by` the drain that still waits for one, `reached`
  how many of them the broker has already. A timeout (`Unanswered`) leaves the
  message in `outq` with nobody waiting. `ProcessEnds` is what any end of the
  process does to memory.
- **Loop**, **Scheduler** - the loop as its users see it, and the code:
  the stop event, the handle, and each thread at each point of `_loop`.
- **BrokerContract** - what the publisher is promised: a queue, `kept`, from
  which messages reach the broker in the order in which they were handed over,
  and a `publish()` that returns True only for what the broker has. False may
  come at any time, and takes nothing out of the queue. `Reset` is the end of
  the process.
- **MqttClient** - `broker.py` step by step: `event` is the flag that the callbacks set, `state`
  paho's own idea of the connection, and `is_connected` asks one after the
  other. `callbacks` are those that paho's network thread has yet to run;
  `unacked` is what paho keeps, and `current` how many of these the broker has
  on this connection. What the contract keeps is `unacked` without its first
  `Received` messages. Agent takes the same client in coarser steps - there
  `is_connected` and the hand-over are one - and keeps the same contract
  (`ClientSpec`), so that what the drains are promised is what `broker.py` gives.
- **AssetDirectory** - the registry for those who do not look at fields: a
  registration arrives, takes effect once and whole at some moment, and makes a
  record only where there is none.
- **AssetRegistry** - requests in the backend. `compute()` locks one key, and
  creates a complete record or assigns the fields one after the other; lookups
  and responses read field by field without the lock. A value is the request
  that declared it, so a mixture can be seen. Plain fields under the Java memory
  model are covered by reading and writing the fields in any order and at any
  time: what is published by `compute()` and by the map is visible afterwards.
- **CycleCount** - `read()` in two steps, one for each look at the clock.
  Amounts are integers, `Unit` of them to a cycle, so `round()` with its ties is
  exact. `lived` and `observed` are the true time, which the code cannot see.

- **Config** - the checks of `load()`, one operator for each helper of
  `config.py`, on fifteen *kinds* of value: those that the checks tell apart,
  and those that only the use of a value does. A boolean, an infinity and a NaN
  are kinds of their own because Python lets them through some checks and not
  others; "huge" and "giant" are integers that a wait, a port or a keepalive, and
  a float or SQLite as well, cannot take; "unfit" is a string that names
  something that will not serve. `load()` returns (`Accepts`), raises a
  ConfigError (`Refuses`), or raises something else (`Raises`). The ids of
  sensors are a set of their own, `SensorId`, of any size.
- **Sampling** - extends Config with the sensor objects. `sampler` is the local
  state of `sample_once()`, `commander` that of `execute()` in another thread.
  A sensor's state is two fields which a command changes one after the other,
  so that a reading in between can be seen; `stamp` is `capturedAt`.
- **Startup** - extends Sampling with `main()`: any configuration is found on
  disk at each start, `load()` accepts or refuses it or raises, the constructors
  use it (`CanOpenStore`, `CanCreateAll`, `CanConfigureTls`, `CanSchedule`), and
  each tick of the loops waits for the rest of an interval that may be too long
  or no proper number (`WaitAfter`). `link` is paho's way to the broker: "lost"
  when no attempt can ever succeed (`CanConnect`), "jammed" when every drain
  raises on it (`CanDrain`).
  `declared` and `batch` are what the registration and the last batch in the
  database speak of; they outlive the process.
- The ***Proofs** modules hold the theorems of section 4.

A definition introduced by "Broken variant" is not part of any specification.
It is the form that a plausible mistake in the code would give to the
definition below it, and is there to show that the properties notice it.

## 3. What the runs check

| Run | Specification and bounds | Shows |
|---|---|---|
| `store` | `Store!Spec`, 2 threads, `Cap`=1, `Limit`=2, `MaxId`=3, `MaxCycles`=3, `MaxCrashes`=1 | the lock and the transactions do what they should (`WholeCycle`, `ReadsOnlyCommitted`, `ConfirmedStaysConfirmed`), the cap and its counter (`BacklogBounded`, `NoSilentDrop`), and that the statements implement Outbox (`OutboxSpec`) |
| `agent` | `ASpec`, `Cap`=3, `MaxId`=4, `Batch`=2, `MaxFaults`=2 | nothing lost in silence, nothing skipped, first arrivals in order, at most one entry resent after a crash, the store closed only when quiet, every step of a drain brings it nearer to its end, Agent implements Delivery and its client BrokerContract, both loops are Loops |
| `agent_live` | `FairSpec`, `Cap`=2, `MaxId`=3, `Batch`=2, `MaxFaults`=1 | shutdown ends, also if the network never returns; if it does return, a queued entry is confirmed or evicted in the end while the agent runs |
| `scheduler` | `FairSpec`, `MaxStarts`=4 | one thread, every stop takes effect, Scheduler implements Loop, and so no thread ends without the event and no task begins once the stop was seen; deadlock is checked |
| `mqtt_client` | `FairSpec`, 2 senders, `MaxMessages`=3, `MaxConnections`=3 | the flag and paho agree between callbacks, `publish` returns, and the client implements BrokerContract: True only for what the broker has, and arrivals as from a queue |
| `registry` | 3 requests of any kind, 2 assets at one site, 2 fields; all interchangeable | implements AssetDirectory, and so one record and one creation per asset and each registration at once; no lasting mixture, no stale field in a response, no asset overlooked |
| `cycle_count` | `Rate`=3 to `Unit`=4, `Jitter`=4, `Window`=3, `MaxTime`=6, 3 readings, the clock set once | a reading errs by no more than rounding and jitter: nothing is missed however the clock is set, and nothing counted twice unless it is set back; rate and total of a reading agree |
| `startup` | `FairSpec`, the shipped configuration and all that differ from it in at most two values, both of `agent.toml` or both of the sensor files, and the fleet's with at most one value of `agent.toml` changed; 2 sensors, `MaxCommands`=1 | what `load()` checks fails nothing later: constructors, loops and the way to the broker fail only on the values that `Unchecked` lists; every batch has one reading for each declared sensor; no reading mixes the states before and after a command; a command is done or refused in the end |
| `registration_evicted`, `overtaken`, `sent_at`, `cycle_count_drift` | smallest bounds that show it | a sentence of the code's documentation that the code does not keep, section 6 |

**Bounds.** `Cap`, `Batch` and `Limit` are parameters of the code. The others
bound the model. Of `MaxId` entries, one more than `Cap` are enough to evict
an entry that is being sent; in `agent` the batch is also smaller than the
backlog can get, so that the choice of the batch matters. The ids are only
compared, so more of them add length and no new order.
`MaxFaults` counts link drops, unanswered publishes on a link that is up,
failed statements, overrun joins and crashes together; two reach every pair,
such as a timeout followed by a crash, or an overrun join after a timeout.
`MaxCycles` and `MaxCrashes` bound sampling cycles and power losses in Store;
one power loss suffices for its properties because they relate one process
with the disk it finds, and two broken-off enqueues still add up by
`EnqueueCapFails`. `MaxStarts` = 4 lets a start follow a join that timed out
twice and still be stopped and started again. With the bounds reached the model
may stop, so deadlock is not checked where it is the bound that stops it
(all modules but Scheduler).
Three messages let one be confirmed, one be lost with its connection and one
overtake it if it could; with three connections a message can be interrupted
twice. Three requests are two registrations that compete and a reader, or a
record and two registrations over it. A reading every tick produces three
quarters of a cycle, so every remainder, ties included, occurs; the windows lie
on both sides of `Window`; and a jitter of 4 against 3 makes an interval
negative. Two edits within `agent.toml`, or within the sensor files, reach the
pairs of values that matter together, such as TLS without a certificate, or two
sensors of one name of which one is switched off; the fleet's configuration has
TLS and both certificates already, so that one edit of it reaches each
certificate that will not do. No check and no use relates a value of
`agent.toml` to one of a sensor file, and the proof has no bound on the edits.
One command on
each of two sensors overlaps with every step of a cycle; commands only count
upwards, and the proof has no bound on them.

**Fairness.** `AgentFairness` says that threads are scheduled: a step of a
drain, a sampling cycle under way, a due tick, and the main thread's steps are
taken in the end, because each is local code or a wait with a timeout
(`publish_timeout_seconds`, `join(timeout)`). `Unanswered` is fair only while
the link is down: then nothing but the timeout ends the wait. A broker that is
connected answers (`BrokerReceives`, `BrokerAcks`). `Reconnects` is
the premise of `EventuallySettled` alone: paho's loop retries for ever, and the
network is assumed to let it through some day. Nothing makes a signal, a
restart or a fault happen. In Scheduler the threads are fair, because every
task of the agent is bounded by its timeouts, and the owner is not. In
MqttClient publishing threads, callbacks and `loop_stop` are fair, and a wait
ends by its timeout; neither the network nor the broker is fair. In Startup the
sampling thread is weakly fair, for `read()` returns, and the steps of a command
are strongly fair: the lock it waits for is taken again and again, but it is
free during every rest of the sampler.

## 4. What is proved

TLAPS checks these for every value of the constants, so with no bound on the
number of entries, faults, threads, connections or starts other than being a
natural number. The only assumptions are the `ASSUME`s that declare the
constants. Every invariant, action property and refinement that a passing run
checks is also a theorem; the runs find out first, and show that the properties
are not empty. Some theorems go beyond the runs: they follow from invariants
that other properties needed anyway, and are not the subject of a run of their
own (`OneTaskAfterStop`, `EndsOnlyByStop`, `FirstArrivalsInOrder`,
`RegistrationTimeFixed`, `BacklogIsCapped`, `AnnouncedOrEvicted`,
`UnbiasedWhenSparse`, `SettledForGood`).

**DeliveryProofs.** `OutboxTypeCorrect`, `DeliverySafe` (`NoSilentLoss`,
`OneFate`, `OldestGoFirst`, `ConfirmedWasReceived`), `ConfirmedIsFinal`,
`SettledIsFinal` - only new entries ever join the backlog - and
`DeliveryImplementsOutbox`. The invariant is `DeliveryInv`; its one idea is the lemma `ExcessIsOldest`, that
every row the cap deletes is older than every row it leaves, which needs
the rows to be a finite set (`BoundedRowsFinite`). `CapIsEnforced`,
`BatchIsLimited` and `BatchHasOldest` say how many rows the two selections of
OutboxOps leave and take; they rest on the least and the greatest element of a
set of ids (`OldestExists`, `NewestExists`).

**StoreProofs.** `StoreTypeCorrect`, `StoreSafe` (`WholeCycle`,
`ReadsOnlyCommitted`, `BacklogBounded`), `DropsAreCounted`, `ConfirmedForGood`
and `StoreImplementsOutbox`. `LockInv` says that whoever is inside a method
holds the lock, so there is one transaction at most, and `TxnInv` what `conn`
is at each of its statements, as a function of `disk`: with both, a COMMIT is
exactly one `Enqueue` of Outbox and a rollback is a stutter. `DropInv` relates
the counter to what was evicted since the process began. `BacklogBounded` needs
to count: an enqueue cut off before its cap adds one row, so `OldestExists` and
the lemmas about `Excess` establish how many rows a cap leaves.

**AgentProofs.** `AgentTypeCorrect`, `AgentQueue`, `AgentImplementsDelivery`
and from it `AgentSafe`. The refinement needs one fact that is not visible in
any single step: when a drain is about to confirm an entry, the broker has that
entry. This is the fourth conjunct of `QueueMatchesDrains`, and it is inductive
only with the others: a message that the broker has acknowledged must be the
one its drain sent last (second), no two messages may answer the same drain
(third) - a message given up by a timeout is disowned in the same step - and
the front of the queue has arrived (first). The fifth says in which phases
the main thread drains, so that starting a drain never breaks off another.
`StillSteps` and `QuietSteps` sort the actions into those that cannot disturb
this and the few that can; the proofs then treat the few.

`AgentClientKeepsContract` is the same invariant put to use: an acknowledgement
is the `ReturnTrue` of the one drain that waits for it, or answers nobody, and
a timeout takes nothing out of the queue. `AgentImplementsOutbox` chains the
refinements down to the table, and `AgentSettledIsFinal` carries over what the
table promises.

`StoreClosedLast` and `LoopsFollowScheduler` rest on `LoopsInv`: what the main
thread knows of its loops in each phase. `NothingSkipped`, `AtMostOneResent` and
`ArrivalsKeepOrder` are about the order of sending. For the first, `GapInv` says
that a batch is a prefix of what is owed (`OldestIsPrefix`) and stays one, so
whatever is older than the entry that is handed over has arrived or was given
up; this does not ask how many drains there are. For the other two, `Ordered`
says that arrived entries, the client's queue, the rest of the batch and the
backlog stand one behind the other. It holds only with one drain at a time, and
`DrainsApart` shows that there is one unless the publisher has outlived its
join: the exception that the run `overtaken` shows to be needed.

`DrainsEnd` is the safety half of `StopCompletes`, and what the provers can say
of it. `StepsLeft` counts three steps for each entry that a drain has still to
confirm; that it falls with every step of the drain needs `BatchInv`: a
batch is no larger than `Batch`, the entry under way belongs to it, and a drain
that sends or waits has something left. The sampler, the link and the cap do
not change a batch that was read, and so cannot prolong a drain.
`BacklogStaysCapped` says that crashes between the INSERT and the cap do
not add up for a process that runs: its announcement enforces the cap, and no
loop starts before. `OnlyEvictionHidesRegistration` is what is left of
`agent.py:8` (section 6, item 1): `RegsInv` says that every reading was queued
behind some registration, and `NoGap` that what is older has arrived or was
evicted.

**SchedulerProofs.** `SchedulerSafe`, `ThreadOutlivesTask` and
`SchedulerImplementsLoop`, from `SchedulerInv`: at most the known thread lives,
and as the event is cleared only when nothing lives, a task can begin late
only if its check came before the stop. `OneTaskAfterStop`, at most one such
task, is proved and not the subject of a run.

**MqttClientProofs.** `ClientTypeCorrect`, `ArrivalsInOrder`, `EventTellsState`
and `ClientKeepsContract`. `PendingInv`: paho keeps the newest messages without
a gap, and the broker has everything before them - so an acknowledgement tells
of the right message, also after any number of reconnects. For the queue of the contract `ReceivedCuts` adds that
the messages of `unacked` which the broker has are the first `Received` of
them, as many as it has on this connection or more: so an acknowledgement
leaves the rest of the queue alone (`AcknowledgeKeeps`), and an arrival is a copy
or the head of the rest (`ArrivalTakesFirst`). `LastTellsState`:
the callback that runs last tells the truth; `EventTracksState` by itself is
only about the moment without callbacks and is not inductive.

**StartupProofs.** `StartupTypeCorrect`, `AcceptedConfigurationsRun`,
`BatchesMatch` and `AtomicReadings`, for any set of ids and so any number of
sensors, and any number of files and commands. `Sound` is what `load()` promises
of a configuration; `MainInv` carries it through the phases, `LoopInv` traces a
loop that died or spins back to its interval, `LinkInv` a link that is lost or
jammed to the configuration, `BatchInv` follows the readings of a cycle sensor by sensor,
`LockInv` and `ReadingInv` say who may change or see the two fields of a sensor.
That the enabled sensors are some of the declared ones, in their order and none
twice, is an induction over the list. The provers cannot instantiate an
induction theorem, so `EnabledAmong` is a recursive function and the induction
is by a least counterexample (`LeastExists`).

**CycleProofs.** `CycleTypeCorrect`, `CounterIsHonest` and
`SparseReadingsUnbiased`: `TotalFollowsClock`
is inductive once the last reading is known to lie in the past unless the clock
was set back, and the last total and rate to come from one amount
(`CounterInv`). Both are arithmetic about rounding, shown in lemmas of their own.
`SparseReadingsUnbiased` is the test's claim of an unbiased total (section 6,
item 4) with the condition under which it holds: `ClockInv` adds that a clock
which nobody sets tells the true time, so that the error of the total is what
the readings have rounded away.

**RegistryProofs.** `RegistryTypeCorrect`, `RegistrySafe`
(`SettledAssetIsWhole`, `ResponsesAreFresh`, `KnownAssetsAreFound`),
`RegisteredOnce` and `RegistryImplementsDirectory`. The invariant has four parts. `LockInv`: `computing` and the
requests agree on who is inside `compute()`. `ValuesInv`, the centre: every
field comes from the last registration that was completed or from the one that
is inside, and from the latter where it has been assigned. From this follow
both that a settled asset is whole and the lemma `NoneOverwritten`, that an
arriving request finds no overwritten field anywhere; `FreshInv` keeps that so,
since a registration that was applied writes no more. `FoundInv` says what a
walk through the map has found so far. `ResponsesAreFresh` by itself is not
inductive: it needs to know of the assets, not only of the responses.
The refinement takes a registration to happen when it leaves `compute()`, and
shows until then what the last one declared; that this is what the
fields held when the lock was taken, and hold of the new one when it is
given back, is `ValuesInv` again, and `RolesInv` says that whoever is on the way
into `compute()` or inside is a registration.

**Only model-checked**: liveness (`EventuallySettled`, `StopCompletes`,
`StopTakesEffect`, `PublishReturns`, `CommandsReturn`), which is beyond the
prover. The violations of section 6 are runs and could not be theorems.

## 5. Abstractions

- A reading, a batch or a registration is the id of its outbox row; `regs` tells
  registrations apart. In Store a cycle's readings are the cycle's number.
- Time is left out of all modules but CycleCount. A wait with a timeout may end
  at any moment, retention may prune any confirmed rows, and a tick is due
  whenever its thread is idle.
- The broker and paho are external and modelled as `broker.py` and
  `publisher.py` rely on them: QoS 1, in order on one connection, unacknowledged
  messages resent first after a reconnect. A clean session forgets nothing of
  the client's own queue while the process lives. `stop()` of the client joins
  the network thread, which runs its callbacks first.
- In AssetRegistry times are left out: `lastSeenAt` is the request that set it.
  `health` is never assigned after construction and is left out.
- In CycleCount the jitter is any amount up to a bound, for a Gaussian whose
  spread grows with the interval, and floating-point error is left out.
- A statement that raises in the final drain or in the publisher's loop is
  caught; during `start()` it ends the process, which is a `Crash`.
- Agent's outbox steps are atomic and on disk at once. Store justifies this.
- In Config a value is one of fifteen kinds of string, number, boolean or
  nothing, and claims about configurations are claims about these kinds: the
  length of a string, or an optional value that is a string of digits, is not
  among them. The default of `client_id` changes nothing and is left out. The
  files are read only at a start, and not changed while they are read; where a
  document gives cause for a ConfigError and for another exception, either may
  come first. What else is on the disk, certificates and the database, is the
  same when it is used as when `load()` looked.
- Of the network Startup has only what keeps the agent from the broker for good:
  a port that wraps around is taken to lead to no broker. A configuration that
  the broker rejects, such as an unknown certificate, is the broker's business.
  A drain that raises already while `start()` announces is `AnnounceFails`.
- In Sampling a handler that raises has changed nothing, which is so of the only
  `handle_command` of the repository, that of the base class: no sensor declares
  commands yet, and nothing in the agent calls `execute()`. The lock that it
  takes is written for a second thread (`base.py:110`), and the model has that
  thread, with a handler of two assignments.
- Of a registration and a batch only the ids of their sensors are kept.
- Startup takes the publisher's tick as one step and the database as something
  that works or raises; Agent and Store have the details.

**Not modelled.** Terraform, because it is declarative and nothing here consumes
the queue it declares. The values of the simulated waveforms, which are random
floating-point data that no other part depends on. The layout of JSON, topics
and timestamps: conversions without state, with nothing that the other
properties could tell apart. The order of a listing and the validation of
requests in the backend. `latest`, `pending_count`, `outbox_size`,
`wait_until_connected` and the logging configuration read and report only.
How long things take: joins and waits end at any moment, so the length of a
shutdown is bounded in steps (`DrainsAreBounded`) and not in seconds.

## 6. Where code and documentation disagree

1. *The registration can be evicted* (`registration_evicted`). It is an
   ordinary entry and the oldest of its start, so a long outage evicts it first,
   against `agent.py:8-11`. It can fail in no other way: what an older
   registration is to a reading that has arrived, `AnnouncedOrEvicted` says.
2. *Overtaking at shutdown* (`overtaken`). The publisher's join takes five
   seconds and a publish up to ten; the final drain then runs beside the
   publisher's, and if entries were evicted since that one read its batch, it
   sends older entries after newer ones. `NoGap` holds even then.
3. *`sentAt` of an earlier attempt* (`sent_at`). paho sends what it keeps again
   after a reconnect, with the payload as it was, against `wire.py:82`.
4. *Drift by rounding* (`cycle_count_drift`). Each reading rounds by itself, so
   at short intervals the error grows with the readings, against the test at
   `test_sensors.py:308`, which samples no faster than every ten seconds.
   `UnbiasedWhenSparse` says when it does not matter.

Read, and not the subject of a run:

- "Registered with the backend" may be logged too early: `publish_now` returns
  True when its drain confirmed anything, and with a backlog of a batch or more
  that is not the registration (`publisher.py:97`).
- `config.py:8-12` wants problems found once, by `load()`, and not "by whichever
  component first trips over it". What is found later is `Unchecked` of Startup:
  - in a constructor, which `main()` calls outside its handlers: a
    `database_path` at which no database can be opened (`store.py:109`), an
    unknown sensor type (`base.py:212`) or an option that is missing, no number
    or too large for a float, and with TLS a file that exists and is no
    certificate or key (`broker.py:102`; `load()` only asks whether it is a file);
  - in a loop: an interval that is infinite or beyond `threading.TIMEOUT_MAX`
    ends the thread at its first wait (`scheduler.py:123`), and a NaN makes it
    run without rest;
  - in paho's network thread, so that the agent samples and never sends: a port
    or keepalive that is too large and a host that cannot be encoded
    (`broker.py:128`);
  - in every drain: a `batch_size` beyond the integers of SQLite
    (`publisher.py:59`) and a wildcard of MQTT in `site_id` or `asset_id`.

  `AcceptedRuns` shows that what `load()` does check is found by it and by nothing
  later, and that among the kinds of value of the model these are the only gaps;
  of what the kinds do not tell apart it says nothing.
- `load()` itself can raise something other than a ConfigError: a file that may
  not be read or is no UTF-8 (`config.py:282`), and an interval that `float()`
  cannot take (`config.py:335`). `main()` then ends in a traceback and not with
  exit status 2 (`LoadRaises`).
- A `baseline` of NaN is read as 0.0, and one of infinity gives ERROR readings
  for ever, against `vibration.py:30`: "Read at construction so a misconfigured
  sensor fails at agent startup".
- `dropped_entries` may overcount: a COMMIT that fails takes the DELETE of the
  cap back and not the counter. `NoSilentDrop` is what does hold: never too
  few, and exact if no COMMIT failed.
- After the clock is set back, a reading divides the total of the whole run by
  an uptime that is short (`cycle_count.py:86`).
- The drops are counted and never logged (`store.py:92` says they are);
  `SHUTDOWN_DRAIN_SECONDS` (`agent.py:33`) is not used; the final drain sends
  one batch and not the backlog (`agent.py:126`).

## 7. Plan

Done: the outbox and its store, the agent's threads around it, the scheduler,
the MQTT client, the configuration, start and sampling, the backend's registry,
the production counter, their refinements, and the proofs of all their safety
properties, with the conditions under which two of the four sentences of
section 6 do hold.

What could follow:

1. *Shutdown*, with time: how long `stop()` may take against
   `SHUTDOWN_DRAIN_SECONDS` and the service manager's patience.
2. Retention with a clock that steps.
3. The composition in one module of MqttClient and Agent, which now meet in
   BrokerContract, and of Sampling and Store as the sampler's cycle.
4. Commands, when the agent begins to receive them: who calls `execute()`, and
   what a result means after a restart.
