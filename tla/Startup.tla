------------------------------ MODULE Startup -------------------------------
(***************************************************************************)
(* main(): from the configuration on disk to the two running loops, again  *)
(* and again, with whatever the operator has written in between.  What     *)
(* load() has accepted is used by the constructors of the sensors, the     *)
(* MQTT client and the schedulers, and then by every tick of the loops.    *)
(* Agent models the loops themselves; here a tick of the publisher is one  *)
(* step, a cycle of the sampler is that of Sampling, and of the network    *)
(* only what keeps the agent from the broker for good.  What is on the     *)
(* disk beside the configuration, the certificates and whatever is found   *)
(* at database_path, stays the same between load() and its use.            *)
(***************************************************************************)
EXTENDS Sampling

CONSTANT
    Documents   \* the configurations that may be found on disk

ASSUME DocumentsAssumption == \A d \in Documents : IsDocument(d)

VARIABLES
    phase,     \* where main() is: "off" before it, "refused" for exit status
               \* 2, "aborted" for 1, "unread" and "failed" for a traceback
               \* out of load() and out of the constructors
    config,    \* what load() returned
    loop,      \* the thread of each scheduler
    spun,      \* the loops that began a tick without any rest
    link,      \* paho's way to the broker: "lost" when no attempt can ever
               \* succeed, "jammed" when the drains raise on it
    declared   \* the ids in the last registration queued

startup == <<phase, config, loop, spun, link, declared>>
vars == <<phase, config, loop, spun, link, declared, sampling>>

Loop == {"sampler", "publisher"}
NoConfig ==
    [interval |-> [l \in Loop |-> "positive"], topic |-> {}, host |-> "word",
     port |-> "positive", keepalive |-> "positive", certificates |-> {},
     batch_size |-> "positive", database |-> "word", sensors |-> <<>>]
Asleep == [l \in Loop |-> "off"]

Init ==
    /\ phase = "off"
    /\ config = NoConfig
    /\ loop = Asleep
    /\ spun = {}
    /\ link = "off"
    /\ declared = <<>>
    /\ sensors = <<>> /\ state = <<>> /\ lock = <<>>
    /\ sampler = NoReading /\ commander = NoCommand
    /\ batch = <<>>

-----------------------------------------------------------------------------
(* main(), and the constructor of Agent.                                   *)

\* A ConfigError ends in exit status 2, ...
Refuse ==
    /\ phase = "off"
    /\ \E d \in Documents : Refuses(d)
    /\ phase' = "refused"
    /\ UNCHANGED <<config, loop, spun, link, declared, sampling>>

\* ... and anything else that load() raises in a traceback.
LoadRaises ==
    /\ phase = "off"
    /\ \E d \in Documents : Raises(d)
    /\ phase' = "unread"
    /\ UNCHANGED <<config, loop, spun, link, declared, sampling>>

Accept ==
    /\ phase = "off"
    /\ \E d \in Documents : Accepts(d) /\ config' = Load(d)
    /\ phase' = "loaded"
    /\ UNCHANGED <<loop, spun, link, declared, sampling>>

\* mkdir, connect and the first statements, with what the disk then has and
\* allows at that path.
CanOpenStore(c) == c.database # "unfit"

\* required_float() finds a number, and float() takes the optional value.
CanInit(s) ==
    /\ AsFloat(s.baseline)
    /\ s.drift \in Numbers \cup {"true", "false", "absent"}
    /\ ~Overflows(s.drift)

\* create() knows the type.
CanCreate(s) == s.type = "word" /\ CanInit(s)

CanCreateAll(c) ==
    \A i \in DOMAIN EnabledSensors(c) : CanCreate(EnabledSensors(c)[i])

\* tls_set() opens the files and parses them.
CanConfigureTls(c) == c.certificates \subseteq {"file", "blank", "absent"}

CanSchedule(interval) == ~AtMostZero(interval)

CanConstruct(c) ==
    /\ CanOpenStore(c)
    /\ CanCreateAll(c)
    /\ CanConfigureTls(c)
    /\ \A l \in Loop : CanSchedule(c.interval[l])

Construct ==
    /\ phase = "loaded"
    /\ CanConstruct(config)
    /\ Build(EnabledSensors(config))
    /\ phase' = "constructed"
    /\ UNCHANGED <<config, loop, spun, link, declared, batch>>

\* Whatever the constructors raise leaves main(), past its handlers.
ConstructFails ==
    /\ phase = "loaded"
    /\ ~CanConstruct(config)
    /\ phase' = "failed"
    /\ UNCHANGED <<config, loop, spun, link, declared, sampling>>

\* The client starts to connect, and the registration is queued.
Announce ==
    /\ phase = "constructed"
    /\ link' = "trying"
    /\ declared' = Registration
    /\ batch' = <<>>
    /\ phase' = "announced"
    /\ UNCHANGED <<config, loop, spun, sensors, state, lock, sampler, commander>>

\* start() raises because the store does, before or after the registration
\* is queued, or the drain that follows.
AnnounceFails ==
    /\ phase = "constructed"
    /\ \/ UNCHANGED <<declared, batch>>
       \/ declared' = Registration /\ batch' = <<>>
    /\ phase' = "aborted"
    /\ UNCHANGED <<config, loop, spun, link, sensors, state, lock, sampler, commander>>

StartLoops ==
    /\ phase = "announced"
    /\ loop' = [l \in Loop |-> "due"]
    /\ phase' = "running"
    /\ UNCHANGED <<config, spun, link, declared, sampling>>

\* A signal and stop(), or the end of a process that did not get so far, or
\* a crash.  What is in the database stays.
Exit ==
    /\ phase # "off"
    /\ phase' = "off"
    /\ config' = NoConfig
    /\ loop' = Asleep
    /\ spun' = {}
    /\ link' = "off"
    /\ Build(<<>>)
    /\ UNCHANGED <<declared, batch>>

-----------------------------------------------------------------------------
(* paho's network thread.                                                  *)

\* A host name must be encoded, a port given to the socket, and a keepalive
\* packed into two bytes.  What fails there ends the thread, or, for a port
\* that wraps around, has it try the wrong one for ever.
CanConnect(c) ==
    /\ c.host # "unfit"
    /\ {c.port, c.keepalive} \cap {"huge", "giant"} = {}

Connect ==
    /\ link = "trying"
    /\ link' = IF CanConnect(config) THEN "up" ELSE "lost"
    /\ UNCHANGED <<phase, config, loop, spun, declared, sampling>>

Disconnect ==
    /\ link \in {"up", "jammed"}
    /\ link' = "trying"
    /\ UNCHANGED <<phase, config, loop, spun, declared, sampling>>

-----------------------------------------------------------------------------
(* The loops.                                                              *)

\* The wait for the rest of the interval.  Event.wait() raises for a time
\* beyond threading.TIMEOUT_MAX; for NaN, max(0.0, nan) makes it no wait.
WaitAfter(l) ==
    LET interval == config.interval[l] IN
    /\ loop' = [loop EXCEPT ![l] =
                   IF interval \in {"huge", "infinite"} THEN "dead"
                   ELSE IF interval = "nan" THEN "due"
                   ELSE "resting"]
    /\ spun' = IF interval = "nan" THEN spun \cup {l} ELSE spun

Wake(l) ==
    /\ loop[l] = "resting"
    /\ loop' = [loop EXCEPT ![l] = "due"]
    /\ UNCHANGED <<phase, config, spun, link, declared, sampling>>

\* SQLite takes the LIMIT, and paho the topic.
CanDrain(c) == c.batch_size # "giant" /\ "unfit" \notin c.topic

\* What drain_once() raises is reported, and met again at the next tick.
Publish ==
    /\ loop["publisher"] = "due"
    /\ link' = IF link = "up" /\ ~CanDrain(config) THEN "jammed" ELSE link
    /\ WaitAfter("publisher")
    /\ UNCHANGED <<phase, config, declared, sampling>>

SamplerBegins ==
    /\ loop["sampler"] = "due"
    /\ BeginCycle
    /\ loop' = [loop EXCEPT !["sampler"] = "busy"]
    /\ UNCHANGED <<phase, config, spun, link, declared>>

SamplerEnds ==
    /\ EndCycle
    /\ WaitAfter("sampler")
    /\ UNCHANGED <<phase, config, link, declared>>

SamplerStep == TakeReading /\ UNCHANGED startup

Sample == SamplerBegins \/ SamplerStep \/ SamplerEnds

Command == phase = "running" /\ Execute /\ UNCHANGED startup
CommandStep == Handle /\ UNCHANGED startup

MainStep ==
    \/ Refuse
    \/ LoadRaises
    \/ Accept
    \/ Construct
    \/ ConstructFails
    \/ Announce
    \/ AnnounceFails
    \/ StartLoops

Next ==
    \/ MainStep
    \/ Exit
    \/ Connect
    \/ Disconnect
    \/ Publish
    \/ Sample
    \/ Command
    \/ CommandStep
    \/ \E l \in Loop : Wake(l)

Spec == Init /\ [][Next]_vars

\* Threads are scheduled, and read() and the handlers return.  A command
\* waits for a lock that is free during every rest of the sampler, and so
\* gets it in the end.  Nothing makes the process end or a command arrive.
FairSpec ==
    /\ Spec
    /\ WF_vars(Sample)
    /\ SF_vars(CommandStep)

-----------------------------------------------------------------------------
Phase == {"off", "refused", "unread", "loaded", "failed", "constructed",
          "announced", "aborted", "running"}

ConfigType ==
    [interval : [Loop -> Numbers], topic : SUBSET Strings, host : Strings,
     port : Numbers, keepalive : Numbers, certificates : SUBSET Kind,
     batch_size : Numbers, database : Strings, sensors : Seq(SensorFile)]

TypeOK ==
    /\ phase \in Phase
    /\ config \in ConfigType
    /\ loop \in [Loop -> {"off", "due", "busy", "resting", "dead"}]
    /\ spun \subseteq Loop
    /\ link \in {"off", "trying", "up", "lost", "jammed"}
    /\ declared \in Seq(AnyId)
    /\ SamplingTypeOK

\* The values that load() lets pass and that what uses them cannot take: it
\* looks neither into the files, at the database, the names in a topic and
\* the host nor at the types and options of sensors, and sets no upper bound
\* to any number.
Unchecked ==
    \/ "unfit" \in {config.database, config.host} \cup config.topic
                      \cup config.certificates
    \/ {config.port, config.keepalive} \cap {"huge", "giant"} # {}
    \/ config.batch_size = "giant"
    \/ \E l \in Loop : config.interval[l] \in {"huge", "infinite", "nan"}
    \/ ~CanCreateAll(config)

\* A constructor that fails, nothing to sample, a loop that died or gets no
\* rest, a broker that can never be reached or that nothing can be sent to.
Trouble ==
    \/ phase = "failed"
    \/ phase = "running" /\ sensors = <<>>
    \/ \E l \in Loop : loop[l] = "dead"
    \/ spun # {}
    \/ link \in {"lost", "jammed"}

\* What the checks of load() are worth (config.py:8-12): none of this happens
\* to a configuration that it accepted because of something that it checks,
\* such as a certificate file that is missing, half a pair of them, an
\* interval of zero, or no sensor that is switched on; only the values of
\* Unchecked, among the kinds told apart here, are left to be tripped over.
AcceptedRuns == Trouble => Unchecked

\* Every batch has one reading, failed or not, for each sensor that the last
\* registration queued before it declares, in that order, and no sensor twice
\* (runner.py:50, config.py:248).
BatchMatchesDeclaration ==
    batch # <<>> =>
        /\ batch = declared
        /\ \A i, j \in DOMAIN batch : i # j => batch[i] # batch[j]

\* A command that waits for a sensor is executed or refused in the end, unless
\* the process ends: no failing read() keeps the lock.
CommandsReturn == commander.at = "waiting" ~> commander.at = "idle"

=============================================================================
