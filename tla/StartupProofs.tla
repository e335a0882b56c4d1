--------------------------- MODULE StartupProofs ---------------------------
(***************************************************************************)
(* From the configuration to the batches, for any documents on disk, any   *)
(* number of sensors, and any number of commands.                          *)
(***************************************************************************)
EXTENDS Startup, SequenceTheorems, WellFoundedInduction, TLAPS

\* A set of naturals that is not empty has a least element.
LEMMA LeastExists ==
    ASSUME NEW T \in SUBSET Nat, T # {}
    PROVE  \E m \in T : \A n \in T : m <= n
<1> DEFINE R == OpToRel(<, Nat)
<1>1. IsWellFoundedOn(R, Nat)
  BY NatLessThanWellFounded, Zenon
<1>2. \A x, y \in Nat : x < y => <<x, y>> \in R
  BY DEF OpToRel
<1> HIDE DEF R
<1>3. PICK m \in T : \A n \in T : ~ (<<n, m>> \in R)
  BY <1>1, WFMin
<1>4. \A n \in T : ~(n < m)
  BY <1>2, <1>3
<1>5. QED
  BY <1>4

-----------------------------------------------------------------------------
(* The enabled sensors.                                                    *)

Unfolded(f, list, n) ==
    IF n = 0 THEN <<>>
    ELSE IF list[n].enabled = "true" THEN Append(f[n - 1], list[n])
    ELSE f[n - 1]

\* The recursion has a solution, by induction on how far it goes.
LEMMA AmongExists ==
    ASSUME NEW list, NEW m \in Nat
    PROVE  \E f : f = [n \in 0..m |-> Unfolded(f, list, n)]
<1> DEFINE Solves(f, k) == f = [n \in 0..k |-> Unfolded(f, list, n)]
           failing == {k \in Nat : ~ \E f : Solves(f, k)}
<1>1. SUFFICES ASSUME failing # {} PROVE FALSE
  OBVIOUS
<1>2. PICK k \in failing : \A j \in failing : k <= j
  <2>1. failing \in SUBSET Nat
    OBVIOUS
  <2> HIDE DEF failing
  <2>2. QED
    BY <1>1, <2>1, LeastExists
<1>3. k \in Nat /\ ~ \E f : Solves(f, k)
  OBVIOUS
<1>4. CASE k = 0
  <2> DEFINE g == [n \in 0..0 |-> <<>>]
  <2>1. Solves(g, 0)
    BY DEF Unfolded
  <2>2. QED
    BY <1>3, <1>4, <2>1
<1>5. CASE k # 0
  <2>1. k - 1 \in Nat /\ ~(k <= k - 1)
    BY <1>3, <1>5
  <2>2. k - 1 \notin failing
    BY <1>2, <2>1
  <2>3. PICK h : Solves(h, k - 1)
    BY <2>1, <2>2
  <2> DEFINE g == [n \in 0..k |-> IF n = k THEN Unfolded(h, list, k) ELSE h[n]]
  <2>4. \A n \in 0..(k - 1) : h[n] = Unfolded(h, list, n) /\ g[n] = h[n]
    BY <1>3, <2>3
  <2>5. \A n \in 0..k : Unfolded(g, list, n) = Unfolded(h, list, n)
    BY <1>3, <2>1, <2>4 DEF Unfolded
  <2>6. \A n \in 0..k : g[n] = Unfolded(g, list, n)
    <3>1. SUFFICES ASSUME NEW n \in 0..k
                   PROVE  g[n] = Unfolded(h, list, n)
      BY <2>5
    <3>2. n = k \/ n \in 0..(k - 1)
      BY <1>3
    <3>3. QED
      BY <2>4, <3>2
  <2>7. Solves(g, k)
    BY <2>6
  <2>8. QED
    BY <1>3, <2>7
<1>6. QED
  BY <1>4, <1>5

LEMMA AmongUnfolds ==
    ASSUME NEW list, Len(list) \in Nat, NEW n \in 0..Len(list)
    PROVE  EnabledAmong(list)[n] = Unfolded(EnabledAmong(list), list, n)
<1> DEFINE Solves(f) == f = [k \in 0..Len(list) |-> Unfolded(f, list, k)]
<1>1. EnabledAmong(list) = CHOOSE f : Solves(f)
  BY DEF EnabledAmong, Unfolded
<1>2. \E f : Solves(f)
  BY AmongExists
<1> HIDE DEF Solves
<1>3. Solves(EnabledAmong(list))
  BY <1>1, <1>2
<1>4. QED
  BY <1>3 DEF Solves

Unique(list) ==
    \A i, j \in DOMAIN list : i # j => list[i].sensor_id # list[j].sensor_id

\* What a selection from the first n of a list keeps of it.
Selected(chosen, list, n) ==
    /\ chosen \in Seq(SensorFile)
    /\ \A k \in 1..Len(chosen) : \E i \in 1..n : chosen[k] = list[i]
    /\ Unique(list) => Unique(chosen)
    /\ (\E i \in 1..n : list[i].enabled = "true") => chosen # <<>>

LEMMA SelectedGrows ==
    ASSUME NEW list \in Seq(SensorFile), NEW n \in 1..Len(list),
           NEW chosen, Selected(chosen, list, n - 1)
    PROVE  /\ Selected(Append(chosen, list[n]), list, n)
           /\ list[n].enabled # "true" => Selected(chosen, list, n)
<1>1. /\ chosen \in Seq(SensorFile) /\ Len(chosen) \in Nat
      /\ DOMAIN chosen = 1..Len(chosen) /\ DOMAIN list = 1..Len(list)
      /\ Len(list) \in Nat /\ list[n] \in SensorFile
      /\ 1..(n - 1) \subseteq 1..n /\ n \in 1..n
      /\ \A i \in 1..n : i = n \/ i \in 1..(n - 1)
  BY LenProperties, ElementOfSeq DEF Selected
<1> DEFINE longer == Append(chosen, list[n])
<1>2. /\ longer \in Seq(SensorFile) /\ longer # <<>>
      /\ Len(longer) = Len(chosen) + 1
      /\ DOMAIN longer = 1..(Len(chosen) + 1)
      /\ longer[Len(chosen) + 1] = list[n]
      /\ \A k \in 1..Len(chosen) : longer[k] = chosen[k]
  BY <1>1, AppendProperties, LenProperties
<1> HIDE DEF longer
<1>3. \A k \in 1..Len(longer) : k \in 1..Len(chosen) \/ k = Len(chosen) + 1
  BY <1>1, <1>2
<1>4. \A k \in 1..Len(longer) : \E i \in 1..n : longer[k] = list[i]
  BY <1>1, <1>2, <1>3 DEF Selected
<1>5. ASSUME Unique(list)
      PROVE  Unique(longer)
  <2>1. \A k \in 1..Len(chosen) : chosen[k].sensor_id # list[n].sensor_id
    <3>1. SUFFICES ASSUME NEW k \in 1..Len(chosen)
                   PROVE  chosen[k].sensor_id # list[n].sensor_id
      OBVIOUS
    <3>2. PICK i \in 1..(n - 1) : chosen[k] = list[i]
      BY DEF Selected
    <3>3. i # n /\ i \in DOMAIN list /\ n \in DOMAIN list
      BY <1>1
    <3>4. QED
      BY <1>5, <3>2, <3>3 DEF Unique
  <2>2. Unique(chosen)
    BY <1>5 DEF Selected
  <2>3. QED
    BY <1>1, <1>2, <1>3, <2>1, <2>2 DEF Unique
<1>6. Selected(longer, list, n)
  BY <1>2, <1>4, <1>5 DEF Selected
<1>7. ASSUME list[n].enabled # "true"
      PROVE  Selected(chosen, list, n)
  BY <1>1, <1>7 DEF Selected
<1>8. QED
  BY <1>6, <1>7 DEF longer

LEMMA AmongSelects ==
    ASSUME NEW list \in Seq(SensorFile)
    PROVE  \A n \in 0..Len(list) : Selected(EnabledAmong(list)[n], list, n)
<1> DEFINE among == EnabledAmong(list)
           failing == {k \in 0..Len(list) : ~ Selected(among[k], list, k)}
<1>1. SUFFICES ASSUME failing # {} PROVE FALSE
  OBVIOUS
<1>2. Len(list) \in Nat /\ failing \in SUBSET Nat
  BY LenProperties
<1>3. PICK n \in failing : \A j \in failing : n <= j
  <2> HIDE DEF failing
  <2>1. QED
    BY <1>1, <1>2, LeastExists
<1>4. n \in 0..Len(list) /\ ~ Selected(among[n], list, n)
  OBVIOUS
<1>5. among[n] = Unfolded(among, list, n)
  BY <1>2, <1>4, AmongUnfolds
<1>6. CASE n = 0
  <2>1. among[n] = <<>>
    BY <1>5, <1>6 DEF Unfolded
  <2>2. Selected(<<>>, list, 0)
    BY EmptySeq DEF Selected, Unique
  <2>3. QED
    BY <1>4, <1>6, <2>1, <2>2
<1>7. CASE n # 0
  <2>1. n \in 1..Len(list) /\ n - 1 \in 0..Len(list) /\ ~(n <= n - 1)
    BY <1>2, <1>4, <1>7
  <2>2. Selected(among[n - 1], list, n - 1)
    BY <1>3, <2>1
  <2>3. among[n] = IF list[n].enabled = "true" THEN Append(among[n - 1], list[n])
                   ELSE among[n - 1]
    BY <1>5, <1>7 DEF Unfolded
  <2> HIDE DEF among
  <2>4. Selected(among[n], list, n)
    BY <2>1, <2>2, <2>3, SelectedGrows
  <2>5. QED
    BY <1>4, <2>4
<1>8. QED
  BY <1>6, <1>7

\* The enabled sensors of a list with unique ids and one that is enabled have
\* unique ids, and there is one.
LEMMA EnabledSelects ==
    ASSUME NEW c, c.sensors \in Seq(SensorFile)
    PROVE  Selected(EnabledSensors(c), c.sensors, Len(c.sensors))
<1>1. Len(c.sensors) \in 0..Len(c.sensors)
  BY LenProperties
<1>2. QED
  BY <1>1, AmongSelects DEF EnabledSensors

-----------------------------------------------------------------------------
(* The invariant.                                                          *)

\* What load() has seen to.
Sound(c) ==
    /\ c \in ConfigType
    /\ \A l \in Loop : ~AtMostZero(c.interval[l])
    /\ c.certificates \subseteq {"file", "unfit", "blank", "absent"}
    /\ Unique(c.sensors)
    /\ \E i \in DOMAIN c.sensors : c.sensors[i].enabled = "true"

Built == {"constructed", "announced", "aborted", "running"}

\* What main() holds in each phase.
MainInv ==
    /\ phase \in {"off", "refused", "unread"} => config = NoConfig
    /\ phase \notin {"off", "refused", "unread"} => Sound(config)
    /\ phase = "failed" => ~CanConstruct(config)
    /\ sensors = IF phase \in Built THEN EnabledSensors(config) ELSE <<>>

\* Only a running agent has loops, cycles and commands, and what became of a
\* loop tells of its interval.
LoopInv ==
    /\ phase # "running" =>
          loop = Asleep /\ spun = {} /\ commander.at = "idle"
    /\ \A l \in Loop : loop[l] = "dead" => config.interval[l] \in {"huge", "infinite"}
    /\ \A l \in spun : config.interval[l] = "nan"
    /\ sampler.at # "idle" => loop["sampler"] = "busy"

\* The client is started with the registration, and what became of the way to
\* the broker tells of the configuration.
LinkInv ==
    /\ link # "off" => phase \in {"announced", "running"}
    /\ link = "lost" => ~CanConnect(config)
    /\ link = "jammed" => ~CanDrain(config)

\* A cycle reads the sensors that were declared, in their order.
BatchInv ==
    /\ phase \in {"announced", "running"} => declared = Registration
    /\ \A i \in 1..Len(sampler.readings) :
          sampler.readings[i].sensor_id = sensors[i].sensor_id
    /\ BatchMatchesDeclaration

\* Who holds the lock of a sensor; its fields differ only under the handler.
LockInv ==
    /\ \A i \in Position :
          /\ lock[i] = "sampler" <=> sampler.at = "reading" /\ i = Current
          /\ lock[i] = "commander" <=> commander.at = "handling" /\ i = commander.on
          /\ state[i].second <= state[i].first
          /\ lock[i] # "commander" => state[i].first = state[i].second
    /\ commander.at = "waiting" => state[commander.on].first < MaxCommands

\* The reading that is being taken, on its way to a record.
ReadingInv ==
    /\ sampler.at = "captured" => sampler.stamp <= state[Current].second
    /\ sampler.at = "reading" => /\ sampler.stamp <= sampler.first
                                 /\ sampler.first = state[Current].second
    /\ sampler.at = "read" => /\ sampler.stamp <= sampler.first
                              /\ sampler.first = sampler.second
    /\ ReadingsAreAtomic

StartupInv ==
    TypeOK /\ MainInv /\ LoopInv /\ LinkInv /\ BatchInv /\ LockInv
    /\ ReadingInv

-----------------------------------------------------------------------------
(* main().                                                                 *)

\* What load() accepts is sound, so what it leaves open is in Unchecked.
LEMMA AcceptedIsSound ==
    ASSUME NEW d \in Documents, Accepts(d)
    PROVE  Sound(Load(d))
<1> DEFINE c == Load(d)
<1>1. d.agent \in [AgentKey -> Kind] /\ d.files \in Seq(SensorFile)
  BY DocumentsAssumption DEF IsDocument
<1>2. /\ c.interval = [sampler |-> d.agent.sample_interval,
                       publisher |-> d.agent.publish_interval]
      /\ c.topic = {d.agent.site_id, d.agent.asset_id}
      /\ c.host = d.agent.host /\ c.port = d.agent.port
      /\ c.keepalive = d.agent.keepalive_seconds
      /\ c.certificates = IF d.agent.tls = "true"
                          THEN {d.agent[p] : p \in CertificatePath} ELSE {}
      /\ c.batch_size = d.agent.batch_size
      /\ c.database = d.agent.database_path
      /\ c.sensors = d.files
      /\ c = [interval |-> c.interval, topic |-> c.topic, host |-> c.host,
              port |-> c.port, keepalive |-> c.keepalive,
              certificates |-> c.certificates, batch_size |-> c.batch_size,
              database |-> c.database, sensors |-> c.sensors]
  BY DEF Load
<1> HIDE DEF c
<1>3. \A k \in {"sample_interval", "publish_interval"} :
         d.agent[k] \in Numbers /\ ~AtMostZero(d.agent[k])
  BY DEF Accepts, Valid, RequirePositiveFloat
<1>4. c.interval \in [Loop -> Numbers] /\ \A l \in Loop : ~AtMostZero(c.interval[l])
  BY <1>2, <1>3 DEF Loop
<1>5. c.certificates \subseteq {"file", "unfit", "blank", "absent"}
  <2>1. d.agent.tls = "true" => \A p \in CertificatePath :
           d.agent[p] \in {"file", "unfit", "blank", "absent"}
    BY DEF Accepts, Valid, TlsPaths, IsSet, IsFile
  <2>2. QED
    BY <1>2, <2>1
<1>6. /\ c.topic \subseteq Strings /\ c.host \in Strings /\ c.database \in Strings
      /\ c.port \in Numbers /\ c.keepalive \in Numbers /\ c.batch_size \in Numbers
  <2>1. \A k \in {"site_id", "asset_id", "host", "database_path"} :
           d.agent[k] \in Strings
    BY DEF Accepts, Valid, RequireStr
  <2>2. \A k \in {"port", "keepalive_seconds", "batch_size"} : d.agent[k] \in Numbers
    BY DEF Accepts, Valid, RequirePositiveInt, IsInt, RequireBool, Numbers
  <2>3. QED
    BY <1>2, <2>1, <2>2
<1>7. c \in ConfigType
  <2>1. c.certificates \in SUBSET Kind
    BY <1>5 DEF Kind, Strings
  <2>2. c.sensors \in Seq(SensorFile)
    BY <1>1, <1>2
  <2>3. QED
    BY <1>2, <1>4, <1>6, <2>1, <2>2 DEF ConfigType
<1>8. Unique(c.sensors)
      /\ \E i \in DOMAIN c.sensors : c.sensors[i].enabled = "true"
  BY <1>2 DEF Accepts, Valid, LoadSensors, Unique
<1>9. Sound(c)
  BY <1>4, <1>5, <1>7, <1>8 DEF Sound
<1>10. QED
  BY <1>9 DEF c

LEMMA EnabledIsSound ==
    ASSUME NEW c, Sound(c)
    PROVE  /\ EnabledSensors(c) \in Seq(SensorFile)
           /\ EnabledSensors(c) # <<>>
           /\ Unique(EnabledSensors(c))
<1>1. Selected(EnabledSensors(c), c.sensors, Len(c.sensors))
  BY EnabledSelects DEF Sound, ConfigType
<1>2. DOMAIN c.sensors = 1..Len(c.sensors)
  BY LenProperties DEF Sound, ConfigType
<1>3. QED
  BY <1>1, <1>2 DEF Sound, Selected

\* The ids of a list, as the registration and a batch hold them.
LEMMA IdsAreTyped ==
    ASSUME NEW S, NEW list \in Seq(S), \A s \in S : s.sensor_id \in AnyId
    PROVE  [i \in DOMAIN list |-> list[i].sensor_id] \in Seq(AnyId)
<1>1. Len(list) \in Nat /\ DOMAIN list = 1..Len(list)
      /\ \A i \in 1..Len(list) : list[i] \in S
  BY LenProperties, ElementOfSeq
<1>2. QED
  BY <1>1

-----------------------------------------------------------------------------
(* The steps, by what they touch.                                          *)

Cycle ==
    \/ SamplerBegins
    \/ Capture /\ UNCHANGED startup
    \/ ReadFirst /\ UNCHANGED startup
    \/ ReadSecond /\ UNCHANGED startup
    \/ ReadFails /\ UNCHANGED startup
    \/ Judge /\ UNCHANGED startup
    \/ SamplerEnds

LEMMA AllSteps ==
    ASSUME [Next]_vars
    PROVE  \/ Refuse \/ LoadRaises \/ Accept \/ ConstructFails \/ StartLoops
           \/ Announce \/ AnnounceFails
           \/ Construct \/ Exit
           \/ Connect \/ Disconnect
           \/ Publish \/ (\E l \in Loop : Wake(l))
           \/ Cycle
           \/ Command
           \/ HandleFirst /\ UNCHANGED startup
           \/ HandleSecond /\ UNCHANGED startup
           \/ HandlerRaises /\ UNCHANGED startup
           \/ UNCHANGED vars
  BY DEF Next, MainStep, Sample, SamplerStep, TakeReading, CommandStep, Handle, Cycle

\* Cycles and commands leave main() and the set of sensors alone.
LEMMA CycleFrame ==
    ASSUME Cycle \/ Command \/ (Handle /\ UNCHANGED startup)
           \/ Publish \/ (\E l \in Loop : Wake(l)) \/ Connect \/ Disconnect
    PROVE  UNCHANGED <<phase, config, declared, sensors>>
  BY DEF Cycle, SamplerBegins, SamplerEnds, BeginCycle, Capture, ReadFirst,
     ReadSecond, ReadFails, Judge, EndCycle, Queue, QueueFails, Command, Execute,
     Handle, HandleFirst, HandleSecond, HandlerRaises, Publish, Wake, Connect,
     Disconnect, startup, sampling

LEMMA MainStepKeeps ==
    ASSUME MainInv, [Next]_vars
    PROVE  MainInv'
<1>1. CASE UNCHANGED <<phase, config, sensors>>
  BY <1>1 DEF MainInv, Sound, CanConstruct, EnabledSensors
<1>2. CASE Refuse \/ LoadRaises
  BY <1>2 DEF Refuse, LoadRaises, MainInv, Built, sampling
<1>3. CASE Accept
  <2>1. PICK d \in Documents : Accepts(d) /\ config' = Load(d)
    BY <1>3 DEF Accept
  <2>2. Sound(config')
    BY <2>1, AcceptedIsSound
  <2>3. phase = "off" /\ phase' = "loaded" /\ sensors' = sensors
    BY <1>3 DEF Accept, sampling
  <2>4. QED
    BY <2>2, <2>3 DEF MainInv, Built
<1>4. CASE ConstructFails
  <2>1. /\ phase = "loaded" /\ phase' = "failed"
        /\ config' = config /\ sensors' = sensors
        /\ ~CanConstruct(config)
    BY <1>4 DEF ConstructFails, sampling
  <2>2. Sound(config) /\ sensors = <<>>
    BY <2>1 DEF MainInv, Built
  <2>3. QED
    BY <2>1, <2>2 DEF MainInv, Built
<1>5. CASE Construct
  <2>1. /\ phase = "loaded" /\ phase' = "constructed"
        /\ config' = config /\ sensors' = EnabledSensors(config)
    BY <1>5 DEF Construct, Build
  <2>2. Sound(config)
    BY <2>1 DEF MainInv
  <2>3. QED
    BY <2>1, <2>2 DEF MainInv, Built
<1>6. CASE Announce \/ AnnounceFails \/ StartLoops
  <2>1. /\ phase \in {"constructed", "announced"}
        /\ phase' \in {"announced", "aborted", "running"}
        /\ config' = config /\ sensors' = sensors
    BY <1>6 DEF Announce, AnnounceFails, StartLoops, sampling
  <2>2. Sound(config) /\ sensors = EnabledSensors(config)
    BY <2>1 DEF MainInv, Built
  <2>3. QED
    BY <2>1, <2>2 DEF MainInv, Built
<1>7. CASE Exit
  BY <1>7 DEF Exit, Build, MainInv, Built
<1>8. QED
  BY <1>1, <1>2, <1>3, <1>4, <1>5, <1>6, <1>7, AllSteps, CycleFrame
     DEF Handle, vars, sampling

LEMMA LoopStepKeeps ==
    ASSUME TypeOK, LoopInv, [Next]_vars
    PROVE  LoopInv'
<1>1. loop \in [Loop -> {"off", "due", "busy", "resting", "dead"}]
      /\ spun \subseteq Loop
  BY DEF TypeOK
<1>2. ASSUME loop["sampler"] # "off" \/ loop["publisher"] # "off"
             \/ commander.at # "idle"
      PROVE  phase = "running"
  BY <1>2 DEF LoopInv, Asleep, Loop
<1>3. ASSUME NEW l \in Loop, WaitAfter(l), UNCHANGED <<phase, config, commander>>,
             loop[l] # "off",
             sampler'.at # "idle" => l # "sampler" /\ sampler' = sampler
      PROVE  LoopInv'
  <2>1. phase = "running"
    BY <1>2, <1>3 DEF Loop
  <2>2. /\ loop'[l] = "dead" => config.interval[l] \in {"huge", "infinite"}
        /\ spun' \subseteq spun \cup {l}
        /\ l \in spun' \ spun => config.interval[l] = "nan"
        /\ \A k \in Loop \ {l} : loop'[k] = loop[k]
    BY <1>1, <1>3 DEF WaitAfter
  <2>3. QED
    BY <1>3, <2>1, <2>2 DEF LoopInv, Loop
<1>4. CASE UNCHANGED <<phase, config, loop, spun>>
           /\ (commander'.at # "idle" => phase = "running")
           /\ (sampler'.at = "idle" \/ sampler.at # "idle")
  BY <1>4 DEF LoopInv
<1>5. CASE Refuse \/ LoadRaises \/ Accept \/ ConstructFails \/ Announce
           \/ AnnounceFails
  <2>1. /\ phase \in {"off", "loaded", "constructed"} /\ phase' # "running"
        /\ UNCHANGED <<loop, spun, sampler, commander>>
    BY <1>5 DEF Refuse, LoadRaises, Accept, ConstructFails, Announce,
       AnnounceFails, sampling
  <2>2. QED
    BY <2>1 DEF LoopInv, Asleep, Loop
<1>6. CASE Construct \/ Exit
  <2>1. /\ loop' = Asleep /\ spun' = {}
        /\ sampler'.at = "idle" /\ commander'.at = "idle"
    BY <1>6 DEF Construct, Exit, Build, NoReading, NoCommand, LoopInv
  <2>2. QED
    BY <2>1 DEF LoopInv, Asleep
<1>7. CASE StartLoops
  <2>1. /\ phase' = "running" /\ loop' = [l \in Loop |-> "due"]
        /\ spun' = {} /\ sampler' = sampler /\ sampler.at = "idle"
    BY <1>7 DEF StartLoops, LoopInv, Asleep, Loop, sampling
  <2>2. QED
    BY <2>1 DEF LoopInv
<1>8. CASE Publish
  <2>1. /\ WaitAfter("publisher") /\ UNCHANGED <<phase, config, commander, sampler>>
        /\ loop["publisher"] # "off" /\ "publisher" \in Loop
        /\ "publisher" # "sampler"
    BY <1>8 DEF Publish, sampling, Loop
  <2>2. QED
    BY <1>3, <2>1
<1>9. ASSUME NEW l \in Loop, Wake(l)
      PROVE  LoopInv'
  <2>1. /\ loop[l] = "resting" /\ loop' = [loop EXCEPT ![l] = "due"]
        /\ UNCHANGED <<phase, config, spun, sampler, commander>>
    BY <1>9 DEF Wake, sampling
  <2>2. phase = "running"
    BY <1>2, <2>1 DEF Loop
  <2>3. QED
    BY <1>1, <2>1, <2>2 DEF LoopInv
<1>10. CASE Cycle
  <2>1. CASE SamplerBegins
    <3>1. /\ loop["sampler"] = "due" /\ loop' = [loop EXCEPT !["sampler"] = "busy"]
          /\ UNCHANGED <<phase, config, spun, commander>>
      BY <2>1 DEF SamplerBegins, BeginCycle
    <3>2. phase = "running"
      BY <1>2, <3>1
    <3>3. QED
      BY <1>1, <3>1, <3>2 DEF LoopInv, Loop
  <2>2. CASE SamplerEnds
    <3>1. /\ WaitAfter("sampler") /\ UNCHANGED <<phase, config, commander>>
          /\ sampler.at = "next" /\ sampler'.at = "idle"
      BY <2>2 DEF SamplerEnds, EndCycle, Queue, QueueFails, CycleDone, NoReading
    <3>2. loop["sampler"] # "off" /\ "sampler" \in Loop
      BY <3>1 DEF LoopInv, Loop
    <3>3. QED
      BY <1>3, <3>1, <3>2
  <2>3. CASE TakeReading /\ UNCHANGED startup
    <3>1. UNCHANGED <<phase, config, loop, spun, commander>> /\ sampler.at # "idle"
      BY <2>3 DEF TakeReading, Capture, ReadFirst, ReadSecond, ReadFails, Judge,
         startup
    <3>2. commander.at # "idle" => phase = "running"
      BY <1>2
    <3>3. commander'.at # "idle" => phase = "running"
      BY <3>1, <3>2
    <3>4. UNCHANGED <<phase, config, loop, spun>>
      BY <3>1
    <3>5. QED
      BY <1>4, <3>1, <3>3, <3>4, Zenon
  <2>4. QED
    BY <1>10, <2>1, <2>2, <2>3 DEF Cycle, TakeReading
<1>11. CASE Command \/ (Handle /\ UNCHANGED startup)
  <2>1. UNCHANGED <<phase, config, loop, spun, sampler>>
        /\ (commander.at # "idle" \/ phase = "running")
    BY <1>11 DEF Command, Execute, Handle, HandleFirst, HandleSecond,
       HandlerRaises, startup
  <2>2. QED
    BY <1>2, <1>4, <2>1
<1>12. CASE Connect \/ Disconnect \/ UNCHANGED vars
  BY <1>12 DEF Connect, Disconnect, vars, sampling, LoopInv
<1>13. QED
  BY <1>5, <1>6, <1>7, <1>8, <1>9, <1>10, <1>11, <1>12, AllSteps DEF Handle

LEMMA LinkStepKeeps ==
    ASSUME TypeOK, MainInv, LinkInv, [Next]_vars
    PROVE  LinkInv'
<1>1. CASE Connect \/ Disconnect \/ Publish
  <2>1. UNCHANGED <<phase, config>>
    BY <1>1 DEF Connect, Disconnect, Publish
  <2>2. /\ link' # "off" => link # "off"
        /\ link' = "lost" => link = "lost" \/ ~CanConnect(config)
        /\ link' = "jammed" => link = "jammed" \/ ~CanDrain(config)
    BY <1>1 DEF Connect, Disconnect, Publish, TypeOK
  <2>3. QED
    BY <2>1, <2>2 DEF LinkInv, CanConnect, CanDrain
<1>2. CASE Announce
  BY <1>2 DEF Announce, LinkInv
<1>3. CASE Exit
  BY <1>3 DEF Exit, LinkInv
<1>4. CASE Refuse \/ LoadRaises \/ Accept \/ Construct \/ ConstructFails
           \/ AnnounceFails \/ StartLoops
  <2>1. /\ link' = link
        /\ phase \in {"off", "loaded", "constructed"}
           \/ (phase' = "running" /\ config' = config)
    BY <1>4 DEF Refuse, LoadRaises, Accept, Construct, ConstructFails,
       AnnounceFails, StartLoops
  <2>2. QED
    BY <2>1 DEF LinkInv, CanConnect, CanDrain
<1>5. CASE UNCHANGED <<phase, config, link>>
  BY <1>5 DEF LinkInv, CanConnect, CanDrain
<1>6. QED
  BY <1>1, <1>2, <1>3, <1>4, <1>5
     DEF Next, MainStep, Sample, SamplerBegins, SamplerStep, SamplerEnds, Wake,
         Command, CommandStep, startup, vars

-----------------------------------------------------------------------------
(* The sampler and the commands: types.                                    *)

LEMMA Positions ==
    ASSUME TypeOK
    PROVE  /\ Len(sensors) \in Nat /\ Position = 1..Len(sensors)
           /\ \A i \in Position : sensors[i] \in SensorFile
                                  /\ sensors[i].sensor_id \in AnyId
           /\ sampler.readings \in Seq(ReadingType)
           /\ Len(sampler.readings) \in Nat /\ Current \in Nat \ {0}
           /\ Len(sampler.readings) <= Len(sensors)
           /\ state \in [Position -> [first : 0..MaxCommands,
                                      second : 0..MaxCommands]]
           /\ lock \in [Position -> {"free", "sampler", "commander"}]
           /\ MaxCommands \in Nat
<1>1. sensors \in Seq(SensorFile) /\ sampler.readings \in Seq(ReadingType)
      /\ Len(sampler.readings) <= Len(sensors)
  BY DEF TypeOK, SamplingTypeOK
<1>2. /\ Len(sensors) \in Nat /\ Position = 1..Len(sensors)
      /\ Len(sampler.readings) \in Nat
  BY <1>1, LenProperties DEF Position
<1>3. \A i \in Position : sensors[i] \in SensorFile
  BY <1>1, <1>2, ElementOfSeq
<1>4. \A s \in SensorFile : s.sensor_id \in AnyId
  BY DEF SensorFile
<1>5. QED
  BY <1>1, <1>2, <1>3, <1>4, MaxCommandsAssumption
     DEF TypeOK, SamplingTypeOK, Current

LEMMA RegistrationType ==
    ASSUME TypeOK
    PROVE  Registration \in Seq(AnyId)
<1>1. sensors \in Seq(SensorFile) /\ \A s \in SensorFile : s.sensor_id \in AnyId
  BY DEF TypeOK, SamplingTypeOK, SensorFile
<1>2. QED
  BY <1>1, IdsAreTyped DEF Registration, Position

\* A reading is added, and the cycle goes on to the next sensor.
LEMMA ReadingAdded ==
    ASSUME TypeOK, Current \in Position,
           NEW condition \in {"OK", "CRITICAL", "ERROR"},
           NEW metrics \in {<<>>} \cup ((0..MaxCommands) \X (0..MaxCommands)),
           sampler' = [sampler EXCEPT !.at = "next",
                         !.readings = Append(@, Reading(condition, metrics))]
    PROVE  /\ sampler'.at = "next"
           /\ sampler'.readings \in Seq(ReadingType)
           /\ Len(sampler'.readings) = Len(sampler.readings) + 1
           /\ sampler'.readings[Current] = Reading(condition, metrics)
           /\ \A i \in 1..Len(sampler.readings) :
                 sampler'.readings[i] = sampler.readings[i]
           /\ sampler' \in [at : {"idle", "next", "captured", "reading", "read"},
                            readings : Seq(ReadingType), stamp : 0..MaxCommands,
                            first : 0..MaxCommands, second : 0..MaxCommands]
<1>1. sampler \in [at : {"idle", "next", "captured", "reading", "read"},
                   readings : Seq(ReadingType), stamp : 0..MaxCommands,
                   first : 0..MaxCommands, second : 0..MaxCommands]
  BY DEF TypeOK, SamplingTypeOK
<1>2. Reading(condition, metrics) \in ReadingType
  BY <1>1, Positions DEF Reading, ReadingType
<1>3. sampler'.at = "next"
      /\ sampler'.readings = Append(sampler.readings, Reading(condition, metrics))
  BY <1>1
<1>4. /\ sampler'.readings \in Seq(ReadingType)
      /\ Len(sampler'.readings) = Len(sampler.readings) + 1
      /\ sampler'.readings[Len(sampler.readings) + 1] = Reading(condition, metrics)
      /\ \A i \in 1..Len(sampler.readings) :
            sampler'.readings[i] = sampler.readings[i]
  BY <1>2, <1>3, Positions, AppendProperties
<1>5. QED
  BY <1>1, <1>3, <1>4 DEF Current

\* Each way to end the reading of a sensor adds one.
LEMMA ReadingEnds ==
    ASSUME TypeOK, ReadFails \/ Judge
    PROVE  \E condition \in {"OK", "CRITICAL", "ERROR"},
              metrics \in {<<>>} \cup ((0..MaxCommands) \X (0..MaxCommands)) :
              /\ Current \in Position
              /\ sampler' = [sampler EXCEPT !.at = "next",
                               !.readings = Append(@, Reading(condition, metrics))]
              /\ metrics # <<>> => /\ metrics = <<sampler.first, sampler.second>>
                                   /\ sampler.at = "read"
<1>1. CASE ReadFails
  BY <1>1 DEF ReadFails, TypeOK, SamplingTypeOK
<1>2. CASE Judge
  <2>1. <<sampler.first, sampler.second>> \in (0..MaxCommands) \X (0..MaxCommands)
        /\ Current \in Position
    BY <1>2 DEF Judge, TypeOK, SamplingTypeOK
  <2>2. QED
    BY <1>2, <2>1 DEF Judge
<1>3. QED
  BY <1>1, <1>2

SamplerType ==
    [at : {"idle", "next", "captured", "reading", "read"},
     readings : Seq(ReadingType), stamp : 0..MaxCommands,
     first : 0..MaxCommands, second : 0..MaxCommands]

LEMMA NoReadingType == NoReading \in SamplerType /\ Len(NoReading.readings) = 0
<1>1. <<>> \in Seq(ReadingType) /\ Len(<<>>) = 0
  BY EmptySeq
<1>2. 0 \in 0..MaxCommands
  BY MaxCommandsAssumption
<1>3. QED
  BY <1>1, <1>2 DEF NoReading, SamplerType

LEMMA BuiltTypes ==
    ASSUME TypeOK, NEW list \in Seq(SensorFile), Build(list), batch' = batch
    PROVE  SamplingTypeOK'
<1>1. /\ sensors' = list /\ DOMAIN list = 1..Len(list) /\ Len(list) \in Nat
      /\ sampler' = NoReading /\ commander' = [at |-> "idle", on |-> 0]
      /\ state' = [i \in DOMAIN list |-> [first |-> 0, second |-> 0]]
      /\ lock' = [i \in DOMAIN list |-> "free"]
  BY LenProperties DEF Build, NoCommand
<1>2. sampler' \in SamplerType /\ Len(sampler'.readings) <= Len(sensors')
      /\ sampler'.at = "idle"
  BY <1>1, NoReadingType DEF NoReading
<1>3. /\ state' \in [Position' -> [first : 0..MaxCommands, second : 0..MaxCommands]]
      /\ lock' \in [Position' -> {"free", "sampler", "commander"}]
  BY <1>1, MaxCommandsAssumption DEF Position
<1>4. commander' \in [at : {"idle", "waiting", "handling"}, on : Nat]
      /\ commander'.at = "idle"
  BY <1>1
<1>5. batch' \in Seq(AnyId)
  BY DEF TypeOK, SamplingTypeOK
<1>6. QED
  BY <1>1, <1>2, <1>3, <1>4, <1>5 DEF SamplingTypeOK, SamplerType

\* A step of the cycle, as far as types are concerned.
LEMMA CycleTypes ==
    ASSUME TypeOK, BeginCycle \/ TakeReading \/ EndCycle
    PROVE  SamplingTypeOK'
<1>1. /\ SamplingTypeOK /\ sampler \in SamplerType
      /\ sensors' = sensors /\ state' = state /\ commander' = commander
      /\ Position' = Position
  BY DEF TypeOK, SamplingTypeOK, SamplerType, BeginCycle, TakeReading, EndCycle,
     Capture, ReadFirst, ReadSecond, ReadFails, Judge, Queue, QueueFails, Position
<1> DEFINE Typed == /\ sampler' \in SamplerType
                    /\ Len(sampler'.readings) <= Len(sensors)
                    /\ sampler'.at \in {"captured", "reading", "read"} =>
                          Len(sampler'.readings) + 1 \in Position
                    /\ lock' \in [Position -> {"free", "sampler", "commander"}]
                    /\ batch' \in Seq(AnyId)
<1>2. SUFFICES Typed
  BY <1>1 DEF SamplingTypeOK, SamplerType, Current
<1>3. /\ lock \in [Position -> {"free", "sampler", "commander"}]
      /\ batch \in Seq(AnyId) /\ Len(sampler.readings) <= Len(sensors)
      /\ sampler.readings \in Seq(ReadingType)
      /\ state \in [Position -> [first : 0..MaxCommands, second : 0..MaxCommands]]
      /\ sampler.at \in {"captured", "reading", "read"} => Current \in Position
      /\ Len(sampler.readings) \in Nat /\ Len(sensors) \in Nat
      /\ Position = 1..Len(sensors)
  BY Positions DEF TypeOK, SamplingTypeOK
<1>4. CASE BeginCycle
  <2>1. sampler' = [NoReading EXCEPT !.at = "next"]
        /\ UNCHANGED <<lock, batch>>
    BY <1>4 DEF BeginCycle
  <2>2. sampler' \in SamplerType /\ sampler'.readings = NoReading.readings
        /\ sampler'.at = "next"
    BY <2>1, NoReadingType DEF SamplerType
  <2>3. QED
    BY <1>3, <2>1, <2>2, NoReadingType
<1>5. CASE Capture
  <2>1. /\ Current \in Position
        /\ sampler' = [sampler EXCEPT !.at = "captured",
                                      !.stamp = state[Current].second]
        /\ UNCHANGED <<lock, batch>>
    BY <1>5 DEF Capture
  <2>2. state[Current].second \in 0..MaxCommands
    BY <1>3, <2>1
  <2>3. sampler' \in SamplerType /\ sampler'.readings = sampler.readings
    BY <1>1, <2>1, <2>2 DEF SamplerType
  <2>4. QED
    BY <1>3, <2>1, <2>3 DEF Current
<1>6. CASE ReadFirst \/ ReadSecond
  <2>1. /\ Current \in Position
        /\ \E at \in {"reading", "read"}, n \in 0..MaxCommands :
              \/ sampler' = [sampler EXCEPT !.at = at, !.first = n]
              \/ sampler' = [sampler EXCEPT !.at = at, !.second = n]
        /\ \E holder \in {"free", "sampler"} :
              lock' = [lock EXCEPT ![Current] = holder]
        /\ batch' = batch
    BY <1>3, <1>6 DEF ReadFirst, ReadSecond
  <2>2. sampler' \in SamplerType /\ sampler'.readings = sampler.readings
    BY <1>1, <2>1 DEF SamplerType
  <2>3. lock' \in [Position -> {"free", "sampler", "commander"}]
    BY <1>3, <2>1
  <2>4. QED
    BY <1>3, <2>1, <2>2, <2>3 DEF Current
<1>7. CASE ReadFails \/ Judge
  <2>1. /\ sampler' \in SamplerType /\ Current \in Position
        /\ sampler'.at = "next"
        /\ Len(sampler'.readings) = Len(sampler.readings) + 1
    BY <1>7, ReadingEnds, ReadingAdded DEF SamplerType
  <2>2. lock' \in [Position -> {"free", "sampler", "commander"}] /\ batch' = batch
    BY <1>3, <1>7 DEF ReadFails, Judge
  <2>3. QED
    BY <1>3, <2>1, <2>2 DEF Current
<1>8. CASE EndCycle
  <2>1. sampler' = NoReading /\ lock' = lock
        /\ (batch' = batch \/ batch' = TelemetryBatch(sampler.readings))
    BY <1>8 DEF EndCycle, Queue, QueueFails
  <2>2. TelemetryBatch(sampler.readings) \in Seq(AnyId)
    <3>1. \A r \in ReadingType : r.sensor_id \in AnyId
      BY DEF ReadingType
    <3>2. QED
      BY <1>3, <3>1, IdsAreTyped DEF TelemetryBatch
  <2>3. sampler' \in SamplerType /\ Len(sampler'.readings) = 0
        /\ sampler'.at = "idle"
    BY <2>1, NoReadingType DEF NoReading
  <2>4. QED
    BY <1>3, <2>1, <2>2, <2>3
<1>9. QED
  BY <1>4, <1>5, <1>6, <1>7, <1>8 DEF TakeReading

LEMMA CommandTypes ==
    ASSUME TypeOK, LockInv, Execute \/ Handle
    PROVE  SamplingTypeOK'
<1>1. /\ SamplingTypeOK
      /\ UNCHANGED <<sensors, sampler, batch>>
      /\ Position' = Position /\ Current' = Current
  BY DEF TypeOK, Execute, Handle, HandleFirst, HandleSecond, HandlerRaises,
     Position, Current
<1>2. /\ state \in [Position -> [first : 0..MaxCommands, second : 0..MaxCommands]]
      /\ lock \in [Position -> {"free", "sampler", "commander"}]
      /\ Position = 1..Len(sensors) /\ Len(sensors) \in Nat
      /\ commander.at # "idle" => commander.on \in Position
      /\ commander \in [at : {"idle", "waiting", "handling"}, on : Nat]
      /\ MaxCommands \in Nat
  BY Positions DEF TypeOK, SamplingTypeOK
<1>3. /\ state' \in [Position -> [first : 0..MaxCommands, second : 0..MaxCommands]]
      /\ lock' \in [Position -> {"free", "sampler", "commander"}]
  <2>1. CASE HandleFirst
    <3>1. commander.on \in Position /\ state[commander.on].first + 1 \in 0..MaxCommands
      BY <1>2, <2>1 DEF HandleFirst, LockInv
    <3>2. QED
      BY <1>2, <2>1, <3>1 DEF HandleFirst
  <2>2. CASE HandleSecond
    BY <1>2, <2>2 DEF HandleSecond
  <2>3. CASE Execute \/ HandlerRaises
    BY <1>2, <2>3 DEF Execute, HandlerRaises
  <2>4. QED
    BY <2>1, <2>2, <2>3 DEF Handle
<1>4. /\ commander' \in [at : {"idle", "waiting", "handling"}, on : Nat]
      /\ commander'.at # "idle" => commander'.on \in Position
  BY <1>2 DEF Execute, Handle, HandleFirst, HandleSecond, HandlerRaises, NoCommand
<1>5. QED
  BY <1>1, <1>3, <1>4 DEF SamplingTypeOK

LEMMA NoConfigType == NoConfig \in ConfigType
  BY EmptySeq DEF NoConfig, ConfigType, Numbers, Strings

LEMMA TypesStep ==
    ASSUME StartupInv, [Next]_vars
    PROVE  TypeOK'
<1>1. TypeOK /\ LockInv /\ MainInv
  BY DEF StartupInv
<1>2. SamplingTypeOK'
  <2>1. CASE UNCHANGED sampling
    BY <1>1, <2>1 DEF TypeOK, SamplingTypeOK, sampling, Position, Current
  <2>2. CASE Construct
    <3>1. Build(EnabledSensors(config)) /\ Sound(config) /\ batch' = batch
      BY <1>1, <2>2 DEF Construct, MainInv
    <3>2. QED
      BY <1>1, <3>1, EnabledIsSound, BuiltTypes
  <2>3. CASE Exit
    <3>1. Build(<<>>) /\ batch' = batch /\ <<>> \in Seq(SensorFile)
      BY <2>3, EmptySeq DEF Exit
    <3>2. QED
      BY <1>1, <3>1, BuiltTypes
  <2>4. CASE Announce \/ AnnounceFails
    <3>1. UNCHANGED <<sensors, state, lock, sampler, commander>>
          /\ (batch' = batch \/ batch' = <<>>) /\ <<>> \in Seq(AnyId)
      BY <2>4, EmptySeq DEF Announce, AnnounceFails
    <3>2. QED
      BY <1>1, <3>1 DEF TypeOK, SamplingTypeOK, Position, Current
  <2>5. CASE Sample
    BY <1>1, <2>5, CycleTypes
       DEF Sample, SamplerBegins, SamplerStep, SamplerEnds
  <2>6. CASE Command \/ CommandStep
    BY <1>1, <2>6, CommandTypes DEF Command, CommandStep
  <2>7. QED
    BY <2>1, <2>2, <2>3, <2>4, <2>5, <2>6
       DEF Next, MainStep, Refuse, LoadRaises, Accept, ConstructFails,
           StartLoops, Connect, Disconnect, Publish, Wake, vars
<1>3. phase' \in Phase /\ declared' \in Seq(AnyId)
  <2>1. phase \in Phase /\ declared \in Seq(AnyId)
    BY <1>1 DEF TypeOK
  <2>2. phase' \in Phase
    BY <2>1, AllSteps, CycleFrame
       DEF Phase, Refuse, LoadRaises, Accept, ConstructFails, StartLoops,
           Announce, AnnounceFails, Construct, Exit, Handle, vars
  <2>3. declared' \in {declared, Registration}
    BY AllSteps, CycleFrame
       DEF Refuse, LoadRaises, Accept, ConstructFails, StartLoops, Announce,
           AnnounceFails, Construct, Exit, Handle, vars
  <2>4. QED
    BY <1>1, <2>1, <2>2, <2>3, RegistrationType
<1>4. config' \in ConfigType
  <2>1. MainInv'
    BY <1>1, MainStepKeeps
  <2>2. QED
    BY <2>1, NoConfigType DEF MainInv, Sound
<1>5. /\ loop' \in [Loop -> {"off", "due", "busy", "resting", "dead"}]
      /\ spun' \subseteq Loop
  <2>1. /\ loop \in [Loop -> {"off", "due", "busy", "resting", "dead"}]
        /\ spun \subseteq Loop
    BY <1>1 DEF TypeOK
  <2>2. ASSUME NEW l \in Loop, WaitAfter(l)
        PROVE  /\ loop' \in [Loop -> {"off", "due", "busy", "resting", "dead"}]
               /\ spun' \subseteq Loop
    BY <2>1, <2>2 DEF WaitAfter
  <2>3. CASE Publish \/ SamplerEnds
    BY <2>2, <2>3 DEF Publish, SamplerEnds, Loop
  <2>4. CASE SamplerBegins \/ (\E l \in Loop : Wake(l))
    BY <2>1, <2>4 DEF SamplerBegins, Wake
  <2>5. CASE Exit \/ StartLoops
    BY <2>1, <2>5 DEF Exit, StartLoops, Asleep
  <2>6. CASE UNCHANGED <<loop, spun>>
    BY <2>1, <2>6
  <2>7. QED
    BY <2>3, <2>4, <2>5, <2>6
       DEF Next, MainStep, Refuse, LoadRaises, Accept, Construct, ConstructFails,
           Announce, AnnounceFails, Sample, SamplerStep, Command, CommandStep,
           Connect, Disconnect, startup, vars
<1>6. link' \in {"off", "trying", "up", "lost", "jammed"}
  <2>1. link \in {"off", "trying", "up", "lost", "jammed"}
    BY <1>1 DEF TypeOK
  <2>2. QED
    BY <2>1 DEF Next, MainStep, Refuse, LoadRaises, Accept, Construct,
       ConstructFails, Announce, AnnounceFails, StartLoops, Exit, Publish, Sample,
       SamplerBegins, SamplerStep, SamplerEnds, Wake, Command, CommandStep,
       Connect, Disconnect, startup, vars
<1>7. QED
  BY <1>2, <1>3, <1>4, <1>5, <1>6 DEF TypeOK

-----------------------------------------------------------------------------
(* What a batch says.                                                      *)

\* A complete cycle has one reading for each sensor of the registration.
LEMMA CompleteBatch ==
    ASSUME TypeOK, BatchInv, CycleDone
    PROVE  TelemetryBatch(sampler.readings) = Registration
<1>1. /\ Len(sampler.readings) = Len(sensors)
      /\ DOMAIN sampler.readings = 1..Len(sensors) /\ DOMAIN sensors = 1..Len(sensors)
  <2>1. Len(sampler.readings) + 1 \notin 1..Len(sensors)
    BY Positions DEF CycleDone, Current
  <2>2. Len(sampler.readings) = Len(sensors)
    BY <2>1, Positions
  <2>3. QED
    BY <2>2, Positions, LenProperties DEF Position
<1>2. QED
  BY <1>1 DEF TelemetryBatch, Registration, BatchInv, Position

LEMMA BatchStep ==
    ASSUME TypeOK, MainInv, LoopInv, BatchInv, [Next]_vars
    PROVE  BatchInv'
<1>1. CASE UNCHANGED <<declared, batch, sensors, sampler>>
           /\ (phase' = phase \/ phase' \notin {"announced", "running"}
               \/ phase = "announced")
  BY <1>1 DEF BatchInv, BatchMatchesDeclaration, Registration, Position
<1>2. CASE Announce \/ AnnounceFails
  <2>1. /\ UNCHANGED <<sensors, sampler>>
        /\ \/ declared' = Registration /\ batch' = <<>>
           \/ declared' = declared /\ batch' = batch /\ phase' = "aborted"
    BY <1>2 DEF Announce, AnnounceFails
  <2>2. Registration' = Registration
    BY <2>1 DEF Registration, Position
  <2>3. CASE declared' = Registration /\ batch' = <<>>
    BY <2>1, <2>2, <2>3 DEF BatchInv, BatchMatchesDeclaration
  <2>4. CASE declared' = declared /\ batch' = batch /\ phase' = "aborted"
    BY <2>1, <2>4 DEF BatchInv, BatchMatchesDeclaration
  <2>5. QED
    BY <2>1, <2>3, <2>4
<1>3. CASE Construct \/ Exit
  <2>1. /\ phase' \in {"constructed", "off"} /\ sampler' = NoReading
        /\ declared' = declared /\ batch' = batch
    BY <1>3 DEF Construct, Exit, Build
  <2>2. Len(sampler'.readings) = 0
    BY <2>1, NoReadingType
  <2>3. QED
    BY <2>1, <2>2 DEF BatchInv, BatchMatchesDeclaration
<1>4. CASE Cycle
  <2>1. UNCHANGED <<phase, declared, sensors>> /\ Registration' = Registration
    BY <1>4, CycleFrame DEF Registration, Position
  <2>2. CASE SamplerBegins
    <3>1. sampler'.readings = NoReading.readings /\ batch' = batch
      BY <2>2 DEF SamplerBegins, BeginCycle, NoReading
    <3>2. QED
      BY <2>1, <3>1, NoReadingType DEF BatchInv, BatchMatchesDeclaration
  <2>3. CASE Capture \/ ReadFirst \/ ReadSecond
    <3>1. sampler'.readings = sampler.readings /\ batch' = batch
      BY <2>3 DEF Capture, ReadFirst, ReadSecond, TypeOK, SamplingTypeOK
    <3>2. QED
      BY <2>1, <3>1 DEF BatchInv, BatchMatchesDeclaration
  <2>4. CASE ReadFails \/ Judge
    <3>1. PICK condition \in {"OK", "CRITICAL", "ERROR"},
               metrics \in {<<>>} \cup ((0..MaxCommands) \X (0..MaxCommands)) :
             /\ Current \in Position
             /\ sampler' = [sampler EXCEPT !.at = "next",
                              !.readings = Append(@, Reading(condition, metrics))]
      BY <2>4, ReadingEnds
    <3>2. /\ Len(sampler'.readings) = Len(sampler.readings) + 1
          /\ sampler'.readings[Len(sampler.readings) + 1].sensor_id
                = sensors[Len(sampler.readings) + 1].sensor_id
          /\ \A i \in 1..Len(sampler.readings) :
                sampler'.readings[i] = sampler.readings[i]
      <4>1. /\ Len(sampler'.readings) = Len(sampler.readings) + 1
            /\ sampler'.readings[Current] = Reading(condition, metrics)
            /\ \A i \in 1..Len(sampler.readings) :
                  sampler'.readings[i] = sampler.readings[i]
        BY <3>1, ReadingAdded
      <4>2. Reading(condition, metrics).sensor_id = sensors[Current].sensor_id
        BY DEF Reading
      <4>3. QED
        BY <4>1, <4>2 DEF Current
    <3>3. \A i \in 1..Len(sampler'.readings) :
             i \in 1..Len(sampler.readings) \/ i = Len(sampler.readings) + 1
      BY <3>2, Positions
    <3>4. batch' = batch
      BY <2>4 DEF ReadFails, Judge
    <3>5. QED
      BY <2>1, <3>2, <3>3, <3>4 DEF BatchInv, BatchMatchesDeclaration
  <2>5. CASE SamplerEnds
    <3>1. /\ CycleDone /\ sampler' = NoReading
          /\ (batch' = batch \/ batch' = TelemetryBatch(sampler.readings))
      BY <2>5 DEF SamplerEnds, EndCycle, Queue, QueueFails
    <3>2. phase = "running"
      BY <3>1 DEF CycleDone, LoopInv, Asleep, Loop
    <3>3. TelemetryBatch(sampler.readings) = declared
      BY <3>1, <3>2, CompleteBatch DEF BatchInv
    <3>4. \A i, j \in DOMAIN declared : i # j => declared[i] # declared[j]
      <4>1. Sound(config) /\ sensors = EnabledSensors(config)
        BY <3>2 DEF MainInv, Built
      <4>2. Unique(sensors) /\ declared = Registration
        BY <3>2, <4>1, EnabledIsSound DEF BatchInv
      <4>3. QED
        BY <4>2 DEF Unique, Registration, Position
    <3>5. QED
      BY <2>1, <3>1, <3>3, <3>4, NoReadingType DEF BatchInv, BatchMatchesDeclaration
  <2>6. QED
    BY <1>4, <2>2, <2>3, <2>4, <2>5 DEF Cycle
<1>5. CASE Command \/ (Handle /\ UNCHANGED startup)
           \/ Publish \/ (\E l \in Loop : Wake(l)) \/ Connect \/ Disconnect
  BY <1>1, <1>5 DEF Command, Execute, Handle, HandleFirst, HandleSecond,
     HandlerRaises, Publish, Wake, Connect, Disconnect, startup, sampling
<1>6. CASE Refuse \/ LoadRaises \/ Accept \/ ConstructFails \/ StartLoops
           \/ UNCHANGED vars
  BY <1>1, <1>6 DEF Refuse, LoadRaises, Accept, ConstructFails, StartLoops,
     sampling, vars
<1>7. QED
  BY <1>2, <1>3, <1>4, <1>5, <1>6, AllSteps DEF Handle

-----------------------------------------------------------------------------
(* Readings and commands.                                                  *)

\* Where nothing of the sensors, the sampler or the commands changes.
LEMMA LocksFramed ==
    ASSUME LockInv, ReadingInv, UNCHANGED <<sensors, state, lock, sampler, commander>>
    PROVE  LockInv' /\ ReadingInv'
  BY DEF LockInv, ReadingInv, ReadingsAreAtomic, Position, Current

LEMMA LocksBuilt ==
    ASSUME NEW list \in Seq(SensorFile), Build(list)
    PROVE  LockInv' /\ ReadingInv'
<1>1. /\ sensors' = list /\ sampler' = NoReading /\ commander' = NoCommand
      /\ state' = [i \in DOMAIN list |-> [first |-> 0, second |-> 0]]
      /\ lock' = [i \in DOMAIN list |-> "free"]
  BY DEF Build
<1>2. LockInv'
  BY <1>1 DEF LockInv, Position, NoReading, NoCommand
<1>3. DOMAIN sampler'.readings = {}
  BY <1>1 DEF NoReading
<1>4. ReadingInv'
  BY <1>1, <1>3 DEF ReadingInv, ReadingsAreAtomic, NoReading
<1>5. QED
  BY <1>2, <1>4

LEMMA CommandLocks ==
    ASSUME TypeOK, LockInv, ReadingInv, Execute \/ Handle
    PROVE  LockInv' /\ ReadingInv'
<1>1. /\ UNCHANGED <<sensors, sampler>> /\ Position' = Position
      /\ Current' = Current
      /\ sampler.at \in {"captured", "reading", "read"} => Current \in Position
      /\ commander.at # "idle" => commander.on \in Position
      /\ commander \in [at : {"idle", "waiting", "handling"}, on : Nat]
      /\ sampler.stamp \in Nat
      /\ ReadingsAreAtomic'
  BY DEF Execute, Handle, HandleFirst, HandleSecond, HandlerRaises, Position,
     Current, TypeOK, SamplingTypeOK, ReadingInv, ReadingsAreAtomic
<1>2. /\ state \in [Position -> [first : 0..MaxCommands, second : 0..MaxCommands]]
      /\ lock \in [Position -> {"free", "sampler", "commander"}]
      /\ MaxCommands \in Nat
  BY Positions
<1>3. CASE Execute
  <2>1. /\ UNCHANGED <<state, lock>> /\ commander.at = "idle"
        /\ commander'.at = "waiting" /\ commander'.on \in Position
        /\ state[commander'.on].first < MaxCommands
    BY <1>3 DEF Execute
  <2>2. LockInv'
    BY <1>1, <2>1 DEF LockInv
  <2>3. QED
    BY <1>1, <2>1, <2>2 DEF ReadingInv
<1>4. CASE HandlerRaises
  <2>1. UNCHANGED <<state, lock>> /\ commander'.at = "idle" /\ commander.at = "waiting"
    BY <1>4 DEF HandlerRaises, NoCommand
  <2>2. LockInv'
    BY <1>1, <2>1 DEF LockInv
  <2>3. QED
    BY <1>1, <2>1, <2>2 DEF ReadingInv
<1>5. CASE HandleFirst
  <2> DEFINE o == commander.on
  <2>1. /\ o \in Position /\ commander.at = "waiting" /\ lock[o] = "free"
        /\ lock' = [lock EXCEPT ![o] = "commander"]
        /\ state' = [state EXCEPT ![o].first = @ + 1]
        /\ commander'.at = "handling" /\ commander'.on = o
    BY <1>1, <1>5 DEF HandleFirst
  <2>2. /\ state'[o].first = state[o].first + 1 /\ state'[o].second = state[o].second
        /\ lock'[o] = "commander"
        /\ \A i \in Position \ {o} : state'[i] = state[i] /\ lock'[i] = lock[i]
        /\ state[o].first \in Nat /\ state[o].second \in Nat
    BY <1>2, <2>1
  <2>3. LockInv'
    <3>1. SUFFICES ASSUME NEW i \in Position
             PROVE /\ lock'[i] = "sampler" <=> sampler.at = "reading" /\ i = Current
                   /\ lock'[i] = "commander" <=> i = o
                   /\ state'[i].second <= state'[i].first
                   /\ lock'[i] # "commander" => state'[i].first = state'[i].second
      BY <1>1, <2>1 DEF LockInv
    <3>2. CASE i = o
      BY <2>1, <2>2, <3>2 DEF LockInv
    <3>3. CASE i # o
      BY <2>1, <2>2, <3>3 DEF LockInv
    <3>4. QED
      BY <3>2, <3>3
  <2>4. ReadingInv'
    <3>1. \A i \in Position : state'[i].second = state[i].second
      BY <2>2
    <3>2. QED
      BY <1>1, <3>1 DEF ReadingInv
  <2>5. QED
    BY <2>3, <2>4
<1>6. CASE HandleSecond
  <2> DEFINE o == commander.on
  <2>1. /\ o \in Position /\ commander.at = "handling"
        /\ lock' = [lock EXCEPT ![o] = "free"]
        /\ state' = [state EXCEPT ![o].second = state[o].first]
        /\ commander'.at = "idle"
    BY <1>1, <1>6 DEF HandleSecond, NoCommand
  <2>2. /\ state'[o].first = state[o].first /\ state'[o].second = state[o].first
        /\ lock'[o] = "free"
        /\ \A i \in Position \ {o} : state'[i] = state[i] /\ lock'[i] = lock[i]
        /\ state[o].first \in Nat /\ state[o].second \in Nat
        /\ state[o].second <= state[o].first
        /\ lock[o] = "commander" /\ (sampler.at = "reading" => Current # o)
    BY <1>2, <2>1 DEF LockInv
  <2>3. LockInv'
    <3>1. SUFFICES ASSUME NEW i \in Position
             PROVE /\ lock'[i] = "sampler" <=> sampler.at = "reading" /\ i = Current
                   /\ lock'[i] # "commander"
                   /\ state'[i].second <= state'[i].first
                   /\ state'[i].first = state'[i].second
      BY <1>1, <2>1 DEF LockInv
    <3>2. CASE i = o
      BY <2>1, <2>2, <3>2 DEF LockInv
    <3>3. CASE i # o
      <4>1. lock[i] # "commander"
        BY <2>1, <3>3 DEF LockInv
      <4>2. QED
        BY <2>1, <2>2, <3>3, <4>1 DEF LockInv
    <3>4. QED
      BY <3>2, <3>3
  <2>4. ReadingInv'
    <3>1. \A i \in Position : /\ state'[i].second >= state[i].second
                              /\ i # o => state'[i].second = state[i].second
                              /\ state[i].second \in Nat /\ state'[i].second \in Nat
      BY <1>2, <2>2
    <3>2. QED
      BY <1>1, <2>2, <3>1 DEF ReadingInv
  <2>5. QED
    BY <2>3, <2>4
<1>7. QED
  BY <1>3, <1>4, <1>5, <1>6 DEF Handle

LEMMA CycleLocks ==
    ASSUME TypeOK, LockInv, ReadingInv, BeginCycle \/ TakeReading \/ EndCycle
    PROVE  LockInv' /\ ReadingInv'
<1>1. /\ UNCHANGED <<sensors, state, commander>> /\ Position' = Position
      /\ sampler.at \in {"captured", "reading", "read"} => Current \in Position
      /\ sampler \in SamplerType
  BY DEF BeginCycle, TakeReading, EndCycle, Capture, ReadFirst, ReadSecond,
     ReadFails, Judge, Queue, QueueFails, Position, TypeOK, SamplingTypeOK,
     SamplerType
<1>2. /\ state \in [Position -> [first : 0..MaxCommands, second : 0..MaxCommands]]
      /\ lock \in [Position -> {"free", "sampler", "commander"}]
      /\ MaxCommands \in Nat
      /\ DOMAIN sampler.readings = 1..Len(sampler.readings)
      /\ Len(sampler.readings) \in Nat
  BY Positions, LenProperties
<1>3. CASE BeginCycle \/ EndCycle
  <2>1. /\ sampler.at # "reading" /\ sampler'.at \in {"idle", "next"}
        /\ sampler'.readings = <<>> /\ lock' = lock
    BY <1>3 DEF BeginCycle, EndCycle, Queue, QueueFails, CycleDone, NoReading
  <2>2. LockInv'
    BY <1>1, <2>1 DEF LockInv
  <2>3. ReadingInv'
    BY <2>1 DEF ReadingInv, ReadingsAreAtomic
  <2>4. QED
    BY <2>2, <2>3
<1>4. CASE Capture \/ ReadFirst \/ ReadSecond
  <2>1. sampler'.readings = sampler.readings /\ Current' = Current
    BY <1>1, <1>4 DEF Capture, ReadFirst, ReadSecond, SamplerType, Current
  <2>2. ReadingsAreAtomic'
    BY <2>1 DEF ReadingInv, ReadingsAreAtomic
  <2>3. CASE Capture
    <3>1. /\ sampler.at = "next" /\ sampler'.at = "captured" /\ lock' = lock
          /\ sampler'.stamp = state[Current].second
          /\ Current \in Position /\ state[Current].second \in Nat
      BY <1>1, <1>2, <2>3 DEF Capture, SamplerType
    <3>2. LockInv'
      BY <1>1, <3>1 DEF LockInv
    <3>3. ReadingInv'
      BY <1>1, <2>1, <2>2, <3>1 DEF ReadingInv
    <3>4. QED
      BY <3>2, <3>3
  <2>4. CASE ReadFirst
    <3>1. /\ sampler.at = "captured" /\ sampler'.at = "reading"
          /\ Current \in Position /\ lock[Current] # "commander"
          /\ lock' = [lock EXCEPT ![Current] = "sampler"]
          /\ sampler'.first = state[Current].first
          /\ sampler'.stamp = sampler.stamp
      BY <1>1, <1>2, <2>4 DEF ReadFirst, SamplerType
    <3>2. state[Current].first = state[Current].second
      BY <3>1 DEF LockInv
    <3>3. /\ lock'[Current] = "sampler"
          /\ \A i \in Position \ {Current} : lock'[i] = lock[i]
      BY <1>2, <3>1
    <3>4. LockInv'
      <4>1. SUFFICES ASSUME NEW i \in Position
               PROVE /\ lock'[i] = "sampler" <=> i = Current
                     /\ lock'[i] = "commander"
                           <=> commander.at = "handling" /\ i = commander.on
                     /\ state[i].second <= state[i].first
                     /\ lock'[i] # "commander" => state[i].first = state[i].second
        BY <1>1, <2>1, <3>1 DEF LockInv
      <4>2. CASE i = Current
        BY <3>1, <3>2, <3>3, <4>2 DEF LockInv
      <4>3. CASE i # Current
        BY <3>1, <3>3, <4>3 DEF LockInv
      <4>4. QED
        BY <4>2, <4>3
    <3>5. ReadingInv'
      BY <1>1, <2>1, <2>2, <3>1, <3>2 DEF ReadingInv
    <3>6. QED
      BY <3>4, <3>5
  <2>5. CASE ReadSecond
    <3>1. /\ sampler.at = "reading" /\ sampler'.at = "read"
          /\ Current \in Position
          /\ lock' = [lock EXCEPT ![Current] = "free"]
          /\ sampler'.second = state[Current].second
          /\ sampler'.first = sampler.first /\ sampler'.stamp = sampler.stamp
      BY <1>1, <1>2, <2>5 DEF ReadSecond, SamplerType
    <3>2. /\ lock'[Current] = "free" /\ lock[Current] = "sampler"
          /\ \A i \in Position \ {Current} : lock'[i] = lock[i]
      BY <1>2, <3>1 DEF LockInv
    <3>3. LockInv'
      BY <1>1, <3>1, <3>2 DEF LockInv
    <3>4. ReadingInv'
      BY <2>2, <3>1 DEF ReadingInv
    <3>5. QED
      BY <3>3, <3>4
  <2>6. QED
    BY <1>4, <2>3, <2>4, <2>5
<1>5. CASE ReadFails \/ Judge
  <2>1. PICK condition \in {"OK", "CRITICAL", "ERROR"},
             metrics \in {<<>>} \cup ((0..MaxCommands) \X (0..MaxCommands)) :
           /\ Current \in Position
           /\ sampler' = [sampler EXCEPT !.at = "next",
                            !.readings = Append(@, Reading(condition, metrics))]
           /\ metrics # <<>> => /\ metrics = <<sampler.first, sampler.second>>
                                /\ sampler.at = "read"
    BY <1>5, ReadingEnds
  <2>2. /\ sampler'.at = "next"
        /\ Len(sampler'.readings) = Len(sampler.readings) + 1
        /\ sampler'.readings \in Seq(ReadingType)
        /\ sampler'.readings[Current] = Reading(condition, metrics)
        /\ \A i \in 1..Len(sampler.readings) :
              sampler'.readings[i] = sampler.readings[i]
    BY <2>1, ReadingAdded
  <2>3. LockInv'
    <3>1. CASE Judge
      <4>1. sampler.at = "read" /\ lock' = lock
        BY <3>1 DEF Judge
      <4>2. QED
        BY <1>1, <2>2, <4>1 DEF LockInv
    <3>2. CASE ReadFails
      <4>1. sampler.at = "reading" /\ lock' = [lock EXCEPT ![Current] = "free"]
        BY <3>2 DEF ReadFails
      <4>2. /\ lock'[Current] = "free" /\ lock[Current] = "sampler"
            /\ \A i \in Position \ {Current} : lock'[i] = lock[i]
        BY <1>2, <2>1, <4>1 DEF LockInv
      <4>3. QED
        BY <1>1, <2>2, <4>1, <4>2 DEF LockInv
    <3>3. QED
      BY <1>5, <3>1, <3>2
  <2>4. ReadingsAreAtomic'
    <3>1. SUFFICES ASSUME NEW i \in 1..Len(sampler'.readings),
                          sampler'.readings[i].metrics # <<>>
             PROVE /\ sampler'.readings[i].metrics[1] = sampler'.readings[i].metrics[2]
                   /\ sampler'.readings[i].stamp <= sampler'.readings[i].metrics[1]
      BY <2>2, LenProperties DEF ReadingsAreAtomic
    <3>2. CASE i \in 1..Len(sampler.readings)
      BY <1>2, <2>2, <3>1, <3>2 DEF ReadingInv, ReadingsAreAtomic
    <3>3. CASE i = Current
      <4>1. sampler'.readings[i].metrics = metrics
            /\ sampler'.readings[i].stamp = sampler.stamp
        BY <2>2, <3>3 DEF Reading
      <4>2. metrics = <<sampler.first, sampler.second>> /\ sampler.at = "read"
        BY <2>1, <3>1, <4>1
      <4>3. QED
        BY <4>1, <4>2 DEF ReadingInv
    <3>4. QED
      BY <1>2, <2>2, <3>2, <3>3 DEF Current
  <2>5. QED
    BY <2>2, <2>3, <2>4 DEF ReadingInv
<1>6. QED
  BY <1>3, <1>4, <1>5 DEF TakeReading

LEMMA LocksStep ==
    ASSUME StartupInv, [Next]_vars
    PROVE  LockInv' /\ ReadingInv'
<1>1. TypeOK /\ MainInv /\ LockInv /\ ReadingInv
  BY DEF StartupInv
<1>2. CASE UNCHANGED <<sensors, state, lock, sampler, commander>>
  BY <1>1, <1>2, LocksFramed
<1>3. CASE Construct
  <2>1. Build(EnabledSensors(config)) /\ Sound(config)
    BY <1>1, <1>3 DEF Construct, MainInv
  <2>2. QED
    BY <2>1, EnabledIsSound, LocksBuilt
<1>4. CASE Exit
  <2>1. Build(<<>>) /\ <<>> \in Seq(SensorFile)
    BY <1>4, EmptySeq DEF Exit
  <2>2. QED
    BY <2>1, LocksBuilt
<1>5. CASE Sample
  BY <1>1, <1>5, CycleLocks DEF Sample, SamplerBegins, SamplerStep, SamplerEnds
<1>6. CASE Command \/ CommandStep
  BY <1>1, <1>6, CommandLocks DEF Command, CommandStep
<1>7. QED
  BY <1>2, <1>3, <1>4, <1>5, <1>6
     DEF Next, MainStep, Refuse, LoadRaises, Accept, ConstructFails, Announce,
         AnnounceFails, StartLoops, Publish, Wake, Connect, Disconnect, sampling,
         vars

-----------------------------------------------------------------------------
(* The specification.                                                      *)

LEMMA StartupInit ==
    ASSUME Init
    PROVE  StartupInv
<1> USE DEF Init
<1>1. /\ <<>> \in Seq(SensorFile) /\ <<>> \in Seq(AnyId)
      /\ Len(sensors) = 0 /\ DOMAIN sensors = {}
      /\ sampler \in SamplerType /\ Len(sampler.readings) = 0
      /\ sampler.at = "idle" /\ sampler.readings = <<>>
  BY EmptySeq, NoReadingType DEF NoReading
<1>2. SamplingTypeOK
  BY <1>1 DEF SamplingTypeOK, SamplerType, NoCommand, Position
<1>3. config \in ConfigType
  BY NoConfigType
<1>4. TypeOK
  BY <1>1, <1>2, <1>3 DEF TypeOK, Phase, Asleep
<1>5. MainInv /\ LoopInv /\ LinkInv
  BY <1>1 DEF MainInv, LoopInv, LinkInv, Built, Asleep, NoCommand
<1>6. BatchInv
  BY <1>1 DEF BatchInv, BatchMatchesDeclaration
<1>7. LockInv /\ ReadingInv
  BY <1>1 DEF LockInv, ReadingInv, ReadingsAreAtomic, Position, NoCommand
<1>8. QED
  BY <1>4, <1>5, <1>6, <1>7 DEF StartupInv

LEMMA StartupStep ==
    ASSUME StartupInv, [Next]_vars
    PROVE  StartupInv'
  BY TypesStep, MainStepKeeps, LoopStepKeeps, LinkStepKeeps, BatchStep, LocksStep
     DEF StartupInv

LEMMA StartupAlways == Spec => []StartupInv
  BY StartupInit, StartupStep, PTL DEF Spec

\* Whatever documents are found on disk, and however often the agent starts.
THEOREM StartupTypeCorrect == Spec => []TypeOK
<1>1. StartupInv => TypeOK
  BY DEF StartupInv
<1>2. QED
  BY <1>1, StartupAlways, PTL

\* config.py against everything that uses a configuration: what load() checks
\* no constructor, no loop and no drain trips over; of the kinds of value that
\* the model tells apart, only those in Unchecked are left to do harm.
THEOREM AcceptedConfigurationsRun == Spec => []AcceptedRuns
<1>1. StartupInv => AcceptedRuns
  <2>1. SUFFICES ASSUME StartupInv, Trouble
                 PROVE  Unchecked
    BY DEF AcceptedRuns
  <2>2. MainInv /\ LoopInv /\ LinkInv /\ spun \subseteq Loop
    BY <2>1 DEF StartupInv, TypeOK
  <2>3. CASE phase = "failed"
    <3>1. Sound(config) /\ ~CanConstruct(config)
      BY <2>2, <2>3 DEF MainInv
    <3>2. \A l \in Loop : CanSchedule(config.interval[l])
      BY <3>1 DEF Sound, CanSchedule
    <3>3. ~CanConfigureTls(config) => "unfit" \in config.certificates
      BY <3>1 DEF Sound, CanConfigureTls
    <3>4. QED
      BY <3>1, <3>2, <3>3 DEF CanConstruct, CanOpenStore, Unchecked
  <2>4. CASE phase = "running" /\ sensors = <<>>
    <3>1. Sound(config) /\ EnabledSensors(config) = <<>>
      BY <2>2, <2>4 DEF MainInv, Built
    <3>2. QED
      BY <3>1, EnabledIsSound
  <2>5. CASE (\E l \in Loop : loop[l] = "dead") \/ spun # {}
    BY <2>2, <2>5 DEF LoopInv, Unchecked
  <2>6. CASE link \in {"lost", "jammed"}
    BY <2>2, <2>6 DEF LinkInv, CanConnect, CanDrain, Unchecked
  <2>7. QED
    BY <2>1, <2>3, <2>4, <2>5, <2>6 DEF Trouble
<1>2. QED
  BY <1>1, StartupAlways, PTL

\* runner.py: every batch has one reading for each sensor that the last
\* registration declared, for any list of sensors and whatever reads fail.
THEOREM BatchesMatch == Spec => []BatchMatchesDeclaration
<1>1. StartupInv => BatchMatchesDeclaration
  BY DEF StartupInv, BatchInv
<1>2. QED
  BY <1>1, StartupAlways, PTL

\* sensors/base.py: no reading shows a sensor half-way through a command, for
\* any number of sensors and commands.
THEOREM AtomicReadings == Spec => []ReadingsAreAtomic
<1>1. StartupInv => ReadingsAreAtomic
  BY DEF StartupInv, ReadingInv
<1>2. QED
  BY <1>1, StartupAlways, PTL

=============================================================================
