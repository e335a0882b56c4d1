------------------------------ MODULE Sampling ------------------------------
(***************************************************************************)
(* sensors/base.py and runner.py: one thread samples every sensor in turn  *)
(* and queues the readings as one batch; another runs commands on them.    *)
(* A sensor's state is two fields that a command changes one after the     *)
(* other and that read() reads one after the other; commands are numbered, *)
(* and a field holds the number of the last command that set it.           *)
(***************************************************************************)
EXTENDS Config

CONSTANT
    MaxCommands   \* bound of the model: commands executed on one sensor

ASSUME MaxCommandsAssumption == MaxCommands \in Nat

VARIABLES
    sensors,   \* runner._sensors: the configuration of each sensor object
    state,     \* the two fields of each sensor
    lock,      \* Sensor._lock of each sensor, "free" or the thread's name
    sampler,   \* sample_once(): the readings so far, and the one being taken
    commander, \* execute(): the sensor it works on, and how far it is
    batch      \* the ids in the last batch queued since the registration

sampling == <<sensors, state, lock, sampler, commander, batch>>

NoReading == [at |-> "idle", readings |-> <<>>, stamp |-> 0, first |-> 0,
              second |-> 0]
NoCommand == [at |-> "idle", on |-> 0]

Position == DOMAIN sensors
Current == Len(sampler.readings) + 1

\* Of the payloads, what tells which sensors they are about.
TelemetryBatch(readings) == [i \in DOMAIN readings |-> readings[i].sensor_id]
Registration == [i \in Position |-> sensors[i].sensor_id]

\* What is left of sensor objects once the constructor of the agent is done.
Build(list) ==
    /\ sensors' = list
    /\ state' = [i \in DOMAIN list |-> [first |-> 0, second |-> 0]]
    /\ lock' = [i \in DOMAIN list |-> "free"]
    /\ sampler' = NoReading
    /\ commander' = NoCommand

-----------------------------------------------------------------------------
(* sample_once() and sample().                                             *)

BeginCycle ==
    /\ sampler.at = "idle"
    /\ sampler' = [NoReading EXCEPT !.at = "next"]
    /\ UNCHANGED <<sensors, state, lock, commander, batch>>

\* captured_at is read before the lock is taken.  The instant is known by
\* the commands completed before it.
Capture ==
    /\ sampler.at = "next" /\ Current \in Position
    /\ sampler' = [sampler EXCEPT !.at = "captured",
                                  !.stamp = state[Current].second]
    /\ UNCHANGED <<sensors, state, lock, commander, batch>>

\* Broken variant: read() runs beside the commands.
ReadFirstUnlocked ==
    /\ sampler.at = "captured"
    /\ lock' = [lock EXCEPT ![Current] = "sampler"]
    /\ sampler' = [sampler EXCEPT !.at = "reading", !.first = state[Current].first]
    /\ UNCHANGED <<sensors, state, commander, batch>>

\* The lock is re-entrant.
ReadFirst ==
    /\ sampler.at = "captured"
    /\ lock[Current] \in {"free", "sampler"}
    /\ lock' = [lock EXCEPT ![Current] = "sampler"]
    /\ sampler' = [sampler EXCEPT !.at = "reading", !.first = state[Current].first]
    /\ UNCHANGED <<sensors, state, commander, batch>>

\* Waveform.at() turns a NaN into its floor, but not an infinity.
IsFinite(s) == s.baseline # "infinite"

\* _validate_metrics() lets only finite numbers through.
ReadSecond ==
    /\ sampler.at = "reading"
    /\ IsFinite(sensors[Current])
    /\ lock' = [lock EXCEPT ![Current] = "free"]
    /\ sampler' = [sampler EXCEPT !.at = "read", !.second = state[Current].second]
    /\ UNCHANGED <<sensors, state, commander, batch>>

Reading(condition, metrics) ==
    [sensor_id |-> sensors[Current].sensor_id, condition |-> condition,
     metrics |-> metrics, stamp |-> sampler.stamp]

\* Broken variant: release() is skipped by the exception.
ReadFailsLocked ==
    /\ sampler.at = "reading"
    /\ sampler' = [sampler EXCEPT !.at = "next",
                     !.readings = Append(@, Reading("ERROR", <<>>))]
    /\ UNCHANGED <<sensors, state, lock, commander, batch>>

\* read() raises, or returns what _validate_metrics rejects.
ReadFails ==
    /\ sampler.at = "reading"
    /\ lock' = [lock EXCEPT ![Current] = "free"]
    /\ sampler' = [sampler EXCEPT !.at = "next",
                     !.readings = Append(@, Reading("ERROR", <<>>))]
    /\ UNCHANGED <<sensors, state, commander, batch>>

\* evaluate() runs without the lock.  If it raises, the metrics are kept.
Judge ==
    /\ sampler.at = "read"
    /\ \E condition \in {"OK", "CRITICAL", "ERROR"} :
          sampler' = [sampler EXCEPT !.at = "next",
             !.readings = Append(@, Reading(condition,
                                       <<sampler.first, sampler.second>>))]
    /\ UNCHANGED <<sensors, state, lock, commander, batch>>

CycleDone == sampler.at = "next" /\ Current \notin Position

\* The transaction of record_all and enqueue.  There is no batch if there
\* are no sensors.
Queue ==
    /\ CycleDone
    /\ sampler' = NoReading
    /\ batch' = IF sensors = <<>> THEN batch ELSE TelemetryBatch(sampler.readings)
    /\ UNCHANGED <<sensors, state, lock, commander>>

QueueFails ==
    /\ CycleDone
    /\ sampler' = NoReading
    /\ UNCHANGED <<sensors, state, lock, commander, batch>>

TakeReading ==
    Capture \/ ReadFirst \/ ReadSecond \/ ReadFails \/ Judge
EndCycle == Queue \/ QueueFails

-----------------------------------------------------------------------------
(* execute(), for a command that the sensor declares.                      *)

Execute ==
    /\ commander.at = "idle"
    /\ \E i \in Position :
          /\ state[i].first < MaxCommands
          /\ commander' = [at |-> "waiting", on |-> i]
    /\ UNCHANGED <<sensors, state, lock, sampler, batch>>

HandleFirst ==
    /\ commander.at = "waiting"
    /\ lock[commander.on] = "free"
    /\ lock' = [lock EXCEPT ![commander.on] = "commander"]
    /\ state' = [state EXCEPT ![commander.on].first = @ + 1]
    /\ commander' = [commander EXCEPT !.at = "handling"]
    /\ UNCHANGED <<sensors, sampler, batch>>

HandleSecond ==
    /\ commander.at = "handling"
    /\ lock' = [lock EXCEPT ![commander.on] = "free"]
    /\ state' = [state EXCEPT ![commander.on].second = state[commander.on].first]
    /\ commander' = NoCommand
    /\ UNCHANGED <<sensors, sampler, batch>>

\* The handler refuses, having changed nothing.
HandlerRaises ==
    /\ commander.at = "waiting"
    /\ lock[commander.on] = "free"
    /\ commander' = NoCommand
    /\ UNCHANGED <<sensors, state, lock, sampler, batch>>

Handle == HandleFirst \/ HandleSecond \/ HandlerRaises

-----------------------------------------------------------------------------
ReadingType ==
    [sensor_id : AnyId, condition : {"OK", "CRITICAL", "ERROR"},
     metrics : {<<>>} \cup ((0..MaxCommands) \X (0..MaxCommands)),
     stamp : 0..MaxCommands]

SamplingTypeOK ==
    /\ sensors \in Seq(SensorFile)
    /\ state \in [Position -> [first : 0..MaxCommands, second : 0..MaxCommands]]
    /\ lock \in [Position -> {"free", "sampler", "commander"}]
    /\ sampler \in [at : {"idle", "next", "captured", "reading", "read"},
                    readings : Seq(ReadingType), stamp : 0..MaxCommands,
                    first : 0..MaxCommands, second : 0..MaxCommands]
    /\ Len(sampler.readings) <= Len(sensors)
    /\ sampler.at \in {"captured", "reading", "read"} => Current \in Position
    /\ commander \in [at : {"idle", "waiting", "handling"}, on : Nat]
    /\ commander.at # "idle" => commander.on \in Position
    /\ batch \in Seq(AnyId)

\* A reading shows its sensor as it was at one instant, not half-way through
\* a command, and no earlier than its capturedAt (base.py:110, wire.py:10).
ReadingsAreAtomic ==
    \A i \in DOMAIN sampler.readings :
        LET r == sampler.readings[i] IN
        r.metrics # <<>> => /\ r.metrics[1] = r.metrics[2]
                            /\ r.stamp <= r.metrics[1]

=============================================================================
