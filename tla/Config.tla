------------------------------- MODULE Config -------------------------------
(***************************************************************************)
(* config.py: which configurations load() accepts, and what it makes of    *)
(* them.  A value is the kind that the checks, or what uses the value      *)
(* later, tell apart.  Of the strings, "word" is one that every list of    *)
(* names knows, "other" one that none does, and "file" the path of a file  *)
(* that exists; "unfit" is one that only its use finds out: a file that is *)
(* no certificate, a path at which no database can be opened, a name with  *)
(* a wildcard of MQTT, a host name that cannot be encoded.  Of the         *)
(* numbers, "positive" and "huge" are integers, the latter too large for a *)
(* port, a keepalive or a time to wait, and "giant" one too large for a    *)
(* float or SQLite as well.                                                *)
(***************************************************************************)
EXTENDS Naturals, Sequences

CONSTANT
    SensorId   \* the strings that a sensor file may have for its sensor_id

Strings == {"word", "other", "file", "unfit", "blank"}
Numbers == {"positive", "huge", "giant", "fraction", "zero", "infinite", "nan"}
Kind == Strings \cup Numbers \cup {"true", "false", "absent"}

\* What stands for a sensor_id, a name or something that is none.
AnyId == SensorId \cup Kind

ASSUME SensorIdAssumption == SensorId \cap Kind = {}

CertificatePath == {"ca_cert_path", "client_cert_path", "client_key_path"}
AgentKey ==
    {"site_id", "asset_id", "machine_type", "firmware_version", "host", "port",
     "tls", "keepalive_seconds", "sample_interval", "publish_interval",
     "batch_size", "database_path", "level"} \cup CertificatePath

\* The files are documents with their tables; or one is missing, no TOML or
\* without a table; or reading it raises.  One file per sensor follows
\* agent.toml, in the order of their names.
SensorFile ==
    [sensor_id : AnyId, type : Kind, enabled : Kind, options : {"table", "word"},
     baseline : Kind, drift : Kind]
IsDocument(d) ==
    /\ d.read \in {"document", "malformed", "unreadable"}
    /\ d.agent \in [AgentKey -> Kind]
    /\ d.files \in Seq(SensorFile)

-----------------------------------------------------------------------------
RequireStr(v) == v \in Strings \ {"blank"}
RequireId(v) == v \in SensorId
RequireListed(v) == v = "word"
RequireBool(v) == v \in {"true", "false"}

\* To Python, True and False are 1 and 0.
IsInt(v) == v \in {"positive", "huge", "giant", "zero", "true", "false"}
AtMostZero(v) == v \in {"zero", "false"}

RequirePositiveInt(v) == IsInt(v) /\ ~RequireBool(v) /\ ~AtMostZero(v)

\* Broken variant: bool is let through, as the int that it is.
RequirePositiveNumber(v) ==
    v \in Numbers \cup {"true", "false"} /\ ~AtMostZero(v)

\* Infinity is positive, and no comparison with NaN is true.
RequirePositiveFloat(v) == v \in Numbers /\ ~AtMostZero(v)

\* float() itself raises for an integer that is too large.
Overflows(v) == v = "giant"

AsFloat(v) == v \in Numbers /\ ~Overflows(v)

OptionalPath(v) == v \in Strings \cup {"absent"}
IsSet(v) == v \notin {"blank", "absent"}

IsFile(v) == v \in {"file", "unfit"}

\* Broken variant: whether the files exist is left to the handshake.
TlsPathsUnseen(a) ==
    /\ \A p \in CertificatePath : OptionalPath(a[p])
    /\ a.tls = "true" => IsSet(a.client_cert_path) /\ IsSet(a.client_key_path)

TlsPaths(a) ==
    /\ \A p \in CertificatePath : OptionalPath(a[p])
    /\ a.tls = "true" =>
          /\ IsSet(a.client_cert_path) /\ IsSet(a.client_key_path)
          /\ \A p \in CertificatePath : IsSet(a[p]) => IsFile(a[p])

\* Broken variant: nothing remembers the ids seen so far.
LoadSensorsUnseen(files) ==
    /\ \A i \in DOMAIN files :
          /\ RequireId(files[i].sensor_id)
          /\ RequireStr(files[i].type)
          /\ RequireBool(files[i].enabled)
          /\ files[i].options = "table"
    /\ \E i \in DOMAIN files : files[i].enabled = "true"

\* The values of the options are left to the sensors.
LoadSensors(files) ==
    /\ \A i \in DOMAIN files :
          /\ RequireId(files[i].sensor_id)
          /\ RequireStr(files[i].type)
          /\ RequireBool(files[i].enabled)
          /\ files[i].options = "table"
    /\ \A i, j \in DOMAIN files :
          i # j => files[i].sensor_id # files[j].sensor_id
    /\ \E i \in DOMAIN files : files[i].enabled = "true"

Valid(d) ==
    LET a == d.agent IN
    /\ \A k \in {"site_id", "asset_id", "firmware_version", "host",
                 "database_path"} : RequireStr(a[k])
    /\ \A k \in {"machine_type", "level"} : RequireListed(a[k])
    /\ \A k \in {"port", "keepalive_seconds", "batch_size"} :
          RequirePositiveInt(a[k])
    /\ \A k \in {"sample_interval", "publish_interval"} :
          RequirePositiveFloat(a[k])
    /\ RequireBool(a.tls) /\ TlsPaths(a)
    /\ LoadSensors(d.files)

\* An interval passes its check and then fails the conversion.
IntervalOverflows(d) ==
    Overflows(d.agent.sample_interval) \/ Overflows(d.agent.publish_interval)

\* load() returns, or raises a ConfigError, or raises something else.  Of a
\* document that gives cause for both, either may come first here.
Accepts(d) == d.read = "document" /\ Valid(d) /\ ~IntervalOverflows(d)
Refuses(d) == d.read = "malformed" \/ ~Valid(d)
Raises(d) == d.read = "unreadable" \/ IntervalOverflows(d)

\* The configuration of an accepted document, as far as it decides how the
\* agent runs.  Without TLS the certificate paths are inert.
Load(d) ==
    LET a == d.agent IN
    [interval |-> [sampler |-> a.sample_interval, publisher |-> a.publish_interval],
     topic |-> {a.site_id, a.asset_id},
     host |-> a.host, port |-> a.port, keepalive |-> a.keepalive_seconds,
     certificates |-> IF a.tls = "true" THEN {a[p] : p \in CertificatePath} ELSE {},
     batch_size |-> a.batch_size,
     database |-> a.database_path,
     sensors |-> d.files]

\* The enabled ones among the first n, for each n.  This is SelectSeq in a
\* form that proofs can unfold.
EnabledAmong(list) ==
    LET among[n \in 0..Len(list)] ==
            IF n = 0 THEN <<>>
            ELSE IF list[n].enabled = "true" THEN Append(among[n - 1], list[n])
            ELSE among[n - 1]
    IN  among

EnabledSensors(config) == EnabledAmong(config.sensors)[Len(config.sensors)]

=============================================================================
