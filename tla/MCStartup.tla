----------------------------- MODULE MCStartup ------------------------------
(***************************************************************************)
(* The configuration that is shipped and all that differ from it in at     *)
(* most two values, of agent.toml or of the sensor files; and the one that *)
(* the fleet uses, with any one value of agent.toml changed.               *)
(***************************************************************************)
EXTENDS Startup

Choice(k) ==
    CASE k \in {"machine_type", "level"}   -> {"other", "blank"}
      [] k \in CertificatePath             -> {"blank", "file", "unfit", "word", "zero"}
      [] k = "tls"                         -> {"true", "false", "word"}
      [] k \in {"port", "keepalive_seconds"}
                                           -> {"huge", "zero", "true", "fraction"}
      [] k = "batch_size"                  -> {"giant", "zero", "true", "fraction"}
      [] k \in {"sample_interval", "publish_interval"}
                                           -> {"huge", "giant", "zero", "true",
                                               "infinite", "nan"}
      [] k = "firmware_version"            -> {"blank", "absent"}
      [] OTHER                             -> {"unfit", "blank", "absent"}

Sensor(id) ==
    [sensor_id |-> id, type |-> "word", enabled |-> "true", options |-> "table",
     baseline |-> "fraction", drift |-> "absent"]

SensorChoice(f) ==
    CASE f = "sensor_id" -> {"vibration", "temperature", "blank"}
      [] f = "type"      -> {"word", "other", "absent"}
      [] f = "enabled"   -> {"true", "false", "absent"}
      [] f = "options"   -> {"table", "word"}
      [] f = "baseline"  -> {"infinite", "giant", "absent"}
      [] f = "drift"     -> {"positive", "giant", "word"}

Shipped ==
    [read |-> "document",
     agent |-> [k \in AgentKey |->
                  CASE k = "tls" -> "false"
                    [] k \in CertificatePath -> "blank"
                    [] k \in {"port", "keepalive_seconds", "batch_size"} -> "positive"
                    [] k \in {"sample_interval", "publish_interval"} -> "fraction"
                    [] OTHER -> "word"],
     files |-> <<Sensor("temperature"), Sensor("vibration")>>]

Fleet ==
    [Shipped EXCEPT !.agent.tls = "true",
                    !.agent.client_cert_path = "file",
                    !.agent.client_key_path = "file"]

EditedAgent(d) ==
    UNION {{[d EXCEPT !.agent[k] = v] : v \in Choice(k)} : k \in AgentKey}

EditedFiles(d) ==
    {[d EXCEPT !.files = <<>>]}
    \cup UNION {UNION {{[d EXCEPT !.files[i][f] = v] : v \in SensorChoice(f)} :
                          f \in DOMAIN d.files[i]} : i \in DOMAIN d.files}

EditedTwice(d) ==
    UNION {EditedAgent(e) : e \in {d} \cup EditedAgent(d)}
    \cup UNION {EditedFiles(e) : e \in {d} \cup EditedFiles(d)}

MCDocuments ==
    {Shipped, Fleet}
    \cup {[Shipped EXCEPT !.read = r] : r \in {"malformed", "unreadable"}}
    \cup EditedTwice(Shipped)
    \cup EditedAgent(Fleet)

=============================================================================
