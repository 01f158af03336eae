--------------------------- MODULE PipelineTypes ---------------------------
(***************************************************************************)
(* Definitions shared by the poll-dispatch-collect-alert pipeline:        *)
(* the device table the collector reads, the PollTask and Metric messages *)
(* carried by NATS, and the hardcoded alert rules of NewEngine.           *)
(***************************************************************************)
EXTENDS Integers, FiniteSets, Bags

CONSTANTS
  Devices,    \* rows of the devices table (model values)
  Enabled,    \* the rows whose enabled column is true
  Protocol,   \* devices.protocol of every row
  MaxTicks,   \* number of scheduler ticks explored
  RttValues   \* rtt_ms values a ping can measure (0 = no answer)

ASSUME Enabled \subseteq Devices
ASSUME Protocol \in [Devices -> {"mikrotik_api", "snmp", "ssh", "telnet", "tr069"}]
ASSUME MaxTicks \in Nat \ {0}
ASSUME 0 \in RttValues /\ RttValues \subseteq Nat

Ticks == 1..MaxTicks

(* commonModel.PollTask: the tick stands for the dispatch Timestamp; the  *)
(* IP, type and protocol are columns of the device row.                   *)
Tasks == [device_id : Devices, tick : Ticks]

(* A value of the map[string]interface{} of a Metric, with the dynamic Go *)
(* type it has after the JSON round trip over NATS.                       *)
Float64(x) == [type |-> "float64", v |-> x]
Bool(b)    == [type |-> "bool", v |-> b]

(* The values map of a Metric published by Worker.processTask.            *)
MetricValues == [rtt_ms : {Float64(x) : x \in RttValues},
                 success : {Bool(b) : b \in BOOLEAN}]

Metrics == [task : Tasks, values : MetricValues]

(* The rule set hardcoded in alert.NewEngine.                             *)
Rules ==
  { [id |-> "rule-1", device_id |-> "", metric |-> "rtt_ms",
     op |-> ">", threshold |-> 100],
    [id |-> "rule-2", device_id |-> "", metric |-> "success",
     op |-> "=", threshold |-> 0] }

RuleIds == {r.id : r \in Rules}

(* A call notifier.Send for the metric of a task and a rule.               *)
Alerts == [task : Tasks, rule : RuleIds]
=============================================================================
