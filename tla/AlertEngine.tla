---------------------------- MODULE AlertEngine ----------------------------
(***************************************************************************)
(* The alert service: alert.Engine (Start, Stop, evaluate, toFloat) with  *)
(* the hardcoded rules of NewEngine, and the alert main.                  *)
(*                                                                         *)
(* alertPc: "init" before Subscribe, "subscribed", "unsubscribed",        *)
(* "exited". NATS runs the callbacks of one subscription one after the    *)
(* other, so evaluate of one metric is one step. notifications is the bag *)
(* of notifier.Send calls; evaluated the tasks whose metric was handled.  *)
(***************************************************************************)
EXTENDS PipelineTypes

VARIABLES alertPc, alertStop, metricBus, notifications, evaluated

(* toFloat: float64 and int pass through, bool becomes 1.0 or 0.0, any    *)
(* other type is rejected.                                                 *)
ToFloatOk(x) == x.type \in {"float64", "int", "bool"}

ToFloat(x) == IF x.type = "bool" THEN (IF x.v THEN 1 ELSE 0) ELSE x.v

(* The operator switch of evaluate; an unknown operator never triggers.   *)
Compare(op, v, th) ==
  CASE op = ">"  -> v > th
    [] op = "<"  -> v < th
    [] op = "="  -> v = th
    [] op = ">=" -> v >= th
    [] op = "<=" -> v <= th
    [] OTHER     -> FALSE

(* One iteration of the rule loop: device scope, value lookup and         *)
(* conversion (each `continue`s when it fails), then the comparison.      *)
Triggered(rule, m) ==
  /\ rule.device_id = "" \/ rule.device_id = m.task.device_id
  /\ rule.metric \in DOMAIN m.values
  /\ ToFloatOk(m.values[rule.metric])
  /\ Compare(rule.op, ToFloat(m.values[rule.metric]), rule.threshold)

(* Mutant: the rule loop breaks after its first Send.                     *)
FiredFirstOnly(m) ==
  LET hit == {r \in Rules : Triggered(r, m)}
      first == IF \E r \in hit : r.id = "rule-1"
                 THEN {r \in hit : r.id = "rule-1"} ELSE hit
  IN  {[task |-> m.task, rule |-> r.id] : r \in first}

(* The Send calls evaluate makes for one metric.                          *)
Fired(m) == {[task |-> m.task, rule |-> r.id] : r \in {r \in Rules : Triggered(r, m)}}

Init ==
  /\ alertPc = "init"
  /\ alertStop = FALSE
  /\ notifications = EmptyBag
  /\ evaluated = {}

Start ==
  /\ alertPc = "init"
  /\ alertPc' = "subscribed"
  /\ UNCHANGED <<alertStop, metricBus, notifications, evaluated>>

(* Mutant: the message stays pending after the callback, as with a       *)
(* redelivering subscription that is never acknowledged.                  *)
EvaluateRedelivered(m) ==
  /\ alertPc = "subscribed"
  /\ m \in metricBus
  /\ notifications' = notifications (+) SetToBag(Fired(m))
  /\ evaluated' = evaluated \cup {m.task}
  /\ UNCHANGED <<alertPc, alertStop, metricBus>>

(* The subscription callback: unmarshal the Metric and evaluate it.       *)
Evaluate(m) ==
  /\ alertPc = "subscribed"
  /\ m \in metricBus
  /\ metricBus' = metricBus \ {m}
  /\ notifications' = notifications (+) SetToBag(Fired(m))
  /\ evaluated' = evaluated \cup {m.task}
  /\ UNCHANGED <<alertPc, alertStop>>

Stop ==
  /\ ~alertStop
  /\ alertPc # "exited"
  /\ alertStop' = TRUE
  /\ UNCHANGED <<alertPc, metricBus, notifications, evaluated>>

Unsubscribe ==
  /\ alertStop
  /\ alertPc = "subscribed"
  /\ alertPc' = "unsubscribed"
  /\ metricBus' = {}
  /\ UNCHANGED <<alertStop, notifications, evaluated>>

Exit ==
  /\ alertStop
  /\ alertPc # "exited"
  /\ alertPc' = "exited"
  /\ metricBus' = {}
  /\ UNCHANGED <<alertStop, notifications, evaluated>>

Next ==
  \/ Start
  \/ \E m \in metricBus : Evaluate(m)
  \/ Stop
  \/ Unsubscribe
  \/ Exit
=============================================================================
