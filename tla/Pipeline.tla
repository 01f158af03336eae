------------------------------ MODULE Pipeline ------------------------------
(***************************************************************************)
(* The three services of the poll pipeline run side by side and meet only *)
(* on NATS: the collector publishes PollTasks on nms.poll.tasks (taskBus),*)
(* the worker consumes them and publishes Metrics on nms.metrics          *)
(* (metricBus), the alert engine consumes those and calls the notifier.   *)
(* Each service also reads whether the consumer of its topic is           *)
(* subscribed, because core NATS drops what no subscriber takes.          *)
(***************************************************************************)
EXTENDS PipelineTypes

CONSTANTS RequestedPageSize, MaxPageSize, DefaultPageSize

VARIABLES
  schedPc, tick, pending, collectorStop, sent,       \* collector
  taskBus,                                           \* nms.poll.tasks
  workerPc, workerStop, job, result,                 \* worker
  metricBus,                                         \* nms.metrics
  alertPc, alertStop, notifications, evaluated       \* alert engine

collectorVars == <<schedPc, tick, pending, collectorStop, sent>>
workerVars    == <<workerPc, workerStop, job, result>>
alertVars     == <<alertPc, alertStop, notifications, evaluated>>
vars == <<schedPc, tick, pending, collectorStop, sent, taskBus,
          workerPc, workerStop, job, result, metricBus,
          alertPc, alertStop, notifications, evaluated>>

Collector == INSTANCE CollectorScheduler
W         == INSTANCE Worker
A         == INSTANCE AlertEngine

Init == Collector!Init /\ W!Init /\ A!Init

(* All three processes have exited: the system has stopped.               *)
Terminated ==
  /\ schedPc = "exited" /\ workerPc = "exited" /\ alertPc = "exited"
  /\ UNCHANGED vars

(* A step of one service leaves the others' variables alone.              *)
CollectorStep(act) == act /\ UNCHANGED <<workerStop, job, result, metricBus, alertVars>>
WorkerStep(act)    == act /\ UNCHANGED <<collectorVars, alertVars>>
AlertStep(act)     == act /\ UNCHANGED <<collectorVars, taskBus, workerVars>>

Next ==
  \/ CollectorStep(Collector!Next)
  \/ WorkerStep(W!Next)
  \/ AlertStep(A!Next)
  \/ Terminated

(* A processTask goroutine runs to its end unless the process dies: ping  *)
(* is bounded by -W 1, WritePoint by the HTTP client timeout, Publish     *)
(* does not block. The Mikrotik API call has no deadline (routeros.Dial,  *)
(* Run), so no fairness is assumed for it. NATS runs a pending callback.  *)
Fairness ==
  /\ \A t \in {t \in Tasks : Protocol[t.device_id] # "mikrotik_api"} :
       WF_vars(WorkerStep(W!Poll(t)))
  /\ \A t \in Tasks :
       /\ WF_vars(WorkerStep(W!WritePoint(t)))
       /\ WF_vars(WorkerStep(W!PublishMetric(t)))
  /\ \A m \in Metrics : WF_vars(AlertStep(A!Evaluate(m)))

Spec == Init /\ [][Next]_vars /\ Fairness

-----------------------------------------------------------------------------
(* The alerts the spec asks of the two hardcoded rules for a poll result: *)
(* "High Latency" when rtt_ms > 100, "Device Down" when success is false. *)
ExpectedRules(res) ==
  {r \in RuleIds : \/ r = "rule-1" /\ res.rtt > 100
                   \/ r = "rule-2" /\ ~res.success}

TypeOK ==
  /\ schedPc \in {"idle", "publishing", "stopped", "exited"}
  /\ tick \in 0..MaxTicks
  /\ pending \subseteq Devices
  /\ collectorStop \in BOOLEAN
  /\ sent \subseteq Tasks
  /\ taskBus \subseteq Tasks
  /\ workerPc \in {"init", "subscribed", "unsubscribed", "exited"}
  /\ workerStop \in BOOLEAN
  /\ job \in [Tasks -> {"none", "poll", "write", "publish", "done", "killed"}]
  /\ result \in [Tasks -> [success : BOOLEAN, rtt : RttValues]]
  /\ metricBus \subseteq Metrics
  /\ alertPc \in {"init", "subscribed", "unsubscribed", "exited"}
  /\ alertStop \in BOOLEAN
  /\ IsABag(notifications) /\ BagToSet(notifications) \subseteq Alerts
  /\ evaluated \subseteq Tasks

(* Across the three services: every metric the alert engine handled      *)
(* comes from a poll of an enabled device, and for it notifier.Send was   *)
(* called exactly once for each rule the poll result breaks and never for *)
(* another rule (Scheduler filter, processTask values, evaluate/toFloat).*)
AlertsExactlyOncePerMatch ==
  /\ \A a \in BagToSet(notifications) : a.task \in evaluated
  /\ \A t \in evaluated :
       /\ t.device_id \in Enabled
       /\ \A r \in RuleIds :
            CopiesIn([task |-> t, rule |-> r], notifications)
              = IF r \in ExpectedRules(result[t]) THEN 1 ELSE 0

(* The pipeline implements the abstract PollAlert: a dispatched task is   *)
(* one Publish was called for, a poll is measured once its goroutine has  *)
(* the adapter's result and has not been killed, and a poll is decided    *)
(* when the alert engine evaluated its metric.                            *)
Abs == INSTANCE PollAlert
         WITH scheduled <- sent,
              measured  <- {t \in Tasks : job[t] \in {"write", "publish", "done"}},
              outcome   <- result,
              decided   <- evaluated,
              alerts    <- notifications

(* Every behaviour of the three services, with their NATS losses and      *)
(* shutdowns, is a behaviour of PollAlert: no alert is raised but for a   *)
(* measured poll of an enabled device, and each evaluated poll raises     *)
(* exactly its alerts once (the refinement as a whole).                   *)
PollAlertSpec == Abs!Spec

(* Spec 4.1: every tick polls every enabled device. A schedulePolls run   *)
(* that ends has called Publish for each enabled device (ListDevices      *)
(* paging and the Enabled filter of schedulePolls).                        *)
TickCoversEnabledDevices ==
  [][schedPc = "publishing" /\ schedPc' = "idle"
       => \A d \in Enabled : [device_id |-> d, tick |-> tick] \in sent]_vars

(* Spec 5: every adapter network call is bounded by a per-call timeout,  *)
(* so a processTask goroutine that started polling gets past the poll     *)
(* (MikrotikAdapter.FetchSystemResources' routeros.Dial and Run, and       *)
(* PingAdapter.Ping with ping -W 1).                                       *)
PollReturns ==
  \A t \in Tasks : job[t] = "poll" ~> job[t] # "poll"

(* Spec 5: on shutdown in-flight operations are allowed to complete. A    *)
(* processTask goroutine whose device has answered eventually publishes   *)
(* its metric (worker main returning right after w.Stop).                 *)
InFlightPollsFinish ==
  \A t \in Tasks : job[t] \in {"write", "publish"} ~> job[t] = "done"
=============================================================================
