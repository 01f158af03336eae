------------------------------- MODULE Worker -------------------------------
(***************************************************************************)
(* The worker service: worker.Worker (Start, Stop, processTask), the      *)
(* PingAdapter and MikrotikAdapter it calls, and the worker main that     *)
(* stops the worker and exits.                                             *)
(*                                                                         *)
(* workerPc: "init" before Subscribe, "subscribed", "unsubscribed" after  *)
(* Start returned, "exited". Every delivered task runs in its own          *)
(* goroutine; job[t] is where that goroutine is: "poll" (adapter call),   *)
(* "write" (InfluxDB WritePoint), "publish" (metric to NATS), "done", or  *)
(* "killed" when the process ended under it. result[t] is the adapter     *)
(* outcome.                                                                *)
(***************************************************************************)
EXTENDS PipelineTypes

VARIABLES workerPc, workerStop, job, result, taskBus, metricBus, alertPc

NoResult == [success |-> FALSE, rtt |-> 0]

Running == {"poll", "write", "publish"}

(* The values map of processTask: rtt_ms and success (the Mikrotik        *)
(* resource fields it merges in are read by no rule and left out).        *)
Values(res) == [rtt_ms |-> Float64(res.rtt), success |-> Bool(res.success)]

(* Mutant: a failed ping reports the sentinel rtt -1.                     *)
PingOutcomesSentinel ==
  {[success |-> TRUE, rtt |-> r] : r \in RttValues \ {0}}
    \cup {[success |-> FALSE, rtt |-> -1]}

(* PingAdapter.Ping: elapsed time and true, or 0 and false.               *)
PingOutcomes ==
  {[success |-> TRUE, rtt |-> r] : r \in RttValues \ {0}}
    \cup {[success |-> FALSE, rtt |-> 0]}

(* MikrotikAdapter.FetchSystemResources' success flag: false when Dial or *)
(* Run fails or the reply holds no sentence, true otherwise.              *)
FetchSystemResourcesOk ==
  {dialed /\ ran /\ sentence : dialed, ran, sentence \in BOOLEAN}

(* processTask's adapter selection: for mikrotik_api, success comes from  *)
(* FetchSystemResources and rtt from a separate ping whose own success    *)
(* is ignored; for every other protocol both come from the ping.          *)
PollOutcomes(d) ==
  IF Protocol[d] = "mikrotik_api"
    THEN [success : FetchSystemResourcesOk, rtt : RttValues]
    ELSE PingOutcomes

Init ==
  /\ workerPc = "init"
  /\ workerStop = FALSE
  /\ job = [t \in Tasks |-> "none"]
  /\ result = [t \in Tasks |-> NoResult]
  /\ metricBus = {}

(* Start: Subscribe to nms.poll.tasks.                                     *)
Start ==
  /\ workerPc = "init"
  /\ workerPc' = "subscribed"
  /\ UNCHANGED <<workerStop, job, result, taskBus, metricBus, alertPc>>

(* The subscription callback: unmarshal and `go w.processTask(task)`.     *)
Receive(t) ==
  /\ workerPc = "subscribed"
  /\ t \in taskBus
  /\ taskBus' = taskBus \ {t}
  /\ job' = [job EXCEPT ![t] = "poll"]
  /\ UNCHANGED <<workerPc, workerStop, result, metricBus, alertPc>>

Poll(t) ==
  /\ job[t] = "poll"
  /\ \E res \in PollOutcomes(t.device_id) : result' = [result EXCEPT ![t] = res]
  /\ job' = [job EXCEPT ![t] = "write"]
  /\ UNCHANGED <<workerPc, workerStop, taskBus, metricBus, alertPc>>

(* WritePoint of the device_poll point to InfluxDB. Its error is only    *)
(* logged and nothing downstream reads the series, so the point itself is *)
(* not kept: the step is the blocking write the goroutine waits on.       *)
WritePoint(t) ==
  /\ job[t] = "write"
  /\ job' = [job EXCEPT ![t] = "publish"]
  /\ UNCHANGED <<workerPc, workerStop, result, taskBus, metricBus, alertPc>>

(* Publish to nms.metrics: core NATS delivers to the alert engine only if *)
(* it is subscribed; a Publish error is only logged.                      *)
PublishMetric(t) ==
  /\ job[t] = "publish"
  /\ LET m == [task |-> t, values |-> Values(result[t])]
     IN  \/ metricBus' = IF alertPc = "subscribed"
                           THEN metricBus \cup {m} ELSE metricBus
         \/ UNCHANGED metricBus
  /\ job' = [job EXCEPT ![t] = "done"]
  /\ UNCHANGED <<workerPc, workerStop, result, taskBus, alertPc>>

(* main calls w.Stop: close(stopChan).                                    *)
Stop ==
  /\ ~workerStop
  /\ workerPc # "exited"
  /\ workerStop' = TRUE
  /\ UNCHANGED <<workerPc, job, result, taskBus, metricBus, alertPc>>

(* Start wakes on stopChan and its deferred Unsubscribe runs; NATS drops  *)
(* what it held for the subscription.                                     *)
Unsubscribe ==
  /\ workerStop
  /\ workerPc = "subscribed"
  /\ workerPc' = "unsubscribed"
  /\ taskBus' = {}
  /\ UNCHANGED <<workerStop, job, result, metricBus, alertPc>>

(* main returns right after w.Stop(): the processTask goroutines still    *)
(* running die with the process.                                          *)
Exit ==
  /\ workerStop
  /\ workerPc # "exited"
  /\ workerPc' = "exited"
  /\ job' = [t \in Tasks |-> IF job[t] \in Running THEN "killed" ELSE job[t]]
  /\ taskBus' = {}
  /\ UNCHANGED <<workerStop, result, metricBus, alertPc>>

Next ==
  \/ Start
  \/ \E t \in Tasks : Receive(t) \/ Poll(t) \/ WritePoint(t) \/ PublishMetric(t)
  \/ Stop
  \/ Unsubscribe
  \/ Exit
=============================================================================
