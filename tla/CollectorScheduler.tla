------------------------- MODULE CollectorScheduler -------------------------
(***************************************************************************)
(* The collector service: collector.Scheduler (Start, Stop,               *)
(* schedulePolls), the DeviceService.ListDevices page it reads, and the   *)
(* collector main that stops the scheduler and exits.                     *)
(*                                                                         *)
(* schedPc is the position of the Start goroutine: "idle" in the select,  *)
(* "publishing" inside the loop of schedulePolls over the page `pending`, *)
(* "stopped" after Start returned, "exited" when the process is gone.     *)
(* taskBus is the set of PollTasks NATS holds for the worker's            *)
(* subscription; `sent` records every task Publish was called for.        *)
(***************************************************************************)
EXTENDS PipelineTypes

CONSTANTS
  RequestedPageSize,  \* schedulePolls asks ListDevices(ctx, 1, 1000)
  MaxPageSize,        \* ListDevices accepts page sizes up to 100
  DefaultPageSize     \* ... and otherwise uses 20

VARIABLES schedPc, tick, pending, collectorStop, taskBus, sent, workerPc

(* DeviceService.ListDevices: a page size outside 1..MaxPageSize becomes   *)
(* DefaultPageSize.                                                        *)
ClampPageSize(ps) ==
  IF ps < 1 \/ ps > MaxPageSize THEN DefaultPageSize ELSE ps

(* deviceRepository.List with Limit and Offset 0 and no ORDER BY: the      *)
(* database returns some rows, as many as the limit allows.               *)
ListDevices ==
  LET n == IF ClampPageSize(RequestedPageSize) < Cardinality(Devices)
             THEN ClampPageSize(RequestedPageSize) ELSE Cardinality(Devices)
  IN  {page \in SUBSET Devices : Cardinality(page) = n}

Init ==
  /\ schedPc = "idle"
  /\ tick = 0
  /\ pending = {}
  /\ collectorStop = FALSE
  /\ taskBus = {}
  /\ sent = {}

(* The ticker fires and the select runs schedulePolls. The select picks   *)
(* among ready cases at random, so a tick may still win after Stop.       *)
(* A ListDevices error is logged and schedulePolls returns.               *)
Tick ==
  /\ schedPc = "idle"
  /\ tick < MaxTicks
  /\ tick' = tick + 1
  /\ \/ \E page \in ListDevices :
          /\ pending' = page
          /\ schedPc' = "publishing"
     \/ UNCHANGED <<pending, schedPc>>
  /\ UNCHANGED <<collectorStop, taskBus, sent, workerPc>>

(* One iteration of the loop over the page: a disabled row is skipped;    *)
(* for an enabled one a PollTask is published. Core NATS hands it only to *)
(* a current subscriber; a Publish error is logged and the loop goes on.  *)
PublishTask(d) ==
  /\ schedPc = "publishing"
  /\ d \in pending
  /\ pending' = pending \ {d}
  /\ IF d \in Enabled
       THEN LET t == [device_id |-> d, tick |-> tick]
            IN  /\ sent' = sent \cup {t}
                /\ \/ taskBus' = IF workerPc = "subscribed"
                                   THEN taskBus \cup {t} ELSE taskBus
                   \/ taskBus' = taskBus
       ELSE UNCHANGED <<sent, taskBus>>
  /\ UNCHANGED <<schedPc, tick, collectorStop, workerPc>>

FinishTick ==
  /\ schedPc = "publishing"
  /\ pending = {}
  /\ schedPc' = "idle"
  /\ UNCHANGED <<tick, pending, collectorStop, taskBus, sent, workerPc>>

(* main receives SIGTERM and calls scheduler.Stop: close(stopChan).       *)
Stop ==
  /\ ~collectorStop
  /\ schedPc # "exited"
  /\ collectorStop' = TRUE
  /\ UNCHANGED <<schedPc, tick, pending, taskBus, sent, workerPc>>

(* The select takes the stopChan case and Start returns.                   *)
Return ==
  /\ schedPc = "idle"
  /\ collectorStop
  /\ schedPc' = "stopped"
  /\ UNCHANGED <<tick, pending, collectorStop, taskBus, sent, workerPc>>

(* main returns right after Stop: the process ends wherever the Start     *)
(* goroutine is, in the middle of schedulePolls included.                 *)
Exit ==
  /\ collectorStop
  /\ schedPc # "exited"
  /\ schedPc' = "exited"
  /\ pending' = {}
  /\ UNCHANGED <<tick, collectorStop, taskBus, sent, workerPc>>

Next ==
  \/ Tick
  \/ \E d \in Devices : PublishTask(d)
  \/ FinishTick
  \/ Stop
  \/ Return
  \/ Exit
=============================================================================
