------------------------- MODULE MonitoringScheduler -------------------------
(***************************************************************************)
(* The monitoring feature of the API gateway: the in-memory TargetStore    *)
(* (ReplaceAll, GetAll), the SyncInventory handler that fills it, and the  *)
(* Scheduler whose ticker goroutine runs runCollection, which spawns one   *)
(* goroutine per target running PollDevice against the Mikrotik client.   *)
(*                                                                         *)
(* store is the targets map, keyed by IP. reqPc[r] is where SyncInventory  *)
(* request r is. poll[<<k, ip>>] is where the goroutine that collection k  *)
(* spawned for ip is: "connect", "system", "iface", "done" ("none" before  *)
(* it exists); target[<<k, ip>>] is the DeviceTarget it was handed.        *)
(* answer[<<k, ip>>] records what the device answered to each call;        *)
(* written is the set of points handed to the InfluxDB WriteAPI.          *)
(***************************************************************************)
EXTENDS Integers, Sequences, SequencesExt, FiniteSetsExt, TLC

CONSTANTS
  IPs,          \* target IP addresses
  Creds,        \* credentials (username/password/port) as model values
  Requests,     \* SyncInventory HTTP requests
  Payload,      \* Payload[r]: the request's targets, or Malformed
  Malformed,    \* a body ShouldBindJSON rejects
  MaxTicks      \* ticker firings explored

DeviceTarget == [ip : IPs, cred : Creds]
NoTarget == [ip |-> "none", cred |-> "none"]
Keys == (1..MaxTicks) \X IPs
Stages == {"none", "connect", "system", "iface", "done"}
Calls == {"connect", "system", "iface"}

VARIABLES store, reqPc, count, tick, poll, target, answer, written

vars == <<store, reqPc, count, tick, poll, target, answer, written>>

EmptyStore == [ip \in {} |-> NoTarget]

(* The zero DeviceTarget{}: empty IP, no credentials.                     *)
ZeroTarget == [ip |-> "", cred |-> "none"]

(* Mutant: targets made with length len(req.Targets) and then appended   *)
(* to, leaving that many zero targets in front.                           *)
BuildTargetsAppended(r) ==
  [i \in 1..Len(Payload[r]) |-> ZeroTarget] \o Payload[r]

(* SyncInventory's conversion of the request's execution.Target list into *)
(* DeviceTargets, one per entry and in the same order.                    *)
BuildTargets(r) == Payload[r]

(* GetAll: a copy of the map's values taken under the read lock.          *)
GetAll == {store[ip] : ip \in DOMAIN store}

(* Mutant: ReplaceAll assigns into the existing map instead of a new one. *)
StoreReplaceAllMerge(ts) == FoldLeft(LAMBDA m, t : (t.ip :> t) @@ m, store, ts)

(* ReplaceAll: a fresh map, then s.targets[t.IP] = t in request order, so *)
(* of two targets with one IP the later one stays.                         *)
StoreReplaceAll(ts) == FoldLeft(LAMBDA m, t : (t.ip :> t) @@ m, EmptyStore, ts)

(* Mutant: the goroutine closure reads the loop variable instead of its   *)
(* parameter; under Go 1.21 every goroutine sees the last target ranged.  *)
SpawnCaptured(snap, k) ==
  LET last == CHOOSE t \in snap : TRUE
  IN  [key \in Keys |-> IF key[1] = k /\ key[2] \in {t.ip : t \in snap}
                          THEN last ELSE target[key]]

(* runCollection: one goroutine per element of the GetAll copy, each      *)
(* handed its DeviceTarget as the argument t.                              *)
Spawn(snap, k) ==
  [key \in Keys |-> IF key[1] = k /\ \E t \in snap : t.ip = key[2]
                      THEN CHOOSE t \in snap : t.ip = key[2] ELSE target[key]]

(* Mutant: PollDevice returns as soon as one metrics call fails.          *)
NextStageAbortOnError(stage, ok) ==
  IF ~ok THEN "done"
  ELSE CASE stage = "connect" -> "system"
         [] stage = "system"  -> "iface"
         [] stage = "iface"   -> "done"

(* PollDevice's order of calls: a Connect error returns at once; an error *)
(* of GetSystemMetrics or GetInterfaceMetrics is only logged.             *)
NextStage(stage, ok) ==
  CASE stage = "connect" -> IF ok THEN "system" ELSE "done"
    [] stage = "system"  -> "iface"
    [] stage = "iface"   -> "done"

Init ==
  /\ store = EmptyStore
  /\ reqPc = [r \in Requests |-> "pending"]
  /\ count = [r \in Requests |-> 0]
  /\ tick = 0
  /\ poll = [key \in Keys |-> "none"]
  /\ target = [key \in Keys |-> NoTarget]
  /\ answer = [key \in Keys |-> [c \in Calls |-> "unasked"]]
  /\ written = {}

(* SyncInventory with a body ShouldBindJSON rejects: 400, store untouched. *)
SyncRejected(r) ==
  /\ reqPc[r] = "pending"
  /\ Payload[r] = Malformed
  /\ reqPc' = [reqPc EXCEPT ![r] = "rejected"]
  /\ UNCHANGED <<store, count, tick, poll, target, answer, written>>

(* SyncInventory: build the DeviceTargets, ReplaceAll under the write     *)
(* lock, answer with len(targets).                                        *)
SyncInventory(r) ==
  /\ reqPc[r] = "pending"
  /\ Payload[r] # Malformed
  /\ LET targets == BuildTargets(r)
     IN  /\ store' = StoreReplaceAll(targets)
         /\ count' = [count EXCEPT ![r] = Len(targets)]
  /\ reqPc' = [reqPc EXCEPT ![r] = "ok"]
  /\ UNCHANGED <<tick, poll, target, answer, written>>

(* The ticker case of Start's select: runCollection copies the store      *)
(* under the read lock (GetAll) and spawns a goroutine per copy element.  *)
Tick ==
  /\ tick < MaxTicks
  /\ LET k == tick + 1
         snap == GetAll
     IN  /\ tick' = k
         /\ target' = Spawn(snap, k)
         /\ poll' = [key \in Keys |->
                       IF key[1] = k /\ key[2] \in DOMAIN store
                         THEN "connect" ELSE poll[key]]
  /\ UNCHANGED <<store, reqPc, count, answer, written>>

(* WriteSystemMetrics / WriteInterfaceMetrics: the point handed to the    *)
(* async WriteAPI, tagged with the target's device id (its IP).           *)
MetricPoint(key, kind) == [kind |-> kind, tick |-> key[1], target |-> target[key]]

(* One call of PollDevice on the device: Connect, GetSystemMetrics or     *)
(* GetInterfaceMetrics; ok is whether the device answered it. A metrics   *)
(* call that answers is followed by its writer call.                      *)
Step(key) ==
  /\ poll[key] \in Calls
  /\ \E ok \in BOOLEAN :
       LET stage == poll[key]
           point == MetricPoint(key, stage)
       IN  /\ poll' = [poll EXCEPT ![key] = NextStage(stage, ok)]
           /\ answer' = [answer EXCEPT ![key][stage] = IF ok THEN "ok" ELSE "failed"]
           /\ written' = IF ok /\ stage # "connect"
                           THEN written \cup {point} ELSE written
  /\ UNCHANGED <<store, reqPc, count, tick, target>>

(* The model's bound: every request answered, every tick taken, every     *)
(* goroutine returned.                                                     *)
Done ==
  /\ tick = MaxTicks
  /\ \A r \in Requests : reqPc[r] # "pending"
  /\ \A key \in Keys : poll[key] \in {"none", "done"}
  /\ UNCHANGED vars

Next ==
  \/ \E r \in Requests : SyncRejected(r) \/ SyncInventory(r)
  \/ Tick
  \/ \E key \in Keys : Step(key)
  \/ Done

(* The ticker fires every interval and the goroutine only spawns and      *)
(* loops; no request or device answer is assumed to come.                 *)
Spec == Init /\ [][Next]_vars /\ WF_vars(Tick)

-----------------------------------------------------------------------------
(* The map a full sync should leave: for every IP of the request, the    *)
(* last target the request lists for it.                                  *)
LastEntryWins(ts) ==
  [ip \in {ts[i].ip : i \in DOMAIN ts} |->
     ts[Max({i \in DOMAIN ts : ts[i].ip = ip})]]

Point == [kind : {"system", "iface"}, tick : 1..MaxTicks,
          target : DeviceTarget]

TypeOK ==
  /\ DOMAIN store \subseteq IPs
  /\ \A ip \in DOMAIN store : store[ip] \in DeviceTarget /\ store[ip].ip = ip
  /\ reqPc \in [Requests -> {"pending", "rejected", "ok"}]
  /\ count \in [Requests -> Nat]
  /\ tick \in 0..MaxTicks
  /\ poll \in [Keys -> Stages]
  /\ target \in [Keys -> DeviceTarget \cup {NoTarget}]
  /\ answer \in [Keys -> [Calls -> {"unasked", "ok", "failed"}]]
  /\ written \subseteq Point

(* Concurrent SyncInventory calls and collections never see a mixed      *)
(* inventory: the store is always exactly what one accepted request asked *)
(* for, its later duplicates winning, and empty before any (ReplaceAll    *)
(* makes a new map under the write lock).                                 *)
StoreHoldsOneWholeSync ==
  IF \E r \in Requests : reqPc[r] = "ok"
    THEN \E r \in Requests : reqPc[r] = "ok" /\ store = LastEntryWins(Payload[r])
    ELSE store = EmptyStore

(* A failed metrics call does not cost the other one its data: a          *)
(* PollDevice goroutine that connected has asked the device for both      *)
(* system and interface metrics before it returned, and it handed the     *)
(* writer a point for exactly the calls the device answered.              *)
PollDevicePartialFailure ==
  \A key \in Keys : poll[key] = "done" =>
    /\ answer[key]["connect"] = "ok" =>
         \A c \in {"system", "iface"} : answer[key][c] # "unasked"
    /\ \A c \in {"system", "iface"} :
         ([kind |-> c, tick |-> key[1], target |-> target[key]] \in written)
           <=> answer[key][c] = "ok"

(* Every target that SyncInventory put in the store is polled with the    *)
(* credentials stored for it by a later collection, unless a sync         *)
(* replaces it first (runCollection hands each goroutine its own target). *)
SyncedTargetEventuallyPolled ==
  \A ip \in IPs, t \in DeviceTarget :
    (ip \in DOMAIN store /\ store[ip] = t /\ tick < MaxTicks)
      ~> \/ \E k \in 1..MaxTicks : poll[<<k, ip>>] # "none" /\ target[<<k, ip>>] = t
         \/ ~(ip \in DOMAIN store /\ store[ip] = t)
=============================================================================
