-------------------------- MODULE MikrotikExecution --------------------------
(***************************************************************************)
(* The realtime execution feature of the API gateway: ExecutionHandler    *)
(* (ExecuteCommand, GetStats), executionService, and the MikrotikClient   *)
(* calls they make (Connect, ExecuteCommand, GetSystemMetrics,            *)
(* GetInterfaceMetrics, the deferred Disconnect).                          *)
(*                                                                         *)
(* Every request builds its own client and shares nothing with the        *)
(* others, so requests are handled one after the other. cur is the        *)
(* request being served and pc where its handler is; conn is the          *)
(* routeros connection; ans what the device answered to each call; sys    *)
(* the resource sentence the device answered (reading) and the           *)
(* SystemMetrics decoded from it (sys); resp the response written.        *)
(***************************************************************************)
EXTENDS Integers, FiniteSets

CONSTANTS
  Requests,     \* HTTP requests (model values)
  Kind,         \* Kind[r]: "execute" (/realtime/execute) or "stats"
  Driver,       \* Driver[r]: req.Target.Driver
  Malformed,    \* the requests whose body ShouldBindJSON rejects
  MemReadings,  \* numbers a device can report for memory and disk fields
  Uptimes,      \* uptime readings, as the seconds they denote
  UintWidth     \* width of Go's uint64 (a smaller one with scaled readings)

ASSUME Kind \in [Requests -> {"execute", "stats"}]
ASSUME Malformed \subseteq Requests
ASSUME UintWidth \in Nat \ {0}
ASSUME MemReadings \subseteq 0..(2^UintWidth - 1) /\ Uptimes \subseteq Nat

UintMod == 2^UintWidth

(* A field of the reply map: missing, unparsable, or a decimal number.    *)
Field == [kind : {"absent", "bad"}, n : {0}] \cup [kind : {"num"}, n : MemReadings]
UptimeField == [kind : {"absent"}, n : {0}] \cup [kind : {"num"}, n : Uptimes]

(* The first sentence of /system/resource/print.                          *)
Resource == [total : Field, free : Field, hddTotal : Field, hddFree : Field,
             uptime : UptimeField]

Calls == {"connect", "run", "system", "iface"}

VARIABLES pc, cur, served, conn, ans, reading, sys, resp

vars == <<pc, cur, served, conn, ans, reading, sys, resp>>

(* Before the device answered: every field missing.                       *)
NoReading == [total |-> [kind |-> "absent", n |-> 0], free |-> [kind |-> "absent", n |-> 0],
              hddTotal |-> [kind |-> "absent", n |-> 0],
              hddFree |-> [kind |-> "absent", n |-> 0],
              uptime |-> [kind |-> "absent", n |-> 0]]

NoRequest == "none"

(* strconv.ParseUint(s, 10, 64) into a field left 0 on error or absence. *)
ParseUint64(f) == IF f.kind = "num" THEN f.n ELSE 0

(* Mutant: the percentage computed without the total > 0 check.           *)
UsageUnguarded(total, free) ==
  [num |-> ((total - free) % UintMod) * 100, den |-> total]

(* float64(total - free) / float64(total) * 100 with uint64 subtraction, *)
(* kept as the exact quotient num / den; not set (0) when total is 0.     *)
Usage(total, free) ==
  IF total > 0 THEN [num |-> ((total - free) % UintMod) * 100, den |-> total]
               ELSE [num |-> 0, den |-> 1]

(* parseRouterOSUptime: a placeholder that returns the zero duration.     *)
ParseRouterOSUptime(u) == 0

NoSystem == [memTotal |-> 0, memFree |-> 0, memUsage |-> [num |-> 0, den |-> 1],
             diskUsage |-> [num |-> 0, den |-> 1], uptime |-> 0]

(* The decoding part of GetSystemMetrics.                                  *)
SystemMetricsOf(res) ==
  LET total == ParseUint64(res.total)
      free  == ParseUint64(res.free)
  IN  [memTotal  |-> total,
       memFree   |-> free,
       memUsage  |-> Usage(total, free),
       diskUsage |-> Usage(ParseUint64(res.hddTotal), ParseUint64(res.hddFree)),
       uptime    |-> IF res.uptime.kind = "absent" THEN 0
                     ELSE ParseRouterOSUptime(res.uptime.n)]

(* Mutant: GetStats returns on a system metrics error before the deferred *)
(* Disconnect is registered.                                               *)
AfterEarlyReturn(stage, ok) ==
  CASE stage = "connect" -> IF ~ok THEN "respond"
                            ELSE IF Kind[cur] = "execute" THEN "run" ELSE "system"
    [] stage = "run"     -> "disconnect"
    [] stage = "system"  -> IF ok THEN "iface" ELSE "respond"
    [] stage = "iface"   -> "disconnect"

(* Where the service goes after a client call: a Connect error answers at *)
(* once; otherwise every return runs the deferred Disconnect first.       *)
After(stage, ok) ==
  CASE stage = "connect" -> IF ~ok THEN "respond"
                            ELSE IF Kind[cur] = "execute" THEN "run" ELSE "system"
    [] stage = "run"     -> "disconnect"
    [] stage = "system"  -> IF ok THEN "iface" ELSE "disconnect"
    [] stage = "iface"   -> "disconnect"

(* The Status of the ExecuteCommandResponse / GetStatsResponse: success   *)
(* only when every call the service made succeeded.                       *)
ServiceStatus(a) ==
  IF /\ a["connect"] = "ok"
     /\ \/ Kind[cur] = "execute" /\ a["run"] = "ok"
        \/ Kind[cur] = "stats" /\ a["system"] = "ok" /\ a["iface"] = "ok"
    THEN "success" ELSE "error"

NoResponse == [code |-> 0, status |-> "", data |-> FALSE]
Unasked == [c \in Calls |-> "unasked"]

Init ==
  /\ pc = "idle"
  /\ cur = NoRequest
  /\ served = {}
  /\ conn = "none"
  /\ ans = Unasked
  /\ reading = NoReading
  /\ sys = NoSystem
  /\ resp = NoResponse

(* A request arrives at ExecuteCommand or GetStats of the handler. A body *)
(* the binder rejects is answered 400; an unsupported driver makes the    *)
(* service return an error, answered 500 before any connection.           *)
Receive(r) ==
  /\ pc = "idle"
  /\ r \notin served
  /\ cur' = r
  /\ served' = served \cup {r}
  /\ ans' = Unasked
  /\ reading' = NoReading
  /\ sys' = NoSystem
  /\ CASE r \in Malformed ->
            pc' = "idle" /\ resp' = [code |-> 400, status |-> "", data |-> FALSE]
       [] Driver[r] # "mikrotik" ->
            pc' = "idle" /\ resp' = [code |-> 500, status |-> "", data |-> FALSE]
       [] OTHER -> pc' = "connect" /\ resp' = NoResponse
  /\ conn' = "none"

(* Connect: routeros.DialTimeout; on success the connection is open.      *)
Connect ==
  /\ pc = "connect"
  /\ \E ok \in BOOLEAN :
       /\ ans' = [ans EXCEPT !["connect"] = IF ok THEN "ok" ELSE "failed"]
       /\ conn' = IF ok THEN "open" ELSE "none"
       /\ pc' = After("connect", ok)
  /\ UNCHANGED <<cur, served, reading, sys, resp>>

(* client.ExecuteCommand: one Run of the command.                         *)
Run ==
  /\ pc = "run"
  /\ \E ok \in BOOLEAN :
       /\ ans' = [ans EXCEPT !["run"] = IF ok THEN "ok" ELSE "failed"]
       /\ pc' = After("run", ok)
  /\ UNCHANGED <<cur, served, conn, reading, sys, resp>>

(* GetSystemMetrics: the resource print fails, answers no sentence, or    *)
(* answers one whose fields are decoded; /system/health is best effort.   *)
GetSystem ==
  /\ pc = "system"
  /\ \/ /\ ans' = [ans EXCEPT !["system"] = "failed"]
        /\ pc' = After("system", FALSE)
        /\ UNCHANGED <<reading, sys>>
     \/ \E res \in Resource :
          /\ ans' = [ans EXCEPT !["system"] = "ok"]
          /\ reading' = res
          /\ sys' = SystemMetricsOf(res)
          /\ pc' = After("system", TRUE)
  /\ UNCHANGED <<cur, served, conn, resp>>

(* GetInterfaceMetrics: /interface/print =stats fails or answers.         *)
GetIface ==
  /\ pc = "iface"
  /\ \E ok \in BOOLEAN :
       /\ ans' = [ans EXCEPT !["iface"] = IF ok THEN "ok" ELSE "failed"]
       /\ pc' = After("iface", ok)
  /\ UNCHANGED <<cur, served, conn, reading, sys, resp>>

(* The deferred client.Disconnect at the service's return.                *)
Disconnect ==
  /\ pc = "disconnect"
  /\ conn' = IF conn = "open" THEN "closed" ELSE conn
  /\ pc' = "respond"
  /\ UNCHANGED <<cur, served, ans, reading, sys, resp>>

(* The service returns its response with a nil error: the handler answers *)
(* 200 with it; data only on success.                                     *)
Respond ==
  /\ pc = "respond"
  /\ LET st == ServiceStatus(ans)
     IN  resp' = [code |-> 200, status |-> st,
                  data |-> st = "success" /\ Kind[cur] = "stats"]
  /\ pc' = "idle"
  /\ UNCHANGED <<cur, served, conn, ans, reading, sys>>

(* Every request has been answered.                                       *)
Done ==
  /\ pc = "idle"
  /\ served = Requests
  /\ UNCHANGED vars

Next ==
  \/ \E r \in Requests : Receive(r)
  \/ Connect \/ Run \/ GetSystem \/ GetIface \/ Disconnect \/ Respond
  \/ Done

Spec == Init /\ [][Next]_vars

-----------------------------------------------------------------------------
Usages == [num : Nat, den : Nat \ {0}]

TypeOK ==
  /\ pc \in {"idle", "connect", "run", "system", "iface", "disconnect", "respond"}
  /\ cur \in Requests \cup {NoRequest}
  /\ served \subseteq Requests
  /\ conn \in {"none", "open", "closed"}
  /\ ans \in [Calls -> {"unasked", "ok", "failed"}]
  /\ reading \in Resource
  /\ sys \in [memTotal : Nat, memFree : Nat, memUsage : Usages,
              diskUsage : Usages, uptime : Nat]
  /\ resp \in [code : {0, 200, 400, 500}, status : {"", "success", "error"},
               data : BOOLEAN]

(* No request leaves a routeros connection open: whenever the handler has *)
(* answered, a connection Connect opened has been closed by the deferred  *)
(* Disconnect, whichever return the service took.                         *)
ConnectionReleased ==
  pc = "idle" => conn # "open"

(* Spec section 7(b) says a field that does not decode is skipped: a      *)
(* memory usage is reported only from a decoded total and a decoded free  *)
(* memory, and it is the used share of the total, between 0 and 100       *)
(* percent.                                                                *)
MemoryUsageFromReadings ==
  (ans["system"] = "ok" /\ sys.memUsage.num # 0) =>
    /\ reading.total.kind = "num" /\ reading.free.kind = "num"
    /\ sys.memUsage.num <= 100 * sys.memUsage.den
=============================================================================
