---------------------------- MODULE ZteOltClient ----------------------------
(***************************************************************************)
(* One request of the OLT feature: the gin Handler's checks, then one   *)
(* call of the service (olt.oltService) on a ZTE C320: connectToOLT,     *)
(* then one of ZTEOLTClient.GetSystemMetrics,                *)
(* GetPONPortMetrics or GetONTMetrics, over the SNMPClient Get and Walk.  *)
(*                                                                         *)
(* Each method ranges over a Go map of walk OIDs, so the walks run in an  *)
(* order the runtime picks; each walk hands the PDUs of one agent table   *)
(* column to a callback that accumulates them into the result. A BulkWalk *)
(* can fail after any number of PDUs were delivered. The agent's answers  *)
(* are the constant Agent; the call's progress is the state.              *)
(***************************************************************************)
EXTENDS Integers, Sequences, FiniteSetsExt, TLC

CONSTANTS
  Agent,           \* base OID -> the PDUs a BulkWalk of it returns, in order
  UptimeTicks,     \* sysUpTime.0 of the Get, in hundredths of a second
  PonPortRequests  \* ponPortIndex values the ONT handler can pass

(* An OID as gosnmp names it: an optional leading dot and its arcs.       *)
Oid(arcs) == [lead |-> TRUE, arcs |-> arcs]

(* The OID constants of the zte package.                                   *)
OIDZTECardCPUUsage       == <<1,3,6,1,4,1,3902,1015,2,1,1,3,1,9,1,1>>
OIDZTECardTemperature    == <<1,3,6,1,4,1,3902,1015,2,1,1,3,1,8,1,1>>
OIDZTECardMemoryUsage    == <<1,3,6,1,4,1,3902,1015,2,1,1,3,1,11,1,1>>
OIDZTECardMemoryTotal    == <<1,3,6,1,4,1,3902,1015,2,1,1,3,1,19,1,1>>
OIDZTEPONPortAdminStatus == <<1,3,6,1,4,1,3902,1015,3,1,2,1,3>>
OIDZTEPONPortOperStatus  == <<1,3,6,1,4,1,3902,1015,3,1,2,1,4>>
OIDZTEPONPortTxPower     == <<1,3,6,1,4,1,3902,1015,3,1,3,1,12>>
OIDZTEPONPortRxPower     == <<1,3,6,1,4,1,3902,1015,3,1,3,1,10>>
OIDZTEPONPortONTCount    == <<1,3,6,1,4,1,3902,1015,3,1,3,1,13>>
OIDZTEONTSerialNumber    == <<1,3,6,1,4,1,3902,1015,3,1,13,1,1>>
OIDZTEONTOperStatus      == <<1,3,6,1,4,1,3902,1015,3,1,13,1,3>>
OIDZTEONTDistance        == <<1,3,6,1,4,1,3902,1015,3,1,13,1,4>>
OIDZTEONTRxPower         == <<1,3,6,1,4,1,3902,1015,3,1,13,1,5>>
OIDZTEONTTxPower         == <<1,3,6,1,4,1,3902,1015,3,1,13,1,6>>

(* The keys of the walkOIDs map of each method.                            *)
CardOids == {OIDZTECardCPUUsage, OIDZTECardTemperature,
             OIDZTECardMemoryUsage, OIDZTECardMemoryTotal}
PonOids  == {OIDZTEPONPortAdminStatus, OIDZTEPONPortOperStatus,
             OIDZTEPONPortTxPower, OIDZTEPONPortRxPower, OIDZTEPONPortONTCount}
OntOids  == {OIDZTEONTSerialNumber, OIDZTEONTOperStatus, OIDZTEONTRxPower,
             OIDZTEONTTxPower, OIDZTEONTDistance}

WalkOids == [system |-> CardOids, pon |-> PonOids, ont |-> OntOids]

(* The Go value types gosnmp decodes an integer-like PDU to.               *)
IntTypes == {"int", "uint", "uint32", "uint64", "int64"}

(* pduToInt: an integer of a known type, else 0. Agent values stay far    *)
(* from 2^63, where int(uint64) would wrap.                                *)
PduToInt(pdu) == IF pdu.value.type \in IntTypes THEN pdu.value.v ELSE 0

(* float64(raw) / snmpPowerScale: the 0.1 dBm reading as the quotient it  *)
(* is, kept exact.                                                         *)
snmpPowerScale == 10
(* Mutant: the reading taken as 0.01 dBm units.                            *)
DBmCenti(raw) == [num |-> raw, den |-> 100]
DBm(raw) == [num |-> raw, den |-> snmpPowerScale]

(* extractLastOIDIndex: after stripping a leading dot from both, the OID  *)
(* must start with base + "."; the index is its last arc, -1 otherwise.   *)
ExtractLastOIDIndex(oid, base) ==
  IF /\ Len(base) < Len(oid.arcs)
     /\ SubSeq(oid.arcs, 1, Len(base)) = base
  THEN oid.arcs[Len(oid.arcs)]
  ELSE -1

(* Zero values of the result structs.                                      *)
NoSystem == [uptime |-> 0, cpu |-> 0, temp |-> 0, memPct |-> 0,
             memTotalKB |-> 0, memUsedKB |-> 0]
NewPort  == [admin |-> 0, oper |-> 0, tx |-> DBm(0), rx |-> DBm(0), ontCount |-> 0]
NewOnt(index) ==
  [ponPortIndex |-> index, ontIndex |-> index, oper |-> 0,
   rx |-> DBm(0), tx |-> DBm(0), distance |-> 0]

(* GetSystemMetrics' callbacks: each keeps the largest value seen in its  *)
(* field, the field starting at 0; memory total arrives in MB.            *)
CardField == (OIDZTECardCPUUsage :> "cpu") @@ (OIDZTECardTemperature :> "temp")
               @@ (OIDZTECardMemoryUsage :> "memPct")
               @@ (OIDZTECardMemoryTotal :> "memTotalKB")
CardValue(base, pdu) ==
  IF base = OIDZTECardMemoryTotal THEN PduToInt(pdu) * 1024 ELSE PduToInt(pdu)
(* Mutant: the callback stores every value instead of the larger one.      *)
CardUpdateLast(m, base, pdu) == [m EXCEPT ![CardField[base]] = CardValue(base, pdu)]
CardUpdate(m, base, pdu) ==
  IF CardValue(base, pdu) > m[CardField[base]]
    THEN [m EXCEPT ![CardField[base]] = CardValue(base, pdu)]
    ELSE m

(* GetPONPortMetrics' setters: the field each column writes, and what.    *)
PonField == (OIDZTEPONPortAdminStatus :> "admin") @@ (OIDZTEPONPortOperStatus :> "oper")
              @@ (OIDZTEPONPortTxPower :> "tx") @@ (OIDZTEPONPortRxPower :> "rx")
              @@ (OIDZTEPONPortONTCount :> "ontCount")
PonValue(base, pdu) ==
  IF base \in {OIDZTEPONPortTxPower, OIDZTEPONPortRxPower}
    THEN DBm(PduToInt(pdu)) ELSE PduToInt(pdu)

(* GetONTMetrics' setters; the serial-number column sets nothing.          *)
OntField == (OIDZTEONTOperStatus :> "oper") @@ (OIDZTEONTRxPower :> "rx")
              @@ (OIDZTEONTTxPower :> "tx") @@ (OIDZTEONTDistance :> "distance")
OntValue(base, pdu) ==
  IF base \in {OIDZTEONTTxPower, OIDZTEONTRxPower}
    THEN DBm(PduToInt(pdu)) ELSE PduToInt(pdu)

(* The callbacks of GetPONPortMetrics and GetONTMetrics: a PDU whose name *)
(* yields no index is skipped; the record of the index is created on its  *)
(* first sight in any walk, then the column's setter writes its field.    *)
(* ponPortIndex is not used: the filter is left empty.                     *)
LazyCreate(r, k, new) == IF k \in DOMAIN r THEN r ELSE r @@ (k :> new)

(* Mutant: a fresh record for every PDU, without the exists check.         *)
PonAccumulateOverwrite(r, base, pdu) ==
  LET k == ExtractLastOIDIndex(pdu.name, base)
  IN  IF k < 0 THEN r
      ELSE [(k :> NewPort) @@ r EXCEPT ![k][PonField[base]] = PonValue(base, pdu)]

PonAccumulate(r, base, pdu) ==
  LET k == ExtractLastOIDIndex(pdu.name, base)
  IN  IF k < 0 THEN r
      ELSE [LazyCreate(r, k, NewPort) EXCEPT ![k][PonField[base]] = PonValue(base, pdu)]

OntAccumulate(r, base, pdu) ==
  LET k == ExtractLastOIDIndex(pdu.name, base)
  IN  IF k < 0 THEN r
      ELSE IF base = OIDZTEONTSerialNumber THEN LazyCreate(r, k, NewOnt(k))
      ELSE [LazyCreate(r, k, NewOnt(k)) EXCEPT ![k][OntField[base]] = OntValue(base, pdu)]

(* Memory used in KB from the largest total and the largest percentage,   *)
(* computed only when both are positive (truncated like int64(float)).    *)
WithMemoryUsed(m) ==
  IF m.memTotalKB > 0 /\ m.memPct > 0
    THEN [m EXCEPT !.memUsedKB = (m.memTotalKB * m.memPct) \div 100]
    ELSE m

-----------------------------------------------------------------------------
VARIABLES
  op,            \* the service method of the current request
  ponPortIndex,  \* the ponPortIndex argument of GetONTs
  pc,            \* "idle", "get", "walk", "ok" or "error"
  todo,          \* walk OIDs the range over walkOIDs has not reached yet
  walking,       \* the OID being walked, <<>> between walks
  pos,           \* index of the next PDU the BulkWalk hands to the callback
  failed,        \* some Walk of this call returned an error
  sys,           \* the OLTSystemMetrics being filled
  rows,          \* portsByIndex or ontsByKey
  code           \* HTTP status of the last response, 0 before any

vars == <<op, ponPortIndex, pc, todo, walking, pos, failed, sys, rows, code>>

NoOid == <<>>

Init ==
  /\ op = "none"
  /\ ponPortIndex = 0
  /\ pc = "idle"
  /\ todo = {}
  /\ walking = NoOid
  /\ pos = 1
  /\ failed = FALSE
  /\ sys = NoSystem
  /\ rows = <<>>
  /\ code = 0

(* ShouldBindJSON rejects the body: 400, the service is not called.      *)
BindRejected ==
  /\ pc = "idle"
  /\ code' = 400
  /\ UNCHANGED <<op, ponPortIndex, pc, todo, walking, pos, failed, sys, rows>>

(* GetONTs with pon_port < 0: 400, the service is not called.             *)
PonPortRejected(p) ==
  /\ pc = "idle"
  /\ p < 0
  /\ code' = 400
  /\ UNCHANGED <<op, ponPortIndex, pc, todo, walking, pos, failed, sys, rows>>

(* An HTTP request passes the handler's checks and reaches a method of    *)
(* oltService, which builds a fresh ZTEOLTClient and Connects it (an      *)
(* error ends the request), then calls the client method; only            *)
(* GetSystemMetrics starts with a Get.                                     *)
Call(o, p) ==
  /\ pc = "idle"
  /\ p >= 0
  /\ op' = o
  /\ ponPortIndex' = p
  /\ todo' = WalkOids[o]
  /\ pc' \in {"error", IF o = "system" THEN "get" ELSE "walk"}
  /\ UNCHANGED <<walking, pos, failed, sys, rows, code>>

(* Get of sysDescr, sysName and sysUpTime: an error aborts the method;    *)
(* TimeTicks in hundredths of a second become seconds.                    *)
GetScalars ==
  /\ pc = "get"
  /\ \/ pc' = "error" /\ UNCHANGED sys
     \/ pc' = "walk" /\ sys' = [sys EXCEPT !.uptime = UptimeTicks \div 100]
  /\ UNCHANGED <<op, ponPortIndex, todo, walking, pos, failed, rows, code>>

(* The range over walkOIDs reaches its next key, in the runtime's order.  *)
BeginWalk(b) ==
  /\ pc = "walk"
  /\ walking = NoOid
  /\ b \in todo
  /\ walking' = b
  /\ pos' = 1
  /\ todo' = todo \ {b}
  /\ UNCHANGED <<op, ponPortIndex, pc, failed, sys, rows, code>>

(* BulkWalk hands the next PDU of the column to the callback.              *)
Deliver ==
  /\ pc = "walk"
  /\ walking # NoOid
  /\ pos <= Len(Agent[walking])
  /\ LET pdu == Agent[walking][pos]
     IN  CASE op = "system" -> sys' = CardUpdate(sys, walking, pdu) /\ UNCHANGED rows
           [] op = "pon"    -> rows' = PonAccumulate(rows, walking, pdu) /\ UNCHANGED sys
           [] op = "ont"    -> rows' = OntAccumulate(rows, walking, pdu) /\ UNCHANGED sys
  /\ pos' = pos + 1
  /\ UNCHANGED <<op, ponPortIndex, pc, todo, walking, failed, code>>

(* The walk ends after the last row of the column.                         *)
EndWalk ==
  /\ pc = "walk"
  /\ walking # NoOid
  /\ pos > Len(Agent[walking])
  /\ walking' = NoOid
  /\ UNCHANGED <<op, ponPortIndex, pc, todo, pos, failed, sys, rows, code>>

(* A request of the BulkWalk times out (after gosnmp's retries) or fails, *)
(* before or after the PDUs delivered so far. GetSystemMetrics ignores    *)
(* the error and goes on; the other two methods return it.                 *)
WalkFails ==
  /\ pc = "walk"
  /\ walking # NoOid
  /\ failed' = TRUE
  /\ IF op = "system"
       THEN walking' = NoOid /\ UNCHANGED pc
       ELSE pc' = "error" /\ UNCHANGED walking
  /\ UNCHANGED <<op, ponPortIndex, todo, pos, sys, rows, code>>

(* The range is over: the method returns its result.                       *)
Return ==
  /\ pc = "walk"
  /\ walking = NoOid
  /\ todo = {}
  /\ pc' = "ok"
  /\ sys' = IF op = "system" THEN WithMemoryUsed(sys) ELSE sys
  /\ UNCHANGED <<op, ponPortIndex, todo, walking, pos, failed, rows, code>>

(* The handler writes the response, 200 with the result or 500 with the  *)
(* error; the client was Disconnected by the deferred call and is         *)
(* dropped. The next request starts afresh.                                *)
Respond ==
  /\ pc \in {"ok", "error"}
  /\ code' = IF pc = "ok" THEN 200 ELSE 500
  /\ op' = "none" /\ ponPortIndex' = 0 /\ pc' = "idle" /\ todo' = {}
  /\ walking' = NoOid /\ pos' = 1 /\ failed' = FALSE
  /\ sys' = NoSystem /\ rows' = <<>>

Next ==
  \/ \E o \in {"system", "pon"} : Call(o, 0)
  \/ \E p \in PonPortRequests : Call("ont", p) \/ PonPortRejected(p)
  \/ BindRejected
  \/ GetScalars
  \/ \E b \in todo : BeginWalk(b)
  \/ Deliver
  \/ EndWalk
  \/ WalkFails
  \/ Return
  \/ Respond

Spec == Init /\ [][Next]_vars

-----------------------------------------------------------------------------
(* What spec 4.3 asks of each method, stated over the agent's tables: a   *)
(* column's row belongs to the index that is the last arc of its OID.     *)
RowsOf(b) == {Agent[b][i] : i \in 1..Len(Agent[b])}
IndexesOf(b) == {p.name.arcs[Len(p.name.arcs)] : p \in RowsOf(b)}
RowAt(b, k) ==
  Agent[b][Max({i \in 1..Len(Agent[b]) :
                  Agent[b][i].name.arcs[Len(Agent[b][i].name.arcs)] = k})]

(* The PON port table: a record for every index any column has, each      *)
(* field from its column's row for that index, or the zero value.          *)
RefPorts ==
  [k \in UNION {IndexesOf(b) : b \in PonOids} |->
     [f \in DOMAIN NewPort |->
        LET b == CHOOSE c \in PonOids : PonField[c] = f
        IN  IF k \in IndexesOf(b) THEN PonValue(b, RowAt(b, k)) ELSE NewPort[f]]]

(* The ONT table, keyed by the raw packed index.                           *)
RefOnts ==
  [k \in UNION {IndexesOf(b) : b \in OntOids} |->
     [f \in DOMAIN NewOnt(k) |->
        IF \E c \in DOMAIN OntField : OntField[c] = f
          THEN LET b == CHOOSE c \in DOMAIN OntField : OntField[c] = f
               IN  IF k \in IndexesOf(b) THEN OntValue(b, RowAt(b, k)) ELSE NewOnt(k)[f]
          ELSE NewOnt(k)[f]]]

(* The maximum of a card column, 0 when the column has no rows.            *)
ColumnMax(b) == IF RowsOf(b) = {} THEN 0 ELSE Max({PduToInt(p) : p \in RowsOf(b)})

RefSystem ==
  LET total == ColumnMax(OIDZTECardMemoryTotal) * 1024
      pct   == ColumnMax(OIDZTECardMemoryUsage)
  IN  [uptime |-> UptimeTicks \div 100,
       cpu |-> ColumnMax(OIDZTECardCPUUsage),
       temp |-> ColumnMax(OIDZTECardTemperature),
       memPct |-> pct, memTotalKB |-> total,
       memUsedKB |-> IF total = 0 THEN 0 ELSE (total * pct) \div 100]

Power == [num : Int, den : {snmpPowerScale}]

TypeOK ==
  /\ op \in {"none", "system", "pon", "ont"}
  /\ ponPortIndex \in {0} \cup PonPortRequests
  /\ code \in {0, 200, 400, 500}
  /\ pc \in {"idle", "get", "walk", "ok", "error"}
  /\ todo \subseteq CardOids \cup PonOids \cup OntOids
  /\ walking \in CardOids \cup PonOids \cup OntOids \cup {NoOid}
  /\ pos \in Nat \ {0}
  /\ failed \in BOOLEAN
  /\ sys \in [uptime : Int, cpu : Int, temp : Int, memPct : Int,
              memTotalKB : Int, memUsedKB : Int]
  /\ DOMAIN rows \subseteq Nat
  /\ \A k \in DOMAIN rows :
       rows[k] \in [admin : Int, oper : Int, tx : Power, rx : Power, ontCount : Int]
                     \cup [ponPortIndex : Int, ontIndex : Int, oper : Int,
                           rx : Power, tx : Power, distance : Int]

(* Spec 4.3: a PON port or (unfiltered) ONT list that GetPONPortMetrics   *)
(* or GetONTMetrics returns is the agent's whole table, whatever order    *)
(* the map range walks the columns in: no walk failed, every index seen   *)
(* in any column has one record, and every field holds its column's       *)
(* value (lazy creation in the walk callbacks, abort on a Walk error).     *)
TableCollectionIsAuthoritative ==
  (pc = "ok" /\ op \in {"pon", "ont"} /\ ponPortIndex = 0)
    => /\ ~failed
       /\ rows = IF op = "pon" THEN RefPorts ELSE RefOnts

(* Spec 4.3: when every walk succeeded, the system metrics are the        *)
(* maxima of the card columns, uptime in seconds and memory used derived  *)
(* from them, whatever the walk order (the max-keeping callbacks of       *)
(* GetSystemMetrics and the memory-used computation).                      *)
SystemMetricsAreMaxima ==
  (pc = "ok" /\ op = "system" /\ ~failed) => sys = RefSystem

(* Spec 4.3: a WALK failure aborts the method, so GetSystemMetrics never  *)
(* returns metrics after one of its walks failed.                          *)
SystemWalkFailureAborts ==
  (pc = "ok" /\ op = "system") => ~failed

=============================================================================
