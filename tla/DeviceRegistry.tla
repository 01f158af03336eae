--------------------------- MODULE DeviceRegistry ---------------------------
(***************************************************************************)
(* Device registration: DeviceHandler.RegisterDevice (POST               *)
(* /api/v1/devices) calls deviceService.RegisterDevice, which looks the  *)
(* IP address up with GetByIPAddress and then Creates the row. gin serves *)
(* every request in its own goroutine, so requests interleave between the *)
(* lookup and the insert; the devices table has no unique index on        *)
(* ip_address.                                                             *)
(***************************************************************************)
EXTENDS FiniteSets, TagArray

CONSTANTS
  Requests,   \* concurrent registration requests (model values)
  RequestIp,  \* the ip_address of each request
  RequestProtocol, \* the protocol of each request
  RequestTags, \* the tags of each request, each a sequence of characters
  DbErrors    \* whether a query of the devices table can fail

ASSUME DbErrors \in BOOLEAN

VARIABLES
  devices,    \* rows of the devices table: id (the creating request), IP
              \* protocol and the text[] Postgres stored for the tags
  reqPc       \* where each request's goroutine is

vars == <<devices, reqPc>>

Init ==
  /\ devices = {}
  /\ reqPc = [r \in Requests |-> "new"]

(* GetByIPAddress finds a row: "device with this IP address already       *)
(* exists", answered with HTTP 500.                                        *)
LookupFound(r) ==
  /\ reqPc[r] = "new"
  /\ \E d \in devices : d.ip = RequestIp[r]
  /\ reqPc' = [reqPc EXCEPT ![r] = "rejected"]
  /\ UNCHANGED devices

(* GetByIPAddress finds no row (gorm.ErrRecordNotFound).                  *)
LookupMissed(r) ==
  /\ reqPc[r] = "new"
  /\ ~\E d \in devices : d.ip = RequestIp[r]
  /\ reqPc' = [reqPc EXCEPT ![r] = "checked"]
  /\ UNCHANGED devices

(* GetByIPAddress fails; RegisterDevice discards the error                 *)
(* (existing, _ := ...) and goes on as if no row existed.                  *)
LookupFailed(r) ==
  /\ DbErrors
  /\ reqPc[r] = "new"
  /\ reqPc' = [reqPc EXCEPT ![r] = "checked"]
  /\ UNCHANGED devices

(* repo.Create inserts the row (Enabled true, PollingInterval defaulted) *)
(* with the tags as the literal StringArray.Value writes; Postgres        *)
(* rejects a malformed literal, and an insert error is returned.          *)
Create(r) ==
  /\ reqPc[r] = "checked"
  /\ \/ LET lit == PgArrayIn(Value(RequestTags[r]))
        IN  /\ devices' = IF lit.ok
                            THEN devices \cup {[id |-> r, ip |-> RequestIp[r],
                                                protocol |-> RequestProtocol[r],
                                                tags |-> lit.arr]}
                            ELSE devices
            /\ reqPc' = [reqPc EXCEPT ![r] = IF lit.ok THEN "created" ELSE "failed"]
     \/ /\ DbErrors
        /\ reqPc' = [reqPc EXCEPT ![r] = "failed"]
        /\ UNCHANGED devices

Done == \A r \in Requests : reqPc[r] \in {"rejected", "created", "failed"}

Next ==
  \/ \E r \in Requests : LookupFound(r) \/ LookupMissed(r) \/ LookupFailed(r) \/ Create(r)
  \/ Done /\ UNCHANGED vars

Spec == Init /\ [][Next]_vars

(* Spec 3 (Device): the IP address is unique among the devices. The      *)
(* check-then-create of RegisterDevice is meant to keep it so.             *)
IpUniqueAmongDevices ==
  \A d1, d2 \in devices : d1.ip = d2.ip => d1 = d2
====
