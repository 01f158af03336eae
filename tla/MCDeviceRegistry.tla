-------------------------- MODULE MCDeviceRegistry --------------------------
(* Two clients register the same router at once.                          *)
EXTENDS DeviceRegistry

CONSTANTS r1, r2, ip

MCRequests == {r1, r2}
MCRequestIp == [r \in MCRequests |-> ip]
MCRequestProtocol == [r \in MCRequests |-> "mikrotik_api"]
MCRequestTags == [r \in MCRequests |-> <<>>]
====
