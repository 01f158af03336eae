----------------------------- MODULE MCPipeline -----------------------------
(***************************************************************************)
(* Model values for Pipeline. Three device rows: a MikroTik router, an    *)
(* OLT polled by ping, and a disabled switch. The page size 20 of         *)
(* ListDevices is scaled to 2 so that the table has one row more than a   *)
(* page, as it has once a deployment passes 20 devices.                   *)
(***************************************************************************)
EXTENDS Pipeline, TLC

CONSTANTS router, olt, switch

MCDevices == {router, olt, switch}
MCEnabled == {router, olt}
MCProtocol == (router :> "mikrotik_api") @@ (olt :> "snmp") @@ (switch :> "ssh")
MCRttValues == {0, 40, 150}
MCRequestedPageSize == 1000
MCMaxPageSize == 100
MCDefaultPageSize == 2
=============================================================================
