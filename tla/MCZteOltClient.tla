--------------------------- MODULE MCZteOltClient ---------------------------
(***************************************************************************)
(* A ZTE C320 with two cards and three PON ports answering the walks of   *)
(* ZteOltClient. The columns are uneven, as on the device: the PON status *)
(* table and the optical table do not list the same ports, one port shows *)
(* only in the ONT-count column, one PDU decodes to an unknown type, and  *)
(* the card rows come in an order where the last row is not the largest. *)
(***************************************************************************)
EXTENDS ZteOltClient

(* A PDU named base.suffix with a value of a gosnmp Go type.               *)
Pdu(base, suffix, type, v) ==
  [name |-> Oid(base \o suffix), value |-> [type |-> type, v |-> v]]

Port1 == 268632064
Port2 == 268632320
Port3 == 268632576
Ont11 == 268632065
Ont12 == 268632066
Ont21 == 268632321

MCAgent ==
  (OIDZTECardCPUUsage :>
     << Pdu(OIDZTECardCPUUsage, <<1,1,3>>, "int", 35),
        Pdu(OIDZTECardCPUUsage, <<1,1,4>>, "int", 12) >>)
  @@ (OIDZTECardTemperature :>
     << Pdu(OIDZTECardTemperature, <<1,1,3>>, "int", 41),
        Pdu(OIDZTECardTemperature, <<1,1,4>>, "null", "nil") >>)
  @@ (OIDZTECardMemoryUsage :>
     << Pdu(OIDZTECardMemoryUsage, <<1,1,3>>, "uint", 55),
        Pdu(OIDZTECardMemoryUsage, <<1,1,4>>, "uint", 20) >>)
  @@ (OIDZTECardMemoryTotal :>
     << Pdu(OIDZTECardMemoryTotal, <<1,1,3>>, "uint32", 2048),
        Pdu(OIDZTECardMemoryTotal, <<1,1,4>>, "uint32", 512) >>)
  @@ (OIDZTEPONPortAdminStatus :>
     << Pdu(OIDZTEPONPortAdminStatus, <<Port1>>, "int", 1),
        Pdu(OIDZTEPONPortAdminStatus, <<Port2>>, "int", 2) >>)
  @@ (OIDZTEPONPortOperStatus :>
     << Pdu(OIDZTEPONPortOperStatus, <<Port1>>, "int", 1),
        Pdu(OIDZTEPONPortOperStatus, <<Port2>>, "int", 2) >>)
  @@ (OIDZTEPONPortTxPower :>
     << Pdu(OIDZTEPONPortTxPower, <<Port1>>, "int", 32) >>)
  @@ (OIDZTEPONPortRxPower :>
     << Pdu(OIDZTEPONPortRxPower, <<Port1>>, "int", -215),
        Pdu(OIDZTEPONPortRxPower, <<Port2>>, "null", "nil") >>)
  @@ (OIDZTEPONPortONTCount :>
     << Pdu(OIDZTEPONPortONTCount, <<Port1>>, "uint", 2),
        Pdu(OIDZTEPONPortONTCount, <<Port3>>, "uint", 0) >>)
  @@ (OIDZTEONTSerialNumber :>
     << Pdu(OIDZTEONTSerialNumber, <<Ont11>>, "octets", "ZTEG"),
        Pdu(OIDZTEONTSerialNumber, <<Ont12>>, "octets", "ZTEG"),
        Pdu(OIDZTEONTSerialNumber, <<Ont21>>, "octets", "ZTEG") >>)
  @@ (OIDZTEONTOperStatus :>
     << Pdu(OIDZTEONTOperStatus, <<Ont11>>, "int", 1),
        Pdu(OIDZTEONTOperStatus, <<Ont21>>, "int", 2) >>)
  @@ (OIDZTEONTRxPower :>
     << Pdu(OIDZTEONTRxPower, <<Ont11>>, "int", -182) >>)
  @@ (OIDZTEONTTxPower :>
     << Pdu(OIDZTEONTTxPower, <<Ont12>>, "int", 25) >>)
  @@ (OIDZTEONTDistance :>
     << Pdu(OIDZTEONTDistance, <<Ont11>>, "int", 1200),
        Pdu(OIDZTEONTDistance, <<Ont21>>, "int", 350) >>)

MCUptimeTicks == 123456789

MCPonPortRequests == {-1, 0, Port1}
=============================================================================
