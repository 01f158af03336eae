------------------------ MODULE MCMikrotikExecution -------------------------
(***************************************************************************)
(* Four requests: a command, a stats request, a stats request for an      *)
(* unsupported driver and a body the binder rejects. Memory and disk      *)
(* fields range over missing, unparsable, 0 and two sizes, so free may    *)
(* exceed total; uptimes are 0s and 5m30s.                                 *)
(***************************************************************************)
EXTENDS MikrotikExecution

CONSTANTS e1, s1, s2, m1

MCRequests == {e1, s1, s2, m1}
MCKind == [r \in MCRequests |-> IF r = e1 THEN "execute" ELSE "stats"]
MCDriver == [r \in MCRequests |-> IF r = s2 THEN "ssh" ELSE "mikrotik"]
MCMalformed == {m1}
MCMemReadings == {0, 1024, 4096}
MCUptimes == {0, 330}
MCUintWidth == 16
=============================================================================
