------------------------ MODULE MCMonitoringScheduler ------------------------
(***************************************************************************)
(* Two IPs and two credentials. r1 lists ipA twice with different          *)
(* credentials, r2 replaces the inventory with ipB alone, r3 is a body     *)
(* the binder rejects. Two ticks, so polls of two collections overlap.     *)
(***************************************************************************)
EXTENDS MonitoringScheduler

CONSTANTS ipA, ipB, c1, c2, r1, r2, r3

MCPayload ==
  (r1 :> << [ip |-> ipA, cred |-> c1], [ip |-> ipB, cred |-> c1],
            [ip |-> ipA, cred |-> c2] >>)
  @@ (r2 :> << [ip |-> ipB, cred |-> c2] >>)
  @@ (r3 :> Malformed)
=============================================================================
