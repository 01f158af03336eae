--------------------------- MODULE MCDeviceConfig ---------------------------
(* A RouterOS router and an SSH switch are registered while one client   *)
(* pages through the devices, another reads one of them and a third runs *)
(* a command on one of them (or on an id nobody registered). Config      *)
(* requests share no state with one another, so one of them suffices.    *)
EXTENDS DeviceConfig

CONSTANTS r1, r2, l1, g1, c1, unknown

MCRequests == {r1, r2}
MCRequestIp == (r1 :> "10.0.0.1" @@ r2 :> "10.0.0.2")
MCRequestProtocol == (r1 :> "mikrotik_api" @@ r2 :> "ssh")

(* Tags, as character sequences: the router is tagged "core", the switch *)
(* "rack 2" and "core".                                                  *)
MCRequestTags == (r1 :> << <<"c","o","r","e">> >>
                  @@ r2 :> << <<"r","a","c","k"," ","2">>, <<"c","o","r","e">> >>)

(* page / page_size: missing, not a number, 1 and 2.                      *)
MCPageQueries ==
  {[kind |-> "absent", n |-> 0], [kind |-> "bad", n |-> 0],
   [kind |-> "num", n |-> 1], [kind |-> "num", n |-> 2]}

MCWords == {<<"system", "resource", "print">>, <<"export">>}
====
