------------------------------ MODULE PollAlert ------------------------------
(***************************************************************************)
(* What the poll-dispatch-collect-alert pipeline promises, without         *)
(* processes or buses (spec sections 1 and 4): polls are scheduled only   *)
(* for enabled devices, a poll measures one outcome of its device, a      *)
(* measurement may be lost before it is evaluated (the bus is             *)
(* at-most-once and a process may exit under it), and an evaluated        *)
(* measurement raises exactly the alerts its rules ask for, once.         *)
(*                                                                         *)
(* scheduled: the polls dispatched; measured: the polls whose outcome is  *)
(* known and not lost; outcome[t]: that outcome; decided: the polls the   *)
(* rules were evaluated for; alerts: the bag of alerts raised.            *)
(***************************************************************************)
EXTENDS PipelineTypes

VARIABLES scheduled, measured, outcome, decided, alerts

absVars == <<scheduled, measured, outcome, decided, alerts>>

Outcomes == [success : BOOLEAN, rtt : RttValues]

(* Spec 4: "High Latency" when the round trip exceeds 100 ms, "Device     *)
(* Down" when the device did not answer.                                   *)
AlertsFor(res) ==
  {r \in RuleIds : \/ r = "rule-1" /\ res.rtt > 100
                   \/ r = "rule-2" /\ ~res.success}

Init ==
  /\ scheduled = {}
  /\ measured = {}
  /\ outcome \in [Tasks -> Outcomes]
  /\ decided = {}
  /\ alerts = EmptyBag

Schedule(t) ==
  /\ t.device_id \in Enabled
  /\ t \notin scheduled
  /\ scheduled' = scheduled \cup {t}
  /\ UNCHANGED <<measured, outcome, decided, alerts>>

Measure(t) ==
  /\ t \in scheduled \ (measured \cup decided)
  /\ \E res \in Outcomes : outcome' = [outcome EXCEPT ![t] = res]
  /\ measured' = measured \cup {t}
  /\ UNCHANGED <<scheduled, decided, alerts>>

(* Measurements not yet evaluated disappear together, as when the process *)
(* holding them exits.                                                     *)
Lose(S) ==
  /\ S # {}
  /\ S \subseteq measured \ decided
  /\ measured' = measured \ S
  /\ UNCHANGED <<scheduled, outcome, decided, alerts>>

Decide(t) ==
  /\ t \in measured \ decided
  /\ decided' = decided \cup {t}
  /\ alerts' = alerts (+) SetToBag({[task |-> t, rule |-> r] : r \in AlertsFor(outcome[t])})
  /\ UNCHANGED <<scheduled, measured, outcome>>

Next ==
  \/ \E t \in Tasks : Schedule(t) \/ Measure(t) \/ Decide(t)
  \/ \E S \in SUBSET Tasks : Lose(S)

Spec == Init /\ [][Next]_absVars
=============================================================================
