--------------------------- MODULE MCWorkTracking ---------------------------
(* WorkTracking on small sets of requests.  Of the check-outs, o1 is of    *)
(* the session i1 and o2 of whatever is open; all logs are of i1.  l1 has  *)
(* the server's time and the client gives those of l2 and l3: after it, by *)
(* odd differences, which are rounded up, and by more than half an hour.   *)
EXTENDS WorkTracking

MCCheckIns  == {"i1", "i2", "i3"}
MCCheckOuts == {"o1", "o2"}
MCLogs      == {"l1", "l2", "l3"}

MCActorOf  == [r \in Requests |-> "staff"]
MCTargetOf == [r \in CheckOuts \cup Logs |-> IF r = "o2" THEN None ELSE "i1"]
MCRecordedOf ==
    [l \in Logs |-> CASE l = "l1" -> {} [] l = "l2" -> {5} [] l = "l3" -> {4, 65}]

(* Check-ins, requests around two check-outs or one, or logs alone are     *)
(* made; time passes in the second scenario.                               *)
TwoClosings == {"i1", "o1", "o2", "l1"}
MCScenarios ==
    {{"i1", "i2", "i3", "o2"}, TwoClosings, {"i1", "o2", "l1", "l2"},
     {"i1", "l1", "l2", "l3"}}

TimeMayPass == now = 0 \/ Sent \subseteq TwoClosings
=============================================================================
