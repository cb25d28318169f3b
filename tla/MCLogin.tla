------------------------------ MODULE MCLogin ------------------------------
(* Login on small sets of requests.  Requests that differ in nothing are   *)
(* made in the order of their numbers.  One code, or two, are tried once   *)
(* or several times, a challenge is, and calls fill the windows; time,     *)
(* faults and changes of the user come with the smaller of these.          *)
EXTENDS Login

MCRequests == {"a1", "a2", "a3", "v1", "v2", "v3", "v4", "v5", "c1", "c2", "c3"}
MCOpOf == [r \in Requests |->
             CASE r \in {"a1", "a2", "a3"} -> "ask" [] r \in {"c1", "c2", "c3"} -> "confirm"
               [] OTHER -> "verify"]
MCFlowOf == [r \in Requests |-> IF r = "v2" THEN "resident" ELSE "app"]
MCChallengeOf == [r \in Requests |-> "v1"]
MCMax     == [op \in {"ask", "verify"} |-> IF op = "ask" THEN 2 ELSE 3]
MCWindow  == [op \in {"ask", "verify"} |-> IF op = "ask" THEN 1 ELSE 2]

Prefixes(r, s, t) ==
    {{}, {r}, {r, s}, {r, s, t}}
With(F, G) == {S \cup T : S \in F, T \in G}

Asking     == Prefixes("a1", "a2", "a3")
Twice      == With({{}, {"a1"}, {"a1", "a2"}}, {{}, {"v1"}, {"v1", "v2"}})
Guessing   == With({{}, {"a1"}}, Prefixes("v1", "v2", "v3"))
Confirming == With({{}, {"a1"}, {"a1", "v1"}}, Prefixes("c1", "c2", "c3"))
Flooding   == Prefixes("v1", "v2", "v3")
                \cup With({{"v1", "v2", "v3"}}, {{}, {"v4"}, {"v4", "v5"}})

MCScenarios == Asking \cup Twice \cup Guessing \cup Confirming \cup Flooding

Small  == With({{}, {"a1"}}, {{}, {"v1"}, {"v1", "c1"}})
Bounds ==
    /\ now = 0 \/ Sent \in Asking \cup Flooding \cup Small
    /\ faults = 0 \/ Sent \in Small \cup {{"a1", "v1", "v2"}}
    /\ changes = 0 \/ Sent \in Small
=============================================================================
