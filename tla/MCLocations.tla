---------------------------- MODULE MCLocations ----------------------------
(* Two regions, one of which the database has, with a district each, one   *)
(* of the same name; of the mahallas whose name contains n, the two that   *)
(* stand first in the lists were removed; three requests.                  *)
EXTENDS LocationForm

MCListed     == <<<<"a">>, <<"b">>, <<"a", "x">>, <<"b", "x">>, <<"a", "x", "no">>,
                  <<"a", "x", "nu">>, <<"a", "x", "n">>, <<"a", "x", "m">>, <<"b", "x", "m">>>>
MCRemote     == {MCListed[i] : i \in DOMAIN MCListed}
MCPosition   == [p \in MCRemote |-> CHOOSE i \in DOMAIN MCListed : MCListed[i] = p]
MCMultiples  == <<2, 2, 1>>
MCRemoved    == {<<"a", "x", "no">>, <<"a", "x", "nu">>}
MCFirstRows  == {<<"a">>, <<"a", "x">>} \cup MCRemoved
MCContaining == [t \in {"a", "b", "x", "m", "n", ""} |->
                    CASE t = ""  -> {"a", "b", "x", "m", "n", "no", "nu"}
                      [] t = "n" -> {"n", "no", "nu"}
                      [] OTHER   -> {t}]
MCTyped      == <<{"a", "b", ""}, {"x"}, {"m", "n"}>>
MCScenarios  == {1 .. n : n \in Requests \cup {0}}
MCDefault    == {<<"d", "d", "d">>}

Bounds ==
    /\ changes <= IF mode = "register-page" THEN 3 ELSE 4
    /\ account = {} \/ (faults = 0 /\ UnderWay = {})
=============================================================================
