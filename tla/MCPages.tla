------------------------------ MODULE MCPages ------------------------------
(* Any page: two acts in one tab, three on one complaint, or the loads of  *)
(* two tabs with signing in and out.                                       *)
EXTENDS Pages

Offers == [n \in 0 .. 4 |-> IF n = 0 THEN AllPages ELSE {List, PanelUsers, LoginPage}]

Of(acts) == {r \in Runs : run[r].act \in acts}
Acts     == Runs \ Of({"open", "sign-in"})
Deleted  == {run[r].row : r \in Of({"delete"})}

Bounds ==
    /\ Acts # {} => /\ Of({"open"}) = {1} /\ Of({"sign-in"}) = {}
                    /\ tab[2] = Fresh(LoginPage)
                    /\ Cardinality(Acts) >= 2 => run[1].tab = 1
                    /\ Cardinality(Acts) = 2 =>
                          /\ faults = 0 \/ stored \in valid
                          /\ Fills = 2 => faults = 0 /\ stored \in valid
                    /\ Cardinality(Acts) = 3 =>
                          /\ run[1].page = MahallaComplaints /\ run[1].at = "ended"
                          /\ Fills = 1 /\ Cardinality(rows) = 1
                          /\ faults = 0 /\ stored \in valid
                    /\ rows \cup Deleted = FirstRows \/ "respond" \in run[1].page.acts
    /\ Acts = {} => /\ Len(run) <= 3 /\ rows = FirstRows
                    /\ Fills = 0 \/ Len(run) = 1
                    /\ Cardinality(Of({"open"})) <= 2
                    /\ (\E r \in Runs : run[r].page.calls > 1) => Len(run) <= 2 /\ Of({"open"}) = {1}
                    /\ \A t \in Tabs : tab[t].page.acts \in {{}, {"sign-in"}} \/ Len(run) = 1
=============================================================================
