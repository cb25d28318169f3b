-------------------------------- MODULE MCSla --------------------------------
(* Sla on a small table: its configurations choose between two runs that   *)
(* overlap and runs one at a time.                                         *)
EXTENDS Sla, TLC

OneComplaint  == {"c1"}
TwoComplaints == {"c1", "c2"}
OneAdmin  == {"a1"}
TwoAdmins == {"a1", "a2"}
OneRun  == {"w1"}
TwoRuns == {"w1", "w2"}

(* Complaints and runs are interchangeable where no property is temporal. *)
Symmetry == Permutations(Complaints) \cup Permutations(Runs)
==============================================================================
