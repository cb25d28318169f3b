---------------------------- MODULE MCComplaints ----------------------------
(* Complaints on small sets of requests.  The owner, a resident, files c1, *)
(* c3 and c4; the staff member, once an administrator, files c2.  u1 and   *)
(* r1 are about c1; r2 is the answer of c2's own author.  The staff member *)
(* is promoted and demoted while the tokens of requests keep their roles.  *)
EXTENDS Complaints, TLC

MCUsers    == {"owner", "staff"}
MCMahallas == {"m1", "m2"}
OneAdmin   == {"staff"}

AllCreates   == {"c1", "c2", "c3", "c4"}
OneUpdate    == {"u1"}
BothResponds == {"r1", "r2"}

TwoMedia == {"photo", "scan"}

Parameters(f) == [r \in Requests |-> f[r]]

MCActorOf == Parameters([c1 |-> "owner", c2 |-> "staff", c3 |-> "owner", c4 |-> "owner", u1 |-> "staff",
                         r1 |-> "staff", r2 |-> "staff"])
MCRoleOf == Parameters([c1 |-> "RESIDENT", c2 |-> "ADMIN", c3 |-> "RESIDENT", c4 |-> "RESIDENT",
                        u1 |-> "STAFF",
                        r1 |-> "STAFF", r2 |-> "STAFF"])
MCComplaintOf == Parameters([c1 |-> "c1", c2 |-> "c2", c3 |-> "c3", c4 |-> "c4", u1 |-> "c1",
                             r1 |-> "c1", r2 |-> "c2"])
MCStatusOf == Parameters([c1 |-> "NEW", c2 |-> "NEW", c3 |-> "NEW", c4 |-> "NEW", u1 |-> "REJECTED",
                          r1 |-> "ANSWERED", r2 |-> "ANSWERED"])
MCMahallaOf == [c \in Creates |-> CASE c = "c1" -> "m2"
                                   [] c = "c2" -> "m1"
                                   [] c = "c3" -> "none"
                                   [] c = "c4" -> "m1"]
MCMediaOf   == [c \in Creates |-> IF c = "c1" THEN {} ELSE Media]
MCUploaderOf == [m \in Media |-> IF m = "photo" THEN "owner" ELSE "staff"]

(* The requests about c1, or the creations that want the same files, or c2 *)
(* and the answer of its own author, with a move of a person or a fault.   *)
(* The owner lives in m2 until he is moved.                                *)
OneStory ==
    LET made == {r \in Requests : pc[r] # "unsent"} IN
    /\ moves + faults <= 1
    /\ moves = 0 => belongs["owner"] = "m2"
    /\ \/ made \subseteq {"c1", "u1", "r1"} /\ elsewhere = {}
       \/ /\ made \subseteq {"c2", "c3", "c4"} \/ made \subseteq {"c2", "r2"}
          /\ moves = 0 /\ belongs["staff"] = "none"
=============================================================================
