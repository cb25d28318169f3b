----------------------------- MODULE MCAccounts -----------------------------
(* Accounts with two users and two mahallas at first: registrations with   *)
(* one phone number, three updates of a member of the staff, the removal   *)
(* of users and of mahallas with what may overlap them, and a session that *)
(* is refreshed and ended.                                                 *)
EXTENDS Accounts

MCRequests == {"register", "create", "toResident", "toStaff", "move", "dial", "dismiss",
               "leave", "admin", "login", "login2", "refresh", "refresh2", "logout",
               "rename", "shift", "clash", "reopen", "close"}
MCOpOf == [r \in Requests |->
    CASE r = "register" -> "register"
      [] r \in {"create", "admin"} -> "createUser"
      [] r \in {"toResident", "toStaff", "move", "dial"} -> "updateUser"
      [] r \in {"dismiss", "leave"} -> "removeUser"
      [] r \in {"login", "login2"} -> "login"
      [] r \in {"refresh", "refresh2"} -> "refresh"
      [] r = "logout" -> "logout"
      [] r \in {"rename", "shift"} -> "updateMahalla"
      [] r \in {"clash", "reopen"} -> "createMahalla"
      [] r = "close" -> "removeMahalla"]

Row(p, r, h) == [phone |-> p, role |-> r, home |-> h]
MCUsers == {"staff", "super", "new1", "new2", "new3"}
MCFirstUsers == [u \in {"staff", "super"} |->
                    IF u = "staff" THEN Row("p1", "STAFF", {"m1"})
                                   ELSE Row("p0", "SUPER_ADMIN", {})]
MCUserOf == [r \in Requests |->
    CASE r = "register" -> "new1" [] r = "create" -> "new2" [] r = "admin" -> "new3"
      [] r = "leave" -> "super" [] OTHER -> "staff"]
MCPhoneOf == [r \in Requests |->
    IF r \in {"register", "create", "dial"} THEN {"p2"}
    ELSE IF r = "admin" THEN {"p3"} ELSE {}]
MCRoleOf == [r \in Requests |->
    CASE r \in {"register", "toResident", "admin"} -> {"RESIDENT"}
      [] r \in {"create", "toStaff"} -> {"STAFF"}
      [] OTHER -> {}]

Place(r, d, n) == [region |-> r, district |-> d, name |-> n]
MCMahallas    == {"m1", "m2", "m3", "m4"}
MCFirstPlaces == [m \in {"m1", "m2"} |-> Place("r1", "d1", IF m = "m1" THEN "n1" ELSE "n2")]
MCMahallaOf   == [r \in Requests |->
    CASE r \in {"register", "move", "close"} -> {"m2"}
      [] r \in {"create", "rename", "shift"} -> {"m1"}
      [] r = "clash" -> {"m3"}
      [] r = "reopen" -> {"m4"}
      [] OTHER -> {}]
MCPlaceOf == [r \in Requests |->
    CASE r = "rename" -> Place({}, {}, {"n3"})
      [] r = "shift"  -> Place({}, {"d2"}, {})
      [] r = "clash"  -> Place({"r1"}, {"d1"}, {"n3"})
      [] r = "reopen" -> Place({"r1"}, {"d1"}, {"n2"})
      [] OTHER -> Place({}, {}, {})]

Pairs    == SUBSET {"register", "create", "dial"}
Staffing == (SUBSET {"toResident", "toStaff", "move"}) \cup (SUBSET {"toResident", "dismiss"})
Closing  == (SUBSET {"close", "register", "move"}) \cup (SUBSET {"close", "reopen", "move"})
Renaming == SUBSET {"rename", "shift", "clash"}
Session  == SUBSET {"login", "refresh", "refresh2", "dismiss"}
              \cup SUBSET {"login", "login2", "refresh", "logout"}

(* One session, whose first token is presented again after the others.     *)
MCSession == SUBSET {"login", "refresh", "refresh2", "logout"}

MCScenarios == Pairs \cup Staffing \cup Closing \cup Renaming \cup Session
                 \cup {{"leave"}, {"admin"}}
=============================================================================
