------------------------------ MODULE MCContent ------------------------------
(* Content with two mahallas, a member of the staff, an administrator and  *)
(* a resident: reports of one mahalla with evidence, a post and an event   *)
(* that are changed, and readers who move.                                 *)
EXTENDS Content

MCRequests == {"post", "publish", "archive", "event", "hold", "cancel",
               "report", "redraft", "elsewhere", "rate", "rate2", "upload", "large",
               "posts", "reports", "events", "undated"}
MCOpOf == [r \in Requests |->
    CASE r \in {"hold", "cancel"} -> "eventStatus"
      [] r \in {"redraft", "elsewhere", "undated"} -> "report"
      [] r = "rate2" -> "rate" [] r = "large" -> "upload" [] OTHER -> r]
MCActorOf == [r \in Requests |->
    IF r \in {"rate", "rate2", "posts", "reports"} THEN "resident"
    ELSE IF r \in {"redraft", "elsewhere"} THEN "admin" ELSE "staff"]
MCRoleOf == [r \in Requests |->
    CASE ActorOf[r] = "resident" -> "RESIDENT" [] ActorOf[r] = "admin" -> "ADMIN"
      [] OTHER -> "STAFF"]
MCAskedOf == [r \in Requests |->
    IF r = "redraft" THEN {"m1"} ELSE IF r \in {"posts", "reports"} THEN {"m2"} ELSE {}]
MCThingOf == [r \in Requests |->
    CASE r \in {"publish", "archive"} -> {"post"}
      [] r \in {"hold", "cancel"} -> {"event"}
      [] r \in {"rate", "rate2"} -> {"m1"} [] OTHER -> {}]
MCStatusOf == [r \in Requests |->
    CASE r = "publish" -> "PUBLISHED" [] r = "archive" -> "ARCHIVED"
      [] r = "hold" -> "COMPLETED"    [] r = "cancel" -> "CANCELLED"
      [] r = "report" -> "SUBMITTED"  [] OTHER -> "DRAFT"]
MCItemsOf == [r \in Requests |-> IF r = "report" THEN 2 ELSE 1]
MCFilesOf == [r \in Requests |-> IF r \in {"post", "report"} THEN {"upload"} ELSE {}]
MCFirstHomes == [u \in Users |-> IF u = "admin" THEN {} ELSE {"m1"}]

After(r, S) == {{}} \cup {{r} \cup T : T \in SUBSET S}

MCScenarios ==
    After("post", {"publish", "archive", "posts"}) \cup After("event", {"hold", "cancel"})
        \cup After("event", {"events"}) \cup After("upload", {"report", "redraft"})
        \cup After("upload", {"post"}) \cup After("report", {"redraft", "rate"})
        \cup After("report", {"rate", "rate2"}) \cup After("report", {"reports"})
        \cup {{"large"}, {"elsewhere"}, {"publish"}, {"undated"}}

Bounds ==
    /\ moves = 0 \/ Sent \in After("post", {"publish", "posts"}) \cup After("report", {"reports"})
    /\ faults = 0 \/ Sent \notin {{"post", "publish", "archive", "posts"}}
=============================================================================
