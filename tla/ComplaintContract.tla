-------------------------- MODULE ComplaintContract --------------------------
(***************************************************************************)
(* What the clients of ComplaintsService may rely on: a request changes    *)
(* its complaint at one instant between its call and its answer, and at    *)
(* most once; a request that was refused changed nothing; a request that   *)
(* failed may have; and one that succeeded is on record in the audit log.  *)
(* Module Complaints implements it with many awaits per request.           *)
(***************************************************************************)
CONSTANTS Creates, Updates, Responds,
          ComplaintOf,  \* the complaint a request is about
          StatusOf      \* the status it leaves it in

VARIABLES status,   \* status[c], or "ABSENT"
          answer,   \* answer[c]: the requests whose text is the answer, 0 or 1
          outcome,  \* outcome[r] \in {"none", "open", "done", "refused", "failed"}
          applied,  \* the requests that have changed their complaint
          log       \* the requests in the audit log

Requests == Creates \cup Updates \cup Responds

Init == /\ status  = [c \in Creates |-> "ABSENT"]
        /\ answer  = [c \in Creates |-> {}]
        /\ outcome = [r \in Requests |-> "none"]
        /\ applied = {}
        /\ log     = {}

End(r, o) == outcome[r] = "open" /\ outcome' = [outcome EXCEPT ![r] = o]

Change(r) ==
    /\ r \notin applied
    /\ r \in Creates <=> status[ComplaintOf[r]] = "ABSENT"
    /\ status' = [status EXCEPT ![ComplaintOf[r]] = StatusOf[r]]
    /\ answer' = [c \in Creates |-> IF r \in Responds /\ c = ComplaintOf[r]
                                    THEN {r} ELSE answer[c]]
    /\ applied' = applied \cup {r}
    /\ UNCHANGED log

Record(r) == r \in applied /\ log' = log \cup {r} /\ UNCHANGED <<status, answer, applied>>

Begin(r) == /\ outcome[r] = "none"
            /\ outcome' = [outcome EXCEPT ![r] = "open"]
            /\ UNCHANGED <<status, answer, applied, log>>

Apply(r)  == outcome[r] = "open" /\ Change(r) /\ UNCHANGED outcome
Log(r)    == outcome[r] = "open" /\ Record(r) /\ UNCHANGED outcome
Finish(r) == End(r, "done") /\ Record(r)
Refuse(r) == End(r, "refused") /\ r \notin applied /\ UNCHANGED <<status, answer, applied, log>>
Fail(r)   == /\ End(r, "failed")
             /\ Change(r) \/ Record(r) \/ UNCHANGED <<status, answer, applied, log>>

(* Every request under way fails at once: the process died. *)
FailAll == /\ outcome' = [r \in Requests |-> IF outcome[r] = "open"
                                             THEN "failed" ELSE outcome[r]]
           /\ UNCHANGED <<status, answer, applied, log>>

Next == \/ \E r \in Requests :
              Begin(r) \/ Apply(r) \/ Log(r) \/ Finish(r) \/ Refuse(r) \/ Fail(r)
        \/ FailAll

Spec == Init /\ [][Next]_<<status, answer, outcome, applied, log>>
=============================================================================
