-------------------------------- MODULE Sla --------------------------------
(***************************************************************************)
(* The SLA worker, SlaService: a cron job that every five minutes looks    *)
(* for overdue complaints, flags them, tells every administrator on two    *)
(* channels and writes an audit entry per complaint.                       *)
(*                                                                         *)
(* Each await is a step, so between two steps complaints are answered or   *)
(* reopened, administrators come and go, and, when Overlap is TRUE, the    *)
(* next tick of the cron job starts while a run is still under way (the    *)
(* scheduler does not wait for completion).  Runs are the slots a tick can *)
(* start in; a slot is used again and again.                               *)
(*                                                                         *)
(* notify is a call that resolves or rejects (module Notifications says    *)
(* what that means).  A fault is a rejected database or Redis call, which  *)
(* may have taken effect, or the death of the process, of which the table  *)
(* contents survive.                                                       *)
(***************************************************************************)
EXTENDS Naturals

CONSTANTS Complaints, Admins, Runs,
          Overlap,     \* may a tick start a run during another one?
          MaxFaults    \* bound on the faults of a behaviour

ASSUME OverlapIsBoolean == Overlap \in BOOLEAN
ASSUME MaxFaultsIsNat   == MaxFaults \in Nat

VARIABLES
    \* the database
    status,      \* status[c]
    overdue,     \* the complaints whose deadlineAt has passed
    flagged,     \* the complaints whose escalationFlag is true
    adminIds,    \* the users with an administrator's role and no deletedAt
    created,     \* the notifications whose call of notify resolved
    audit,       \* the SLA_ESCALATED entries, with the administrators told
    \* the process
    pc,          \* pc[w]: the await run w is at
    todo,        \* todo[w]: the overdueComplaints the loop has not reached
    current,     \* current[w]: the complaint of the loop's turn, in a set
    admins,      \* admins[w]: adminUsers
    inFlight,    \* the calls of notify under way, those of ended runs too
    lastError,   \* "null" or "set"
    \* observation
    missed,      \* the complaints that have been overdue and open at once
    escalations, \* escalations[c]: how often updateMany has flagged c
    faults

database    == <<status, overdue, flagged, adminIds, created, audit>>
process     == <<pc, todo, current, admins, inFlight, lastError>>
observation == <<missed, escalations, faults>>
vars        == <<database, process, observation>>

Status == {"NEW", "IN_PROGRESS", "ANSWERED", "REJECTED"}
Open   == {"NEW", "IN_PROGRESS"}

Channels == {"IN_APP", "EMAIL"}
Note == [run : Runs, complaint : Complaints, admin : Admins, channel : Channels]
NotesOf(w, C, A) == [run : {w}, complaint : C, admin : A, channel : Channels]

AuditEntry == [run : Runs, complaint : Complaints, told : SUBSET Admins]

Steps == {"idle", "finding", "flagging", "reading-admins", "notifying", "auditing"}

Init ==
    /\ status      = [c \in Complaints |-> "NEW"]
    /\ overdue     = {}
    /\ flagged     = {}
    /\ adminIds \in SUBSET Admins
    /\ created     = {}
    /\ audit       = {}
    /\ pc          = [w \in Runs |-> "idle"]
    /\ admins      = [w \in Runs |-> {}]
    /\ current     = [w \in Runs |-> {}]
    /\ todo        = [w \in Runs |-> {}]
    /\ inFlight    = {}
    /\ lastError   = "null"
    /\ missed      = {}
    /\ escalations = [c \in Complaints |-> 0]
    /\ faults      = 0

Fault == faults < MaxFaults /\ faults' = faults + 1
-----------------------------------------------------------------------------
(***************************************************************************)
(* The end of a run, its locals gone with it.                              *)
(***************************************************************************)
Return(w) ==
    /\ pc'      = [pc EXCEPT ![w] = "idle"]
    /\ todo'    = [todo EXCEPT ![w] = {}]
    /\ current' = [current EXCEPT ![w] = {}]
    /\ admins'  = [admins EXCEPT ![w] = {}]

(* Mutation: a success does not clear the error of an earlier run. *)
Succeed_KeepsError(w) == Return(w) /\ UNCHANGED lastError

Succeed(w) == Return(w) /\ lastError' = "null"

Fail(w)    == Return(w) /\ lastError' = "set"

(***************************************************************************)
(* A tick of the cron job, and runEscalation.                              *)
(***************************************************************************)
Tick(w) ==
    /\ pc[w] = "idle"
    /\ Overlap \/ \A v \in Runs : pc[v] = "idle"
    /\ pc' = [pc EXCEPT ![w] = "finding"]
    /\ UNCHANGED <<database, todo, current, admins, inFlight, lastError, observation>>

(* Mutations: the search's filter without one of its conditions. *)
Breached_FlaggedToo == {c \in overdue : status[c] \in Open}
Breached_NewOnly    == {c \in overdue \ flagged : status[c] = "NEW"}

Breached == {c \in overdue \ flagged : status[c] \in Open}

(* Mutation: the administrators are told before the flags are written. *)
Find_SkipsFlags(w) ==
    /\ pc[w] = "finding"
    /\ Breached # {}
    /\ pc'   = [pc EXCEPT ![w] = "reading-admins"]
    /\ todo' = [todo EXCEPT ![w] = Breached]
    /\ UNCHANGED <<database, current, admins, inFlight, lastError, observation>>

Find(w) ==
    /\ pc[w] = "finding"
    /\ Breached # {}
    /\ pc'   = [pc EXCEPT ![w] = "flagging"]
    /\ todo' = [todo EXCEPT ![w] = Breached]
    /\ UNCHANGED <<database, current, admins, inFlight, lastError, observation>>

FindNone(w) ==
    /\ pc[w] = "finding"
    /\ Breached = {}
    /\ Succeed(w)
    /\ UNCHANGED <<database, inFlight, observation>>

(* updateMany: by identity, whatever has become of the complaints since. *)
SetFlags(w) ==
    /\ flagged'     = flagged \cup todo[w]
    /\ escalations' = [c \in Complaints |->
                          IF c \in todo[w] THEN escalations[c] + 1 ELSE escalations[c]]
    /\ UNCHANGED <<status, overdue, adminIds, created, audit>>

Flag(w) ==
    /\ pc[w] = "flagging"
    /\ SetFlags(w)
    /\ pc' = [pc EXCEPT ![w] = "reading-admins"]
    /\ UNCHANGED <<todo, current, admins, inFlight, lastError, missed, faults>>

(* Mutation: the loop returns from its first turn. *)
Turn_Once(w, C, A) ==
    \E c \in C :
        /\ todo'     = [todo EXCEPT ![w] = {}]
        /\ current'  = [current EXCEPT ![w] = {c}]
        /\ admins'   = [admins EXCEPT ![w] = A]
        /\ inFlight' = inFlight \cup NotesOf(w, {c}, A)
        /\ pc' = [pc EXCEPT ![w] = IF A = {} THEN "auditing" ELSE "notifying"]

(* The loop's next turn: notifyMany calls notify for every administrator   *)
(* and channel at once; with no administrator there is nothing to await.   *)
Turn(w, C, A) ==
    \E c \in C :
        /\ todo'     = [todo EXCEPT ![w] = C \ {c}]
        /\ current'  = [current EXCEPT ![w] = {c}]
        /\ admins'   = [admins EXCEPT ![w] = A]
        /\ inFlight' = inFlight \cup NotesOf(w, {c}, A)
        /\ pc' = [pc EXCEPT ![w] = IF A = {} THEN "auditing" ELSE "notifying"]

ReadAdmins(w) ==
    /\ pc[w] = "reading-admins"
    /\ Turn(w, todo[w], adminIds)
    /\ UNCHANGED <<database, lastError, observation>>

(* What run w's Promise.all waits for. *)
Awaited(w) == inFlight \cap NotesOf(w, current[w], admins[w])

(* Mutation: notifyMany waits for the first call only. *)
NotifyResolves_First(x) ==
    /\ x \in inFlight
    /\ inFlight' = inFlight \ {x}
    /\ created'  = created \cup {x}
    /\ pc' = [pc EXCEPT ![x.run] =
                 IF pc[x.run] = "notifying" THEN "auditing" ELSE pc[x.run]]
    /\ UNCHANGED <<status, overdue, flagged, adminIds, audit, todo, current, admins,
                   lastError, observation>>

NotifyResolves(x) ==
    /\ x \in inFlight
    /\ inFlight' = inFlight \ {x}
    /\ created'  = created \cup {x}
    /\ pc' = [pc EXCEPT ![x.run] =
                 IF pc[x.run] = "notifying" /\ Awaited(x.run) = {x}
                 THEN "auditing" ELSE pc[x.run]]
    /\ UNCHANGED <<status, overdue, flagged, adminIds, audit, todo, current, admins,
                   lastError, observation>>

Entries(w) == {[run |-> w, complaint |-> c, told |-> admins[w]] : c \in current[w]}

WriteAudit(w) ==
    /\ audit' = audit \cup Entries(w)
    /\ UNCHANGED <<status, overdue, flagged, adminIds, created>>

Audit(w) ==
    /\ pc[w] = "auditing"
    /\ todo[w] # {}
    /\ WriteAudit(w)
    /\ Turn(w, todo[w], admins[w])
    /\ UNCHANGED <<lastError, observation>>

AuditLast(w) ==
    /\ pc[w] = "auditing"
    /\ todo[w] = {}
    /\ WriteAudit(w)
    /\ Succeed(w)
    /\ UNCHANGED <<inFlight, observation>>

(***************************************************************************)
(* Faults.  A rejected await ends the run: handleSlaEscalation records the *)
(* error.  The calls of notify already made go on without it.              *)
(***************************************************************************)
ReadFails(w) ==
    /\ pc[w] \in {"finding", "reading-admins"}
    /\ Fault
    /\ Fail(w)
    /\ UNCHANGED <<database, inFlight, missed, escalations>>

FlagFails(w) ==
    /\ pc[w] = "flagging"
    /\ Fault
    /\ SetFlags(w) \/ UNCHANGED <<database, escalations>>
    /\ Fail(w)
    /\ UNCHANGED <<inFlight, missed>>

AuditFails(w) ==
    /\ pc[w] = "auditing"
    /\ Fault
    /\ WriteAudit(w) \/ UNCHANGED database
    /\ Fail(w)
    /\ UNCHANGED <<inFlight, missed, escalations>>

NotifyRejects(x) ==
    /\ x \in inFlight
    /\ Fault
    /\ inFlight' = inFlight \ {x}
    /\ IF pc[x.run] = "notifying" /\ x \in Awaited(x.run)
       THEN Fail(x.run)
       ELSE UNCHANGED <<pc, todo, current, admins, lastError>>
    /\ UNCHANGED <<database, missed, escalations>>

(* The process dies and is restarted: its fields are initialised again. *)
Crash ==
    /\ Fault
    /\ pc'        = [w \in Runs |-> "idle"]
    /\ todo'      = [w \in Runs |-> {}]
    /\ current'   = [w \in Runs |-> {}]
    /\ admins'    = [w \in Runs |-> {}]
    /\ inFlight'  = {}
    /\ lastError' = "null"
    /\ UNCHANGED <<database, missed, escalations>>

(***************************************************************************)
(* The rest of the system: time, the complaint service's writes to status, *)
(* and the administrators there are.                                       *)
(***************************************************************************)
DeadlinePasses(c) ==
    /\ c \notin overdue
    /\ overdue' = overdue \cup {c}
    /\ missed'  = missed \cup {d \in {c} : status[d] \in Open}
    /\ UNCHANGED <<status, flagged, adminIds, created, audit, process, escalations, faults>>

WriteStatus(c, s) ==
    /\ status' = [status EXCEPT ![c] = s]
    /\ missed' = missed \cup {d \in overdue \cap {c} : s \in Open}
    /\ UNCHANGED <<overdue, flagged, adminIds, created, audit, process, escalations, faults>>

ChangeAdmins(A) ==
    /\ adminIds' = A
    /\ UNCHANGED <<status, overdue, flagged, created, audit, process, observation>>

RunStep(w) ==
    \/ Find(w) \/ FindNone(w) \/ Flag(w) \/ ReadAdmins(w) \/ Audit(w) \/ AuditLast(w)
    \/ ReadFails(w) \/ FlagFails(w) \/ AuditFails(w)

NotifyStep(x) == NotifyResolves(x) \/ NotifyRejects(x)

Environment ==
    \/ \E c \in Complaints : DeadlinePasses(c) \/ \E s \in Status : WriteStatus(c, s)
    \/ \E A \in SUBSET Admins : ChangeAdmins(A)

Next ==
    \/ \E w \in Runs : Tick(w) \/ RunStep(w)
    \/ \E x \in Note : NotifyStep(x)
    \/ Crash
    \/ Environment

Spec == Init /\ [][Next]_vars

(* The cron job ticks for ever, and every call to the database or to       *)
(* notify is answered or rejected in the end.  Nothing else is fair.       *)
Fairness ==
    /\ WF_vars(\E w \in Runs : Tick(w))
    /\ \A w \in Runs : WF_vars(RunStep(w))
    /\ \A x \in Note : WF_vars(NotifyStep(x))

FairSpec == Spec /\ Fairness
-----------------------------------------------------------------------------
DatabaseTypeOK ==
    /\ status \in [Complaints -> Status]
    /\ overdue \in SUBSET Complaints
    /\ flagged \in SUBSET Complaints
    /\ adminIds \in SUBSET Admins
    /\ created \in SUBSET Note
    /\ audit \in SUBSET AuditEntry

ProcessTypeOK ==
    /\ pc \in [Runs -> Steps]
    /\ todo \in [Runs -> SUBSET Complaints]
    /\ current \in [Runs -> SUBSET Complaints]
    /\ admins \in [Runs -> SUBSET Admins]
    /\ inFlight \in SUBSET Note
    /\ lastError \in {"null", "set"}

ObservationTypeOK ==
    /\ missed \in SUBSET Complaints
    /\ escalations \in [Complaints -> Nat]
    /\ faults \in 0..MaxFaults

TypeOK == DatabaseTypeOK /\ ProcessTypeOK /\ ObservationTypeOK

(* No false breach: a complaint that carries the escalation flag has been  *)
(* overdue while it was open, though updateMany writes by identity and the *)
(* complaint may have been answered, or reopened, since it was found.      *)
FlaggedWereBreached == flagged \subseteq missed

(* Administrators hear of a breach only once it is on record: the flag is  *)
(* committed before the first notification of it, and no later run, fault  *)
(* or crash takes it back.                                                 *)
ToldOnlyOfFlagged == \A x \in inFlight \cup created : x.complaint \in flagged

(* An SLA_ESCALATED entry is proof of delivery: every administrator its    *)
(* run read has both notifications, whatever other runs and the calls left *)
(* over from failed runs did in between.                                   *)
AuditMeansTold ==
    \A e \in audit : NotesOf(e.run, {e.complaint}, e.told) \subseteq created

(* Runs that do not overlap escalate a complaint once, even when one of    *)
(* them failed half way or the process died and the next starts over.      *)
EscalatedOnce == ~Overlap => \A c \in Complaints : escalations[c] <= 1

(* What the first two need: the history records every breach, and a run    *)
(* only works on breaches, which it has flagged before it goes on.         *)
BreachesAreMissed == \A c \in overdue : status[c] \in Open => c \in missed

RunsKnowBreaches ==
    \A w \in Runs :
        /\ todo[w] \cup current[w] \subseteq missed
        /\ pc[w] \in {"reading-admins", "notifying", "auditing"} => todo[w] \subseteq flagged
        /\ pc[w] \in {"notifying", "auditing"} => current[w] \subseteq flagged

(* What the third needs. *)
RunsAwaitNotes ==
    \A w \in Runs :
        /\ pc[w] = "notifying" =>
               NotesOf(w, current[w], admins[w]) \subseteq inFlight \cup created
        /\ pc[w] = "auditing" => NotesOf(w, current[w], admins[w]) \subseteq created

(* What the fourth needs: with one run at a time, what it is about to flag *)
(* is not flagged yet.                                                     *)
OneRunAtATime ==
    ~Overlap =>
        /\ \A v, w \in Runs : v # w => pc[v] = "idle" \/ pc[w] = "idle"
        /\ \A w \in Runs : pc[w] = "flagging" => todo[w] \cap flagged = {}
        /\ \A c \in Complaints : escalations[c] <= IF c \in flagged THEN 1 ELSE 0

IInv ==
    /\ TypeOK /\ FlaggedWereBreached /\ ToldOnlyOfFlagged /\ AuditMeansTold
    /\ BreachesAreMissed /\ RunsKnowBreaches /\ RunsAwaitNotes /\ OneRunAtATime

(* A complaint that is overdue and stays open is flagged in the end.       *)
OverdueIsFlagged ==
    \A c \in Complaints :
        (c \in overdue /\ status[c] \in Open) ~> (c \in flagged \/ status[c] \notin Open)

(* A failed run does not leave the readiness check degraded for ever.      *)
HealthRecovers == (lastError = "set") ~> (lastError = "null")

(* README.md:62: a complaint not handled in time is automatically          *)
(* escalated to the higher authority.  With an administrator there at all  *)
(* times, one of them is told of every flagged complaint.                  *)
EscalationReachesAdmins ==
    [](adminIds # {}) =>
        \A c \in Complaints : c \in flagged ~> \E x \in created : x.complaint = c

(* It takes a rejected call or the death of the process to prevent that,   *)
(* not the order in which complaints, administrators and runs change.      *)
EscalationUnlessFaults == [](faults = 0) => EscalationReachesAdmins
=============================================================================
