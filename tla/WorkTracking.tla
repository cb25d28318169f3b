---------------------------- MODULE WorkTracking ----------------------------
(***************************************************************************)
(* WorkTrackingService: checkIn, checkOut and addLocationLog, which change *)
(* the work sessions and location logs of one staff member or several.     *)
(*                                                                         *)
(* A request is one HTTP call, made at most once; a session is named by    *)
(* the check-in that creates it, a location log by the request that adds   *)
(* it.  Each await is a step, so requests about one session interleave:    *)
(* an application that repeats a call, or a queue of location logs sent    *)
(* together, is enough.                                                    *)
(*                                                                         *)
(* The clock counts half minutes, the coarsest unit in which Math.round    *)
(* shows.  totalWorkMinutes is written with checkOutAt and is a function   *)
(* of it and checkInAt, so only the two times are kept.  Whether a point   *)
(* is outside of the mahalla's boundary, which may be redrawn at any time, *)
(* is any choice.                                                          *)
(***************************************************************************)
EXTENDS FiniteSets, Integers

CONSTANTS
    CheckIns, CheckOuts, Logs,  \* the requests, by operation
    ActorOf,                    \* the user in a request's token
    TargetOf,                   \* dto.sessionId: a session or None
    RecordedOf,                 \* dto.recordedAt of a log, one of a set, or {} if none
    None,
    Scenarios,                  \* bound: the sets of requests made in one behaviour
    MaxTime, MaxFaults          \* bounds on what happens in a behaviour

Requests == CheckIns \cup CheckOuts \cup Logs

ASSUME OperationsAreDisjoint ==
    CheckIns \cap CheckOuts = {} /\ CheckIns \cap Logs = {} /\ CheckOuts \cap Logs = {}

ASSUME RequestsAreFinite == IsFiniteSet(Requests)

(* What the validation pipe lets through: a log names its session. *)
ASSUME RequestsAreValid ==
    /\ None \notin Requests
    /\ TargetOf \in [CheckOuts \cup Logs -> CheckIns \cup {None}]
    /\ \A l \in Logs : TargetOf[l] # None
    /\ RecordedOf \in [Logs -> SUBSET Nat]

ASSUME BoundsAreNat == MaxTime \in Nat /\ MaxFaults \in Nat

VARIABLES
    \* the database
    status,          \* status[s], "ABSENT" before the insertion
    checkInAt, checkOutAt, outsideMinutes,  \* the session's columns
    logs,            \* the requests with a LocationLog row
    audit,           \* the entries WORK_CHECK_OUT and WORK_CHECK_IN
    \* the process
    now,             \* Date.now()
    pc,              \* pc[r]: the await request r is at, or how it ended
    about,           \* about[r]: the session the request works on
    stamp,           \* stamp[r]: checkInAt, checkOutAt or recordedAt
    outside,         \* the logs whose isOutside is true
    previous,        \* previous[l]: previousLog
    reported,        \* reported[r]: outsideMinutes of the row written, in a set
    \* observation
    before,          \* before[r]: the requests that had ended when r was made
    faults

sessions == <<status, checkInAt, checkOutAt, outsideMinutes>>
tables   == <<sessions, logs, audit>>
locals   == <<about, stamp, outside, previous, reported>>
vars     == <<tables, now, pc, locals, before, faults>>

Entry == [request : Requests, outside : Nat]

Waits ==
    {"reading-actor", "looking", "creating",            \* checkIn
     "finding", "closing",                              \* checkOut
     "reading-session", "reading-previous", "adding", "logging",  \* addLocationLog
     "auditing"}                                        \* the first two
Ends == {"done", "refused", "failed", "lost"}

Init ==
    /\ status         = [s \in CheckIns |-> "ABSENT"]
    /\ checkInAt      = [s \in CheckIns |-> 0]
    /\ checkOutAt     = [s \in CheckIns |-> 0]
    /\ outsideMinutes = [s \in CheckIns |-> 0]
    /\ logs     = {}
    /\ audit    = {}
    /\ now      = 0
    /\ pc       = [r \in Requests |-> "unsent"]
    /\ about    = [r \in Requests |-> None]
    /\ stamp    = [r \in Requests |-> 0]
    /\ outside  = {}
    /\ previous = [r \in Requests |-> None]
    /\ reported = [r \in Requests |-> {}]
    /\ before   = [r \in Requests |-> {}]
    /\ faults   = 0

Fault == faults < MaxFaults /\ faults' = faults + 1

Goto(r, p) == pc' = [pc EXCEPT ![r] = p]

Sent  == {r \in Requests : pc[r] # "unsent"}
Ended == {r \in Requests : pc[r] \in Ends}

(* Math.round of the minutes from one time to a later one, at least 0.     *)
Minutes(from, to) == IF to < from THEN 0 ELSE (to - from + 1) \div 2
-----------------------------------------------------------------------------
(***************************************************************************)
(* A request arrives.                                                      *)
(***************************************************************************)
Call(r) ==
    /\ pc[r] = "unsent"
    /\ \E S \in Scenarios : Sent \cup {r} \subseteq S
    /\ Goto(r, IF r \in CheckIns THEN "reading-actor"
               ELSE IF r \in CheckOuts THEN "finding" ELSE "reading-session")
    /\ before' = [before EXCEPT ![r] = Ended]
    /\ UNCHANGED <<tables, now, locals, faults>>

(***************************************************************************)
(* checkIn.  A user without a mahalla, or whose role does not let the one  *)
(* in the request count, is refused.                                       *)
(***************************************************************************)
ReadActor(r) ==
    /\ pc[r] = "reading-actor"
    /\ Goto(r, "looking") \/ Goto(r, "refused")
    /\ UNCHANGED <<tables, now, locals, before, faults>>

SessionsOf(u) == {s \in CheckIns : ActorOf[s] = u}

OpenSessions(u) == {s \in SessionsOf(u) : status[s] = "OPEN"}

(* Mutation: an open session does not refuse another. *)
Look_Blind(r) ==
    /\ pc[r] = "looking"
    /\ Goto(r, "creating")
    /\ stamp' = [stamp EXCEPT ![r] = now]
    /\ about' = [about EXCEPT ![r] = r]
    /\ UNCHANGED <<tables, now, outside, previous, reported, before, faults>>

Look(r) ==
    /\ pc[r] = "looking"
    /\ Goto(r, IF OpenSessions(ActorOf[r]) = {} THEN "creating" ELSE "refused")
    /\ stamp' = [stamp EXCEPT ![r] = now]
    /\ about' = [about EXCEPT ![r] = r]
    /\ UNCHANGED <<tables, now, outside, previous, reported, before, faults>>

CreateRow(r) ==
    /\ status'    = [status EXCEPT ![r] = "OPEN"]
    /\ checkInAt' = [checkInAt EXCEPT ![r] = stamp[r]]
    /\ UNCHANGED <<checkOutAt, outsideMinutes, logs, audit>>

Create(r) ==
    /\ pc[r] = "creating"
    /\ CreateRow(r)
    /\ reported' = [reported EXCEPT ![r] = {outsideMinutes[r]}]
    /\ Goto(r, "auditing")
    /\ UNCHANGED <<now, about, stamp, outside, previous, before, faults>>

(***************************************************************************)
(* checkOut.  findActiveSession takes the session of the request or, if    *)
(* there is none, the last opened one; the update that follows is          *)
(* unconditional.                                                          *)
(***************************************************************************)
LastOpened(u) ==
    {s \in OpenSessions(u) : \A t \in OpenSessions(u) : checkInAt[t] <= checkInAt[s]}

(* Mutation: a session is found whatever its status. *)
ActiveSessions_Any(r) ==
    IF TargetOf[r] # None
    THEN {TargetOf[r]} \cap {s \in SessionsOf(ActorOf[r]) : status[s] # "ABSENT"}
    ELSE LastOpened(ActorOf[r])

ActiveSessions(r) ==
    IF TargetOf[r] # None THEN {TargetOf[r]} \cap OpenSessions(ActorOf[r])
                          ELSE LastOpened(ActorOf[r])

Refuse(r) == Goto(r, "refused") /\ UNCHANGED <<about, stamp>>

Find(r) ==
    /\ pc[r] = "finding"
    /\ \/ ActiveSessions(r) = {} /\ Refuse(r)
       \/ \E s \in ActiveSessions(r) :
            /\ Goto(r, "closing")
            /\ about' = [about EXCEPT ![r] = s]
            /\ stamp' = [stamp EXCEPT ![r] = now]
    /\ UNCHANGED <<tables, now, outside, previous, reported, before, faults>>

CloseRow(r) ==
    /\ status'     = [status EXCEPT ![about[r]] = "CLOSED"]
    /\ checkOutAt' = [checkOutAt EXCEPT ![about[r]] = stamp[r]]
    /\ UNCHANGED <<checkInAt, outsideMinutes, logs, audit>>

Close(r) ==
    /\ pc[r] = "closing"
    /\ CloseRow(r)
    /\ reported' = [reported EXCEPT ![r] = {outsideMinutes[about[r]]}]
    /\ Goto(r, "auditing")
    /\ UNCHANGED <<now, about, stamp, outside, previous, before, faults>>

LogEntry(r) ==
    /\ audit' = audit \cup [request : {r}, outside : reported[r]]
    /\ UNCHANGED <<sessions, logs>>

Audit(r) ==
    /\ pc[r] = "auditing"
    /\ LogEntry(r)
    /\ Goto(r, "done")
    /\ UNCHANGED <<now, locals, before, faults>>

(***************************************************************************)
(* addLocationLog                                                          *)
(***************************************************************************)
RecordedAt(r) == IF RecordedOf[r] = {} THEN {now} ELSE RecordedOf[r]

(* Mutation: the session's status is not looked at. *)
ReadSession_AnyStatus(r) ==
    /\ pc[r] = "reading-session"
    /\ IF TargetOf[r] \in SessionsOf(ActorOf[r]) /\ status[TargetOf[r]] # "ABSENT"
       THEN /\ Goto(r, "reading-previous")
            /\ about' = [about EXCEPT ![r] = TargetOf[r]]
            /\ \E t \in RecordedAt(r) : stamp' = [stamp EXCEPT ![r] = t]
            /\ outside' \in {outside, outside \cup {r}}
       ELSE Refuse(r) /\ UNCHANGED outside
    /\ UNCHANGED <<tables, now, previous, reported, before, faults>>

ReadSession(r) ==
    /\ pc[r] = "reading-session"
    /\ IF TargetOf[r] \in OpenSessions(ActorOf[r])
       THEN /\ Goto(r, "reading-previous")
            /\ about' = [about EXCEPT ![r] = TargetOf[r]]
            /\ \E t \in RecordedAt(r) : stamp' = [stamp EXCEPT ![r] = t]
            /\ outside' \in {outside, outside \cup {r}}
       ELSE Refuse(r) /\ UNCHANGED outside
    /\ UNCHANGED <<tables, now, previous, reported, before, faults>>

LogsOf(s) == {l \in logs : about[l] = s}

(* Mutation: previousLog is the earliest, not the latest by recordedAt. *)
Latest_Earliest(s) == {l \in LogsOf(s) : \A k \in LogsOf(s) : stamp[l] <= stamp[k]}

Latest(s) == {l \in LogsOf(s) : \A k \in LogsOf(s) : stamp[k] <= stamp[l]}

Increment(r, p) ==
    IF p \notin outside THEN 0
    ELSE IF Minutes(stamp[p], stamp[r]) < 30 THEN Minutes(stamp[p], stamp[r]) ELSE 30

ReadPrevious(r) ==
    /\ pc[r] = "reading-previous"
    /\ \/ /\ LogsOf(about[r]) = {}
          /\ Goto(r, "logging")
          /\ UNCHANGED previous
       \/ \E p \in Latest(about[r]) :
            /\ previous' = [previous EXCEPT ![r] = p]
            /\ Goto(r, IF Increment(r, p) > 0 THEN "adding" ELSE "logging")
    /\ UNCHANGED <<tables, now, about, stamp, outside, reported, before, faults>>

AddMinutes(r) ==
    /\ outsideMinutes' = [outsideMinutes EXCEPT ![about[r]] = @ + Increment(r, previous[r])]
    /\ UNCHANGED <<status, checkInAt, checkOutAt, logs, audit>>

Add(r) ==
    /\ pc[r] = "adding"
    /\ AddMinutes(r)
    /\ Goto(r, "logging")
    /\ UNCHANGED <<now, locals, before, faults>>

LogRow(r) ==
    /\ logs' = logs \cup {r}
    /\ UNCHANGED <<sessions, audit>>

Log(r) ==
    /\ pc[r] = "logging"
    /\ LogRow(r)
    /\ Goto(r, "done")
    /\ UNCHANGED <<now, locals, before, faults>>

(***************************************************************************)
(* Faults.  Nothing in the service catches a rejection.                    *)
(***************************************************************************)
Effect(r) ==
    \/ pc[r] = "creating" /\ CreateRow(r)
    \/ pc[r] = "closing" /\ CloseRow(r)
    \/ pc[r] = "adding" /\ AddMinutes(r)
    \/ pc[r] = "logging" /\ LogRow(r)
    \/ pc[r] = "auditing" /\ LogEntry(r)

CallFails(r) ==
    /\ pc[r] \in Waits
    /\ Fault
    /\ Goto(r, "failed")
    /\ Effect(r) \/ UNCHANGED tables
    /\ UNCHANGED <<now, locals, before>>

Crash ==
    /\ Fault
    /\ pc' = [r \in Requests |-> IF pc[r] \in Waits THEN "lost" ELSE pc[r]]
    /\ UNCHANGED <<tables, now, locals, before>>

Tick ==
    /\ now < MaxTime
    /\ now' = now + 1
    /\ UNCHANGED <<tables, pc, locals, before, faults>>

CheckInStep(r)  == ReadActor(r) \/ Look(r) \/ Create(r)
CheckOutStep(r) == Find(r) \/ Close(r)
LogStep(r)      == ReadSession(r) \/ ReadPrevious(r) \/ Add(r) \/ Log(r)

RequestStep(r) ==
    CheckInStep(r) \/ CheckOutStep(r) \/ LogStep(r) \/ Audit(r) \/ CallFails(r)

(* No request is under way: none is bound to be made. *)
Rest ==
    /\ \A r \in Requests : pc[r] \notin Waits
    /\ UNCHANGED vars

Next ==
    \/ \E r \in Requests : Call(r) \/ RequestStep(r)
    \/ Crash
    \/ Tick
    \/ Rest

Spec == Init /\ [][Next]_vars
-----------------------------------------------------------------------------
TablesTypeOK ==
    /\ status \in [CheckIns -> {"ABSENT", "OPEN", "CLOSED"}]
    /\ checkInAt \in [CheckIns -> Nat]
    /\ checkOutAt \in [CheckIns -> Nat]
    /\ outsideMinutes \in [CheckIns -> Nat]
    /\ logs \in SUBSET Logs
    /\ audit \in SUBSET Entry

ProcessTypeOK ==
    /\ now \in 0..MaxTime
    /\ pc \in [Requests -> Waits \cup Ends \cup {"unsent"}]
    /\ about \in [Requests -> CheckIns \cup {None}]
    /\ stamp \in [Requests -> Nat]
    /\ outside \in SUBSET Logs
    /\ previous \in [Requests -> Logs \cup {None}]
    /\ reported \in [Requests -> SUBSET Nat]

(* The types of the variables: no session is closed, no minute counted and *)
(* no log added by a request of another kind, or without a session.        *)
TypeOK ==
    /\ TablesTypeOK
    /\ ProcessTypeOK
    /\ before \in [Requests -> SUBSET Requests]
    /\ faults \in 0..MaxFaults
-----------------------------------------------------------------------------
(***************************************************************************)
(* Properties                                                              *)
(***************************************************************************)
(* Neither of two requests had ended when the other was made. *)
Overlap(a, b) == a \notin before[b] /\ b \notin before[a]

(* checkIn refuses a user who has an open session, "You already have an    *)
(* opened work session": a user has one open session at most.              *)
OneOpenSession ==
    \A s, t \in CheckIns :
        ActorOf[s] = ActorOf[t] /\ status[s] = "OPEN" /\ status[t] = "OPEN" => s = t

(* The check of checkIn is sound for requests made one after the other:    *)
(* two open sessions of one user come from check-ins that overlapped, be   *)
(* there rejected calls, check-outs and restarts in between.               *)
OpenSessionsOverlapped ==
    \A s, t \in CheckIns :
        s # t /\ ActorOf[s] = ActorOf[t] /\ status[s] = "OPEN" /\ status[t] = "OPEN"
            => Overlap(s, t)

(* Once a check-out has been answered its session is settled: no later     *)
(* request finds it, neither a second check-out, whose update would        *)
(* overwrite the times, nor a location log.                                *)
SettledOnceAnswered ==
    \A c \in CheckOuts, r \in Requests :
        pc[c] = "done" /\ c \in before[r] => about[r] # about[c]

(* The minutes outside that checkOut reports in its audit entry are the    *)
(* session's for good, unless a location log overlapped the check-out.     *)
ReportedMinutesStand ==
    \A e \in audit :
        e.request \in CheckOuts /\ outsideMinutes[about[e.request]] # e.outside =>
            \E l \in Logs : about[l] = about[e.request] /\ Overlap(l, e.request)

(* The location logs of a session were sent one after another, and none of *)
(* them failed.                                                            *)
LogRequests(s) == {l \in Logs : about[l] = s}

Orderly(s) ==
    /\ \A l \in LogRequests(s) : pc[l] \notin {"failed", "lost"}
    /\ \A l, k \in LogRequests(s) : l # k => ~ Overlap(l, k)

LogsAtWork(s) == {l \in LogRequests(s) : pc[l] = "logging"}

Surplus(s) == IF LogsOf(s) = {} THEN 0 ELSE Cardinality(LogsOf(s)) - 1

(* The minutes outside are never more than the location logs account for,  *)
(* in whatever order their recordedAt come: half an hour for each log but  *)
(* the first; and the time between the earliest and the latest of them,    *)
(* but for the rounding, half a minute for each log but the first.         *)
OutsideIsAccountedFor ==
    \A s \in CheckIns : Orderly(s) /\ LogsAtWork(s) = {} =>
        /\ outsideMinutes[s] <= 30 * Surplus(s)
        /\ \A first, last \in LogsOf(s) :
              (\A l \in LogsOf(s) : stamp[first] <= stamp[l] /\ stamp[l] <= stamp[last]) =>
                 2 * outsideMinutes[s] <= stamp[last] - stamp[first] + Surplus(s)
=============================================================================
