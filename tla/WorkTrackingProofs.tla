------------------------- MODULE WorkTrackingProofs -------------------------
(***************************************************************************)
(* The invariants of WorkTracking for any requests, any times and any      *)
(* number of faults.                                                       *)
(***************************************************************************)
EXTENDS WorkTracking, FiniteSetTheorems, TLAPS

Pcs == Waits \cup Ends \cup {"unsent"}

(* Which operation may be where. *)
OperationOK ==
    /\ \A r \in Requests : pc[r] \in {"reading-actor", "looking", "creating"} => r \in CheckIns
    /\ \A r \in Requests : pc[r] \in {"finding", "closing"} => r \in CheckOuts
    /\ \A r \in Requests :
          pc[r] \in {"reading-session", "reading-previous", "adding", "logging"} => r \in Logs

(* What a request knows, by where it is. *)
LocalsOK ==
    /\ \A r \in Requests : about[r] # None =>
          pc[r] \notin {"unsent", "reading-actor", "looking", "finding", "reading-session"}
    /\ \A r \in Requests :
          pc[r] \in {"creating", "closing", "reading-previous", "adding", "logging", "auditing"}
              => about[r] \in CheckIns
    /\ \A r \in CheckIns : about[r] \in {None, r}
    /\ \A r \in Requests :
          pc[r] \in {"unsent", "reading-session", "reading-previous"} => previous[r] = None
    /\ \A r \in Requests : reported[r] # {} =>
          pc[r] \in {"auditing"} \cup Ends /\ about[r] \in CheckIns
    /\ \A r \in Requests : pc[r] \in {"auditing", "done"} /\ r \in CheckOuts => reported[r] # {}

(* A log that adds minutes has a previous log. *)
PreviousTyped == \A r \in Requests : pc[r] = "adding" => previous[r] \in Logs

BeforeOK == \A r, q \in Requests : q \in before[r] => pc[q] \in Ends

(* A session exists once its check-in has created it. *)
SessionsOK ==
    /\ \A s \in CheckIns :
          pc[s] \in {"unsent", "reading-actor", "looking", "creating"} => status[s] = "ABSENT"
    /\ \A r \in CheckOuts \cup Logs : about[r] # None => status[about[r]] # "ABSENT"

(* A check-in about to create found no open session. *)
LookedFor ==
    \A r, s \in CheckIns :
        pc[r] = "creating" /\ s \in before[r] /\ ActorOf[s] = ActorOf[r] => status[s] # "OPEN"

(* SettledOnceAnswered, from the moment the check-out's update replied. *)
Settled ==
    \A c \in CheckOuts : reported[c] # {} =>
        /\ status[about[c]] = "CLOSED"
        /\ \A r \in Requests : c \in before[r] => about[r] # about[c]

Disturbed(c) == \E l \in Logs : about[l] = about[c] /\ Overlap(l, c)

ReportsOK ==
    /\ \A c \in CheckOuts : \A o \in reported[c] :
          outsideMinutes[about[c]] # o => Disturbed(c)
    /\ \A e \in audit : e.outside \in reported[e.request]

LogsOK == \A l \in logs : pc[l] \in {"done", "failed"} /\ about[l] # None

(* m minutes are what the logs of s account for. *)
Encloses(s, lo, hi) == \A l \in LogsOf(s) : lo <= stamp[l] /\ stamp[l] <= hi

Counted(s, m) ==
    /\ m <= 30 * Surplus(s)
    /\ LogsOf(s) # {} =>
          \A lo, hi \in Nat : Encloses(s, lo, hi) => 2 * m <= hi - lo + Surplus(s)

IncrementOf(r) == IF previous[r] = None THEN 0 ELSE Increment(r, previous[r])

(* A log that has read previousLog has the latest of its session's logs.   *)
PreviousOK(r) ==
    IF previous[r] = None THEN LogsOf(about[r]) = {} ELSE previous[r] \in Latest(about[r])

MinutesOK(s) ==
    /\ LogsAtWork(s) = {} => Counted(s, outsideMinutes[s])
    /\ \A r \in LogRequests(s) : pc[r] \in {"adding", "logging"} => PreviousOK(r)
    /\ \A r \in LogsAtWork(s) :
          \E b \in Nat : Counted(s, b) /\ outsideMinutes[s] = b + IncrementOf(r)

IInv ==
    /\ TypeOK /\ OperationOK /\ LocalsOK /\ PreviousTyped /\ BeforeOK /\ SessionsOK
    /\ LookedFor /\ OpenSessionsOverlapped
    /\ Settled /\ ReportsOK
    /\ LogsOK /\ \A s \in CheckIns : Orderly(s) => MinutesOK(s)
-----------------------------------------------------------------------------
(***************************************************************************)
(* What a step does, one lemma for each part of the state.                 *)
(***************************************************************************)
(* The columns of a session, of which one changes at a time. *)
Opens(r)    == pc[r] = "creating" /\ CreateRow(r)
Closes(r)   == pc[r] = "closing" /\ CloseRow(r)
Counts(r)   == pc[r] = "adding" /\ AddMinutes(r)
Inserts(r)  == pc[r] = "logging" /\ LogRow(r)
Reports(r)  == pc[r] = "auditing" /\ LogEntry(r)

Writes(r) == Opens(r) \/ Closes(r) \/ Counts(r) \/ Inserts(r) \/ Reports(r)

(* A step writes nothing, or one request makes its one change. *)
LEMMA TableSteps ==
    ASSUME TypeOK, [Next]_vars
    PROVE  \/ UNCHANGED tables
           \/ \E r \in Requests : /\ Writes(r)
                                  /\ pc' = [pc EXCEPT ![r] = pc'[r]]
                                  /\ pc'[r] \in {"auditing", "logging", "done", "failed"}
                                  /\ pc'[r] = "auditing" => pc[r] \in {"creating", "closing"}
                                  /\ pc'[r] = "logging" => pc[r] = "adding"
                                  /\ UNCHANGED <<about, stamp, outside, previous, before>>
  <1> DEFINE Goal == \E r \in Requests : 
                        /\ Writes(r)
                        /\ pc' = [pc EXCEPT ![r] = pc'[r]]
                        /\ pc'[r] \in {"auditing", "logging", "done", "failed"}
                        /\ pc'[r] = "auditing" => pc[r] \in {"creating", "closing"}
                        /\ pc'[r] = "logging" => pc[r] = "adding"
                        /\ UNCHANGED <<about, stamp, outside, previous, before>>
  <1>a. ASSUME NEW r \in Requests, NEW p, Goto(r, p) PROVE pc'[r] = p /\ pc' = [pc EXCEPT ![r] = pc'[r]]
    BY <1>a DEF Goto, TypeOK, ProcessTypeOK
  <1>1. ASSUME NEW r \in Requests, Create(r) PROVE Goal
    BY <1>1, <1>a DEF Create, Writes, Opens
  <1>2. ASSUME NEW r \in Requests, Close(r) PROVE Goal
    BY <1>2, <1>a DEF Close, Writes, Closes
  <1>3. ASSUME NEW r \in Requests, Add(r) PROVE Goal
    BY <1>3, <1>a DEF Add, Writes, Counts, locals
  <1>4. ASSUME NEW r \in Requests, Log(r) PROVE Goal
    BY <1>4, <1>a DEF Log, Writes, Inserts, locals
  <1>5. ASSUME NEW r \in Requests, Audit(r) PROVE Goal
    BY <1>5, <1>a DEF Audit, Writes, Reports, locals
  <1>6. ASSUME NEW r \in Requests, CallFails(r) PROVE Goal \/ UNCHANGED tables
    BY <1>6, <1>a DEF CallFails, Effect, Writes, Opens, Closes, Counts, Inserts, Reports, locals
  <1>7. ASSUME NEW r \in Requests,
               Call(r) \/ ReadActor(r) \/ Look(r) \/ Find(r) \/ ReadSession(r) \/ ReadPrevious(r)
        PROVE  UNCHANGED tables
    BY <1>7 DEF Call, ReadActor, Look, Find, ReadSession, ReadPrevious
  <1>8. Crash \/ Tick \/ Rest \/ UNCHANGED vars => UNCHANGED tables
    BY DEF Crash, Tick, Rest, vars
  <1> HIDE DEF Goal
  <1>9. Goal \/ UNCHANGED tables
    BY <1>1, <1>2, <1>3, <1>4, <1>5, <1>6, <1>7, <1>8
       DEF Next, RequestStep, CheckInStep, CheckOutStep, LogStep
  <1> QED BY <1>9 DEF Goal

(* A request goes on from where it is, or does not.  A step moves one      *)
(* request, but a crash many.                                              *)
SamePlace(q)    == about'[q] = about[q] /\ stamp'[q] = stamp[q]
SameLocals(q)   == SamePlace(q) /\ (q \in outside' <=> q \in outside)
SamePrevious(q) == previous'[q] = previous[q]
SameReport(q)   == reported'[q] = reported[q]
SameBefore(q)   == before'[q] = before[q]

Starts(q) ==
    /\ pc[q] = "unsent"
    /\ pc'[q] = IF q \in CheckIns THEN "reading-actor"
                ELSE IF q \in CheckOuts THEN "finding" ELSE "reading-session"
    /\ before'[q] = Ended
    /\ SameLocals(q) /\ SamePrevious(q) /\ SameReport(q)

Moves(q) ==
    \/ pc[q] \in Waits /\ pc'[q] \in {"failed", "lost"}
    \/ pc[q] = "reading-actor" /\ pc'[q] \in {"looking", "refused"}
    \/ pc[q] \in {"finding", "reading-session"} /\ pc'[q] = "refused"
    \/ pc[q] = "adding" /\ pc'[q] = "logging" /\ AddMinutes(q)
    \/ pc[q] = "logging" /\ pc'[q] = "done" /\ LogRow(q)
    \/ pc[q] = "auditing" /\ pc'[q] = "done"

Finds(q) ==
    /\ SamePrevious(q) /\ SameReport(q) /\ SameBefore(q)
    /\ \/ /\ pc[q] = "looking"
          /\ about'[q] = q
          /\ pc'[q] = IF OpenSessions(ActorOf[q]) = {} THEN "creating" ELSE "refused"
       \/ pc[q] = "finding" /\ pc'[q] = "closing" /\ about'[q] \in ActiveSessions(q)
       \/ /\ pc[q] = "reading-session" /\ pc'[q] = "reading-previous"
          /\ about'[q] \in OpenSessions(ActorOf[q])

ReadsPrevious(q) ==
    /\ pc[q] = "reading-previous"
    /\ SameLocals(q) /\ SameReport(q) /\ SameBefore(q)
    /\ \/ pc'[q] = "logging" /\ SamePrevious(q) /\ LogsOf(about[q]) = {}
       \/ /\ previous'[q] \in Latest(about[q])
          /\ pc'[q] = IF Increment(q, previous'[q]) > 0 THEN "adding" ELSE "logging"

Replies(q) ==
    /\ pc[q] \in {"creating", "closing"} /\ pc'[q] = "auditing"
    /\ SameLocals(q) /\ SamePrevious(q) /\ SameBefore(q)
    /\ UNCHANGED outsideMinutes
    /\ pc[q] = "closing" => reported'[q] = {outsideMinutes[about[q]]}
                            /\ status'[about[q]] = "CLOSED"
    /\ pc[q] = "creating" => reported'[q] = {outsideMinutes[q]}

Follows(q) ==
    \/ /\ pc'[q] = pc[q] \/ Moves(q)
       /\ SameLocals(q) /\ SamePrevious(q) /\ SameReport(q) /\ SameBefore(q)
    \/ Starts(q)
    \/ Finds(q)
    \/ ReadsPrevious(q)
    \/ Replies(q)

(* Where a request goes, and what it learns on its way. *)
LEMMA Control ==
    ASSUME TypeOK, OperationOK, LocalsOK, [Next]_vars, NEW q \in Requests
    PROVE  Follows(q)
  <1> USE DEF SamePlace, SameLocals, SamePrevious, SameReport, SameBefore
  <1>a. pc \in [Requests -> Waits \cup Ends \cup {"unsent"}]
    BY DEF TypeOK, ProcessTypeOK
  <1>b. /\ about \in [Requests -> CheckIns \cup {None}]
        /\ stamp \in [Requests -> Nat]
        /\ previous \in [Requests -> Logs \cup {None}]
        /\ reported \in [Requests -> SUBSET Nat]
        /\ before \in [Requests -> SUBSET Requests]
    BY DEF TypeOK, ProcessTypeOK
  <1>c. ASSUME NEW r \in Requests, NEW p, pc' = [pc EXCEPT ![r] = p]
        PROVE  pc'[q] = IF q = r THEN p ELSE pc[q]
    BY <1>a, <1>c
  <1>d. ASSUME UNCHANGED <<locals, before>>, pc'[q] = pc[q] \/ Moves(q)
        PROVE  Follows(q)
    BY <1>d DEF Follows, locals
  <1>1. ASSUME NEW r \in Requests, Call(r) PROVE Follows(q)
    <2>1. CASE q = r
      BY <1>1, <2>1, <1>a, <1>b DEF Call, Goto, Follows, Starts, locals
    <2>2. CASE q # r
      BY <1>1, <2>2, <1>a, <1>b DEF Call, Goto, Follows, locals
    <2> QED BY <2>1, <2>2
  <1>2. ASSUME NEW r \in Requests, ReadActor(r) PROVE Follows(q)
    <2>1. pc'[q] = pc[q] \/ Moves(q)
      BY <1>2, <1>a DEF ReadActor, Goto, Moves
    <2> QED BY <1>2, <2>1, <1>d DEF ReadActor
  <1>3. ASSUME NEW r \in Requests, Look(r) PROVE Follows(q)
    <2>1. CASE q = r
      BY <1>3, <2>1, <1>a, <1>b DEF Look, Goto, Follows, Finds
    <2>2. CASE q # r
      BY <1>3, <2>2, <1>a, <1>b DEF Look, Goto, Follows
    <2> QED BY <2>1, <2>2
  <1>4. ASSUME NEW r \in Requests, Create(r) PROVE Follows(q)
    <2>0. UNCHANGED outsideMinutes
      BY <1>4 DEF Create, CreateRow
    <2>1. CASE q = r
      BY <1>4, <2>0, <2>1, <1>a, <1>b DEF Create, Goto, Follows, Replies
    <2>2. CASE q # r
      BY <1>4, <2>2, <1>a, <1>b DEF Create, Goto, Follows
    <2> QED BY <2>1, <2>2
  <1>5. ASSUME NEW r \in Requests, Find(r) PROVE Follows(q)
    <2>0. UNCHANGED <<outside, previous, reported, before>> /\ pc[r] = "finding"
      BY <1>5 DEF Find
    <2>1. CASE ActiveSessions(r) = {} /\ Refuse(r)
      <3>1. pc'[q] = pc[q] \/ Moves(q)
        BY <2>0, <2>1, <1>a DEF Refuse, Goto, Moves
      <3> QED BY <2>0, <2>1, <3>1, <1>d DEF Refuse, locals
    <2>2. ASSUME NEW s \in ActiveSessions(r), Goto(r, "closing"),
                 about' = [about EXCEPT ![r] = s], stamp' = [stamp EXCEPT ![r] = now]
          PROVE  Follows(q)
      <3>1. CASE q = r
        BY <2>0, <2>2, <3>1, <1>a, <1>b DEF Goto, Follows, Finds
      <3>2. CASE q # r
        BY <2>0, <2>2, <3>2, <1>a, <1>b DEF Goto, Follows
      <3> QED BY <3>1, <3>2
    <2> QED BY <1>5, <2>1, <2>2 DEF Find
  <1>6. ASSUME NEW r \in Requests, Close(r) PROVE Follows(q)
    <2>0. /\ UNCHANGED outsideMinutes
          /\ status'[about[r]] = "CLOSED"
      <3>1. about[r] \in CheckIns
        BY <1>6 DEF Close, LocalsOK
      <3> QED BY <1>6, <3>1 DEF Close, CloseRow, TypeOK, TablesTypeOK
    <2>1. CASE q = r
      BY <1>6, <2>0, <2>1, <1>a, <1>b DEF Close, Goto, Follows, Replies
    <2>2. CASE q # r
      BY <1>6, <2>2, <1>a, <1>b DEF Close, Goto, Follows
    <2> QED BY <2>1, <2>2
  <1>7. ASSUME NEW r \in Requests, ReadSession(r) PROVE Follows(q)
    <2>0. UNCHANGED <<previous, reported, before>> /\ pc[r] = "reading-session"
      BY <1>7 DEF ReadSession
    <2>1. CASE Refuse(r) /\ UNCHANGED outside
      <3>1. pc'[q] = pc[q] \/ Moves(q)
        BY <2>0, <2>1, <1>a DEF Refuse, Goto, Moves
      <3> QED BY <2>0, <2>1, <3>1, <1>d DEF Refuse, locals
    <2>2. ASSUME TargetOf[r] \in OpenSessions(ActorOf[r]), Goto(r, "reading-previous"),
                 about' = [about EXCEPT ![r] = TargetOf[r]],
                 NEW t \in RecordedAt(r), stamp' = [stamp EXCEPT ![r] = t],
                 outside' \in {outside, outside \cup {r}}
          PROVE  Follows(q)
      <3>1. CASE q = r
        BY <2>0, <2>2, <3>1, <1>a, <1>b DEF Goto, Follows, Finds
      <3>2. CASE q # r
        <4>1. q \in outside' <=> q \in outside
          BY <2>2, <3>2
        <4>2. SamePlace(q) /\ pc'[q] = pc[q]
          BY <2>2, <3>2, <1>a, <1>b DEF Goto
        <4> QED BY <2>0, <4>1, <4>2 DEF Follows
      <3> QED BY <3>1, <3>2
    <2> QED BY <1>7, <2>1, <2>2 DEF ReadSession
  <1>8. ASSUME NEW r \in Requests, ReadPrevious(r) PROVE Follows(q)
    <2>0. UNCHANGED <<about, stamp, outside, reported, before>> /\ pc[r] = "reading-previous"
      BY <1>8 DEF ReadPrevious
    <2>1. CASE LogsOf(about[r]) = {} /\ Goto(r, "logging") /\ UNCHANGED previous
      BY <2>0, <2>1, <1>a DEF Goto, Follows, ReadsPrevious
    <2>2. ASSUME NEW p \in Latest(about[r]), previous' = [previous EXCEPT ![r] = p],
                 Goto(r, IF Increment(r, p) > 0 THEN "adding" ELSE "logging")
          PROVE  Follows(q)
      <3>1. CASE q = r
        BY <2>0, <2>2, <3>1, <1>a, <1>b DEF Goto, Follows, ReadsPrevious
      <3>2. CASE q # r
        BY <2>0, <2>2, <3>2, <1>a, <1>b DEF Goto, Follows
      <3> QED BY <3>1, <3>2
    <2> QED BY <1>8, <2>1, <2>2 DEF ReadPrevious
  <1>9. ASSUME NEW r \in Requests, Add(r) \/ Log(r) \/ Audit(r) PROVE Follows(q)
    <2>1. pc'[q] = pc[q] \/ Moves(q)
      BY <1>9, <1>a DEF Add, Log, Audit, Goto, Moves
    <2> QED BY <1>9, <2>1, <1>d DEF Add, Log, Audit
  <1>10. ASSUME NEW r \in Requests, CallFails(r) PROVE Follows(q)
    <2>1. pc'[q] = pc[q] \/ Moves(q)
      BY <1>10, <1>a DEF CallFails, Goto, Moves
    <2> QED BY <1>10, <2>1, <1>d DEF CallFails
  <1>11. ASSUME Crash PROVE Follows(q)
    <2>1. pc'[q] = pc[q] \/ Moves(q)
      BY <1>11 DEF Crash, Moves
    <2> QED BY <1>11, <2>1, <1>d DEF Crash
  <1>12. ASSUME Tick \/ UNCHANGED vars PROVE Follows(q)
    BY <1>12, <1>d DEF Tick, vars
  <1> QED BY <1>1, <1>2, <1>3, <1>4, <1>5, <1>6, <1>7, <1>8, <1>9, <1>10, <1>11, <1>12
          DEF Next, RequestStep, CheckInStep, CheckOutStep, LogStep, Rest
-----------------------------------------------------------------------------
(***************************************************************************)
(* Types                                                                   *)
(***************************************************************************)
LEMMA IncrementType ==
    ASSUME ProcessTypeOK, NEW r \in Logs, NEW p \in Logs
    PROVE  /\ Increment(r, p) \in Nat
           /\ Increment(r, p) <= 30
           /\ stamp[p] <= stamp[r] => 2 * Increment(r, p) <= stamp[r] - stamp[p] + 1
           /\ stamp[r] < stamp[p] => Increment(r, p) = 0
  <1>1. stamp[r] \in Nat /\ stamp[p] \in Nat
    BY DEF ProcessTypeOK, Requests
  <1> QED BY <1>1 DEF Increment, Minutes

(* What an audit entry is made of. *)
LEMMA EntryType ==
    ASSUME NEW r \in Requests, NEW O \in SUBSET Nat, NEW e \in [request : {r}, outside : O]
    PROVE  e \in Entry /\ e.request = r /\ e.outside \in O
  BY DEF Entry

(* Every step keeps the types of the tables. *)
LEMMA TablesTypeStep ==
    ASSUME TypeOK, OperationOK, LocalsOK, PreviousTyped, [Next]_vars
    PROVE  TablesTypeOK'
  <1>0. CASE UNCHANGED tables
    BY <1>0 DEF tables, sessions, TypeOK, TablesTypeOK
  <1>1. ASSUME NEW r \in Requests, Writes(r) PROVE TablesTypeOK'
    <2>1. CASE Opens(r)
      <3>1. r \in CheckIns /\ stamp[r] \in Nat
        BY <2>1 DEF Opens, OperationOK, TypeOK, ProcessTypeOK
      <3> QED BY <2>1, <3>1 DEF Opens, CreateRow, TypeOK, TablesTypeOK
    <2>2. CASE Closes(r)
      <3>1. about[r] \in CheckIns /\ stamp[r] \in Nat
        BY <2>2 DEF Closes, LocalsOK, TypeOK, ProcessTypeOK
      <3> QED BY <2>2, <3>1 DEF Closes, CloseRow, TypeOK, TablesTypeOK
    <2>3. CASE Counts(r)
      <3>1. about[r] \in CheckIns /\ r \in Logs /\ previous[r] \in Logs
        BY <2>3 DEF Counts, LocalsOK, OperationOK, PreviousTyped
      <3>2. Increment(r, previous[r]) \in Nat
        BY <3>1, IncrementType DEF TypeOK
      <3>3. outsideMinutes[about[r]] + Increment(r, previous[r]) \in Nat
        BY <3>1, <3>2 DEF TypeOK, TablesTypeOK
      <3> QED BY <2>3, <3>1, <3>3 DEF Counts, AddMinutes, TypeOK, TablesTypeOK
    <2>4. CASE Inserts(r)
      <3>1. r \in Logs
        BY <2>4 DEF Inserts, OperationOK
      <3> QED BY <2>4, <3>1 DEF Inserts, LogRow, sessions, TypeOK, TablesTypeOK
    <2>5. CASE Reports(r)
      <3>1. [request : {r}, outside : reported[r]] \in SUBSET Entry
        BY EntryType DEF TypeOK, ProcessTypeOK
      <3>2. audit' \in SUBSET Entry
        BY <2>5, <3>1 DEF Reports, LogEntry, TypeOK, TablesTypeOK
      <3> QED BY <2>5, <3>2 DEF Reports, LogEntry, sessions, TypeOK, TablesTypeOK
    <2> QED BY <1>1, <2>1, <2>2, <2>3, <2>4, <2>5 DEF Writes
  <1> QED BY <1>0, <1>1, TableSteps

(* Every step keeps the types of the process. *)
LEMMA ProcessTypeStep ==
    ASSUME TypeOK, OperationOK, LocalsOK, [Next]_vars
    PROVE  ProcessTypeOK' /\ before' \in [Requests -> SUBSET Requests] /\ faults' \in 0..MaxFaults
  <1> DEFINE Goal == /\ ProcessTypeOK'
                     /\ before' \in [Requests -> SUBSET Requests]
                     /\ faults' \in 0..MaxFaults
  <1> USE DEF TypeOK
  <1>a. ASSUME UNCHANGED locals, now' \in 0..MaxTime,
               pc' \in [Requests -> Waits \cup Ends \cup {"unsent"}]
        PROVE  ProcessTypeOK'
    BY <1>a DEF ProcessTypeOK, locals
  <1>b. ASSUME NEW r \in Requests, NEW p \in Waits \cup Ends, Goto(r, p)
        PROVE  pc' \in [Requests -> Waits \cup Ends \cup {"unsent"}]
    BY <1>b DEF Goto, ProcessTypeOK
  <1>c. Fault => faults' \in 0..MaxFaults
    BY BoundsAreNat DEF Fault
  <1>d. now \in 0..MaxTime
    BY DEF ProcessTypeOK
  <1>1. ASSUME NEW r \in Requests, Call(r) PROVE Goal
    <2>1. Ended \in SUBSET Requests
      BY DEF Ended
    <2>2. pc' \in [Requests -> Waits \cup Ends \cup {"unsent"}]
      BY <1>1 DEF Call, Goto, ProcessTypeOK, Waits
    <2> QED BY <1>1, <1>a, <1>d, <2>1, <2>2 DEF Call
  <1>2. ASSUME NEW r \in Requests, ReadActor(r) PROVE Goal
    <2>1. pc' \in [Requests -> Waits \cup Ends \cup {"unsent"}]
      BY <1>2 DEF ReadActor, Goto, ProcessTypeOK, Waits, Ends
    <2> QED BY <1>2, <1>a, <1>d, <2>1 DEF ReadActor
  <1>3. ASSUME NEW r \in Requests, Look(r) PROVE Goal
    <2>a. pc[r] = "looking"
      BY <1>3 DEF Look
    <2>b. now \in Nat
      BY <1>d, BoundsAreNat
    <2>0. r \in CheckIns /\ now \in Nat
      BY <2>a, <2>b DEF OperationOK
    <2>1. pc' \in [Requests -> Waits \cup Ends \cup {"unsent"}]
      BY <1>3 DEF Look, Goto, ProcessTypeOK, Waits, Ends
    <2>2. /\ about' \in [Requests -> CheckIns \cup {None}]
          /\ stamp' \in [Requests -> Nat]
      BY <1>3, <2>0 DEF Look, ProcessTypeOK
    <2> QED BY <1>3, <2>1, <2>2 DEF Look, ProcessTypeOK
  <1>4. ASSUME NEW r \in Requests, Create(r) PROVE Goal
    <2>0. r \in CheckIns
      BY <1>4 DEF Create, OperationOK
    <2>1. pc' \in [Requests -> Waits \cup Ends \cup {"unsent"}]
      BY <1>4 DEF Create, Goto, ProcessTypeOK, Waits
    <2>2. reported' \in [Requests -> SUBSET Nat]
      BY <1>4, <2>0 DEF Create, ProcessTypeOK, TablesTypeOK
    <2> QED BY <1>4, <2>1, <2>2 DEF Create, ProcessTypeOK
  <1>5. ASSUME NEW r \in Requests, Find(r) PROVE Goal
    <2>0. now \in Nat /\ ActiveSessions(r) \in SUBSET CheckIns
      BY BoundsAreNat DEF ProcessTypeOK, ActiveSessions, LastOpened, OpenSessions, SessionsOf
    <2>1. pc' \in [Requests -> Waits \cup Ends \cup {"unsent"}]
      BY <1>5 DEF Find, Refuse, Goto, ProcessTypeOK, Waits, Ends
    <2>2. /\ about' \in [Requests -> CheckIns \cup {None}]
          /\ stamp' \in [Requests -> Nat]
      BY <1>5, <2>0 DEF Find, Refuse, ProcessTypeOK
    <2> QED BY <1>5, <2>1, <2>2 DEF Find, ProcessTypeOK
  <1>6. ASSUME NEW r \in Requests, Close(r) PROVE Goal
    <2>0. about[r] \in CheckIns
      BY <1>6 DEF Close, LocalsOK
    <2>1. pc' \in [Requests -> Waits \cup Ends \cup {"unsent"}]
      BY <1>6 DEF Close, Goto, ProcessTypeOK, Waits
    <2>2. reported' \in [Requests -> SUBSET Nat]
      BY <1>6, <2>0 DEF Close, ProcessTypeOK, TablesTypeOK
    <2> QED BY <1>6, <2>1, <2>2 DEF Close, ProcessTypeOK
  <1>7. ASSUME NEW r \in Requests, ReadSession(r) PROVE Goal
    <2>0. r \in Logs /\ TargetOf[r] \in CheckIns \cup {None}
      BY <1>7, RequestsAreValid DEF ReadSession, OperationOK
    <2>1. RecordedAt(r) \in SUBSET Nat
      BY <2>0, RequestsAreValid, BoundsAreNat DEF RecordedAt, ProcessTypeOK
    <2>2. pc' \in [Requests -> Waits \cup Ends \cup {"unsent"}]
      BY <1>7 DEF ReadSession, Refuse, Goto, ProcessTypeOK, Waits, Ends
    <2>3. about' \in [Requests -> CheckIns \cup {None}]
      BY <1>7, <2>0 DEF ReadSession, Refuse, ProcessTypeOK
    <2>4. stamp' \in [Requests -> Nat]
      BY <1>7, <2>1 DEF ReadSession, Refuse, ProcessTypeOK
    <2>5. outside' \in SUBSET Logs
      BY <1>7, <2>0 DEF ReadSession, ProcessTypeOK
    <2> QED BY <1>7, <2>2, <2>3, <2>4, <2>5 DEF ReadSession, ProcessTypeOK
  <1>8. ASSUME NEW r \in Requests, ReadPrevious(r) PROVE Goal
    <2>0. \A p \in Latest(about[r]) : p \in Logs
      BY DEF Latest, LogsOf, TablesTypeOK
    <2>1. pc' \in [Requests -> Waits \cup Ends \cup {"unsent"}]
      BY <1>8 DEF ReadPrevious, Goto, ProcessTypeOK, Waits
    <2>2. previous' \in [Requests -> Logs \cup {None}]
      BY <1>8, <2>0 DEF ReadPrevious, ProcessTypeOK
    <2> QED BY <1>8, <2>1, <2>2 DEF ReadPrevious, ProcessTypeOK
  <1>9. ASSUME NEW r \in Requests, Add(r) \/ Log(r) \/ Audit(r) PROVE Goal
    <2>1. pc' \in [Requests -> Waits \cup Ends \cup {"unsent"}]
      BY <1>9 DEF Add, Log, Audit, Goto, ProcessTypeOK, Waits, Ends
    <2> QED BY <1>9, <1>a, <1>d, <2>1 DEF Add, Log, Audit
  <1>10. ASSUME NEW r \in Requests, CallFails(r) PROVE Goal
    <2>1. pc' \in [Requests -> Waits \cup Ends \cup {"unsent"}]
      BY <1>10 DEF CallFails, Goto, ProcessTypeOK, Ends
    <2> QED BY <1>10, <1>a, <1>c, <1>d, <2>1 DEF CallFails
  <1>11. ASSUME Crash PROVE Goal
    <2>1. pc' \in [Requests -> Waits \cup Ends \cup {"unsent"}]
      BY <1>11 DEF Crash, ProcessTypeOK, Ends
    <2> QED BY <1>11, <1>a, <1>c, <1>d, <2>1 DEF Crash
  <1>12. ASSUME Tick PROVE Goal
    <2>1. now' \in 0..MaxTime
      BY <1>12, BoundsAreNat DEF Tick, ProcessTypeOK
    <2>2. pc' \in [Requests -> Waits \cup Ends \cup {"unsent"}]
      BY <1>12 DEF Tick, ProcessTypeOK
    <2> QED BY <1>12, <1>a, <2>1, <2>2 DEF Tick
  <1>13. ASSUME UNCHANGED vars PROVE Goal
    BY <1>13 DEF vars, locals, ProcessTypeOK
  <1> QED BY <1>1, <1>2, <1>3, <1>4, <1>5, <1>6, <1>7, <1>8, <1>9, <1>10, <1>11, <1>12, <1>13
          DEF Next, RequestStep, CheckInStep, CheckOutStep, LogStep, Rest

(* Every step keeps the types. *)
LEMMA TypeStep ==
    ASSUME TypeOK, OperationOK, LocalsOK, PreviousTyped, [Next]_vars
    PROVE  TypeOK'
  BY TablesTypeStep, ProcessTypeStep DEF TypeOK

(* A request stays on the path of its operation. *)
LEMMA OperationStep ==
    ASSUME TypeOK, OperationOK, LocalsOK, [Next]_vars
    PROVE  OperationOK'
  <1> SUFFICES ASSUME NEW r \in Requests
               PROVE  /\ pc'[r] \in {"reading-actor", "looking", "creating"} => r \in CheckIns
                      /\ pc'[r] \in {"finding", "closing"} => r \in CheckOuts
                      /\ pc'[r] \in {"reading-session", "reading-previous", "adding", "logging"}
                            => r \in Logs
    BY DEF OperationOK
  <1>1. Follows(r)
    BY Control
  <1> QED BY <1>1 DEF OperationOK, Follows, Moves, Starts, Finds, ReadsPrevious, Replies, Requests

(* A request knows what its place says. *)
LEMMA LocalsStep ==
    ASSUME TypeOK, OperationOK, LocalsOK, PreviousTyped, [Next]_vars
    PROVE  LocalsOK' /\ PreviousTyped'
  <1> SUFFICES ASSUME NEW r \in Requests
      PROVE  /\ about'[r] # None => pc'[r] \notin
                  {"unsent", "reading-actor", "looking", "finding", "reading-session"}
             /\ pc'[r] \in {"creating", "closing", "reading-previous", "adding", "logging", "auditing"}
                  => about'[r] \in CheckIns
             /\ r \in CheckIns => about'[r] \in {None, r}
             /\ pc'[r] \in {"unsent", "reading-session", "reading-previous"} => previous'[r] = None
             /\ reported'[r] # {} => pc'[r] \in {"auditing"} \cup Ends /\ about'[r] \in CheckIns
             /\ pc'[r] \in {"auditing", "done"} /\ r \in CheckOuts => reported'[r] # {}
             /\ pc'[r] = "adding" => previous'[r] \in Logs
    BY DEF LocalsOK, PreviousTyped, Requests
  <1>0. Follows(r)
    BY Control
  <1> USE DEF SamePlace, SameLocals, SamePrevious, SameReport
  <1>1. CASE (pc'[r] = pc[r] \/ Moves(r)) /\ SameLocals(r) /\ SamePrevious(r) /\ SameReport(r)
    <2>1. r \in CheckOuts => r \notin Logs
      BY OperationsAreDisjoint
    <2> QED BY <1>1, <2>1 DEF Moves, LocalsOK, PreviousTyped, OperationOK, Waits, Ends
  <1>2. CASE Starts(r)
    BY <1>2 DEF Starts, LocalsOK, Ends
  <1>3. CASE Finds(r)
    <2>0. /\ pc[r] = "looking" => r \in CheckIns
          /\ pc[r] = "finding" => r \in CheckOuts
          /\ pc[r] = "reading-session" => r \in Logs
      BY DEF OperationOK
    <2>1. pc[r] \in {"looking", "finding", "reading-session"} => reported[r] = {}
      BY DEF LocalsOK, Ends
    <2>2. pc[r] = "reading-session" => previous[r] = None
      BY DEF LocalsOK
    <2>3. /\ ActiveSessions(r) \in SUBSET CheckIns
          /\ OpenSessions(ActorOf[r]) \in SUBSET CheckIns
      BY DEF ActiveSessions, LastOpened, OpenSessions, SessionsOf
    <2>4. CASE pc[r] = "looking"
      BY <1>3, <2>0, <2>1, <2>4, OperationsAreDisjoint DEF Finds
    <2>5. CASE pc[r] = "finding"
      BY <1>3, <2>0, <2>1, <2>3, <2>5, OperationsAreDisjoint DEF Finds
    <2>6. CASE pc[r] = "reading-session"
      BY <1>3, <2>0, <2>1, <2>2, <2>3, <2>6, OperationsAreDisjoint DEF Finds
    <2> QED BY <1>3, <2>4, <2>5, <2>6 DEF Finds
  <1>4. CASE ReadsPrevious(r)
    <2>1. \A p \in Latest(about[r]) : p \in Logs
      BY DEF Latest, LogsOf, TypeOK, TablesTypeOK
    <2> QED BY <1>4, <2>1 DEF ReadsPrevious, LocalsOK, Ends
  <1>5. CASE Replies(r)
    <2>1. pc[r] = "creating" => r \notin CheckOuts
      BY OperationsAreDisjoint DEF OperationOK
    <2> QED BY <1>5, <2>1 DEF Replies, LocalsOK
  <1> QED BY <1>0, <1>1, <1>2, <1>3, <1>4, <1>5 DEF Follows
-----------------------------------------------------------------------------
(***************************************************************************)
(* Sessions                                                                *)
(***************************************************************************)
LEMMA StatusSteps ==
    ASSUME TypeOK, OperationOK, LocalsOK, [Next]_vars, NEW s \in CheckIns
    PROVE  \/ status'[s] = status[s]
           \/ pc[s] = "creating" /\ status'[s] = "OPEN" /\ pc'[s] \in {"auditing", "failed"}
           \/ status'[s] = "CLOSED" /\ \E r \in Requests : pc[r] = "closing" /\ about[r] = s
  <1>1. ASSUME NEW r \in Requests, Opens(r), pc' = [pc EXCEPT ![r] = pc'[r]],
               pc'[r] \in {"auditing", "logging", "done", "failed"},
               pc'[r] = "logging" => pc[r] = "adding"
        PROVE  \/ status'[s] = status[s]
               \/ pc[s] = "creating" /\ status'[s] = "OPEN" /\ pc'[s] \in {"auditing", "failed"}
    <2>1. Follows(r) /\ pc[r] = "creating"
      BY <1>1, Control DEF Opens
    <2>2. pc'[r] # "done"
      BY <2>1 DEF Follows, Moves, Starts, Finds, ReadsPrevious, Replies
    <2> QED BY <1>1, <2>1, <2>2 DEF Opens, CreateRow, TypeOK, TablesTypeOK
  <1>2. ASSUME NEW r \in Requests, Closes(r)
        PROVE  \/ status'[s] = status[s]
               \/ status'[s] = "CLOSED" /\ \E q \in Requests : pc[q] = "closing" /\ about[q] = s
    <2>1. about[r] \in CheckIns
      BY <1>2 DEF Closes, LocalsOK
    <2> QED BY <1>2, <2>1 DEF Closes, CloseRow, TypeOK, TablesTypeOK
  <1>3. ASSUME NEW r \in Requests, Counts(r) \/ Inserts(r) \/ Reports(r)
        PROVE  status'[s] = status[s]
    BY <1>3 DEF Counts, AddMinutes, Inserts, LogRow, Reports, LogEntry, sessions
  <1>4. UNCHANGED tables => status'[s] = status[s]
    BY DEF tables, sessions
  <1> QED BY <1>1, <1>2, <1>3, <1>4, TableSteps DEF Writes

(* What had ended stays ended. *)
LEMMA BeforeStep ==
    ASSUME TypeOK, OperationOK, LocalsOK, BeforeOK, [Next]_vars
    PROVE  BeforeOK'
  <1> SUFFICES ASSUME NEW r \in Requests, NEW q \in Requests, q \in before'[r]
               PROVE  pc'[q] \in Ends
    BY DEF BeforeOK
  <1>1. Follows(r) /\ Follows(q)
    BY Control
  <1>2. q \in before[r] \/ q \in Ended
    BY <1>1 DEF Follows, SameBefore, Starts, Finds, ReadsPrevious, Replies
  <1>3. pc[q] \in Ends
    BY <1>2 DEF BeforeOK, Ended
  <1> QED BY <1>1, <1>3 DEF Follows, Moves, Starts, Finds, ReadsPrevious, Replies, Ends, Waits

(* What another request sees of a request that has ended does not change.  *)
LEMMA BeforeChanges ==
    ASSUME TypeOK, OperationOK, LocalsOK, [Next]_vars, NEW r \in Requests
    PROVE  \/ before'[r] = before[r]
           \/ before'[r] = Ended /\ Starts(r)
  BY Control DEF Follows, SameBefore, Starts, Finds, ReadsPrevious, Replies

(* A session exists once created, and is never absent again. *)
LEMMA SessionsStep ==
    ASSUME TypeOK, OperationOK, LocalsOK, SessionsOK, [Next]_vars
    PROVE  SessionsOK'
  <1>1. ASSUME NEW s \in CheckIns,
               pc'[s] \in {"unsent", "reading-actor", "looking", "creating"}
        PROVE  status'[s] = "ABSENT"
    <2>1. Follows(s)
      BY Control DEF Requests
    <2>2. pc[s] \in {"unsent", "reading-actor", "looking", "creating"}
      BY <1>1, <2>1 DEF Follows, Moves, Starts, Finds, ReadsPrevious, Replies
    <2>3. status[s] = "ABSENT"
      BY <2>2 DEF SessionsOK
    <2>4. ASSUME NEW r \in Requests, pc[r] = "closing", about[r] = s PROVE FALSE
      BY <2>3, <2>4, RequestsAreValid DEF SessionsOK, OperationOK, Requests
    <2> QED BY <1>1, <2>3, <2>4, StatusSteps
  <1>2. ASSUME NEW s \in CheckIns, status[s] # "ABSENT"
        PROVE  status'[s] # "ABSENT"
    BY <1>2, StatusSteps
  <1>3. ASSUME NEW r \in CheckOuts \cup Logs, about'[r] # None
        PROVE  status'[about'[r]] # "ABSENT"
    <2>0. r \in Requests /\ r \notin CheckIns
      BY OperationsAreDisjoint DEF Requests
    <2>1. Follows(r) /\ about'[r] \in CheckIns \cup {None}
      BY <2>0, Control, ProcessTypeStep DEF ProcessTypeOK
    <2>2. CASE about'[r] = about[r]
      BY <1>2, <1>3, <2>1, <2>2 DEF SessionsOK
    <2>3. CASE Finds(r)
      <3>1. about'[r] \in OpenSessions(ActorOf[r])
        BY <2>0, <2>3 DEF Finds, ActiveSessions, LastOpened, OperationOK
      <3>2. status[about'[r]] = "OPEN"
        BY <3>1 DEF OpenSessions
      <3> QED BY <1>2, <1>3, <2>1, <3>2
    <2> QED BY <2>1, <2>2, <2>3
            DEF Follows, SameLocals, SamePlace, Starts, ReadsPrevious, Replies
  <1> QED BY <1>1, <1>3 DEF SessionsOK

(* A session is created beside overlapping ones only. *)
LEMMA OpenStep ==
    ASSUME TypeOK, OperationOK, LocalsOK, BeforeOK, SessionsOK, LookedFor,
           OpenSessionsOverlapped, [Next]_vars
    PROVE  LookedFor' /\ OpenSessionsOverlapped'
  <1> USE DEF Requests
  <1>a. ASSUME NEW s \in CheckIns, status'[s] = "OPEN"
        PROVE  status[s] = "OPEN" \/ pc[s] = "creating"
    BY <1>a, StatusSteps
  <1>b. ASSUME NEW s \in CheckIns, status[s] # "ABSENT" \/ pc[s] = "creating"
        PROVE  before'[s] = before[s]
    <2>1. ~ Starts(s)
      BY <1>b DEF Starts, SessionsOK
    <2> QED BY <2>1, BeforeChanges
  <1>1. ASSUME NEW r \in CheckIns, NEW s \in CheckIns,
               pc'[r] = "creating", s \in before'[r], ActorOf[s] = ActorOf[r]
        PROVE  status'[s] # "OPEN"
    <2>0. Follows(r) /\ before'[r] = before[r]
      BY <1>1, Control, BeforeChanges DEF Starts
    <2>1. pc[s] # "creating"
      BY <1>1, <2>0 DEF BeforeOK, Ends
    <2>2. pc[r] = "creating" \/ (pc[r] = "looking" /\ OpenSessions(ActorOf[r]) = {})
      BY <1>1, <2>0 DEF Follows, Moves, Starts, Finds, ReadsPrevious, Replies
    <2>3. status[s] # "OPEN"
      BY <1>1, <2>0, <2>2 DEF LookedFor, OpenSessions, SessionsOf
    <2> QED BY <1>a, <2>1, <2>3
  <1>2. ASSUME NEW s \in CheckIns, NEW t \in CheckIns, s # t, ActorOf[s] = ActorOf[t],
               status'[s] = "OPEN", status'[t] = "OPEN"
        PROVE  s \notin before'[t]
    <2>1. (status[s] = "OPEN" \/ pc[s] = "creating") /\ (status[t] = "OPEN" \/ pc[t] = "creating")
      BY <1>2, <1>a
    <2>2. before'[t] = before[t]
      BY <2>1, <1>b
    <2>3. pc[s] = "creating" => s \notin before[t]
      BY DEF BeforeOK, Ends
    <2>4. pc[t] = "creating" /\ status[s] = "OPEN" => s \notin before[t]
      BY <1>2 DEF LookedFor
    <2>5. status[s] = "OPEN" /\ status[t] = "OPEN" => s \notin before[t]
      BY <1>2 DEF OpenSessionsOverlapped, Overlap
    <2> QED BY <2>1, <2>2, <2>3, <2>4, <2>5
  <1> QED BY <1>1, <1>2 DEF LookedFor, OpenSessionsOverlapped, Overlap

(* No request finds a session whose check-out was answered. *)
LEMMA SettledStep ==
    ASSUME TypeOK, OperationOK, LocalsOK, BeforeOK, SessionsOK, Settled, [Next]_vars
    PROVE  Settled'
  <1> SUFFICES ASSUME NEW c \in CheckOuts, reported'[c] # {}
               PROVE  /\ status'[about'[c]] = "CLOSED"
                      /\ \A r \in Requests : c \in before'[r] => about'[r] # about'[c]
    BY DEF Settled
  <1>0. c \in Requests /\ Follows(c)
    BY Control DEF Requests
  <1>1. CASE Replies(c)
    <2>1. pc[c] = "closing"
      BY <1>0, <1>1, OperationsAreDisjoint DEF Replies, OperationOK
    <2>2. status'[about'[c]] = "CLOSED"
      BY <1>1, <2>1 DEF Replies, SameLocals, SamePlace
    <2>3. pc'[c] \notin Ends
      BY <1>1 DEF Replies, Ends
    <2>4. \A r \in Requests : c \notin before'[r]
      BY <1>0, <2>3, BeforeStep DEF BeforeOK
    <2> QED BY <2>2, <2>4
  <1>2. CASE reported'[c] = reported[c]
    <2>0. reported[c] # {} /\ about[c] \in CheckIns /\ pc[c] \in {"auditing"} \cup Ends
      BY <1>0, <1>2 DEF LocalsOK
    <2>1. about'[c] = about[c]
      BY <1>0, <2>0 DEF Follows, SameLocals, SamePlace, Starts, Finds, ReadsPrevious, Replies, Ends
    <2>2. status[about[c]] = "CLOSED"
      BY <2>0 DEF Settled
    <2>3. status'[about[c]] = "CLOSED"
      <3>1. pc[about[c]] # "creating"
        BY <2>0, <2>2 DEF SessionsOK
      <3> QED BY <2>0, <2>2, <3>1, StatusSteps
    <2>4. ASSUME NEW r \in Requests, c \in before'[r], about'[r] = about[c] PROVE FALSE
      <3>0. Follows(r) /\ about[r] \in CheckIns \cup {None}
        BY Control DEF TypeOK, ProcessTypeOK
      <3>1. CASE Starts(r)
        <4>1. about[r] = None /\ about'[r] = about[r]
          BY <3>1 DEF Starts, SameLocals, SamePlace, LocalsOK
        <4> QED BY <2>0, <2>4, <4>1, RequestsAreValid DEF Requests
      <3>2. CASE Finds(r)
        <4>1. CASE r \in CheckIns
          <5>1. about'[r] = r /\ pc[r] = "looking"
            BY <3>2, <4>1, OperationsAreDisjoint DEF Finds, OperationOK
          <5> QED BY <2>2, <2>4, <4>1, <5>1 DEF SessionsOK
        <4>2. CASE r \notin CheckIns
          <5>1. about'[r] \in OpenSessions(ActorOf[r])
            BY <3>2, <4>2 DEF Finds, ActiveSessions, LastOpened, OperationOK
          <5> QED BY <2>2, <2>4, <5>1 DEF OpenSessions
        <4> QED BY <4>1, <4>2
      <3>3. CASE about'[r] = about[r] /\ before'[r] = before[r]
        BY <2>0, <2>4, <3>3 DEF Settled
      <3> QED BY <3>0, <3>1, <3>2, <3>3
              DEF Follows, SameLocals, SamePlace, SameBefore, ReadsPrevious, Replies
    <2> QED BY <2>1, <2>3, <2>4
  <1> QED BY <1>0, <1>1, <1>2
          DEF Follows, SameReport, Starts, Finds, ReadsPrevious
-----------------------------------------------------------------------------
(***************************************************************************)
(* Minutes                                                                 *)
(***************************************************************************)
LEMMA OutsideSteps ==
    ASSUME TypeOK, OperationOK, LocalsOK, PreviousTyped, [Next]_vars, NEW s \in CheckIns
    PROVE  \/ /\ outsideMinutes'[s] = outsideMinutes[s]
              /\ logs \subseteq logs'
              /\ \A l \in logs' : l \in logs \/ (Inserts(l) /\ pc'[l] \in {"done", "failed"})
           \/ \E r \in Logs : Counts(r) /\ about[r] = s /\ UNCHANGED logs
                              /\ pc'[r] \in {"logging", "failed"}
  <1> DEFINE Same == /\ outsideMinutes'[s] = outsideMinutes[s]
                     /\ logs \subseteq logs'
                     /\ \A l \in logs' : l \in logs \/ (Inserts(l) /\ pc'[l] \in {"done", "failed"})
             Count == \E r \in Logs : Counts(r) /\ about[r] = s /\ UNCHANGED logs
                                      /\ pc'[r] \in {"logging", "failed"}
  <1>1. ASSUME UNCHANGED <<outsideMinutes, logs>> PROVE Same
    BY <1>1
  <1>2. ASSUME NEW r \in Requests, Counts(r),
               pc'[r] \in {"auditing", "logging", "done", "failed"},
               pc'[r] = "auditing" => pc[r] \in {"creating", "closing"}
        PROVE  Same \/ Count
    <2>0. r \in Logs /\ about[r] \in CheckIns /\ Follows(r) /\ UNCHANGED logs
      BY <1>2, Control DEF Counts, OperationOK, LocalsOK, AddMinutes
    <2>1. pc'[r] # "done"
      BY <1>2, <2>0 DEF Counts, Follows, Moves, Starts, Finds, ReadsPrevious, Replies
    <2>2. CASE about[r] = s
      BY <1>2, <2>0, <2>1, <2>2 DEF Counts
    <2>3. CASE about[r] # s
      <3>1. outsideMinutes'[s] = outsideMinutes[s]
        BY <1>2, <2>0, <2>3 DEF Counts, AddMinutes, TypeOK, TablesTypeOK
      <3> QED BY <2>0, <3>1
    <2> QED BY <2>2, <2>3
  <1>3. ASSUME NEW r \in Requests, Inserts(r),
               pc'[r] \in {"auditing", "logging", "done", "failed"},
               pc'[r] = "auditing" => pc[r] \in {"creating", "closing"},
               pc'[r] = "logging" => pc[r] = "adding"
        PROVE  Same
    BY <1>3 DEF Inserts, LogRow, sessions
  <1>4. ASSUME NEW r \in Requests, Opens(r) \/ Closes(r) \/ Reports(r) PROVE Same
    <2>1. UNCHANGED <<outsideMinutes, logs>>
      BY <1>4 DEF Opens, CreateRow, Closes, CloseRow, Reports, LogEntry, sessions
    <2> QED BY <2>1, <1>1
  <1>5. UNCHANGED tables => Same
    BY <1>1 DEF tables, sessions
  <1> HIDE DEF Same, Count
  <1>6. Same \/ Count
    BY <1>2, <1>3, <1>4, <1>5, TableSteps DEF Writes
  <1> QED BY <1>6 DEF Same, Count

(* A request that has found its session keeps what it knows.               *)
LEMMA Placed ==
    ASSUME TypeOK, OperationOK, LocalsOK, [Next]_vars,
           NEW r \in Requests, about[r] \in CheckIns
    PROVE  SameLocals(r) /\ SameBefore(r)
  <1>1. about[r] # None
    BY RequestsAreValid DEF Requests
  <1>2. pc[r] \notin {"unsent", "looking", "finding", "reading-session"}
    BY <1>1 DEF LocalsOK
  <1> QED BY <1>2, Control DEF Follows, Starts, Finds, ReadsPrevious, Replies

(* Minutes that were reported change by overlapping logs only. *)
LEMMA ReportsStep ==
    ASSUME TypeOK, OperationOK, LocalsOK, PreviousTyped, BeforeOK, SessionsOK, Settled,
           ReportsOK, [Next]_vars
    PROVE  ReportsOK'
  <1> USE DEF Requests
  <1>1. ASSUME NEW c \in CheckOuts, NEW o \in reported'[c], outsideMinutes'[about'[c]] # o
        PROVE  Disturbed(c)'
    <2>0. Follows(c)
      BY Control
    <2>1. CASE Replies(c)
      <3>1. pc[c] = "closing"
        BY <2>1, OperationsAreDisjoint DEF Replies, OperationOK
      <3> QED BY <1>1, <2>1, <3>1 DEF Replies, SameLocals, SamePlace
    <2>2. CASE reported'[c] = reported[c]
      <3>0. reported[c] # {} /\ about[c] \in CheckIns
        BY <1>1, <2>2 DEF LocalsOK
      <3>1. about'[c] = about[c] /\ before'[c] = before[c]
        BY <3>0, Placed DEF SameLocals, SamePlace, SameBefore
      <3>2. ASSUME NEW l \in Logs, about[l] = about[c], Overlap(l, c)
            PROVE  Disturbed(c)'
        <4>1. about'[l] = about[l] /\ before'[l] = before[l]
          BY <3>0, <3>2, Placed DEF SameLocals, SamePlace, SameBefore
        <4> QED BY <3>1, <3>2, <4>1 DEF Disturbed, Overlap
      <3>3. CASE outsideMinutes'[about[c]] = outsideMinutes[about[c]]
        <4>1. Disturbed(c)
          BY <1>1, <2>2, <3>1, <3>3 DEF ReportsOK
        <4> QED BY <3>2, <4>1 DEF Disturbed
      <3>4. ASSUME NEW l \in Logs, Counts(l), about[l] = about[c]
            PROVE  Disturbed(c)'
        <4>1. l \notin before[c]
          BY <3>4 DEF Counts, BeforeOK, Ends
        <4>2. c \notin before[l]
          BY <3>0, <3>4 DEF Settled
        <4> QED BY <3>2, <3>4, <4>1, <4>2 DEF Overlap
      <3> QED BY <3>0, <3>3, <3>4, OutsideSteps
    <2> QED BY <2>0, <2>1, <2>2
            DEF Follows, SameReport, Starts, Finds, ReadsPrevious
  <1>2. ASSUME NEW e \in audit' PROVE e.outside \in reported'[e.request]
    <2>0. e.request \in Requests
      BY TablesTypeStep DEF TablesTypeOK, Entry
    <2>1. e.outside \in reported[e.request]
      <3>1. CASE e \in audit
        BY <3>1 DEF ReportsOK
      <3>2. ASSUME NEW r \in Requests, Reports(r), e \notin audit
            PROVE  e.outside \in reported[e.request]
        <4>1. e \in [request : {r}, outside : reported[r]]
          BY <1>2, <3>2 DEF Reports, LogEntry
        <4> QED BY <4>1
      <3>3. ASSUME NEW r \in Requests, Opens(r) \/ Closes(r) \/ Counts(r) \/ Inserts(r)
            PROVE  e \in audit
        BY <1>2, <3>3 DEF Opens, CreateRow, Closes, CloseRow, Counts, AddMinutes, Inserts, LogRow
      <3>4. UNCHANGED tables => e \in audit
        BY <1>2 DEF tables
      <3> QED BY <3>1, <3>2, <3>3, <3>4, TableSteps DEF Writes
    <2>2. pc[e.request] \notin {"creating", "closing"}
      BY <2>0, <2>1 DEF LocalsOK, Ends
    <2> QED BY <2>0, <2>1, <2>2, Control
            DEF Follows, SameReport, Starts, Finds, ReadsPrevious, Replies
  <1> QED BY <1>1, <1>2 DEF ReportsOK

(* A row of a location log is written last. *)
LEMMA LogsStep ==
    ASSUME TypeOK, OperationOK, LocalsOK, PreviousTyped, LogsOK, [Next]_vars
    PROVE  LogsOK'
  <1> SUFFICES ASSUME NEW l \in logs'
               PROVE  pc'[l] \in {"done", "failed"} /\ about'[l] # None
    BY DEF LogsOK
  <1>0. l \in Logs /\ l \in Requests
    BY TablesTypeStep DEF TablesTypeOK, Requests
  <1>1. CASE l \in logs
    <2>1. pc[l] \in {"done", "failed"} /\ about[l] \in CheckIns
      BY <1>0, <1>1 DEF LogsOK, TypeOK, ProcessTypeOK
    <2>2. SameLocals(l) /\ Follows(l)
      BY <1>0, <2>1, Placed, Control
    <2> QED BY <2>1, <2>2, RequestsAreValid
            DEF SameLocals, SamePlace, Follows, Moves, Starts, Finds, ReadsPrevious, Replies, Waits, Requests
  <1>2. CASE Inserts(l) /\ pc'[l] \in {"done", "failed"}
    <2>1. about[l] \in CheckIns
      BY <1>0, <1>2 DEF Inserts, LocalsOK
    <2> QED BY <1>0, <1>2, <2>1, Placed, RequestsAreValid DEF SameLocals, SamePlace, Requests
  <1>3. ASSUME NEW r \in Requests, Inserts(r), l \notin logs,
               pc'[r] \in {"auditing", "logging", "done", "failed"},
               pc'[r] = "auditing" => pc[r] \in {"creating", "closing"},
               pc'[r] = "logging" => pc[r] = "adding"
        PROVE  Inserts(l) /\ pc'[l] \in {"done", "failed"}
    BY <1>3 DEF Inserts, LogRow
  <1>4. ASSUME NEW r \in Requests, Opens(r) \/ Closes(r) \/ Counts(r) \/ Reports(r)
        PROVE  l \in logs
    BY <1>4 DEF Opens, CreateRow, Closes, CloseRow, Counts, AddMinutes, Reports, LogEntry
  <1>5. UNCHANGED tables => l \in logs
    BY DEF tables
  <1> QED BY <1>1, <1>2, <1>3, <1>4, <1>5, TableSteps DEF Writes

(* Two requests under way about one session disturb its logs.              *)
LEMMA AloneAtWork ==
    ASSUME TypeOK, OperationOK, LocalsOK, BeforeOK, [Next]_vars, NEW s \in CheckIns,
           Orderly(s)', NEW r \in LogRequests(s), NEW k \in LogRequests(s), r # k,
           pc[r] \notin Ends, pc[k] \notin Ends
    PROVE  FALSE
  <1>1. r \in Requests /\ k \in Requests /\ r \in Logs /\ k \in Logs
    BY DEF LogRequests, Requests
  <1>2. /\ about'[r] = s /\ before'[r] = before[r]
        /\ about'[k] = s /\ before'[k] = before[k]
    BY <1>1, Placed DEF LogRequests, SameLocals, SamePlace, SameBefore
  <1>3. Overlap(r, k)'
    BY <1>1, <1>2 DEF Overlap, BeforeOK
  <1> QED BY <1>1, <1>2, <1>3 DEF Orderly, LogRequests

(* Logs sent one after another were so before the step. *)
LEMMA OrderlyBefore ==
    ASSUME TypeOK, OperationOK, LocalsOK, [Next]_vars, NEW s \in CheckIns, Orderly(s)'
    PROVE  Orderly(s)
  <1>1. ASSUME NEW l \in LogRequests(s)
        PROVE  /\ l \in LogRequests(s)'
               /\ before'[l] = before[l]
               /\ pc[l] \in {"failed", "lost"} => pc'[l] = pc[l]
    <2>1. l \in Requests /\ l \in Logs /\ about[l] = s
      BY DEF LogRequests, Requests
    <2>2. SameLocals(l) /\ SameBefore(l) /\ Follows(l)
      BY <2>1, Placed, Control
    <2>3. pc[l] \in {"failed", "lost"} => pc'[l] = pc[l]
      BY <2>2 DEF Follows, Moves, Starts, Finds, ReadsPrevious, Replies, Waits
    <2> QED BY <2>1, <2>2, <2>3 DEF LogRequests, SameLocals, SamePlace, SameBefore
  <1>2. \A l, k \in LogRequests(s) : Overlap(l, k) => Overlap(l, k)'
    BY <1>1 DEF Overlap
  <1> QED BY <1>1, <1>2 DEF Orderly

(* A session has finitely many logs. *)
LEMMA LogsOfFinite ==
    ASSUME TypeOK, NEW s \in CheckIns
    PROVE  IsFiniteSet(LogsOf(s)) /\ Cardinality(LogsOf(s)) \in Nat
  <1>1. LogsOf(s) \subseteq Requests
    BY DEF LogsOf, TypeOK, TablesTypeOK, Requests
  <1> QED BY <1>1, RequestsAreFinite, FS_Subset, FS_CardinalityType

(* So their number less one is a number. *)
LEMMA SurplusType ==
    ASSUME TypeOK, NEW s \in CheckIns
    PROVE  Surplus(s) \in Nat
  BY LogsOfFinite, FS_EmptySet DEF Surplus

(* The logs of a session that stay the same account for the same minutes.  *)
LEMMA CountedSame ==
    ASSUME NEW s \in CheckIns, NEW m \in Nat, Counted(s, m), LogsOf(s)' = LogsOf(s),
           \A l \in LogsOf(s) : stamp'[l] = stamp[l]
    PROVE  Counted(s, m)'
  <1>1. Surplus(s)' = Surplus(s)
    BY DEF Surplus
  <1>2. \A lo, hi \in Nat : Encloses(s, lo, hi)' = Encloses(s, lo, hi)
    BY DEF Encloses
  <1> QED BY <1>1, <1>2 DEF Counted

(* The next log accounts for its increment over the latest of the others.  *)
LEMMA CountedMore ==
    ASSUME TypeOK, NEW s \in CheckIns, NEW b \in Nat, NEW m \in Nat,
           NEW r \in Logs, about[r] = s, r \notin logs,
           Counted(s, b), PreviousOK(r), m = b + IncrementOf(r),
           LogsOf(s)' = LogsOf(s) \cup {r}, UNCHANGED stamp
    PROVE  Counted(s, m)'
  <1> USE DEF Requests
  <1>1. r \notin LogsOf(s) /\ IsFiniteSet(LogsOf(s)) /\ Cardinality(LogsOf(s)) \in Nat
    BY LogsOfFinite DEF LogsOf
  <1>2. Cardinality(LogsOf(s)') = Cardinality(LogsOf(s)) + 1
    BY <1>1, FS_AddElement
  <1>3. Surplus(s)' = Cardinality(LogsOf(s))
    BY <1>1, <1>2 DEF Surplus
  <1>4. \A lo, hi \in Nat : Encloses(s, lo, hi)' =>
            Encloses(s, lo, hi) /\ lo <= stamp[r] /\ stamp[r] <= hi
    BY DEF Encloses
  <1>5. stamp \in [Requests -> Nat] /\ stamp[r] \in Nat
    BY DEF TypeOK, ProcessTypeOK
  <1>6. CASE LogsOf(s) = {}
    <2>1. Surplus(s)' = 0 /\ Surplus(s) = 0
      BY <1>3, <1>6, FS_EmptySet DEF Surplus
    <2>2. previous[r] = None
      BY <1>6 DEF PreviousOK, Latest
    <2>3. b = 0 /\ m = 0
      BY <2>1, <2>2 DEF Counted, IncrementOf
    <2>4. \A lo, hi \in Nat : Encloses(s, lo, hi)' => 2 * m <= hi - lo + Surplus(s)'
      BY <1>4, <1>5, <2>1, <2>3
    <2> QED BY <2>1, <2>3, <2>4 DEF Counted
  <1>7. CASE LogsOf(s) # {}
    <2> DEFINE p == previous[r]
               i == Increment(r, p)
    <2>1. p \in Latest(s) /\ IncrementOf(r) = i
      BY <1>7 DEF PreviousOK, IncrementOf
    <2>2. p \in LogsOf(s) /\ p \in Logs /\ \A k \in LogsOf(s) : stamp[k] <= stamp[p]
      BY <2>1 DEF Latest, LogsOf, TypeOK, TablesTypeOK
    <2>3. /\ i \in Nat /\ i <= 30
          /\ stamp[p] <= stamp[r] => 2 * i <= stamp[r] - stamp[p] + 1
          /\ stamp[r] < stamp[p] => i = 0
      BY <2>2, IncrementType DEF TypeOK
    <2>4. Surplus(s) \in Nat /\ Surplus(s)' = Surplus(s) + 1
      BY <1>1, <1>3, <1>7, SurplusType DEF Surplus
    <2>5. stamp[p] \in Nat
      BY <1>5, <2>2
    <2> HIDE DEF p, i
    <2>6. m = b + i /\ b <= 30 * Surplus(s)
      BY <2>1 DEF Counted
    <2>7. m <= 30 * Surplus(s)'
      BY <2>3, <2>4, <2>6
    <2>8. ASSUME NEW lo \in Nat, NEW hi \in Nat, Encloses(s, lo, hi)'
          PROVE  2 * m <= hi - lo + Surplus(s)'
      <3>1. Encloses(s, lo, hi) /\ stamp[r] <= hi /\ stamp[p] <= hi
        BY <1>4, <2>2, <2>8 DEF Encloses
      <3>2. Encloses(s, lo, stamp[p])
        BY <2>2, <3>1 DEF Encloses
      <3>3. 2 * b <= stamp[p] - lo + Surplus(s)
        BY <1>7, <2>5, <3>2 DEF Counted
      <3> QED BY <1>5, <2>3, <2>4, <2>5, <2>6, <3>1, <3>3
    <2> QED BY <2>7, <2>8 DEF Counted
  <1> QED BY <1>6, <1>7

(* While nothing is added to a session, what is known of its logs stays.   *)
LEMMA PreviousStays ==
    ASSUME TypeOK, OperationOK, LocalsOK, LogsOK, [Next]_vars, NEW s \in CheckIns,
           LogsOf(s)' = LogsOf(s), NEW r \in LogRequests(s)
    PROVE  /\ r \in LogRequests(s)'
           /\ Latest(s)' = Latest(s)
           /\ stamp'[r] = stamp[r]
           /\ \A l \in LogsOf(s) :
                 stamp'[l] = stamp[l] /\ (l \in outside' <=> l \in outside)
  <1>0. r \in Logs /\ r \in Requests /\ about[r] = s
    BY DEF LogRequests, Requests
  <1>1. SameLocals(r)
    BY <1>0, Placed
  <1>2. ASSUME NEW l \in LogsOf(s) PROVE SameLocals(l)
    <2>1. l \in Requests /\ about[l] \in CheckIns
      BY DEF LogsOf, TypeOK, TablesTypeOK, Requests
    <2> QED BY <2>1, Placed
  <1>3. \A l \in LogsOf(s) : stamp'[l] = stamp[l] /\ (l \in outside' <=> l \in outside)
    BY <1>2 DEF SameLocals, SamePlace
  <1>4. Latest(s)' = Latest(s)
    BY <1>3 DEF Latest
  <1> QED BY <1>0, <1>1, <1>3, <1>4 DEF LogRequests, SameLocals, SamePlace

(* A step adds no minutes but those its log accounts for. *)
LEMMA MinutesStep ==
    ASSUME IInv, [Next]_vars, NEW s \in CheckIns, Orderly(s)'
    PROVE  MinutesOK(s)'
  <1> USE DEF IInv
  <1>1. Orderly(s) /\ MinutesOK(s)
    BY OrderlyBefore
  <1>2. outsideMinutes[s] \in Nat /\ outsideMinutes'[s] \in Nat
    BY TablesTypeStep DEF TypeOK, TablesTypeOK
  <1>3. ASSUME NEW k \in LogRequests(s)
        PROVE  /\ k \in Requests /\ k \in Logs /\ about[k] = s /\ Follows(k)
               /\ k \in LogRequests(s)' /\ about'[k] = s
               /\ pc'[k] \notin {"failed", "lost"}
    <2>1. k \in Requests /\ k \in Logs /\ about[k] = s
      BY <1>3 DEF LogRequests, Requests
    <2>2. SameLocals(k) /\ Follows(k)
      BY <2>1, Placed, Control
    <2>3. k \in LogRequests(s)'
      BY <2>1, <2>2 DEF LogRequests, SameLocals, SamePlace
    <2> QED BY <2>1, <2>2, <2>3 DEF LogRequests, Orderly
  <1>4. ASSUME NEW k \in Logs, pc'[k] \in {"adding", "logging"}, about'[k] = s
        PROVE  /\ k \in LogRequests(s)
               /\ pc[k] \in {"reading-previous", "adding", "logging"}
    <2>1. k \in Requests /\ Follows(k)
      BY Control DEF Requests
    <2>2. pc[k] \in {"reading-previous", "adding", "logging"}
      BY <1>4, <2>1 DEF Follows, Moves, Starts, Finds, ReadsPrevious, Replies
    <2>3. about[k] \in CheckIns
      BY <2>1, <2>2 DEF LocalsOK
    <2>4. about'[k] = about[k]
      BY <2>1, <2>3, Placed DEF SameLocals, SamePlace
    <2> QED BY <1>4, <2>2, <2>4 DEF LogRequests
  <1>5. \A l \in logs : about'[l] = about[l] /\ stamp'[l] = stamp[l]
    <2> SUFFICES ASSUME NEW l \in logs PROVE SameLocals(l)
      BY DEF SameLocals, SamePlace
    <2>1. l \in Requests /\ about[l] \in CheckIns
      BY DEF LogsOK, TypeOK, TablesTypeOK, ProcessTypeOK, Requests
    <2> QED BY <2>1, Placed
  \* The row of a log is inserted.
  <1>A. ASSUME NEW r \in Requests, Inserts(r), about[r] = s, r \notin logs,
               logs' = logs \cup {r}, outsideMinutes'[s] = outsideMinutes[s]
        PROVE  MinutesOK(s)'
    <2>0. r \in LogsAtWork(s) /\ r \in LogRequests(s) /\ r \in Logs
      BY <1>A DEF Inserts, OperationOK, LogsAtWork, LogRequests
    <2>1. ASSUME NEW k \in Logs, pc'[k] \in {"adding", "logging"}, about'[k] = s PROVE FALSE
      <3>1. k \in LogRequests(s) /\ pc[k] \in {"reading-previous", "adding", "logging"}
        BY <1>4, <2>1
      <3>2. CASE k = r
        <4>1. pc[r] = "logging" /\ Follows(r)
          BY <1>A, Control DEF Inserts
        <4>2. pc'[r] # "logging"
          BY <1>A, <2>0, LogsStep DEF LogsOK
        <4> QED BY <2>1, <3>2, <4>1, <4>2 DEF Follows, Moves, Starts, Finds, ReadsPrevious, Replies
      <3>3. CASE k # r
        BY <1>A, <2>0, <3>1, <3>3, AloneAtWork DEF Inserts, Ends
      <3> QED BY <3>2, <3>3
    <2>2. PICK b \in Nat : Counted(s, b) /\ outsideMinutes[s] = b + IncrementOf(r)
      BY <1>1, <2>0 DEF MinutesOK
    <2>3. PreviousOK(r)
      BY <1>1, <1>A, <2>0 DEF MinutesOK, Inserts
    <2>4. UNCHANGED <<stamp, about>>
      <3>1. logs' # logs
        BY <1>A
      <3>2. ASSUME NEW q \in Requests, Opens(q) \/ Closes(q) \/ Counts(q) \/ Reports(q)
            PROVE  logs' = logs
        BY <3>2 DEF Opens, CreateRow, Closes, CloseRow, Counts, AddMinutes, Reports, LogEntry
      <3> QED BY <3>1, <3>2, TableSteps DEF tables, Writes
    <2>5. LogsOf(s)' = LogsOf(s) \cup {r}
      BY <1>A, <2>4 DEF LogsOf
    <2>6. PICK m \in Nat : m = outsideMinutes[s]
      BY <1>2
    <2>7. Counted(s, m)'
      BY <1>A, <2>0, <2>2, <2>3, <2>4, <2>5, <2>6, CountedMore
    <2>8. Counted(s, outsideMinutes[s])'
      BY <1>A, <2>6, <2>7 DEF Counted
    <2> QED BY <2>1, <2>8 DEF MinutesOK, LogsAtWork, LogRequests
  \* The minutes of a log are added.
  <1>B. ASSUME NEW r \in Logs, Counts(r), about[r] = s, UNCHANGED logs,
               pc'[r] \in {"logging", "failed"}
        PROVE  MinutesOK(s)'
    <2>0. r \in LogRequests(s) /\ pc[r] = "adding" /\ r \in Requests
      BY <1>B DEF Counts, LogRequests, Requests
    <2>1. pc'[r] = "logging" /\ r \in LogRequests(s)'
      BY <1>B, <1>3, <2>0
    <2>2. \A k \in LogRequests(s) : k # r => pc[k] \in Ends
      BY <2>0, AloneAtWork DEF Ends
    <2>3. \A k \in Logs : pc'[k] \in {"adding", "logging"} /\ about'[k] = s => k = r
      BY <1>4, <2>2 DEF Ends
    <2>4. LogsAtWork(s) = {}
      BY <2>0, <2>2 DEF LogsAtWork, Ends
    <2>5. LogsOf(s)' = LogsOf(s)
      BY <1>5, <1>B DEF LogsOf
    <2>6. previous[r] \in Latest(s) /\ previous[r] # None
      <3>1. PreviousOK(r) /\ previous[r] \in Requests
        BY <1>1, <2>0 DEF MinutesOK, PreviousTyped, Requests
      <3> QED BY <1>B, <3>1, RequestsAreValid DEF PreviousOK
    <2>7. previous'[r] = previous[r] /\ about'[r] = s
      BY <1>3, <2>0 DEF Follows, SamePrevious, Starts, Finds, ReadsPrevious, Replies
    <2>8. Latest(s)' = Latest(s) /\ IncrementOf(r)' = Increment(r, previous[r])
      <3>1. previous[r] \in LogsOf(s)
        BY <2>6 DEF Latest
      <3> QED BY <2>0, <2>5, <2>6, <2>7, <3>1, PreviousStays DEF IncrementOf, Increment, Minutes
    <2>9. PreviousOK(r)'
      BY <2>6, <2>7, <2>8 DEF PreviousOK
    <2>10. PICK m \in Nat : m = outsideMinutes[s]
      BY <1>2
    <2>11. Counted(s, m)'
      BY <1>1, <2>0, <2>4, <2>5, <2>10, CountedSame, PreviousStays DEF MinutesOK
    <2>12. outsideMinutes'[s] = m + IncrementOf(r)'
      BY <1>B, <2>8, <2>10 DEF Counts, AddMinutes, TypeOK, TablesTypeOK
    <2>13. \A k \in LogRequests(s)' : pc'[k] \in {"adding", "logging"} => k = r
      BY <2>3 DEF LogRequests
    <2> QED BY <2>1, <2>9, <2>11, <2>12, <2>13 DEF MinutesOK, LogsAtWork
  \* Nothing is added to the session.
  <1>C. ASSUME \A r \in LogRequests(s) : ~ (pc[r] = "adding" /\ pc'[r] = "logging"),
               \A r \in LogRequests(s) : ~ (pc[r] = "logging" /\ pc'[r] = "done")
        PROVE  MinutesOK(s)'
    <2>1. outsideMinutes'[s] = outsideMinutes[s] /\ LogsOf(s)' = LogsOf(s)
      <3>1. ASSUME NEW r \in Logs, Counts(r), about[r] = s, pc'[r] \in {"logging", "failed"}
            PROVE  FALSE
        BY <1>3, <1>C, <3>1 DEF Counts, LogRequests
      <3>2. outsideMinutes'[s] = outsideMinutes[s] /\ logs \subseteq logs'
        BY <3>1, OutsideSteps
      <3>3. ASSUME NEW l \in logs', l \notin logs, about'[l] = s PROVE FALSE
        <4>1. Inserts(l) /\ pc'[l] \in {"done", "failed"}
          BY <3>1, <3>3, OutsideSteps
        <4>2. l \in Logs /\ l \in Requests
          BY TablesTypeStep DEF TablesTypeOK, Requests
        <4>3. about[l] = s
          BY <3>3, <4>1, <4>2, Placed DEF Inserts, LocalsOK, SameLocals, SamePlace
        <4> QED BY <1>3, <1>C, <4>1, <4>2, <4>3 DEF Inserts, LogRequests
      <3> QED BY <1>5, <3>2, <3>3 DEF LogsOf
    <2>2. PICK m \in Nat : m = outsideMinutes[s]
      BY <1>2
    <2>3. \A l \in LogsOf(s) : stamp'[l] = stamp[l]
      BY <1>5 DEF LogsOf
    <2>4. ASSUME NEW b \in Nat, Counted(s, b) PROVE Counted(s, b)'
      BY <2>1, <2>3, <2>4, CountedSame
    <2>5. ASSUME LogsAtWork(s)' = {} PROVE Counted(s, m)'
      <3>1. ASSUME NEW k \in LogsAtWork(s) PROVE FALSE
        <4>1. k \in LogRequests(s) /\ pc[k] = "logging"
          BY DEF LogsAtWork
        <4>2. pc'[k] = "logging"
          BY <1>3, <1>C, <4>1 DEF Follows, Moves, Starts, Finds, ReadsPrevious, Replies
        <4> QED BY <1>3, <2>5, <4>1, <4>2 DEF LogsAtWork
      <3>2. Counted(s, m)
        BY <1>1, <2>2, <3>1 DEF MinutesOK
      <3> QED BY <2>4, <3>2
    <2>6. ASSUME NEW r \in LogRequests(s)', pc'[r] \in {"adding", "logging"}
          PROVE  /\ PreviousOK(r)'
                 /\ r \in LogsAtWork(s)' =>
                      \E b \in Nat : Counted(s, b)' /\ m = b + IncrementOf(r)'
      <3>0. /\ r \in LogRequests(s) /\ pc[r] \in {"reading-previous", "adding", "logging"}
            /\ r \in Logs /\ about[r] = s /\ about'[r] = s /\ Follows(r)
        BY <1>3, <1>4, <2>6 DEF LogRequests
      <3>1. /\ Latest(s)' = Latest(s)
            /\ stamp'[r] = stamp[r]
            /\ \A p \in LogsOf(s) :
                  stamp'[p] = stamp[p] /\ (p \in outside' <=> p \in outside)
        BY <2>1, <3>0, PreviousStays
      <3>2. CASE pc'[r] = pc[r]
        <4>1. PreviousOK(r) /\ previous'[r] = previous[r]
          BY <1>1, <2>6, <3>0, <3>2
             DEF MinutesOK, Follows, SamePrevious, Starts, Finds, ReadsPrevious, Replies
        <4>2. PreviousOK(r)'
          BY <2>1, <3>0, <3>1, <4>1 DEF PreviousOK
        <4>3. IncrementOf(r)' = IncrementOf(r)
          <5>1. previous[r] = None \/ previous[r] \in LogsOf(s)
            BY <3>0, <4>1 DEF PreviousOK, Latest
          <5> QED BY <3>1, <4>1, <5>1 DEF IncrementOf, Increment, Minutes
        <4>4. CASE pc[r] = "logging"
          <5>1. PICK b \in Nat : Counted(s, b) /\ m = b + IncrementOf(r)
            BY <1>1, <2>2, <3>0, <4>4 DEF MinutesOK, LogsAtWork
          <5> QED BY <2>4, <4>2, <4>3, <5>1
        <4>5. CASE pc[r] # "logging"
          BY <3>2, <4>2, <4>5 DEF LogsAtWork
        <4> QED BY <4>4, <4>5
      <3>3. CASE ReadsPrevious(r)
        <4>1. previous[r] = None
          BY <3>0, <3>3 DEF ReadsPrevious, LocalsOK, LogRequests, Requests
        <4>2. \/ previous'[r] = None /\ LogsOf(s) = {}
              \/ /\ previous'[r] \in Latest(s)
                 /\ pc'[r] = "logging" => ~ (Increment(r, previous'[r]) > 0)
          BY <3>0, <3>3, <4>1 DEF ReadsPrevious, SamePrevious
        <4>3. \A p \in Latest(s) : p # None /\ p \in Logs /\ p \in LogsOf(s)
          BY RequestsAreValid DEF Latest, LogsOf, TypeOK, TablesTypeOK, Requests
        <4>4. PreviousOK(r)'
          BY <2>1, <3>0, <3>1, <4>2, <4>3 DEF PreviousOK
        <4>5. ASSUME pc'[r] = "logging" PROVE Counted(s, m)' /\ IncrementOf(r)' = 0
          <5>1. LogsAtWork(s) = {}
            <6> SUFFICES ASSUME NEW k \in LogRequests(s), pc[k] = "logging" PROVE FALSE
              BY DEF LogsAtWork
            <6> QED BY <3>0, <3>3, AloneAtWork DEF ReadsPrevious, Ends
          <5>2. Counted(s, m)
            BY <1>1, <2>2, <5>1 DEF MinutesOK
          <5>3. CASE previous'[r] = None
            BY <2>4, <5>2, <5>3 DEF IncrementOf
          <5>4. ASSUME previous'[r] \in Latest(s), ~ (Increment(r, previous'[r]) > 0)
                PROVE  IncrementOf(r)' = 0
            <6>1. \A p \in Latest(s) : ~ (Increment(r, p) > 0) => Increment(r, p) = 0
              <7> TAKE p \in Latest(s)
              <7>1. Increment(r, p) \in Nat
                BY <3>0, <4>3, IncrementType DEF TypeOK
              <7> QED BY <7>1
            <6>2. Increment(r, previous'[r]) = 0
              BY <5>4, <6>1
            <6> QED BY <3>1, <4>3, <5>4, <6>2 DEF IncrementOf, Increment, Minutes
          <5> QED BY <2>4, <4>2, <4>5, <5>2, <5>3, <5>4
        <4>6. ASSUME pc'[r] = "logging"
              PROVE  \E b \in Nat : Counted(s, b)' /\ m = b + IncrementOf(r)'
          BY <4>5, <4>6
        <4> QED BY <4>4, <4>6 DEF LogsAtWork
      <3> QED BY <1>C, <2>6, <3>0, <3>2, <3>3 DEF Follows, Moves, Starts, Finds, Replies
    <2> QED BY <2>1, <2>2, <2>5, <2>6 DEF MinutesOK, Counted, LogsAtWork
  <1> QED
    <2>1. ASSUME NEW r \in LogRequests(s), pc[r] = "adding", pc'[r] = "logging"
          PROVE  MinutesOK(s)'
      <3>1. AddMinutes(r) /\ r \in Logs /\ about[r] = s
        BY <1>3, <2>1 DEF Follows, Moves, Starts, Finds, ReadsPrevious, Replies
      <3> QED BY <1>B, <2>1, <3>1 DEF Counts, AddMinutes
    <2>2. ASSUME NEW r \in LogRequests(s), pc[r] = "logging", pc'[r] = "done"
          PROVE  MinutesOK(s)'
      <3>1. LogRow(r) /\ r \in Requests /\ about[r] = s
        BY <1>3, <2>2 DEF Follows, Moves, Starts, Finds, ReadsPrevious, Replies
      <3>2. r \notin logs
        BY <2>2 DEF LogsOK
      <3> QED BY <1>A, <2>2, <3>1, <3>2 DEF Inserts, LogRow, sessions
    <2> QED BY <1>C, <2>1, <2>2
-----------------------------------------------------------------------------
(***************************************************************************)
(* Theorems                                                                *)
(***************************************************************************)
LEMMA InitIInv == Init => IInv
  <1> SUFFICES ASSUME Init PROVE IInv
    OBVIOUS
  <1>1. TypeOK
    BY BoundsAreNat
       DEF Init, TypeOK, TablesTypeOK, ProcessTypeOK
  <1>2. OperationOK /\ LocalsOK /\ PreviousTyped /\ BeforeOK /\ SessionsOK
    BY DEF Init, OperationOK, LocalsOK, PreviousTyped, BeforeOK, SessionsOK, Requests
  <1>3. LookedFor /\ OpenSessionsOverlapped /\ Settled /\ ReportsOK /\ LogsOK
    BY DEF Init, LookedFor, OpenSessionsOverlapped, Settled, ReportsOK, LogsOK, Requests
  <1>4. ASSUME NEW s \in CheckIns PROVE MinutesOK(s)
    <2>1. LogsOf(s) = {} /\ outsideMinutes[s] = 0
      BY DEF Init, LogsOf
    <2>2. Counted(s, outsideMinutes[s])
      BY <2>1 DEF Counted, Surplus
    <2>3. LogRequests(s) = {}
      BY RequestsAreValid DEF Init, LogRequests, Requests
    <2> QED BY <2>2, <2>3 DEF MinutesOK, LogsAtWork
  <1> QED BY <1>1, <1>2, <1>3, <1>4 DEF IInv

(* Every step keeps IInv. *)
LEMMA StepIInv == IInv /\ [Next]_vars => IInv'
  <1> SUFFICES ASSUME IInv, [Next]_vars PROVE IInv'
    OBVIOUS
  <1>1. TypeOK' /\ OperationOK' /\ LocalsOK' /\ PreviousTyped' /\ BeforeOK' /\ SessionsOK'
    BY TypeStep, OperationStep, LocalsStep, BeforeStep, SessionsStep DEF IInv
  <1>2. LookedFor' /\ OpenSessionsOverlapped' /\ Settled' /\ ReportsOK' /\ LogsOK'
    BY OpenStep, SettledStep, ReportsStep, LogsStep DEF IInv
  <1>3. ASSUME NEW s \in CheckIns, Orderly(s)' PROVE MinutesOK(s)'
    BY <1>3, MinutesStep
  <1> QED BY <1>1, <1>2, <1>3 DEF IInv

(* What has been done at each place a request is at, and what the logs of *)
(* a session account for, holds in every behaviour.                        *)
THEOREM Inductive == Spec => []IInv
  BY InitIInv, StepIInv, PTL DEF Spec

(* The types of the variables, whatever the requests and their times.      *)
THEOREM TypeCorrectness == Spec => []TypeOK
  <1>1. IInv => TypeOK
    BY DEF IInv
  <1> QED BY <1>1, Inductive, PTL

(* Open sessions of one user come from check-ins that overlapped.          *)
THEOREM OpenTogether == Spec => []OpenSessionsOverlapped
  <1>1. IInv => OpenSessionsOverlapped
    BY DEF IInv
  <1> QED BY <1>1, Inductive, PTL

(* No request made after a check-out was answered finds its session.       *)
THEOREM AnsweredIsSettled == Spec => []SettledOnceAnswered
  <1>1. IInv => SettledOnceAnswered
    BY DEF IInv, Settled, LocalsOK, SettledOnceAnswered, Requests
  <1> QED BY <1>1, Inductive, PTL

(* The minutes a check-out reported change only by an overlapping log.     *)
THEOREM ReportsStand == Spec => []ReportedMinutesStand
  <1>1. IInv => ReportedMinutesStand
    BY DEF IInv, ReportsOK, Disturbed, ReportedMinutesStand
  <1> QED BY <1>1, Inductive, PTL

(* The minutes outside are within what the location logs account for.      *)
THEOREM OutsideAccounted == Spec => []OutsideIsAccountedFor
  <1>1. ASSUME IInv, NEW s \in CheckIns, Orderly(s), LogsAtWork(s) = {}
        PROVE  /\ outsideMinutes[s] <= 30 * Surplus(s)
               /\ \A first, last \in LogsOf(s) :
                    (\A l \in LogsOf(s) : stamp[first] <= stamp[l] /\ stamp[l] <= stamp[last]) =>
                        2 * outsideMinutes[s] <= stamp[last] - stamp[first] + Surplus(s)
    <2>1. Counted(s, outsideMinutes[s])
      BY <1>1 DEF IInv, MinutesOK
    <2>2. \A l \in LogsOf(s) : stamp[l] \in Nat
      BY <1>1 DEF IInv, TypeOK, TablesTypeOK, ProcessTypeOK, LogsOf, Requests
    <2> QED BY <2>1, <2>2 DEF Counted, Encloses
  <1>2. IInv => OutsideIsAccountedFor
    BY <1>1 DEF OutsideIsAccountedFor
  <1> QED BY <1>2, Inductive, PTL
=============================================================================
