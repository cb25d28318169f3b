-------------------------- MODULE ComplaintsProofs --------------------------
(***************************************************************************)
(* The invariants of Complaints for any requests, users and media files    *)
(* and any number of faults.                                               *)
(***************************************************************************)
EXTENDS Complaints, TLAPS

Pcs == Waits \cup Ends \cup {"unsent"}

(* What the assumptions say of a request. *)
LEMMA RequestTypes ==
    ASSUME NEW r \in Requests
    PROVE  /\ ComplaintOf[r] \in Creates
           /\ ComplaintOf[r] \in Requests
           /\ ActorOf[r] \in Users
           /\ OwnerOf(r) \in Users
           /\ StatusOf[r] \in Status
           /\ r \in Creates => ComplaintOf[r] = r
  BY RequestsAreValid DEF Requests, OwnerOf

(* The calls of notify to the owner are well-formed. *)
LEMMA OwnerNotesType ==
    ASSUME NEW r \in Requests
    PROVE  OwnerNotes(r) \in SUBSET Note
  <1>1. OwnerOf(r) \in Users
    BY RequestTypes
  <1> QED BY <1>1 DEF OwnerNotes, Note, Channels

(* So are those to the administrators. *)
LEMMA AdminNotesType ==
    ASSUME NEW r \in Requests, NEW A \in SUBSET Users
    PROVE  AdminNotes(r, A) \in SUBSET Note
  BY DEF AdminNotes, Note

(* What a call of notify is made of. *)
LEMMA NoteFields ==
    ASSUME NEW x \in Note
    PROVE  x.request \in Requests
  BY DEF Note

(* A request writes a well-formed audit entry. *)
LEMMA EntryType ==
    ASSUME ProcessTypeOK, NEW r \in Requests
    PROVE  /\ Entry(r) \in AuditEntry
           /\ Entry(r).request = r /\ Entry(r).old = old[r] /\ Entry(r).told = told[r]
  BY TableIsTyped DEF Entry, AuditEntry, ProcessTypeOK

(* The faults stay within their bound. *)
LEMMA FaultType == ASSUME ObservationTypeOK, Fault PROVE faults' \in 0..MaxFaults
  BY BoundsAreNat DEF ObservationTypeOK, Fault

(* A request that moves on keeps the types. *)
LEMMA GotoType ==
    ASSUME ProcessTypeOK, NEW r \in Requests, NEW p \in Pcs, Goto(r, p),
           UNCHANGED <<locals, inFlight>>
    PROVE  ProcessTypeOK'
  BY DEF ProcessTypeOK, Goto, locals, Pcs

(* The part of TypeOK that the effects of the database calls concern.      *)
TableTypeOK ==
    /\ ComplaintsTypeOK
    /\ applied \in SUBSET Requests
    /\ held \in [Requests -> SUBSET (Status \cup {"ABSENT"})]

(* An update of the status keeps the types of the tables. *)
LEMMA WriteStatusType ==
    ASSUME TypeOK, NEW r \in Requests, WriteStatus(r)
    PROVE  /\ status' \in [Creates -> Status \cup {"ABSENT"}]
           /\ applied' \in SUBSET Requests
           /\ held' \in [Requests -> SUBSET (Status \cup {"ABSENT"})]
  <1>1. ComplaintOf[r] \in Creates /\ StatusOf[r] \in Status
    BY RequestTypes
  <1>2. status' \in [Creates -> Status \cup {"ABSENT"}]
    BY <1>1 DEF WriteStatus, TypeOK, ComplaintsTypeOK
  <1>3. held' \in [Requests -> SUBSET (Status \cup {"ABSENT"})]
    BY <1>1 DEF WriteStatus, TypeOK, ObservationTypeOK
  <1> QED BY <1>2, <1>3 DEF WriteStatus, TypeOK, ObservationTypeOK

(* So does the insertion of a complaint. *)
LEMMA InsertType ==
    ASSUME TypeOK, NEW r \in Requests, InsertRow(r), UNCHANGED created
    PROVE  TableTypeOK'
  <1>1. mahalla' \in [Creates -> Mahallas \cup {None}]
    BY DEF InsertRow, TypeOK, ComplaintsTypeOK, ProcessTypeOK
  <1> QED BY <1>1, WriteStatusType
          DEF InsertRow, TypeOK, ComplaintsTypeOK, TableTypeOK, media

(* So does the update with an answer. *)
LEMMA UpdateType ==
    ASSUME TypeOK, NEW r \in Requests, UpdateRow(r), UNCHANGED created
    PROVE  TableTypeOK'
  <1>1. answer' \in [Creates -> SUBSET Responds]
    BY DEF UpdateRow, TypeOK, ComplaintsTypeOK
  <1> QED BY <1>1, WriteStatusType
          DEF UpdateRow, TypeOK, ComplaintsTypeOK, TableTypeOK, media

(* So does the row of the answer. *)
LEMMA RecordType ==
    ASSUME TypeOK, NEW r \in Responds, RecordRow(r), UNCHANGED created
    PROVE  TableTypeOK'
  BY DEF RecordRow, TypeOK, ComplaintsTypeOK, ObservationTypeOK, TableTypeOK, media

(* So does the linking of media files. *)
LEMMA LinkType ==
    ASSUME TypeOK, NEW r \in Creates, LinkMedia(r), UNCHANGED created
    PROVE  TableTypeOK'
  <1>1. attached' \in [Media -> SUBSET Creates]
    BY DEF LinkMedia, TypeOK, ComplaintsTypeOK
  <1> QED BY <1>1 DEF LinkMedia, TypeOK, ComplaintsTypeOK, ObservationTypeOK, TableTypeOK, complaints

(* So does an audit entry. *)
LEMMA LogType ==
    ASSUME TypeOK, NEW r \in Requests, LogEntry(r), UNCHANGED created
    PROVE  TableTypeOK'
  <1>1. audit' \in SUBSET AuditEntry
    BY EntryType DEF LogEntry, TypeOK, ComplaintsTypeOK
  <1> QED BY <1>1 DEF LogEntry, TypeOK, ComplaintsTypeOK, ObservationTypeOK, TableTypeOK,
                      complaints, media

PeopleAllTypeOK ==
    /\ PeopleTypeOK
    /\ been \in [Requests -> SUBSET (Mahallas \cup {None})]
    /\ moves \in 0..MaxMoves

(* TypeOK by its parts. *)
LEMMA TypeParts ==
    TypeOK <=> TableTypeOK /\ PeopleAllTypeOK /\ ProcessTypeOK /\ faults \in 0..MaxFaults
  BY DEF TypeOK, TableTypeOK, PeopleAllTypeOK, ObservationTypeOK

(* The same of the next state. *)
LEMMA TypePartsNext ==
    TypeOK' <=> TableTypeOK' /\ PeopleAllTypeOK' /\ ProcessTypeOK' /\ faults' \in 0..MaxFaults
  BY DEF TypeOK, TableTypeOK, PeopleAllTypeOK, ObservationTypeOK

(* Every step keeps the types. *)
LEMMA TypeStep ==
    ASSUME TypeOK, OperationOK, [Next]_vars
    PROVE  TypeOK'
  <1> USE TypeParts, TypePartsNext
  <1>a. UNCHANGED <<complaints, media, created, audit, applied, held>> => TableTypeOK'
    BY DEF TableTypeOK, ComplaintsTypeOK, complaints, media
  <1>b. UNCHANGED people => PeopleAllTypeOK'
    BY DEF PeopleAllTypeOK, PeopleTypeOK, people
  <1>c. UNCHANGED <<pc, locals, inFlight>> => ProcessTypeOK'
    BY DEF ProcessTypeOK, locals
  <1>d. Fault => faults' \in 0..MaxFaults
    BY FaultType DEF TypeOK
  <1>1. ASSUME NEW r \in Requests, Call(r) PROVE TypeOK'
    <2>1. ComplaintOf[r] \in Creates /\ ActorOf[r] \in Users
      BY RequestTypes
    <2>a. /\ UNCHANGED <<complaints, media, belongs, adminIds, created, audit, applied, moves>>
          /\ held' = [held EXCEPT ![r] = {status[ComplaintOf[r]]}]
          /\ been' = [been EXCEPT ![r] = {belongs[ActorOf[r]]}]
      BY <1>1 DEF Call
    <2>b. {status[ComplaintOf[r]]} \in SUBSET (Status \cup {"ABSENT"})
      BY <2>1 DEF TypeOK, ComplaintsTypeOK
    <2>c. {belongs[ActorOf[r]]} \in SUBSET (Mahallas \cup {None})
      BY <2>1 DEF TypeOK, PeopleTypeOK
    <2>d. held' \in [Requests -> SUBSET (Status \cup {"ABSENT"})]
      BY <2>a, <2>b DEF TypeOK, ObservationTypeOK
    <2>2. TableTypeOK'
      BY <2>a, <2>d DEF TypeOK, ObservationTypeOK, TableTypeOK, ComplaintsTypeOK, complaints,
                        media
    <2>3. PeopleAllTypeOK'
      BY <2>a, <2>c DEF PeopleAllTypeOK, PeopleTypeOK
    <2>4. ProcessTypeOK'
      BY <1>1, GotoType DEF Call, Pcs, Waits
    <2> QED BY <1>1, <2>2, <2>3, <2>4 DEF Call
  <1>2. ASSUME NEW r \in Requests, ReadActor(r) PROVE TypeOK'
    <2>1. ActorOf[r] \in Users
      BY RequestTypes
    <2>2. r \in Creates
      BY <1>2 DEF ReadActor, OperationOK
    <2>3. Chosen(r) \in Mahallas \cup {None}
      BY <2>1, <2>2, RequestsAreValid DEF Chosen, TypeOK, PeopleTypeOK
    <2>4. ProcessTypeOK'
      BY <1>2, <2>3 DEF ReadActor, Goto, ProcessTypeOK, Waits, Ends
    <2> QED BY <1>2, <1>a, <1>b, <2>4 DEF ReadActor
  <1>3. ASSUME NEW r \in Requests, Insert(r) PROVE TypeOK'
    BY <1>3, <1>b, InsertType, GotoType DEF Insert, Pcs, Waits
  <1>4. ASSUME NEW r \in Requests, Link(r) PROVE TypeOK'
    <2>1. r \in Creates
      BY <1>4 DEF Link, OperationOK
    <2> QED BY <1>4, <1>b, <2>1, LinkType, GotoType DEF Link, Pcs, Waits
  <1>5. ASSUME NEW r \in Requests, ReadBack(r) PROVE TypeOK'
    BY <1>5, <1>a, <1>b, GotoType DEF ReadBack, Pcs, Ends
  <1>6. ASSUME NEW r \in Requests, ReadComplaint(r) PROVE TypeOK'
    <2>1. status[ComplaintOf[r]] \in Status \cup {"ABSENT"}
      BY RequestTypes DEF TypeOK, ComplaintsTypeOK
    <2>2. ProcessTypeOK'
      BY <1>6, <2>1 DEF ReadComplaint, Goto, ProcessTypeOK, Waits, Ends
    <2> QED BY <1>6, <1>a, <1>b, <2>2 DEF ReadComplaint
  <1>7. ASSUME NEW r \in Requests, CheckStaff(r) PROVE TypeOK'
    BY <1>7, <1>a, <1>b, GotoType DEF CheckStaff, Pcs, Waits, Ends
  <1>e. ASSUME NEW r \in Requests, NotifyOwner(r), UNCHANGED locals PROVE ProcessTypeOK'
    <2>1. inFlight' \in SUBSET Note
      BY <1>e, OwnerNotesType DEF NotifyOwner, ProcessTypeOK
    <2> QED BY <1>e, <2>1 DEF NotifyOwner, Goto, ProcessTypeOK, locals, Waits
  <1>8. ASSUME NEW r \in Requests, Write(r) PROVE TypeOK'
    <2>1. ProcessTypeOK'
      BY <1>8, <1>e, GotoType DEF Write, Pcs, Waits
    <2> QED BY <1>8, <1>b, <2>1, UpdateType DEF Write
  <1>9. ASSUME NEW r \in Requests, Record(r) PROVE TypeOK'
    <2>1. r \in Responds
      BY <1>9 DEF Record, OperationOK
    <2> QED BY <1>9, <1>b, <1>e, <2>1, RecordType DEF Record
  <1>10. ASSUME NEW r \in Requests, ReadAdmins(r) PROVE TypeOK'
    <2>1. adminIds \in SUBSET Admins /\ adminIds \in SUBSET Users
      BY TableIsTyped DEF TypeOK, PeopleTypeOK
    <2>2. inFlight' \in SUBSET Note
      BY <1>10, <2>1, AdminNotesType DEF ReadAdmins, ProcessTypeOK
    <2>3. ProcessTypeOK'
      BY <1>10, <2>1, <2>2 DEF ReadAdmins, Goto, ProcessTypeOK, Waits
    <2> QED BY <1>10, <1>a, <1>b, <2>3 DEF ReadAdmins
  <1>f. ASSUME NEW x \in inFlight, NEW p \in Pcs, Goto(x.request, p),
               inFlight' = inFlight \ {x}, UNCHANGED locals
        PROVE  ProcessTypeOK'
    <2>1. x.request \in Requests
      BY NoteFields DEF ProcessTypeOK
    <2> QED BY <1>f, <2>1 DEF ProcessTypeOK, Goto, locals, Pcs
  <1>11. ASSUME NEW x \in inFlight, NotifyResolves(x) PROVE TypeOK'
    <2>1. x \in Note /\ x.request \in Requests
      BY NoteFields DEF ProcessTypeOK
    <2>2. pc[x.request] \in Pcs /\ AfterNotifying(x.request) \in Pcs
      BY <2>1 DEF ProcessTypeOK, AfterNotifying, Pcs, Waits
    <2>3. ProcessTypeOK'
      BY <1>11, <1>f, <2>2 DEF NotifyResolves
    <2>4. TableTypeOK'
      BY <1>11, <2>1 DEF NotifyResolves, TableTypeOK, ComplaintsTypeOK, complaints, media
    <2> QED BY <1>11, <1>b, <2>3, <2>4 DEF NotifyResolves
  <1>12. ASSUME NEW r \in Requests, Audit(r) PROVE TypeOK'
    BY <1>12, <1>b, LogType, GotoType DEF Audit, Pcs, Waits, Ends
  <1>13. ASSUME NEW r \in Requests, CallFails(r) PROVE TypeOK'
    <2>1. ProcessTypeOK'
      BY <1>13, GotoType DEF CallFails, Pcs, Ends
    <2>2. Effect(r) => TableTypeOK'
      <3> SUFFICES ASSUME Effect(r) PROVE TableTypeOK'
        OBVIOUS
      <3>1. pc[r] = "linking" => r \in Creates
        BY DEF OperationOK
      <3>2. pc[r] = "recording" => r \in Responds
        BY DEF OperationOK
      <3> QED BY <1>13, <3>1, <3>2, InsertType, LinkType, UpdateType, RecordType, LogType
              DEF Effect, CallFails
    <2> QED BY <1>13, <1>a, <1>b, <1>d, <2>1, <2>2 DEF CallFails
  <1>14. ASSUME NEW x \in inFlight, NotifyRejects(x) PROVE TypeOK'
    <2>1. x.request \in Requests
      BY NoteFields DEF ProcessTypeOK
    <2>2. pc[x.request] \in Pcs
      BY <2>1 DEF ProcessTypeOK, Pcs
    <2>3. ProcessTypeOK'
      BY <1>14, <1>f, <2>2 DEF NotifyRejects, Pcs, Ends
    <2> QED BY <1>14, <1>a, <1>b, <1>d, <2>3 DEF NotifyRejects
  <1>15. CASE Crash
    <2>1. ProcessTypeOK'
      BY <1>15 DEF Crash, ProcessTypeOK, locals, Ends
    <2> QED BY <1>15, <1>a, <1>b, <1>d, <2>1 DEF Crash
  <1>16. CASE Environment
    <2>0. ASSUME UserUpdate PROVE moves' \in 0..MaxMoves
      BY <2>0, BoundsAreNat DEF UserUpdate, PeopleAllTypeOK
    <2>1. ASSUME NEW u \in Users, NEW m \in Mahallas, Move(u, m) PROVE TypeOK'
      <3>1. PeopleAllTypeOK'
        BY <2>0, <2>1 DEF Move, PeopleAllTypeOK, PeopleTypeOK
      <3> QED BY <2>1, <1>a, <1>c, <3>1 DEF Move
    <2>2. ASSUME NEW A \in SUBSET Admins, ChangeAdmins(A) PROVE TypeOK'
      <3>1. PeopleAllTypeOK'
        BY <2>0, <2>2 DEF ChangeAdmins, PeopleAllTypeOK, PeopleTypeOK
      <3> QED BY <2>2, <1>a, <1>c, <3>1 DEF ChangeAdmins
    <2>3. ASSUME NEW m \in Media, TakeMedia(m) \/ ReleaseMedia(m) PROVE TypeOK'
      <3>1. TableTypeOK'
        BY <2>3 DEF TakeMedia, ReleaseMedia, TableTypeOK, ComplaintsTypeOK, complaints
      <3> QED BY <2>3, <1>b, <1>c, <3>1 DEF TakeMedia, ReleaseMedia
    <2> QED BY <1>16, <2>1, <2>2, <2>3 DEF Environment
  <1>17. CASE UNCHANGED vars
    BY <1>17, <1>a, <1>b, <1>c DEF vars
  <1> QED BY <1>1, <1>2, <1>3, <1>4, <1>5, <1>6, <1>7, <1>8, <1>9, <1>10, <1>11, <1>12, <1>13,
             <1>14, <1>15, <1>16, <1>17
          DEF Next, RequestStep, CreateStep, ChangeStep, RespondStep, NotifyStep, Rest
-----------------------------------------------------------------------------
(***************************************************************************)
(* What a step can do, by the part of the state it concerns.               *)
(***************************************************************************)

(* The tables change by an effect of one request, which moves on with it,  *)
(* or by another service taking or releasing a media file.                 *)
LEMMA TableSteps ==
    ASSUME TypeOK, [Next]_vars
    PROVE  \/ UNCHANGED <<complaints, media, audit, applied>>
           \/ \E r \in Requests : Effect(r) /\ pc'[r] \in AfterChange \cup {"failed"}
           \/ /\ UNCHANGED <<complaints, audit, applied>>
              /\ \E m \in Media : TakeMedia(m) \/ ReleaseMedia(m)
  <1>0. ASSUME NEW r \in Requests, NEW p, Goto(r, p) PROVE pc'[r] = p
    BY <1>0 DEF Goto, TypeOK, ProcessTypeOK
  <1>1. ASSUME NEW r \in Requests, Insert(r) \/ Link(r) \/ Write(r) \/ Record(r) \/ Audit(r)
        PROVE  Effect(r) /\ pc'[r] \in AfterChange \cup {"failed"}
    BY <1>0, <1>1 DEF Insert, Link, Write, Record, Audit, NotifyOwner, Effect, AfterChange
  <1>2. ASSUME NEW r \in Requests, CallFails(r), ~Effect(r)
        PROVE  UNCHANGED <<complaints, media, audit, applied>>
    BY <1>2 DEF CallFails
  <1>3. ASSUME NEW r \in Requests, CallFails(r) PROVE pc'[r] = "failed"
    BY <1>0, <1>3 DEF CallFails
  <1>4. ASSUME NEW r \in Requests,
               Call(r) \/ ReadActor(r) \/ ReadBack(r) \/ ReadComplaint(r) \/ CheckStaff(r)
                  \/ ReadAdmins(r)
        PROVE  UNCHANGED <<complaints, media, audit, applied>>
    BY <1>4 DEF Call, ReadActor, ReadBack, ReadComplaint, CheckStaff, ReadAdmins
  <1>5. ASSUME NEW x \in inFlight, NotifyStep(x)
        PROVE  UNCHANGED <<complaints, media, audit, applied>>
    BY <1>5 DEF NotifyStep, NotifyResolves, NotifyRejects
  <1>6. Crash => UNCHANGED <<complaints, media, audit, applied>>
    BY DEF Crash
  <1>7. ASSUME Environment
        PROVE  \/ UNCHANGED <<complaints, media, audit, applied>>
               \/ /\ UNCHANGED <<complaints, audit, applied>>
                  /\ \E m \in Media : TakeMedia(m) \/ ReleaseMedia(m)
    BY <1>7 DEF Environment, Move, ChangeAdmins, TakeMedia, ReleaseMedia
  <1>8. Rest \/ UNCHANGED vars => UNCHANGED <<complaints, media, audit, applied>>
    BY DEF Rest, vars
  <1> QED BY <1>1, <1>2, <1>3, <1>4, <1>5, <1>6, <1>7, <1>8
          DEF Next, RequestStep, CreateStep, ChangeStep, RespondStep

(* Where a request goes from where it is.                                  *)
LEMMA Control ==
    ASSUME TypeOK, [Next]_vars, NEW q \in Requests
    PROVE  \/ pc'[q] = pc[q]
           \/ /\ Call(q)
              /\ pc[q] = "unsent"
              /\ pc'[q] = IF q \in Creates THEN "reading-actor" ELSE "reading-complaint"
           \/ pc[q] \in Waits /\ pc'[q] \in {"failed", "lost"}
           \/ ReadActor(q) \/ Insert(q) \/ Link(q) \/ ReadBack(q)
           \/ ReadComplaint(q) \/ CheckStaff(q) \/ Write(q) \/ Record(q) \/ ReadAdmins(q)
           \/ Audit(q)
           \/ /\ pc[q] \in {"notifying-owner", "notifying-admins"}
              /\ pc'[q] = AfterNotifying(q)
              /\ Awaited(q) \subseteq created'
  <1>0. ASSUME NEW r \in Requests, NEW p, Goto(r, p) PROVE q = r \/ pc'[q] = pc[q]
    BY <1>0 DEF Goto, TypeOK, ProcessTypeOK
  <1>1. ASSUME NEW r \in Requests, Call(r)
        PROVE  \/ pc'[q] = pc[q]
               \/ /\ Call(q)
                  /\ pc[q] = "unsent"
                  /\ pc'[q] = IF q \in Creates THEN "reading-actor" ELSE "reading-complaint"
    BY <1>1 DEF Call, Goto, TypeOK, ProcessTypeOK
  <1>2. ASSUME NEW r \in Requests, CallFails(r)
        PROVE  pc'[q] = pc[q] \/ (pc[q] \in Waits /\ pc'[q] \in {"failed", "lost"})
    BY <1>2 DEF CallFails, Goto, TypeOK, ProcessTypeOK
  <1>3. ASSUME NEW r \in Requests, RequestStep(r), ~CallFails(r), r # q PROVE pc'[q] = pc[q]
    BY <1>0, <1>3 DEF RequestStep, CreateStep, ChangeStep, RespondStep, ReadActor, Insert, Link,
                      ReadBack, ReadComplaint, CheckStaff, NotifyOwner, Write, Record, ReadAdmins, Audit
  <1>4. ASSUME NEW x \in inFlight, NotifyStep(x)
        PROVE  \/ pc'[q] = pc[q]
               \/ pc[q] \in Waits /\ pc'[q] \in {"failed", "lost"}
               \/ /\ pc[q] \in {"notifying-owner", "notifying-admins"}
                  /\ pc'[q] = AfterNotifying(q)
                  /\ Awaited(q) \subseteq created'
    <2>1. x.request \in Requests
      BY NoteFields DEF TypeOK, ProcessTypeOK
    <2>2. PICK p : /\ Goto(x.request, p)
                   /\ \/ p = pc[x.request]
                      \/ pc[x.request] \in Waits /\ p = "failed"
                      \/ /\ pc[x.request] \in {"notifying-owner", "notifying-admins"}
                         /\ p = AfterNotifying(x.request)
                         /\ Awaited(x.request) = {x}
                         /\ x \in created'
      BY <1>4 DEF NotifyStep, NotifyResolves, NotifyRejects
    <2>3. q = x.request => pc'[q] = p
      BY <2>1, <2>2 DEF Goto, TypeOK, ProcessTypeOK
    <2> QED BY <1>0, <2>1, <2>2, <2>3
  <1>5. CASE Crash
    BY <1>5 DEF Crash, TypeOK, ProcessTypeOK
  <1>6. CASE Environment \/ Rest \/ UNCHANGED vars
    BY <1>6 DEF Environment, Move, ChangeAdmins, TakeMedia, ReleaseMedia, Rest, vars
  <1> QED BY <1>1, <1>2, <1>3, <1>4, <1>5, <1>6 DEF Next, RequestStep, CreateStep, ChangeStep, RespondStep

(* A request stays on the path of its operation. *)
LEMMA OperationStep ==
    ASSUME TypeOK, OperationOK, [Next]_vars
    PROVE  OperationOK'
  <1> SUFFICES ASSUME NEW q \in Requests
               PROVE  /\ pc'[q] \in {"reading-actor", "inserting", "linking", "reading-back"}
                            => q \in Creates
                      /\ pc'[q] \in {"reading-complaint", "checking-staff", "writing",
                                     "notifying-owner"} => q \notin Creates
                      /\ pc'[q] \in {"recording", "reading-admins", "notifying-admins"}
                            => q \in Responds
    BY DEF OperationOK
  <1>0. pc \in [Requests -> Pcs] /\ (q \in Responds => q \notin Creates)
    BY OperationsAreDisjoint DEF TypeOK, ProcessTypeOK, Pcs
  <1>1. ASSUME NEW p, Goto(q, p) PROVE pc'[q] = p
    BY <1>0, <1>1 DEF Goto
  <1>2. CASE ReadActor(q) \/ Insert(q) \/ Link(q) \/ ReadBack(q)
    BY <1>1, <1>2 DEF ReadActor, Insert, Link, ReadBack, OperationOK
  <1>3. CASE ReadComplaint(q) \/ CheckStaff(q)
    BY <1>1, <1>3 DEF ReadComplaint, CheckStaff, OperationOK
  <1>4. CASE Write(q) \/ Record(q)
    BY <1>0, <1>1, <1>4 DEF Write, Record, NotifyOwner, OperationOK
  <1>5. CASE ReadAdmins(q) \/ Audit(q)
    BY <1>1, <1>5 DEF ReadAdmins, Audit, OperationOK
  <1> QED BY <1>2, <1>3, <1>4, <1>5, Control DEF OperationOK, AfterNotifying, Waits

(* What is stored stays stored, and only an effect adds to it.             *)
LEMMA Growing ==
    ASSUME TypeOK, [Next]_vars
    PROVE  /\ applied \subseteq applied'
           /\ responses \subseteq responses'
           /\ \A q \in applied' \ applied :
                 /\ pc[q] \in {"inserting", "writing"}
                 /\ pc'[q] \in AfterChange \cup {"failed"}
           /\ created \subseteq created'
  <1>1. created \subseteq created'
    BY DEF Next, Call, RequestStep, CreateStep, ChangeStep, RespondStep, ReadActor, Insert, Link,
           ReadBack, ReadComplaint, CheckStaff, Write, Record, ReadAdmins, Audit, CallFails,
           NotifyStep, NotifyResolves, NotifyRejects, Crash, Environment, Move, ChangeAdmins,
           TakeMedia, ReleaseMedia, Rest, vars
  <1>2. ASSUME NEW r \in Requests, Effect(r), pc'[r] \in AfterChange \cup {"failed"}
        PROVE  /\ applied \subseteq applied'
               /\ responses \subseteq responses'
               /\ \A q \in applied' \ applied :
                     /\ pc[q] \in {"inserting", "writing"}
                     /\ pc'[q] \in AfterChange \cup {"failed"}
    BY <1>2 DEF Effect, InsertRow, LinkMedia, UpdateRow, RecordRow, LogEntry, WriteStatus, complaints
  <1> QED BY <1>1, <1>2, TableSteps DEF complaints

(* What a request has applied is what its place says. *)
LEMMA ChangeStepOK ==
    ASSUME TypeOK, OperationOK, ChangeExplained, [Next]_vars
    PROVE  ChangeExplained'
  <1> SUFFICES ASSUME NEW q \in Requests
               PROVE  /\ pc'[q] \in BeforeChange => q \notin applied'
                      /\ pc'[q] \in AfterChange => q \in applied'
                      /\ q \in Responds /\ pc'[q] \in AfterRecord => q \in responses'
    BY DEF ChangeExplained
  <1>0. ASSUME NEW p, Goto(q, p) PROVE pc'[q] = p
    BY <1>0 DEF Goto, TypeOK, ProcessTypeOK
  <1>1. pc'[q] \in BeforeChange => q \notin applied'
    <2>1. pc'[q] \in BeforeChange => pc[q] \in BeforeChange
      <3>1. CASE ReadActor(q) \/ Insert(q) \/ Link(q) \/ ReadBack(q)
        BY <1>0, <3>1 DEF ReadActor, Insert, Link, ReadBack, BeforeChange
      <3>2. CASE ReadComplaint(q) \/ CheckStaff(q) \/ Write(q) \/ Record(q)
        BY <1>0, <3>2 DEF ReadComplaint, CheckStaff, Write, Record, NotifyOwner, BeforeChange
      <3>3. CASE ReadAdmins(q) \/ Audit(q)
        BY <1>0, <3>3 DEF ReadAdmins, Audit, BeforeChange
      <3> QED BY <3>1, <3>2, <3>3, Control DEF BeforeChange, AfterNotifying
    <2> QED BY <2>1, Growing DEF ChangeExplained, BeforeChange, AfterChange
  <1>2. pc'[q] \in AfterChange => q \in applied'
    <2>1. CASE Insert(q) \/ Write(q)
      BY <2>1 DEF Insert, Write, InsertRow, UpdateRow, WriteStatus
    <2>2. CASE ReadActor(q) \/ ReadComplaint(q) \/ CheckStaff(q)
      BY <1>0, <2>2 DEF ReadActor, ReadComplaint, CheckStaff, AfterChange
    <2>3. CASE Link(q) \/ ReadBack(q) \/ Record(q) \/ ReadAdmins(q) \/ Audit(q)
      BY <2>3, Growing DEF Link, ReadBack, Record, ReadAdmins, Audit, ChangeExplained, AfterChange
    <2> QED BY <2>1, <2>2, <2>3, Control, Growing DEF ChangeExplained, AfterChange
  <1>3. q \in Responds /\ pc'[q] \in AfterRecord => q \in responses'
    <2>1. CASE Record(q)
      BY <2>1 DEF Record, RecordRow
    <2>2. CASE ReadActor(q) \/ Insert(q) \/ Link(q) \/ ReadBack(q)
      BY <2>2, OperationsAreDisjoint DEF ReadActor, Insert, Link, ReadBack, OperationOK
    <2>3. CASE ReadComplaint(q) \/ CheckStaff(q) \/ Write(q)
      BY <1>0, <2>3 DEF ReadComplaint, CheckStaff, Write, AfterRecord
    <2>4. CASE ReadAdmins(q) \/ Audit(q)
      BY <2>4, Growing DEF ReadAdmins, Audit, ChangeExplained, AfterRecord
    <2> QED BY <2>1, <2>2, <2>3, <2>4, Control, Growing DEF ChangeExplained, AfterRecord
  <1> QED BY <1>1, <1>2, <1>3

(* The rows of a request exist as its place says. *)
LEMMA RowsStep ==
    ASSUME TypeOK, OperationOK, ChangeExplained, RowsExplained, [Next]_vars
    PROVE  RowsExplained'
  <1>1. \A c \in Creates : status'[c] # "ABSENT" <=> c \in applied'
    <2>1. ASSUME NEW r \in Requests, Effect(r)
          PROVE  \A c \in Creates : status'[c] # "ABSENT" <=> c \in applied'
      <3>0. StatusOf[r] # "ABSENT" /\ ComplaintOf[r] \in Creates
            /\ (r \in Creates => ComplaintOf[r] = r)
        BY RequestTypes DEF Status
      <3>1. CASE pc[r] = "inserting" /\ InsertRow(r)
        BY <3>0, <3>1 DEF InsertRow, WriteStatus, OperationOK, RowsExplained, TypeOK, ComplaintsTypeOK
      <3>2. CASE pc[r] = "writing" /\ UpdateRow(r)
        BY <3>0, <3>2 DEF UpdateRow, WriteStatus, OperationOK, RowsExplained, TypeOK, ComplaintsTypeOK
      <3>3. CASE LinkMedia(r) \/ RecordRow(r) \/ LogEntry(r)
        BY <3>3 DEF LinkMedia, RecordRow, LogEntry, complaints, RowsExplained
      <3> QED BY <2>1, <3>1, <3>2, <3>3 DEF Effect
    <2> QED BY <2>1, TableSteps DEF RowsExplained, complaints
  <1>2. ASSUME NEW q \in Requests, q \in applied' \/ pc'[q] \in {"checking-staff", "writing"}
        PROVE  ComplaintOf[q] \in applied'
    <2>0. ASSUME NEW p, Goto(q, p) PROVE pc'[q] = p
      BY <2>0 DEF Goto, TypeOK, ProcessTypeOK
    <2>1. CASE q \in applied'
      <3>1. q \in applied \/ pc[q] = "writing" \/ q \in Creates
        BY <2>1, Growing DEF OperationOK
      <3> QED BY <2>1, <3>1, Growing, RequestTypes DEF RowsExplained
    <2>2. CASE pc'[q] \in {"checking-staff", "writing"}
      <3>1. CASE ReadComplaint(q)
        <4>1. status[ComplaintOf[q]] # "ABSENT"
          BY <2>0, <2>2, <3>1 DEF ReadComplaint
        <4> QED BY <4>1, RequestTypes, Growing DEF RowsExplained
      <3>2. CASE pc[q] \in {"checking-staff", "writing"}
        BY <3>2, Growing DEF RowsExplained
      <3>3. CASE ReadActor(q) \/ Insert(q) \/ Link(q) \/ ReadBack(q)
        BY <2>0, <2>2, <3>3 DEF ReadActor, Insert, Link, ReadBack
      <3>4. CASE Record(q) \/ ReadAdmins(q) \/ Audit(q)
        BY <2>0, <2>2, <3>4 DEF Record, NotifyOwner, ReadAdmins, Audit
      <3>5. CASE CheckStaff(q) \/ Write(q)
        BY <3>2, <3>5 DEF CheckStaff, Write
      <3> QED BY <2>2, <3>1, <3>2, <3>3, <3>4, <3>5, Control DEF AfterNotifying
    <2> QED BY <1>2, <2>1, <2>2
  <1> QED BY <1>1, <1>2 DEF RowsExplained

(* What a step does to the local variables of a request. *)
LEMMA LocalSteps ==
    ASSUME TypeOK, [Next]_vars, NEW q \in Requests
    PROVE  /\ home'[q] = home[q] \/ ReadActor(q)
           /\ old'[q] = old[q] \/ ReadComplaint(q)
           /\ told'[q] = told[q] \/ ReadAdmins(q)
  <1>1. ASSUME NEW r \in Requests, ReadActor(r) \/ ReadComplaint(r) \/ ReadAdmins(r)
        PROVE  /\ home'[q] = home[q] \/ ReadActor(q)
               /\ old'[q] = old[q] \/ ReadComplaint(q)
               /\ told'[q] = told[q] \/ ReadAdmins(q)
    BY <1>1 DEF ReadActor, ReadComplaint, ReadAdmins, TypeOK, ProcessTypeOK
  <1>2. ASSUME NEW r \in Requests,
               Call(r) \/ Insert(r) \/ Link(r) \/ ReadBack(r) \/ CheckStaff(r) \/ Write(r) \/ Record(r)
                  \/ Audit(r) \/ CallFails(r)
        PROVE  UNCHANGED locals
    BY <1>2 DEF Call, Insert, Link, ReadBack, CheckStaff, Write, Record, Audit, CallFails
  <1>3. ASSUME NEW x \in inFlight, NotifyStep(x) PROVE UNCHANGED locals
    BY <1>3 DEF NotifyStep, NotifyResolves, NotifyRejects
  <1>4. Crash \/ Environment \/ Rest \/ UNCHANGED vars => UNCHANGED locals
    BY DEF Crash, Environment, Move, ChangeAdmins, TakeMedia, ReleaseMedia, Rest, vars
  <1> QED BY <1>1, <1>2, <1>3, <1>4
          DEF Next, RequestStep, CreateStep, ChangeStep, RespondStep, locals

(* A call of notify is lost only with the request that made it.            *)
LEMMA NotesFate ==
    ASSUME TypeOK, [Next]_vars, NEW q \in Requests, pc'[q] \in Waits,
           NEW n \in inFlight \cup created, n.request = q
    PROVE  n \in inFlight' \cup created'
  <1>1. ASSUME NEW r \in Requests, Call(r) \/ RequestStep(r) PROVE n \in inFlight' \cup created'
    BY <1>1 DEF Call, RequestStep, CreateStep, ChangeStep, RespondStep, ReadActor, Insert, Link,
                ReadBack, ReadComplaint, CheckStaff, Write, Record, NotifyOwner, ReadAdmins, Audit,
                CallFails
  <1>2. ASSUME NEW x \in inFlight, NotifyResolves(x) PROVE n \in inFlight' \cup created'
    BY <1>2 DEF NotifyResolves
  <1>3. ASSUME NEW x \in inFlight, NotifyRejects(x) PROVE n \in inFlight' \cup created'
    <2>1. x.request \in Requests
      BY NoteFields DEF TypeOK, ProcessTypeOK
    <2>2. x.request = q => pc'[q] \notin Waits
      BY <1>3, <2>1 DEF NotifyRejects, Goto, TypeOK, ProcessTypeOK, Waits
    <2> QED BY <1>3, <2>2 DEF NotifyRejects
  <1>4. CASE Crash
    BY <1>4 DEF Crash, Waits, TypeOK, ProcessTypeOK
  <1>5. CASE Environment \/ Rest \/ UNCHANGED vars
    BY <1>5 DEF Environment, Move, ChangeAdmins, TakeMedia, ReleaseMedia, Rest, vars
  <1> QED BY <1>1, <1>2, <1>3, <1>4, <1>5 DEF Next, NotifyStep

(* The calls of notify that a place requires exist. *)
LEMMA NotesStep ==
    ASSUME TypeOK, OperationOK, NotesExplained, [Next]_vars
    PROVE  NotesExplained'
  <1> SUFFICES ASSUME NEW q \in Requests
      PROVE /\ pc'[q] = "notifying-owner" => OwnerNotes(q) \subseteq inFlight' \cup created'
            /\ pc'[q] \in AfterOwner /\ q \notin Creates /\ OwnerOf(q) # ActorOf[q]
                  => OwnerNotes(q) \subseteq created'
            /\ pc'[q] = "notifying-admins"
                  => AdminNotes(q, told'[q]) \subseteq inFlight' \cup created'
            /\ pc'[q] = "auditing" /\ q \in Responds => AdminNotes(q, told'[q]) \subseteq created'
    BY DEF NotesExplained, OwnerNotes, AdminNotes
  <1>0. ASSUME NEW p, Goto(q, p) PROVE pc'[q] = p
    BY <1>0 DEF Goto, TypeOK, ProcessTypeOK
  <1>a. \A n \in OwnerNotes(q) : n.request = q
    BY DEF OwnerNotes
  <1>b. \A n \in AdminNotes(q, told[q]) : n.request = q
    BY DEF AdminNotes
  <1>c. ASSUME NEW S, S \subseteq inFlight \cup created, \A n \in S : n.request = q,
               Awaited(q) \subseteq created'
        PROVE  S \subseteq created'
    BY <1>c, Growing DEF Awaited
  <1>1. pc'[q] = "notifying-owner" => OwnerNotes(q) \subseteq inFlight' \cup created'
    <2>1. CASE Write(q) \/ Record(q)
      BY <1>0, <2>1 DEF Write, Record, NotifyOwner
    <2>2. CASE ReadActor(q) \/ Insert(q) \/ Link(q) \/ ReadBack(q)
      BY <1>0, <2>2 DEF ReadActor, Insert, Link, ReadBack
    <2>3. CASE ReadComplaint(q) \/ CheckStaff(q) \/ ReadAdmins(q) \/ Audit(q)
      BY <1>0, <2>3 DEF ReadComplaint, CheckStaff, ReadAdmins, Audit
    <2>4. CASE pc'[q] = pc[q]
      BY <1>a, <2>4, NotesFate DEF NotesExplained, Waits
    <2> QED BY <2>1, <2>2, <2>3, <2>4, Control DEF AfterNotifying
  <1>2. pc'[q] \in AfterOwner /\ q \notin Creates /\ OwnerOf(q) # ActorOf[q]
           => OwnerNotes(q) \subseteq created'
    <2>1. CASE Write(q) \/ Record(q)
      BY <1>0, <2>1 DEF Write, Record, NotifyOwner, AfterOwner
    <2>2. CASE ReadActor(q) \/ Insert(q) \/ Link(q) \/ ReadBack(q)
      BY <2>2 DEF ReadActor, Insert, Link, ReadBack, OperationOK
    <2>3. CASE ReadComplaint(q) \/ CheckStaff(q)
      BY <1>0, <2>3 DEF ReadComplaint, CheckStaff, AfterOwner
    <2>4. CASE ReadAdmins(q) \/ Audit(q) \/ pc'[q] = pc[q]
      BY <2>4, Growing DEF ReadAdmins, Audit, NotesExplained, AfterOwner
    <2>5. CASE pc[q] = "notifying-owner" /\ Awaited(q) \subseteq created'
      BY <1>a, <1>c, <2>5 DEF NotesExplained
    <2>6. CASE pc[q] = "notifying-admins"
      BY <2>6, Growing DEF NotesExplained, AfterOwner
    <2> QED BY <2>1, <2>2, <2>3, <2>4, <2>5, <2>6, Control DEF AfterOwner
  <1>3. pc'[q] = "notifying-admins" => AdminNotes(q, told'[q]) \subseteq inFlight' \cup created'
    <2>1. CASE ReadAdmins(q)
      BY <2>1 DEF ReadAdmins, TypeOK, ProcessTypeOK
    <2>2. CASE ReadActor(q) \/ Insert(q) \/ Link(q) \/ ReadBack(q)
      BY <1>0, <2>2 DEF ReadActor, Insert, Link, ReadBack
    <2>3. CASE ReadComplaint(q) \/ CheckStaff(q) \/ Write(q) \/ Record(q) \/ Audit(q)
      BY <1>0, <2>3 DEF ReadComplaint, CheckStaff, Write, Record, NotifyOwner, Audit
    <2>4. CASE pc'[q] = pc[q] /\ told'[q] = told[q]
      BY <1>b, <2>4, NotesFate DEF NotesExplained, Waits
    <2> QED BY <2>1, <2>2, <2>3, <2>4, Control, LocalSteps DEF AfterNotifying
  <1>4. pc'[q] = "auditing" /\ q \in Responds => AdminNotes(q, told'[q]) \subseteq created'
    <2>1. CASE ReadAdmins(q)
      BY <1>0, <2>1 DEF ReadAdmins, TypeOK, ProcessTypeOK, AdminNotes
    <2>2. CASE ReadActor(q) \/ Insert(q) \/ Link(q) \/ ReadBack(q)
      BY <2>2, OperationsAreDisjoint DEF ReadActor, Insert, Link, ReadBack, OperationOK
    <2>3. CASE ReadComplaint(q) \/ CheckStaff(q) \/ Write(q) \/ Record(q) \/ Audit(q)
      BY <1>0, <2>3 DEF ReadComplaint, CheckStaff, Write, Record, NotifyOwner, Audit
    <2>4. CASE pc'[q] = pc[q] /\ told'[q] = told[q]
      BY <2>4, Growing DEF NotesExplained
    <2>5. CASE /\ pc[q] \in {"notifying-owner", "notifying-admins"} /\ told'[q] = told[q]
               /\ pc'[q] = AfterNotifying(q) /\ Awaited(q) \subseteq created'
      BY <1>b, <1>c, <2>5 DEF NotesExplained, AfterNotifying
    <2> QED BY <2>1, <2>2, <2>3, <2>4, <2>5, Control, LocalSteps
  <1> QED BY <1>1, <1>2, <1>3, <1>4

(* The observations of a request grow from its call on, and keep up with   *)
(* the complaint and with the actor.                                       *)
LEMMA HeldSteps ==
    ASSUME TypeOK, [Next]_vars, NEW q \in Requests
    PROVE  \/ Call(q)
           \/ /\ held[q] \subseteq held'[q]
              /\ q \notin applied' => status'[ComplaintOf[q]] \in held'[q] \cup {status[ComplaintOf[q]]}
  <1>1. ASSUME NEW r \in Requests, WriteStatus(r)
        PROVE  /\ held[q] \subseteq held'[q]
               /\ q \notin applied'
                     => status'[ComplaintOf[q]] \in held'[q] \cup {status[ComplaintOf[q]]}
    BY <1>1, RequestTypes DEF WriteStatus, TypeOK, ComplaintsTypeOK
  <1>2. ASSUME NEW r \in Requests, Call(r), r # q PROVE held'[q] = held[q] /\ UNCHANGED status
    BY <1>2 DEF Call, TypeOK, ObservationTypeOK, complaints
  <1>3. ASSUME NEW r \in Requests, Effect(r)
        PROVE  WriteStatus(r) \/ UNCHANGED <<status, held>>
    BY <1>3 DEF Effect, InsertRow, LinkMedia, UpdateRow, RecordRow, LogEntry, complaints
  <1>4. ASSUME NEW r \in Requests, Insert(r) \/ Link(r) \/ Write(r) \/ Record(r) \/ Audit(r)
        PROVE  Effect(r)
    BY <1>4 DEF Insert, Link, Write, Record, Audit, Effect
  <1>5. ASSUME NEW r \in Requests, CallFails(r)
        PROVE  Effect(r) \/ UNCHANGED <<status, held>>
    BY <1>5 DEF CallFails, complaints
  <1>6. ASSUME NEW r \in Requests,
               ReadActor(r) \/ ReadBack(r) \/ ReadComplaint(r) \/ CheckStaff(r) \/ ReadAdmins(r)
        PROVE  UNCHANGED <<status, held>>
    BY <1>6 DEF ReadActor, ReadBack, ReadComplaint, CheckStaff, ReadAdmins, complaints
  <1>7. ASSUME NEW x \in inFlight, NotifyStep(x) PROVE UNCHANGED <<status, held>>
    BY <1>7 DEF NotifyStep, NotifyResolves, NotifyRejects, complaints
  <1>8. Crash \/ Environment \/ Rest \/ UNCHANGED vars => UNCHANGED <<status, held>>
    BY DEF Crash, Environment, Move, ChangeAdmins, TakeMedia, ReleaseMedia, Rest, vars, complaints
  <1> QED BY <1>1, <1>2, <1>3, <1>4, <1>5, <1>6, <1>7, <1>8
          DEF Next, RequestStep, CreateStep, ChangeStep, RespondStep

(* Where users and complaints have been only grows. *)
LEMMA BeenSteps ==
    ASSUME TypeOK, [Next]_vars, NEW q \in Requests
    PROVE  \/ Call(q)
           \/ /\ been[q] \subseteq been'[q]
              /\ pc[q] \in Waits
                    => belongs'[ActorOf[q]] \in been'[q] \cup {belongs[ActorOf[q]]}
  <1>0. ActorOf[q] \in Users
    BY RequestTypes
  <1>1. ASSUME NEW r \in Requests, Call(r), r # q PROVE been'[q] = been[q] /\ UNCHANGED belongs
    BY <1>1 DEF Call, TypeOK, ObservationTypeOK
  <1>2. ASSUME NEW u \in Users, NEW m \in Mahallas, Move(u, m)
        PROVE  /\ been[q] \subseteq been'[q]
               /\ pc[q] \in Waits
                     => belongs'[ActorOf[q]] \in been'[q] \cup {belongs[ActorOf[q]]}
    BY <1>0, <1>2 DEF Move, TypeOK, PeopleTypeOK
  <1>3. ASSUME NEW r \in Requests, RequestStep(r) PROVE UNCHANGED <<been, belongs>>
    BY <1>3 DEF RequestStep, CreateStep, ChangeStep, RespondStep, ReadActor, Insert, Link, ReadBack,
                ReadComplaint, CheckStaff, Write, Record, ReadAdmins, Audit, CallFails, people
  <1>4. ASSUME NEW x \in inFlight, NotifyStep(x) PROVE UNCHANGED <<been, belongs>>
    BY <1>4 DEF NotifyStep, NotifyResolves, NotifyRejects, people
  <1>5. Crash \/ Rest \/ UNCHANGED vars => UNCHANGED <<been, belongs>>
    BY DEF Crash, Rest, vars, people
  <1>6. ASSUME Environment
        PROVE  \/ \E u \in Users, m \in Mahallas : Move(u, m)
               \/ UNCHANGED <<been, belongs>>
    BY <1>6 DEF Environment, ChangeAdmins, TakeMedia, ReleaseMedia, people
  <1> QED BY <1>1, <1>2, <1>3, <1>4, <1>5, <1>6 DEF Next

(* A complaint's mahalla is the one its creation chose.                    *)
LEMMA MahallaSteps ==
    ASSUME TypeOK, OperationOK, ChangeExplained, [Next]_vars, NEW c \in Creates
    PROVE  /\ c \in applied => mahalla'[c] = mahalla[c]
           /\ c \in applied' \ applied => pc[c] = "inserting" /\ mahalla'[c] = home[c]
  <1>0. c \in Requests /\ mahalla \in [Creates -> Mahallas \cup {None}]
    BY DEF Requests, TypeOK, ComplaintsTypeOK
  <1>1. ASSUME NEW r \in Requests, pc[r] = "inserting", InsertRow(r)
        PROVE  /\ c \in applied => mahalla'[c] = mahalla[c]
               /\ c \in applied' \ applied => pc[c] = "inserting" /\ mahalla'[c] = home[c]
    <2>1. r \notin applied
      BY <1>1 DEF ChangeExplained, BeforeChange
    <2> QED BY <1>0, <1>1, <2>1 DEF InsertRow, WriteStatus
  <1>2. ASSUME NEW r \in Requests, pc[r] = "writing", UpdateRow(r)
        PROVE  mahalla' = mahalla /\ c \notin applied' \ applied
    BY <1>0, <1>2 DEF UpdateRow, WriteStatus, OperationOK
  <1>3. ASSUME NEW r \in Requests, LinkMedia(r) \/ RecordRow(r) \/ LogEntry(r)
        PROVE  mahalla' = mahalla /\ applied' = applied
    BY <1>3 DEF LinkMedia, RecordRow, LogEntry, complaints
  <1> QED BY <1>1, <1>2, <1>3, TableSteps DEF Effect, complaints

(* What was read of a mahalla held while the request ran. *)
LEMMA HomeStep ==
    ASSUME TypeOK, OperationOK, ChangeExplained, RowsExplained, HomeExplained, [Next]_vars
    PROVE  HomeExplained'
  <1> SUFFICES ASSUME NEW q \in Requests
      PROVE /\ pc'[q] \in Waits => belongs'[ActorOf[q]] \in been'[q]
            /\ pc'[q] = "inserting" /\ ~MayChooseMahalla(q) => home'[q] \in been'[q]
            /\ pc'[q] = "writing" /\ IsStaff(q) => mahalla'[ComplaintOf[q]] \in been'[q]
    BY DEF HomeExplained, MayChooseMahalla, IsStaff
  <1>0. ASSUME NEW p, Goto(q, p) PROVE pc'[q] = p
    BY <1>0 DEF Goto, TypeOK, ProcessTypeOK
  <1>a. pc[q] \in Waits => ~Call(q)
    BY DEF Call, Waits
  <1>1. CASE Call(q)
    <2>1. pc'[q] \notin {"inserting", "writing"} /\ belongs'[ActorOf[q]] \in been'[q]
      BY <1>0, <1>1 DEF Call, TypeOK, ObservationTypeOK
    <2> QED BY <2>1
  <1>2. CASE ~Call(q)
    <2>1. pc'[q] \in Waits => belongs'[ActorOf[q]] \in been'[q]
      <3>1. pc'[q] \in Waits => pc[q] \in Waits
        <4>1. CASE ReadActor(q) \/ Insert(q) \/ Link(q) \/ ReadBack(q) \/ ReadComplaint(q)
          BY <4>1 DEF ReadActor, Insert, Link, ReadBack, ReadComplaint, Waits
        <4>2. CASE CheckStaff(q) \/ Write(q) \/ Record(q) \/ ReadAdmins(q) \/ Audit(q)
          BY <4>2 DEF CheckStaff, Write, Record, ReadAdmins, Audit, Waits
        <4> QED BY <1>2, <4>1, <4>2, Control DEF Waits
      <3> QED BY <1>2, <3>1, BeenSteps DEF HomeExplained
    <2>2. pc'[q] = "inserting" /\ ~MayChooseMahalla(q) => home'[q] \in been'[q]
      <3>1. CASE ReadActor(q)
        <4>1. pc[q] \in Waits /\ UNCHANGED been
          BY <3>1 DEF ReadActor, Waits, people
        <4>2. ~MayChooseMahalla(q) => home'[q] = belongs[ActorOf[q]]
          BY <3>1 DEF ReadActor, Chosen, TypeOK, ProcessTypeOK
        <4> QED BY <4>1, <4>2 DEF HomeExplained
      <3>2. CASE Insert(q) \/ Link(q) \/ ReadBack(q) \/ ReadComplaint(q) \/ CheckStaff(q)
        BY <1>0, <3>2 DEF Insert, Link, ReadBack, ReadComplaint, CheckStaff
      <3>3. CASE Write(q) \/ Record(q) \/ ReadAdmins(q) \/ Audit(q)
        BY <1>0, <3>3 DEF Write, Record, NotifyOwner, ReadAdmins, Audit
      <3>4. CASE pc'[q] = pc[q] /\ home'[q] = home[q]
        BY <1>2, <3>4, BeenSteps DEF HomeExplained
      <3> QED BY <1>2, <3>1, <3>2, <3>3, <3>4, Control, LocalSteps DEF AfterNotifying
    <2>3. pc'[q] = "writing" /\ IsStaff(q) => mahalla'[ComplaintOf[q]] \in been'[q]
      <3>1. CASE CheckStaff(q)
        <4>1. pc[q] \in Waits /\ UNCHANGED <<been, mahalla>>
          BY <3>1 DEF CheckStaff, Waits, people, complaints
        <4>2. belongs[ActorOf[q]] \in Mahallas \cup {None}
          BY RequestTypes DEF TypeOK, PeopleTypeOK
        <4>3. pc'[q] = "writing" => belongs[ActorOf[q]] = mahalla[ComplaintOf[q]]
          BY <1>0, <3>1, <4>2 DEF CheckStaff
        <4> QED BY <4>1, <4>3 DEF HomeExplained
      <3>2. CASE ReadComplaint(q)
        BY <1>0, <3>2 DEF ReadComplaint
      <3>3. CASE ReadActor(q) \/ Insert(q) \/ Link(q) \/ ReadBack(q)
        BY <1>0, <3>3 DEF ReadActor, Insert, Link, ReadBack
      <3>4. CASE Write(q) \/ Record(q) \/ ReadAdmins(q) \/ Audit(q)
        BY <1>0, <3>4 DEF Write, Record, NotifyOwner, ReadAdmins, Audit
      <3>5. CASE pc'[q] = pc[q]
        <4>1. pc[q] = "writing" => ComplaintOf[q] \in applied
          BY DEF RowsExplained
        <4> QED BY <1>2, <3>5, <4>1, BeenSteps, MahallaSteps, RequestTypes DEF HomeExplained
      <3> QED BY <1>2, <3>1, <3>2, <3>3, <3>4, <3>5, Control DEF AfterNotifying
    <2> QED BY <2>1, <2>2, <2>3
  <1> QED BY <1>1, <1>2

(* The status that was read was held while the request ran. *)
LEMMA OldStep ==
    ASSUME TypeOK, OperationOK, ChangeExplained, OldExplained, [Next]_vars
    PROVE  OldExplained'
  <1> SUFFICES ASSUME NEW q \in Requests
      PROVE /\ pc'[q] \in Waits /\ q \notin applied' => status'[ComplaintOf[q]] \in held'[q]
            /\ pc'[q] \in {"checking-staff", "writing", "notifying-owner", "auditing"}
                  /\ q \in Updates => old'[q] \in held'[q]
    BY DEF OldExplained
  <1>0. ASSUME NEW p, Goto(q, p) PROVE pc'[q] = p
    BY <1>0 DEF Goto, TypeOK, ProcessTypeOK
  <1>1. CASE Call(q)
    <2>1. pc'[q] \notin {"checking-staff", "writing", "notifying-owner", "auditing"}
      BY <1>0, <1>1 DEF Call
    <2>2. status'[ComplaintOf[q]] \in held'[q]
      BY <1>1 DEF Call, TypeOK, ObservationTypeOK, complaints
    <2> QED BY <2>1, <2>2
  <1>2. CASE ~Call(q)
    <2>1. pc'[q] \in Waits /\ q \notin applied' => status'[ComplaintOf[q]] \in held'[q]
      <3>1. pc'[q] \in Waits => pc[q] \in Waits
        <4>1. CASE ReadActor(q) \/ Insert(q) \/ Link(q) \/ ReadBack(q) \/ ReadComplaint(q)
          BY <4>1 DEF ReadActor, Insert, Link, ReadBack, ReadComplaint, Waits
        <4>2. CASE CheckStaff(q) \/ Write(q) \/ Record(q) \/ ReadAdmins(q) \/ Audit(q)
          BY <4>2 DEF CheckStaff, Write, Record, ReadAdmins, Audit, Waits
        <4> QED BY <1>2, <4>1, <4>2, Control DEF Waits
      <3> QED BY <1>2, <3>1, HeldSteps, Growing DEF OldExplained
    <2>2. pc'[q] \in {"checking-staff", "writing", "notifying-owner", "auditing"} /\ q \in Updates
             => old'[q] \in held'[q]
      <3>0. q \in Updates => q \notin Creates /\ q \notin Responds
        BY OperationsAreDisjoint
      <3>1. CASE ReadComplaint(q)
        <4>1. pc[q] \in Waits /\ q \notin applied /\ UNCHANGED held
          BY <3>1 DEF ReadComplaint, Waits, ChangeExplained, BeforeChange
        <4>2. old'[q] = status[ComplaintOf[q]]
          BY <3>1 DEF ReadComplaint, TypeOK, ProcessTypeOK
        <4> QED BY <4>1, <4>2 DEF OldExplained
      <3>2. CASE ReadActor(q) \/ Insert(q) \/ Link(q) \/ ReadBack(q)
        BY <3>0, <3>2 DEF ReadActor, Insert, Link, ReadBack, OperationOK
      <3>3. CASE Record(q) \/ ReadAdmins(q)
        BY <3>0, <3>3 DEF Record, ReadAdmins, OperationOK
      <3>4. CASE Audit(q)
        BY <1>0, <3>4 DEF Audit
      <3>5. CASE /\ q \in Updates => pc[q] \in {"checking-staff", "writing", "notifying-owner",
                                                 "auditing"}
                 /\ old'[q] = old[q]
        BY <1>2, <3>5, HeldSteps DEF OldExplained
      <3>6. CASE CheckStaff(q) \/ Write(q)
        BY <3>5, <3>6, LocalSteps DEF CheckStaff, Write, ReadComplaint
      <3>7. CASE pc[q] \in {"notifying-owner", "notifying-admins"}
        BY <3>0, <3>5, <3>7, LocalSteps DEF OperationOK, ReadComplaint
      <3> QED BY <1>2, <3>1, <3>2, <3>3, <3>4, <3>5, <3>6, <3>7, Control, LocalSteps
    <2> QED BY <2>1, <2>2
  <1> QED BY <1>1, <1>2

(* The audit log grows by the entry of a request that is auditing.         *)
LEMMA AuditSteps ==
    ASSUME TypeOK, [Next]_vars, NEW e \in audit' \ audit
    PROVE  \E r \in Requests : pc[r] = "auditing" /\ e = Entry(r)
  <1>1. ASSUME NEW r \in Requests, Effect(r)
        PROVE  pc[r] = "auditing" /\ e = Entry(r)
    BY <1>1 DEF Effect, InsertRow, LinkMedia, UpdateRow, RecordRow, LogEntry
  <1> QED BY <1>1, TableSteps

(* A new call of notify is made by a request that goes to wait for it.     *)
LEMMA NewNotes ==
    ASSUME TypeOK, [Next]_vars, NEW x \in (inFlight' \cup created') \ (inFlight \cup created)
    PROVE  x.request \in Requests /\ pc'[x.request] \in {"notifying-owner", "notifying-admins"}
  <1>0. ASSUME NEW r \in Requests, NEW p, Goto(r, p) PROVE pc'[r] = p
    BY <1>0 DEF Goto, TypeOK, ProcessTypeOK
  <1>1. ASSUME NEW r \in Requests, NotifyOwner(r), UNCHANGED created
        PROVE  x.request = r /\ pc'[r] = "notifying-owner"
    <2>1. Goto(r, "notifying-owner") /\ x \in OwnerNotes(r)
      BY <1>1 DEF NotifyOwner
    <2> QED BY <1>0, <2>1 DEF OwnerNotes
  <1>2. ASSUME NEW r \in Requests, Write(r) \/ Record(r)
        PROVE  NotifyOwner(r) /\ UNCHANGED created
    BY <1>2 DEF Write, Record
  <1>3. ASSUME NEW r \in Requests, ReadAdmins(r)
        PROVE  x.request = r /\ pc'[r] = "notifying-admins"
    BY <1>0, <1>3 DEF ReadAdmins, AdminNotes
  <1>4. ASSUME NEW r \in Requests,
               Call(r) \/ ReadActor(r) \/ Insert(r) \/ Link(r) \/ ReadBack(r) \/ ReadComplaint(r)
                  \/ CheckStaff(r) \/ Audit(r) \/ CallFails(r)
        PROVE  UNCHANGED <<inFlight, created>>
    BY <1>4 DEF Call, ReadActor, Insert, Link, ReadBack, ReadComplaint, CheckStaff, Audit, CallFails
  <1>5. ASSUME NEW y \in inFlight, NotifyStep(y)
        PROVE  inFlight' \cup created' \subseteq inFlight \cup created
    BY <1>5 DEF NotifyStep, NotifyResolves, NotifyRejects
  <1>6. Crash \/ Environment \/ Rest \/ UNCHANGED vars
           => inFlight' \cup created' \subseteq inFlight \cup created
    BY DEF Crash, Environment, Move, ChangeAdmins, TakeMedia, ReleaseMedia, Rest, vars
  <1> QED BY <1>1, <1>2, <1>3, <1>4, <1>5, <1>6
          DEF Next, RequestStep, CreateStep, ChangeStep, RespondStep

(* A step notifies of what is stored only. *)
LEMMA NotesAreTrueStep ==
    ASSUME TypeOK, OperationOK, ChangeExplained, NotesAreTrue, [Next]_vars
    PROVE  NotesAreTrue'
  <1> SUFFICES ASSUME NEW x \in inFlight' \cup created'
               PROVE  /\ x.request \in applied'
                      /\ x.request \in Responds => x.request \in responses'
    BY DEF NotesAreTrue
  <1>1. CASE x \in inFlight \cup created
    BY <1>1, Growing DEF NotesAreTrue
  <1>2. CASE x \notin inFlight \cup created
    BY <1>2, NewNotes, ChangeStepOK DEF ChangeExplained, AfterChange, AfterRecord
  <1> QED BY <1>1, <1>2

(* An entry is written when everything else has been done. *)
LEMMA AuditStep ==
    ASSUME TypeOK, OperationOK, ChangeExplained, NotesExplained, AuditIsComplete, [Next]_vars
    PROVE  AuditIsComplete'
  <1> SUFFICES ASSUME NEW e \in audit'
      PROVE /\ e.request \in applied'
            /\ e.request \notin Creates /\ OwnerOf(e.request) # ActorOf[e.request]
                  => OwnerNotes(e.request) \subseteq created'
            /\ e.request \in Responds
                  => e.request \in responses' /\ AdminNotes(e.request, e.told) \subseteq created'
    BY DEF AuditIsComplete, OwnerNotes, AdminNotes
  <1>1. CASE e \in audit
    BY <1>1, Growing DEF AuditIsComplete
  <1>2. CASE e \notin audit
    <2>1. PICK r \in Requests : pc[r] = "auditing" /\ e = Entry(r)
      BY <1>2, AuditSteps
    <2>2. e.request = r /\ e.told = told[r]
      BY <2>1, EntryType DEF TypeOK
    <2>3. r \in applied /\ (r \in Responds => r \in responses)
      BY <2>1 DEF ChangeExplained, AfterChange, AfterRecord
    <2>4. /\ r \notin Creates /\ OwnerOf(r) # ActorOf[r] => OwnerNotes(r) \subseteq created
          /\ r \in Responds => AdminNotes(r, told[r]) \subseteq created
      BY <2>1 DEF NotesExplained, AfterOwner
    <2> QED BY <2>2, <2>3, <2>4, Growing
  <1> QED BY <1>1, <1>2

(* A step changes complaints of the actor's mahallas only. *)
LEMMA ActedAtHomeStep ==
    ASSUME TypeOK, OperationOK, ChangeExplained, RowsExplained, HomeExplained, ActedAtHome,
           [Next]_vars
    PROVE  ActedAtHome'
  <1> SUFFICES ASSUME NEW r \in applied'
      PROVE IF r \in Creates THEN ~MayChooseMahalla(r) => mahalla'[r] \in been'[r]
                             ELSE IsStaff(r) => mahalla'[ComplaintOf[r]] \in been'[r]
    BY DEF ActedAtHome, MayChooseMahalla, IsStaff
  <1>0. r \in Requests
    BY TypeStep DEF TypeOK, ObservationTypeOK
  <1>1. CASE r \in applied
    <2>1. been[r] \subseteq been'[r]
      BY <1>0, <1>1, BeenSteps DEF Call, ChangeExplained, BeforeChange
    <2>2. ComplaintOf[r] \in applied /\ (r \in Creates => ComplaintOf[r] = r)
      BY <1>0, <1>1, RequestTypes DEF RowsExplained
    <2> QED BY <1>0, <1>1, <2>1, <2>2, MahallaSteps, RequestTypes DEF ActedAtHome
  <1>2. CASE r \notin applied
    <2>1. pc[r] \in {"inserting", "writing"}
      BY <1>2, Growing
    <2>2. been[r] \subseteq been'[r]
      BY <1>0, <2>1, BeenSteps DEF Call
    <2>3. CASE r \in Creates
      <3>1. pc[r] = "inserting" /\ mahalla'[r] = home[r]
        BY <1>2, <2>3, MahallaSteps
      <3> QED BY <1>0, <2>2, <2>3, <3>1 DEF HomeExplained
    <2>4. CASE r \notin Creates
      <3>1. pc[r] = "writing"
        BY <1>0, <2>1, <2>4 DEF OperationOK
      <3>2. ComplaintOf[r] \in applied
        BY <1>0, <3>1 DEF RowsExplained
      <3> QED BY <1>0, <2>2, <2>4, <3>1, <3>2, MahallaSteps, RequestTypes DEF HomeExplained
    <2> QED BY <2>3, <2>4
  <1> QED BY <1>1, <1>2

(* An entry names a status held during its request. *)
LEMMA OldStatusStep ==
    ASSUME TypeOK, OperationOK, ChangeExplained, OldExplained, AuditIsComplete, OldStatusWasHeld,
           [Next]_vars
    PROVE  OldStatusWasHeld'
  <1> SUFFICES ASSUME NEW e \in audit', e.request \in Updates PROVE e.old \in held'[e.request]
    BY DEF OldStatusWasHeld
  <1>0. e.request \in Requests
    BY DEF Requests
  <1>1. CASE e \in audit
    <2>1. e.request \in applied
      BY <1>1 DEF AuditIsComplete
    <2>2. held[e.request] \subseteq held'[e.request]
      BY <1>0, <2>1, HeldSteps DEF Call, ChangeExplained, BeforeChange
    <2> QED BY <1>1, <2>2 DEF OldStatusWasHeld
  <1>2. CASE e \notin audit
    <2>1. PICK r \in Requests : pc[r] = "auditing" /\ e = Entry(r)
      BY <1>2, AuditSteps
    <2>2. e.request = r /\ e.old = old[r]
      BY <2>1, EntryType DEF TypeOK
    <2>3. held[r] \subseteq held'[r]
      BY <2>1, HeldSteps DEF Call
    <2> QED BY <2>1, <2>2, <2>3 DEF OldExplained
  <1> QED BY <1>1, <1>2

(* A media file is attached by the creation of a complaint that is linking *)
(* its files, and never detached.                                          *)
LEMMA MediaSteps ==
    ASSUME TypeOK, OperationOK, [Next]_vars
    PROVE  \/ UNCHANGED media
           \/ UNCHANGED elsewhere /\ \E r \in Creates : LinkMedia(r)
           \/ \E m \in Media : TakeMedia(m) \/ ReleaseMedia(m)
  <1>1. ASSUME NEW r \in Requests, Effect(r)
        PROVE  UNCHANGED media \/ (r \in Creates /\ LinkMedia(r) /\ UNCHANGED elsewhere)
    BY <1>1 DEF Effect, InsertRow, LinkMedia, UpdateRow, RecordRow, LogEntry, OperationOK
  <1> QED BY <1>1, TableSteps

(* A step keeps media files exclusive and linked. *)
LEMMA MediaStep ==
    ASSUME TypeOK, OperationOK, MediaHeldOnce, [Next]_vars
    PROVE  MediaHeldOnce'
  <1>1. UNCHANGED media => MediaHeldOnce'
    BY DEF MediaHeldOnce, media
  <1>2. ASSUME NEW r \in Creates, LinkMedia(r), UNCHANGED elsewhere PROVE MediaHeldOnce'
    <2> SUFFICES ASSUME NEW m \in Media, attached'[m] # {}
                 PROVE  m \notin elsewhere /\ \A c \in attached'[m] : UploaderOf[m] = ActorOf[c]
      BY <1>2 DEF MediaHeldOnce
    <2>1. CASE m \in Linkable(r)
      BY <1>2, <2>1 DEF LinkMedia, Linkable
    <2>2. CASE m \notin Linkable(r)
      BY <1>2, <2>2 DEF LinkMedia, MediaHeldOnce
    <2> QED BY <2>1, <2>2
  <1>3. ASSUME NEW m \in Media, TakeMedia(m) \/ ReleaseMedia(m) PROVE MediaHeldOnce'
    BY <1>3 DEF TakeMedia, ReleaseMedia, MediaHeldOnce
  <1> QED BY <1>1, <1>2, <1>3, MediaSteps
-----------------------------------------------------------------------------
(* IInv holds before the first request. *)
LEMMA InitIInv == Init => IInv
  <1> SUFFICES ASSUME Init PROVE IInv
    OBVIOUS
  <1>1. ComplaintsTypeOK /\ PeopleTypeOK
    BY DEF Init, ComplaintsTypeOK, PeopleTypeOK
  <1>2. ProcessTypeOK /\ ObservationTypeOK
    BY BoundsAreNat DEF Init, ProcessTypeOK, ObservationTypeOK
  <1>3. OperationOK /\ ChangeExplained /\ RowsExplained
    BY DEF Init, OperationOK, ChangeExplained, RowsExplained, AfterChange, AfterRecord
  <1>4. NotesExplained /\ HomeExplained /\ OldExplained
    BY DEF Init, NotesExplained, HomeExplained, OldExplained, AfterOwner, Waits
  <1>5. NotesAreTrue /\ AuditIsComplete /\ ActedAtHome /\ OldStatusWasHeld /\ MediaHeldOnce
    BY DEF Init, NotesAreTrue, AuditIsComplete, ActedAtHome, OldStatusWasHeld, MediaHeldOnce
  <1> QED BY <1>1, <1>2, <1>3, <1>4, <1>5 DEF IInv, TypeOK

(* Every step keeps IInv. *)
LEMMA NextIInv == IInv /\ [Next]_vars => IInv'
  BY TypeStep, OperationStep, ChangeStepOK, RowsStep, NotesStep, HomeStep, OldStep,
     NotesAreTrueStep, AuditStep, ActedAtHomeStep, OldStatusStep, MediaStep
  DEF IInv

(* The strengthened invariant: where each request is explains what the     *)
(* database, the notifications and the audit log hold of it.               *)
THEOREM Invariance == Spec => []IInv
  BY InitIInv, NextIInv, PTL DEF Spec

(* The state of the service and of its tables keeps its types, whatever    *)
(* the requests are and however they interleave with faults.               *)
THEOREM TypeCorrectness == Spec => []TypeOK
  <1>1. IInv => TypeOK
    BY DEF IInv
  <1> QED BY <1>1, Invariance, PTL

(* respond and updateStatus notify after their writes, so that nobody is   *)
(* told of an answer that cannot be read.                                  *)
THEOREM NotesTrue == Spec => []NotesAreTrue
  <1>1. IInv => NotesAreTrue
    BY DEF IInv
  <1> QED BY <1>1, Invariance, PTL

(* An entry in the audit log proves that its request took full effect and  *)
(* that everybody concerned was notified.                                  *)
THEOREM AuditComplete == Spec => []AuditIsComplete
  <1>1. IInv => AuditIsComplete
    BY DEF IInv
  <1> QED BY <1>1, Invariance, PTL

(* The checks of create, updateStatus and respond keep staff and residents *)
(* to mahallas they belonged to during the request, although users move.   *)
THEOREM HomeGround == Spec => []ActedAtHome
  <1>1. IInv => ActedAtHome
    BY DEF IInv
  <1> QED BY <1>1, Invariance, PTL

(* The previous status in the audit log is one the complaint had while the *)
(* request ran.                                                            *)
THEOREM OldStatusHeld == Spec => []OldStatusWasHeld
  <1>1. IInv => OldStatusWasHeld
    BY DEF IInv
  <1> QED BY <1>1, Invariance, PTL

(* The conditional updateMany of create and its counterparts elsewhere     *)
(* give a media file one owner record.                                     *)
THEOREM MediaOnce == Spec => []MediaHeldOnce
  <1>1. IInv => MediaHeldOnce
    BY DEF IInv
  <1> QED BY <1>1, Invariance, PTL

(* A complaint keeps the files it shows.                                   *)
THEOREM MediaKept == Spec => MediaStay
  <1>1. ASSUME IInv, [Next]_vars
        PROVE  [\A m \in Media : attached[m] # {} => attached'[m] = attached[m]]_vars
    <2>1. TypeOK /\ OperationOK
      BY <1>1 DEF IInv
    <2>2. ASSUME NEW r \in Creates, LinkMedia(r), NEW m \in Media, attached[m] # {}
          PROVE  attached'[m] = attached[m]
      BY <2>2 DEF LinkMedia, Linkable
    <2>3. ASSUME NEW n \in Media, TakeMedia(n) \/ ReleaseMedia(n) PROVE attached' = attached
      BY <2>3 DEF TakeMedia, ReleaseMedia
    <2> QED BY <1>1, <2>1, <2>2, <2>3, MediaSteps DEF media
  <1> QED BY <1>1, Invariance, PTL DEF Spec, MediaStay
-----------------------------------------------------------------------------
(***************************************************************************)
(* Complaints implements ComplaintContract.                                *)
(***************************************************************************)
Log == {e.request : e \in audit}

OutcomeAt(p) ==
    IF p = "unsent" THEN "none" ELSE IF p \in Waits THEN "open"
    ELSE IF p = "lost" THEN "failed" ELSE p

(* A request is answered only when it is in the audit log.                 *)
Logged == \A r \in Requests : pc[r] \in {"reading-back", "done"} => r \in Log

(* An audit entry adds its request to the log. *)
LEMMA LogSteps ==
    ASSUME TypeOK, NEW r \in Requests, LogEntry(r)
    PROVE  Log' = Log \cup {r}
  <1>1. Entry(r).request = r
    BY EntryType DEF TypeOK
  <1> QED BY <1>1 DEF LogEntry, Log

(* A request is answered only when it is in the log. *)
LEMMA LoggedStep ==
    ASSUME TypeOK, OperationOK, Logged, [Next]_vars
    PROVE  Logged'
  <1> SUFFICES ASSUME NEW q \in Requests, pc'[q] \in {"reading-back", "done"} PROVE q \in Log'
    BY DEF Logged
  <1>0. ASSUME NEW p, Goto(q, p) PROVE pc'[q] = p
    BY <1>0 DEF Goto, TypeOK, ProcessTypeOK
  <1>1. Log \subseteq Log'
    <2>1. ASSUME NEW r \in Requests, Effect(r) PROVE audit \subseteq audit'
      BY <2>1 DEF Effect, InsertRow, LinkMedia, UpdateRow, RecordRow, LogEntry
    <2>2. audit \subseteq audit'
      BY <2>1, TableSteps
    <2> QED BY <2>2 DEF Log
  <1>2. CASE Audit(q)
    BY <1>2, LogSteps DEF Audit
  <1>3. CASE ReadBack(q) \/ pc'[q] = pc[q]
    BY <1>1, <1>3 DEF ReadBack, Logged
  <1>4. CASE ReadActor(q) \/ Insert(q) \/ Link(q)
    BY <1>0, <1>4 DEF ReadActor, Insert, Link
  <1>5. CASE ReadComplaint(q) \/ CheckStaff(q)
    BY <1>0, <1>5 DEF ReadComplaint, CheckStaff
  <1>6. CASE Write(q) \/ Record(q) \/ ReadAdmins(q)
    BY <1>0, <1>6 DEF Write, Record, NotifyOwner, ReadAdmins
  <1> QED BY <1>2, <1>3, <1>4, <1>5, <1>6, Control DEF AfterNotifying

(* The refinement mapping, one request at a time. *)
LEMMA OutcomeIs == \A r \in Requests : Outcome[r] = OutcomeAt(pc[r])
  BY DEF Outcome, OutcomeAt

(* The outcome of a request changes with its place. *)
LEMMA OutcomeStep ==
    ASSUME TypeOK, NEW r \in Requests, NEW p \in Pcs, Goto(r, p)
    PROVE  Outcome' = [Outcome EXCEPT ![r] = OutcomeAt(p)]
  BY DEF Goto, Outcome, OutcomeAt, TypeOK, ProcessTypeOK

(* It stays when the two places have the same. *)
LEMMA OutcomeStays ==
    ASSUME TypeOK, NEW r \in Requests, NEW p \in Pcs, Goto(r, p),
           OutcomeAt(p) = OutcomeAt(pc[r])
    PROVE  Outcome' = Outcome
  <1>1. Outcome' = [Outcome EXCEPT ![r] = Outcome[r]]
    BY OutcomeStep, OutcomeIs
  <1> QED BY <1>1 DEF Outcome

(* A change applied is a change of the contract. *)
LEMMA ChangeRefines ==
    ASSUME TypeOK, OperationOK, ChangeExplained, RowsExplained, NEW r \in Requests,
           \/ pc[r] = "inserting" /\ InsertRow(r)
           \/ pc[r] = "writing" /\ UpdateRow(r)
    PROVE  Contract!Change(r)
  <1>0. r \notin applied
    BY DEF ChangeExplained, BeforeChange
  <1>1. CASE pc[r] = "inserting" /\ InsertRow(r)
    <2>1. r \in Creates /\ r \notin Responds /\ ComplaintOf[r] = r
      BY <1>1, OperationsAreDisjoint, RequestTypes DEF OperationOK
    <2>2. status[ComplaintOf[r]] = "ABSENT"
      BY <1>0, <2>1 DEF RowsExplained
    <2>3. answer' = [c \in Creates |-> IF r \in Responds /\ c = ComplaintOf[r]
                                       THEN {r} ELSE answer[c]]
      BY <1>1, <2>1 DEF InsertRow, TypeOK, ComplaintsTypeOK
    <2> QED BY <1>0, <1>1, <2>1, <2>2, <2>3 DEF InsertRow, WriteStatus, Contract!Change
  <1>2. CASE pc[r] = "writing" /\ UpdateRow(r)
    <2>1. r \notin Creates
      BY <1>2 DEF OperationOK
    <2>2. status[ComplaintOf[r]] # "ABSENT"
      BY <1>2, RequestTypes DEF RowsExplained
    <2> QED BY <1>0, <1>2, <2>1, <2>2 DEF UpdateRow, WriteStatus, Contract!Change
  <1> QED BY <1>1, <1>2

(* Every step is one of the contract or a stutter. *)
LEMMA RefinementStep ==
    ASSUME IInv, Logged, [Next]_vars
    PROVE  [Contract!Next]_<<status, answer, Outcome, applied, Log>>
  <1> DEFINE Steps == Contract!Next \/ UNCHANGED <<status, answer, Outcome, applied, Log>>
             Same  == UNCHANGED <<status, answer, applied, Log>>
  <1> SUFFICES Steps
    OBVIOUS
  <1>0. Contract!Requests = Requests
    BY DEF Requests, Contract!Requests
  <1>a. TypeOK /\ OperationOK /\ ChangeExplained /\ RowsExplained
    BY DEF IInv
  <1>b. UNCHANGED <<complaints, audit, applied>> => Same
    BY DEF complaints, Log
  <1>1. ASSUME NEW r \in Requests, Call(r) PROVE Steps
    <2>1. PICK p \in Waits : Goto(r, p)
      BY <1>1 DEF Call, Waits
    <2>2. Outcome' = [Outcome EXCEPT ![r] = "open"] /\ Outcome[r] = "none"
      BY <1>1, <1>a, <2>1, OutcomeStep, OutcomeIs DEF Call, OutcomeAt, Pcs, Waits
    <2> QED BY <1>0, <1>1, <1>b, <2>2 DEF Call, Contract!Next, Contract!Begin
  <1>2. ASSUME NEW r \in Requests, NEW p \in Pcs, Goto(r, p), pc[r] \in Waits,
               UNCHANGED <<complaints, audit, applied>>,
               p \in Waits \/ (p = "refused" /\ pc[r] \in BeforeChange) \/ p = "failed"
        PROVE  Steps
    <2>1. Outcome[r] = "open" /\ Outcome' = [Outcome EXCEPT ![r] = OutcomeAt(p)]
      BY <1>2, <1>a, OutcomeStep, OutcomeIs DEF OutcomeAt, Waits
    <2>2. CASE p \in Waits
      <3>1. Outcome' = Outcome
        BY <1>2, <1>a, <2>2, OutcomeStays DEF OutcomeAt, Waits
      <3> QED BY <1>2, <1>b, <3>1
    <2>3. CASE p = "refused" /\ pc[r] \in BeforeChange
      <3>1. r \notin applied /\ OutcomeAt(p) = "refused"
        BY <1>a, <2>3 DEF ChangeExplained, OutcomeAt, Waits
      <3> QED BY <1>0, <1>2, <1>b, <2>1, <3>1 DEF Contract!Next, Contract!Refuse, Contract!End
    <2>4. CASE p = "failed"
      <3>1. OutcomeAt(p) = "failed"
        BY <2>4 DEF OutcomeAt, Waits
      <3> QED BY <1>0, <1>2, <1>b, <2>1, <3>1 DEF Contract!Next, Contract!Fail, Contract!End
    <2> QED BY <1>2, <2>2, <2>3, <2>4
  <1>3. ASSUME NEW r \in Requests, ReadActor(r) \/ ReadComplaint(r) \/ CheckStaff(r) PROVE Steps
    <2>1. PICK p \in {"inserting", "checking-staff", "writing", "refused"} : Goto(r, p)
      BY <1>3 DEF ReadActor, ReadComplaint, CheckStaff
    <2>2. p \in Pcs /\ (p \in Waits \/ p = "refused")
      BY DEF Pcs, Waits, Ends
    <2>3. pc[r] \in Waits \cap BeforeChange /\ UNCHANGED <<complaints, audit, applied>>
      BY <1>3 DEF ReadActor, ReadComplaint, CheckStaff, Waits, BeforeChange
    <2> QED BY <1>2, <2>1, <2>2, <2>3
  <1>4. ASSUME NEW r \in Requests, Insert(r) \/ Write(r) PROVE Steps
    <2>1. Contract!Change(r)
      BY <1>4, <1>a, ChangeRefines DEF Insert, Write
    <2>2. pc[r] \in Waits /\ UNCHANGED audit
      BY <1>4 DEF Insert, Write, InsertRow, UpdateRow, Waits
    <2>3. PICK p \in Waits : Goto(r, p)
      BY <1>4 DEF Insert, Write, NotifyOwner, Waits
    <2>4. Outcome[r] = "open" /\ Outcome' = Outcome
      BY <1>a, <2>2, <2>3, OutcomeIs, OutcomeStays DEF OutcomeAt, Pcs, Waits
    <2> QED BY <1>0, <2>1, <2>4 DEF Contract!Next, Contract!Apply
  <1>5. ASSUME NEW r \in Requests, Link(r) \/ Record(r) \/ ReadAdmins(r) PROVE Steps
    <2>1. UNCHANGED <<status, answer, audit, applied>> /\ pc[r] \in Waits
      BY <1>5 DEF Link, LinkMedia, Record, RecordRow, ReadAdmins, complaints, Waits
    <2>2. PICK p \in Waits : Goto(r, p)
      BY <1>5 DEF Link, Record, NotifyOwner, ReadAdmins, Waits
    <2>3. Outcome' = Outcome
      BY <1>a, <2>1, <2>2, OutcomeStays DEF OutcomeAt, Pcs, Waits
    <2> QED BY <2>1, <2>3 DEF Log
  <1>6. ASSUME NEW r \in Requests, ReadBack(r) PROVE Steps
    <2>1. r \in applied /\ r \in Log
      BY <1>6, <1>a DEF ReadBack, ChangeExplained, AfterChange, Logged
    <2>2. Outcome[r] = "open" /\ Outcome' = [Outcome EXCEPT ![r] = "done"]
      BY <1>6, <1>a, OutcomeIs, OutcomeStep DEF ReadBack, OutcomeAt, Pcs, Waits, Ends
    <2>3. Same
      BY <1>6, <1>b DEF ReadBack
    <2> QED BY <1>0, <2>1, <2>2, <2>3
            DEF Contract!Next, Contract!Finish, Contract!End, Contract!Record, Log
  <1>c. ASSUME NEW r \in Requests, pc[r] = "auditing", LogEntry(r) PROVE Contract!Record(r)
    <2>1. r \in applied
      BY <1>a, <1>c DEF ChangeExplained, AfterChange
    <2> QED BY <1>a, <1>c, <2>1, LogSteps DEF LogEntry, complaints, Contract!Record, Log
  <1>7. ASSUME NEW r \in Requests, Audit(r) PROVE Steps
    <2>1. Contract!Record(r) /\ Outcome[r] = "open"
      BY <1>7, <1>c, OutcomeIs DEF Audit, OutcomeAt, Waits
    <2>2. CASE r \in Creates
      <3>1. Outcome' = Outcome
        BY <1>7, <1>a, <2>2, OutcomeStays DEF Audit, OutcomeAt, Pcs, Waits
      <3> QED BY <1>0, <2>1, <3>1 DEF Contract!Next, Contract!Log
    <2>3. CASE r \notin Creates
      <3>1. Outcome' = [Outcome EXCEPT ![r] = "done"]
        BY <1>7, <1>a, <2>3, OutcomeStep DEF Audit, OutcomeAt, Pcs, Waits, Ends
      <3> QED BY <1>0, <2>1, <3>1 DEF Contract!Next, Contract!Finish, Contract!End
    <2> QED BY <2>2, <2>3
  <1>8. ASSUME NEW r \in Requests, CallFails(r) PROVE Steps
    <2>1. Outcome[r] = "open" /\ Outcome' = [Outcome EXCEPT ![r] = "failed"]
      BY <1>8, <1>a, OutcomeIs, OutcomeStep DEF CallFails, OutcomeAt, Pcs, Waits, Ends
    <2>2. ASSUME Effect(r) PROVE Contract!Change(r) \/ Contract!Record(r) \/ Same
      <3>1. CASE LinkMedia(r) \/ RecordRow(r)
        BY <3>1 DEF LinkMedia, RecordRow, complaints, Log
      <3> QED BY <1>a, <1>c, <2>2, <3>1, ChangeRefines DEF Effect
    <2>3. Contract!Change(r) \/ Contract!Record(r) \/ Same
      BY <1>8, <1>b, <2>2 DEF CallFails
    <2> QED BY <1>0, <2>1, <2>3 DEF Contract!Next, Contract!Fail, Contract!End, Log
  <1>9. ASSUME NEW x \in inFlight, NotifyStep(x) PROVE Steps
    <2>1. x.request \in Requests
      BY <1>a, NoteFields DEF TypeOK, ProcessTypeOK
    <2>2. UNCHANGED <<complaints, audit, applied>>
      BY <1>9 DEF NotifyStep, NotifyResolves, NotifyRejects
    <2>3. PICK p \in Pcs : /\ Goto(x.request, p)
                           /\ \/ p = pc[x.request]
                              \/ pc[x.request] \in Waits /\ p \in Waits \cup {"failed"}
      <3>1. pc[x.request] \in Pcs
        BY <1>a, <2>1 DEF TypeOK, ProcessTypeOK, Pcs
      <3>2. AfterNotifying(x.request) \in Waits /\ "failed" \in Pcs /\ Waits \subseteq Pcs
        BY DEF AfterNotifying, Waits, Pcs, Ends
      <3>3. {"notifying-owner", "notifying-admins"} \subseteq Waits
        BY DEF Waits
      <3> QED BY <1>9, <3>1, <3>2, <3>3 DEF NotifyStep, NotifyResolves, NotifyRejects
    <2>4. CASE p = pc[x.request]
      <3>1. Outcome' = Outcome
        BY <1>a, <2>1, <2>3, <2>4, OutcomeStays
      <3> QED BY <1>b, <2>2, <3>1
    <2>5. CASE pc[x.request] \in Waits /\ p \in Waits \cup {"failed"}
      BY <1>2, <2>1, <2>2, <2>3, <2>5
    <2> QED BY <2>3, <2>4, <2>5
  <1>10. CASE Crash
    <2>1. Outcome' = [r \in Requests |-> IF Outcome[r] = "open" THEN "failed" ELSE Outcome[r]]
      BY <1>10, <1>a DEF Crash, Outcome, TypeOK, ProcessTypeOK, Waits, Ends
    <2>2. Same
      BY <1>10, <1>b DEF Crash
    <2> QED BY <1>0, <2>1, <2>2 DEF Contract!Next, Contract!FailAll, Log
  <1>11. CASE Environment \/ Rest \/ UNCHANGED vars
    <2>1. UNCHANGED <<complaints, audit, applied, pc>>
      BY <1>11 DEF Environment, Move, ChangeAdmins, TakeMedia, ReleaseMedia, Rest, vars
    <2> QED BY <1>b, <2>1 DEF Outcome
  <1> QED BY <1>1, <1>3, <1>4, <1>5, <1>6, <1>7, <1>8, <1>9, <1>10, <1>11
          DEF Next, RequestStep, CreateStep, ChangeStep, RespondStep

(* Complaints implements its contract: each request takes effect at one    *)
(* instant or not at all, a refused one changes nothing, and one that is   *)
(* answered is in the audit log.                                           *)
THEOREM Refinement == Spec => ImplementsContract
  <1>1. Init => Contract!Init /\ Logged
    <2> SUFFICES ASSUME Init PROVE Contract!Init /\ Logged
      OBVIOUS
    <2>1. \A r \in Requests : pc[r] = "unsent"
      BY DEF Init
    <2>2. Logged
      BY <2>1 DEF Logged
    <2>3. Outcome = [r \in Requests |-> "none"]
      BY <2>1 DEF Outcome
    <2> QED BY <2>2, <2>3 DEF Init, Contract!Init, Contract!Requests, Requests
  <1>2. IInv /\ Logged /\ [Next]_vars => Logged'
    BY LoggedStep DEF IInv
  <1>3. IInv /\ Logged /\ [Next]_vars
           => [Contract!Next]_<<status, answer, Outcome, applied, Log>>
    BY RefinementStep
  <1> QED BY <1>1, <1>2, <1>3, Invariance, PTL DEF Spec, ImplementsContract, Contract!Spec, Log
=============================================================================
