----------------------------- MODULE Complaints -----------------------------
(***************************************************************************)
(* ComplaintsService: create, updateStatus and respond, with the users,    *)
(* media files, notifications and audit entries they read and write.       *)
(*                                                                         *)
(* A request is one HTTP call with its parameters, made at most once; a    *)
(* complaint is named by the request that creates it.  Each await is a     *)
(* step, so requests about one complaint interleave at any of them, and    *)
(* meanwhile users are moved to other mahallas, administrators come and    *)
(* go, and posts and reports take media files.  notify is a call that      *)
(* resolves or rejects (module Notifications says what that means).        *)
(*                                                                         *)
(* A fault is a rejected database or Redis call, which may have taken      *)
(* effect, or the death of the process, which ends all requests.           *)
(***************************************************************************)
EXTENDS FiniteSets, Naturals

CONSTANTS
    Creates, Updates, Responds,  \* the requests, by operation
    ActorOf, RoleOf,             \* the user in a request's token, and the role there
    ComplaintOf,                 \* the complaint a request is about
    StatusOf,                    \* the status a request writes
    MahallaOf, MediaOf,          \* dto.mahallaId and dto.mediaIds of create
    Users, Admins,               \* all users; those who may be administrators
    Mahallas, None,
    Media, UploaderOf,
    MaxRequests, MaxMoves, MaxFaults  \* bounds on what happens in a behaviour

Requests == Creates \cup Updates \cup Responds
Status   == {"NEW", "IN_PROGRESS", "ANSWERED", "REJECTED"}
Staffed  == {"STAFF", "ADMIN", "SUPER_ADMIN"}

ASSUME OperationsAreDisjoint ==
    Creates \cap Updates = {} /\ Creates \cap Responds = {} /\ Updates \cap Responds = {}

(* What the validation pipe and the roles guard let through. *)
ASSUME RequestsAreValid ==
    /\ ActorOf \in [Requests -> Users]
    /\ RoleOf \in [Requests -> Staffed \cup {"RESIDENT"}]
    /\ \A r \in Updates \cup Responds : RoleOf[r] \in Staffed
    /\ ComplaintOf \in [Requests -> Creates]
    /\ \A r \in Creates : ComplaintOf[r] = r /\ StatusOf[r] = "NEW"
    /\ StatusOf \in [Requests -> Status]
    /\ \A r \in Responds : StatusOf[r] = "ANSWERED"
    /\ MahallaOf \in [Creates -> Mahallas \cup {None}]
    /\ MediaOf \in [Creates -> SUBSET Media]

ASSUME TableIsTyped ==
    Admins \subseteq Users /\ UploaderOf \in [Media -> Users] /\ None \notin Mahallas

ASSUME BoundsAreNat == MaxRequests \in Nat /\ MaxMoves \in Nat /\ MaxFaults \in Nat

VARIABLES
    \* the database
    status,     \* status[c], "ABSENT" before the insertion
    mahalla,    \* mahalla[c]: the complaint's mahallaId
    answer,     \* answer[c]: the request whose text is responseText, in a set
    responses,  \* the requests with a ComplaintResponse row
    attached,   \* attached[m]: the media file's complaintId, in a set
    elsewhere,  \* the media files with a postId or reportItemId
    belongs,    \* belongs[u]: the user's mahallaId
    adminIds,   \* the users with an administrator's role and no deletedAt
    created,    \* the notifications whose call of notify resolved
    audit,      \* the audit log
    \* the process
    pc,         \* pc[r]: the await request r is at, or how it ended
    home,       \* home[r]: create's mahallaId
    old,        \* old[r]: updateStatus's complaint.status
    told,       \* told[r]: respond's targetAdmins
    inFlight,   \* the calls of notify under way, those of ended requests too
    \* observation
    applied,    \* the requests that have changed their complaint
    been,       \* been[r]: the mahallas the actor belonged to during r
    held,       \* held[r]: the statuses the complaint had during r until r changed it
    moves, faults

complaints  == <<status, mahalla, answer, responses>>
media       == <<attached, elsewhere>>
people      == <<belongs, adminIds, been, moves>>
locals      == <<home, old, told>>
vars        == <<complaints, media, people, created, audit, pc, locals, inFlight,
                 applied, held, faults>>

Channels == {"IN_APP", "EMAIL"}
Note == [request : Requests, as : {"owner", "admin"}, user : Users, channel : Channels]

OwnerOf(r) == ActorOf[ComplaintOf[r]]
OwnerNotes(r) ==
    [request : {r}, as : {"owner"}, user : {OwnerOf(r)},
     channel : IF r \in Updates THEN {"IN_APP"} ELSE Channels]
AdminNotes(r, A) == [request : {r}, as : {"admin"}, user : A, channel : Channels]

AuditEntry == [request : Requests, old : Status \cup {"ABSENT"}, told : SUBSET Users]
Entry(r) == [request |-> r, old |-> old[r], told |-> told[r]]

Waits ==
    {"reading-actor", "inserting", "linking", "reading-back",           \* create
     "reading-complaint", "checking-staff", "writing",                  \* the others
     "notifying-owner",
     "recording", "reading-admins", "notifying-admins",                 \* respond
     "auditing"}                                                        \* all
Ends == {"done", "refused", "failed", "lost"}

Init ==
    /\ status    = [c \in Creates |-> "ABSENT"]
    /\ mahalla   = [c \in Creates |-> None]
    /\ answer    = [c \in Creates |-> {}]
    /\ responses = {}
    /\ attached  = [m \in Media |-> {}]
    /\ elsewhere = {}
    /\ belongs \in [Users -> Mahallas \cup {None}]
    /\ adminIds \in SUBSET Admins
    /\ created   = {}
    /\ audit     = {}
    /\ pc        = [r \in Requests |-> "unsent"]
    /\ home      = [r \in Requests |-> None]
    /\ old       = [r \in Requests |-> "ABSENT"]
    /\ told      = [r \in Requests |-> {}]
    /\ inFlight  = {}
    /\ applied   = {}
    /\ been      = [r \in Requests |-> {}]
    /\ held      = [r \in Requests |-> {}]
    /\ moves     = 0
    /\ faults    = 0

Fault == faults < MaxFaults /\ faults' = faults + 1

Goto(r, p) == pc' = [pc EXCEPT ![r] = p]
-----------------------------------------------------------------------------
(***************************************************************************)
(* A request arrives.                                                      *)
(***************************************************************************)
Call(r) ==
    /\ pc[r] = "unsent"
    /\ Cardinality({q \in Requests : pc[q] # "unsent"}) < MaxRequests
    /\ Goto(r, IF r \in Creates THEN "reading-actor" ELSE "reading-complaint")
    /\ been' = [been EXCEPT ![r] = {belongs[ActorOf[r]]}]
    /\ held' = [held EXCEPT ![r] = {status[ComplaintOf[r]]}]
    /\ UNCHANGED <<complaints, media, belongs, adminIds, created, audit, locals, inFlight,
                   applied, moves, faults>>

(***************************************************************************)
(* create                                                                  *)
(***************************************************************************)
MayChooseMahalla(r) == RoleOf[r] \in {"ADMIN", "SUPER_ADMIN"}

Chosen(r) == IF MayChooseMahalla(r) /\ MahallaOf[r] # None
             THEN MahallaOf[r] ELSE belongs[ActorOf[r]]

ReadActor(r) ==
    /\ pc[r] = "reading-actor"
    /\ home' = [home EXCEPT ![r] = Chosen(r)]
    /\ Goto(r, IF Chosen(r) = None THEN "refused" ELSE "inserting")
    /\ UNCHANGED <<complaints, media, people, created, audit, old, told, inFlight, applied,
                   held, faults>>

(* The status of the request's complaint is written. *)
WriteStatus(r) ==
    /\ status'  = [status EXCEPT ![ComplaintOf[r]] = StatusOf[r]]
    /\ applied' = applied \cup {r}
    /\ held'    = [q \in Requests |->
                      IF ComplaintOf[q] = ComplaintOf[r] /\ q \notin applied \cup {r}
                      THEN held[q] \cup {StatusOf[r]} ELSE held[q]]

InsertRow(r) ==
    /\ WriteStatus(r)
    /\ mahalla' = [mahalla EXCEPT ![r] = home[r]]
    /\ UNCHANGED <<answer, responses, media, audit>>

Insert(r) ==
    /\ pc[r] = "inserting"
    /\ InsertRow(r)
    /\ Goto(r, IF MediaOf[r] = {} THEN "auditing" ELSE "linking")
    /\ UNCHANGED <<people, created, locals, inFlight, faults>>

(* Mutations: the conditions of updateMany without those on complaintId,   *)
(* and without those on postId and reportItemId.                           *)
Linkable_Taken(r) ==
    {m \in MediaOf[r] : UploaderOf[m] = ActorOf[r] /\ m \notin elsewhere}
Linkable_Elsewhere(r) ==
    {m \in MediaOf[r] : UploaderOf[m] = ActorOf[r] /\ attached[m] = {}}

Linkable(r) ==
    {m \in MediaOf[r] : /\ UploaderOf[m] = ActorOf[r]
                        /\ attached[m] = {}
                        /\ m \notin elsewhere}

LinkMedia(r) ==
    /\ attached' = [m \in Media |-> IF m \in Linkable(r) THEN {r} ELSE attached[m]]
    /\ UNCHANGED <<complaints, elsewhere, audit, applied, held>>

Link(r) ==
    /\ pc[r] = "linking"
    /\ LinkMedia(r)
    /\ Goto(r, "auditing")
    /\ UNCHANGED <<people, created, locals, inFlight, faults>>

ReadBack(r) ==
    /\ pc[r] = "reading-back"
    /\ Goto(r, "done")
    /\ UNCHANGED <<complaints, media, people, created, audit, locals, inFlight, applied, held,
                   faults>>

(***************************************************************************)
(* updateStatus and respond: the complaint is read, the staff member's     *)
(* mahalla is compared with it, and the update that follows is             *)
(* unconditional.                                                          *)
(***************************************************************************)
IsStaff(r) == RoleOf[r] = "STAFF"

(* Mutation: the new status is recorded as the previous one. *)
ReadComplaint_NewStatus(r) ==
    /\ pc[r] = "reading-complaint"
    /\ old' = [old EXCEPT ![r] = StatusOf[r]]
    /\ Goto(r, IF status[ComplaintOf[r]] = "ABSENT" THEN "refused"
               ELSE IF IsStaff(r) THEN "checking-staff" ELSE "writing")
    /\ UNCHANGED <<complaints, media, people, created, audit, home, told, inFlight, applied,
                   held, faults>>

ReadComplaint(r) ==
    /\ pc[r] = "reading-complaint"
    /\ old' = [old EXCEPT ![r] = status[ComplaintOf[r]]]
    /\ Goto(r, IF status[ComplaintOf[r]] = "ABSENT" THEN "refused"
               ELSE IF IsStaff(r) THEN "checking-staff" ELSE "writing")
    /\ UNCHANGED <<complaints, media, people, created, audit, home, told, inFlight, applied,
                   held, faults>>

(* Mutation: the mahalla of the complaint is not compared. *)
CheckStaff_Any(r) ==
    /\ pc[r] = "checking-staff"
    /\ Goto(r, IF belongs[ActorOf[r]] = None THEN "refused" ELSE "writing")
    /\ UNCHANGED <<complaints, media, people, created, audit, locals, inFlight, applied, held,
                   faults>>

CheckStaff(r) ==
    /\ pc[r] = "checking-staff"
    /\ Goto(r, IF belongs[ActorOf[r]] \in {None} \cup (Mahallas \ {mahalla[ComplaintOf[r]]})
               THEN "refused" ELSE "writing")
    /\ UNCHANGED <<complaints, media, people, created, audit, locals, inFlight, applied, held,
                   faults>>

UpdateRow(r) ==
    /\ WriteStatus(r)
    /\ answer' = [c \in Creates |-> IF r \in Responds /\ c = ComplaintOf[r]
                                    THEN {r} ELSE answer[c]]
    /\ UNCHANGED <<mahalla, responses, media, audit>>

(* The owner is told unless the request is the owner's own. *)
NotifyOwner(r) ==
    IF OwnerOf(r) = ActorOf[r]
    THEN /\ Goto(r, IF r \in Responds THEN "reading-admins" ELSE "auditing")
         /\ UNCHANGED inFlight
    ELSE /\ Goto(r, "notifying-owner")
         /\ inFlight' = inFlight \cup OwnerNotes(r)

(* Mutation: respond notifies before it inserts the response. *)
Write_NotifiesFirst(r) ==
    /\ pc[r] = "writing"
    /\ UpdateRow(r)
    /\ NotifyOwner(r)
    /\ UNCHANGED <<people, created, locals, faults>>

Write(r) ==
    /\ pc[r] = "writing"
    /\ UpdateRow(r)
    /\ IF r \in Responds THEN Goto(r, "recording") /\ UNCHANGED inFlight ELSE NotifyOwner(r)
    /\ UNCHANGED <<people, created, locals, faults>>

RecordRow(r) ==
    /\ responses' = responses \cup {r}
    /\ UNCHANGED <<status, mahalla, answer, media, audit, applied, held>>

Record(r) ==
    /\ pc[r] = "recording"
    /\ RecordRow(r)
    /\ NotifyOwner(r)
    /\ UNCHANGED <<people, created, locals, faults>>

(* With no administrator there is no call of notify to await. *)
ReadAdmins(r) ==
    /\ pc[r] = "reading-admins"
    /\ told'     = [told EXCEPT ![r] = adminIds]
    /\ inFlight' = inFlight \cup AdminNotes(r, adminIds)
    /\ Goto(r, IF adminIds = {} THEN "auditing" ELSE "notifying-admins")
    /\ UNCHANGED <<complaints, media, people, created, audit, home, old, applied, held, faults>>

(***************************************************************************)
(* notify resolves; with the last of its calls notifyMany does.            *)
(***************************************************************************)
Awaited(r) == {x \in inFlight : x.request = r}

(* Mutation: updateStatus returns without its audit entry. *)
AfterNotifying_Returns(r) ==
    IF r \in Responds
    THEN IF pc[r] = "notifying-owner" THEN "reading-admins" ELSE "auditing"
    ELSE "done"

AfterNotifying(r) ==
    IF r \in Responds /\ pc[r] = "notifying-owner" THEN "reading-admins" ELSE "auditing"

(* Mutation: notifyMany resolves with the first of its calls. *)
NotifyResolves_First(x) ==
    /\ x \in inFlight
    /\ inFlight' = inFlight \ {x}
    /\ created'  = created \cup {x}
    /\ Goto(x.request, IF pc[x.request] \in {"notifying-owner", "notifying-admins"}
                       THEN AfterNotifying(x.request) ELSE pc[x.request])
    /\ UNCHANGED <<complaints, media, people, audit, locals, applied, held, faults>>

NotifyResolves(x) ==
    /\ x \in inFlight
    /\ inFlight' = inFlight \ {x}
    /\ created'  = created \cup {x}
    /\ Goto(x.request, IF pc[x.request] \in {"notifying-owner", "notifying-admins"}
                          /\ Awaited(x.request) = {x}
                       THEN AfterNotifying(x.request) ELSE pc[x.request])
    /\ UNCHANGED <<complaints, media, people, audit, locals, applied, held, faults>>

(***************************************************************************)
(* The audit entry, the last effect of every request.                      *)
(***************************************************************************)
LogEntry(r) ==
    /\ audit' = audit \cup {Entry(r)}
    /\ UNCHANGED <<complaints, media, applied, held>>

Audit(r) ==
    /\ pc[r] = "auditing"
    /\ LogEntry(r)
    /\ Goto(r, IF r \in Creates THEN "reading-back" ELSE "done")
    /\ UNCHANGED <<people, created, locals, inFlight, faults>>

(***************************************************************************)
(* Faults.  Nothing in the service catches a rejection.                    *)
(***************************************************************************)
Effect(r) ==
    \/ pc[r] = "inserting" /\ InsertRow(r)
    \/ pc[r] = "linking" /\ LinkMedia(r)
    \/ pc[r] = "writing" /\ UpdateRow(r)
    \/ pc[r] = "recording" /\ RecordRow(r)
    \/ pc[r] = "auditing" /\ LogEntry(r)

CallFails(r) ==
    /\ pc[r] \in Waits \ {"notifying-owner", "notifying-admins"}
    /\ Fault
    /\ Goto(r, "failed")
    /\ Effect(r) \/ UNCHANGED <<complaints, media, audit, applied, held>>
    /\ UNCHANGED <<people, created, locals, inFlight>>

NotifyRejects(x) ==
    /\ x \in inFlight
    /\ Fault
    /\ inFlight' = inFlight \ {x}
    /\ Goto(x.request, IF pc[x.request] \in Waits THEN "failed" ELSE pc[x.request])
    /\ UNCHANGED <<complaints, media, people, created, audit, locals, applied, held>>

Crash ==
    /\ Fault
    /\ pc' = [r \in Requests |-> IF pc[r] \in Waits THEN "lost" ELSE pc[r]]
    /\ inFlight' = {}
    /\ UNCHANGED <<complaints, media, people, created, audit, locals, applied, held>>

(***************************************************************************)
(* The rest of the system: users.update moves a user and makes or unmakes  *)
(* an administrator, posts and report items take media files, and a report *)
(* that is written again releases them.                                    *)
(***************************************************************************)
UserUpdate == moves < MaxMoves /\ moves' = moves + 1

Move(u, m) ==
    /\ UserUpdate
    /\ belongs' = [belongs EXCEPT ![u] = m]
    /\ been' = [r \in Requests |-> IF pc[r] \in Waits /\ ActorOf[r] = u
                                   THEN been[r] \cup {m} ELSE been[r]]
    /\ UNCHANGED <<complaints, media, adminIds, created, audit, pc, locals, inFlight, applied,
                   held, faults>>

ChangeAdmins(A) ==
    /\ UserUpdate
    /\ adminIds' = A
    /\ UNCHANGED <<complaints, media, belongs, been, created, audit, pc, locals,
                   inFlight, applied, held, faults>>

TakeMedia(m) ==
    /\ attached[m] = {}
    /\ elsewhere' = elsewhere \cup {m}
    /\ UNCHANGED <<complaints, attached, people, created, audit, pc, locals, inFlight, applied,
                   held, faults>>

ReleaseMedia(m) ==
    /\ elsewhere' = elsewhere \ {m}
    /\ UNCHANGED <<complaints, attached, people, created, audit, pc, locals, inFlight, applied,
                   held, faults>>

CreateStep(r)  == ReadActor(r) \/ Insert(r) \/ Link(r) \/ ReadBack(r)
ChangeStep(r)  == ReadComplaint(r) \/ CheckStaff(r) \/ Write(r)
RespondStep(r) == Record(r) \/ ReadAdmins(r)
RequestStep(r) == CreateStep(r) \/ ChangeStep(r) \/ RespondStep(r) \/ Audit(r) \/ CallFails(r)
NotifyStep(x)  == NotifyResolves(x) \/ NotifyRejects(x)

Environment ==
    \/ \E u \in Users, m \in Mahallas : Move(u, m)
    \/ \E A \in SUBSET Admins : ChangeAdmins(A)
    \/ \E m \in Media : TakeMedia(m) \/ ReleaseMedia(m)

(* The service is idle: the only state in which the system may stop. *)
Rest ==
    /\ \A r \in Requests : pc[r] \notin Waits
    /\ inFlight = {}
    /\ UNCHANGED vars

Next ==
    \/ \E r \in Requests : Call(r) \/ RequestStep(r)
    \/ \E x \in inFlight : NotifyStep(x)
    \/ Crash
    \/ Environment
    \/ Rest

Spec == Init /\ [][Next]_vars

(* A call to the database or to notify is answered or rejected in the end; *)
(* whether a request is ever made is up to the clients.                    *)
Fairness ==
    /\ \A r \in Requests : WF_vars(RequestStep(r))
    /\ \A x \in Note : WF_vars(NotifyStep(x))

FairSpec == Spec /\ Fairness
-----------------------------------------------------------------------------
ComplaintsTypeOK ==
    /\ status \in [Creates -> Status \cup {"ABSENT"}]
    /\ mahalla \in [Creates -> Mahallas \cup {None}]
    /\ answer \in [Creates -> SUBSET Responds]
    /\ responses \in SUBSET Responds
    /\ attached \in [Media -> SUBSET Creates]
    /\ elsewhere \in SUBSET Media
    /\ created \in SUBSET Note
    /\ audit \in SUBSET AuditEntry

PeopleTypeOK ==
    /\ belongs \in [Users -> Mahallas \cup {None}]
    /\ adminIds \in SUBSET Admins

ProcessTypeOK ==
    /\ pc \in [Requests -> Waits \cup Ends \cup {"unsent"}]
    /\ home \in [Requests -> Mahallas \cup {None}]
    /\ old \in [Requests -> Status \cup {"ABSENT"}]
    /\ told \in [Requests -> SUBSET Admins]
    /\ inFlight \in SUBSET Note

ObservationTypeOK ==
    /\ applied \in SUBSET Requests
    /\ been \in [Requests -> SUBSET (Mahallas \cup {None})]
    /\ held \in [Requests -> SUBSET (Status \cup {"ABSENT"})]
    /\ moves \in 0..MaxMoves
    /\ faults \in 0..MaxFaults

TypeOK == ComplaintsTypeOK /\ PeopleTypeOK /\ ProcessTypeOK /\ ObservationTypeOK

(* Nobody is told of what did not happen: when a notification of a request *)
(* exists, or may, its change is committed, and an answer it announces can *)
(* be read in the list of responses, whatever failed or crashed meanwhile. *)
NotesAreTrue ==
    \A x \in inFlight \cup created :
        x.request \in applied /\ (x.request \in Responds => x.request \in responses)

(* docs/poc-proof-of-concept-report.md:93, read backwards: an audit entry  *)
(* is proof that all the effects of its request took place and everybody   *)
(* it concerns has been told, although requests fail half way.             *)
AuditIsComplete ==
    \A e \in audit :
        /\ e.request \in applied
        /\ e.request \notin Creates /\ OwnerOf(e.request) # ActorOf[e.request]
              => OwnerNotes(e.request) \subseteq created
        /\ e.request \in Responds
              => e.request \in responses /\ AdminNotes(e.request, e.told) \subseteq created

(* A staff member changes complaints of a mahalla, and anybody but an      *)
(* administrator files them in one, only if they belonged to it while the  *)
(* request was under way.  That they still do when the change is written   *)
(* is not promised: they may be moved after the check.                     *)
ActedAtHome ==
    \A r \in applied :
        IF r \in Creates THEN ~MayChooseMahalla(r) => mahalla[r] \in been[r]
                         ELSE IsStaff(r) => mahalla[ComplaintOf[r]] \in been[r]

(* The previous status that an audit entry and a notification of           *)
(* updateStatus name was the complaint's at some moment of the request     *)
(* before its own change.  It need not be the one that was overwritten.    *)
OldStatusWasHeld ==
    \A e \in audit : e.request \in Updates => e.old \in held[e.request]

(* A media file belongs to one of a complaint, a post and a report item,   *)
(* three columns that only the conditions of the updates keep exclusive,   *)
(* and a complaint shows only files of the user who filed it.              *)
MediaHeldOnce ==
    \A m \in Media : attached[m] # {} => /\ m \notin elsewhere
                                        /\ \A c \in attached[m] : UploaderOf[m] = ActorOf[c]

(* No later request takes a file away from the complaint that shows it.    *)
MediaStay ==
    [][\A m \in Media : attached[m] # {} => attached'[m] = attached[m]]_vars

(***************************************************************************)
(* The inductive invariant.  Where a request is determines what it has     *)
(* done; the operation determines where it can be.                         *)
(***************************************************************************)
OperationOK ==
    \A r \in Requests :
        /\ pc[r] \in {"reading-actor", "inserting", "linking", "reading-back"} => r \in Creates
        /\ pc[r] \in {"reading-complaint", "checking-staff", "writing", "notifying-owner"}
              => r \notin Creates
        /\ pc[r] \in {"recording", "reading-admins", "notifying-admins"} => r \in Responds

BeforeChange ==
    {"unsent", "reading-actor", "inserting", "reading-complaint", "checking-staff", "writing",
     "refused"}
AfterChange ==
    {"linking", "reading-back", "notifying-owner", "recording", "reading-admins",
     "notifying-admins", "auditing", "done"}
AfterRecord == {"notifying-owner", "reading-admins", "notifying-admins", "auditing"}
AfterOwner  == {"reading-admins", "notifying-admins", "auditing"}

ChangeExplained ==
    \A r \in Requests :
        /\ pc[r] \in BeforeChange => r \notin applied
        /\ pc[r] \in AfterChange => r \in applied
        /\ r \in Responds /\ pc[r] \in AfterRecord => r \in responses

(* A complaint has a row exactly when its creation has been applied, and   *)
(* a request that was not refused is about one that has.                   *)
RowsExplained ==
    /\ \A c \in Creates : status[c] # "ABSENT" <=> c \in applied
    /\ \A r \in Requests :
           r \in applied \/ pc[r] \in {"checking-staff", "writing"} => ComplaintOf[r] \in applied

NotesExplained ==
    \A r \in Requests :
        /\ pc[r] = "notifying-owner" => OwnerNotes(r) \subseteq inFlight \cup created
        /\ pc[r] \in AfterOwner /\ r \notin Creates /\ OwnerOf(r) # ActorOf[r]
              => OwnerNotes(r) \subseteq created
        /\ pc[r] = "notifying-admins" => AdminNotes(r, told[r]) \subseteq inFlight \cup created
        /\ pc[r] = "auditing" /\ r \in Responds => AdminNotes(r, told[r]) \subseteq created

HomeExplained ==
    \A r \in Requests :
        /\ pc[r] \in Waits => belongs[ActorOf[r]] \in been[r]
        /\ pc[r] = "inserting" /\ ~MayChooseMahalla(r) => home[r] \in been[r]
        /\ pc[r] = "writing" /\ IsStaff(r) => mahalla[ComplaintOf[r]] \in been[r]

OldExplained ==
    \A r \in Requests :
        /\ pc[r] \in Waits /\ r \notin applied => status[ComplaintOf[r]] \in held[r]
        /\ pc[r] \in {"checking-staff", "writing", "notifying-owner", "auditing"} /\ r \in Updates
              => old[r] \in held[r]

IInv ==
    /\ TypeOK /\ OperationOK /\ ChangeExplained /\ RowsExplained /\ NotesExplained
    /\ HomeExplained /\ OldExplained
    /\ NotesAreTrue /\ AuditIsComplete /\ ActedAtHome /\ OldStatusWasHeld /\ MediaHeldOnce

Outcome ==
    [r \in Requests |-> IF pc[r] = "unsent" THEN "none"
                        ELSE IF pc[r] \in Waits THEN "open"
                        ELSE IF pc[r] = "lost" THEN "failed" ELSE pc[r]]

Contract == INSTANCE ComplaintContract
                WITH outcome <- Outcome, log <- {e.request : e \in audit}

(* Each request changes its complaint at one instant or not at all, as     *)
(* ComplaintContract says, however requests, faults and crashes interleave.*)
ImplementsContract == Contract!Spec

(* README.md:65: a full audit log of every change and decision.            *)
EveryChangeIsAudited ==
    \A r \in Requests : (r \in applied) ~> (\E e \in audit : e.request = r)

(* Only a rejected call or the death of the process leaves a change        *)
(* without its entry, no interleaving of requests does.                    *)
AuditedUnlessFaults == [](faults = 0) => EveryChangeIsAudited
=============================================================================
