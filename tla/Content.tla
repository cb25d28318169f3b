------------------------------- MODULE Content -------------------------------
(***************************************************************************)
(* PostsService, EventsService, ReportsService, RatingsService and         *)
(* MediaService: what a mahalla publishes.                                 *)
(*                                                                         *)
(* A post, event or media file is named by the request that creates it.    *)
(* One month: a report, which a unique index keeps to one for each mahalla *)
(* and month, is named by its mahalla.  An item of a report is <<r, i>>,   *)
(* the i-th that r creates.  Nothing here is ever given a deletedAt.       *)
(***************************************************************************)
EXTENDS Handlers, Sequences

CONSTANTS
    Mahallas, Users,
    OpOf, ActorOf, RoleOf,  \* the operation of a request, its user, the role in its token
    AskedOf,     \* the mahallaId in a request, in a set
    ThingOf,     \* the post, event or report in a request, in a set
    StatusOf,    \* the status in a request, or DRAFT
    ItemsOf,     \* the number of items in a report request
    FilesOf,     \* the media files in a request, for each of its items
    Malformed,   \* the requests whose month is not YYYY-MM
    TooLarge,    \* the uploads of more than MAX_FILE_SIZE_BYTES
    FirstHomes,  \* the users' mahallas at first
    MaxMoves     \* bound: the changes of a user's mahalla

Optional(S) == {{}} \cup {{x} : x \in S}

(* Ids are of their own: those of a new row are not those of another, and  *)
(* what is changed or rated is named in the path of the request.           *)
ASSUME ContentAssumption ==
    /\ OpOf \in [Requests -> {"post", "event", "report", "publish", "archive", "eventStatus",
                              "rate", "upload", "posts", "events", "reports"}]
    /\ ActorOf \in [Requests -> Users]
    /\ AskedOf \in [Requests -> Optional(Mahallas)]
    /\ ItemsOf \in [Requests -> Nat]
    /\ FirstHomes \in [Users -> Optional(Mahallas)]
    /\ Requests \cap Mahallas = {}
    /\ \A r \in Requests :
          /\ OpOf[r] \in {"publish", "archive", "eventStatus"} => \E x \in Requests : ThingOf[r] = {x}
          /\ OpOf[r] = "rate" => ThingOf[r] \subseteq Mahallas
    /\ MaxMoves \in Nat

VARIABLES
    home,        \* home[u]: the mahalla of user u, in a set
    thing,       \* the rows of Post, Event, MonthlyReport: [kind, at, status] by name
    items,       \* the rows of ReportItem: [of, item]
    ratings,     \* the rows of Rating: [by, of]
    files,       \* the rows of MediaFile: files[f], the post, as <<r, 0>>, or item it is linked to, in a set
    log,         \* the audit entries about posts, events and reports, in order
    chosen,      \* chosen[r]: mahallaId of the create or query, in a set
    made,        \* made[r]: the items created so far
    view,        \* view[r]: what a list was answered with
    homes,       \* observation: homes[r], what home[u] of r's user u was meanwhile
    wrote,       \* observation: wrote[r], the row r created or updated, in a set
    submitted,   \* observation: submitted[r], the reports SUBMITTED meanwhile
    moves

rows     == <<thing, items, ratings, files, log>>
progress == <<chosen, made, view>>
noted    == <<homes, wrote, submitted, moves>>
vars     == <<home, rows, progress, noted, control>>

Waits == {"reading-actor", "creating", "upserting", "adding-item", "linking",
          "reading-thing", "writing-status", "reading-report", "rating",
          "storing-file", "listing", "auditing", "reading-back"}

Init ==
    /\ home      = FirstHomes
    /\ thing     = [x \in {} |-> {}]
    /\ items     = {}
    /\ ratings   = {}
    /\ files     = [f \in {} |-> {}]
    /\ log       = <<>>
    /\ chosen    = [r \in Requests |-> {}]
    /\ made      = [r \in Requests |-> 0]
    /\ view      = [r \in Requests |-> {}]
    /\ homes     = [r \in Requests |-> {}]
    /\ wrote     = [r \in Requests |-> {}]
    /\ submitted = [r \in Requests |-> {}]
    /\ moves     = 0
    /\ ControlInit

Put(f, x, y) == [z \in DOMAIN f \cup {x} |-> IF z = x THEN y ELSE f[z]]

Kind(r) == CASE OpOf[r] \in {"post", "posts"}     -> "post"
             [] OpOf[r] \in {"event", "events"}   -> "event"
             [] OpOf[r] \in {"report", "reports"} -> "report"

Creates(r)  == OpOf[r] \in {"post", "event", "report"}
Lists(r)    == OpOf[r] \in {"posts", "events", "reports"}
Changes(r)  == OpOf[r] \in {"publish", "archive", "eventStatus"}
Governs(r)  == RoleOf[r] \in {"ADMIN", "SUPER_ADMIN"}

(* The reports that are SUBMITTED after a step are so for those under way. *)
SubmittedNow  == {x \in DOMAIN thing : thing[x].kind = "report" /\ thing[x].status = "SUBMITTED"}
NoteSubmitted == submitted' = [r \in Requests |->
                    IF r \in Sent' \ Ended' THEN submitted[r] \cup SubmittedNow' ELSE submitted[r]]
-----------------------------------------------------------------------------
Call(r) ==
    /\ Arrive(r, CASE Creates(r) -> "reading-actor"
                   [] Changes(r) -> "reading-thing"
                   [] OpOf[r] = "rate"   -> "reading-report"
                   [] OpOf[r] = "upload" -> IF r \in TooLarge THEN "refused" ELSE "storing-file"
                   [] Lists(r)   -> IF ~Governs(r) THEN "reading-actor"
                                    ELSE IF r \in Malformed THEN "refused" ELSE "listing")
    /\ chosen' = [chosen EXCEPT ![r] = IF Lists(r) THEN AskedOf[r] ELSE {}]
    /\ homes'  = [homes EXCEPT ![r] = {home[ActorOf[r]]}]
    /\ UNCHANGED <<home, rows, made, view, wrote, moves>>
    /\ NoteSubmitted

(* Administrators choose a mahalla, or have their own.                     *)
MayChoose(r, own) == IF Governs(r) /\ AskedOf[r] # {} THEN AskedOf[r] ELSE own

(* Mutation: the mahalla asked for replaces the reader's.                  *)
Narrowed_Asked(r, own) == IF AskedOf[r] # {} THEN AskedOf[r] ELSE own

(* The reader's mahalla replaces the one asked for, if there is one or it  *)
(* is not about posts.                                                     *)
Narrowed(r, own) == IF own = {} /\ Kind(r) = "post" THEN AskedOf[r] ELSE own

ReadActor(r) ==
    LET own == home[ActorOf[r]] IN
    /\ IF Lists(r)
       THEN /\ Step(r, "reading-actor", IF r \in Malformed THEN "refused" ELSE "listing")
            /\ chosen' = [chosen EXCEPT ![r] = Narrowed(r, own)]
       ELSE /\ Step(r, "reading-actor", IF MayChoose(r, own) = {} \/ r \in Malformed
                                        THEN "refused"
                                        ELSE IF OpOf[r] = "report" THEN "upserting" ELSE "creating")
            /\ chosen' = [chosen EXCEPT ![r] = MayChoose(r, own)]
    /\ UNCHANGED <<home, rows, made, view, noted>>

At(r) == CHOOSE m \in chosen[r] : TRUE

AfterLinking(r) ==
    IF OpOf[r] = "report" /\ made[r] < ItemsOf[r] THEN "adding-item" ELSE "auditing"

Create(r) ==
    /\ Resolve(r, "creating", IF FilesOf[r] # {} THEN "linking" ELSE "auditing")
    /\ thing' = Put(thing, r, [kind |-> Kind(r), at |-> At(r),
                               status |-> IF Kind(r) = "post" THEN "DRAFT" ELSE "PLANNED"])
    /\ wrote' = [wrote EXCEPT ![r] = {r}]
    /\ UNCHANGED <<home, items, ratings, files, log, progress, homes, submitted, moves>>

(* Mutation: the items there are stay.                                     *)
KeptItems_All(r) == items

KeptItems(r) == {i \in items : i.of # At(r)}

(* One transaction: the files of the deleted items are linked to nothing.  *)
Upsert(r) ==
    /\ Resolve(r, "upserting", AfterLinking(r))
    /\ thing' = Put(thing, At(r), [kind |-> "report", at |-> At(r), status |-> StatusOf[r]])
    /\ items' = KeptItems(r)
    /\ files' = [f \in DOMAIN files |-> files[f] \ {i.item : i \in items \ items'}]
    /\ wrote' = [wrote EXCEPT ![r] = {At(r)}]
    /\ NoteSubmitted
    /\ UNCHANGED <<home, ratings, log, progress, homes, moves>>

AddItem(r) ==
    LET n == made[r] + 1 IN
    /\ pc[r] = "adding-item"
    /\ items' = items \cup {[of |-> At(r), item |-> <<r, n>>]}
    /\ made'  = [made EXCEPT ![r] = n]
    /\ Resolve(r, "adding-item", IF FilesOf[r] # {} THEN "linking" ELSE AfterLinking(r)')
    /\ UNCHANGED <<home, thing, ratings, files, log, chosen, view, noted>>

(* Only the actor's files that are linked to nothing.                      *)
Link(r) ==
    LET x == <<r, made[r]>> IN
    /\ Resolve(r, "linking", AfterLinking(r))
    /\ files' = [f \in DOMAIN files |->
                    IF f \in FilesOf[r] /\ ActorOf[f] = ActorOf[r] /\ files[f] = {}
                    THEN {x} ELSE files[f]]
    /\ UNCHANGED <<home, thing, items, ratings, log, progress, noted>>
-----------------------------------------------------------------------------
(* publish, archive and updateStatus                                       *)
ReadThing(r) ==
    /\ Step(r, "reading-thing", IF ThingOf[r] \subseteq DOMAIN thing THEN "writing-status"
                                                                    ELSE "refused")
    /\ UNCHANGED <<home, rows, progress, noted>>

WriteStatus(r) ==
    LET x == CHOOSE y \in ThingOf[r] : TRUE IN
    /\ Resolve(r, "writing-status", "auditing")
    /\ thing' = [thing EXCEPT ![x].status = StatusOf[r]]
    /\ wrote' = [wrote EXCEPT ![r] = {x}]
    /\ UNCHANGED <<home, items, ratings, files, log, progress, homes, submitted, moves>>

(* Mutation: a draft can be rated.                                         *)
Ratable_Draft(r) == ThingOf[r] \subseteq DOMAIN thing

Ratable(r) == ThingOf[r] \subseteq SubmittedNow

ReadReport(r) ==
    /\ Step(r, "reading-report", IF Ratable(r) THEN "rating" ELSE "refused")
    /\ UNCHANGED <<home, rows, progress, noted>>

(* The unique index allows a user one rating of a report.                  *)
Rate(r) ==
    LET rating == [by |-> ActorOf[r], of |-> ThingOf[r]] IN
    /\ IF \E q \in ratings : q.row = rating
       THEN Step(r, "rating", "refused") /\ UNCHANGED ratings
       ELSE /\ Resolve(r, "rating", "auditing")
            /\ ratings' = ratings \cup {[row |-> rating, req |-> r]}
    /\ UNCHANGED <<home, thing, items, files, log, progress, noted>>

StoreFile(r) ==
    /\ Resolve(r, "storing-file", "auditing")
    /\ files' = Put(files, r, {})
    /\ UNCHANGED <<home, thing, items, ratings, log, progress, noted>>

(* findAll: residents see what is published or submitted; events have no   *)
(* such status, and a user without a mahalla sees the posts of all.        *)
Shown(r, x) ==
    /\ thing[x].kind = Kind(r)
    /\ \/ chosen[r] = {} /\ (Governs(r) \/ Kind(r) = "post")
       \/ thing[x].at \in chosen[r]
    /\ RoleOf[r] = "RESIDENT" /\ Kind(r) # "event" => thing[x].status \in {"PUBLISHED", "SUBMITTED"}

List(r) ==
    /\ Step(r, "listing", "done")
    /\ view' = [view EXCEPT ![r] = {x \in DOMAIN thing : Shown(r, x)}]
    /\ UNCHANGED <<home, rows, chosen, made, noted>>

(* The status is what the entry's action or payload says.                  *)
Entry(r) ==
    [of |-> wrote[r], status |-> CASE OpOf[r] = "post" -> "DRAFT" [] OpOf[r] = "event" -> "PLANNED"
                                   [] OTHER -> StatusOf[r]]

(* Mutation: changes of a status have no entry.                            *)
Logged_Creations(r) == Creates(r)

Logged(r) == OpOf[r] \notin {"rate", "upload"}

Audit(r) ==
    /\ Resolve(r, "auditing", IF OpOf[r] \in {"post", "report"} THEN "reading-back" ELSE "done")
    /\ log' = IF Logged(r) THEN Append(log, Entry(r)) ELSE log
    /\ UNCHANGED <<home, thing, items, ratings, files, progress, noted>>

ReadBack(r) ==
    Step(r, "reading-back", "done") /\ UNCHANGED <<home, rows, progress, noted>>
-----------------------------------------------------------------------------
Fail(r) == Reject(r) /\ UNCHANGED <<home, rows, progress, noted>>

Crash == Die /\ UNCHANGED <<home, rows, progress, noted>>

(* UsersService moves a user.                                              *)
Move(u) ==
    /\ moves < MaxMoves
    /\ moves' = moves + 1
    /\ \E m \in Mahallas : home' = [home EXCEPT ![u] = {m}]
    /\ homes' = [r \in Requests |-> IF r \in UnderWay /\ ActorOf[r] = u
                                    THEN homes[r] \cup {home'[u]} ELSE homes[r]]
    /\ UNCHANGED <<rows, progress, wrote, submitted, control>>

Handle(r) ==
    \/ Call(r) \/ ReadActor(r) \/ Create(r) \/ Upsert(r) \/ AddItem(r) \/ Link(r)
    \/ ReadThing(r) \/ WriteStatus(r) \/ ReadReport(r) \/ Rate(r) \/ StoreFile(r)
    \/ List(r) \/ Audit(r) \/ ReadBack(r) \/ Fail(r)

Next == (\E r \in Requests : Handle(r)) \/ Crash \/ (\E u \in Users : Move(u))

Spec == Init /\ [][Next]_vars
-----------------------------------------------------------------------------
Names    == Requests \cup Mahallas
Statuses == {"DRAFT", "PLANNED"} \cup {StatusOf[r] : r \in Requests}

(* What the handlers of Content keep in their rows and variables.          *)
TypeOK ==
    /\ home  \in [Users -> Optional(Mahallas)]
    /\ thing \in [DOMAIN thing -> [kind : {"post", "event", "report"}, at : Mahallas,
                                   status : Statuses]]
    /\ items \subseteq [of : Mahallas, item : Requests \X Nat]
    /\ \A q \in ratings : q.row.by \in Users /\ q.row.of \subseteq Mahallas /\ q.req \in Requests
    /\ files \in [DOMAIN files -> Optional(Requests \X Nat)]
    /\ DOMAIN thing \subseteq Names /\ DOMAIN files \subseteq Requests
    /\ log \in Seq([of : SUBSET Names, status : Statuses])
    /\ chosen \in [Requests -> Optional(Mahallas)] /\ made \in [Requests -> Nat]
    /\ homes \in [Requests -> SUBSET Optional(Mahallas)]
    /\ view \in [Requests -> SUBSET Names] /\ wrote \in [Requests -> SUBSET Names]
    /\ submitted \in [Requests -> SUBSET Names]
    /\ moves \in 0 .. MaxMoves
    /\ ControlOK(Waits)

WritersOf(x) == {r \in Requests : x \in wrote[r]}

(* Requests wrote x one after the other, and all of them to their end.     *)
WrittenInTurn(x) ==
    /\ \A r \in WritersOf(x) : pc[r] = "done"
    /\ \A q, r \in WritersOf(x) : q = r \/ ~Overlap(q, r)

(* A report written in turn is that of one request, status and items.      *)
ReportIsWhole ==
    \A x \in DOMAIN thing : thing[x].kind = "report" /\ WrittenInTurn(x) =>
        \E r \in WritersOf(x) :
            /\ thing[x].status = StatusOf[r]
            /\ {i.item : i \in {j \in items : j.of = x}} = {<<r, n>> : n \in 1 .. ItemsOf[r]}

(* The last entry about what was written in turn tells its status.         *)
AuditTellsStatus ==
    \A x \in DOMAIN thing : WrittenInTurn(x) =>
        \E i \in DOMAIN log :
            /\ log[i] = [of |-> {x}, status |-> thing[x].status]
            /\ \A j \in DOMAIN log : log[j].of = {x} => j <= i

(* Residents and staff see the posts, events and reports of mahallas that  *)
(* were theirs while they asked, though not always of the one that is; but *)
(* who had none then may see any posts.                                    *)
ViewsAreOfHome ==
    \A r \in Requests :
        Lists(r) /\ ~Governs(r) /\ (Kind(r) = "post" => {} \notin homes[r]) =>
            \A x \in view[r] : thing[x].at \in UNION homes[r]

(* A rating is of a report that was submitted while its request ran.       *)
RatedWasSubmitted ==
    \A q \in ratings : q.row.of \subseteq submitted[q.req]
=============================================================================
