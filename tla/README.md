# Verification of Mahalla Yettiligi

TLA+ models, model-checking runs and machine-checked proofs about this
repository: the NestJS backend (`src/`), in which residents of a mahalla (a
neighbourhood) file complaints, staff answer them, and overdue ones are
escalated to administrators, and the web client and panels over it
(`mahalla.v2/mahallacha/`). The modules are translated from the code; docs are
only used where a run or a remark compares the code with them.

## 1. The system

One Node process serves HTTP requests, runs a cron job and a queue worker, and
keeps its data in PostgreSQL (through Prisma) and Redis (through BullMQ).
Nothing runs in parallel inside the process, but every `await` gives way to
other requests, to the cron job and to the worker. Of the operations that write,
only `users.remove` uses a transaction. Docker restarts the process when it dies
(`docker-compose.yml:39`). The pages are React components whose event handlers
also run from one `await` to the next, and whose session is in the
`localStorage` that the tabs of a browser share. So the hard behaviour is the
same everywhere: several steps per operation, other operations between any two
of them, and a failure of any one of them after the earlier ones have been
committed.

| component | state | operations | interacts with | correct when | hard because |
|---|---|---|---|---|---|
| notifications | rows `Notification`, jobs in Redis | `notify`, `notifyMany`, worker `process` | called by complaints, sla, reports, ratings | a resolved call has a row and a job; an e-mail row ends SENT | a row and a job in two stores, a worker racing the caller, redelivery, crashes |
| sla | `escalationFlag`, `lastError` | cron `handleSlaEscalation`, `runEscalation`, `getHealth` | reads complaints and users, notifies, audits | flags only real breaches, tells the administrators, once | overlapping runs, a batch that fails half way, stale reads |
| complaints | rows `Complaint`, `ComplaintResponse`, media links | `create`, `updateStatus`, `respond`, `findAll` | users, media, notifications, audit, sla | changes by those entitled, told and audited truthfully | read, check and write in separate steps; the audit entry last |
| audit | rows `AuditLog` | `log`, `findAll` | called by most services | an entry says the truth | one of several effects of an operation |
| auth | OTP codes, refresh tokens (rows); rate windows, 2FA challenges (memory) | OTP request and verification per flow, 2FA, refresh, logout, registration | users, integrations (SMS), JWT | windows and attempts are bounded, codes, challenges and tokens used once, sessions end | checks before `bcrypt` awaits, memory lost in a restart, the edges of windows |
| users | rows `User`, `StaffProfile` | `create`, `update`, `remove` | mahallas, auth (tokens), audit | staff have exactly one profile; a removed user has no session | three writes without a transaction, profile decided on a stale read |
| mahallas | rows `Region`, `District`, `Mahalla`, cache of remote location lists | `create`, `update`, `remove`, suggestions | users, a remote site, the registration form | removed only when nobody's; an update stands; suggestions are complete | check then act, names filled in from a stale read; shared promise, failures |
| reports, ratings | `MonthlyReport`, items, `Rating` | upsert, submit, rate | media, users, notifications, audit | one report per mahalla and month with the items of one submission; only submitted reports are rated | delete and re-insert item by item |
| media, posts, events | `MediaFile`, `Post`, `Event` | upload, create, publish, archive, status changes, lists | each other, users, audit | the last entry tells the status; a file is linked to one row; readers see their own mahalla | check then act, the audit entry after the write |
| work-tracking | `WorkSession`, `LocationLog` | check-in, check-out, location log, statistics | mahallas (polygon), audit | one open session; a session that was checked out is settled; minutes inside and outside add up | check then act, logs out of order, time differences |
| dashboard | none | summary | reads everything | arithmetic | division by zero |
| health, database | none | readiness checks against timeouts; connection retries | database, Redis, sla | answers in bounded time | a late answer after a timeout |
| integrations | none | mock SMS, e-mail, ... | called by auth | - | - |
| web client, panels | the session in `localStorage`; rows, forms, flags and messages of a page | sign in and out, open a page, fill and submit a form, the buttons of a row | the HTTP API, other tabs | a page shows what was done; a form goes out once and for its row; a session ends for a cause | handlers of a page that overlap, answers in another order, two tabs |
| seed, scripts, wiring | none | run once | - | - | - |

`PROJECT.json` lists each with its sources and status, and under `hazards` the
places in the code where one of these difficulties bites.

## 2. What is modelled

| module | models |
|---|---|
| `Notifications` | `notifications.service.ts`, `notifications.processor.ts`, the BullMQ queue between them |
| `NotificationContract` | what a caller of `notify` may rely on; `Notifications` implements it |
| `Sla` | `sla.service.ts` |
| `Complaints` | `create`, `updateStatus`, `respond` of `complaints.service.ts` |
| `ComplaintContract` | what a client of the complaint service may rely on; `Complaints` implements it |
| `WorkTracking` | `checkIn`, `checkOut`, `addLocationLog` of `work-tracking.service.ts` |
| `Handlers` | what the modules below share: requests that go from await to await, their order, and faults |
| `Login` | codes, rate windows and second factors: `auth.service.ts`, `auth-security.service.ts` |
| `Mahallas` | `create`, `update`, `remove` of `mahallas.service.ts` with regions and districts |
| `Accounts` | extends `Mahallas`: `users.service.ts`, the registrations, refresh and logout of `auth.service.ts` |
| `Content` | posts, events, reports with items, ratings, media files |
| `Locations` | the suggestions of `mahallas.service.ts` and the shared download of the remote lists |
| `LocationForm` | extends `Locations`: the region, district and mahalla inputs of the registration pages |
| `Pages` | the 20 pages of the web client and the panels' pages over the shared `apiRequest` and session |
| `MCNotifications`, ..., `MCPages` | the values of the constants for TLC, one for each run's module |
| `NotificationsProofs`, `SlaProofs`, `ComplaintsProofs`, `WorkTrackingProofs`, `LoginProofs`, `AccountsProofs`, `ContentProofs`, `PagesProofs` | theorems and proofs about the module they extend; `AccountsProofs` extends `LocationForm` too |

Conventions of all modules:

- One action is what happens between two `await`s, and one `await` of a Prisma
  or BullMQ call is one step: it takes effect atomically, at some instant while
  the caller waits. `pc` names the await a request or run is at.
- A fault is a call that rejects or the death of the process. A rejected call
  may have taken effect (its reply was lost). A crash clears what is in memory
  and leaves the tables. `MaxFaults` bounds the faults in a behaviour; the
  proofs hold for every bound.
- Data are model values. Texts, ids, pagination, response formatting are left
  out. Variables under "observation" record history for the properties and are
  read by no action (except `applied`, which is read only to update `held`).
- Definitions named `X_Something`, marked *Mutation*, are wrong variants of
  `X`. They are used by no specification: each is substituted for `X` to see
  that the property it is paired with in `PROJECT.json` really depends on `X`.

### Notifications

`Notify`, `CreateRow`, `AddJob`, `AddReply` are the call (`notify`, lines
27-47): insert the row, for the e-mail channel add a job, return. `TakeJob`,
`Process`, `CompleteJob` are the worker, with BullMQ's defaults (one job at a
time, one attempt); `RecoverStalled` is its stalled-job check. BullMQ itself is
not in the repository: these actions are marked external. `CreateRowFails`,
`AddJobFails`, `ProcessFails`, `Crash` are the faults.

### Sla

`Tick` starts a run in a free slot. `Find`, `Flag`, `ReadAdmins`, `Audit` are
the awaits of `runEscalation` (lines 37-98); `Turn` is one turn of its loop,
which calls `notify` for all administrators and both channels at once and waits
for all of them. The calls in flight outlive a run that failed. `Fail` and
`Succeed` are the two ends of `handleSlaEscalation`, which record `lastError`.
The environment lets deadlines pass, complaints be answered or reopened, and
administrators come and go. With `Overlap` a tick may start while a run is
under way, as the scheduler allows; without it, runs follow one another.

### Complaints

A request is one HTTP call with its token and parameters, given by constants;
a complaint is named by the request that creates it. `ReadActor`, `Insert`,
`Link`, `ReadBack` are the awaits of `create`; `ReadComplaint`, `CheckStaff`,
`Write` those of `updateStatus` and `respond`; `Record`, `ReadAdmins` those of
`respond` alone; `Audit` is last in all three. `Effect` is what a rejected
call may still have done. The environment is `users.update` (`Move`,
`ChangeAdmins`), and posts and report items taking and releasing media files.
The role in a request is its token's, which may differ from the table's.

### WorkTracking

A request is one HTTP call; a session is named by the check-in that creates
it, a location log by the request that adds it. `ReadActor`, `Look`, `Create`
are the awaits of `checkIn`, `Find`, `Close` those of `checkOut`, `ReadSession`,
`ReadPrevious`, `Add`, `Log` those of `addLocationLog`; `Audit` is last in the
first two. `about`, `stamp`, `outside`, `previous` are the local variables a
request carries over its awaits: the session, the time it will write,
`isOutside` and `previousLog`.

The clock counts half minutes, the coarsest unit in which `Math.round` of
minutes shows. `totalWorkMinutes` is written together with `checkOutAt` and is
a function of it and `checkInAt`, so it is not kept. `recordedAt` is the
server's time or any time the client gives, in any order. Whether a point is
outside of the boundary, which may be redrawn between two logs, is any choice.
`before[r]`, the requests that had ended when `r` was made, is history: with
it `Overlap` says which requests were under way together.

### Handlers

`Arrive`, `Step`, `Resolve`, `Reject` and `Die` are what happens to the control
of a request: it is made, an await resolves, a write resolves or is rejected
having taken effect, a call is rejected without, the process dies. `before[r]`,
the requests that had ended when `r` was made, is history; with it `Overlap`
says which requests ran at the same time, and that is what most properties of
the modules below are about: *what remains inconsistent is what overlapped or
failed*. `Scenarios` is a bound: the sets of requests that may be made together.

### Login

One phone number; those of two are independent. `CallByPhone` is the rate
window and the start of `requestOtpByFlow` and `verifyOtpByFlow`; `ReadAccount`,
`CreateCode`, `TextCode` are the awaits of the one, `FindCode` (which reads the
newest unused code, checks it and compares it, nothing being written between),
`CountAttempt`, `ReadUser`, `Consume`, `Weigh`, `StoreChallenge`, `TextFactor`,
`Issue` those of the other; `Open`, `Mismatch`, `Match`, `ReadConfirmed` those of
`verifyTwoFactor`. Whether a text sent is the right one is any choice. `Crash`
forgets windows and challenges, which are in memory; `Tick` lets them end.

### Mahallas and Accounts

`ReadMahalla`, `UpsertRegion`, `UpsertDistrict`, `UpsertMahalla`,
`UpdateMahalla`, `CountUsers`, `RemoveMahalla`, `AuditMahalla` are the awaits of
`MahallasService`; `CheckMahalla`, `CheckPhone`, `InsertUser`, `CreateProfile`
those of the four registrations and `users.create`; `ReadTarget`, `UpdateUser`,
`UpdateProfile`, `DeleteProfile` those of `users.update`; `ReadRemoved`,
`RemoveUser` those of `users.remove`, whose two writes are the transaction;
`SignIn`, `FindToken`, `Revoke`, `Issue` those of logins, refreshes and logouts.
Unique indexes (phone, profile, the place of a mahalla) refuse writes. All the
refresh tokens of a user begin with the same 72 bytes, which is what `bcrypt`
hashes: a refresh finds any one of those that are stored and not revoked, and
so does the model. The token that the client sends is recorded in `presented`,
which no action reads. That a foreign key may refuse a write is left out; `TypeOK`,
which states the constraints of `schema.prisma` and is proved, says that none
would. `SchemaAssumption` asks of the rows there are at first what the database
asks of them.

### Content

`ReadActor`, `Create`, `Upsert`, `AddItem`, `Link` are the awaits of the
creations (items are added one by one, their files linked after each),
`ReadThing`, `WriteStatus` those of publish, archive and an event's status,
`ReadReport`, `Rate` those of a rating, `StoreFile` that of an upload, `List`
that of the lists; `Audit` and `ReadBack` are last. `Move` is `users.update`.

### Locations and LocationForm

A location is the path of its names. `ReadRows`, `ReadParent`, `Insert`,
`ReadAgain` are the awaits of a suggestion; `Download` ends the one download
that all requests wait for, which `remoteLocationCachePromise` keeps; `Age` is the
end of its six hours. Of what the lists have for a request only the first
`Cap` are taken (`Taken`), a multiple of `Limit` that the code fixes for each
level (4, 6 and 10), in the order in which the lists have them (`Position`). In
the form, `Change` is a keystroke in one of the three inputs, `Apply` the rest of
its handler when the answer comes, in any order, `Submit` and `Submitted` the
registration. `mode` is the page: the register page shows the form always; the
login page switches between its login and the form (`Toggle`), which empties
inputs and selections whatever answers are still to come, and goes back to its
login after a registration.

### Pages

A page is a record: the calls of its load, whether further calls follow for
each row, the acts it offers, whether its form still holds what can be sent
after it was submitted (`keeps`), whether it guards against having no session.
The other forms are empty after a success (`Emptied`) or refuse to be sent for
want of what was emptied. A
*run* is one execution of an event handler or of the loading effect, and goes on
when its tab shows something else. `Open`, `Logout`, `Fill`, `Edit`, `Cancel`,
`Select`, `Press` are what a user does; `Read` and `Granted` are the two ends of
a call at the server and at the page, between which other calls may take effect;
`Denied` is a 401, which clears the session that is stored when it arrives;
`Refused` is any other failure, perhaps after the call took effect. While a list
loads its rows are hidden, and with them their buttons. A run whose page was
left shows nothing. On a 401 the panels also call `clearSession`, which
`apiRequest` has just done, and `router.replace`, which moves the tab to the login
page even if another page was opened meanwhile: that is an `Open` of the login
page, which a tab may take at any time.

## 3. Runs

Distinct states are those of the whole run. All runs together take about a
quarter of an hour on two workers.

| run | instance | properties | states |
|---|---|---|---|
| `notifications` | 1 in-app and 2 e-mail notes, 3 faults, fair | `PendingIsAccountedFor`, `ImplementsContract`, `ResolvedEmailIsSettled` | 33 709 |
| `sla_overlap` | 2 complaints, 1 administrator, 2 overlapping runs, 1 fault | `ToldOnlyOfFlagged`, `AuditMeansTold` | 578 858 |
| `sla_single` | 2 complaints, 1 administrator, runs one at a time, 3 faults, fair | `EscalatedOnce`, `OverdueIsFlagged`, `HealthRecovers`, `EscalationUnlessFaults` | 73 360 |
| `complaints` | a complaint filed, rejected and answered at once, or 3 creations that want the same 2 files, or a creation and an answer of its own author; 1 move or 1 fault, fair | `NotesAreTrue`, `AuditIsComplete`, `ActedAtHome`, `OldStatusWasHeld`, `MediaHeldOnce`, `MediaStay`, `ImplementsContract`, `AuditedUnlessFaults` | 138 391 |
| `work_tracking` | one staff member, 1 fault; 3 check-ins and a check-out, or 1 check-in with 2 check-outs and a log, with a check-out and 2 logs, or with 3 logs | `OpenSessionsOverlapped`, `SettledOnceAnswered`, `ReportedMinutesStand`, `OutsideIsAccountedFor` | 1 242 786 |
| `login` | the five scenarios below | `RateLimitHolds`, `JudgedByNewest`, `TriesBounded`, `AcceptedOnce` | 266 068 |
| `accounts` | the five scenarios below, 1 fault | `RenameStands`, `RowSpentOnce`, `RemovedMeansOut`, `StaffHaveProfiles`, `RemovedMahallaIsEmpty` | 55 068 |
| `content` | one row and up to three requests about it, or an upload and two that take the file; 1 fault, 1 move | `ReportIsWhole`, `AuditTellsStatus`, `ViewsAreOfHome`, `RatedWasSubmitted` | 66 212 |
| `locations` | 2 regions, 2 districts, 5 mahallas, two of them removed; up to 3 changes of the form on the register page, 4 with the switch on the login page, 3 requests, 1 fault | `AnswersAreComplete`, `SelectionIsTyped` | 821 636 |
| `pages` | every page; two acts on one tab, three on one complaint, or the loads of two tabs with logins and logouts; 1 fault | `ActsAreShown`, `SentOnce`, `SentWasTyped`, `SessionStays` | 426 625 |
| `work_two_open` | 2 check-ins | `OneOpenSession`, violated | - |
| `accounts_tokens` | a login, 2 refreshes and a logout of one user, no fault | `SpentIsRefused`, violated | - |

What each property says is written above it in its module. Those of `login`,
`accounts`, `content` and `pages` share a pattern: without transactions and
locks the code cannot promise that its tables always agree, and the property
says how far they may disagree. `RowSpentOnce` for instance is not "a stored
token is spent once", which the code does not keep, but "two requests that
spent the same row ran at the same time". It is about rows: which token a
client presented for a row is another question, and `accounts_tokens` answers it.

**Bounds.** Two e-mails are the fewest with which one waits while the other is
worked on, and three faults let a job stall twice and its caller crash. Two
runs of the escalation are the fewest that overlap, and two complaints the
fewest for which a run fails between two turns of its loop. One creation, one
change and one answer are the fewest with which every pair of operations on a
complaint interleaves, one move separates the staff check from the write it
guards, and three creations with two files (one the filer's, one another's)
are the fewest in which a file is contested by two that may have it and refused
to a third. In `work_tracking` three check-ins are the fewest in which two that
overlap are followed by one that must see both; of the two check-outs one names
its session and one takes the last opened; with three logs one can come late,
between the times of the others, and the times are odd numbers of half minutes
apart, so that they are rounded, or more than the limit of 30 minutes.

The modules over `Handlers` make each request at most once and explore, in one
run, several small sets of requests that can disturb each other (`Scenarios`;
`Bounds` in the MC modules keeps time, faults and moves to the smaller ones).

- `MCLogin`: three requests for a code (`Asking`); two codes and two
  verifications (`Twice`: an older code, one by another flow); a code and three
  guesses (`Guessing`); a challenge and three confirmations (`Confirming`);
  five verifications against a window of three (`Flooding`). `MaxAttempts` is 1:
  the second guess is the one too many, and with three requests two can overlap
  and a third come later. Windows last 1 and 2 units, lifetimes 1, time 3: a
  request comes before, at and after each end, and a second window begins.
- `MCAccounts`: registrations and an update with one phone number (`Pairs`);
  three updates of a staff member (`Staffing`); the removal of a mahalla with
  what may move in or reopen it (`Closing`); two updates of a mahalla and a
  creation at the same place (`Renaming`); two logins, refreshes, a logout and a
  removal (`Session`).
- `MCContent`: a row is created and then changed twice, read or rated, while
  its reader may move; a file is uploaded and taken by two; and the refusals.
- `MCLocations`: two districts of the same name in different regions and a
  mahalla that was removed are the fewest with which the lookups by name can go
  wrong; three changes leave one answer between two others, and the switch of
  the login page counts as one. With a cap of `Limit` for mahallas, two removed
  ones that stand first use it up, and the third disjunct of
  `AnswersAreComplete` is reached; with regions and districts the cap is larger
  than what there is.
- `MCPages`: any two acts on a page are the shortest story in which one may hide
  the other; two tabs are the fewest that share a session, and two sessions the
  fewest of which one is old. A response that goes out twice because the status
  was set in between takes three acts, which are allowed on that page alone.

`sla_overlap`, which checks invariants only, identifies states that differ by a
permutation of runs or of complaints; no constant tells these apart. The
properties with theorems (section 4) do not depend on any of these bounds.

**Deadlock** is checked in `notifications`, `sla_overlap`, `sla_single`,
`complaints` and `work_tracking`: `Rest` is the one state in
which nothing more need happen, and in `Sla` the ticks never stop. In `login`,
`accounts`, `content`, `locations` and `pages` it is not: the requests of a
scenario are made once, and when all have ended, or a page shows what it shows,
the system rests.

**Fairness** is stated with the specifications of `Notifications`, `Sla` and
`Complaints`: calls to the database, Redis and `notify` are answered or rejected
in the end, the worker and the stalled check keep polling, and the cron job
keeps ticking. Requests are never bound to be made and faults never to occur.
Nothing is strongly fair. The other modules state no fairness: their handlers
are straight lines of awaits, so that they end says nothing, and none of them
waits for another, but for the shared download of `Locations`, whose failure is
answered to all that wait by the same step. What the constraint of `complaints`
cuts off are calls, moves and faults, none of which fairness obliges, so that a
behaviour inside it is fair there if it is fair.

### Where code and documents disagree

`work_two_open` is expected to find a violation: `work-tracking.service.ts:50`
refuses a second session, "You already have an opened work session". The open
one is looked for in one await and the new one created in the next, and no
index makes it unique: two check-ins that overlap, a double tap for instance,
open two. `OpenSessionsOverlapped` shows that there is no other way. A check-out
closes one of the two, and the other stays open until it is checked out too.

`accounts_tokens` is expected to find a violation too: `README.md:131` of the
repository says that sessions are managed by token rotation and revocation. A
refresh looks for the row of the token it is sent with `bcrypt.compare`
(`auth.service.ts:618`), which tells only the first 72 bytes apart, and all
refresh tokens of a user begin with the same ones. So a token that was exchanged
is exchanged again by a later request, for the row of its successor, as long as
the user has one that is live. The rows themselves do rotate (`RowSpentOnce`), and
when all are revoked, by logouts or a removal, no token of the user is accepted
(`RemovedMeansOut`).

Three sentences of the documents hold only while nothing fails:

- `docs/poc-proof-of-concept-report.md:95`: e-mail notifications are marked SENT
  by the processor. If `queue.add` rejects, if the process dies before it, or if
  the one attempt of the job fails, the row stays PENDING for ever.
  `PendingIsAccountedFor` shows that there is no other way.
- `README.md:62`: an overdue complaint is escalated automatically. A run that
  fails after `updateMany` has flagged its batch leaves complaints which no
  later run selects. Without faults administrators are told of every flagged
  complaint (`EscalationUnlessFaults`).
- `README.md:65`: an audit log of every change and decision. The entry is the
  last await of each operation: a failure before it leaves the change without
  one. Without faults every change of a complaint has one
  (`AuditedUnlessFaults`), and an entry is always proof of the whole operation
  (`AuditIsComplete`).

### What a reader should know

Nothing in the repository promises otherwise of these, so they are not
violations; the properties are worded around them.

- Overlapping SLA runs may escalate one complaint twice (`EscalatedOnce` is
  about runs that do not overlap). Of two answers given at once, the text shown
  and the last response row may be of different requests; the previous status
  in an audit entry was the complaint's during the request, but need not be the
  one that was overwritten.
- Two check-outs that overlap both close the session, the later one's times
  stay, and both are audited. A location log under way during a check-out may
  add minutes after they were reported (`ReportedMinutesStand`). Logs that
  overlap may count the same time twice, and one that fails after adding its
  minutes has them counted again by its repetition.
- Rate windows are fixed, so that up to twice the limit is let in within a
  window's length, and a restart forgets windows and challenges
  (`RateLimitHolds`). Verifications under way together are each compared before
  any of them is counted (`TriesBounded`). A wrong second-factor text, compared
  while the right one passes, puts the challenge back (the second half of `AcceptedOnce`).
- A logout gives up any stored token of its user, not always the one it sends.
  The role in a token is the one of the login until it expires. A
  refresh under way while its user is removed leaves a token.
- An update of a user or mahalla fills in what was not asked for from the row it
  read; what another wrote meanwhile is written back (`RenameStands`), and two
  updates of one user may leave a profile that does not fit the role
  (`StaffHaveProfiles`). A removed mahalla is reopened, with its id, by the
  creation of one at its place.
- A user without a mahalla who lists posts sees those of all; who lists events or
  reports, none. A user who is moved while listing sees those of the old mahalla
  (`ViewsAreOfHome`).
- A suggestion takes of the remote lists at most 4, 6 or 10 times what it may
  answer: if many of these were removed, it answers fewer although the lists have
  more (`AnswersAreComplete`). After the switch of the login page an answer still
  to come selects a location in a form that is empty (`SelectionIsTyped`).
- The worktime page and the residents' page of ratings keep a form that can be
  sent again after a success, the same check-in or a rating with the defaults;
  the button is disabled only until the list is loaded (`SentOnce`).
- The posts page offers "archive" only for posts that are archived already.
- The complaints page leaves its status button enabled while a response is being
  sent. If the status arrives after the response, the complaint is in progress
  again, the page has kept the text, and the same response may be sent once more
  (`Reopened` in `SentOnce`).
- The answers to two loads of a page are shown in the order of their arrival
  (`ActsAreShown`), and a 401 to a call of an old session clears the new one
  (`SessionStays`).

## 4. Proofs

TLAPS checks these theorems for every value of the constants that satisfies the
modules' assumptions: any sets of notes, requests, users, mahallas, files, runs,
complaints and tabs, any limits and lifetimes, any times of the logs, and any
number of faults. TLC evaluates the assumptions in every run of the module.

| module | theorems |
|---|---|
| `NotificationsProofs` | `TypeCorrectness`, `JobsHaveRows`, `ResolvedCallsAreQueued`, `PendingRowsAreAccountedFor`, `Refinement` |
| `SlaProofs` | `TypeCorrectness`, `NoFalseBreach`, `FlagBeforeNotification`, `AuditIsProof`, `AtMostOneEscalation` |
| `ComplaintsProofs` | `TypeCorrectness`, `NotesTrue`, `AuditComplete`, `HomeGround`, `OldStatusHeld`, `MediaOnce`, `MediaKept`, `Refinement` |
| `WorkTrackingProofs` | `TypeCorrectness`, `OpenTogether`, `AnsweredIsSettled`, `ReportsStand`, `OutsideAccounted` |
| `LoginProofs` | `LoginTyped`, `NewestJudges`, `LetInOnce`, `RatesHold`, `TriesLimited` |
| `AccountsProofs` | `RowsSpentOnce`, `RemovedAreOut`, `RemovedMahallasAreEmpty`, `StaffProfiles`, `RenamesStand`, `AccountsTyped`; of `Locations` and `LocationForm`: `FormTyped`, `AnswersComplete`, `SelectionsTyped` |
| `ContentProofs` | `ContentTyped`, `ReportsAreWhole`, `AuditsTellStatus`, `ViewsOfHome`, `RatedSubmitted` |
| `PagesProofs` | `PagesTyped`, `FormsSentOnce`, `SentAsTyped`, `OwnActsShown`, `SessionsStay` |

The argument is the same in each. The properties are not inductive: from
`AuditIsComplete` alone nothing says that the notifications of a request that
is about to write its entry exist. The missing facts say, for each place `pc`
a request may be at, what it has already done to the tables, or what the tables
still guarantee of what it has read, and are conjoined in an inductive
invariant:

- `Notifications`: `CallExplainsNote` (where a call is determines whether its
  row and job exist) and `JobExplainsRow` (a processed job's row is SENT).
- `Sla`: `RunsKnowBreaches` (what a run works on was breached, and flagged once
  it is past `Flag`), `RunsAwaitNotes` (a run at `notifying` has its calls in
  flight or resolved, one at `auditing` resolved), `BreachesAreMissed`, and
  `OneRunAtATime` for `EscalatedOnce`.
- `Complaints`: `OperationOK` (which operation can be where), `ChangeExplained`
  and `RowsExplained` (what has been applied), `NotesExplained` (which calls of
  `notify` must exist), `HomeExplained` and `OldExplained` (what the reads and
  checks behind a request still guarantee although users move and other
  requests write meanwhile).
- `WorkTracking`: `LookedFor` (a check-in about to create a session saw those
  of all requests that had ended before it), `Settled` (`SettledOnceAnswered`
  from the moment the check-out's update replied), `ReportsOK`, and `MinutesOK`:
  when no log is at work the minutes of a session are what its logs account
  for, and a log that is about to be written has the latest of the others as
  its `previousLog` and has added its increment to what these account for. The
  bound in it, `Counted`, is by any enclosing interval, so that a log that comes
  late, before the latest, extends nothing (`CountedMore`).
- `Handlers`: `Past`, the requests that had ended when one was made have ended.
  So two requests under way overlap (`UnderWayOverlap`), and once made they
  overlap for ever or never (`OverlapStays`): what every "unless they
  overlapped" below rests on.
- `Login`: `Using` (an accepted code is used up, and whoever still has it in
  hand overlaps who was accepted), `FoundNewest` (of the codes stored by requests
  that had ended before, those newer than the one found are used up), stated by
  the positions of codes and turned into `JudgedByNewest` by `PositionIs`;
  `Passing` (a challenge that was passed is gone, or was put back by a wrong
  text that overlapped, and whoever still has it in hand overlaps) and `SentOK`,
  which keeps a challenge from being stored after it was confirmed. `WindowOK`
  counts those let in within a window, which are its `count`, and those less
  than its length before it, of which the last window let in at most `Max`:
  together they are all who can have come a window's length ago (`RecentIs`).
  `KeyOK` has every wrong guess counted and has whoever is at one know of fewer
  than `MaxAttempts` that were over when it was made; when it is counted in turn
  it is the last that `LimitedBy` asks for.
- `Accounts`, sessions: `Spending` (a spent row is revoked, and whoever has
  found it overlaps) and `Leftover` (a session that goes on after the removal
  of its user overlapped the removal, or goes on from a token that descends
  from one that did). Mahallas: `CheckedOpen` (a mahalla about to be written was
  open when it was checked, so that who closed it since overlapped) and
  `CountedEmpty` (the users of a mahalla about to be removed came after they were
  counted, by requests that overlap), with `PlacesOK`, which operation can be
  where, and `RowsOK`.
- `Accounts`, updates: `ProfilesOK` (unless two writes to a
  user overlapped or one failed, what an update read of the user is still so, and
  either the profile fits the role or the one write that will make it fit is
  about to). `PlaceStands` and `ReadStands` (what an update of a mahalla asked
  for is in the row, and in what other updates have read of it, but for what
  yet another asked for or what overlapped). Both need a creation to have ids of
  its own (`NewUsersAssumption`, `MahallasAssumption`).
- `Accounts`, constraints: `SeenOK`, what a request has seen to be there by the
  await it is at: the mahalla of its user, the user it found, the mahalla it
  counted or removes, the region and district it upserted. It stays there
  because no row of these tables is ever deleted: users and mahallas are removed
  by a mark. Every reference a write makes is to something seen.
- `Locations`: `AnswerOK`, what the rows hold of what a request wants when it is
  about to read them again: all that is taken of the lists for it (`Listed`),
  whoever inserted it. `Complete` counts: `Cap` of them less those that were
  removed are `Limit` at least, unless more than the difference were. `Served` says of any
  step of the service that rows only come, and only from the remote lists, and
  that each request stays or goes on to something `AnswerOK` allows.
- `LocationForm`: `PendingOK`. Each change that waits for its answer has a number
  of its own; the last one of its input asked for what the input still shows and,
  unless an answer came late, within what is selected above, with nothing
  selected since. When its answer comes, what it selects is therefore what is
  shown (`SelectionIsTyped`); an answer to an earlier change is what `late` records. `Toggle` is a change
  of all inputs that asks for nothing.
- `Content`: `WrittenOK`, for a row whose writers so far came in turn and none of
  them failed: the last of them to write (`LastWriter`) left the status there is,
  the items it has got to, all of them its own, and the entry that tells the
  status, unless it is still on its way there, and then no other is under way.
  A writer that comes while one is on its way ends the turn. `WroteOK` says what
  a request has written at each place, `RowsOK` which rows are reports and that
  the others are of a request that has written. `ViewInv` keeps what a lister will
  show (`chosen`) among what its homes were while it ran. `RateInv` keeps a
  report that was read as submitted in `submitted` until it is rated. That a
  request's arguments fit its operation is `ContentAssumption`.
- `Pages`: `PageInv`. `PagesOK` says on which page and where a run can be, and
  that a page has one load that opened it. `TypedOK` has the filling in a form
  belong to the row selected, which `SelectedStays` carries over every change of
  a page but those that `Follow` attends to. `SavingOK` (whoever is submitting
  has the button disabled, so that no two do) and `FilledOK` (a filling that is
  still in a form was sent by its own tab, and by a submission that is under way
  or from a page that keeps its form, or a response) give `SentOnce` for every form
  but a response; for that one,
  `AnsweredIs` shows that a page with the response has its complaint answered
  unless its status was set after. `EffectsOK` has what any load read be a
  beginning of what took effect, with the act it follows. `ShownOK` is
  `ActsAreShown` before the page is at rest: what took effect is shown, or
  reported as an error, or a run on the page will still load it; and of loads
  that did not overlap each reads at least what the one before has shown.

Each invariant was model-checked first, as it stood or through the property it
carries (`Counted`, which quantifies over all times, over a finite range of
them). The proof that steps preserve it is split by conjunct and rests on lemmas
that summarise a step for one part of the state: in `ComplaintsProofs`
`TableSteps`, `Control`, `Growing`, `LocalSteps`, `NotesFate`, `HeldSteps`,
`BeenSteps`, `MahallaSteps`; in `WorkTrackingProofs` `TableSteps` and `Control`;
in `LoginProofs` and `AccountsProofs` `Control` and, for each part of the
invariant, one lemma that every step but a named few leaves that part alone
(`CodeSteps`, `FactorSteps`, `SessionSteps`, `HomeSteps`). In `PagesProofs` every
action is first shown to be one of five kinds of step, `Leaves`, `Turns`,
`Presses`, `Reads` and `Steps`, which say what it does to a tab and a run, and
each conjunct is proved for the kinds. The refinement
theorems map a request's `pc` to the outcome its client sees; every step is then
a step of the contract or a stutter. `Complaints` needs one more fact for it,
`Logged`: a request is answered only when it is in the log.

Only model-checked: the five liveness properties (`ResolvedEmailIsSettled`,
`OverdueIsFlagged`, `HealthRecovers`, `EscalationUnlessFaults`,
`AuditedUnlessFaults`), which rest on fairness and are out of TLAPS' reach. Every
invariant, action property and refinement that a passing run checks is stated by
one of the theorems.

## 5. Not modelled

- `geo.util.ts`: arithmetic on real coordinates, which TLC does not have. In
  `WorkTracking` being outside is any choice of the request.
- `dashboard.service.ts`: sums over queries, without state. `health.service.ts`:
  checks raced against timers, kept by nothing. `integrations.service.ts`: mock
  providers. `prisma.service.ts`: connecting at start.
- Queries (`findAll`, statistics) but for the lists of `Content` and the
  suggestions of `Locations`: they change nothing.
- A repeated request: `create` of a complaint that failed after its insert files
  it again when the client repeats it (the one hazard without a property). No
  key identifies the repetition, so the code makes no promise to check.
- Layout, wording, filters, paging and the charts of the pages; the seed and the
  one-off scripts, which are run once by hand.
- Libraries: Prisma, PostgreSQL, BullMQ and Redis beyond what is said above,
  Nest's guards and pipes (their result is an assumption on the requests),
  `bcrypt` but for its 72 bytes, JWT signatures, React, the SMS provider.

## 6. Plan

Done: all services that write, the suggestions with their cache, the pages, and
proofs about all of them.

| next | module | questions | theorems worth proving |
|---|---|---|---|
| 1 | `ComplaintSystem` | composes complaints and the SLA worker on one table: an answer while a run is under way | no administrator is told of a complaint that was answered before the run began |
| 2 | `Locations` | the shared download under fairness | - |
