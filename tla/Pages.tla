------------------------------- MODULE Pages -------------------------------
(***************************************************************************)
(* The pages of the web client and of the panels in the tabs of a browser, *)
(* with the session that all tabs share in localStorage.  A page loads its *)
(* list when it is opened and after each act that has succeeded.           *)
(*                                                                         *)
(* A run is one execution of an event handler or of the effect that loads; *)
(* it goes on when the page is left, but then shows nothing.  A run goes   *)
(* from one await to the next, and sends one call, or several at once.     *)
(*                                                                         *)
(* Rows, sessions and fillings are numbered from 1 on, the newer the       *)
(* higher, and None is none of them.                                       *)
(***************************************************************************)
EXTENDS FiniteSets, Naturals, Sequences

CONSTANTS
    Tabs,
    FirstRows,   \* the rows there are at first
    Offered,     \* bound: Offered[n], the pages opened when there are n runs
    MaxRuns,     \* bound
    MaxFills,    \* bound
    MaxSessions, \* bound
    MaxFaults    \* bound: the calls that fail, but for their session

VARIABLES
    stored,      \* the session of localStorage
    sessions,    \* the number of sessions issued
    valid,       \* the sessions whose token the server accepts
    rows,        \* the rows the server lists
    effects,     \* the runs whose act has taken effect on the server, in that order
    tab,         \* tab[t]: the page of a tab
    run,         \* run[r]: the r-th run
    typed,       \* observation: typed[d]: the row the d-th filling of a form was for
    faults       \* observation: the number of calls that failed

vars == <<stored, sessions, valid, rows, effects, tab, run, typed, faults>>

None  == 0
Runs  == DOMAIN run
Fills == Len(typed)
-----------------------------------------------------------------------------
(* A page: the calls of its load, whether one more for each row and a last *)
(* one follow, the acts it offers, whether its form still holds what can be *)
(* sent after it was submitted, and whether it guards against having no    *)
(* session (those of a role without access are not stored, see SignIn).    *)
List == [calls |-> 1, details |-> FALSE, last |-> FALSE, acts |-> {}, keeps |-> FALSE,
         guard |-> FALSE]

LoginPage == [List EXCEPT !.calls = 0, !.acts = {"sign-in"}]

PanelSuperAdminLogin == LoginPage
PanelMahallaLogin    == LoginPage
PanelHokimiyatLogin  == LoginPage
PanelResidentLogin   == LoginPage

SuperAdminAuditLogs == List
HokimiyatComplaints == List
HokimiyatWorktime   == List
ResidentEvents      == List

HokimiyatAnalytics  == [List EXCEPT !.calls = 2]
MahallaDashboard    == [List EXCEPT !.calls = 3]
ResidentDashboard   == [List EXCEPT !.calls = 4]

HokimiyatMahallas   == [List EXCEPT !.calls = 3, !.details = TRUE]
HokimiyatDashboard  == [List EXCEPT !.calls = 4, !.details = TRUE]
SuperAdminDashboard == [List EXCEPT !.calls = 3, !.details = TRUE, !.last = TRUE]

MahallaEvents       == [List EXCEPT !.acts = {"submit"}]
MahallaReports      == [List EXCEPT !.acts = {"submit"}]
MahallaWorktime     == [List EXCEPT !.acts = {"submit"}, !.keeps = TRUE]
ResidentComplaints  == [List EXCEPT !.acts = {"submit"}]
ResidentReports     == [List EXCEPT !.acts = {"submit"}, !.keeps = TRUE]
MahallaPosts        == [List EXCEPT !.acts = {"submit", "submit-and-publish", "archive"}]
MahallaComplaints   == [List EXCEPT !.acts = {"set-status", "respond"}]
SuperAdminUsers     == [List EXCEPT !.acts = {"submit", "edit", "delete"}]
SuperAdminMahallas  == [List EXCEPT !.acts = {"submit", "edit", "delete"}]

PanelUsers               == [List EXCEPT !.guard = TRUE]
PanelMahallaDashboard    == [MahallaDashboard EXCEPT !.guard = TRUE]
PanelResidentDashboard   == [MahallaDashboard EXCEPT !.guard = TRUE]
PanelHokimiyatDashboard  == [HokimiyatMahallas EXCEPT !.guard = TRUE]
PanelSuperAdminDashboard == [HokimiyatMahallas EXCEPT !.guard = TRUE]
PanelOverview            == [List EXCEPT !.calls = 5, !.guard = TRUE]

AllPages ==
    {LoginPage, SuperAdminAuditLogs, HokimiyatComplaints, HokimiyatWorktime, ResidentEvents,
     HokimiyatAnalytics, MahallaDashboard, ResidentDashboard, HokimiyatMahallas,
     HokimiyatDashboard, SuperAdminDashboard, MahallaEvents, MahallaReports, MahallaWorktime,
     ResidentComplaints, ResidentReports, MahallaPosts, MahallaComplaints, SuperAdminUsers,
     SuperAdminMahallas, PanelUsers, PanelMahallaDashboard, PanelResidentDashboard,
     PanelHokimiyatDashboard, PanelSuperAdminDashboard, PanelOverview, PanelSuperAdminLogin,
     PanelMahallaLogin, PanelHokimiyatLogin, PanelResidentLogin}

ASSUME PagesAssumption ==
    /\ None \notin Tabs
    /\ FirstRows \subseteq Nat \ {None} /\ IsFiniteSet(FirstRows)
    /\ {MaxRuns, MaxFills, MaxSessions, MaxFaults} \subseteq Nat

(* What a tab shows: the rows and effects of its list, the error message,  *)
(* that it is loading, saving and so on and the row that it is deleting,   *)
(* the row edited or selected, and the filling of its form.                *)
Fresh(page) ==
    [page |-> page, rows |-> {}, effects |-> <<>>, error |-> FALSE, flags |-> {}, busy |-> None,
     row |-> None, fill |-> None,
     mixed |-> FALSE]   \* observation: two loads were under way, or a click hid an error

Init ==
    /\ stored   = 1
    /\ sessions = 1
    /\ valid    = {1}
    /\ rows     = FirstRows
    /\ effects  = <<>>
    /\ tab      = [t \in Tabs |-> Fresh(LoginPage)]
    /\ run      = <<>>
    /\ typed    = <<>>
    /\ faults   = 0
-----------------------------------------------------------------------------
Newest(S) == CHOOSE n \in S : \A m \in S : m <= n

(* The row selected on the complaints page: without it, the first.         *)
Selected(T) ==
    IF "respond" \notin T.page.acts \/ T.row \in T.rows THEN T.row
    ELSE IF T.rows = {} THEN None ELSE Newest(T.rows)

(* Its status, as the page has it.                                         *)
LastAct(T, i) ==
    LET On == {k \in DOMAIN T.effects : /\ run[T.effects[k]].row = i
                                        /\ run[T.effects[k]].act \in {"set-status", "respond"}} IN
    IF On = {} THEN "none" ELSE run[T.effects[Newest(On)]].act

Answered(T, i)   == LastAct(T, i) = "respond"
InProgress(T, i) == LastAct(T, i) = "set-status"

Flag(act) ==
    IF act \in {"submit", "submit-and-publish", "sign-in"} THEN {"saving"}
    ELSE IF act \in {"set-status", "respond"} THEN {act} ELSE {}

(* Mutation: a form may be submitted while it is being submitted.          *)
Disabled_Rows(T, act, i) == act = "delete" /\ T.busy = i

(* While isResponding, the complaints page disables one of its two buttons *)
(* for a response, and has the other one for a complaint in progress.      *)
Disabled(T, act, i) ==
    \/ act \in {"submit", "submit-and-publish", "sign-in"} /\ "saving" \in T.flags
    \/ act \in {"set-status", "respond"} /\ "set-status" \in T.flags
    \/ act = "respond" /\ "respond" \in T.flags /\ ~InProgress(T, i)
    \/ act = "delete" /\ T.busy = i

(* finally of the handler.                                                 *)
Finish(T, x) ==
    [T EXCEPT !.flags = @ \ Flag(x.act), !.busy = IF x.act = "delete" THEN None ELSE @]

(* apiRequest: the session is read when the call is made.                  *)
Send(x, at, n) ==
    IF stored' = None THEN [x EXCEPT !.at = "denied"]
    ELSE [x EXCEPT !.at = at, !.waiting = n, !.session = stored', !.accepted = stored' \in valid]

Stopped(x) == x.at \in {"failed", "denied"}

(* The page T after run x went on: a failure is shown; when it is of the   *)
(* session, a panel goes to its login page (its clearSession adds nothing  *)
(* to that of apiRequest, see Over).                                       *)
Shown(T, x) ==
    IF ~Stopped(x) THEN T
    ELSE IF x.at = "denied" /\ T.page.guard THEN Fresh(LoginPage)
    ELSE [Finish(T, x) EXCEPT !.error = TRUE]

(* A run whose page was left shows nothing; that a panel's router.replace  *)
(* still moves its tab is Open of the login page, which a tab may take at  *)
(* any time.                                                               *)
GoOn(r, x, T) ==
    /\ run' = [run EXCEPT ![r] = x]
    /\ tab' = IF x.tab = None THEN tab ELSE [tab EXCEPT ![x.tab] = Shown(T, x)]

(* The page T with or without its rows, as its load begins or has failed at *)
(* once for want of a session.                                             *)
Veiled(T) ==
    [T EXCEPT !.flags = IF stored' = None THEN @ \ {"loading"} ELSE @ \cup {"loading"}]

Unveiled(T) == [T EXCEPT !.flags = @ \ {"loading"}]

Visible(T) == IF "loading" \in T.flags THEN {} ELSE T.rows

Loading(t) == {q \in Runs : run[q].tab = t /\ run[q].at = "loading"}

(* The load of run x, and the page T when it begins.                       *)
Load(x)       == Send(x, "loading", x.page.calls)
Reload(T, x)  == [Veiled(T) EXCEPT !.error = FALSE, !.mixed = @ \/ Loading(x.tab) # {}]

NewRun(t, page, act, row) ==
    [tab |-> t, page |-> page, act |-> act, row |-> row, fill |-> None, editing |-> None,
     at |-> "begun", waiting |-> 0, session |-> None, accepted |-> FALSE,
     read |-> FALSE, rows |-> {}, effects |-> <<>>,
     beside |-> {}, mixed |-> FALSE]    \* observation: the tab when the run began
-----------------------------------------------------------------------------
Detached(t) == [r \in Runs |-> IF run[r].tab = t THEN [run[r] EXCEPT !.tab = None] ELSE run[r]]

(* A tab goes to a page, which checks that there is a session or loads.    *)
Open(t, page) ==
    LET x == Load(NewRun(t, page, "open", None)) IN
    /\ UNCHANGED stored
    /\ IF page.calls = 0 \/ (page.guard /\ stored = None)
       THEN /\ tab' = [tab EXCEPT ![t] = Fresh(LoginPage)]
            /\ run' = Detached(t)
       ELSE /\ Len(run) < MaxRuns
            /\ tab' = [tab EXCEPT ![t] = Shown(Veiled(Fresh(page)), x)]
            /\ run' = Append(Detached(t), x)
    /\ UNCHANGED <<sessions, valid, rows, effects, typed, faults>>

(* handleLogout: the server is not told.                                   *)
Logout(t) ==
    /\ tab[t].page # LoginPage
    /\ stored' = None
    /\ tab' = [tab EXCEPT ![t] = Fresh(LoginPage)]
    /\ run' = Detached(t)
    /\ UNCHANGED <<sessions, valid, rows, effects, typed, faults>>

(* A form is filled, for the row edited or selected or for a new one, or   *)
(* filled again if it is one that is kept; defaults count as a filling.    *)
Fill(t) ==
    LET T == tab[t] IN
    /\ T.fill = None \/ T.page.keeps
    /\ IF "respond" \in T.page.acts THEN Selected(T) # None ELSE T.page.acts \cap {"submit"} # {}
    /\ Fills < MaxFills
    /\ typed' = Append(typed, Selected(T))
    /\ tab' = [tab EXCEPT ![t].fill = Fills + 1]
    /\ UNCHANGED <<stored, sessions, valid, rows, effects, run, faults>>

(* handleEdit: the form gets the row's fields, and messages are cleared.   *)
Edit(t, i) ==
    LET T == tab[t] IN
    /\ "edit" \in T.page.acts /\ i \in Visible(T)
    /\ Fills < MaxFills
    /\ typed' = Append(typed, i)
    /\ tab' = [tab EXCEPT ![t] = [T EXCEPT !.row = i, !.fill = Fills + 1, !.error = FALSE,
                                           !.mixed = @ \/ T.error]]
    /\ UNCHANGED <<stored, sessions, valid, rows, effects, run, faults>>

(* resetForm.                                                              *)
Cleared(T) == [T EXCEPT !.row = None, !.fill = None]

Cancel(t) ==
    /\ "edit" \in tab[t].page.acts /\ tab[t].row # None
    /\ tab' = [tab EXCEPT ![t] = Cleared(@)]
    /\ UNCHANGED <<stored, sessions, valid, rows, effects, run, typed, faults>>

(* Mutation: the text stays when another row is selected.                  *)
Follow_Not(T, S) == S

(* The effect that gives the text of the row selected: from T to S.        *)
Follow(T, S) == IF Selected(S) = Selected(T) THEN S ELSE [S EXCEPT !.fill = None]

Select(t, i) ==
    LET T == tab[t] IN
    /\ "respond" \in T.page.acts /\ i \in Visible(T) \ {T.row}
    /\ tab' = [tab EXCEPT ![t] = Follow(T, [T EXCEPT !.row = i])]
    /\ UNCHANGED <<stored, sessions, valid, rows, effects, run, typed, faults>>
-----------------------------------------------------------------------------
(* The rows an act may be for, as the page shows them.                     *)
Targets(T, act) ==
    CASE act = "sign-in"              -> {None}
      [] act \in {"archive", "delete"} -> Visible(T)
      [] act = "set-status"           -> {i \in {Selected(T)} \cap T.rows :
                                              ~Answered(T, i) /\ ~InProgress(T, i)}
      [] act = "respond"              -> {i \in {Selected(T)} \cap T.rows : ~Answered(T, i)}
      [] OTHER                        -> {T.row}

Filled(act) == act \in {"submit", "submit-and-publish", "respond"}

Press(t, act, i) ==
    LET T == tab[t]
        x == [NewRun(t, T.page, act, i) EXCEPT
                 !.fill    = IF Filled(act) THEN T.fill ELSE None,
                 !.editing = T.row,
                 !.beside  = {q \in Runs : run[q].tab = t /\ run[q].waiting > 0},
                 !.mixed   = T.mixed]
        y == IF act = "sign-in" THEN [x EXCEPT !.at = "acting", !.waiting = 1] ELSE Send(x, "acting", 1)
        S == [T EXCEPT !.error = FALSE, !.flags = @ \cup Flag(act),
                       !.busy = IF act = "delete" THEN i ELSE @]
    IN
    /\ act \in T.page.acts \ {"edit"} /\ i \in Targets(T, act)
    /\ Filled(act) => T.fill # None
    /\ ~Disabled(T, act, i)
    /\ Len(run) < MaxRuns
    /\ UNCHANGED stored
    /\ tab' = [tab EXCEPT ![t] = Shown(S, y)]
    /\ run' = Append(run, y)
    /\ UNCHANGED <<sessions, valid, rows, effects, typed, faults>>
-----------------------------------------------------------------------------
(* The list of the load is on the page; a complaint is selected if none    *)
(* was when the handler began.                                             *)
Listed(T, x) ==
    LET S == [Unveiled(T) EXCEPT !.rows = x.rows, !.effects = x.effects]
        first == Selected([S EXCEPT !.row = None])
    IN
    Follow(T, IF "respond" \in x.page.acts /\ x.editing = None THEN [S EXCEPT !.row = first] ELSE S)

Ended(x) == [x EXCEPT !.at = "ended"]

(* The stages of a run: what the handler x does when the calls of one have *)
(* succeeded, on the page T.  The failure of a row's call is caught.       *)
AfterDetails(r, x, T) ==
    LET y == IF x.page.last THEN Send(x, "checking", 1) ELSE Ended(x) IN
    GoOn(r, y, IF x.page.last THEN Listed(T, x) ELSE Finish(Listed(T, x), x))

AfterList(r, x, T) ==
    IF x.page.details /\ x.rows # {} /\ stored' # None
    THEN GoOn(r, Send(x, "detailing", Cardinality(x.rows)), T)
    ELSE AfterDetails(r, x, T)

(* The form after x, on the page T: empty if it was submitted and is not   *)
(* kept, or if the row edited is gone.                                     *)
Emptied(T, x) ==
    IF \/ x.act \in {"submit", "submit-and-publish"} /\ ~x.page.keeps
       \/ x.act = "delete" /\ x.editing = x.row
    THEN Cleared(T) ELSE T

(* Mutation: the list is not loaded again.                                 *)
AfterAct_NoLoad(r, x, T) ==
    GoOn(r, Ended(x), Finish(Emptied(T, x), x))

AfterAct(r, x, T) ==
    LET S == Emptied(T, x) IN
    GoOn(r, Load(x), Reload(S, x))

Succeeded(r, x, T) ==
    CASE x.at = "publishing" -> AfterAct(r, x, T)
      [] x.at = "loading"    -> AfterList(r, x, T)
      [] x.at = "detailing"  -> AfterDetails(r, x, T)
      [] x.at = "acting" /\ x.act = "submit-and-publish" -> GoOn(r, Send(x, "publishing", 1), T)
      [] x.at = "acting" /\ x.act \notin {"submit-and-publish", "sign-in"} -> AfterAct(r, x, T)
      [] OTHER -> GoOn(r, Ended(x), Finish(T, x))

Page(r) == IF run[r].tab = None THEN Fresh(run[r].page) ELSE tab[run[r].tab]

(* A call of r has been answered and another is waited for, or none; those *)
(* answered after one failed are ignored.                                  *)
Proceed(r) ==
    LET x == [run[r] EXCEPT !.waiting = @ - 1] IN
    IF Stopped(x) \/ x.waiting > 0
    THEN run' = [run EXCEPT ![r] = x] /\ UNCHANGED tab
    ELSE Succeeded(r, x, Page(r))

(* Mutation: any failure clears the session.                               *)
Remaining_None(at) == None

(* apiRequest: status 401 clears the session there is by then.             *)
Remaining(at) == IF at = "denied" THEN None ELSE stored

Over(r, at) ==
    /\ stored' = Remaining(at)
    /\ IF run[r].at = "detailing" \/ Stopped(run[r]) THEN Proceed(r)
       ELSE GoOn(r, [run[r] EXCEPT !.waiting = @ - 1, !.at = at],
                 IF run[r].at = "loading" THEN Unveiled(Page(r)) ELSE Page(r))

(* The server carries out the act of r.                                    *)
Effect(r) ==
    IF run[r].at = "acting" /\ run[r].act # "sign-in"
    THEN /\ effects' = Append(effects, r)
         /\ rows' = IF run[r].act = "delete" THEN rows \ {run[r].row} ELSE rows
    ELSE UNCHANGED <<effects, rows>>

(* The server reads the list for r.                                        *)
Read(r) ==
    /\ run[r].at = "loading" /\ ~run[r].read /\ run[r].accepted
    /\ run' = [run EXCEPT ![r].read = TRUE, ![r].rows = rows, ![r].effects = effects]
    /\ UNCHANGED <<stored, sessions, valid, rows, effects, tab, typed, faults>>

Waited(r) == r \in Runs /\ run[r].waiting > 0

Granted(r) ==
    /\ Waited(r) /\ run[r].accepted
    /\ run[r].at = "loading" => run[r].read
    /\ UNCHANGED stored
    /\ Effect(r)
    /\ Proceed(r)
    /\ UNCHANGED <<sessions, valid, typed, faults>>

(* The codes were right and the role has access: setSession.               *)
SignIn(r) ==
    /\ Waited(r) /\ run[r].act = "sign-in"
    /\ sessions < MaxSessions
    /\ sessions' = sessions + 1
    /\ valid' = valid \cup {sessions'}
    /\ stored' = sessions'
    /\ Proceed(r)
    /\ UNCHANGED <<rows, effects, typed, faults>>

(* The server does not accept the session.                                 *)
Denied(r) ==
    /\ Waited(r) /\ run[r].act # "sign-in" /\ run[r].session \notin valid
    /\ Over(r, "denied")
    /\ UNCHANGED <<sessions, valid, rows, effects, typed, faults>>

(* Any other failure, perhaps after the call took effect.                  *)
Refused(r) ==
    /\ Waited(r)
    /\ faults < MaxFaults /\ faults' = faults + 1
    /\ (Effect(r) \/ UNCHANGED <<effects, rows>>)
    /\ Over(r, "failed")
    /\ UNCHANGED <<sessions, valid, typed>>

(* A session expires, or the server revokes it.                            *)
Expire ==
    /\ valid # {} /\ valid' = {}
    /\ UNCHANGED <<stored, sessions, rows, effects, tab, run, typed, faults>>

(* Someone else has a row removed from the list.                           *)
Remove(i) ==
    /\ rows' = rows \ {i}
    /\ UNCHANGED <<stored, sessions, valid, effects, tab, run, typed, faults>>

Next ==
    \/ \E t \in Tabs :
          \/ \E page \in AllPages \cap Offered[Len(run)] : Open(t, page)
          \/ Logout(t) \/ Fill(t) \/ Cancel(t)
          \/ \E i \in tab[t].rows : Edit(t, i) \/ Select(t, i)
          \/ \E act \in tab[t].page.acts : \E i \in tab[t].rows \cup {None} : Press(t, act, i)
    \/ \E r \in Runs : Read(r) \/ Granted(r) \/ SignIn(r) \/ Denied(r) \/ Refused(r)
    \/ Expire
    \/ \E i \in rows : Remove(i)

Spec == Init /\ [][Next]_vars
-----------------------------------------------------------------------------
Rows     == FirstRows \cup {None}
ActNames == {"open"} \cup UNION {page.acts : page \in AllPages}
Stages   == {"begun", "acting", "publishing", "loading", "detailing", "checking", "ended",
             "failed", "denied"}

TabType ==
    [page : AllPages, rows : SUBSET FirstRows, effects : Seq(Runs), error : BOOLEAN,
     flags : SUBSET {"loading", "saving", "set-status", "respond"}, busy : Rows, row : Rows,
     fill : 0 .. Fills, mixed : BOOLEAN]

RunType ==
    [tab : Tabs \cup {None}, page : AllPages, act : ActNames, row : Rows, fill : 0 .. Fills,
     editing : Rows, at : Stages, waiting : Nat, session : 0 .. sessions, accepted : BOOLEAN,
     read : BOOLEAN, rows : SUBSET FirstRows, effects : Seq(Runs), beside : SUBSET Runs,
     mixed : BOOLEAN]

TypeOK ==
    /\ sessions \in Nat /\ stored \in 0 .. sessions /\ valid \subseteq 1 .. sessions
    /\ rows \subseteq FirstRows /\ effects \in Seq(Runs) /\ typed \in Seq(Rows)
    /\ tab \in [Tabs -> TabType] /\ run \in Seq(RunType)
    /\ faults \in 0 .. MaxFaults

(* A page at rest without an error message shows its own acts, those that  *)
(* ended well and those that took effect but failed, unless two of its     *)
(* loads overlapped: they are applied in the order of the answers.         *)
ActsAreShown ==
    \A t \in Tabs : \A r \in Runs :
        /\ run[r].tab = t /\ run[r].act \notin {"open", "sign-in"}
        /\ run[r].at = "ended" \/ \E k \in DOMAIN effects : effects[k] = r
        /\ \A q \in Runs : run[q].tab = t => run[q].at = "ended" \/ Stopped(run[q])
        /\ ~tab[t].error /\ ~tab[t].mixed
        => \E k \in DOMAIN tab[t].effects : tab[t].effects[k] = r

(* The status of the complaint of q was set again after its response: the  *)
(* button for it works while the response is under way.                    *)
Reopened(q) ==
    \E k, l \in DOMAIN effects :
        /\ k < l /\ effects[k] = q
        /\ run[effects[l]].row = run[q].row /\ run[effects[l]].act = "set-status"

(* A form goes out again only after its submission failed, or, where it is *)
(* kept, once the earlier submission is over; a response also beside the   *)
(* first, by its other button, from a list that is old, or when the        *)
(* complaint was put in progress after it.                                 *)
SentOnce ==
    \A r \in Runs : \A q \in 1 .. r - 1 :
        run[q].fill = run[r].fill /\ run[r].fill # None =>
            \/ Stopped(run[q])
            \/ run[r].page.keeps /\ q \notin run[r].beside
            \/ run[r].act = "respond" /\ (q \in run[r].beside \/ run[r].mixed \/ Reopened(q))

(* An update or a response goes out for the row that its form was filled   *)
(* for.                                                                    *)
SentWasTyped ==
    \A r \in Runs : run[r].fill # None => typed[run[r].fill] = run[r].row

(* A session that the server accepts ends by a logout, or by the answer to *)
(* a call that was made with an earlier one.                               *)
EndsForCause ==
    \/ \E t \in Tabs : Logout(t)
    \/ \E r \in Runs : run[r].session # stored /\ Denied(r)

SessionStays == [][stored' = None /\ stored \in valid => EndsForCause]_vars
=============================================================================
