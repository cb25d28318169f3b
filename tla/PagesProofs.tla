---------------------------- MODULE PagesProofs ----------------------------
(***************************************************************************)
(* Theorems about Pages, for any tabs, rows and pages, and any number of   *)
(* runs, fillings, sessions and failed calls.                              *)
(***************************************************************************)
EXTENDS Pages, FiniteSetTheorems, WellFoundedInduction, TLAPS

Live(x)  == x.at # "ended" /\ ~Stopped(x)
Saves(x) == x.act \in {"submit", "submit-and-publish", "sign-in"}
IsAct(x) == x.act \notin {"open", "sign-in"}

In(q, s)     == \E k \in DOMAIN s : s[k] = q
Begins(a, b) == \A k \in DOMAIN a : k \in DOMAIN b /\ a[k] = b[k]

(* Which runs are on which pages, and where they can be.                   *)
PagesOK ==
    /\ \A r \in Runs : LET x == run[r] IN
          /\ x.tab # None => tab[x.tab].page = x.page \/ (x.page.guard /\ Stopped(x))
          /\ x.act = "open" \/ x.act \in x.page.acts \ {"edit"}
          /\ x.at # "begun" /\ (x.at \in {"acting", "publishing"} => x.act # "open")
          /\ x.at = "publishing" => x.act = "submit-and-publish"
          /\ x.at = "loading" => x.act # "sign-in"
          /\ x.at \in {"detailing", "checking"} => x.page.acts = {}
          /\ x.at \in {"acting", "publishing", "loading"} => x.waiting > 0
          /\ x.at = "ended" => x.waiting = 0
    /\ \A q, r \in Runs :
          run[q].tab = run[r].tab /\ run[q].tab # None /\ run[q].act = "open" /\ run[r].act = "open"
          => q = r

(* A form is filled for the row selected, or edited.                       *)
TypedOK ==
    /\ \A t \in Tabs : tab[t].fill # None => typed[tab[t].fill] = Selected(tab[t])
    /\ SentWasTyped

(* Who is submitting a form, or signing in, has the button disabled.       *)
SavingOK ==
    /\ \A r \in Runs : Saves(run[r]) /\ Live(run[r]) /\ run[r].tab # None =>
                           "saving" \in tab[run[r].tab].flags
    /\ \A q, r \in Runs :
          /\ run[q].tab = run[r].tab /\ run[q].tab # None
          /\ Saves(run[q]) /\ Live(run[q]) /\ Saves(run[r]) /\ Live(run[r])
          => q = r

(* A filling that is still in the form was sent by nobody, or by its tab:  *)
(* a submission that is under way, or of a form that is kept, or a response. *)
FilledOK ==
    /\ \A t, u \in Tabs : tab[t].fill = tab[u].fill /\ tab[t].fill # None => t = u
    /\ \A r \in Runs : run[r].fill # None => Filled(run[r].act)
    /\ \A t \in Tabs : \A q \in Runs :
          tab[t].fill = run[q].fill /\ tab[t].fill # None /\ ~Stopped(run[q]) =>
              /\ run[q].tab = t
              /\ run[q].act # "respond" =>
                    run[q].at \in {"acting", "publishing"} \/ run[q].page.keeps

(* What has been read of the effects; a run that loads has had its own.    *)
EffectsOK ==
    /\ \A t \in Tabs : Begins(tab[t].effects, effects)
    /\ \A r \in Runs : LET x == run[r] IN
          /\ Begins(x.effects, effects)
          /\ x.at \in {"acting", "publishing"} => ~x.read
          /\ IsAct(x) /\ x.at \in {"publishing", "loading", "ended"} => In(r, effects)
          /\ IsAct(x) /\ x.at = "loading" /\ x.read => In(r, x.effects)

(* Run x is going to load a list with the effect of r.                     *)
Brings(x, r) == x.at \in {"acting", "publishing"} \/ (x.at = "loading" /\ (~x.read \/ In(r, x.effects)))

(* On a page whose loads did not overlap, what an act has done is shown, or *)
(* on its way, or there is an error message.                               *)
ShownOK ==
    \A t \in Tabs : ~tab[t].mixed /\ tab[t].page.acts \ {"sign-in"} # {} =>
        /\ \A q, r \in Loading(t) : q = r
        /\ \A r \in Loading(t) : run[r].read => Begins(tab[t].effects, run[r].effects)
        /\ \A r \in Runs : run[r].tab = t /\ IsAct(run[r]) =>
              /\ run[r].at = "ended" => In(r, tab[t].effects)
              /\ In(r, effects) => \/ In(r, tab[t].effects) \/ tab[t].error
                                   \/ \E s \in Runs : run[s].tab = t /\ Brings(run[s], r)

PageInv ==
    TypeOK /\ PagesOK /\ TypedOK /\ SavingOK /\ FilledOK /\ EffectsOK /\ ShownOK
-----------------------------------------------------------------------------
(* A finite set of numbers has a highest. *)
LEMMA Highest ==
    ASSUME NEW S \in SUBSET Nat, IsFiniteSet(S), S # {}
    PROVE  \E n \in S : \A m \in S : m <= n
  <1> DEFINE Flat(Q) == \A n \in Q : \E m \in Q : m > n
             Sizes == {n \in Nat : \E Q \in SUBSET Nat :
                          IsFiniteSet(Q) /\ Cardinality(Q) = n /\ Q # {} /\ Flat(Q)}
  <1>1. Sizes = {}
    <2> SUFFICES ASSUME Sizes # {} PROVE FALSE OBVIOUS
    <2>1. PICK n \in Sizes : \A m \in Sizes : ~(<<m, n>> \in OpToRel(<, Nat))
      BY NatLessThanWellFounded, WFMin
    <2>2. \A m \in Sizes : ~(m < n) BY <2>1 DEF OpToRel
    <2>3. PICK Q \in SUBSET Nat : IsFiniteSet(Q) /\ Cardinality(Q) = n /\ Q # {} /\ Flat(Q)
      BY <2>1
    <2>4. PICK x \in Q : TRUE BY <2>3
    <2> DEFINE R == Q \ {x}
    <2>5. IsFiniteSet(R) /\ Cardinality(R) = n - 1 BY <2>3, <2>4, FS_RemoveElement
    <2>6. n - 1 \in Nat BY <2>5, FS_CardinalityType
    <2>7. R # {}
      <3>1. PICK m \in Q : m > x BY <2>3, <2>4
      <3> QED BY <2>3, <3>1
    <2>8. Flat(R)
      <3> SUFFICES ASSUME NEW k \in R PROVE \E m \in R : m > k OBVIOUS
      <3>1. PICK m \in Q : m > k BY <2>3
      <3>2. PICK l \in Q : l > m BY <2>3
      <3> QED BY <2>3, <3>1, <3>2
    <2>9. n - 1 \in Sizes BY <2>5, <2>6, <2>7, <2>8
    <2> QED BY <2>2, <2>6, <2>9
  <1>2. ~Flat(S) BY <1>1, FS_CardinalityType
  <1>3. PICK n \in S : ~ \E m \in S : m > n BY <1>2
  <1>4. \A m \in S : m <= n BY <1>3
  <1> QED BY <1>4

(* The pages without acts, and those with forms and row buttons.           *)
Plain(p)      == p \in [calls : Nat, details : BOOLEAN, last : BOOLEAN, acts : {{}},
                         keeps : {FALSE}, guard : BOOLEAN]
Form(p, acts) ==
    p.calls = 1 /\ p.details = FALSE /\ p.last = FALSE /\ p.guard = FALSE /\ p.acts = acts
Forms == {{"submit"}, {"submit", "submit-and-publish", "archive"}, {"set-status", "respond"},
          {"submit", "edit", "delete"}}

LEMMA PagesAre ==
    /\ LoginPage.calls = 0 /\ LoginPage.details = FALSE /\ LoginPage.last = FALSE
    /\ LoginPage.guard = FALSE /\ LoginPage.acts = {"sign-in"}
    /\ \A p \in AllPages : p = LoginPage \/ Plain(p) \/ \E acts \in Forms : Form(p, acts)
  <1>1. /\ Plain(SuperAdminAuditLogs) /\ Plain(HokimiyatComplaints) /\ Plain(HokimiyatWorktime)
        /\ Plain(ResidentEvents) /\ Plain(PanelUsers) /\ Plain(PanelOverview)
        /\ Plain(HokimiyatAnalytics) /\ Plain(MahallaDashboard) /\ Plain(ResidentDashboard)
        /\ Plain(HokimiyatMahallas) /\ Plain(HokimiyatDashboard) /\ Plain(SuperAdminDashboard)
    BY DEF Plain, List, SuperAdminAuditLogs, HokimiyatComplaints, HokimiyatWorktime,
       ResidentEvents, PanelUsers, PanelOverview, HokimiyatAnalytics, MahallaDashboard,
       ResidentDashboard, HokimiyatMahallas, HokimiyatDashboard, SuperAdminDashboard
  <1>2. /\ Plain(PanelMahallaDashboard) /\ Plain(PanelResidentDashboard)
        /\ Plain(PanelHokimiyatDashboard) /\ Plain(PanelSuperAdminDashboard)
    BY <1>1 DEF Plain, PanelMahallaDashboard, PanelResidentDashboard, PanelHokimiyatDashboard,
       PanelSuperAdminDashboard
  <1>3. /\ Form(MahallaEvents, {"submit"}) /\ Form(MahallaReports, {"submit"})
        /\ Form(MahallaWorktime, {"submit"}) /\ Form(ResidentComplaints, {"submit"})
        /\ Form(ResidentReports, {"submit"})
        /\ Form(MahallaPosts, {"submit", "submit-and-publish", "archive"})
        /\ Form(MahallaComplaints, {"set-status", "respond"})
        /\ Form(SuperAdminUsers, {"submit", "edit", "delete"})
        /\ Form(SuperAdminMahallas, {"submit", "edit", "delete"})
    BY DEF Form, List, MahallaEvents, MahallaReports, MahallaWorktime, ResidentComplaints,
       ResidentReports, MahallaPosts, MahallaComplaints, SuperAdminUsers, SuperAdminMahallas
  <1>4. /\ LoginPage.calls = 0 /\ LoginPage.details = FALSE /\ LoginPage.last = FALSE
        /\ LoginPage.guard = FALSE /\ LoginPage.acts = {"sign-in"}
    BY DEF LoginPage, List
  <1>5. \A p \in AllPages : p = LoginPage \/ Plain(p) \/ \E acts \in Forms : Form(p, acts)
    <2>1. /\ {"submit"} \in Forms /\ {"submit", "submit-and-publish", "archive"} \in Forms
          /\ {"set-status", "respond"} \in Forms /\ {"submit", "edit", "delete"} \in Forms
      BY DEF Forms
    <2> DEFINE Some(p) == \E acts \in Forms : Form(p, acts)
    <2>2. /\ Some(MahallaEvents) /\ Some(MahallaReports) /\ Some(MahallaWorktime)
          /\ Some(ResidentComplaints) /\ Some(ResidentReports) /\ Some(MahallaPosts)
          /\ Some(MahallaComplaints) /\ Some(SuperAdminUsers) /\ Some(SuperAdminMahallas)
      BY <1>3, <2>1
    <2> HIDE DEF Some
    <2>3. ASSUME NEW p \in AllPages PROVE p = LoginPage \/ Plain(p) \/ Some(p)
      BY <1>1, <1>2, <2>2 DEF AllPages, PanelSuperAdminLogin, PanelMahallaLogin,
         PanelHokimiyatLogin, PanelResidentLogin
    <2> QED BY <2>3 DEF Some
  <1> QED BY <1>4, <1>5

(* What they offer.                                                        *)
Sound(p) ==
    /\ p.calls \in Nat
    /\ p.details \/ p.last \/ p.guard => p.acts = {}
    /\ "respond" \in p.acts \/ "set-status" \in p.acts => p.acts = {"set-status", "respond"}
    /\ "sign-in" \in p.acts => p.acts = {"sign-in"}
    /\ p.acts \ {"sign-in"} # {} => p.calls = 1
    /\ "edit" \in p.acts \/ "submit-and-publish" \in p.acts => "submit" \in p.acts
    /\ "open" \notin p.acts

LEMMA PageFacts == \A p \in AllPages : Sound(p)
  <1>1. Sound(LoginPage)
    <2>1. /\ LoginPage.calls = 0 /\ LoginPage.details = FALSE /\ LoginPage.last = FALSE
          /\ LoginPage.guard = FALSE /\ LoginPage.acts = {"sign-in"}
      BY PagesAre
    <2> QED BY <2>1 DEF Sound
  <1>2. ASSUME NEW p, Plain(p) PROVE Sound(p) BY <1>2 DEF Plain, Sound
  <1>3. ASSUME NEW p, NEW acts \in Forms, Form(p, acts) PROVE Sound(p)
    BY <1>3 DEF Form, Forms, Sound
  <1> QED BY <1>1, <1>2, <1>3, PagesAre
-----------------------------------------------------------------------------
(* The newest of finitely many is one of them, and none is newer. *)
LEMMA NewestIs ==
    ASSUME NEW S \in SUBSET Nat, IsFiniteSet(S), S # {}
    PROVE  Newest(S) \in S /\ \A n \in S : n <= Newest(S)
  BY Highest DEF Newest

(* The row selected is one there is, or none. *)
LEMMA SelectedIs ==
    ASSUME NEW T \in TabType
    PROVE  Selected(T) \in Rows /\ ("respond" \notin T.page.acts => Selected(T) = T.row)
  <1>1. T.rows \in SUBSET FirstRows /\ T.row \in Rows BY DEF TabType
  <1>2. T.rows # {} => Newest(T.rows) \in T.rows
    BY <1>1, NewestIs, FS_Subset, PagesAssumption
  <1> QED BY <1>1, <1>2 DEF Selected, Rows

(* It depends on the list and on the row clicked. *)
LEMMA SelectedStays ==
    ASSUME NEW T, NEW U, U.page = T.page, U.rows = T.rows, U.row = T.row
    PROVE  Selected(U) = Selected(T)
  BY DEF Selected

(* What the page U has from the page T. *)
Keeps(T, U) ==
    /\ U \in TabType /\ U.page = T.page /\ U.rows = T.rows /\ U.effects = T.effects
    /\ U.row = T.row /\ U.fill = T.fill

LEMMA FinishIs ==
    ASSUME NEW T \in TabType, NEW x \in RunType
    PROVE  /\ Keeps(T, Finish(T, x)) /\ Finish(T, x).error = T.error
           /\ Finish(T, x).mixed = T.mixed /\ Finish(T, x).flags = T.flags \ Flag(x.act)
  BY DEF TabType, Finish, Keeps, None, Rows

LEMMA UnveiledIs ==
    ASSUME NEW T \in TabType
    PROVE  /\ Keeps(T, Unveiled(T)) /\ Unveiled(T).error = T.error
           /\ Unveiled(T).mixed = T.mixed /\ Unveiled(T).flags = T.flags \ {"loading"}
  BY DEF TabType, Unveiled, Keeps

LEMMA VeiledIs ==
    ASSUME NEW T \in TabType
    PROVE  /\ Keeps(T, Veiled(T)) /\ Veiled(T).error = T.error /\ Veiled(T).mixed = T.mixed
           /\ Veiled(T).flags \cup {"loading"} = T.flags \cup {"loading"}
  BY DEF TabType, Veiled, Keeps

LEMMA ReloadIs ==
    ASSUME NEW T \in TabType, NEW x
    PROVE  /\ Keeps(T, Reload(T, x)) /\ Reload(T, x).error = FALSE
           /\ Reload(T, x).mixed <=> T.mixed \/ Loading(x.tab) # {}
           /\ Reload(T, x).flags \cup {"loading"} = T.flags \cup {"loading"}
  <1> DEFINE V == Veiled(T)
             loads == Loading(x.tab) # {}
  <1>1. V \in TabType BY VeiledIs DEF Keeps
  <1>2. Reload(T, x) = [V EXCEPT !.error = FALSE, !.mixed = @ \/ loads] BY DEF Reload
  <1>3. loads \in BOOLEAN OBVIOUS
  <1> HIDE DEF V, loads
  <1>4. PICK m \in BOOLEAN : m <=> V.mixed \/ loads BY <1>3
  <1>5. Reload(T, x) = [V EXCEPT !.error = FALSE, !.mixed = m] BY <1>1, <1>2, <1>3, <1>4 DEF TabType
  <1>6. /\ Reload(T, x) \in TabType /\ Reload(T, x).mixed = m
        /\ Reload(T, x).page = V.page /\ Reload(T, x).rows = V.rows
        /\ Reload(T, x).effects = V.effects /\ Reload(T, x).row = V.row
        /\ Reload(T, x).fill = V.fill /\ Reload(T, x).error = FALSE
        /\ Reload(T, x).flags = V.flags
    BY <1>1, <1>5 DEF TabType
  <1> QED BY <1>4, <1>6, VeiledIs DEF Keeps, V, loads

LEMMA ClearedIs ==
    ASSUME NEW T \in TabType, typed \in Seq(Rows)
    PROVE  /\ Cleared(T) \in TabType /\ Cleared(T).page = T.page /\ Cleared(T).rows = T.rows
           /\ Cleared(T).effects = T.effects /\ Cleared(T).error = T.error
           /\ Cleared(T).mixed = T.mixed /\ Cleared(T).flags = T.flags /\ Cleared(T).fill = None
  <1>1. 0 \in 0 .. Fills BY DEF Fills
  <1> QED BY <1>1 DEF TabType, Cleared, None, Rows

LEMMA FreshIs ==
    ASSUME NEW page \in AllPages, typed \in Seq(Rows)
    PROVE  /\ Fresh(page) \in TabType /\ Fresh(page).page = page /\ Fresh(page).fill = None
           /\ Fresh(page).effects = <<>> /\ ~Fresh(page).mixed /\ Fresh(page).flags = {}
           /\ ~Fresh(page).error
  <1>1. <<>> \in Seq(Runs) /\ 0 \in 0 .. Fills BY DEF Fills
  <1> QED BY <1>1 DEF Fresh, TabType, None, Rows

LEMMA ShownIs ==
    ASSUME NEW T \in TabType, NEW x, x.act \in ActNames, typed \in Seq(Rows)
    PROVE  /\ Shown(T, x) \in TabType
           /\ ~Stopped(x) => Shown(T, x) = T
           /\ Stopped(x) =>
                 \/ x.at = "denied" /\ T.page.guard /\ Shown(T, x) = Fresh(LoginPage)
                 \/ /\ Keeps(T, Shown(T, x)) /\ Shown(T, x).error
                    /\ Shown(T, x).mixed = T.mixed
                    /\ Shown(T, x).flags = T.flags \ Flag(x.act)
  <1>1. CASE ~Stopped(x) BY <1>1 DEF Shown
  <1>2. CASE Stopped(x) /\ x.at = "denied" /\ T.page.guard
    <2>1. LoginPage \in AllPages BY DEF AllPages
    <2> QED BY <1>2, <2>1, FreshIs DEF Shown
  <1>3. CASE Stopped(x) /\ ~(x.at = "denied" /\ T.page.guard)
    <2> DEFINE U == [Finish(T, x) EXCEPT !.error = TRUE]
    <2>1. Shown(T, x) = U BY <1>3 DEF Shown
    <2>2. /\ Keeps(T, Finish(T, x)) /\ Finish(T, x).mixed = T.mixed
          /\ Finish(T, x).flags = T.flags \ Flag(x.act)
      BY DEF TabType, Finish, Keeps, None, Rows
    <2> DEFINE F == Finish(T, x)
    <2> HIDE DEF F
    <2>3. F \in TabType /\ U = [F EXCEPT !.error = TRUE] BY <2>2 DEF F, Keeps
    <2>4. /\ U \in TabType /\ U.page = F.page /\ U.rows = F.rows /\ U.effects = F.effects
          /\ U.row = F.row /\ U.fill = F.fill /\ U.mixed = F.mixed /\ U.flags = F.flags /\ U.error
      BY <2>3 DEF TabType
    <2> HIDE DEF U
    <2> QED BY <1>3, <2>1, <2>2, <2>4 DEF Keeps, F
  <1> QED BY <1>1, <1>2, <1>3

(* The text stays only with the row selected. *)
Follows(T, U) == U.fill = None \/ (U.fill = T.fill /\ Selected(U) = Selected(T))

LEMMA FollowIs ==
    ASSUME NEW T \in TabType, NEW S \in TabType, S.fill = T.fill, typed \in Seq(Rows)
    PROVE  LET U == Follow(T, S) IN
           /\ U \in TabType /\ U.page = S.page /\ U.rows = S.rows /\ U.effects = S.effects
           /\ U.row = S.row /\ U.error = S.error /\ U.mixed = S.mixed /\ U.flags = S.flags
           /\ Follows(T, U)
  <1>1. CASE Selected(S) = Selected(T) BY <1>1 DEF Follow, Follows
  <1>2. CASE Selected(S) # Selected(T)
    <2>1. 0 \in 0 .. Fills BY DEF Fills
    <2>2. Follow(T, S) = [S EXCEPT !.fill = None] BY <1>2 DEF Follow
    <2> QED BY <2>1, <2>2 DEF TabType, None, Follows
  <1> QED BY <1>1, <1>2

LEMMA ListedIs ==
    ASSUME NEW T \in TabType, NEW x \in RunType, typed \in Seq(Rows)
    PROVE  LET U == Listed(T, x) IN
           /\ U \in TabType /\ U.page = T.page /\ U.effects = x.effects /\ U.error = T.error
           /\ U.mixed = T.mixed /\ U.flags = T.flags \ {"loading"} /\ Follows(T, U)
  <1> DEFINE S == [Unveiled(T) EXCEPT !.rows = x.rows, !.effects = x.effects]
             first == Selected([S EXCEPT !.row = None])
             R == IF "respond" \in x.page.acts /\ x.editing = None
                  THEN [S EXCEPT !.row = first] ELSE S
  <1>1. x.rows \in SUBSET FirstRows /\ x.effects \in Seq(Runs) BY DEF RunType
  <1>2. /\ S \in TabType /\ S.page = T.page /\ S.fill = T.fill /\ S.effects = x.effects
        /\ S.error = T.error /\ S.mixed = T.mixed /\ S.flags = T.flags \ {"loading"}
    BY <1>1, UnveiledIs DEF TabType, Keeps
  <1>3. [S EXCEPT !.row = None] \in TabType
    <2> HIDE DEF S
    <2> QED BY <1>2 DEF TabType, Rows
  <1>4. first \in Rows BY <1>3, SelectedIs
  <1>5. /\ R \in TabType /\ R.page = S.page /\ R.fill = S.fill /\ R.effects = S.effects
        /\ R.error = S.error /\ R.mixed = S.mixed /\ R.flags = S.flags
    <2> HIDE DEF S, first
    <2> QED BY <1>2, <1>4 DEF TabType
  <1>6. Listed(T, x) = Follow(T, R) BY DEF Listed
  <1> HIDE DEF R, S
  <1> QED BY <1>2, <1>5, <1>6, FollowIs
-----------------------------------------------------------------------------
(* What a run never changes, once it is made, but for what it reads.       *)
Same(x, y) ==
    /\ y.tab = x.tab /\ y.page = x.page /\ y.act = x.act /\ y.row = x.row /\ y.fill = x.fill
    /\ y.editing = x.editing /\ y.read = x.read /\ y.rows = x.rows /\ y.effects = x.effects
    /\ y.beside = x.beside /\ y.mixed = x.mixed

(* Types grow with what is numbered. *)
LEMMA TypesGrow ==
    ASSUME typed \in Seq(Rows), typed' \in Seq(Rows), Fills <= Fills', Runs \subseteq Runs',
           sessions \in Nat, sessions' \in Nat, sessions <= sessions'
    PROVE  TabType \subseteq TabType' /\ RunType \subseteq RunType'
  <1>1. 0 .. Fills \subseteq 0 .. Fills' /\ 0 .. sessions \subseteq 0 .. sessions' BY DEF Fills
  <1>2. Seq(Runs) \subseteq Seq(Runs')
    <2> SUFFICES ASSUME NEW s \in Seq(Runs) PROVE s \in Seq(Runs') OBVIOUS
    <2>1. \A k \in 1 .. Len(s) : s[k] \in Runs' OBVIOUS
    <2>2. Len(s) \in Nat /\ s = [k \in 1 .. Len(s) |-> s[k]] OBVIOUS
    <2> QED BY <2>1, <2>2
  <1>3. TabType \subseteq TabType' BY <1>1, <1>2 DEF TabType
  <1>4. RunType \subseteq RunType' BY <1>1, <1>2 DEF RunType
  <1> QED BY <1>3, <1>4

(* A run sends its calls, or finds that there is no session. *)
LEMMA SendIs ==
    ASSUME NEW x \in RunType', NEW at \in Stages, NEW n \in Nat, stored' \in 0 .. sessions'
    PROVE  LET y == Send(x, at, n) IN
           /\ y \in RunType' /\ Same(x, y)
           /\ \/ y.at = "denied" /\ y.waiting = x.waiting
              \/ y.at = at /\ y.waiting = n
  <1>1. (stored' \in valid) \in BOOLEAN OBVIOUS
  <1>2. CASE stored' = None BY <1>2 DEF Send, RunType, Same, Stages
  <1>3. CASE stored' # None BY <1>1, <1>3 DEF Send, RunType, Same
  <1> QED BY <1>2, <1>3

(* A run waits for one call less, or is at another stage. *)
LEMMA TickIs ==
    ASSUME NEW x \in RunType, x.waiting > 0, NEW at \in Stages
    PROVE  /\ [x EXCEPT !.waiting = @ - 1] \in RunType
           /\ Same(x, [x EXCEPT !.waiting = @ - 1])
           /\ [x EXCEPT !.waiting = @ - 1].at = x.at
           /\ [x EXCEPT !.waiting = @ - 1].waiting = x.waiting - 1
           /\ [x EXCEPT !.waiting = @ - 1, !.at = at] \in RunType
           /\ Same(x, [x EXCEPT !.waiting = @ - 1, !.at = at])
           /\ [x EXCEPT !.waiting = @ - 1, !.at = at].at = at
  <1>1. x.waiting - 1 \in Nat BY DEF RunType
  <1>2. PICK n \in Nat : n = x.waiting - 1 BY <1>1
  <1>3. /\ [x EXCEPT !.waiting = @ - 1] = [x EXCEPT !.waiting = n]
        /\ [x EXCEPT !.waiting = @ - 1, !.at = at] = [x EXCEPT !.waiting = n, !.at = at]
    BY <1>2
  <1>4. /\ [x EXCEPT !.waiting = n] \in RunType /\ Same(x, [x EXCEPT !.waiting = n])
        /\ [x EXCEPT !.waiting = n].at = x.at /\ [x EXCEPT !.waiting = n].waiting = n
    BY DEF RunType, Same
  <1>5. /\ [x EXCEPT !.waiting = n, !.at = at] \in RunType
        /\ Same(x, [x EXCEPT !.waiting = n, !.at = at])
        /\ [x EXCEPT !.waiting = n, !.at = at].at = at
    BY DEF RunType, Same
  <1> QED BY <1>2, <1>3, <1>4, <1>5

LEMMA EndedIs ==
    ASSUME NEW x \in RunType'
    PROVE  /\ Ended(x) \in RunType' /\ Same(x, Ended(x)) /\ Ended(x).at = "ended"
           /\ Ended(x).waiting = x.waiting
  BY DEF RunType, Same, Ended, Stages

(* Page T of run x, as S, when x goes on as y.                             *)
Carried(x, y, T, S) ==
    /\ S.page = T.page /\ Follows(T, S)
    /\ "saving" \in T.flags => "saving" \in S.flags \/ (Saves(x) /\ ~Live(y))

Waits(x, y, T, S) == y.at = x.at /\ S = T /\ (Stopped(x) \/ y.waiting > 0)

Fails(x, y, T, S) ==
    /\ ~Stopped(x) /\ Stopped(y)
    /\ \/ y.at = "denied" /\ T.page.guard /\ S = Fresh(LoginPage)
       \/ /\ Carried(x, y, T, S) /\ S.error /\ (T.mixed => S.mixed)
          /\ S.effects = T.effects \/ (x.page.last /\ S.effects = x.effects)

Reloads(x, y, T, S) ==
    /\ x.at \in {"acting", "publishing"} /\ x.act # "sign-in"
    /\ y.at = "loading" /\ y.waiting = x.page.calls
    /\ Carried(x, y, T, S) /\ S.effects = T.effects
    /\ S.mixed <=> T.mixed \/ Loading(x.tab) # {}
    /\ x.act \in {"submit", "submit-and-publish"} /\ ~x.page.keeps => S.fill = None

Publishes(x, y, T, S) ==
    /\ x.at = "acting" /\ x.act = "submit-and-publish" /\ y.at = "publishing" /\ y.waiting = 1
    /\ S = T

Lists(x, y, T, S) ==
    /\ x.at \in {"loading", "detailing"} /\ y.at = "ended" /\ y.waiting = 0
    /\ Carried(x, y, T, S) /\ S.effects = x.effects /\ S.error = T.error /\ S.mixed = T.mixed

Details(x, y, T, S) ==
    /\ x.at \in {"loading", "detailing"} /\ y.at \in {"detailing", "checking"}
    /\ x.page.details \/ x.page.last
    /\ Carried(x, y, T, S) /\ S.effects \in {T.effects, x.effects} /\ S.mixed = T.mixed

Finishes(x, y, T, S) ==
    /\ ~Stopped(x) /\ (x.at = "checking" \/ x.act = "sign-in")
    /\ y.at = "ended" /\ y.waiting = 0
    /\ Carried(x, y, T, S) /\ S.effects = T.effects /\ S.error = T.error /\ S.mixed = T.mixed

Advances(x, y, T, S) ==
    \/ Waits(x, y, T, S) \/ Fails(x, y, T, S) \/ Reloads(x, y, T, S) \/ Publishes(x, y, T, S)
    \/ Lists(x, y, T, S) \/ Details(x, y, T, S) \/ Finishes(x, y, T, S)

(* Run r goes on, and its tab with it, if it still has it.                 *)
Goes(r) ==
    \E y \in RunType', S \in TabType :
        /\ Same(run[r], y) /\ Advances(run[r], y, Page(r), S)
        /\ run' = [run EXCEPT ![r] = y]
        /\ tab' = IF run[r].tab = None THEN tab ELSE [tab EXCEPT ![run[r].tab] = S]

(* What is there while a run goes on. *)
Meanwhile ==
    /\ TypeOK /\ typed' = typed
    /\ sessions' \in Nat /\ sessions <= sessions' /\ stored' \in 0 .. sessions'

LEMMA TypesStay ==
    ASSUME Meanwhile, Runs' = Runs
    PROVE  TabType \subseteq TabType' /\ RunType \subseteq RunType'
  <1>1. Fills <= Fills' BY DEF Meanwhile, TypeOK, Fills
  <1> QED BY <1>1, TypesGrow DEF Meanwhile, TypeOK

LEMMA PageIs ==
    ASSUME TypeOK, NEW r \in Runs
    PROVE  Page(r) \in TabType /\ run[r] \in RunType
           /\ (run[r].tab # None => Page(r) = tab[run[r].tab] /\ run[r].tab \in Tabs)
  <1>1. run[r] \in RunType BY DEF TypeOK, Runs
  <1>2. run[r].page \in AllPages /\ run[r].tab \in Tabs \cup {None} BY <1>1 DEF RunType
  <1>3. Fresh(run[r].page) \in TabType BY <1>2, FreshIs DEF TypeOK
  <1> QED BY <1>1, <1>2, <1>3 DEF Page, TypeOK

(* How the page T, as U, is shown as S when its run x goes on as y, or fails. *)
Looks(x, y, T, U, S) ==
    /\ ~Stopped(y) => S = U /\ Carried(x, y, T, S)
    /\ Stopped(y) => \/ y.at = "denied" /\ T.page.guard /\ S = Fresh(LoginPage)
                     \/ Carried(x, y, T, S) /\ S.error /\ S.effects = U.effects /\ S.mixed = U.mixed

LEMMA ShownCarries ==
    ASSUME typed \in Seq(Rows), NEW T, NEW U \in TabType, NEW x, NEW y,
           y.act \in ActNames, x.act = y.act, U.page = T.page, Follows(T, U),
           "saving" \in T.flags => "saving" \in U.flags
    PROVE  Looks(x, y, T, U, Shown(U, y))
  <1> DEFINE S == Shown(U, y)
  <1>1. CASE ~Stopped(y) BY <1>1, ShownIs DEF Carried, Looks
  <1>2. CASE Stopped(y)
    <2>1. "saving" \in Flag(y.act) => Saves(x) BY DEF Flag, Saves
    <2>2. ~Live(y) BY <1>2 DEF Live
    <2>3. ASSUME Keeps(U, S), S.flags = U.flags \ Flag(y.act) PROVE Carried(x, y, T, S)
      <3>1. Selected(S) = Selected(U) BY <2>3, SelectedStays DEF Keeps
      <3>2. Follows(T, S) BY <2>3, <3>1 DEF Follows, Keeps
      <3> HIDE DEF S
      <3> QED BY <2>1, <2>2, <2>3, <3>2 DEF Carried, Keeps
    <2>4. \/ y.at = "denied" /\ U.page.guard /\ S = Fresh(LoginPage)
          \/ /\ Keeps(U, S) /\ S.error /\ S.mixed = U.mixed
             /\ S.flags = U.flags \ Flag(y.act)
      BY <1>2, ShownIs
    <2> HIDE DEF S
    <2>5. ~(y.at = "denied" /\ T.page.guard /\ S = Fresh(LoginPage)) =>
             Carried(x, y, T, S) /\ S.error /\ S.effects = U.effects /\ S.mixed = U.mixed
      BY <2>3, <2>4 DEF Keeps
    <2> QED BY <1>2, <2>5 DEF S, Looks
  <1> QED BY <1>1, <1>2

LEMMA GoOnGoes ==
    ASSUME TypeOK, NEW r \in Runs, NEW y \in RunType', Same(run[r], y), NEW U \in TabType,
           GoOn(r, y, U), Advances(run[r], y, Page(r), Shown(U, y))
    PROVE  Goes(r)
  <1>1. y.act \in ActNames BY PageIs DEF Same, RunType
  <1>2. Shown(U, y) \in TabType BY <1>1, ShownIs DEF TypeOK
  <1>3. y.tab = run[r].tab BY DEF Same
  <1> QED BY <1>2, <1>3 DEF GoOn, Goes

(* The run r, with the calls it still waits for, as its handler goes on. *)
Handled(r, x) ==
    /\ r \in Runs /\ run[r].waiting > 0
    /\ x = [run[r] EXCEPT !.waiting = @ - 1] /\ x.waiting = 0 /\ ~Stopped(x)

LEMMA HandledIs ==
    ASSUME Meanwhile, Runs' = Runs, NEW r, NEW x, Handled(r, x)
    PROVE  /\ r \in Runs /\ x \in RunType /\ x \in RunType' /\ Same(run[r], x) /\ x.at = run[r].at
           /\ x.waiting = 0 /\ ~Stopped(run[r]) /\ x.act \in ActNames /\ x.page \in AllPages
           /\ x.page.calls \in Nat
  <1>1. run[r] \in RunType BY PageIs DEF Handled, Meanwhile
  <1>2. /\ x \in RunType /\ Same(run[r], x) /\ x.at = run[r].at
    <2>1. "ended" \in Stages BY DEF Stages
    <2> QED BY <1>1, <2>1, TickIs DEF Handled
  <1>3. x.act \in ActNames /\ x.page \in AllPages BY <1>2 DEF RunType
  <1> QED BY <1>2, <1>3, TypesStay, PageFacts DEF Handled, Stopped, Sound

LEMMA AfterActGoes ==
    ASSUME Meanwhile, Runs' = Runs, NEW r, NEW x, Handled(r, x),
           x.at \in {"acting", "publishing"}, x.act # "sign-in", AfterAct(r, x, Page(r))
    PROVE  Goes(r)
  <1> DEFINE T == Page(r)
             S == Emptied(T, x)
             U == Reload(S, x)
             y == Load(x)
  <1>0. /\ r \in Runs /\ x \in RunType /\ x \in RunType' /\ Same(run[r], x) /\ x.at = run[r].at
        /\ x.waiting = 0 /\ ~Stopped(run[r]) /\ x.act \in ActNames /\ x.page.calls \in Nat
    BY HandledIs
  <1>1. T \in TabType BY <1>0, PageIs DEF Meanwhile
  <1>2. /\ S \in TabType /\ S.page = T.page /\ S.effects = T.effects /\ S.mixed = T.mixed
        /\ S.flags = T.flags /\ Follows(T, S)
        /\ x.act \in {"submit", "submit-and-publish"} /\ ~x.page.keeps => S.fill = None
    <2> HIDE DEF T
    <2> QED BY <1>1, ClearedIs DEF Meanwhile, TypeOK, Follows, Emptied
  <1>3. /\ U \in TabType /\ U.page = T.page /\ U.effects = T.effects /\ Follows(T, U)
        /\ U.mixed <=> T.mixed \/ Loading(x.tab) # {}
        /\ "saving" \in T.flags => "saving" \in U.flags
        /\ x.act \in {"submit", "submit-and-publish"} /\ ~x.page.keeps => U.fill = None
    <2> HIDE DEF T, S
    <2>1. /\ Keeps(S, U) /\ U.flags \cup {"loading"} = S.flags \cup {"loading"}
          /\ U.mixed <=> S.mixed \/ Loading(x.tab) # {}
      BY <1>2, ReloadIs
    <2>2. Selected(U) = Selected(S) BY <2>1, SelectedStays DEF Keeps
    <2> HIDE DEF U
    <2> QED BY <1>2, <2>1, <2>2 DEF Keeps, Follows
  <1>4. /\ y \in RunType' /\ Same(x, y)
        /\ \/ y.at = "denied" /\ y.waiting = x.waiting
           \/ y.at = "loading" /\ y.waiting = x.page.calls
    <2>1. "loading" \in Stages BY DEF Stages
    <2> QED BY <1>0, <2>1, SendIs DEF Load, Meanwhile
  <1>5. GoOn(r, y, U) BY DEF AfterAct
  <1>6. Same(run[r], y) BY <1>0, <1>4 DEF Same
  <1> HIDE DEF T, S, U, y
  <1> DEFINE V == Shown(U, y)
  <1>7. /\ ~Stopped(y) => V = U /\ Carried(run[r], y, T, V)
        /\ Stopped(y) => \/ y.at = "denied" /\ T.page.guard /\ V = Fresh(LoginPage)
                         \/ Carried(run[r], y, T, V) /\ V.error /\ V.effects = U.effects /\ V.mixed = U.mixed
    <2>1. y.act \in ActNames /\ run[r].act = y.act BY <1>0, <1>6 DEF Same
    <2>2. typed \in Seq(Rows) BY DEF Meanwhile, TypeOK
    <2>3. Looks(run[r], y, T, U, V) BY <1>3, <2>1, <2>2, ShownCarries
    <2> QED BY <2>3 DEF Looks
  <1> HIDE DEF V
  <1>8. CASE Stopped(y)
    <2>1. Fails(run[r], y, T, V)
      BY <1>0, <1>3, <1>7, <1>8 DEF Fails
    <2> QED BY <1>0, <1>3, <1>4, <1>5, <1>6, <2>1, GoOnGoes DEF Advances, Meanwhile, T, V
  <1>9. CASE ~Stopped(y)
    <2>1. y.at = "loading" /\ y.waiting = x.page.calls BY <1>4, <1>9 DEF Stopped
    <2>2. x.tab = run[r].tab /\ x.act = run[r].act /\ x.page = run[r].page BY <1>0 DEF Same
    <2>3. Reloads(run[r], y, T, V)
      BY <1>0, <1>3, <1>7, <1>9, <2>1, <2>2 DEF Reloads
    <2> QED BY <1>0, <1>3, <1>4, <1>5, <1>6, <2>3, GoOnGoes DEF Advances, Meanwhile, T, V
  <1> QED BY <1>8, <1>9

LEMMA AfterDetailsGoes ==
    ASSUME Meanwhile, Runs' = Runs, NEW r, NEW x, Handled(r, x),
           x.at \in {"loading", "detailing"}, AfterDetails(r, x, Page(r))
    PROVE  Goes(r)
  <1> DEFINE T == Page(r)
             L == Listed(T, x)
  <1>0. /\ r \in Runs /\ x \in RunType /\ x \in RunType' /\ Same(run[r], x) /\ x.at = run[r].at
        /\ x.waiting = 0 /\ ~Stopped(run[r]) /\ x.act \in ActNames
    BY HandledIs
  <1>1. T \in TabType /\ typed \in Seq(Rows) BY <1>0, PageIs DEF Meanwhile, TypeOK
  <1>2. /\ L \in TabType /\ L.page = T.page /\ L.effects = x.effects /\ L.error = T.error
        /\ L.mixed = T.mixed /\ L.flags = T.flags \ {"loading"} /\ Follows(T, L)
    <2> HIDE DEF T
    <2> QED BY <1>0, <1>1, ListedIs
  <1>3. /\ run[r].effects = x.effects /\ run[r].act = x.act /\ run[r].page = x.page
    BY <1>0 DEF Same
  <1>4. CASE x.page.last
    <2> DEFINE y == Send(x, "checking", 1)
               V == Shown(L, y)
    <2>1. /\ y \in RunType' /\ Same(x, y)
          /\ \/ y.at = "denied" /\ y.waiting = x.waiting
             \/ y.at = "checking" /\ y.waiting = 1
      <3>1. "checking" \in Stages BY DEF Stages
      <3> QED BY <1>0, <3>1, SendIs DEF Meanwhile
    <2>2. GoOn(r, y, L) BY <1>4 DEF AfterDetails
    <2>3. Same(run[r], y) BY <1>0, <2>1 DEF Same
    <2> HIDE DEF T, L, y
    <2>4. /\ ~Stopped(y) => V = L /\ Carried(run[r], y, T, V)
          /\ Stopped(y) => \/ y.at = "denied" /\ T.page.guard /\ V = Fresh(LoginPage)
                           \/ Carried(run[r], y, T, V) /\ V.error /\ V.effects = L.effects /\ V.mixed = L.mixed
      <3>1. y.act \in ActNames /\ run[r].act = y.act BY <1>0, <1>3, <2>3 DEF Same
      <3>2. "saving" \in T.flags => "saving" \in L.flags BY <1>2
      <3>3. Looks(run[r], y, T, L, V) BY <1>1, <1>2, <3>1, <3>2, ShownCarries
      <3> QED BY <3>3 DEF Looks
    <2> HIDE DEF V
    <2>5. CASE Stopped(y)
      <3>1. Fails(run[r], y, T, V) BY <1>0, <1>2, <1>3, <1>4, <2>4, <2>5 DEF Fails
      <3> QED BY <1>0, <1>2, <2>1, <2>2, <2>3, <3>1, GoOnGoes DEF Advances, Meanwhile, T, V
    <2>6. CASE ~Stopped(y)
      <3>1. y.at = "checking" BY <2>1, <2>6 DEF Stopped
      <3>2. Details(run[r], y, T, V)
        BY <1>0, <1>2, <1>3, <1>4, <2>4, <2>6, <3>1 DEF Details
      <3> QED BY <1>0, <1>2, <2>1, <2>2, <2>3, <3>2, GoOnGoes DEF Advances, Meanwhile, T, V
    <2> QED BY <2>5, <2>6
  <1>5. CASE ~x.page.last
    <2> DEFINE y == Ended(x)
               U == Finish(L, x)
               V == Shown(U, y)
    <2>1. y \in RunType' /\ Same(x, y) /\ y.at = "ended" /\ y.waiting = 0
      BY <1>0, EndedIs
    <2>2. GoOn(r, y, U) BY <1>5 DEF AfterDetails
    <2>3. Same(run[r], y) BY <1>0, <2>1 DEF Same
    <2> HIDE DEF T, L, y
    <2>4. /\ Keeps(L, U) /\ U.error = L.error /\ U.mixed = L.mixed /\ U.flags = L.flags \ Flag(x.act)
      BY <1>0, <1>2, FinishIs
    <2>5. Selected(U) = Selected(L) BY <2>4, SelectedStays DEF Keeps
    <2> HIDE DEF U
    <2>6. ~Stopped(y) /\ ~Live(y) BY <2>1 DEF Stopped, Live
    <2>7. V = U BY <2>6 DEF Shown
    <2>8. Carried(run[r], y, T, V)
      <3>1. "saving" \in Flag(x.act) => Saves(run[r]) BY <1>3 DEF Flag, Saves
      <3> QED BY <1>2, <2>4, <2>5, <2>6, <2>7, <3>1 DEF Carried, Keeps, Follows
    <2>9. Lists(run[r], y, T, V)
      BY <1>0, <1>2, <1>3, <2>1, <2>4, <2>7, <2>8 DEF Lists, Keeps
    <2>10. U \in TabType BY <2>4 DEF Keeps
    <2> QED BY <1>0, <2>1, <2>2, <2>3, <2>9, <2>10, GoOnGoes DEF Advances, Meanwhile, T, V
  <1> QED BY <1>4, <1>5

(* A run sends the calls of its next stage, and its page stays. *)
LEMMA SendGoes ==
    ASSUME Meanwhile, Runs' = Runs, NEW r, NEW x, Handled(r, x),
           NEW at \in Stages, NEW n \in Nat, GoOn(r, Send(x, at, n), Page(r)),
           \/ at = "publishing" /\ n = 1 /\ x.at = "acting" /\ x.act = "submit-and-publish"
           \/ at = "detailing" /\ x.at = "loading" /\ x.page.details
    PROVE  Goes(r)
  <1> DEFINE T == Page(r)
             y == Send(x, at, n)
             V == Shown(T, y)
  <1>0. /\ r \in Runs /\ x \in RunType' /\ Same(run[r], x) /\ x.at = run[r].at
        /\ x.waiting = 0 /\ ~Stopped(run[r]) /\ x.act \in ActNames
    BY HandledIs
  <1>1. T \in TabType /\ typed \in Seq(Rows) BY <1>0, PageIs DEF Meanwhile, TypeOK
  <1>2. /\ y \in RunType' /\ Same(x, y)
        /\ y.at = "denied" \/ (y.at = at /\ y.waiting = n)
    BY <1>0, SendIs DEF Meanwhile
  <1>3. GoOn(r, y, T) OBVIOUS
  <1>4. Same(run[r], y) BY <1>0, <1>2 DEF Same
  <1>5. run[r].act = x.act /\ run[r].page = x.page BY <1>0 DEF Same
  <1> HIDE DEF T, y
  <1>7. /\ ~Stopped(y) => V = T /\ Carried(run[r], y, T, V)
        /\ Stopped(y) => \/ y.at = "denied" /\ T.page.guard /\ V = Fresh(LoginPage)
                         \/ Carried(run[r], y, T, V) /\ V.error /\ V.effects = T.effects /\ V.mixed = T.mixed
    <2>1. y.act \in ActNames /\ run[r].act = y.act BY <1>0, <1>4, <1>5 DEF Same
    <2>2. T.page = T.page /\ Follows(T, T) BY DEF Follows
    <2>3. Looks(run[r], y, T, T, V) BY <1>1, <2>1, <2>2, ShownCarries
    <2> QED BY <2>3 DEF Looks
  <1> HIDE DEF V
  <1>8. CASE Stopped(y)
    <2>1. Fails(run[r], y, T, V) BY <1>0, <1>7, <1>8 DEF Fails
    <2> QED BY <1>0, <1>1, <1>2, <1>3, <1>4, <2>1, GoOnGoes DEF Advances, Meanwhile, T, V
  <1>9. CASE ~Stopped(y)
    <2>1. y.at = at /\ y.waiting = n BY <1>2, <1>9 DEF Stopped
    <2>2. Publishes(run[r], y, T, V) \/ Details(run[r], y, T, V)
      BY <1>0, <1>5, <1>7, <1>9, <2>1 DEF Publishes, Details
    <2> QED BY <1>0, <1>1, <1>2, <1>3, <1>4, <2>2, GoOnGoes DEF Advances, Meanwhile, T, V
  <1> QED BY <1>8, <1>9

(* A run has nothing more to do. *)
LEMMA FinishGoes ==
    ASSUME Meanwhile, Runs' = Runs, NEW r, NEW x, Handled(r, x),
           x.at = "checking" \/ x.act = "sign-in", GoOn(r, Ended(x), Finish(Page(r), x))
    PROVE  Goes(r)
  <1> DEFINE T == Page(r)
             y == Ended(x)
             U == Finish(T, x)
             V == Shown(U, y)
  <1>0. /\ r \in Runs /\ x \in RunType /\ x \in RunType' /\ Same(run[r], x) /\ x.at = run[r].at
        /\ x.waiting = 0 /\ ~Stopped(run[r]) /\ x.act \in ActNames
    BY HandledIs
  <1>1. T \in TabType BY <1>0, PageIs DEF Meanwhile
  <1>2. y \in RunType' /\ Same(x, y) /\ y.at = "ended" /\ y.waiting = 0 BY <1>0, EndedIs
  <1>3. GoOn(r, y, U) OBVIOUS
  <1>4. Same(run[r], y) BY <1>0, <1>2 DEF Same
  <1>5. run[r].act = x.act BY <1>0 DEF Same
  <1> HIDE DEF T, y
  <1>6. /\ Keeps(T, U) /\ U.error = T.error /\ U.mixed = T.mixed /\ U.flags = T.flags \ Flag(x.act)
    BY <1>0, <1>1, FinishIs
  <1>7. Selected(U) = Selected(T) BY <1>6, SelectedStays DEF Keeps
  <1> HIDE DEF U
  <1>8. ~Stopped(y) /\ ~Live(y) BY <1>2 DEF Stopped, Live
  <1>9. V = U BY <1>8 DEF Shown
  <1>10. Carried(run[r], y, T, V)
    <2>1. "saving" \in Flag(x.act) => Saves(run[r]) BY <1>5 DEF Flag, Saves
    <2> QED BY <1>6, <1>7, <1>8, <1>9, <2>1 DEF Carried, Keeps, Follows
  <1>11. Finishes(run[r], y, T, V)
    BY <1>0, <1>2, <1>5, <1>6, <1>9, <1>10 DEF Finishes, Keeps
  <1>12. U \in TabType BY <1>6 DEF Keeps
  <1> QED BY <1>0, <1>2, <1>3, <1>4, <1>11, <1>12, GoOnGoes DEF Advances, Meanwhile, T, V

(* An answer moves its run by one of these steps. *)
LEMMA ProceedGoes ==
    ASSUME Meanwhile, PagesOK, NEW r \in Runs, run[r].waiting > 0, Proceed(r)
    PROVE  Runs' = Runs /\ Goes(r)
  <1> DEFINE x == [run[r] EXCEPT !.waiting = @ - 1]
             T == Page(r)
  <1>1. Runs' = Runs
    <2> HIDE DEF x, T
    <2>1. \A y, S : GoOn(r, y, S) => Runs' = Runs BY DEF GoOn, Runs
    <2>2. Stopped(x) \/ x.waiting > 0 \/ Succeeded(r, x, T) BY DEF Proceed, x, T
    <2>3. ASSUME Succeeded(r, x, T) PROVE Runs' = Runs
      BY <2>1, <2>3 DEF Succeeded, AfterAct, AfterList, AfterDetails
    <2>4. Stopped(x) \/ x.waiting > 0 => Runs' = Runs BY DEF Proceed, x, Runs
    <2> QED BY <2>2, <2>3, <2>4
  <1>2. T \in TabType /\ run[r] \in RunType /\ (run[r].tab # None => T = tab[run[r].tab] /\ run[r].tab \in Tabs)
    BY PageIs DEF Meanwhile
  <1>3. /\ x \in RunType /\ Same(run[r], x) /\ x.at = run[r].at /\ x.waiting = run[r].waiting - 1
    <2>1. "ended" \in Stages BY DEF Stages
    <2> QED BY <1>2, <2>1, TickIs
  <1>4. x \in RunType' BY <1>1, <1>3, TypesStay
  <1>5. CASE Stopped(x) \/ x.waiting > 0
    <2>1. run' = [run EXCEPT ![r] = x] /\ tab' = tab BY <1>5 DEF Proceed
    <2>2. Stopped(x) <=> Stopped(run[r]) BY <1>3 DEF Stopped
    <2> HIDE DEF x, T
    <2>3. Waits(run[r], x, T, T) BY <1>3, <1>5, <2>2 DEF Waits
    <2>4. tab' = IF run[r].tab = None THEN tab ELSE [tab EXCEPT ![run[r].tab] = T]
      BY <1>2, <2>1 DEF Meanwhile, TypeOK
    <2>5. Advances(run[r], x, T, T) BY <2>3 DEF Advances
    <2>6. Goes(r) BY <1>2, <1>3, <1>4, <2>1, <2>4, <2>5 DEF Goes, T
    <2> QED BY <1>1, <2>6
  <1>6. CASE ~(Stopped(x) \/ x.waiting > 0)
    <2>1. Succeeded(r, x, T) BY <1>6 DEF Proceed
    <2> HIDE DEF x
    <2>2. x.waiting = 0 /\ ~Stopped(x)
      <3>1. x.waiting \in Nat BY <1>3 DEF RunType
      <3> QED BY <1>6, <3>1
    <2>3. Handled(r, x) BY <2>2 DEF Handled, x
    <2>4. /\ x.at # "begun" /\ x.at # "ended" /\ x.at # "failed" /\ x.at # "denied"
          /\ x.at = "publishing" => x.act = "submit-and-publish"
      <3>1. run[r].waiting # 0 BY <1>2 DEF RunType
      <3>2. x.act = run[r].act BY <1>3 DEF Same
      <3> QED BY <1>3, <2>2, <3>1, <3>2 DEF PagesOK, Stopped
    <2>5. CASE x.at = "publishing"
      <3>1. AfterAct(r, x, T) BY <2>1, <2>5 DEF Succeeded
      <3> QED BY <1>1, <2>3, <2>4, <2>5, <3>1, AfterActGoes
    <2>6. CASE x.at = "loading"
      <3>1. AfterList(r, x, T) BY <2>1, <2>6 DEF Succeeded
      <3>2. CASE x.page.details /\ x.rows # {} /\ stored' # None
        <4>1. GoOn(r, Send(x, "detailing", Cardinality(x.rows)), T) BY <3>1, <3>2 DEF AfterList
        <4>2. Cardinality(x.rows) \in Nat
          <5>1. x.rows \subseteq FirstRows BY <1>3 DEF RunType
          <5> QED BY <5>1, FS_Subset, FS_CardinalityType, PagesAssumption
        <4>3. "detailing" \in Stages BY DEF Stages
        <4>4. Goes(r) BY <1>1, <2>3, <2>6, <3>2, <4>1, <4>2, <4>3, SendGoes
        <4> QED BY <1>1, <4>4
      <3>3. CASE ~(x.page.details /\ x.rows # {} /\ stored' # None)
        <4>1. AfterDetails(r, x, T) BY <3>1, <3>3 DEF AfterList
        <4>2. Goes(r) BY <1>1, <2>3, <2>6, <4>1, AfterDetailsGoes
        <4> QED BY <1>1, <4>2
      <3> QED BY <3>2, <3>3
    <2>7. CASE x.at = "detailing"
      <3>1. AfterDetails(r, x, T) BY <2>1, <2>7 DEF Succeeded
      <3>2. Goes(r) BY <1>1, <2>3, <2>7, <3>1, AfterDetailsGoes
      <3> QED BY <1>1, <3>2
    <2>8. CASE x.at = "acting" /\ x.act = "submit-and-publish"
      <3>1. GoOn(r, Send(x, "publishing", 1), T) BY <2>1, <2>8 DEF Succeeded
      <3>2. "publishing" \in Stages BY DEF Stages
      <3>3. Goes(r) BY <1>1, <2>3, <2>8, <3>1, <3>2, SendGoes
      <3> QED BY <1>1, <3>3
    <2>9. CASE x.at = "acting" /\ x.act \notin {"submit-and-publish", "sign-in"}
      <3>1. AfterAct(r, x, T) BY <2>1, <2>9 DEF Succeeded
      <3> QED BY <1>1, <2>3, <2>9, <3>1, AfterActGoes
    <2>10. CASE x.at = "checking" \/ (x.at = "acting" /\ x.act = "sign-in")
      <3>1. GoOn(r, Ended(x), Finish(T, x)) BY <2>1, <2>10 DEF Succeeded
      <3>2. Goes(r) BY <1>1, <2>3, <2>10, <3>1, FinishGoes
      <3> QED BY <1>1, <3>2
    <2>11. x.at \in Stages BY <1>3 DEF RunType
    <2> QED BY <2>4, <2>5, <2>6, <2>7, <2>8, <2>9, <2>10, <2>11 DEF Stages
  <1> QED BY <1>5, <1>6

(* So does a failure. *)
LEMMA OverGoes ==
    ASSUME Meanwhile, PagesOK, NEW r \in Runs, run[r].waiting > 0,
           NEW at \in {"denied", "failed"}, Over(r, at)
    PROVE  /\ Runs' = Runs /\ Goes(r)
           /\ run[r].at \in {"acting", "publishing"} => Stopped(run'[r])
  <1> DEFINE T == Page(r)
             y == [run[r] EXCEPT !.waiting = @ - 1, !.at = at]
             U == IF run[r].at = "loading" THEN Unveiled(T) ELSE T
             V == Shown(U, y)
  <1>1. T \in TabType /\ run[r] \in RunType BY PageIs DEF Meanwhile
  <1>2. CASE run[r].at = "detailing" \/ Stopped(run[r])
    <2>1. Proceed(r) BY <1>2 DEF Over
    <2>2. run[r].at \notin {"acting", "publishing"} BY <1>2 DEF Stopped
    <2> QED BY <2>1, <2>2, ProceedGoes
  <1>3. CASE ~(run[r].at = "detailing" \/ Stopped(run[r]))
    <2>1. GoOn(r, y, U) BY <1>3 DEF Over
    <2>2. Runs' = Runs /\ run'[r] = y
      <3> HIDE DEF y, U
      <3>1. run' = [run EXCEPT ![r] = y] BY <2>1 DEF GoOn
      <3> QED BY <3>1 DEF Runs
    <2>3. y \in RunType /\ Same(run[r], y) /\ y.at = at
      <3>1. at \in Stages BY DEF Stages
      <3> QED BY <1>1, <3>1, TickIs
    <2>4. Stopped(y) BY <2>3 DEF Stopped
    <2>5. y \in RunType' BY <2>2, <2>3, TypesStay
    <2>6. /\ U \in TabType /\ U.page = T.page /\ U.effects = T.effects /\ U.mixed = T.mixed
          /\ Follows(T, U)
          /\ "saving" \in T.flags => "saving" \in U.flags
      <3>1. CASE run[r].at = "loading"
        <4> DEFINE W == Unveiled(T)
        <4>1. Keeps(T, W) /\ W.mixed = T.mixed /\ W.flags = T.flags \ {"loading"}
          BY <1>1, UnveiledIs
        <4>2. Selected(W) = Selected(T) BY <4>1, SelectedStays DEF Keeps
        <4>3. U = W BY <3>1
        <4> HIDE DEF W, U, T
        <4> QED BY <4>1, <4>2, <4>3 DEF Keeps, Follows
      <3>2. CASE run[r].at # "loading" BY <1>1, <3>2 DEF Follows
      <3> QED BY <3>1, <3>2
    <2>7. y.act = run[r].act /\ y.act \in ActNames BY <1>1, <2>3 DEF Same, RunType
    <2>8. typed \in Seq(Rows) BY DEF Meanwhile, TypeOK
    <2> HIDE DEF T, U, y
    <2>9. \/ y.at = "denied" /\ T.page.guard /\ V = Fresh(LoginPage)
          \/ Carried(run[r], y, T, V) /\ V.error /\ V.effects = U.effects /\ V.mixed = U.mixed
      <3>1. Looks(run[r], y, T, U, V) BY <2>6, <2>7, <2>8, ShownCarries
      <3> QED BY <2>4, <3>1 DEF Looks
    <2> HIDE DEF V
    <2>10. Fails(run[r], y, T, V) BY <1>3, <2>4, <2>6, <2>9 DEF Fails
    <2>11. Goes(r)
      BY <2>1, <2>3, <2>5, <2>6, <2>10, GoOnGoes DEF Advances, Meanwhile, T, V
    <2> QED BY <2>2, <2>4, <2>11
  <1> QED BY <1>2, <1>3
-----------------------------------------------------------------------------
Calls(r) == Granted(r) \/ SignIn(r) \/ Denied(r) \/ Refused(r)

(* An act takes effect when it is carried out, and is when it has been     *)
(* answered; a list that has been answered has been read.                  *)
Grew(r) ==
    /\ \/ effects' = effects
       \/ IsAct(run[r]) /\ run[r].at = "acting" /\ effects' = Append(effects, r)
    /\ IsAct(run[r]) /\ run[r].at = "acting" /\ run'[r].at \in {"publishing", "loading"} =>
          effects' = Append(effects, r)
    /\ run[r].at = "loading" /\ run'[r].at = "ended" => run[r].read

LEMMA CallGoes ==
    ASSUME TypeOK, PagesOK, NEW r \in Runs, Calls(r)
    PROVE  /\ Meanwhile /\ Runs' = Runs /\ run[r].waiting > 0 /\ Goes(r) /\ Grew(r)
           /\ sessions' \in Nat /\ stored' \in 0 .. sessions' /\ valid' \subseteq 1 .. sessions'
           /\ rows' \subseteq FirstRows /\ effects' \in Seq(Runs) /\ typed' = typed
           /\ faults' \in 0 .. MaxFaults
  <1>1. run[r].waiting > 0 BY DEF Calls, Granted, SignIn, Denied, Refused, Waited
  <1>2. /\ typed' = typed /\ sessions' \in Nat /\ sessions <= sessions'
        /\ stored' \in 0 .. sessions' /\ valid' \subseteq 1 .. sessions'
        /\ faults' \in 0 .. MaxFaults
    <2>1. CASE Granted(r) BY <2>1 DEF Granted, TypeOK
    <2>2. CASE SignIn(r) BY <2>2 DEF SignIn, TypeOK
    <2>3. CASE Denied(r) BY <2>3 DEF Denied, Over, Remaining, TypeOK, None
    <2>4. CASE Refused(r)
      <3>1. sessions' = sessions /\ valid' = valid /\ typed' = typed BY <2>4 DEF Refused
      <3>2. stored' = stored BY <2>4 DEF Refused, Over, Remaining
      <3>3. faults' = faults + 1 /\ faults < MaxFaults BY <2>4 DEF Refused
      <3>4. faults' \in 0 .. MaxFaults BY <3>3, PagesAssumption DEF TypeOK
      <3> QED BY <3>1, <3>2, <3>4 DEF TypeOK
    <2> QED BY <2>1, <2>2, <2>3, <2>4 DEF Calls
  <1>3. Meanwhile BY <1>2 DEF Meanwhile
  <1>4. /\ \/ effects' = effects
           \/ IsAct(run[r]) /\ run[r].at = "acting" /\ effects' = Append(effects, r)
        /\ rows' \subseteq rows
        /\ Granted(r) /\ IsAct(run[r]) /\ run[r].at = "acting" => effects' = Append(effects, r)
    <2>1. run[r].at = "acting" => run[r].act # "open" BY DEF PagesOK
    <2>2. Effect(r) => /\ \/ effects' = effects
                          \/ IsAct(run[r]) /\ run[r].at = "acting" /\ effects' = Append(effects, r)
                       /\ rows' \subseteq rows
                       /\ IsAct(run[r]) /\ run[r].at = "acting" => effects' = Append(effects, r)
      BY <2>1 DEF Effect, IsAct
    <2>3. CASE Granted(r) BY <2>2, <2>3 DEF Granted
    <2>4. CASE ~Granted(r)
      <3>1. Effect(r) \/ UNCHANGED <<effects, rows>>
        BY <2>4 DEF Calls, SignIn, Denied, Refused
      <3> QED BY <2>2, <2>4, <3>1
    <2> QED BY <2>3, <2>4
  <1>5. effects' \in Seq(Runs) /\ rows' \subseteq FirstRows
    <2>1. effects \in Seq(Runs) /\ rows \subseteq FirstRows BY DEF TypeOK
    <2>2. Append(effects, r) \in Seq(Runs) BY <2>1
    <2> QED BY <1>4, <2>1, <2>2
  <1>6. /\ Runs' = Runs /\ Goes(r)
        /\ ~Granted(r) /\ IsAct(run[r]) /\ run[r].at \in {"acting", "publishing"} => Stopped(run'[r])
    <2>1. CASE Granted(r) BY <1>1, <1>3, <2>1, ProceedGoes DEF Granted
    <2>2. CASE SignIn(r) BY <1>1, <1>3, <2>2, ProceedGoes DEF SignIn, IsAct
    <2>3. CASE Denied(r) BY <1>1, <1>3, <2>3, OverGoes DEF Denied
    <2>4. CASE Refused(r) BY <1>1, <1>3, <2>4, OverGoes DEF Refused
    <2> QED BY <2>1, <2>2, <2>3, <2>4 DEF Calls
  <1>7. run[r].at = "loading" /\ run'[r].at = "ended" => run[r].read
    <2>1. CASE Granted(r) BY <2>1 DEF Granted
    <2>2. CASE SignIn(r) BY <2>2 DEF SignIn, PagesOK
    <2>3. ASSUME NEW at \in {"denied", "failed"}, Over(r, at), run[r].at = "loading"
          PROVE  run'[r].at # "ended"
      <3> DEFINE y == [run[r] EXCEPT !.waiting = @ - 1, !.at = at]
                 U == Unveiled(Page(r))
      <3>1. GoOn(r, y, U) BY <2>3 DEF Over, Stopped
      <3>2. run[r] \in RunType BY PageIs
      <3>3. at \in Stages BY DEF Stages
      <3>4. y.at = at BY <1>1, <3>2, <3>3, TickIs
      <3> HIDE DEF y, U
      <3>5. run'[r] = y BY <3>1 DEF GoOn, Runs
      <3> QED BY <3>4, <3>5
    <2>4. CASE Denied(r) BY <2>3, <2>4 DEF Denied
    <2>5. CASE Refused(r) BY <2>3, <2>5 DEF Refused
    <2> QED BY <2>1, <2>2, <2>4, <2>5 DEF Calls
  <1>8. Grew(r)
    <2>1. ASSUME IsAct(run[r]), run[r].at = "acting", run'[r].at \in {"publishing", "loading"}
          PROVE  effects' = Append(effects, r)
      <3>1. ~Stopped(run'[r]) BY <2>1 DEF Stopped
      <3> QED BY <1>4, <1>6, <2>1, <3>1
    <2> QED BY <1>4, <1>7, <2>1 DEF Grew
  <1> QED BY <1>1, <1>2, <1>3, <1>5, <1>6, <1>8

(* How the r-th run and its page change when the run goes on, where x and  *)
(* T are what they were, and y and S what they are.                        *)
Steps(r, x, y, S) ==
    /\ r \in Runs /\ Runs' = Runs /\ x = run[r] /\ y = run'[r] /\ x.waiting > 0
    /\ x \in RunType /\ y \in RunType' /\ S \in TabType /\ Page(r) \in TabType
    /\ Same(x, y) /\ Advances(x, y, Page(r), S) /\ Grew(r)
    /\ \A q \in Runs \ {r} : run'[q] = run[q]
    /\ \A t \in Tabs \ {x.tab} : tab'[t] = tab[t]
    /\ x.tab # None => x.tab \in Tabs /\ Page(r) = tab[x.tab] /\ tab'[x.tab] = S
    /\ typed' = typed

LEMMA CallSteps ==
    ASSUME TypeOK, PagesOK, NEW r \in Runs, Calls(r)
    PROVE  TypeOK' /\ \E x, y, S : Steps(r, x, y, S)
  <1>1. /\ Meanwhile /\ Runs' = Runs /\ run[r].waiting > 0 /\ Goes(r) /\ Grew(r)
        /\ sessions' \in Nat /\ stored' \in 0 .. sessions' /\ valid' \subseteq 1 .. sessions'
        /\ rows' \subseteq FirstRows /\ effects' \in Seq(Runs) /\ typed' = typed
        /\ faults' \in 0 .. MaxFaults
    BY CallGoes
  <1>2. PICK y \in RunType', S \in TabType :
           /\ Same(run[r], y) /\ Advances(run[r], y, Page(r), S)
           /\ run' = [run EXCEPT ![r] = y]
           /\ tab' = IF run[r].tab = None THEN tab ELSE [tab EXCEPT ![run[r].tab] = S]
    BY <1>1 DEF Goes
  <1>3. TabType \subseteq TabType' /\ RunType \subseteq RunType' BY <1>1, TypesStay
  <1>4. run \in Seq(RunType) /\ tab \in [Tabs -> TabType] BY DEF TypeOK
  <1>5. /\ Page(r) \in TabType /\ run[r] \in RunType
        /\ (run[r].tab # None => Page(r) = tab[run[r].tab] /\ run[r].tab \in Tabs)
    BY PageIs
  <1>6. run' \in Seq(RunType') /\ run'[r] = y /\ \A q \in Runs \ {r} : run'[q] = run[q]
    <2>1. run \in Seq(RunType') BY <1>3, <1>4
    <2>2. [run EXCEPT ![r] = y] \in Seq(RunType') BY <1>2, <2>1 DEF Runs
    <2> QED BY <1>2, <2>2 DEF Runs
  <1>7. /\ tab' \in [Tabs -> TabType'] /\ \A t \in Tabs \ {run[r].tab} : tab'[t] = tab[t]
        /\ run[r].tab # None => tab'[run[r].tab] = S
    BY <1>2, <1>3, <1>4, <1>5
  <1>8. TypeOK'
    <2>1. effects' \in Seq(Runs') BY <1>1
    <2>2. typed' \in Seq(Rows) BY <1>1 DEF TypeOK
    <2>3. sessions' \in Nat /\ stored' \in 0 .. sessions' /\ valid' \subseteq 1 .. sessions'
      BY <1>1
    <2>4. rows' \subseteq FirstRows /\ faults' \in 0 .. MaxFaults BY <1>1
    <2>5. Rows' = Rows BY DEF Rows
    <2> QED BY <1>6, <1>7, <2>1, <2>2, <2>3, <2>4, <2>5 DEF TypeOK
  <1>9. Steps(r, run[r], y, S) BY <1>1, <1>2, <1>5, <1>6, <1>7 DEF Steps
  <1> QED BY <1>8, <1>9
-----------------------------------------------------------------------------
LEMMA OpenNamed == "open" \in ActNames
  BY DEF ActNames

LEMMA NewRunIs ==
    ASSUME NEW t \in Tabs, NEW page \in AllPages, NEW act \in ActNames, NEW row \in Rows,
           typed' \in Seq(Rows), sessions' \in Nat
    PROVE  NewRun(t, page, act, row) \in RunType'
  <1>1. 0 \in 0 .. Fills' /\ 0 \in 0 .. sessions' /\ <<>> \in Seq(Runs') BY DEF Fills
  <1>2. "begun" \in Stages BY DEF Stages
  <1> QED BY <1>1, <1>2 DEF NewRun, RunType, None, Rows

(* What a run keeps when its page is left.                                 *)
Alike(x, y) ==
    /\ y.page = x.page /\ y.act = x.act /\ y.row = x.row /\ y.fill = x.fill
    /\ y.at = x.at /\ y.waiting = x.waiting /\ y.read = x.read /\ y.effects = x.effects
    /\ y.beside = x.beside /\ y.mixed = x.mixed

LEMMA DetachedIs ==
    ASSUME TypeOK, NEW t \in Tabs
    PROVE  /\ Detached(t) \in Seq(RunType) /\ Len(Detached(t)) = Len(run)
           /\ \A q \in Runs :
                 /\ Alike(run[q], Detached(t)[q])
                 /\ Detached(t)[q].tab = IF run[q].tab = t THEN None ELSE run[q].tab
  <1>1. run \in Seq(RunType) /\ Runs = 1 .. Len(run) /\ Len(run) \in Nat BY DEF TypeOK, Runs
  <1>2. ASSUME NEW q \in Runs
        PROVE  /\ Detached(t)[q] \in RunType /\ Alike(run[q], Detached(t)[q])
               /\ Detached(t)[q].tab = IF run[q].tab = t THEN None ELSE run[q].tab
    <2>1. run[q] \in RunType BY <1>1
    <2>2. Detached(t)[q] = IF run[q].tab = t THEN [run[q] EXCEPT !.tab = None] ELSE run[q]
      BY DEF Detached
    <2>3. CASE run[q].tab = t
      <3>1. PICK x \in RunType : x = run[q] BY <2>1
      <3>2. [x EXCEPT !.tab = None] \in RunType /\ Alike(x, [x EXCEPT !.tab = None])
            /\ [x EXCEPT !.tab = None].tab = None
        BY DEF RunType, Alike
      <3> QED BY <2>2, <2>3, <3>1, <3>2
    <2>4. CASE run[q].tab # t BY <2>1, <2>2, <2>4 DEF Alike
    <2> QED BY <2>3, <2>4
  <1>3. Detached(t) = [q \in 1 .. Len(run) |-> Detached(t)[q]] BY <1>1 DEF Detached
  <1>4. Detached(t) \in [1 .. Len(run) -> RunType] BY <1>1, <1>2, <1>3
  <1>5. Detached(t) \in Seq(RunType) /\ Len(Detached(t)) = Len(run)
    <2> DEFINE D == Detached(t)
    <2> HIDE DEF D
    <2>1. D \in [1 .. Len(run) -> RunType] BY <1>4 DEF D
    <2>2. D \in Seq(RunType) BY <1>1, <2>1
    <2>3. DOMAIN D = 1 .. Len(run) BY <2>1
    <2>4. Len(D) = Len(run) BY <1>1, <2>2, <2>3
    <2> QED BY <2>2, <2>4 DEF D
  <1> QED BY <1>2, <1>5

(* The run of the page S of tab t that begins its load.                    *)
Opening(x, t, S) ==
    /\ x.tab = t /\ x.act = "open" /\ x.at \in {"loading", "denied"}
    /\ S.page = x.page \/ (x.page.guard /\ Stopped(x))
    /\ x.fill = None /\ ~x.read /\ x.effects = <<>>
    /\ x.at = "loading" => x.waiting > 0

(* Tab t goes to the page S, which may load.                               *)
Leaves(t, S) ==
    /\ t \in Tabs /\ Runs \subseteq Runs'
    /\ tab'[t] = S /\ S.fill = None /\ S.effects = <<>> /\ ~S.mixed
    /\ \A u \in Tabs \ {t} : tab'[u] = tab[u]
    /\ \A q \in Runs : /\ Alike(run[q], run'[q])
                       /\ run'[q].tab = IF run[q].tab = t THEN None ELSE run[q].tab
    /\ \A q \in Runs' \ Runs : q = Len(run) + 1 /\ Opening(run'[q], t, S)
    /\ effects' = effects /\ typed' = typed

LEMMA LoginLeaves ==
    ASSUME TypeOK, NEW t \in Tabs,
           tab' = [tab EXCEPT ![t] = Fresh(LoginPage)], run' = Detached(t), stored' \in {stored, None},
           UNCHANGED <<sessions, valid, rows, effects, typed, faults>>
    PROVE  TypeOK' /\ \E S : Leaves(t, S)
  <1> DEFINE S == Fresh(LoginPage)
  <1>1. UNCHANGED <<sessions, valid, rows, effects, typed, faults>> OBVIOUS
  <1>2. /\ S \in TabType /\ S.fill = None /\ S.effects = <<>> /\ ~S.mixed
    <2>1. LoginPage \in AllPages BY DEF AllPages
    <2> QED BY <2>1, FreshIs DEF TypeOK
  <1> HIDE DEF S
  <1>3. /\ run' \in Seq(RunType) /\ Len(run') = Len(run)
        /\ \A q \in Runs : /\ Alike(run[q], run'[q])
                           /\ run'[q].tab = IF run[q].tab = t THEN None ELSE run[q].tab
    BY DetachedIs
  <1>4. Runs' = Runs
    <2>1. run \in Seq(RunType) BY DEF TypeOK
    <2>2. DOMAIN run = 1 .. Len(run) /\ DOMAIN run' = 1 .. Len(run') BY <1>3, <2>1
    <2> QED BY <1>3, <2>2 DEF Runs
  <1>5. TabType \subseteq TabType' /\ RunType \subseteq RunType'
    BY <1>1, <1>4, TypesGrow DEF TypeOK, Fills
  <1>6. tab' = [tab EXCEPT ![t] = S] BY DEF S
  <1>7. /\ tab' \in [Tabs -> TabType'] /\ tab'[t] = S /\ \A u \in Tabs \ {t} : tab'[u] = tab[u]
    BY <1>2, <1>5, <1>6 DEF TypeOK
  <1>8. TypeOK'
    <2>1. run' \in Seq(RunType') BY <1>3, <1>5
    <2>2. Rows' = Rows BY DEF Rows
    <2>3. stored' \in 0 .. sessions' BY <1>1 DEF TypeOK, None
    <2> QED BY <1>1, <1>4, <1>7, <2>1, <2>2, <2>3 DEF TypeOK
  <1>9. Leaves(t, S) BY <1>1, <1>2, <1>3, <1>4, <1>7 DEF Leaves
  <1> QED BY <1>8, <1>9

LEMMA OpenLeaves ==
    ASSUME TypeOK, NEW t \in Tabs, NEW page \in AllPages, Open(t, page)
    PROVE  TypeOK' /\ \E S : Leaves(t, S)
  <1>1. page \in AllPages BY PagesAssumption
  <1>2. UNCHANGED <<stored, sessions, valid, rows, effects, typed, faults>> BY DEF Open
  <1>3. CASE page.calls = 0 \/ (page.guard /\ stored = None)
    <2>1. tab' = [tab EXCEPT ![t] = Fresh(LoginPage)] /\ run' = Detached(t) BY <1>3 DEF Open
    <2> QED BY <1>2, <2>1, LoginLeaves
  <1>4. CASE ~(page.calls = 0 \/ (page.guard /\ stored = None))
    <2> DEFINE z == NewRun(t, page, "open", None)
               x == Load(z)
               T == Veiled(Fresh(page))
               S == Shown(T, x)
               D == Detached(t)
    <2>1. tab' = [tab EXCEPT ![t] = S] /\ run' = Append(D, x) BY <1>4 DEF Open
    <2>2. page.calls \in Nat /\ page.calls > 0
      <3>1. page.calls \in Nat BY <1>1, PageFacts DEF Sound
      <3> QED BY <1>4, <3>1
    <2>3. z \in RunType'
      <3>1. "open" \in ActNames /\ None \in Rows BY OpenNamed DEF Rows
      <3>2. typed' \in Seq(Rows) /\ sessions' \in Nat BY <1>2 DEF TypeOK
      <3> QED BY <1>1, <3>1, <3>2, NewRunIs
    <2>4. /\ z.tab = t /\ z.page = page /\ z.act = "open" /\ z.fill = None /\ ~z.read
          /\ z.effects = <<>>
      BY DEF NewRun
    <2>5. /\ x \in RunType' /\ Same(z, x)
          /\ x.at = "denied" \/ (x.at = "loading" /\ x.waiting = z.page.calls)
      <3>1. "loading" \in Stages BY DEF Stages
      <3>2. stored' \in 0 .. sessions' BY <1>2 DEF TypeOK
      <3>3. z.page.calls \in Nat BY <2>2, <2>4
      <3> HIDE DEF z
      <3> QED BY <2>3, <3>1, <3>2, <3>3, SendIs DEF Load
    <2> HIDE DEF z, x
    <2>6. /\ x.tab = t /\ x.page = page /\ x.act = "open" /\ x.fill = None /\ ~x.read
          /\ x.effects = <<>> /\ x.act \in ActNames
          /\ x.at = "denied" \/ (x.at = "loading" /\ x.waiting > 0)
      BY <2>2, <2>4, <2>5, OpenNamed DEF Same
    <2>7. typed \in Seq(Rows) BY DEF TypeOK
    <2>8. T \in TabType /\ T.page = page /\ T.fill = None /\ T.effects = <<>> /\ ~T.mixed
      <3> DEFINE F == Fresh(page)
      <3>1. /\ F \in TabType /\ F.page = page /\ F.fill = None /\ F.effects = <<>> /\ ~F.mixed
        BY <1>1, <2>7, FreshIs
      <3> HIDE DEF F
      <3>2. Keeps(F, Veiled(F)) /\ Veiled(F).mixed = F.mixed BY <3>1, VeiledIs
      <3> QED BY <3>1, <3>2 DEF Keeps, F
    <2> HIDE DEF T
    <2>9. /\ S \in TabType /\ S.fill = None /\ S.effects = <<>> /\ ~S.mixed
          /\ S.page = page \/ (page.guard /\ Stopped(x))
      <3>1. /\ S \in TabType
            /\ ~Stopped(x) => S = T
            /\ Stopped(x) => \/ x.at = "denied" /\ T.page.guard /\ S = Fresh(LoginPage)
                             \/ Keeps(T, S) /\ S.mixed = T.mixed
        BY <2>6, <2>7, <2>8, ShownIs
      <3>2. LoginPage \in AllPages BY DEF AllPages
      <3>3. CASE S = Fresh(LoginPage) /\ T.page.guard /\ Stopped(x)
        <4>1. /\ Fresh(LoginPage).fill = None /\ Fresh(LoginPage).effects = <<>>
              /\ ~Fresh(LoginPage).mixed
          BY <2>7, <3>2, FreshIs
        <4> HIDE DEF S
        <4> QED BY <2>8, <3>1, <3>3, <4>1
      <3>4. CASE ~(S = Fresh(LoginPage) /\ T.page.guard /\ Stopped(x))
        <4> HIDE DEF S
        <4> QED BY <2>8, <3>1, <3>4 DEF Keeps
      <3> QED BY <3>3, <3>4
    <2> HIDE DEF S, D
    <2>10. Opening(x, t, S) BY <2>6, <2>9 DEF Opening
    <2>11. /\ D \in Seq(RunType) /\ Len(D) = Len(run)
           /\ \A q \in Runs : /\ Alike(run[q], D[q])
                              /\ D[q].tab = IF run[q].tab = t THEN None ELSE run[q].tab
      BY DetachedIs DEF D
    <2>12. Len(run) \in Nat /\ Runs = 1 .. Len(run) BY DEF TypeOK, Runs
    <2>13. /\ Runs' = 1 .. Len(run) + 1 /\ run'[Len(run) + 1] = x
           /\ \A q \in Runs : run'[q] = D[q]
      BY <2>1, <2>11, <2>12 DEF Runs
    <2>14. Runs \subseteq Runs' /\ \A q \in Runs' \ Runs : q = Len(run) + 1
      BY <2>12, <2>13
    <2>15. TabType \subseteq TabType' /\ RunType \subseteq RunType'
      BY <1>2, <2>14, TypesGrow DEF TypeOK, Fills
    <2>16. /\ tab' \in [Tabs -> TabType'] /\ tab'[t] = S /\ \A u \in Tabs \ {t} : tab'[u] = tab[u]
      BY <2>1, <2>9, <2>15 DEF TypeOK
    <2>17. run' \in Seq(RunType')
      <3>1. D \in Seq(RunType') BY <2>11, <2>15
      <3> QED BY <2>1, <2>5, <3>1
    <2>18. effects' \in Seq(Runs')
      <3>1. effects \in Seq(Runs) BY DEF TypeOK
      <3> QED BY <1>2, <2>14, <3>1
    <2>19. Rows' = Rows BY DEF Rows
    <2>20. TypeOK' BY <1>2, <2>16, <2>17, <2>18, <2>19 DEF TypeOK
    <2>21. Leaves(t, S)
      <3>1. \A q \in Runs' \ Runs : q = Len(run) + 1 /\ Opening(run'[q], t, S)
        BY <2>10, <2>13, <2>14
      <3> QED BY <1>2, <2>9, <2>11, <2>13, <2>14, <2>16, <3>1 DEF Leaves
    <2> QED BY <2>20, <2>21
  <1> QED BY <1>3, <1>4
-----------------------------------------------------------------------------
(* A click or a keystroke in tab t, whose page becomes S.                  *)
Turns(t, S) ==
    LET T == tab[t] IN
    /\ t \in Tabs /\ T \in TabType /\ run' = run /\ effects' = effects
    /\ tab'[t] = S /\ \A u \in Tabs \ {t} : tab'[u] = tab[u]
    /\ S.page = T.page /\ S.effects = T.effects /\ S.flags = T.flags
    /\ (T.mixed => S.mixed) /\ (T.error => S.error \/ S.mixed)
    /\ \/ typed' = typed /\ Follows(T, S)
       \/ typed' = Append(typed, Selected(S)) /\ S.fill = Fills + 1

Clicks ==
    /\ UNCHANGED <<stored, sessions, valid, rows, effects, run, faults>>
    /\ typed' \in Seq(Rows) /\ Fills <= Fills'

LEMMA TurnsTyped ==
    ASSUME TypeOK, Clicks, NEW t \in Tabs, NEW S, S \in TabType', tab' = [tab EXCEPT ![t] = S]
    PROVE  /\ TypeOK' /\ tab[t] \in TabType /\ tab'[t] = S
           /\ \A u \in Tabs \ {t} : tab'[u] = tab[u]
  <1>1. UNCHANGED <<stored, sessions, valid, rows, effects, run, faults>> BY DEF Clicks
  <1>2. Runs' = Runs BY <1>1 DEF Runs
  <1>3. TabType \subseteq TabType' /\ RunType \subseteq RunType' /\ typed' \in Seq(Rows)
    BY <1>1, <1>2, TypesGrow DEF TypeOK, Clicks
  <1>4. /\ tab' \in [Tabs -> TabType'] /\ tab'[t] = S /\ \A u \in Tabs \ {t} : tab'[u] = tab[u]
        /\ tab[t] \in TabType
    BY <1>3 DEF TypeOK
  <1>5. run' \in Seq(RunType') BY <1>1, <1>3 DEF TypeOK
  <1>6. Rows' = Rows BY DEF Rows
  <1>7. TypeOK' BY <1>1, <1>2, <1>3, <1>4, <1>5, <1>6 DEF TypeOK
  <1> QED BY <1>4, <1>7

LEMMA FillTurns ==
    ASSUME TypeOK, NEW t \in Tabs, Fill(t)
    PROVE  TypeOK' /\ \E S : Turns(t, S)
  <1> DEFINE T == tab[t]
             S == [T EXCEPT !.fill = Fills + 1]
  <1>1. T \in TabType /\ typed \in Seq(Rows) /\ Selected(T) \in Rows
    <2>1. T \in TabType BY DEF TypeOK
    <2> HIDE DEF T
    <2> QED BY <2>1, SelectedIs DEF TypeOK
  <1>2. /\ typed' = Append(typed, Selected(T)) /\ tab' = [tab EXCEPT ![t] = S]
        /\ UNCHANGED <<stored, sessions, valid, rows, effects, run, faults>>
    BY DEF Fill, TypeOK
  <1> HIDE DEF T
  <1>3. typed' \in Seq(Rows) /\ Fills' = Fills + 1 /\ Fills \in Nat BY <1>1, <1>2 DEF Fills
  <1>4. /\ S \in TabType' /\ S.page = T.page /\ S.rows = T.rows /\ S.row = T.row
        /\ S.effects = T.effects /\ S.flags = T.flags /\ S.mixed = T.mixed /\ S.error = T.error
        /\ S.fill = Fills + 1
    <2>1. T \in TabType'
      <3>1. Runs' = Runs BY <1>2 DEF Runs
      <3> QED BY <1>1, <1>2, <1>3, <3>1, TypesGrow DEF TypeOK
    <2>2. Fills + 1 \in 0 .. Fills' BY <1>3
    <2> QED BY <2>1, <2>2 DEF TabType
  <1> HIDE DEF S
  <1>5. Selected(S) = Selected(T) BY <1>4, SelectedStays
  <1>6. /\ TypeOK' /\ tab'[t] = S /\ \A u \in Tabs \ {t} : tab'[u] = tab[u]
    <2>1. Clicks BY <1>2, <1>3 DEF Clicks
    <2> QED BY <1>2, <1>4, <2>1, <1>3, TurnsTyped
  <1>7. Turns(t, S) BY <1>1, <1>2, <1>4, <1>5, <1>6 DEF Turns, T
  <1> QED BY <1>6, <1>7

LEMMA EditTurns ==
    ASSUME TypeOK, NEW t \in Tabs, NEW i \in tab[t].rows, Edit(t, i)
    PROVE  TypeOK' /\ \E S : Turns(t, S)
  <1> DEFINE T == tab[t]
             S == [T EXCEPT !.row = i, !.fill = Fills + 1, !.error = FALSE, !.mixed = @ \/ T.error]
  <1>1. /\ T \in TabType /\ typed \in Seq(Rows) /\ i \in Rows /\ i \in T.rows
        /\ "edit" \in T.page.acts /\ T.page \in AllPages
    BY DEF TypeOK, TabType, Rows, Edit
  <1>2. /\ typed' = Append(typed, i) /\ tab' = [tab EXCEPT ![t] = S]
        /\ UNCHANGED <<stored, sessions, valid, rows, effects, run, faults>>
    BY DEF Edit
  <1> HIDE DEF T
  <1>3. typed' \in Seq(Rows) /\ Fills' = Fills + 1 /\ Fills \in Nat BY <1>1, <1>2 DEF Fills
  <1>4. PICK m \in BOOLEAN : m <=> T.mixed \/ T.error BY <1>1 DEF TabType
  <1>5. S = [T EXCEPT !.row = i, !.fill = Fills + 1, !.error = FALSE, !.mixed = m]
    BY <1>1, <1>4 DEF TabType
  <1>6. T \in TabType' /\ Rows' = Rows
    <2>1. Runs' = Runs BY <1>2 DEF Runs
    <2> QED BY <1>1, <1>2, <1>3, <2>1, TypesGrow DEF TypeOK, Rows
  <1>7. /\ S \in TabType' /\ S.page = T.page /\ S.row = i
        /\ S.effects = T.effects /\ S.flags = T.flags /\ S.mixed = m /\ S.fill = Fills + 1
    <2>1. Fills + 1 \in 0 .. Fills' BY <1>3
    <2> HIDE DEF S
    <2> QED BY <1>1, <1>5, <1>6, <2>1 DEF TabType
  <1> HIDE DEF S
  <1>8. Selected(S) = i
    <2>1. "respond" \notin S.page.acts BY <1>1, <1>7, PageFacts DEF Sound
    <2> QED BY <1>7, <2>1 DEF Selected
  <1>9. /\ TypeOK' /\ tab'[t] = S /\ \A u \in Tabs \ {t} : tab'[u] = tab[u]
    <2>1. Clicks BY <1>2, <1>3 DEF Clicks
    <2> QED BY <1>2, <1>7, <2>1, <1>3, TurnsTyped
  <1>10. Turns(t, S) BY <1>1, <1>2, <1>4, <1>7, <1>8, <1>9 DEF Turns, T
  <1> QED BY <1>9, <1>10

LEMMA StaysTyped ==
    ASSUME TypeOK, UNCHANGED <<sessions, typed, run>>
    PROVE  TabType' = TabType /\ RunType' = RunType /\ Fills' = Fills /\ typed' \in Seq(Rows)
  <1>1. Runs' = Runs /\ Rows' = Rows /\ Fills' = Fills BY DEF Runs, Rows, Fills
  <1> QED BY <1>1 DEF TabType, RunType, TypeOK

LEMMA CancelTurns ==
    ASSUME TypeOK, NEW t \in Tabs, Cancel(t)
    PROVE  TypeOK' /\ \E S : Turns(t, S)
  <1> DEFINE T == tab[t]
             S == Cleared(T)
  <1>1. T \in TabType /\ typed \in Seq(Rows) BY DEF TypeOK
  <1>2. /\ tab' = [tab EXCEPT ![t] = S]
        /\ UNCHANGED <<stored, sessions, valid, rows, effects, run, typed, faults>>
    BY DEF Cancel, TypeOK
  <1> HIDE DEF T
  <1>3. TabType' = TabType /\ Fills' = Fills /\ typed' \in Seq(Rows) /\ Fills \in Nat
    BY <1>1, <1>2, StaysTyped DEF Fills
  <1>4. /\ S \in TabType /\ S.page = T.page /\ S.effects = T.effects /\ S.error = T.error
        /\ S.mixed = T.mixed /\ S.flags = T.flags /\ S.fill = None
    BY <1>1, ClearedIs
  <1> HIDE DEF S
  <1>5. /\ TypeOK' /\ tab'[t] = S /\ \A u \in Tabs \ {t} : tab'[u] = tab[u]
    <2>1. Clicks BY <1>2, <1>3 DEF Clicks
    <2> QED BY <1>2, <1>4, <2>1, <1>3, TurnsTyped
  <1>6. Turns(t, S) BY <1>1, <1>2, <1>4, <1>5 DEF Turns, Follows, T
  <1> QED BY <1>5, <1>6

LEMMA SelectTurns ==
    ASSUME TypeOK, NEW t \in Tabs, NEW i \in tab[t].rows, Select(t, i)
    PROVE  TypeOK' /\ \E S : Turns(t, S)
  <1> DEFINE T == tab[t]
             R == [T EXCEPT !.row = i]
             S == Follow(T, R)
  <1>1. T \in TabType /\ typed \in Seq(Rows) /\ i \in Rows BY DEF TypeOK, TabType, Rows
  <1>2. /\ tab' = [tab EXCEPT ![t] = S]
        /\ UNCHANGED <<stored, sessions, valid, rows, effects, run, typed, faults>>
    BY DEF Select
  <1> HIDE DEF T
  <1>3. TabType' = TabType /\ Fills' = Fills /\ typed' \in Seq(Rows) /\ Fills \in Nat
    BY <1>1, <1>2, StaysTyped DEF Fills
  <1>4. /\ R \in TabType /\ R.page = T.page /\ R.fill = T.fill /\ R.effects = T.effects
        /\ R.error = T.error /\ R.mixed = T.mixed /\ R.flags = T.flags
    BY <1>1 DEF TabType
  <1> HIDE DEF R
  <1>5. /\ S \in TabType /\ S.page = T.page /\ S.effects = T.effects /\ S.error = T.error
        /\ S.mixed = T.mixed /\ S.flags = T.flags /\ Follows(T, S)
    BY <1>1, <1>4, FollowIs
  <1> HIDE DEF S
  <1>6. /\ TypeOK' /\ tab'[t] = S /\ \A u \in Tabs \ {t} : tab'[u] = tab[u]
    <2>1. Clicks BY <1>2, <1>3 DEF Clicks
    <2> QED BY <1>2, <1>5, <2>1, <1>3, TurnsTyped
  <1>7. Turns(t, S) BY <1>1, <1>2, <1>5, <1>6 DEF Turns, T
  <1> QED BY <1>6, <1>7
-----------------------------------------------------------------------------
(* A button of the page of tab t starts the run y, and the page becomes S. *)
Presses(t, y, S) ==
    LET T == tab[t]
        n == Len(run) + 1
    IN
    /\ t \in Tabs /\ T \in TabType /\ effects' = effects /\ typed' = typed
    /\ n \notin Runs /\ Runs' = Runs \cup {n} /\ run'[n] = y /\ \A q \in Runs : q < n /\ run'[q] = run[q]
    /\ tab'[t] = S /\ \A u \in Tabs \ {t} : tab'[u] = tab[u]
    /\ y.tab = t /\ y.page = T.page /\ y.act \in T.page.acts \ {"edit"}
    /\ y.at \in {"acting", "denied"} /\ y.waiting \in Nat /\ (y.at = "acting" => y.waiting > 0)
    /\ y.fill = IF Filled(y.act) THEN T.fill ELSE None
    /\ y.row \in Targets(T, y.act) /\ ~Disabled(T, y.act, y.row)
    /\ y.beside = {q \in Runs : run[q].tab = t /\ run[q].waiting > 0}
    /\ y.mixed = T.mixed /\ ~y.read /\ y.effects = <<>>
    /\ S.page = T.page /\ S.fill = T.fill /\ S.effects = T.effects /\ S.mixed = T.mixed
    /\ Selected(S) = Selected(T) /\ (Stopped(y) => S.error)
    /\ "saving" \in T.flags => "saving" \in S.flags \/ (Saves(y) /\ Stopped(y))
    /\ Saves(y) /\ ~Stopped(y) => "saving" \in S.flags

LEMMA SignsIn ==
    ASSUME NEW x \in RunType'
    PROVE  LET y == [x EXCEPT !.at = "acting", !.waiting = 1] IN
           y \in RunType' /\ Same(x, y) /\ y.at = "acting" /\ y.waiting = 1
  BY DEF RunType, Same, Stages

(* The new run z, for the form of its page.                                *)
Pressed(z, fill, row, beside, m) ==
    [z EXCEPT !.fill = fill, !.editing = row, !.beside = beside, !.mixed = m]

LEMMA PressedIs ==
    ASSUME NEW z \in RunType', NEW fill \in 0 .. Fills', NEW row \in Rows',
           NEW beside \in SUBSET Runs', NEW m \in BOOLEAN
    PROVE  LET x == Pressed(z, fill, row, beside, m) IN
           /\ x \in RunType' /\ x.tab = z.tab /\ x.page = z.page /\ x.act = z.act /\ x.row = z.row
           /\ x.fill = fill /\ x.beside = beside /\ x.mixed = m /\ x.waiting = z.waiting
           /\ x.read = z.read /\ x.effects = z.effects
  BY DEF RunType, Pressed

LEMMA PressPresses ==
    ASSUME TypeOK, NEW t \in Tabs, NEW act \in tab[t].page.acts, NEW i \in tab[t].rows \cup {None},
           Press(t, act, i)
    PROVE  TypeOK' /\ \E y, S : Presses(t, y, S)
  <1> DEFINE T == tab[t]
             fill == IF Filled(act) THEN T.fill ELSE None
             beside == {q \in Runs : run[q].tab = t /\ run[q].waiting > 0}
             z == NewRun(t, T.page, act, i)
             x == [z EXCEPT !.fill = fill, !.editing = T.row, !.beside = beside, !.mixed = T.mixed]
             y == IF act = "sign-in" THEN [x EXCEPT !.at = "acting", !.waiting = 1]
                  ELSE Send(x, "acting", 1)
             R == [T EXCEPT !.error = FALSE, !.flags = @ \cup Flag(act),
                            !.busy = IF act = "delete" THEN i ELSE @]
             S == Shown(R, y)
             n == Len(run) + 1
  <1>1. /\ act \in T.page.acts \ {"edit"} /\ i \in Targets(T, act) /\ ~Disabled(T, act, i)
        /\ tab' = [tab EXCEPT ![t] = S] /\ run' = Append(run, y)
        /\ UNCHANGED <<stored, sessions, valid, rows, effects, typed, faults>>
    BY DEF Press
  <1>2. /\ T \in TabType /\ T.page \in AllPages /\ T.row \in Rows /\ T.mixed \in BOOLEAN
        /\ T.fill \in 0 .. Fills /\ i \in Rows /\ typed \in Seq(Rows)
    <2>1. T \in TabType /\ typed \in Seq(Rows) BY DEF TypeOK
    <2> HIDE DEF T
    <2>2. i \in T.rows \cup {None} BY DEF T
    <2> QED BY <2>1, <2>2 DEF TabType, Rows
  <1>3. act \in ActNames /\ ~T.page.guard
    <2>1. T.page \in AllPages /\ act \in T.page.acts BY <1>1, <1>2
    <2>2. act \in ActNames BY <2>1 DEF ActNames
    <2>3. Sound(T.page) BY <2>1, PageFacts
    <2> QED BY <2>1, <2>2, <2>3 DEF Sound
  <1>4. /\ run \in Seq(RunType) /\ Len(run) \in Nat /\ Runs = 1 .. Len(run) BY DEF TypeOK, Runs
  <1> HIDE DEF T, y, S
  <1>5. /\ Runs' = Runs \cup {n} /\ n \notin Runs /\ run'[n] = y
        /\ \A q \in Runs : q < n /\ run'[q] = run[q]
    <2>1. Runs' = 1 .. n BY <1>1, <1>4 DEF Runs
    <2> QED BY <1>1, <1>4, <2>1
  <1>6. TabType \subseteq TabType' /\ RunType \subseteq RunType' /\ Rows' = Rows /\ Fills' = Fills
    <2>1. Fills' = Fills /\ Rows' = Rows BY <1>1 DEF Fills, Rows
    <2> QED BY <1>1, <1>5, <2>1, TypesGrow DEF TypeOK, Fills
  <1>7. z \in RunType'
    <2>1. typed' \in Seq(Rows) /\ sessions' \in Nat BY <1>1 DEF TypeOK
    <2> QED BY <1>2, <1>3, <2>1, NewRunIs
  <1>8. /\ z.tab = t /\ z.page = T.page /\ z.act = act /\ z.row = i /\ z.fill = None
        /\ z.waiting = 0 /\ ~z.read /\ z.effects = <<>>
    BY DEF NewRun
  <1>9. fill \in 0 .. Fills' /\ beside \in SUBSET Runs'
    <2>1. None \in 0 .. Fills BY <1>2 DEF Fills, None
    <2> QED BY <1>2, <1>5, <1>6, <2>1
  <1> HIDE DEF z, fill, beside
  <1>10. /\ x \in RunType' /\ x.tab = t /\ x.page = T.page /\ x.act = act /\ x.row = i
         /\ x.fill = fill /\ x.beside = beside /\ x.mixed = T.mixed /\ x.waiting = 0 /\ ~x.read
         /\ x.effects = <<>>
    <2> DEFINE m == T.mixed
               row == T.row
    <2>1. m \in BOOLEAN /\ row \in Rows' BY <1>2, <1>6
    <2> HIDE DEF m, row
    <2>2. x = Pressed(z, fill, row, beside, m) BY DEF m, row, Pressed
    <2> HIDE DEF x
    <2>3. /\ x \in RunType' /\ x.tab = z.tab /\ x.page = z.page /\ x.act = z.act /\ x.row = z.row
          /\ x.fill = fill /\ x.beside = beside /\ x.mixed = m /\ x.waiting = z.waiting
          /\ x.read = z.read /\ x.effects = z.effects
      BY <1>7, <1>9, <2>1, <2>2, PressedIs
    <2> QED BY <1>8, <2>3 DEF m
  <1> HIDE DEF x
  <1>11. /\ y \in RunType' /\ Same(x, y) /\ y.at \in {"acting", "denied"} /\ y.waiting \in Nat
         /\ y.at = "acting" => y.waiting > 0
    <2>1. "acting" \in Stages BY DEF Stages
    <2>2. CASE act = "sign-in"
      <3>1. y = [x EXCEPT !.at = "acting", !.waiting = 1] BY <2>2 DEF y
      <3>2. y \in RunType' /\ Same(x, y) /\ y.at = "acting" /\ y.waiting = 1
        BY <1>10, <3>1, SignsIn
      <3> QED BY <3>2
    <2>3. CASE act # "sign-in"
      <3>1. y = Send(x, "acting", 1) BY <2>3 DEF y
      <3>2. stored' \in 0 .. sessions' BY <1>1 DEF TypeOK
      <3>3. /\ y \in RunType' /\ Same(x, y)
            /\ \/ y.at = "denied" /\ y.waiting = x.waiting
               \/ y.at = "acting" /\ y.waiting = 1
        BY <1>10, <2>1, <3>1, <3>2, SendIs
      <3> QED BY <1>10, <3>3
    <2> QED BY <2>2, <2>3
  <1>12. /\ y.tab = t /\ y.page = T.page /\ y.act = act /\ y.row = i
         /\ y.fill = fill /\ y.beside = beside /\ y.mixed = T.mixed /\ ~y.read /\ y.effects = <<>>
    BY <1>10, <1>11 DEF Same
  <1>13. /\ R \in TabType /\ R.page = T.page /\ R.fill = T.fill /\ R.effects = T.effects
         /\ R.rows = T.rows /\ R.row = T.row /\ R.mixed = T.mixed
         /\ R.flags = T.flags \cup Flag(act)
    <2>1. Flag(act) \subseteq {"saving", "set-status", "respond"} BY DEF Flag
    <2> QED BY <1>2, <2>1 DEF TabType
  <1> HIDE DEF R
  <1>14. /\ S \in TabType
         /\ ~Stopped(y) => S = R
         /\ Stopped(y) => Keeps(R, S) /\ S.error /\ S.mixed = R.mixed /\ S.flags = R.flags \ Flag(act)
    <2>1. y.act \in ActNames BY <1>3, <1>12
    <2>2. /\ S \in TabType
          /\ ~Stopped(y) => S = R
          /\ Stopped(y) =>
                \/ y.at = "denied" /\ R.page.guard /\ S = Fresh(LoginPage)
                \/ /\ Keeps(R, S) /\ S.error
                   /\ S.mixed = R.mixed
                   /\ S.flags = R.flags \ Flag(y.act)
      BY <1>2, <1>13, <2>1, ShownIs DEF S
    <2> QED BY <1>3, <1>12, <1>13, <2>2
  <1>15. /\ S.page = T.page /\ S.fill = T.fill /\ S.effects = T.effects /\ S.mixed = T.mixed
         /\ S.rows = T.rows /\ S.row = T.row /\ (Stopped(y) => S.error)
    BY <1>13, <1>14 DEF Keeps
  <1>16. Selected(S) = Selected(T) BY <1>15, SelectedStays
  <1>17. /\ "saving" \in T.flags => "saving" \in S.flags \/ (Saves(y) /\ Stopped(y))
         /\ Saves(y) /\ ~Stopped(y) => "saving" \in S.flags
    <2>1. "saving" \in Flag(act) <=> Saves(y) BY <1>12 DEF Flag, Saves
    <2> QED BY <1>13, <1>14, <2>1
  <1>18. /\ tab' \in [Tabs -> TabType'] /\ tab'[t] = S /\ \A u \in Tabs \ {t} : tab'[u] = tab[u]
    BY <1>1, <1>6, <1>14 DEF TypeOK
  <1>19. TypeOK'
    <2>1. run' \in Seq(RunType')
      <3>1. run \in Seq(RunType') BY <1>4, <1>6
      <3> QED BY <1>1, <1>11, <3>1
    <2>2. effects' \in Seq(Runs')
      <3>1. effects \in Seq(Runs) BY DEF TypeOK
      <3> QED BY <1>1, <1>5, <3>1
    <2> QED BY <1>1, <1>6, <1>18, <2>1, <2>2 DEF TypeOK
  <1>20. Presses(t, y, S)
    <2>1. y.fill = IF Filled(y.act) THEN tab[t].fill ELSE None BY <1>12 DEF fill, T
    <2>2. y.beside = {q \in Runs : run[q].tab = t /\ run[q].waiting > 0} BY <1>12 DEF beside
    <2>3. y.row \in Targets(tab[t], y.act) /\ ~Disabled(tab[t], y.act, y.row)
      BY <1>1, <1>12 DEF T
    <2> QED BY <1>1, <1>2, <1>5, <1>11, <1>12, <1>15, <1>16, <1>17, <1>18, <2>1, <2>2, <2>3
         DEF Presses, T
  <1> QED BY <1>19, <1>20

(* The server reads the list for the r-th run.                             *)
Reads(r) ==
    /\ r \in Runs /\ Runs' = Runs /\ tab' = tab /\ effects' = effects /\ typed' = typed
    /\ \A q \in Runs \ {r} : run'[q] = run[q]
    /\ LET x == run[r]
           y == run'[r] IN
       /\ x.at = "loading" /\ ~x.read
       /\ y.tab = x.tab /\ y.page = x.page /\ y.act = x.act /\ y.row = x.row /\ y.fill = x.fill
       /\ y.at = x.at /\ y.waiting = x.waiting /\ y.beside = x.beside /\ y.mixed = x.mixed
       /\ y.read /\ y.effects = effects

LEMMA ReadReads ==
    ASSUME TypeOK, NEW r \in Runs, Read(r)
    PROVE  TypeOK' /\ Reads(r)
  <1> DEFINE y == [run[r] EXCEPT !.read = TRUE, !.rows = rows, !.effects = effects]
  <1>1. /\ run[r].at = "loading" /\ ~run[r].read
        /\ UNCHANGED <<stored, sessions, valid, rows, effects, tab, typed, faults>>
    BY DEF Read
  <1>2. run \in Seq(RunType) /\ run[r] \in RunType BY DEF TypeOK, Runs
  <1>3. run' = [run EXCEPT ![r] = y] BY <1>2 DEF Read
  <1>4. PICK x \in RunType : x = run[r] BY <1>2
  <1>5. /\ y \in RunType /\ y.tab = x.tab /\ y.page = x.page /\ y.act = x.act /\ y.row = x.row
        /\ y.fill = x.fill /\ y.at = x.at /\ y.waiting = x.waiting /\ y.beside = x.beside
        /\ y.mixed = x.mixed /\ y.read /\ y.effects = effects
    <2>1. rows \in SUBSET FirstRows /\ effects \in Seq(Runs) BY DEF TypeOK
    <2>2. y = [x EXCEPT !.read = TRUE, !.rows = rows, !.effects = effects] BY <1>4
    <2> HIDE DEF y
    <2> QED BY <2>1, <2>2 DEF RunType
  <1> HIDE DEF y
  <1>6. /\ Runs' = Runs /\ run'[r] = y /\ \A q \in Runs \ {r} : run'[q] = run[q]
    BY <1>3 DEF Runs
  <1>7. TabType \subseteq TabType' /\ RunType \subseteq RunType' /\ Rows' = Rows
    BY <1>1, <1>6, TypesGrow DEF TypeOK, Fills, Rows
  <1>8. TypeOK'
    <2>1. run' \in Seq(RunType')
      <3>1. y \in RunType' /\ run \in Seq(RunType') BY <1>2, <1>5, <1>7
      <3> QED BY <1>3, <3>1 DEF Runs
    <2>2. tab' \in [Tabs -> TabType'] BY <1>1, <1>7 DEF TypeOK
    <2> QED BY <1>1, <1>6, <1>7, <2>1, <2>2 DEF TypeOK
  <1>9. Reads(r) BY <1>1, <1>4, <1>5, <1>6 DEF Reads
  <1> QED BY <1>8, <1>9
-----------------------------------------------------------------------------
(* Where the runs are. *)
PlaceOK(r, x) ==
    /\ x.tab # None => tab[x.tab].page = x.page \/ (x.page.guard /\ Stopped(x))
    /\ x.act = "open" \/ x.act \in x.page.acts \ {"edit"}
    /\ x.at # "begun" /\ (x.at \in {"acting", "publishing"} => x.act # "open")
    /\ x.at = "publishing" => x.act = "submit-and-publish"
    /\ x.at = "loading" => x.act # "sign-in"
    /\ x.at \in {"detailing", "checking"} => x.page.acts = {}
    /\ x.at \in {"acting", "publishing", "loading"} => x.waiting > 0
    /\ x.at = "ended" => x.waiting = 0

OneOpen ==
    \A q, r \in Runs :
        run[q].tab = run[r].tab /\ run[q].tab # None /\ run[q].act = "open" /\ run[r].act = "open"
        => q = r

LEMMA PagesOKIs == PagesOK <=> (\A r \in Runs : PlaceOK(r, run[r])) /\ OneOpen
  BY DEF PagesOK, PlaceOK, OneOpen

LEMMA PagesOKNext ==
    ASSUME \A r \in Runs' : PlaceOK(r, run[r])', OneOpen'
    PROVE  PagesOK'
  BY DEF PagesOK, PlaceOK, OneOpen

(* Each run is on a page of its acts. *)
LEMMA PlaceIs ==
    ASSUME TypeOK, PagesOK, NEW r \in Runs
    PROVE  LET x == run[r] IN
           /\ x \in RunType /\ x.page \in AllPages /\ Sound(x.page) /\ PlaceOK(r, x)
           /\ x.tab \in Tabs \cup {None}
           /\ x.tab # None /\ x.act # "open" => tab[x.tab].page = x.page /\ x.act \in x.page.acts
           /\ x.tab # None /\ tab[x.tab].page.guard => x.act = "open"
  <1>1. run[r] \in RunType BY DEF TypeOK, Runs
  <1>2. PlaceOK(r, run[r]) BY PagesOKIs
  <1>3. PICK x : x = run[r] OBVIOUS
  <1>4. x.page \in AllPages /\ x.tab \in Tabs \cup {None} BY <1>1, <1>3 DEF RunType
  <1>5. Sound(x.page) BY <1>4, PageFacts
  <1>6. x.act \in x.page.acts => ~x.page.guard BY <1>5 DEF Sound
  <1>7. x.tab # None /\ x.act # "open" => tab[x.tab].page = x.page /\ x.act \in x.page.acts
    BY <1>2, <1>3, <1>6 DEF PlaceOK
  <1>8. x.tab # None /\ tab[x.tab].page.guard => x.act = "open"
    BY <1>6, <1>7
  <1> QED BY <1>1, <1>2, <1>3, <1>4, <1>5, <1>7, <1>8

LEMMA PagesLeave ==
    ASSUME TypeOK, PagesOK, NEW t, NEW S, Leaves(t, S)
    PROVE  PagesOK'
  <1>1. ASSUME NEW r \in Runs' PROVE PlaceOK(r, run[r])'
    <2>1. CASE r \in Runs
      <3>1. PlaceOK(r, run[r]) BY <2>1, PagesOKIs
      <3>2. Alike(run[r], run'[r]) /\ run'[r].tab = IF run[r].tab = t THEN None ELSE run[r].tab
        BY <2>1 DEF Leaves
      <3>3. run[r].tab \in Tabs \cup {None} BY <2>1, PlaceIs
      <3>4. run'[r].tab # None => run'[r].tab = run[r].tab /\ tab'[run[r].tab] = tab[run[r].tab]
        BY <3>2, <3>3 DEF Leaves
      <3> QED BY <3>1, <3>2, <3>4 DEF PlaceOK, Alike, Stopped
    <2>2. CASE r \notin Runs
      <3>1. Opening(run'[r], t, S) /\ tab'[t] = S BY <2>2 DEF Leaves
      <3> QED BY <3>1 DEF Opening, PlaceOK, Stopped
    <2> QED BY <2>1, <2>2
  <1>2. OneOpen'
    <2>1. SUFFICES ASSUME NEW q \in Runs', NEW r \in Runs', run'[q].tab = run'[r].tab,
                          run'[q].tab # None, run'[q].act = "open", run'[r].act = "open"
                   PROVE  q = r
      BY DEF OneOpen
    <2>2. \A s \in Runs : run'[s].tab # None => /\ run'[s].tab = run[s].tab /\ run[s].tab # t
                                                /\ run'[s].act = run[s].act
      BY DEF Leaves, Alike
    <2>3. \A s \in Runs' \ Runs : run'[s].tab = t /\ s = Len(run) + 1 BY DEF Leaves, Opening
    <2>4. CASE q \in Runs /\ r \in Runs BY <2>1, <2>2, <2>4, PagesOKIs DEF OneOpen
    <2>5. CASE ~(q \in Runs /\ r \in Runs) BY <2>1, <2>2, <2>3, <2>5
    <2> QED BY <2>4, <2>5
  <1> QED BY <1>1, <1>2, PagesOKNext

LEMMA PagesTurn ==
    ASSUME TypeOK, PagesOK, NEW t, NEW S, Turns(t, S)
    PROVE  PagesOK'
  <1>1. /\ run' = run /\ Runs' = Runs
        /\ \A u \in Tabs : tab'[u].page = tab[u].page
    BY DEF Turns, Runs
  <1>2. ASSUME NEW r \in Runs PROVE PlaceOK(r, run[r])'
    <2>1. PlaceOK(r, run[r]) /\ run[r].tab \in Tabs \cup {None} BY PlaceIs
    <2> QED BY <1>1, <2>1 DEF PlaceOK
  <1>3. OneOpen' BY <1>1, PagesOKIs DEF OneOpen
  <1> QED BY <1>1, <1>2, <1>3, PagesOKNext

LEMMA PagesPress ==
    ASSUME TypeOK, PagesOK, NEW t, NEW y, NEW S, Presses(t, y, S)
    PROVE  PagesOK'
  <1> PICK n : n = Len(run) + 1 OBVIOUS
  <1>1. /\ Runs' = Runs \cup {n} /\ run'[n] = y /\ \A q \in Runs : run'[q] = run[q]
        /\ \A u \in Tabs : tab'[u].page = tab[u].page
    BY DEF Presses
  <1>2. ASSUME NEW r \in Runs PROVE PlaceOK(r, run[r])'
    <2>1. PlaceOK(r, run[r]) /\ run[r].tab \in Tabs \cup {None} BY PlaceIs
    <2> QED BY <1>1, <2>1 DEF PlaceOK
  <1>3. y.act # "open"
    <2>1. tab[t].page \in AllPages BY DEF Presses, TabType
    <2> QED BY <2>1, PageFacts DEF Sound, Presses
  <1>4. PlaceOK(n, run[n])'
    <2>1. /\ y.tab = t /\ y.page = tab[t].page /\ y.act \in y.page.acts \ {"edit"}
          /\ y.at \in {"acting", "denied"} /\ (y.at = "acting" => y.waiting > 0)
          /\ tab'[t].page = y.page
      BY <1>1 DEF Presses
    <2>2. run'[n] = y BY <1>1
    <2> QED BY <1>3, <2>1, <2>2 DEF PlaceOK
  <1>5. OneOpen' BY <1>1, <1>3, PagesOKIs DEF OneOpen
  <1> QED BY <1>1, <1>2, <1>4, <1>5, PagesOKNext

LEMMA PagesRead ==
    ASSUME TypeOK, PagesOK, NEW r, Reads(r)
    PROVE  PagesOK'
  <1>1. \A q \in Runs : /\ run'[q].tab = run[q].tab /\ run'[q].page = run[q].page
                        /\ run'[q].act = run[q].act /\ run'[q].at = run[q].at
                        /\ run'[q].waiting = run[q].waiting
    BY DEF Reads
  <1>2. tab' = tab /\ Runs' = Runs BY DEF Reads
  <1>3. ASSUME NEW q \in Runs PROVE PlaceOK(q, run[q])'
    BY <1>1, <1>2, PagesOKIs DEF PlaceOK, Stopped
  <1>4. OneOpen' BY <1>1, <1>2, PagesOKIs DEF OneOpen
  <1> QED BY <1>2, <1>3, <1>4, PagesOKNext

(* What all the steps of a run have in common. *)
LEMMA StepKeeps ==
    ASSUME TypeOK, PagesOK, NEW r, NEW x, NEW y, NEW S, Steps(r, x, y, S)
    PROVE  /\ x.at # "ended" /\ (Live(y) => Live(x)) /\ (~Stopped(y) => ~Stopped(x))
           /\ Live(x) \/ (y.at = x.at /\ S = Page(r))
           /\ \/ S.page = Page(r).page /\ Follows(Page(r), S)
              \/ /\ Page(r).page.guard /\ Stopped(y) /\ S = Fresh(LoginPage)
                 /\ S.page = LoginPage /\ S.fill = None /\ S.effects = <<>>
  <1> PICK T : T = Page(r) OBVIOUS
  <1>1. /\ r \in Runs /\ x = run[r] /\ x.waiting > 0 /\ x \in RunType /\ Advances(x, y, T, S)
    BY DEF Steps
  <1>2. x.at # "ended" BY <1>1 DEF RunType, PagesOK
  <1>3. CASE Waits(x, y, T, S)
    <2>1. Live(x) \/ Stopped(x) BY <1>2 DEF Live
    <2> QED BY <1>2, <1>3, <2>1 DEF Waits, Live, Stopped, Follows
  <1>4. CASE Fails(x, y, T, S)
    <2>1. Live(x) BY <1>2, <1>4 DEF Fails, Live
    <2>2. /\ Fresh(LoginPage).page = LoginPage /\ Fresh(LoginPage).fill = None
          /\ Fresh(LoginPage).effects = <<>>
      <3>1. LoginPage \in AllPages BY DEF AllPages
      <3> QED BY <3>1, FreshIs DEF TypeOK
    <2>3. \/ S.page = T.page /\ Follows(T, S)
          \/ T.page.guard /\ Stopped(y) /\ S = Fresh(LoginPage)
      BY <1>4 DEF Fails, Carried
    <2> QED BY <1>2, <1>4, <2>1, <2>2, <2>3 DEF Fails, Live
  <1>5. CASE Reloads(x, y, T, S) \/ Lists(x, y, T, S) \/ Details(x, y, T, S) \/ Finishes(x, y, T, S)
    <2>1. Carried(x, y, T, S) BY <1>5 DEF Reloads, Lists, Details, Finishes
    <2>2. ~Stopped(x)
      <3>1. CASE x.at = "checking" \/ x.at \in {"acting", "publishing", "loading", "detailing"}
        BY <3>1 DEF Stopped
      <3>2. CASE Finishes(x, y, T, S) BY <3>2 DEF Finishes
      <3> QED BY <1>5, <3>1, <3>2 DEF Reloads, Lists, Details
    <2>3. Live(x) BY <1>2, <2>2 DEF Live
    <2> QED BY <1>2, <2>1, <2>2, <2>3 DEF Carried
  <1>6. CASE Publishes(x, y, T, S)
    BY <1>2, <1>6 DEF Publishes, Live, Stopped, Follows
  <1> QED BY <1>1, <1>3, <1>4, <1>5, <1>6 DEF Advances

(* Nobody else has a panel page, whose only run is its load. *)
LEMMA Alone ==
    ASSUME TypeOK, PagesOK, NEW q \in Runs, NEW r \in Runs, run[q].tab = run[r].tab,
           run[q].tab # None, tab[run[q].tab].page.guard
    PROVE  q = r
  <1>1. run[q].act = "open" /\ run[r].act = "open" BY PlaceIs
  <1> QED BY <1>1 DEF PagesOK

LEMMA PagesGo ==
    ASSUME TypeOK, PagesOK, NEW r, NEW x, NEW y, NEW S, Steps(r, x, y, S)
    PROVE  PagesOK'
  <1> PICK T : T = Page(r) OBVIOUS
  <1>1. /\ r \in Runs /\ Runs' = Runs /\ x = run[r] /\ y = run'[r] /\ x.waiting > 0
        /\ Same(x, y) /\ Advances(x, y, T, S)
        /\ \A q \in Runs \ {r} : run'[q] = run[q]
        /\ \A t \in Tabs \ {x.tab} : tab'[t] = tab[t]
        /\ x.tab # None => x.tab \in Tabs /\ T = tab[x.tab] /\ tab'[x.tab] = S
    BY DEF Steps
  <1>2. /\ x.at # "ended" /\ (Live(y) => Live(x)) /\ (~Stopped(y) => ~Stopped(x))
        /\ Live(x) \/ (y.at = x.at /\ S = T)
        /\ S.page = T.page \/ (T.page.guard /\ Stopped(y))
    BY StepKeeps
  <1>3. PlaceOK(r, x) /\ Sound(x.page) BY <1>1, PlaceIs
  <1>4. ASSUME NEW q \in Runs \ {r} PROVE PlaceOK(q, run[q])'
    <2>1. PlaceOK(q, run[q]) /\ run[q].tab \in Tabs \cup {None} /\ run'[q] = run[q]
      BY <1>1, PlaceIs
    <2>2. ASSUME run[q].tab # None PROVE tab'[run[q].tab].page = tab[run[q].tab].page
      <3>1. CASE run[q].tab = x.tab
        <4>1. T = tab[x.tab] /\ tab'[x.tab] = S BY <1>1, <2>2, <3>1
        <4>2. ~T.page.guard BY <1>1, <2>2, <3>1, <4>1, Alone
        <4> QED BY <1>2, <3>1, <4>1, <4>2
      <3>2. CASE run[q].tab # x.tab BY <1>1, <2>1, <2>2, <3>2
      <3> QED BY <3>1, <3>2
    <2> QED BY <2>1, <2>2 DEF PlaceOK
  <1>5. PlaceOK(r, run[r])'
    <2>1. /\ y.tab = x.tab /\ y.page = x.page /\ y.act = x.act BY <1>1 DEF Same
    <2>2. y.tab # None => tab'[y.tab].page = y.page \/ (y.page.guard /\ Stopped(y))
      <3>1. SUFFICES ASSUME y.tab # None PROVE S.page = y.page \/ (y.page.guard /\ Stopped(y))
        BY <1>1, <2>1
      <3>2. T.page = x.page \/ (x.page.guard /\ Stopped(x)) BY <1>1, <1>3, <2>1, <3>1 DEF PlaceOK
      <3>3. CASE Stopped(x) BY <1>2, <2>1, <3>2, <3>3 DEF Live, Stopped
      <3>4. CASE ~Stopped(x) BY <1>2, <2>1, <3>2, <3>4
      <3> QED BY <3>3, <3>4
    <2>3. /\ y.at # "begun" /\ (y.at \in {"acting", "publishing"} => y.act # "open")
          /\ y.at = "publishing" => y.act = "submit-and-publish"
          /\ y.at = "loading" => y.act # "sign-in"
          /\ y.at \in {"detailing", "checking"} => y.page.acts = {}
          /\ y.at \in {"acting", "publishing", "loading"} => y.waiting > 0
          /\ y.at = "ended" => y.waiting = 0
      <3>1. CASE Waits(x, y, T, S)
        BY <1>2, <1>3, <2>1, <3>1 DEF Waits, PlaceOK, Stopped
      <3>2. CASE Fails(x, y, T, S) BY <3>2 DEF Fails, Stopped
      <3>3. CASE Reloads(x, y, T, S)
        <4>1. x.act \in x.page.acts /\ x.act # "sign-in" BY <1>3, <3>3 DEF PlaceOK, Reloads
        <4>2. x.page.calls = 1 BY <1>3, <4>1 DEF Sound
        <4> QED BY <2>1, <3>3, <4>2 DEF Reloads
      <3>4. CASE Publishes(x, y, T, S) BY <2>1, <3>4 DEF Publishes
      <3>5. CASE Lists(x, y, T, S) BY <3>5 DEF Lists
      <3>6. CASE Details(x, y, T, S) BY <1>3, <2>1, <3>6 DEF Details, Sound
      <3>7. CASE Finishes(x, y, T, S) BY <3>7 DEF Finishes
      <3> QED BY <1>1, <3>1, <3>2, <3>3, <3>4, <3>5, <3>6, <3>7 DEF Advances
    <2>4. y.act = "open" \/ y.act \in y.page.acts \ {"edit"} BY <1>3, <2>1 DEF PlaceOK
    <2>5. run'[r] = y BY <1>1
    <2> QED BY <2>2, <2>3, <2>4, <2>5 DEF PlaceOK
  <1>6. OneOpen'
    <2>1. \A q \in Runs : run'[q].tab = run[q].tab /\ run'[q].act = run[q].act
      BY <1>1 DEF Same
    <2> QED BY <1>1, <2>1, PagesOKIs DEF OneOpen
  <1>7. ASSUME NEW q \in Runs' PROVE PlaceOK(q, run[q])'
    <2>1. q \in Runs BY <1>1
    <2>2. CASE q = r BY <1>5, <2>2
    <2>3. CASE q # r BY <1>4, <2>1, <2>3
    <2> QED BY <2>2, <2>3
  <1> QED BY <1>6, <1>7, PagesOKNext
-----------------------------------------------------------------------------
(* What has been typed is for the row selected, and went out for its row. *)
LEMMA TypedFacts ==
    ASSUME TypeOK
    PROVE  /\ Fills \in Nat /\ \A t \in Tabs : tab[t] \in TabType /\ tab[t].fill \in 0 .. Fills
           /\ \A r \in Runs : run[r] \in RunType /\ run[r].fill \in 0 .. Fills
           /\ typed \in Seq(Rows) /\ DOMAIN typed = 1 .. Fills
  <1>1. typed \in Seq(Rows) /\ tab \in [Tabs -> TabType] /\ run \in Seq(RunType) BY DEF TypeOK
  <1>2. Fills \in Nat /\ DOMAIN typed = 1 .. Fills BY <1>1 DEF Fills
  <1>3. \A t \in Tabs : tab[t] \in TabType /\ tab[t].fill \in 0 .. Fills BY <1>1 DEF TabType
  <1>4. \A r \in Runs : run[r] \in RunType BY <1>1 DEF Runs
  <1>5. \A z \in RunType : z.fill \in 0 .. Fills BY DEF RunType
  <1> QED BY <1>1, <1>2, <1>3, <1>4, <1>5

LEMMA TypedLeave ==
    ASSUME TypeOK, TypedOK, NEW t, NEW S, Leaves(t, S)
    PROVE  TypedOK'
  <1>1. typed' = typed /\ \A u \in Tabs \ {t} : tab'[u] = tab[u] BY DEF Leaves
  <1>2. tab'[t].fill = None BY DEF Leaves
  <1>3. \A u \in Tabs : tab'[u].fill # None => typed'[tab'[u].fill] = Selected(tab'[u])
    BY <1>1, <1>2 DEF TypedOK
  <1>4. \A r \in Runs' : run'[r].fill # None => typed'[run'[r].fill] = run'[r].row
    BY <1>1 DEF Leaves, Alike, Opening, TypedOK, SentWasTyped
  <1> QED BY <1>3, <1>4 DEF TypedOK, SentWasTyped, Selected

LEMMA TypedTurn ==
    ASSUME TypeOK, TypedOK, NEW t, NEW S, Turns(t, S)
    PROVE  TypedOK'
  <1>1. /\ run' = run /\ Runs' = Runs /\ tab'[t] = S /\ t \in Tabs
        /\ \A u \in Tabs \ {t} : tab'[u] = tab[u]
        /\ \/ typed' = typed /\ Follows(tab[t], S)
           \/ typed' = Append(typed, Selected(S)) /\ S.fill = Fills + 1
    BY DEF Turns, Runs
  <1>2. \A k \in 1 .. Fills : typed'[k] = typed[k] BY <1>1, TypedFacts DEF Fills
  <1>3. S.fill # None => typed'[S.fill] = Selected(S)
    <2>1. CASE typed' = typed /\ Follows(tab[t], S) BY <1>1, <2>1 DEF Follows, TypedOK
    <2>2. CASE typed' = Append(typed, Selected(S)) /\ S.fill = Fills + 1
      BY <2>2, TypedFacts DEF Fills
    <2> QED BY <1>1, <2>1, <2>2
  <1>4. \A u \in Tabs : tab'[u].fill # None => typed'[tab'[u].fill] = Selected(tab'[u])
    <2>1. \A u \in Tabs \ {t} : tab[u].fill # None => tab[u].fill \in 1 .. Fills
      BY TypedFacts DEF None
    <2> QED BY <1>1, <1>2, <1>3, <2>1 DEF TypedOK
  <1>5. \A r \in Runs' : run'[r].fill # None => typed'[run'[r].fill] = run'[r].row
    <2>1. \A r \in Runs : run[r].fill # None => run[r].fill \in 1 .. Fills
      BY TypedFacts DEF None
    <2> QED BY <1>1, <1>2, <2>1 DEF TypedOK, SentWasTyped
  <1> QED BY <1>4, <1>5 DEF TypedOK, SentWasTyped, Selected

LEMMA TypedPress ==
    ASSUME TypeOK, TypedOK, NEW t, NEW y, NEW S, Presses(t, y, S)
    PROVE  TypedOK'
  <1> PICK n : n = Len(run) + 1 OBVIOUS
  <1>1. /\ t \in Tabs /\ typed' = typed /\ Runs' = Runs \cup {n} /\ run'[n] = y
        /\ \A q \in Runs : run'[q] = run[q]
        /\ tab'[t] = S /\ \A u \in Tabs \ {t} : tab'[u] = tab[u]
        /\ S.fill = tab[t].fill /\ Selected(S) = Selected(tab[t])
        /\ y.act \in tab[t].page.acts /\ y.row \in Targets(tab[t], y.act)
        /\ y.fill = IF Filled(y.act) THEN tab[t].fill ELSE None
    BY DEF Presses
  <1>2. y.fill # None => y.row = Selected(tab[t])
    <2>1. tab[t] \in TabType BY <1>1, TypedFacts
    <2>2. tab[t].page \in AllPages BY <2>1 DEF TabType
    <2>3. CASE y.act = "respond" BY <1>1, <2>3 DEF Targets
    <2>4. CASE y.act \in {"submit", "submit-and-publish"}
      <3>1. y.row = tab[t].row BY <1>1, <2>4 DEF Targets
      <3>2. "respond" \notin tab[t].page.acts BY <1>1, <2>2, <2>4, PageFacts DEF Sound
      <3> QED BY <2>1, <3>1, <3>2, SelectedIs
    <2> QED BY <1>1, <2>3, <2>4 DEF Filled
  <1>3. \A u \in Tabs : tab'[u].fill # None => typed'[tab'[u].fill] = Selected(tab'[u])
    BY <1>1 DEF TypedOK
  <1>4. \A r \in Runs' : run'[r].fill # None => typed'[run'[r].fill] = run'[r].row
    <2>1. y.fill # None => typed[y.fill] = y.row BY <1>1, <1>2 DEF TypedOK
    <2> QED BY <1>1, <2>1 DEF TypedOK, SentWasTyped
  <1> QED BY <1>3, <1>4 DEF TypedOK, SentWasTyped, Selected

LEMMA TypedRead ==
    ASSUME TypedOK, NEW r, Reads(r)
    PROVE  TypedOK'
  <1>1. \A q \in Runs : run'[q].fill = run[q].fill /\ run'[q].row = run[q].row BY DEF Reads
  <1>2. tab' = tab /\ Runs' = Runs /\ typed' = typed BY DEF Reads
  <1> QED BY <1>1, <1>2 DEF TypedOK, SentWasTyped, Selected

LEMMA TypedGo ==
    ASSUME TypeOK, PagesOK, TypedOK, NEW r, NEW x, NEW y, NEW S, Steps(r, x, y, S)
    PROVE  TypedOK'
  <1>1. \A q \in Runs : run'[q].fill = run[q].fill /\ run'[q].row = run[q].row
    BY DEF Steps, Same
  <1>2. /\ Runs' = Runs /\ typed' = typed /\ \A t \in Tabs \ {x.tab} : tab'[t] = tab[t]
        /\ x.tab # None => x.tab \in Tabs /\ Page(r) = tab[x.tab] /\ tab'[x.tab] = S
    BY DEF Steps
  <1>3. S.fill = None \/ Follows(Page(r), S) BY StepKeeps
  <1>4. \A u \in Tabs : tab'[u].fill # None => typed'[tab'[u].fill] = Selected(tab'[u])
    <2>1. None \notin Tabs BY PagesAssumption
    <2>2. ASSUME x.tab # None, S.fill # None PROVE typed'[S.fill] = Selected(S)
      BY <1>2, <1>3, <2>2 DEF Follows, TypedOK
    <2> QED BY <1>2, <2>1, <2>2 DEF TypedOK
  <1>5. \A q \in Runs' : run'[q].fill # None => typed'[run'[q].fill] = run'[q].row
    BY <1>1, <1>2 DEF TypedOK, SentWasTyped
  <1> QED BY <1>4, <1>5 DEF TypedOK, SentWasTyped, Selected
-----------------------------------------------------------------------------
(* Who submits has the button disabled. *)
Saver(q, t) == run[q].tab = t /\ Saves(run[q]) /\ Live(run[q])

LEMMA TabsOfRuns ==
    ASSUME TypeOK
    PROVE  \A r \in Runs : run[r].tab \in Tabs \cup {None}
  <1>1. \A r \in Runs : run[r] \in RunType BY TypedFacts
  <1>2. \A z \in RunType : z.tab \in Tabs \cup {None} BY DEF RunType
  <1> QED BY <1>1, <1>2

LEMMA SavingOKIs ==
    ASSUME TypeOK
    PROVE  SavingOK <=> \A t \in Tabs :
              /\ \A r \in Runs : Saver(r, t) => "saving" \in tab[t].flags
              /\ \A q, r \in Runs : Saver(q, t) /\ Saver(r, t) => q = r
  BY TabsOfRuns, PagesAssumption DEF SavingOK, Saver

LEMMA SavingOKNext ==
    ASSUME TypeOK',
           \A t \in Tabs : /\ \A r \in Runs' : Saver(r, t)' => "saving" \in tab'[t].flags
                           /\ \A q, r \in Runs' : Saver(q, t)' /\ Saver(r, t)' => q = r
    PROVE  SavingOK'
  <1>1. \A r \in Runs' : run'[r].tab \in Tabs \cup {None}
    <2>1. run' \in Seq(RunType') BY DEF TypeOK
    <2>2. \A r \in Runs' : run'[r] \in RunType' BY <2>1 DEF Runs
    <2>3. \A z \in RunType' : z.tab \in Tabs \cup {None} BY DEF RunType
    <2> QED BY <2>2, <2>3
  <1> QED BY <1>1, PagesAssumption DEF SavingOK, Saver

LEMMA SavingLeave ==
    ASSUME TypeOK, TypeOK', SavingOK, NEW t, NEW S, Leaves(t, S)
    PROVE  SavingOK'
  <1>1. ASSUME NEW u \in Tabs, NEW r \in Runs', Saver(r, u)'
        PROVE  r \in Runs /\ Saver(r, u) /\ tab'[u] = tab[u]
    <2>1. u # None BY PagesAssumption
    <2>2. r \in Runs BY <1>1 DEF Leaves, Opening, Saver, Saves
    <2>3. /\ Alike(run[r], run'[r])
          /\ run'[r].tab = IF run[r].tab = t THEN None ELSE run[r].tab
      BY <2>2 DEF Leaves
    <2>4. run[r].tab = u /\ u # t BY <1>1, <2>1, <2>3 DEF Saver
    <2>5. Saver(r, u) BY <1>1, <2>3, <2>4 DEF Saver, Alike, Saves, Live, Stopped
    <2>6. tab'[u] = tab[u] BY <2>4 DEF Leaves
    <2> QED BY <2>2, <2>5, <2>6
  <1> QED BY <1>1, SavingOKIs, SavingOKNext

LEMMA SavingTurn ==
    ASSUME TypeOK, TypeOK', SavingOK, NEW t, NEW S, Turns(t, S)
    PROVE  SavingOK'
  <1>1. run' = run /\ Runs' = Runs /\ \A u \in Tabs : tab'[u].flags = tab[u].flags
    BY DEF Turns, Runs
  <1>2. \A r, u : Saver(r, u)' <=> Saver(r, u) BY <1>1 DEF Saver
  <1> QED BY <1>1, <1>2, SavingOKIs, SavingOKNext

LEMMA SavingPress ==
    ASSUME TypeOK, TypeOK', SavingOK, NEW t, NEW y, NEW S, Presses(t, y, S)
    PROVE  SavingOK'
  <1> PICK n : n = Len(run) + 1 OBVIOUS
  <1>1. /\ t \in Tabs /\ n \notin Runs /\ Runs' = Runs \cup {n} /\ run'[n] = y
        /\ \A q \in Runs : run'[q] = run[q]
        /\ tab'[t] = S /\ \A u \in Tabs \ {t} : tab'[u] = tab[u]
        /\ y.tab = t /\ ~Disabled(tab[t], y.act, y.row)
        /\ "saving" \in tab[t].flags => "saving" \in S.flags \/ (Saves(y) /\ Stopped(y))
        /\ Saves(y) /\ ~Stopped(y) => "saving" \in S.flags
    BY DEF Presses
  <1>2. \A u : \A r \in Runs : Saver(r, u)' <=> Saver(r, u) BY <1>1 DEF Saver
  <1>3. \A u : Saver(n, u)' => u = t /\ Saves(y) /\ ~Stopped(y) BY <1>1 DEF Saver, Live
  <1>4. Saves(y) => "saving" \notin tab[t].flags BY <1>1 DEF Disabled, Saves
  <1>5. ASSUME NEW u \in Tabs
        PROVE  /\ \A r \in Runs' : Saver(r, u)' => "saving" \in tab'[u].flags
               /\ \A q, r \in Runs' : Saver(q, u)' /\ Saver(r, u)' => q = r
    <2>1. /\ \A r \in Runs : Saver(r, u) => "saving" \in tab[u].flags
          /\ \A q, r \in Runs : Saver(q, u) /\ Saver(r, u) => q = r
      BY SavingOKIs
    <2>2. CASE u = t BY <1>1, <1>2, <1>3, <1>4, <2>1, <2>2
    <2>3. CASE u # t BY <1>1, <1>2, <1>3, <2>1, <2>3
    <2> QED BY <2>2, <2>3
  <1> QED BY <1>5, SavingOKNext

LEMMA SavingRead ==
    ASSUME TypeOK, TypeOK', SavingOK, NEW r, Reads(r)
    PROVE  SavingOK'
  <1>1. \A q \in Runs : /\ run'[q].tab = run[q].tab /\ run'[q].act = run[q].act
                        /\ run'[q].at = run[q].at
    BY DEF Reads
  <1>2. Runs' = Runs /\ tab' = tab BY DEF Reads
  <1>3. \A u : \A q \in Runs : Saver(q, u)' <=> Saver(q, u)
    BY <1>1 DEF Saver, Saves, Live, Stopped
  <1> QED BY <1>2, <1>3, SavingOKIs, SavingOKNext

LEMMA SavingGo ==
    ASSUME TypeOK, TypeOK', PagesOK, SavingOK, NEW r, NEW x, NEW y, NEW S, Steps(r, x, y, S)
    PROVE  SavingOK'
  <1> PICK T : T = Page(r) OBVIOUS
  <1>1. /\ r \in Runs /\ Runs' = Runs /\ x = run[r] /\ y = run'[r]
        /\ Same(x, y) /\ Advances(x, y, T, S)
        /\ \A q \in Runs \ {r} : run'[q] = run[q]
        /\ \A t \in Tabs \ {x.tab} : tab'[t] = tab[t]
        /\ x.tab # None => x.tab \in Tabs /\ T = tab[x.tab] /\ tab'[x.tab] = S
    BY DEF Steps
  <1>2. /\ Live(y) => Live(x)
        /\ Live(x) \/ (y.at = x.at /\ S = T)
    BY StepKeeps
  <1>3. \A u : \A q \in Runs : Saver(q, u)' => Saver(q, u)
    BY <1>1, <1>2 DEF Saver, Saves, Same
  <1>4. ASSUME NEW u \in Tabs, NEW q \in Runs, Saver(q, u)' PROVE "saving" \in tab'[u].flags
    <2>1. Saver(q, u) /\ "saving" \in tab[u].flags BY <1>3, <1>4, SavingOKIs
    <2>2. u # None BY PagesAssumption
    <2>3. CASE x.tab = u
      <3>1. T = tab[u] /\ tab'[u] = S /\ "saving" \in T.flags BY <1>1, <2>1, <2>2, <2>3
      <3>2. ~T.page.guard
        <4>1. run[q].act # "open" /\ run[q].tab = u BY <2>1 DEF Saver, Saves
        <4> QED BY <2>2, <3>1, <4>1, PlaceIs
      <3>3. CASE Waits(x, y, T, S) \/ Publishes(x, y, T, S) BY <3>1, <3>3 DEF Waits, Publishes
      <3>4. CASE Carried(x, y, T, S)
        <4>1. CASE Saves(x) /\ ~Live(y)
          <5>1. q # r BY <1>1, <1>4, <4>1 DEF Saver
          <5>2. ~Live(x)
            <6>1. Live(x) => Saver(r, u) BY <1>1, <2>3, <4>1 DEF Saver
            <6> QED BY <1>1, <2>1, <5>1, <6>1, SavingOKIs
          <5> QED BY <1>2, <3>1, <5>2
        <4>2. CASE ~(Saves(x) /\ ~Live(y)) BY <3>1, <3>4, <4>2 DEF Carried
        <4> QED BY <4>1, <4>2
      <3> QED BY <1>1, <3>2, <3>3, <3>4 DEF Advances, Fails, Reloads, Lists, Details, Finishes
    <2>4. CASE x.tab # u BY <1>1, <2>1, <2>4
    <2> QED BY <2>3, <2>4
  <1> QED BY <1>1, <1>3, <1>4, SavingOKIs, SavingOKNext
-----------------------------------------------------------------------------
(* A filling is in one form, and was sent by nobody else. *)
LEMMA FilledLeave ==
    ASSUME TypeOK, FilledOK, NEW t, NEW S, Leaves(t, S)
    PROVE  FilledOK'
  <1>1. /\ t \in Tabs /\ tab'[t].fill = None /\ \A u \in Tabs \ {t} : tab'[u] = tab[u]
    BY DEF Leaves
  <1>2. \A q \in Runs : Alike(run[q], run'[q]) /\ run'[q].tab = IF run[q].tab = t THEN None ELSE run[q].tab
    BY DEF Leaves
  <1>3. \A q \in Runs' \ Runs : run'[q].fill = None BY DEF Leaves, Opening
  <1>4. \A u, v \in Tabs : tab'[u].fill = tab'[v].fill /\ tab'[u].fill # None => u = v
    BY <1>1 DEF FilledOK
  <1>5. \A q \in Runs' : run'[q].fill # None => Filled(run'[q].act)
    BY <1>2, <1>3 DEF FilledOK, Alike
  <1>6. ASSUME NEW u \in Tabs, NEW q \in Runs',
               tab'[u].fill = run'[q].fill, tab'[u].fill # None, ~Stopped(run'[q])
        PROVE  /\ run'[q].tab = u
               /\ run'[q].act # "respond" =>
                     run'[q].at \in {"acting", "publishing"} \/ run'[q].page.keeps
    <2>1. u # t /\ tab'[u] = tab[u] /\ q \in Runs BY <1>1, <1>3, <1>6
    <2>2. Alike(run[q], run'[q]) BY <1>2, <2>1
    <2>3. /\ run[q].tab = u
          /\ run[q].act # "respond" =>
                run[q].at \in {"acting", "publishing"} \/ run[q].page.keeps
      BY <1>6, <2>1, <2>2 DEF FilledOK, Alike, Stopped
    <2> QED BY <1>2, <2>1, <2>2, <2>3 DEF Alike
  <1> QED BY <1>4, <1>5, <1>6 DEF FilledOK, Filled, Stopped

LEMMA FilledTurn ==
    ASSUME TypeOK, FilledOK, NEW t, NEW S, Turns(t, S)
    PROVE  FilledOK'
  <1>1. /\ run' = run /\ Runs' = Runs /\ tab'[t] = S /\ t \in Tabs
        /\ \A u \in Tabs \ {t} : tab'[u] = tab[u]
        /\ S.fill = None \/ S.fill = tab[t].fill \/ S.fill = Fills + 1
    BY DEF Turns, Follows, Runs
  <1>2. \A u \in Tabs : tab[u].fill # Fills + 1 BY TypedFacts
  <1>3. \A r \in Runs : run[r].fill # Fills + 1 BY TypedFacts
  <1>4. \A u, v \in Tabs : tab'[u].fill = tab'[v].fill /\ tab'[u].fill # None => u = v
    BY <1>1, <1>2 DEF FilledOK
  <1>5. \A q \in Runs' : run'[q].fill # None => Filled(run'[q].act) BY <1>1 DEF FilledOK
  <1>6. ASSUME NEW u \in Tabs, NEW q \in Runs',
               tab'[u].fill = run'[q].fill, tab'[u].fill # None, ~Stopped(run'[q])
        PROVE  /\ run'[q].tab = u
               /\ run'[q].act # "respond" =>
                     run'[q].at \in {"acting", "publishing"} \/ run'[q].page.keeps
    <2>1. q \in Runs /\ tab[u].fill = run[q].fill /\ tab[u].fill # None /\ ~Stopped(run[q])
      BY <1>1, <1>3, <1>6 DEF Stopped
    <2> QED BY <1>1, <2>1 DEF FilledOK
  <1> QED BY <1>4, <1>5, <1>6 DEF FilledOK, Filled, Stopped

LEMMA FilledPress ==
    ASSUME TypeOK, FilledOK, NEW t, NEW y, NEW S, Presses(t, y, S)
    PROVE  FilledOK'
  <1> PICK n : n = Len(run) + 1 OBVIOUS
  <1>1. /\ t \in Tabs /\ n \notin Runs /\ Runs' = Runs \cup {n} /\ run'[n] = y
        /\ \A q \in Runs : run'[q] = run[q]
        /\ tab'[t] = S /\ \A u \in Tabs \ {t} : tab'[u] = tab[u]
        /\ y.tab = t /\ y.at \in {"acting", "denied"} /\ S.fill = tab[t].fill
        /\ y.fill = IF Filled(y.act) THEN tab[t].fill ELSE None
    BY DEF Presses
  <1>2. \A u \in Tabs : tab'[u].fill = tab[u].fill BY <1>1
  <1>3. \A u, v \in Tabs : tab'[u].fill = tab'[v].fill /\ tab'[u].fill # None => u = v
    BY <1>2 DEF FilledOK
  <1>4. \A q \in Runs' : run'[q].fill # None => Filled(run'[q].act) BY <1>1 DEF FilledOK
  <1>5. ASSUME NEW u \in Tabs, NEW q \in Runs',
               tab'[u].fill = run'[q].fill, tab'[u].fill # None, ~Stopped(run'[q])
        PROVE  /\ run'[q].tab = u
               /\ run'[q].act # "respond" =>
                     run'[q].at \in {"acting", "publishing"} \/ run'[q].page.keeps
    <2>1. CASE q \in Runs
      <3>1. run'[q] = run[q] /\ tab[u].fill = run[q].fill /\ tab[u].fill # None
        BY <1>1, <1>2, <1>5, <2>1
      <3>2. ~Stopped(run[q]) BY <1>5, <3>1
      <3> QED BY <2>1, <3>1, <3>2 DEF FilledOK
    <2>2. CASE q = n
      <3>1. u = t BY <1>1, <1>2, <1>5, <2>2 DEF FilledOK
      <3>2. y.at = "acting" BY <1>1, <1>5, <2>2 DEF Stopped
      <3> QED BY <1>1, <2>2, <3>1, <3>2
    <2> QED BY <1>1, <2>1, <2>2
  <1> QED BY <1>3, <1>4, <1>5 DEF FilledOK, Filled, Stopped

LEMMA FilledRead ==
    ASSUME FilledOK, NEW r, Reads(r)
    PROVE  FilledOK'
  <1>1. \A q \in Runs : /\ run'[q].tab = run[q].tab /\ run'[q].act = run[q].act
                        /\ run'[q].at = run[q].at /\ run'[q].fill = run[q].fill
                        /\ run'[q].page = run[q].page
    BY DEF Reads
  <1>2. tab' = tab /\ Runs' = Runs BY DEF Reads
  <1> QED BY <1>1, <1>2 DEF FilledOK, Filled, Stopped

LEMMA FilledGo ==
    ASSUME TypeOK, PagesOK, FilledOK, NEW r, NEW x, NEW y, NEW S, Steps(r, x, y, S)
    PROVE  FilledOK'
  <1> PICK T : T = Page(r) OBVIOUS
  <1>1. /\ r \in Runs /\ Runs' = Runs /\ x = run[r] /\ y = run'[r]
        /\ Same(x, y) /\ Advances(x, y, T, S)
        /\ \A q \in Runs \ {r} : run'[q] = run[q]
        /\ \A t \in Tabs \ {x.tab} : tab'[t] = tab[t]
        /\ x.tab # None => x.tab \in Tabs /\ T = tab[x.tab] /\ tab'[x.tab] = S
    BY DEF Steps
  <1>2. /\ ~Stopped(y) => ~Stopped(x)
        /\ S.fill = None \/ S.fill = T.fill
    BY StepKeeps DEF Follows
  <1>3. \A u \in Tabs : tab'[u].fill = None \/ tab'[u].fill = tab[u].fill
    BY <1>1, <1>2, PagesAssumption
  <1>4. \A u, v \in Tabs : tab'[u].fill = tab'[v].fill /\ tab'[u].fill # None => u = v
    BY <1>3 DEF FilledOK
  <1>5. \A q \in Runs : /\ run'[q].tab = run[q].tab /\ run'[q].act = run[q].act
                        /\ run'[q].fill = run[q].fill /\ run'[q].page = run[q].page
                        /\ ~Stopped(run'[q]) => ~Stopped(run[q])
    BY <1>1, <1>2 DEF Same
  <1>6. \A q \in Runs' : run'[q].fill # None => Filled(run'[q].act) BY <1>1, <1>5 DEF FilledOK
  <1>7. ASSUME NEW u \in Tabs, NEW q \in Runs',
               tab'[u].fill = run'[q].fill, tab'[u].fill # None, ~Stopped(run'[q])
        PROVE  /\ run'[q].tab = u
               /\ run'[q].act # "respond" =>
                     run'[q].at \in {"acting", "publishing"} \/ run'[q].page.keeps
    <2>1. /\ run[q].tab = u
          /\ run[q].act # "respond" =>
                run[q].at \in {"acting", "publishing"} \/ run[q].page.keeps
      BY <1>1, <1>3, <1>5, <1>7 DEF FilledOK
    <2>2. CASE q = r /\ x.act # "respond" /\ ~x.page.keeps
      <3>1. x.act \in {"submit", "submit-and-publish"} /\ ~x.page.keeps
        BY <1>1, <1>5, <1>7, <2>2 DEF FilledOK, Filled
      <3>2. x.tab = u /\ S.fill # None /\ x.at \in {"acting", "publishing"} /\ ~Stopped(y)
        <4>1. u # None BY PagesAssumption
        <4> QED BY <1>1, <1>7, <2>1, <2>2, <4>1
      <3>3. y.at \in {"acting", "publishing"}
        <4>1. CASE Waits(x, y, T, S) BY <3>2, <4>1 DEF Waits
        <4>2. CASE Fails(x, y, T, S) BY <3>2, <4>2 DEF Fails
        <4>3. ~Reloads(x, y, T, S) BY <3>1, <3>2 DEF Reloads
        <4>4. CASE Publishes(x, y, T, S) BY <4>4 DEF Publishes
        <4>5. CASE Lists(x, y, T, S) \/ Details(x, y, T, S) BY <3>2, <4>5 DEF Lists, Details
        <4>6. CASE Finishes(x, y, T, S) BY <3>1, <3>2, <4>6 DEF Finishes
        <4> QED BY <1>1, <4>1, <4>2, <4>3, <4>4, <4>5, <4>6 DEF Advances
      <3> QED BY <1>1, <1>5, <2>1, <2>2, <3>3
    <2>3. CASE ~(q = r /\ x.act # "respond" /\ ~x.page.keeps) BY <1>1, <1>5, <2>1, <2>3
    <2> QED BY <2>2, <2>3
  <1> QED BY <1>4, <1>6, <1>7 DEF FilledOK, Filled, Stopped
-----------------------------------------------------------------------------
(* What has been read of the effects is their beginning. *)
LEMMA BeginsOn ==
    ASSUME NEW a, NEW b, NEW c, Begins(a, b), Begins(b, c)
    PROVE  Begins(a, c)
  BY DEF Begins

LEMMA BeginsIn ==
    ASSUME NEW a, NEW b, Begins(a, b), NEW q, In(q, a)
    PROVE  In(q, b)
  BY DEF Begins, In

LEMMA NothingRead == \A s : Begins(<<>>, s) /\ \A q : ~In(q, <<>>)
  BY DEF Begins, In

LEMMA GrewIs ==
    ASSUME TypeOK, NEW r \in Runs, Grew(r)
    PROVE  /\ Begins(effects, effects')
           /\ \A q : In(q, effects') => In(q, effects) \/ (q = r /\ IsAct(run[r]) /\ run[r].at = "acting")
           /\ IsAct(run[r]) /\ run[r].at = "acting" /\ run'[r].at \in {"publishing", "loading"} =>
                 In(r, effects')
           /\ run[r].at # "acting" => effects' = effects
  <1>1. effects \in Seq(Runs) BY DEF TypeOK
  <1>2. CASE effects' = effects BY <1>2 DEF Grew, Begins, In
  <1>3. CASE IsAct(run[r]) /\ run[r].at = "acting" /\ effects' = Append(effects, r)
    <2>1. /\ DOMAIN effects = 1 .. Len(effects) /\ DOMAIN effects' = 1 .. Len(effects) + 1
          /\ effects'[Len(effects) + 1] = r /\ Len(effects) \in Nat
          /\ \A k \in DOMAIN effects : effects'[k] = effects[k]
      BY <1>1, <1>3
    <2>2. \A k \in DOMAIN effects' : k = Len(effects) + 1 \/ k \in DOMAIN effects BY <2>1
    <2>3. Begins(effects, effects') BY <2>1 DEF Begins
    <2>4. In(r, effects') BY <2>1 DEF In
    <2>5. \A q : In(q, effects') => In(q, effects) \/ q = r BY <2>1, <2>2 DEF In
    <2> QED BY <1>3, <2>3, <2>4, <2>5
  <1> QED BY <1>2, <1>3 DEF Grew

(* Run r has read what it should have.                                     *)
HeardOK(r, x) ==
    /\ Begins(x.effects, effects)
    /\ x.at \in {"acting", "publishing"} => ~x.read
    /\ IsAct(x) /\ x.at \in {"publishing", "loading", "ended"} => In(r, effects)
    /\ IsAct(x) /\ x.at = "loading" /\ x.read => In(r, x.effects)

LEMMA EffectsOKIs ==
    EffectsOK <=> /\ \A t \in Tabs : Begins(tab[t].effects, effects)
                  /\ \A r \in Runs : HeardOK(r, run[r])
  BY DEF EffectsOK, HeardOK

LEMMA EffectsOKNext ==
    ASSUME \A t \in Tabs : Begins(tab'[t].effects, effects'),
           \A r \in Runs' : HeardOK(r, run[r])'
    PROVE  EffectsOK'
  BY DEF EffectsOK, HeardOK, Begins, In, IsAct

LEMMA EffectsLeave ==
    ASSUME TypeOK, EffectsOK, NEW t, NEW S, Leaves(t, S)
    PROVE  EffectsOK'
  <1>1. /\ effects' = effects /\ t \in Tabs /\ tab'[t].effects = <<>>
        /\ \A u \in Tabs \ {t} : tab'[u] = tab[u]
    BY DEF Leaves
  <1>2. \A u \in Tabs : Begins(tab'[u].effects, effects') BY <1>1, NothingRead, EffectsOKIs
  <1>3. ASSUME NEW r \in Runs' PROVE HeardOK(r, run[r])'
    <2>1. CASE r \in Runs
      <3>1. Alike(run[r], run'[r]) BY <2>1 DEF Leaves
      <3>2. HeardOK(r, run[r]) BY <2>1, EffectsOKIs
      <3> QED BY <1>1, <3>1, <3>2 DEF HeardOK, Alike, IsAct
    <2>2. CASE r \notin Runs
      <3>1. Opening(run'[r], t, S) BY <2>2 DEF Leaves
      <3> QED BY <3>1, NothingRead DEF HeardOK, Opening, IsAct
    <2> QED BY <2>1, <2>2
  <1> QED BY <1>2, <1>3, EffectsOKNext

LEMMA EffectsTurn ==
    ASSUME TypeOK, EffectsOK, NEW t, NEW S, Turns(t, S)
    PROVE  EffectsOK'
  <1>1. /\ run' = run /\ Runs' = Runs /\ effects' = effects
        /\ \A u \in Tabs : tab'[u].effects = tab[u].effects
    BY DEF Turns, Runs
  <1>2. \A u \in Tabs : Begins(tab'[u].effects, effects') BY <1>1, EffectsOKIs
  <1>3. \A r \in Runs' : HeardOK(r, run[r])' BY <1>1, EffectsOKIs DEF HeardOK
  <1> QED BY <1>2, <1>3, EffectsOKNext

LEMMA EffectsPress ==
    ASSUME TypeOK, EffectsOK, NEW t, NEW y, NEW S, Presses(t, y, S)
    PROVE  EffectsOK'
  <1> PICK n : n = Len(run) + 1 OBVIOUS
  <1>1. /\ Runs' = Runs \cup {n} /\ run'[n] = y /\ \A q \in Runs : run'[q] = run[q]
        /\ effects' = effects /\ \A u \in Tabs : tab'[u].effects = tab[u].effects
        /\ y.at \in {"acting", "denied"} /\ ~y.read /\ y.effects = <<>>
    BY DEF Presses
  <1>2. \A u \in Tabs : Begins(tab'[u].effects, effects') BY <1>1, EffectsOKIs
  <1>3. \A r \in Runs : HeardOK(r, run[r])' BY <1>1, EffectsOKIs DEF HeardOK
  <1>4. HeardOK(n, run[n])' BY <1>1, NothingRead DEF HeardOK
  <1> QED BY <1>1, <1>2, <1>3, <1>4, EffectsOKNext

LEMMA EffectsRead ==
    ASSUME TypeOK, EffectsOK, NEW r, Reads(r)
    PROVE  EffectsOK'
  <1>1. tab' = tab /\ Runs' = Runs /\ effects' = effects BY DEF Reads
  <1>2. \A u \in Tabs : Begins(tab'[u].effects, effects') BY <1>1, EffectsOKIs
  <1>3. ASSUME NEW q \in Runs PROVE HeardOK(q, run[q])'
    <2>1. HeardOK(q, run[q]) BY EffectsOKIs
    <2>2. CASE q # r
      <3>1. run'[q] = run[q] BY <2>2 DEF Reads
      <3> QED BY <1>1, <2>1, <3>1 DEF HeardOK
    <2>3. CASE q = r
      <3>1. /\ run[q].at = "loading" /\ run'[q].at = "loading" /\ run'[q].act = run[q].act
            /\ run'[q].effects = effects
        BY <2>3 DEF Reads
      <3>2. Begins(effects, effects) BY DEF Begins
      <3> QED BY <1>1, <2>1, <3>1, <3>2 DEF HeardOK, IsAct
    <2> QED BY <2>2, <2>3
  <1> QED BY <1>1, <1>2, <1>3, EffectsOKNext

LEMMA EffectsGo ==
    ASSUME TypeOK, PagesOK, EffectsOK, NEW r, NEW x, NEW y, NEW S, Steps(r, x, y, S)
    PROVE  EffectsOK'
  <1> PICK T : T = Page(r) OBVIOUS
  <1>1. /\ r \in Runs /\ Runs' = Runs /\ x = run[r] /\ y = run'[r]
        /\ Same(x, y) /\ Advances(x, y, T, S) /\ Grew(r)
        /\ \A q \in Runs \ {r} : run'[q] = run[q]
        /\ \A t \in Tabs \ {x.tab} : tab'[t] = tab[t]
        /\ x.tab # None => x.tab \in Tabs /\ T = tab[x.tab] /\ tab'[x.tab] = S
    BY DEF Steps
  <1>2. /\ Begins(effects, effects')
        /\ IsAct(x) /\ x.at = "acting" /\ y.at \in {"publishing", "loading"} => In(r, effects')
    BY <1>1, GrewIs
  <1>3. PlaceOK(r, x) /\ HeardOK(r, x) BY <1>1, PagesOKIs, EffectsOKIs
  <1>4. S.effects = T.effects \/ S.effects = x.effects \/ S.effects = <<>>
    <2>1. S.page = T.page \/ S.effects = <<>> BY StepKeeps
    <2>2. Fresh(LoginPage).effects = <<>> BY DEF Fresh
    <2> QED BY <1>1, <2>2 DEF Advances, Waits, Fails, Reloads, Publishes, Lists, Details, Finishes
  <1>5. ASSUME NEW u \in Tabs PROVE Begins(tab'[u].effects, effects')
    <2>1. Begins(tab[u].effects, effects') BY <1>2, BeginsOn, EffectsOKIs
    <2>2. Begins(x.effects, effects') BY <1>2, <1>3, BeginsOn DEF HeardOK
    <2>3. u # None BY PagesAssumption
    <2>4. tab'[u] = tab[u] \/ (tab'[u] = S /\ T = tab[u]) BY <1>1, <2>3
    <2> QED BY <1>4, <2>1, <2>2, <2>4, NothingRead
  <1>6. ASSUME NEW q \in Runs \ {r} PROVE HeardOK(q, run[q])'
    <2>1. HeardOK(q, run[q]) /\ run'[q] = run[q] BY <1>1, EffectsOKIs
    <2>2. Begins(run[q].effects, effects') BY <1>2, <2>1, BeginsOn DEF HeardOK
    <2>3. In(q, effects) => In(q, effects') BY <1>2, BeginsIn
    <2> QED BY <2>1, <2>2, <2>3 DEF HeardOK
  <1>7. HeardOK(r, run[r])'
    <2>1. /\ y.act = x.act /\ y.effects = x.effects /\ y.read = x.read BY <1>1 DEF Same
    <2>2. Begins(y.effects, effects') BY <1>2, <1>3, <2>1, BeginsOn DEF HeardOK
    <2>3. In(r, effects) => In(r, effects') BY <1>2, BeginsIn
    <2>4. IsAct(y) <=> IsAct(x) BY <2>1 DEF IsAct
    <2>5. /\ y.at \in {"acting", "publishing"} => ~y.read
          /\ IsAct(y) /\ y.at \in {"publishing", "loading", "ended"} => In(r, effects')
          /\ IsAct(y) /\ y.at = "loading" /\ y.read => In(r, y.effects)
      <3>1. CASE Waits(x, y, T, S)
        <4>1. y.at = x.at BY <3>1 DEF Waits
        <4> QED BY <1>3, <2>1, <2>3, <2>4, <4>1 DEF HeardOK
      <3>2. CASE Fails(x, y, T, S) BY <3>2 DEF Fails, Stopped
      <3>3. CASE Reloads(x, y, T, S) BY <1>2, <1>3, <2>1, <2>3, <2>4, <3>3 DEF Reloads, HeardOK
      <3>4. CASE Publishes(x, y, T, S) BY <1>2, <1>3, <2>1, <2>4, <3>4 DEF Publishes, HeardOK
      <3>5. CASE Lists(x, y, T, S)
        <4>1. x.at = "detailing" => x.act = "open" BY <1>3 DEF PlaceOK
        <4> QED BY <1>3, <2>3, <2>4, <3>5, <4>1 DEF Lists, HeardOK, IsAct
      <3>6. CASE Details(x, y, T, S) BY <3>6 DEF Details
      <3>7. CASE Finishes(x, y, T, S)
        <4>1. x.at = "checking" => x.act = "open" BY <1>3 DEF PlaceOK
        <4> QED BY <2>4, <3>7, <4>1 DEF Finishes, IsAct
      <3> QED BY <1>1, <3>1, <3>2, <3>3, <3>4, <3>5, <3>6, <3>7 DEF Advances
    <2>6. run'[r] = y BY <1>1
    <2> QED BY <2>2, <2>5, <2>6 DEF HeardOK
  <1>8. ASSUME NEW q \in Runs' PROVE HeardOK(q, run[q])'
    <2>1. CASE q = r BY <1>7, <2>1
    <2>2. CASE q # r BY <1>1, <1>6, <2>2
    <2> QED BY <2>1, <2>2
  <1> QED BY <1>5, <1>8, EffectsOKNext
-----------------------------------------------------------------------------
(* What has been done is shown on page t, or on its way. *)
Coming(t, r) ==
    \/ In(r, tab[t].effects) \/ tab[t].error
    \/ \E s \in Runs : run[s].tab = t /\ Brings(run[s], r)

Acting(t) == ~tab[t].mixed /\ tab[t].page.acts \ {"sign-in"} # {}

PageShows(t) ==
    Acting(t) =>
        /\ \A q, r \in Loading(t) : q = r
        /\ \A r \in Loading(t) : run[r].read => Begins(tab[t].effects, run[r].effects)
        /\ \A r \in Runs : run[r].tab = t /\ IsAct(run[r]) =>
              /\ run[r].at = "ended" => In(r, tab[t].effects)
              /\ In(r, effects) => Coming(t, r)

LEMMA ShownOKIs == ShownOK <=> \A t \in Tabs : PageShows(t)
  BY DEF ShownOK, PageShows, Acting, Coming

LEMMA ShownOKNext ==
    ASSUME \A t \in Tabs : PageShows(t)'
    PROVE  ShownOK'
  BY DEF ShownOK, PageShows, Acting, Coming, In, Begins, IsAct, Brings, Loading

LEMMA PageShowsNext ==
    ASSUME NEW t,
           Acting(t)' =>
              /\ \A q, r \in Loading(t)' : q = r
              /\ \A r \in Loading(t)' : run'[r].read => Begins(tab'[t].effects, run'[r].effects)
              /\ \A r \in Runs' : run'[r].tab = t /\ IsAct(run'[r]) =>
                    /\ run'[r].at = "ended" => In(r, tab'[t].effects)
                    /\ In(r, effects') => Coming(t, r)'
    PROVE  PageShows(t)'
  BY DEF PageShows, IsAct, In, Begins

(* A page on which nothing has changed. *)
LEMMA ShownStill ==
    ASSUME NEW t \in Tabs, PageShows(t), tab'[t] = tab[t], Runs \subseteq Runs',
           \A q \in Runs : run[q].tab = t => run'[q].tab = t /\ Alike(run[q], run'[q]),
           \A q \in Runs' : run'[q].tab = t => q \in Runs /\ run[q].tab = t,
           \A q \in Runs : run[q].tab = t /\ In(q, effects') => In(q, effects)
    PROVE  PageShows(t)'
  <1>1. \A q : q \in Loading(t)' <=> q \in Loading(t) BY DEF Loading, Alike
  <1>2. \A q \in Loading(t) : run'[q].read = run[q].read /\ run'[q].effects = run[q].effects
    BY DEF Loading, Alike
  <1>3. ASSUME NEW r, Coming(t, r) PROVE Coming(t, r)'
    <2>1. CASE In(r, tab[t].effects) \/ tab[t].error BY <2>1 DEF Coming, In
    <2>2. CASE ~(In(r, tab[t].effects) \/ tab[t].error)
      <3>1. PICK s \in Runs : run[s].tab = t /\ Brings(run[s], r) BY <1>3, <2>2 DEF Coming
      <3>2. Alike(run[s], run'[s]) /\ run'[s].tab = t BY <3>1
      <3>3. Brings(run'[s], r) BY <3>1, <3>2 DEF Brings, Alike
      <3> QED BY <3>2, <3>3 DEF Coming, Brings, In
    <2> QED BY <2>1, <2>2
  <1>4. Acting(t)' <=> Acting(t) BY DEF Acting
  <1>5. ASSUME Acting(t)
        PROVE  /\ \A q, r \in Loading(t)' : q = r
               /\ \A r \in Loading(t)' : run'[r].read => Begins(tab'[t].effects, run'[r].effects)
    <2>1. /\ \A q, r \in Loading(t) : q = r
          /\ \A r \in Loading(t) : run[r].read => Begins(tab[t].effects, run[r].effects)
      BY <1>5 DEF PageShows
    <2> QED BY <1>1, <1>2, <2>1
  <1>6. ASSUME Acting(t), NEW r \in Runs', run'[r].tab = t, IsAct(run'[r])
        PROVE  /\ run'[r].at = "ended" => In(r, tab'[t].effects)
               /\ In(r, effects') => Coming(t, r)'
    <2>1. r \in Runs /\ run[r].tab = t /\ Alike(run[r], run'[r]) BY <1>6
    <2>2. In(r, effects') => In(r, effects) BY <2>1
    <2>3. IsAct(run[r]) /\ run'[r].at = run[r].at BY <1>6, <2>1 DEF Alike, IsAct
    <2>4. /\ run[r].at = "ended" => In(r, tab[t].effects)
          /\ In(r, effects) => Coming(t, r)
      BY <1>6, <2>1, <2>3 DEF PageShows
    <2> QED BY <1>3, <2>2, <2>3, <2>4
  <1> QED BY <1>4, <1>5, <1>6, PageShowsNext

LEMMA ShownLeave ==
    ASSUME TypeOK, ShownOK, NEW t, NEW S, Leaves(t, S)
    PROVE  ShownOK'
  <1>1. /\ t \in Tabs /\ Runs \subseteq Runs' /\ effects' = effects
        /\ \A u \in Tabs \ {t} : tab'[u] = tab[u]
        /\ \A q \in Runs : /\ Alike(run[q], run'[q])
                           /\ run'[q].tab = IF run[q].tab = t THEN None ELSE run[q].tab
        /\ \A q \in Runs' \ Runs : /\ q = Len(run) + 1 /\ run'[q].tab = t
                                   /\ run'[q].act = "open" /\ ~run'[q].read
    BY DEF Leaves, Opening
  <1>2. ASSUME NEW u \in Tabs \ {t} PROVE PageShows(u)'
    <2>1. u # None BY PagesAssumption
    <2>2. \A q \in Runs' : run'[q].tab = u => q \in Runs /\ run[q].tab = u BY <1>1, <2>1
    <2>3. PageShows(u) BY ShownOKIs
    <2> QED BY <1>1, <2>2, <2>3, ShownStill
  <1>3. PageShows(t)'
    <2>1. t # None BY <1>1, PagesAssumption
    <2>2. \A q \in Runs' : run'[q].tab = t => /\ q = Len(run) + 1 /\ run'[q].act = "open"
                                              /\ ~run'[q].read
      BY <1>1, <2>1
    <2>3. \A q \in Loading(t)' : q = Len(run) + 1 /\ ~run'[q].read BY <2>2 DEF Loading
    <2>4. \A q \in Runs' : run'[q].tab = t => ~IsAct(run'[q]) BY <2>2 DEF IsAct
    <2> QED BY <2>3, <2>4, PageShowsNext
  <1> QED BY <1>2, <1>3, ShownOKNext

LEMMA ShownTurn ==
    ASSUME TypeOK, ShownOK, NEW t, NEW S, Turns(t, S)
    PROVE  ShownOK'
  <1>1. /\ t \in Tabs /\ run' = run /\ Runs' = Runs /\ effects' = effects
        /\ tab'[t] = S /\ \A u \in Tabs \ {t} : tab'[u] = tab[u]
        /\ S.page = tab[t].page /\ S.effects = tab[t].effects
        /\ (tab[t].mixed => S.mixed) /\ (tab[t].error => S.error \/ S.mixed)
    BY DEF Turns, Runs
  <1>2. ASSUME NEW u \in Tabs \ {t} PROVE PageShows(u)'
    <2>1. PageShows(u) BY ShownOKIs
    <2> QED BY <1>1, <2>1, ShownStill DEF Alike
  <1>3. PageShows(t)'
    <2>1. PageShows(t) BY <1>1, ShownOKIs
    <2>2. SUFFICES ASSUME Acting(t)' PROVE PageShows(t)' BY PageShowsNext
    <2>3. Acting(t) /\ ~S.mixed BY <1>1, <2>2 DEF Acting
    <2>4. \A q : q \in Loading(t)' <=> q \in Loading(t) BY <1>1 DEF Loading
    <2>5. \A r : Coming(t, r) => Coming(t, r)' BY <1>1, <2>3 DEF Coming, In, Brings
    <2>6. /\ \A q, r \in Loading(t)' : q = r
          /\ \A r \in Loading(t)' : run'[r].read => Begins(tab'[t].effects, run'[r].effects)
      BY <1>1, <2>1, <2>3, <2>4 DEF PageShows
    <2>7. ASSUME NEW r \in Runs', run'[r].tab = t, IsAct(run'[r])
          PROVE  /\ run'[r].at = "ended" => In(r, tab'[t].effects)
                 /\ In(r, effects') => Coming(t, r)'
      <3>1. /\ run[r].at = "ended" => In(r, tab[t].effects)
            /\ In(r, effects) => Coming(t, r)
        BY <1>1, <2>1, <2>3, <2>7 DEF PageShows
      <3> QED BY <1>1, <2>5, <3>1
    <2> QED BY <2>6, <2>7, PageShowsNext
  <1> QED BY <1>2, <1>3, ShownOKNext

LEMMA ShownPress ==
    ASSUME TypeOK, PagesOK, ShownOK, NEW t, NEW y, NEW S, Presses(t, y, S)
    PROVE  ShownOK'
  <1> PICK n : n = Len(run) + 1 OBVIOUS
  <1>1. /\ t \in Tabs /\ n \notin Runs /\ Runs' = Runs \cup {n} /\ run'[n] = y
        /\ \A q \in Runs : run'[q] = run[q]
        /\ effects' = effects /\ tab'[t] = S /\ \A u \in Tabs \ {t} : tab'[u] = tab[u]
        /\ y.tab = t /\ y.at \in {"acting", "denied"}
        /\ S.page = tab[t].page /\ S.effects = tab[t].effects /\ S.mixed = tab[t].mixed
        /\ Stopped(y) => S.error
    BY DEF Presses
  <1>2. ~In(n, effects)
    <2>1. effects \in Seq(Runs) BY DEF TypeOK
    <2> QED BY <1>1, <2>1 DEF In
  <1>3. ASSUME NEW u \in Tabs \ {t} PROVE PageShows(u)'
    <2>1. PageShows(u) BY ShownOKIs
    <2>2. \A q \in Runs' : run'[q].tab = u => q \in Runs /\ run[q].tab = u BY <1>1
    <2> QED BY <1>1, <2>1, <2>2, ShownStill DEF Alike
  <1>4. PageShows(t)'
    <2>1. PageShows(t) BY <1>1, ShownOKIs
    <2>2. Acting(t)' => Acting(t) BY <1>1 DEF Acting
    <2>3. \A q : q \in Loading(t)' => q \in Loading(t) BY <1>1 DEF Loading
    <2>4. \A r : Coming(t, r)'
      <3>1. CASE Stopped(y) BY <1>1, <3>1 DEF Coming
      <3>2. CASE ~Stopped(y)
        <4>1. y.at = "acting" BY <1>1, <3>2 DEF Stopped
        <4>2. \A r : Brings(y, r)' BY <4>1 DEF Brings
        <4>3. n \in Runs' /\ run'[n] = y /\ y.tab = t BY <1>1
        <4>4. \A r : Brings(run'[n], r) BY <4>1, <4>3 DEF Brings
        <4> QED BY <4>3, <4>4 DEF Coming, Brings, In
      <3> QED BY <3>1, <3>2
    <2>5. ASSUME Acting(t)'
          PROVE  /\ \A q, r \in Loading(t)' : q = r
                 /\ \A r \in Loading(t)' : run'[r].read => Begins(tab'[t].effects, run'[r].effects)
      <3>1. /\ \A q, r \in Loading(t) : q = r
            /\ \A r \in Loading(t) : run[r].read => Begins(tab[t].effects, run[r].effects)
        BY <2>1, <2>2, <2>5 DEF PageShows
      <3>2. \A r \in Loading(t) : run'[r] = run[r] BY <1>1 DEF Loading
      <3> QED BY <1>1, <2>3, <3>1, <3>2
    <2>6. ASSUME Acting(t)', NEW r \in Runs', run'[r].tab = t, IsAct(run'[r])
          PROVE  /\ run'[r].at = "ended" => In(r, tab'[t].effects)
                 /\ In(r, effects') => Coming(t, r)'
      <3>1. CASE r = n BY <1>1, <2>4, <3>1
      <3>2. CASE r \in Runs
        <4>1. run[r].at = "ended" => In(r, tab[t].effects)
          BY <1>1, <2>1, <2>2, <2>6, <3>2 DEF PageShows
        <4> QED BY <1>1, <2>4, <3>2, <4>1
      <3> QED BY <1>1, <3>1, <3>2
    <2> QED BY <2>5, <2>6, PageShowsNext
  <1> QED BY <1>3, <1>4, ShownOKNext

LEMMA ShownRead ==
    ASSUME TypeOK, EffectsOK, ShownOK, NEW r, Reads(r)
    PROVE  ShownOK'
  <1>1. /\ r \in Runs /\ Runs' = Runs /\ tab' = tab /\ effects' = effects
        /\ \A q \in Runs \ {r} : run'[q] = run[q]
        /\ \A q \in Runs : /\ run'[q].tab = run[q].tab /\ run'[q].act = run[q].act
                           /\ run'[q].at = run[q].at
        /\ run[r].at = "loading" /\ ~run[r].read /\ run'[r].effects = effects
    BY DEF Reads
  <1>2. ASSUME NEW t \in Tabs PROVE PageShows(t)'
    <2>1. PageShows(t) /\ Begins(tab[t].effects, effects) BY ShownOKIs, EffectsOKIs
    <2>2. Acting(t)' <=> Acting(t) BY <1>1 DEF Acting
    <2>3. \A q : q \in Loading(t)' <=> q \in Loading(t) BY <1>1 DEF Loading
    <2>4. ASSUME Acting(t)'
          PROVE  /\ \A p, q \in Loading(t)' : p = q
                 /\ \A q \in Loading(t)' : run'[q].read => Begins(tab'[t].effects, run'[q].effects)
      <3>1. /\ \A p, q \in Loading(t) : p = q
            /\ \A q \in Loading(t) : run[q].read => Begins(tab[t].effects, run[q].effects)
        BY <2>1, <2>2, <2>4 DEF PageShows
      <3>2. \A q \in Loading(t) : q \in Runs BY DEF Loading
      <3>3. ASSUME NEW q \in Loading(t), run'[q].read PROVE Begins(tab'[t].effects, run'[q].effects)
        <4>1. CASE q = r BY <1>1, <2>1, <4>1
        <4>2. CASE q # r BY <1>1, <3>1, <3>2, <3>3, <4>2
        <4> QED BY <4>1, <4>2
      <3> QED BY <2>3, <3>1, <3>3
    <2>5. ASSUME Acting(t)', NEW q \in Runs', run'[q].tab = t, IsAct(run'[q])
          PROVE  /\ run'[q].at = "ended" => In(q, tab'[t].effects)
                 /\ In(q, effects') => Coming(t, q)'
      <3>1. q \in Runs /\ run[q].tab = t /\ IsAct(run[q]) BY <1>1, <2>5 DEF IsAct
      <3>2. /\ run[q].at = "ended" => In(q, tab[t].effects)
            /\ In(q, effects) => Coming(t, q)
        BY <2>1, <2>2, <2>5, <3>1 DEF PageShows
      <3>3. ASSUME In(q, effects), Coming(t, q) PROVE Coming(t, q)'
        <4>1. CASE In(q, tab[t].effects) \/ tab[t].error BY <1>1, <4>1 DEF Coming, In
        <4>2. CASE ~(In(q, tab[t].effects) \/ tab[t].error)
          <5>1. PICK s \in Runs : run[s].tab = t /\ Brings(run[s], q) BY <3>3, <4>2 DEF Coming
          <5>2. Brings(run'[s], q)
            <6>1. CASE s = r BY <1>1, <3>3, <6>1 DEF Brings
            <6>2. CASE s # r BY <1>1, <5>1, <6>2
            <6> QED BY <6>1, <6>2
          <5>3. s \in Runs' /\ run'[s].tab = t BY <1>1, <5>1
          <5> QED BY <5>2, <5>3 DEF Coming, Brings, In
        <4> QED BY <4>1, <4>2
      <3> QED BY <1>1, <3>2, <3>3
    <2> QED BY <2>4, <2>5, PageShowsNext
  <1> QED BY <1>2, ShownOKNext

(* A run on page t goes on, and the page becomes S. *)
GoesOn(t, r, x, y, T, S) ==
    /\ t \in Tabs /\ r \in Runs /\ Runs' = Runs /\ x = run[r] /\ y = run'[r]
    /\ x.tab = t /\ y.tab = t /\ T = tab[t] /\ S = tab'[t] /\ S.page = T.page
    /\ x.page = T.page /\ T.page.acts \ {"sign-in"} # {} /\ Sound(x.page)
    /\ Same(x, y) /\ (T.mixed => S.mixed)
    /\ \A q \in Runs \ {r} : run'[q] = run[q]
    /\ PageShows(t) /\ HeardOK(r, x) /\ PlaceOK(r, x)
    /\ \A q : In(q, effects') => In(q, effects) \/ (q = r /\ IsAct(x) /\ x.at = "acting")
    /\ x.at # "acting" => effects' = effects

(* If another run brings it, or the page shows it, they still do.          *)
LEMMA ComesStill ==
    ASSUME NEW t, NEW r, NEW x, NEW y, NEW T, NEW S, GoesOn(t, r, x, y, T, S), NEW q,
           Coming(t, q), S.effects = T.effects, S.error = T.error, Brings(x, q) => Brings(y, q)
    PROVE  Coming(t, q)'
  <1>1. CASE In(q, T.effects) \/ T.error BY <1>1 DEF GoesOn, Coming, In
  <1>2. CASE ~(In(q, T.effects) \/ T.error)
    <2>1. PICK s \in Runs : run[s].tab = t /\ Brings(run[s], q) BY <1>2 DEF Coming, GoesOn
    <2>2. s \in Runs' /\ run'[s].tab = t /\ Brings(run'[s], q) BY <2>1 DEF GoesOn
    <2> QED BY <2>2 DEF Coming, Brings, In
  <1> QED BY <1>1, <1>2

LEMMA ComesBy ==
    ASSUME NEW t, NEW r, NEW x, NEW y, NEW T, NEW S, GoesOn(t, r, x, y, T, S), NEW q, Brings(y, q)
    PROVE  Coming(t, q)'
  <1>1. r \in Runs' /\ run'[r].tab = t /\ Brings(run'[r], q) BY DEF GoesOn
  <1> QED BY <1>1 DEF Coming, Brings, In

LEMMA StillShows ==
    ASSUME NEW t, NEW r, NEW x, NEW y, NEW T, NEW S, GoesOn(t, r, x, y, T, S),
           S.effects = T.effects, y.at = "loading" => x.at = "loading", y.at = "ended" => x.at = "ended",
           Acting(t)' => \A q \in Runs : run[q].tab = t /\ IsAct(run[q]) /\ In(q, effects') => Coming(t, q)'
    PROVE  PageShows(t)'
  <1>1. /\ r \in Runs /\ Runs' = Runs /\ x = run[r] /\ y = run'[r] /\ Same(x, y)
        /\ T = tab[t] /\ S = tab'[t] /\ S.page = T.page /\ (T.mixed => S.mixed)
        /\ \A q \in Runs \ {r} : run'[q] = run[q]
        /\ PageShows(t)
    BY DEF GoesOn
  <1>2. Acting(t)' => Acting(t) BY <1>1 DEF Acting
  <1>3. \A q \in Runs : /\ run'[q].tab = run[q].tab /\ run'[q].act = run[q].act
                        /\ run'[q].read = run[q].read /\ run'[q].effects = run[q].effects
    BY <1>1 DEF Same
  <1>4. \A q : q \in Loading(t)' => q \in Loading(t) /\ q \in Runs BY <1>1, <1>3 DEF Loading
  <1>5. ASSUME Acting(t)'
        PROVE  /\ \A p, q \in Loading(t)' : p = q
               /\ \A q \in Loading(t)' : run'[q].read => Begins(tab'[t].effects, run'[q].effects)
    <2>1. /\ \A p, q \in Loading(t) : p = q
          /\ \A q \in Loading(t) : run[q].read => Begins(tab[t].effects, run[q].effects)
      BY <1>1, <1>2, <1>5 DEF PageShows
    <2> QED BY <1>1, <1>3, <1>4, <2>1
  <1>6. ASSUME Acting(t)', NEW q \in Runs', run'[q].tab = t, IsAct(run'[q])
        PROVE  /\ run'[q].at = "ended" => In(q, tab'[t].effects)
               /\ In(q, effects') => Coming(t, q)'
    <2>1. q \in Runs /\ run[q].tab = t /\ IsAct(run[q]) BY <1>1, <1>3, <1>6 DEF IsAct
    <2>2. run'[q].at = "ended" => run[q].at = "ended" BY <1>1, <2>1
    <2>3. run[q].at = "ended" => In(q, tab[t].effects)
      BY <1>1, <1>2, <1>6, <2>1 DEF PageShows
    <2> QED BY <1>1, <1>6, <2>1, <2>2, <2>3
  <1> QED BY <1>5, <1>6, PageShowsNext

LEMMA WaitsShows ==
    ASSUME NEW t, NEW r, NEW x, NEW y, NEW T, NEW S, GoesOn(t, r, x, y, T, S), Waits(x, y, T, S)
    PROVE  PageShows(t)'
  <1>1. S = T /\ y.at = x.at BY DEF Waits
  <1>2. \A q : Brings(x, q) => Brings(y, q) BY <1>1 DEF Brings, GoesOn, Same
  <1>3. ASSUME Acting(t)', NEW q \in Runs, run[q].tab = t, IsAct(run[q]), In(q, effects')
        PROVE  Coming(t, q)'
    <2>1. CASE x.at = "acting"
      <3>1. Brings(y, q) BY <1>1, <2>1 DEF Brings
      <3> QED BY <3>1, ComesBy
    <2>2. CASE x.at # "acting"
      <3>1. In(q, effects) BY <1>3, <2>2 DEF GoesOn
      <3>2. Acting(t) /\ PageShows(t) BY <1>1, <1>3 DEF GoesOn, Acting
      <3>3. Coming(t, q) BY <1>3, <3>1, <3>2 DEF PageShows
      <3> QED BY <1>1, <1>2, <3>3, ComesStill
    <2> QED BY <2>1, <2>2
  <1> QED BY <1>1, <1>3, StillShows

LEMMA PublishesShows ==
    ASSUME NEW t, NEW r, NEW x, NEW y, NEW T, NEW S, GoesOn(t, r, x, y, T, S), Publishes(x, y, T, S)
    PROVE  PageShows(t)'
  <1>1. S = T /\ y.at = "publishing" BY DEF Publishes
  <1>2. \A q : Brings(y, q) BY <1>1 DEF Brings
  <1>3. \A q : Coming(t, q)' BY <1>2, ComesBy
  <1> QED BY <1>1, <1>3, StillShows

LEMMA FailsShows ==
    ASSUME NEW t, NEW r, NEW x, NEW y, NEW T, NEW S, GoesOn(t, r, x, y, T, S), Fails(x, y, T, S)
    PROVE  PageShows(t)'
  <1>1. ~x.page.last /\ ~T.page.guard BY DEF GoesOn, Sound
  <1>2. S.error /\ S.effects = T.effects /\ Stopped(y) BY <1>1 DEF Fails
  <1>3. \A q : Coming(t, q)' BY <1>2 DEF Coming, GoesOn
  <1> QED BY <1>2, <1>3, StillShows DEF Stopped

LEMMA ReloadsShows ==
    ASSUME NEW t, NEW r, NEW x, NEW y, NEW T, NEW S, GoesOn(t, r, x, y, T, S), Reloads(x, y, T, S)
    PROVE  PageShows(t)'
  <1>1. /\ r \in Runs /\ Runs' = Runs /\ x = run[r] /\ y = run'[r] /\ Same(x, y) /\ x.tab = t
        /\ T = tab[t] /\ S = tab'[t] /\ S.page = T.page
        /\ \A q \in Runs \ {r} : run'[q] = run[q]
        /\ PageShows(t) /\ HeardOK(r, x)
    BY DEF GoesOn
  <1>2. /\ x.at \in {"acting", "publishing"} /\ y.at = "loading" /\ S.effects = T.effects
        /\ S.mixed <=> T.mixed \/ Loading(t) # {}
    BY <1>1 DEF Reloads
  <1>3. ~y.read BY <1>1, <1>2 DEF HeardOK, Same
  <1>4. \A q : Brings(y, q) BY <1>2, <1>3 DEF Brings
  <1>5. \A q : Coming(t, q)' BY <1>4, ComesBy
  <1>6. ASSUME Acting(t)' PROVE Acting(t) /\ \A q \in Loading(t)' : q = r
    <2>1. Loading(t) = {} /\ ~T.mixed BY <1>1, <1>2, <1>6 DEF Acting
    <2>2. \A q \in Loading(t)' : q = r BY <1>1, <2>1 DEF Loading
    <2> QED BY <1>1, <1>6, <2>1, <2>2 DEF Acting
  <1>7. ASSUME Acting(t)', NEW q \in Runs', run'[q].tab = t, IsAct(run'[q]), run'[q].at = "ended"
        PROVE  In(q, tab'[t].effects)
    <2>1. q # r BY <1>1, <1>2, <1>7
    <2>2. q \in Runs /\ run'[q] = run[q] BY <1>1, <2>1
    <2> QED BY <1>1, <1>2, <1>6, <1>7, <2>2 DEF PageShows
  <1> QED BY <1>1, <1>3, <1>5, <1>6, <1>7, PageShowsNext

LEMMA ListsShows ==
    ASSUME NEW t, NEW r, NEW x, NEW y, NEW T, NEW S, GoesOn(t, r, x, y, T, S), Lists(x, y, T, S),
           x.at = "loading" /\ y.at = "ended" => x.read
    PROVE  PageShows(t)'
  <1>1. /\ r \in Runs /\ Runs' = Runs /\ x = run[r] /\ y = run'[r] /\ Same(x, y) /\ x.tab = t
        /\ T = tab[t] /\ S = tab'[t] /\ S.page = T.page
        /\ \A q \in Runs \ {r} : run'[q] = run[q]
        /\ PageShows(t) /\ HeardOK(r, x)
    BY DEF GoesOn
  <1>2. x.at = "loading" /\ x.read /\ effects' = effects
    <2>1. x.at # "detailing" BY DEF GoesOn, PlaceOK
    <2>2. x.at = "loading" BY <2>1 DEF Lists
    <2> QED BY <2>2 DEF GoesOn, Lists
  <1>3. y.at = "ended" /\ S.effects = x.effects /\ S.error = T.error /\ S.mixed = T.mixed
    BY DEF Lists
  <1>4. SUFFICES ASSUME Acting(t)' PROVE PageShows(t)' BY PageShowsNext
  <1>5. /\ \A p, q \in Loading(t) : p = q
        /\ \A q \in Loading(t) : run[q].read => Begins(tab[t].effects, run[q].effects)
        /\ \A q \in Runs : run[q].tab = t /\ IsAct(run[q]) =>
              /\ run[q].at = "ended" => In(q, tab[t].effects)
              /\ In(q, effects) => Coming(t, q)
    BY <1>1, <1>3, <1>4 DEF Acting, PageShows
  <1>6. r \in Loading(t) BY <1>1, <1>2 DEF Loading
  <1>7. \A q \in Loading(t) : q = r BY <1>5, <1>6
  <1>8. Begins(T.effects, S.effects) BY <1>1, <1>2, <1>3, <1>5, <1>6
  <1>9. \A q : In(q, T.effects) => In(q, S.effects) BY <1>8, BeginsIn
  <1>10. \A q : q \notin Loading(t)'
    <2>1. ASSUME NEW q, q \in Loading(t)' PROVE FALSE
      <3>1. q \in Runs /\ run'[q].tab = t /\ run'[q].at = "loading" BY <1>1, <2>1 DEF Loading
      <3>2. q # r BY <1>1, <1>3, <3>1
      <3>3. q \in Loading(t) BY <1>1, <3>1, <3>2 DEF Loading
      <3> QED BY <1>7, <3>2, <3>3
    <2> QED BY <2>1
  <1>11. ASSUME NEW q \in Runs', run'[q].tab = t, IsAct(run'[q])
         PROVE  /\ run'[q].at = "ended" => In(q, tab'[t].effects)
                /\ In(q, effects') => Coming(t, q)'
    <2>1. q \in Runs /\ run[q].tab = t /\ IsAct(run[q]) BY <1>1, <1>11 DEF Same, IsAct
    <2>2. ASSUME run'[q].at = "ended" PROVE In(q, S.effects)
      <3>1. CASE q = r
        <4>1. IsAct(x) BY <1>1, <2>1, <3>1
        <4> QED BY <1>1, <1>2, <1>3, <3>1, <4>1 DEF HeardOK
      <3>2. CASE q # r
        <4>1. In(q, T.effects) BY <1>1, <1>5, <2>1, <2>2, <3>2
        <4> QED BY <1>9, <4>1
      <3> QED BY <3>1, <3>2
    <2>3. ASSUME In(q, effects') PROVE Coming(t, q)'
      <3>1. Coming(t, q) BY <1>2, <1>5, <2>1, <2>3
      <3>2. CASE In(q, T.effects) \/ T.error
        <4>1. In(q, S.effects) \/ S.error BY <1>3, <1>9, <3>2
        <4> QED BY <1>1, <4>1 DEF Coming, In
      <3>3. CASE ~(In(q, T.effects) \/ T.error)
        <4>1. PICK s \in Runs : run[s].tab = t /\ Brings(run[s], q)
          BY <1>1, <3>1, <3>3 DEF Coming
        <4>2. CASE s = r
          <5>1. In(q, S.effects) BY <1>1, <1>2, <1>3, <4>1, <4>2 DEF Brings
          <5> QED BY <1>1, <5>1 DEF Coming, In
        <4>3. CASE s # r
          <5>1. s \in Runs' /\ run'[s].tab = t /\ Brings(run'[s], q) BY <1>1, <4>1, <4>3
          <5> QED BY <5>1 DEF Coming, Brings, In
        <4> QED BY <4>2, <4>3
      <3> QED BY <3>2, <3>3
    <2> QED BY <1>1, <2>2, <2>3
  <1> QED BY <1>10, <1>11, PageShowsNext

(* A run whose page failed before has nothing more to show. *)
LEMMA ShownSame ==
    ASSUME NEW t, PageShows(t), tab'[t] = tab[t], Runs' = Runs, effects' = effects,
           \A q \in Runs : /\ run'[q].tab = run[q].tab /\ run'[q].act = run[q].act
                          /\ run'[q].read = run[q].read /\ run'[q].effects = run[q].effects
                          /\ run'[q].at = run[q].at
    PROVE  PageShows(t)'
  <1>1. \A q : q \in Loading(t)' <=> q \in Loading(t) BY DEF Loading
  <1>2. \A q \in Loading(t) : q \in Runs BY DEF Loading
  <1>3. ASSUME NEW q, Coming(t, q) PROVE Coming(t, q)'
    <2>1. CASE In(q, tab[t].effects) \/ tab[t].error BY <2>1 DEF Coming, In
    <2>2. CASE ~(In(q, tab[t].effects) \/ tab[t].error)
      <3>1. PICK s \in Runs : run[s].tab = t /\ Brings(run[s], q) BY <1>3, <2>2 DEF Coming
      <3>2. s \in Runs' /\ run'[s].tab = t /\ Brings(run'[s], q) BY <3>1 DEF Brings
      <3> QED BY <3>2 DEF Coming, Brings, In
    <2> QED BY <2>1, <2>2
  <1>4. Acting(t)' <=> Acting(t) BY DEF Acting
  <1> QED BY <1>1, <1>2, <1>3, <1>4, PageShowsNext DEF PageShows, IsAct

LEMMA ShownGo ==
    ASSUME TypeOK, PagesOK, EffectsOK, ShownOK, NEW r, NEW x, NEW y, NEW S, Steps(r, x, y, S)
    PROVE  ShownOK'
  <1> PICK T : T = Page(r) OBVIOUS
  <1>1. /\ r \in Runs /\ Runs' = Runs /\ x = run[r] /\ y = run'[r]
        /\ Same(x, y) /\ Advances(x, y, T, S) /\ Grew(r)
        /\ \A q \in Runs \ {r} : run'[q] = run[q]
        /\ \A t \in Tabs \ {x.tab} : tab'[t] = tab[t]
        /\ x.tab # None => x.tab \in Tabs /\ T = tab[x.tab] /\ tab'[x.tab] = S
    BY DEF Steps
  <1>2. /\ \A q : In(q, effects') => In(q, effects) \/ (q = r /\ IsAct(x) /\ x.at = "acting")
        /\ x.at # "acting" => effects' = effects
    BY <1>1, GrewIs
  <1>3. ASSUME NEW t \in Tabs, t # x.tab PROVE PageShows(t)'
    <2>1. PageShows(t) /\ tab'[t] = tab[t] BY <1>1, <1>3, ShownOKIs
    <2>2. \A q \in Runs : run[q].tab = t => run'[q] = run[q] BY <1>1, <1>3
    <2>3. \A q \in Runs : run'[q].tab = run[q].tab BY <1>1 DEF Same
    <2>4. \A q \in Runs : run[q].tab = t /\ In(q, effects') => In(q, effects) BY <1>1, <1>2, <1>3
    <2>5. \A q \in Runs : run[q].tab = t => run'[q].tab = t /\ Alike(run[q], run'[q])
      BY <2>2 DEF Alike
    <2> QED BY <1>1, <2>1, <2>3, <2>4, <2>5, ShownStill
  <1>4. ASSUME NEW t \in Tabs, t = x.tab PROVE PageShows(t)'
    <2>1. t # None BY PagesAssumption
    <2>2. /\ T = tab[t] /\ S = tab'[t] /\ y.tab = t BY <1>1, <1>4, <2>1 DEF Same
    <2>3. SUFFICES ASSUME Acting(t)' PROVE PageShows(t)' BY PageShowsNext
    <2>4. S.page = T.page
      <3>1. LoginPage.acts = {"sign-in"} BY PagesAre
      <3>2. S.page # LoginPage BY <2>2, <2>3, <3>1 DEF Acting
      <3> QED BY <3>2, StepKeeps
    <2>5. /\ x \in RunType /\ x.page \in AllPages /\ Sound(x.page) /\ PlaceOK(r, x) /\ HeardOK(r, x)
      BY <1>1, PlaceIs, EffectsOKIs
    <2>6. T.page.acts \ {"sign-in"} # {} BY <2>2, <2>3, <2>4 DEF Acting
    <2>7. CASE Stopped(x) /\ T.page # x.page
      <3>1. S = T /\ y.at = x.at BY <2>7, StepKeeps DEF Live
      <3>2. x.at # "acting" BY <2>7 DEF Stopped
      <3>3. effects' = effects BY <1>2, <3>2
      <3>4. PageShows(t) BY ShownOKIs
      <3>5. \A q \in Runs : /\ run'[q].tab = run[q].tab /\ run'[q].act = run[q].act
                            /\ run'[q].read = run[q].read /\ run'[q].effects = run[q].effects
                            /\ run'[q].at = run[q].at
        BY <1>1, <3>1 DEF Same
      <3>6. tab'[t] = tab[t] /\ Runs' = Runs BY <1>1, <2>2, <3>1
      <3> QED BY <3>3, <3>4, <3>5, <3>6, ShownSame
    <2>8. CASE ~(Stopped(x) /\ T.page # x.page)
      <3>1. T.page = x.page BY <1>4, <2>1, <2>2, <2>5, <2>8 DEF PlaceOK
      <3>2. ~T.page.guard BY <2>5, <2>6, <3>1 DEF Sound
      <3>3. T.mixed => S.mixed
        BY <1>1, <3>2
           DEF Advances, Waits, Fails, Reloads, Publishes, Lists, Details, Finishes
      <3>4. PageShows(t) BY ShownOKIs
      <3>5. GoesOn(t, r, x, y, T, S)
        BY <1>1, <1>2, <1>4, <2>2, <2>4, <2>5, <2>6, <3>1, <3>3, <3>4 DEF GoesOn
      <3>6. x.at = "loading" /\ y.at = "ended" => x.read BY <1>1 DEF Grew
      <3>7. ~Details(x, y, T, S) BY <2>5, <2>6, <3>1 DEF Details, Sound
      <3>8. ~Finishes(x, y, T, S)
        <4>1. x.at # "checking" BY <2>5, <2>6, <3>1 DEF PlaceOK
        <4>2. x.act # "sign-in" BY <2>5, <2>6, <3>1 DEF PlaceOK, Sound
        <4> QED BY <4>1, <4>2 DEF Finishes
      <3> QED BY <1>1, <3>5, <3>6, <3>7, <3>8, WaitsShows, FailsShows, ReloadsShows,
              PublishesShows, ListsShows DEF Advances
    <2> QED BY <2>7, <2>8
  <1> QED BY <1>3, <1>4, ShownOKNext
-----------------------------------------------------------------------------
LEMMA InitInv == Init => PageInv
  <1> SUFFICES ASSUME Init PROVE PageInv OBVIOUS
  <1>1. /\ run = <<>> /\ Runs = {} /\ effects = <<>> /\ typed = <<>>
        /\ \A t \in Tabs : tab[t] = Fresh(LoginPage)
    BY DEF Init, Runs
  <1>2. /\ Fresh(LoginPage) \in TabType /\ Fresh(LoginPage).fill = None
        /\ Fresh(LoginPage).effects = <<>> /\ Fresh(LoginPage).page = LoginPage
    <2>1. LoginPage \in AllPages /\ typed \in Seq(Rows) BY <1>1 DEF AllPages
    <2> QED BY <2>1, FreshIs
  <1>3. TypeOK
    <2>1. tab \in [Tabs -> TabType] BY <1>1, <1>2 DEF Init
    <2>2. run \in Seq(RunType) /\ effects \in Seq(Runs) /\ typed \in Seq(Rows) BY <1>1
    <2>3. sessions \in Nat /\ stored \in 0 .. sessions /\ valid \subseteq 1 .. sessions
          /\ rows \subseteq FirstRows
      BY DEF Init
    <2>4. faults \in 0 .. MaxFaults BY PagesAssumption DEF Init
    <2> QED BY <2>1, <2>2, <2>3, <2>4 DEF TypeOK
  <1>4. PagesOK BY <1>1 DEF PagesOK
  <1>5. TypedOK BY <1>1, <1>2 DEF TypedOK, SentWasTyped
  <1>6. SavingOK BY <1>1 DEF SavingOK
  <1>7. FilledOK BY <1>1, <1>2 DEF FilledOK
  <1>8. EffectsOK BY <1>1, <1>2, NothingRead DEF EffectsOK
  <1>9. ShownOK
    <2>1. LoginPage.acts = {"sign-in"} BY PagesAre
    <2> QED BY <1>1, <1>2, <2>1 DEF ShownOK
  <1> QED BY <1>3, <1>4, <1>5, <1>6, <1>7, <1>8, <1>9 DEF PageInv

(* What a step does. *)
Moves ==
    \/ \E t, S : Leaves(t, S) \/ Turns(t, S)
    \/ \E t, y, S : Presses(t, y, S)
    \/ \E r : Reads(r)
    \/ \E r, x, y, S : Steps(r, x, y, S)
    \/ UNCHANGED <<run, tab, effects, typed>>

LEMMA StillTyped ==
    ASSUME TypeOK, UNCHANGED <<stored, sessions, effects, run, tab, typed, faults>>,
           valid' \in {valid, {}}, rows' \subseteq rows
    PROVE  TypeOK'
  <1>1. TabType' = TabType /\ RunType' = RunType /\ Runs' = Runs /\ Rows' = Rows
    <2>1. Runs' = Runs /\ Rows' = Rows BY DEF Runs, Rows
    <2> QED BY <2>1, StaysTyped
  <1> QED BY <1>1 DEF TypeOK

LEMMA NextMoves ==
    ASSUME TypeOK, PagesOK, [Next]_vars
    PROVE  TypeOK' /\ Moves
  <1>1. CASE \E t \in Tabs : \E page \in AllPages \cap Offered[Len(run)] : Open(t, page)
    BY <1>1, OpenLeaves DEF Moves
  <1>2. CASE \E t \in Tabs : Logout(t)
    <2>1. PICK t \in Tabs : Logout(t) BY <1>2
    <2>2. /\ tab' = [tab EXCEPT ![t] = Fresh(LoginPage)] /\ run' = Detached(t)
          /\ stored' \in {stored, None}
          /\ UNCHANGED <<sessions, valid, rows, effects, typed, faults>>
      BY <2>1 DEF Logout
    <2>3. TypeOK' /\ \E S : Leaves(t, S) BY <2>2, LoginLeaves
    <2> QED BY <2>3 DEF Moves
  <1>3. CASE \E t \in Tabs : Fill(t) \/ Cancel(t)
    BY <1>3, FillTurns, CancelTurns DEF Moves
  <1>4. CASE \E t \in Tabs : \E i \in tab[t].rows : Edit(t, i) \/ Select(t, i)
    BY <1>4, EditTurns, SelectTurns DEF Moves
  <1>5. CASE \E t \in Tabs : \E act \in tab[t].page.acts : \E i \in tab[t].rows \cup {None} :
                Press(t, act, i)
    BY <1>5, PressPresses DEF Moves
  <1>6. CASE \E r \in Runs : Read(r) BY <1>6, ReadReads DEF Moves
  <1>7. CASE \E r \in Runs : Granted(r) \/ SignIn(r) \/ Denied(r) \/ Refused(r)
    BY <1>7, CallSteps DEF Moves, Calls
  <1>8. CASE Expire \/ (\E i \in rows : Remove(i)) \/ UNCHANGED vars
    <2>1. /\ UNCHANGED <<stored, sessions, effects, run, tab, typed, faults>>
          /\ valid' \in {valid, {}} /\ rows' \subseteq rows
      BY <1>8 DEF Expire, Remove, vars
    <2>2. TypeOK' BY <2>1, StillTyped
    <2> QED BY <2>1, <2>2 DEF Moves
  <1> QED BY <1>1, <1>2, <1>3, <1>4, <1>5, <1>6, <1>7, <1>8 DEF Next

LEMMA NextInv == PageInv /\ [Next]_vars => PageInv'
  <1> SUFFICES ASSUME PageInv, [Next]_vars PROVE PageInv' OBVIOUS
  <1>1. TypeOK /\ PagesOK /\ TypedOK /\ SavingOK /\ FilledOK /\ EffectsOK /\ ShownOK
    BY DEF PageInv
  <1>2. TypeOK' /\ Moves BY <1>1, NextMoves
  <1>3. CASE \E t, S : Leaves(t, S)
    BY <1>1, <1>2, <1>3, PagesLeave, TypedLeave, SavingLeave, FilledLeave, EffectsLeave,
       ShownLeave DEF PageInv
  <1>4. CASE \E t, S : Turns(t, S)
    BY <1>1, <1>2, <1>4, PagesTurn, TypedTurn, SavingTurn, FilledTurn, EffectsTurn,
       ShownTurn DEF PageInv
  <1>5. CASE \E t, y, S : Presses(t, y, S)
    BY <1>1, <1>2, <1>5, PagesPress, TypedPress, SavingPress, FilledPress, EffectsPress,
       ShownPress DEF PageInv
  <1>6. CASE \E r : Reads(r)
    BY <1>1, <1>2, <1>6, PagesRead, TypedRead, SavingRead, FilledRead, EffectsRead,
       ShownRead DEF PageInv
  <1>7. CASE \E r, x, y, S : Steps(r, x, y, S)
    BY <1>1, <1>2, <1>7, PagesGo, TypedGo, SavingGo, FilledGo, EffectsGo, ShownGo DEF PageInv
  <1>8. CASE UNCHANGED <<run, tab, effects, typed>>
    <2>1. run' = run /\ tab' = tab /\ effects' = effects /\ typed' = typed /\ Runs' = Runs
      BY <1>8 DEF Runs
    <2>2. PagesOK' /\ TypedOK' /\ SavingOK' /\ FilledOK'
      BY <1>1, <2>1
         DEF PagesOK, TypedOK, SentWasTyped, SavingOK, FilledOK, Selected, Stopped, Saves, Live, Filled
    <2>3. EffectsOK' BY <1>1, <2>1 DEF EffectsOK, Begins, In, IsAct
    <2>4. ShownOK' BY <1>1, <2>1 DEF ShownOK, Begins, In, IsAct, Brings, Loading
    <2> QED BY <1>2, <2>2, <2>3, <2>4 DEF PageInv
  <1> QED BY <1>2, <1>3, <1>4, <1>5, <1>6, <1>7, <1>8 DEF Moves
-----------------------------------------------------------------------------
(* What a step keeps of the runs and effects there are.                    *)
Grown ==
    /\ Runs \subseteq Runs' /\ Begins(effects, effects')
    /\ \A q \in Runs : /\ run'[q].row = run[q].row /\ run'[q].fill = run[q].fill
                       /\ run'[q].act = run[q].act /\ run'[q].beside = run[q].beside
                       /\ run'[q].mixed = run[q].mixed /\ run'[q].page = run[q].page
                       /\ Stopped(run[q]) => Stopped(run'[q])

LEMMA MovesGrown ==
    ASSUME PageInv, Moves
    PROVE  /\ Grown
           /\ \/ \A r \in Runs' \ Runs : run'[r].fill = None
              \/ \E t, y, S : Presses(t, y, S)
  <1>1. TypeOK /\ PagesOK BY DEF PageInv
  <1>2. Begins(effects, effects) BY DEF Begins
  <1>3. CASE \E t, S : Leaves(t, S)
    BY <1>2, <1>3 DEF Leaves, Alike, Grown, Opening, Stopped
  <1>4. CASE (\E t, S : Turns(t, S)) \/ UNCHANGED <<run, tab, effects, typed>>
    <2>1. run' = run /\ effects' = effects /\ Runs' = Runs BY <1>4 DEF Turns, Runs
    <2> QED BY <1>2, <2>1 DEF Grown
  <1>5. CASE \E t, y, S : Presses(t, y, S)
    BY <1>2, <1>5 DEF Presses, Grown
  <1>6. CASE \E r : Reads(r)
    <2>1. /\ Runs' = Runs /\ effects' = effects
          /\ \A q \in Runs : /\ run'[q].row = run[q].row /\ run'[q].fill = run[q].fill
                             /\ run'[q].act = run[q].act /\ run'[q].beside = run[q].beside
                             /\ run'[q].mixed = run[q].mixed /\ run'[q].at = run[q].at
                             /\ run'[q].page = run[q].page
      BY <1>6 DEF Reads
    <2> QED BY <1>2, <2>1 DEF Grown, Stopped
  <1>7. ASSUME NEW r, NEW x, NEW y, NEW S, Steps(r, x, y, S)
        PROVE  Grown /\ Runs' = Runs
    <2>1. /\ r \in Runs /\ Runs' = Runs /\ x = run[r] /\ y = run'[r] /\ Same(x, y) /\ Grew(r)
          /\ \A q \in Runs \ {r} : run'[q] = run[q]
      BY <1>7 DEF Steps
    <2>2. Begins(effects, effects') BY <1>1, <2>1, GrewIs
    <2>3. Stopped(x) => Stopped(y)
      <3>1. Live(x) \/ y.at = x.at BY <1>1, <1>7, StepKeeps
      <3> QED BY <3>1 DEF Live, Stopped
    <2> QED BY <2>1, <2>2, <2>3 DEF Grown, Same
  <1> QED BY <1>3, <1>4, <1>5, <1>6, <1>7 DEF Moves

LEMMA ReopenedStays ==
    ASSUME TypeOK, Grown, NEW q \in Runs, Reopened(q)
    PROVE  Reopened(q)'
  <1>1. PICK k, l \in DOMAIN effects :
           /\ k < l /\ effects[k] = q
           /\ run[effects[l]].row = run[q].row /\ run[effects[l]].act = "set-status"
    BY DEF Reopened
  <1>2. effects[l] \in Runs BY DEF TypeOK
  <1>3. /\ k \in DOMAIN effects' /\ l \in DOMAIN effects' /\ effects'[k] = q
        /\ effects'[l] = effects[l]
    BY <1>1 DEF Grown, Begins
  <1>4. run'[effects'[l]].row = run'[q].row /\ run'[effects'[l]].act = "set-status"
    BY <1>1, <1>2, <1>3 DEF Grown
  <1> QED BY <1>1, <1>3, <1>4 DEF Reopened

(* A page on which a response is shown has the complaint answered, unless  *)
(* its status was set again.                                               *)
LEMMA AnsweredIs ==
    ASSUME TypeOK, EffectsOK, NEW t \in Tabs, NEW q \in Runs, run[q].act = "respond",
           In(q, tab[t].effects)
    PROVE  Answered(tab[t], run[q].row) \/ Reopened(q)
  <1> PICK T : T = tab[t] OBVIOUS
  <1> DEFINE i == run[q].row
             On == {k \in DOMAIN T.effects : /\ run[T.effects[k]].row = i
                                             /\ run[T.effects[k]].act \in {"set-status", "respond"}}
  <1>1. T.effects \in Seq(Runs) BY DEF TypeOK, TabType
  <1>2. Begins(T.effects, effects) BY DEF EffectsOK
  <1>3. PICK k \in DOMAIN T.effects : T.effects[k] = q BY DEF In
  <1>4. k \in On BY <1>3
  <1>5. On \in SUBSET Nat /\ IsFiniteSet(On)
    <2>1. DOMAIN T.effects = 1 .. Len(T.effects) /\ Len(T.effects) \in Nat BY <1>1
    <2>2. IsFiniteSet(1 .. Len(T.effects))
      <3> PICK n : n = Len(T.effects) OBVIOUS
      <3>1. 1 \in Int /\ n \in Int BY <2>1
      <3>2. IsFiniteSet(1 .. n) BY ONLY <3>1, FS_Interval
      <3> QED BY <3>2
    <2>3. On \subseteq 1 .. Len(T.effects) BY <2>1
    <2> QED BY <2>1, <2>2, <2>3, FS_Subset
  <1> PICK m : m = Newest(On) OBVIOUS
  <1>6. m \in On /\ k <= m
    <2> HIDE DEF On
    <2> QED BY <1>4, <1>5, NewestIs
  <1>7. LastAct(T, i) = run[T.effects[m]].act
    <2>1. On # {} BY <1>4
    <2> QED BY <2>1 DEF LastAct
  <1>8. CASE run[T.effects[m]].act = "respond" BY <1>7, <1>8 DEF Answered
  <1>9. CASE run[T.effects[m]].act = "set-status"
    <2>1. m # k BY <1>3, <1>9
    <2>2. k < m
      <3>1. k \in Nat /\ m \in Nat BY <1>4, <1>5, <1>6
      <3> HIDE DEF On
      <3> QED BY <1>6, <2>1, <3>1
    <2>3. /\ k \in DOMAIN effects /\ m \in DOMAIN effects
          /\ effects[k] = q /\ effects[m] = T.effects[m]
      BY <1>2, <1>3, <1>6 DEF Begins
    <2>4. run[effects[m]].row = run[q].row /\ run[effects[m]].act = "set-status"
      BY <1>6, <1>9, <2>3
    <2> QED BY <2>2, <2>3, <2>4 DEF Reopened
  <1> QED BY <1>6, <1>8, <1>9

(* A form goes out again only in the cases listed. *)
LEMMA PressSendsOnce ==
    ASSUME PageInv, NEW t, NEW y, NEW S, Presses(t, y, S), NEW q \in Runs,
           run[q].fill = y.fill, y.fill # None, ~Stopped(run[q])
    PROVE  \/ y.page.keeps /\ q \notin y.beside
           \/ y.act = "respond" /\ (q \in y.beside \/ y.mixed \/ Reopened(q))
  <1> PICK T : T = tab[t] OBVIOUS
  <1>1. TypeOK /\ PagesOK /\ TypedOK /\ SavingOK /\ FilledOK /\ EffectsOK /\ ShownOK
    BY DEF PageInv
  <1>2. /\ t \in Tabs /\ T \in TabType /\ y.act \in T.page.acts /\ y.mixed = T.mixed
        /\ y.page = T.page /\ Filled(y.act) /\ y.fill = T.fill
        /\ y.row \in Targets(T, y.act) /\ ~Disabled(T, y.act, y.row)
        /\ y.beside = {s \in Runs : run[s].tab = t /\ run[s].waiting > 0}
    BY DEF Presses
  <1>3. /\ Filled(run[q].act) /\ run[q].tab = t
        /\ run[q].act # "respond" =>
              run[q].at \in {"acting", "publishing"} \/ run[q].page.keeps
    BY <1>1, <1>2 DEF FilledOK
  <1>4. t # None BY <1>2, PagesAssumption
  <1>5. /\ PlaceOK(q, run[q]) /\ run[q].page = T.page /\ Sound(T.page) /\ run[q] \in RunType
        /\ run[q].act \in T.page.acts
    <2>1. run[q].act # "open" BY <1>3 DEF Filled
    <2> QED BY <1>1, <1>3, <1>4, <2>1, PlaceIs
  <1>6. CASE run[q].act # "respond" /\ run[q].at = "ended"
    <2>1. y.page.keeps BY <1>2, <1>3, <1>5, <1>6
    <2>2. run[q].waiting = 0 BY <1>5, <1>6 DEF PlaceOK
    <2> QED BY <1>2, <2>1, <2>2
  <1>7. CASE run[q].act # "respond" /\ run[q].at # "ended"
    <2>1. Saves(run[q]) BY <1>3, <1>7 DEF Filled, Saves
    <2>2. Live(run[q]) BY <1>7 DEF Live, Stopped
    <2>3. "saving" \in T.flags BY <1>1, <1>3, <1>4, <2>1, <2>2 DEF SavingOK
    <2>4. "respond" \notin T.page.acts BY <1>3, <1>5, <1>7 DEF Sound, Filled
    <2>5. y.act \in {"submit", "submit-and-publish"} BY <1>2, <2>4 DEF Filled
    <2> QED BY <1>2, <2>3, <2>5 DEF Disabled
  <1>8. CASE run[q].act = "respond"
    <2>1. T.page.acts = {"set-status", "respond"} BY <1>5, <1>8 DEF Sound
    <2>2. y.act = "respond" BY <1>2, <2>1 DEF Filled
    <2>3. y.row = Selected(T) /\ ~Answered(T, y.row) BY <1>2, <2>2 DEF Targets
    <2>4. run[q].row = y.row BY <1>1, <1>2, <2>3 DEF TypedOK, SentWasTyped
    <2>5. ASSUME run[q].at = "ended", ~T.mixed PROVE Reopened(q)
      <3>1. In(q, T.effects)
        <4>1. IsAct(run[q]) BY <1>8 DEF IsAct
        <4>2. T.page.acts \ {"sign-in"} # {} BY <2>1
        <4> QED BY <1>1, <1>2, <1>3, <2>5, <4>1, <4>2 DEF ShownOK
      <3> QED BY <1>1, <1>2, <1>8, <2>3, <2>4, <3>1, AnsweredIs
    <2>6. ASSUME run[q].at # "ended" PROVE q \in y.beside
      <3>1. run[q].at \in Stages BY <1>5 DEF RunType
      <3>2. run[q].at \notin {"detailing", "checking"} BY <1>5, <2>1 DEF PlaceOK
      <3>3. run[q].at \in {"acting", "publishing", "loading"}
        BY <1>5, <2>6, <3>1, <3>2 DEF Stages, Stopped, PlaceOK
      <3>4. run[q].waiting > 0 BY <1>5, <3>3 DEF PlaceOK
      <3> QED BY <1>2, <1>3, <3>4
    <2> QED BY <1>2, <2>2, <2>5, <2>6
  <1> QED BY <1>6, <1>7, <1>8

LEMMA SendsOnce == PageInv /\ SentOnce /\ [Next]_vars => SentOnce'
  <1> SUFFICES ASSUME PageInv, SentOnce, [Next]_vars PROVE SentOnce' OBVIOUS
  <1>1. TypeOK /\ PagesOK BY DEF PageInv
  <1>2. Moves BY <1>1, NextMoves
  <1>3. Grown BY <1>2, MovesGrown
  <1>4. Runs = 1 .. Len(run) /\ Len(run) \in Nat BY <1>1 DEF TypeOK, Runs
  <1> DEFINE Allowed(r, q) ==
        \/ Stopped(run[q])
        \/ run[r].page.keeps /\ q \notin run[r].beside
        \/ run[r].act = "respond" /\ (q \in run[r].beside \/ run[r].mixed \/ Reopened(q))
  <1>5. ASSUME NEW r \in Runs', NEW q \in 1 .. r - 1, run'[q].fill = run'[r].fill, run'[r].fill # None
        PROVE  Allowed(r, q)'
    <2>1. CASE r \in Runs
      <3>1. q \in Runs BY <1>4, <2>1
      <3>2. Allowed(r, q) BY <1>3, <1>5, <2>1, <3>1 DEF SentOnce, Grown
      <3>3. Reopened(q) => Reopened(q)' BY <1>1, <1>3, <3>1, ReopenedStays
      <3>4. /\ run'[r].act = run[r].act /\ run'[r].page = run[r].page
            /\ run'[r].beside = run[r].beside /\ run'[r].mixed = run[r].mixed
            /\ Stopped(run[q]) => Stopped(run'[q])
        BY <1>3, <2>1, <3>1 DEF Grown
      <3> QED BY <3>2, <3>3, <3>4
    <2>2. CASE r \notin Runs
      <3>1. PICK t, y, S : Presses(t, y, S) BY <1>2, <1>5, <2>2, MovesGrown
      <3>2. r = Len(run) + 1 /\ run'[r] = y BY <2>2, <3>1 DEF Presses
      <3>3. q \in Runs /\ run'[q] = run[q] BY <1>4, <3>1, <3>2 DEF Presses
      <3>4. \/ Stopped(run[q]) \/ (y.page.keeps /\ q \notin y.beside)
            \/ y.act = "respond" /\ (q \in y.beside \/ y.mixed \/ Reopened(q))
        BY <1>5, <3>1, <3>2, <3>3, PressSendsOnce
      <3>5. Reopened(q) => Reopened(q)' BY <1>1, <1>3, <3>3, ReopenedStays
      <3> QED BY <3>2, <3>3, <3>4, <3>5
    <2> QED BY <2>1, <2>2
  <1> HIDE DEF Allowed
  <1>6. \A r \in Runs' : \A q \in 1 .. r - 1 :
           run'[q].fill = run'[r].fill /\ run'[r].fill # None => Allowed(r, q)'
    BY <1>5
  <1> QED BY <1>6 DEF SentOnce, Allowed
-----------------------------------------------------------------------------
(* Everything has its type: a tab shows rows that were there, names a row  *)
(* or none, and holds a filling that was made; a run is at a stage of its  *)
(* handler, with a session that was issued.                                *)
THEOREM PagesTyped == Spec => []TypeOK
  <1>1. PageInv => TypeOK BY DEF PageInv
  <1> QED BY <1>1, InitInv, NextInv, PTL DEF Spec

(* What is sent was typed for the row it is sent for: an update takes the  *)
(* form and the row edited together, and another complaint selected, by a  *)
(* click or because its row went away, takes the text along with it.       *)
THEOREM SentAsTyped == Spec => []SentWasTyped
  <1>1. PageInv => SentWasTyped BY DEF PageInv, TypedOK
  <1> QED BY <1>1, InitInv, NextInv, PTL DEF Spec

(* A form that is sent twice was sent in vain before: the button is        *)
(* disabled until the page no longer has the form, or, on the two pages    *)
(* that keep it, until the submission and its load are over.  A response   *)
(* may be sent again where the button is not: while one is under way or    *)
(* the list is old, and after the status has been set again.               *)
THEOREM FormsSentOnce == Spec => []SentOnce
  <1>1. Init => PageInv /\ SentOnce
    <2>1. Init => SentOnce BY DEF Init, SentOnce, Runs
    <2> QED BY <2>1, InitInv
  <1>2. (PageInv /\ SentOnce) /\ [Next]_vars => (PageInv /\ SentOnce)'
    BY NextInv, SendsOnce
  <1> QED BY <1>1, <1>2, PTL DEF Spec

(* The runs that are over bring nothing more. *)
LEMMA RestShows ==
    ASSUME PageInv
    PROVE  ActsAreShown
  <1>1. TypeOK /\ PagesOK /\ EffectsOK /\ ShownOK BY DEF PageInv
  <1>2. ASSUME NEW t \in Tabs, NEW r \in Runs, run[r].tab = t, IsAct(run[r]),
               run[r].at = "ended" \/ In(r, effects),
               \A q \in Runs : run[q].tab = t => run[q].at = "ended" \/ Stopped(run[q]),
               ~tab[t].error, ~tab[t].mixed
        PROVE  In(r, tab[t].effects)
    <2>1. tab[t].page.acts \ {"sign-in"} # {}
      <3>1. t # None BY PagesAssumption
      <3>2. tab[t].page = run[r].page /\ run[r].act \in run[r].page.acts
        BY <1>1, <1>2, <3>1, PlaceIs DEF IsAct
      <3> QED BY <1>2, <3>2 DEF IsAct
    <2>2. ASSUME NEW s \in Runs, run[s].tab = t PROVE ~Brings(run[s], r)
      <3>1. run[s].at \in {"ended", "failed", "denied"} BY <1>2, <2>2 DEF Stopped
      <3> QED BY <3>1 DEF Brings
    <2>3. In(r, effects) => In(r, tab[t].effects) BY <1>1, <1>2, <2>1, <2>2 DEF ShownOK
    <2>4. run[r].at = "ended" => In(r, tab[t].effects) BY <1>1, <1>2, <2>1 DEF ShownOK
    <2> QED BY <1>2, <2>3, <2>4
  <1> QED BY <1>2 DEF ActsAreShown, IsAct, In

(* Who has acted on a page sees it there when the page is at rest and has  *)
(* no error message: every handler loads the list after its act, and a     *)
(* load that fails says so.  Loads of one page that overlap may be applied *)
(* in the wrong order; they are left out.                                  *)
THEOREM OwnActsShown == Spec => []ActsAreShown
  <1> QED BY RestShows, InitInv, NextInv, PTL DEF Spec

(* A call that was denied had another session than one that is accepted.   *)
LEMMA EndsOnlySo ==
    ASSUME TypeOK, [Next]_vars, ~UNCHANGED vars, stored' = None, stored \in valid
    PROVE  EndsForCause
  <1>1. stored # None BY DEF TypeOK, None
  <1>2. Next BY DEF vars
  <1>3. CASE \E t \in Tabs : Logout(t) BY <1>3 DEF EndsForCause
  <1>4. CASE \E r \in Runs : Denied(r)
    <2>1. PICK r \in Runs : Denied(r) BY <1>4
    <2>2. run[r].session \notin valid BY <2>1 DEF Denied
    <2> QED BY <2>1, <2>2 DEF EndsForCause
  <1>5. CASE \E r \in Runs : SignIn(r)
    <2>1. stored' = sessions + 1 BY <1>5 DEF SignIn
    <2> QED BY <2>1 DEF TypeOK, None
  <1>6. CASE stored' = stored BY <1>1, <1>6
  <1>7. CASE \E t \in Tabs : \/ \E page \in AllPages \cap Offered[Len(run)] : Open(t, page)
                             \/ Fill(t) \/ Cancel(t)
                             \/ \E i \in tab[t].rows : Edit(t, i) \/ Select(t, i)
                             \/ \E act \in tab[t].page.acts :
                                   \E i \in tab[t].rows \cup {None} : Press(t, act, i)
    <2>1. \A t, page : Open(t, page) => stored' = stored BY DEF Open
    <2>2. \A t : Fill(t) \/ Cancel(t) => stored' = stored BY DEF Fill, Cancel
    <2>3. \A t, i : Edit(t, i) \/ Select(t, i) => stored' = stored BY DEF Edit, Select
    <2>4. \A t, act, i : Press(t, act, i) => stored' = stored BY DEF Press
    <2> QED BY <1>6, <1>7, <2>1, <2>2, <2>3, <2>4
  <1>8. CASE \E r \in Runs : Read(r) \/ Granted(r) \/ Refused(r)
    <2>1. Remaining("failed") = stored BY DEF Remaining
    <2> QED BY <1>6, <1>8, <2>1 DEF Read, Granted, Refused, Over
  <1>9. CASE Expire \/ \E i \in rows : Remove(i) BY <1>6, <1>9 DEF Expire, Remove
  <1> QED BY <1>2, <1>3, <1>4, <1>5, <1>7, <1>8, <1>9 DEF Next

(* A session that the server accepts is given up only by a logout or for a *)
(* call that was sent with an earlier one, as apiRequest clears whatever   *)
(* session there is by then: no other failure, page or answer ends it.     *)
THEOREM SessionsStay == Spec => SessionStays
  <1>1. TypeOK /\ [Next]_vars => [stored' = None /\ stored \in valid => EndsForCause]_vars
    BY EndsOnlySo
  <1> QED BY <1>1, PagesTyped, PTL DEF Spec, SessionStays
=============================================================================
