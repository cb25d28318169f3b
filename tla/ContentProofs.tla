---------------------------- MODULE ContentProofs ----------------------------
(***************************************************************************)
(* The invariants of Content for any requests, users, mahallas, items and  *)
(* faults: what was written in turn is whole and its last audit entry says *)
(* so, readers see their own mahalla, and what is rated was submitted.     *)
(***************************************************************************)
EXTENDS Content, TLAPS

(***************************************************************************)
(* What the steps of Handlers keep.                                        *)
(***************************************************************************)
(* A request is made. *)
LEMMA ArriveKeeps ==
    ASSUME NEW W, ControlOK(W), Past,
           NEW r \in Requests, NEW p \in W \cup Ends, p # "unsent", Arrive(r, p)
    PROVE  Kept(W)
  BY DEF Kept, ControlOK, Past, Onward, Arrive, Goto, Sent, Ended, Ends

(* An await resolves. *)
LEMMA StepKeeps ==
    ASSUME NEW W, ControlOK(W), Past, W \cap Ends = {},
           NEW r \in Requests, NEW p \in W, NEW q \in W \cup Ends, q # "unsent",
           Step(r, p, q)
    PROVE  Kept(W)
  BY DEF Kept, ControlOK, Past, Onward, Step, Goto, Sent, Ended, Ends

(* A write resolves, or is rejected having taken effect. *)
LEMMA ResolveKeeps ==
    ASSUME NEW W, ControlOK(W), Past, W \cap Ends = {},
           NEW r \in Requests, NEW p \in W, NEW q \in W \cup Ends, q # "unsent",
           Resolve(r, p, q)
    PROVE  Kept(W)
  <1>1. CASE Step(r, p, q) BY <1>1, StepKeeps
  <1>2. CASE pc[r] = p /\ Goto(r, "failed") /\ Fault /\ UNCHANGED before
    BY <1>2, FaultsAssumption DEF Kept, ControlOK, Past, Onward, Goto, Fault, Sent, Ended, Ends
  <1> QED BY <1>1, <1>2 DEF Resolve

(* A call is rejected. *)
LEMMA RejectKeeps ==
    ASSUME NEW W, ControlOK(W), Past, NEW r \in Requests, Reject(r)
    PROVE  Kept(W)
  BY FaultsAssumption DEF Kept, ControlOK, Past, Onward, Reject, Goto, Fault, UnderWay, Sent, Ended, Ends

(* The process dies. *)
LEMMA DieKeeps ==
    ASSUME NEW W, ControlOK(W), Past, Die
    PROVE  Kept(W)
  BY FaultsAssumption DEF Kept, ControlOK, Past, Onward, Die, Fault, UnderWay, Sent, Ended, Ends

(* Nothing happens to any request. *)
LEMMA NothingKeeps ==
    ASSUME NEW W, ControlOK(W), Past, UNCHANGED control
    PROVE  Kept(W)
  BY DEF Kept, ControlOK, Past, Onward, control, Sent, Ended

(* Two requests under way overlap. *)
LEMMA UnderWayOverlap ==
    ASSUME Past, NEW q \in UnderWay, NEW r \in UnderWay
    PROVE  Overlap(q, r)
  BY DEF Past, Overlap, UnderWay, Sent, Ended

(* The order of requests made stays as it is. *)
LEMMA OverlapStays ==
    ASSUME Onward, NEW q \in Sent, NEW r \in Sent
    PROVE  Overlap(q, r)' <=> Overlap(q, r)
  BY DEF Onward, Overlap

(* At first nobody has been before anybody. *)
LEMMA ControlStarts ==
    ASSUME NEW W, ControlInit
    PROVE  ControlOK(W) /\ Past
  BY FaultsAssumption DEF ControlInit, ControlOK, Past, Ended
-----------------------------------------------------------------------------

(* Each operation keeps to its awaits. *)
PlaceOK(r, p) ==
    /\ p = "reading-actor" => Creates(r) \/ (Lists(r) /\ ~Governs(r))
    /\ p = "creating" => OpOf[r] \in {"post", "event"}
    /\ p \in {"upserting", "adding-item"} => OpOf[r] = "report"
    /\ p = "linking" => Creates(r)
    /\ p \in {"reading-thing", "writing-status"} => Changes(r)
    /\ p \in {"reading-report", "rating"} => OpOf[r] = "rate"
    /\ p = "storing-file" => OpOf[r] = "upload"
    /\ p = "listing" => Lists(r)
    /\ p = "auditing" => ~Lists(r)
    /\ p = "reading-back" => OpOf[r] \in {"post", "report"}

PlacesOK == \A r \in Requests : PlaceOK(r, pc[r])

ControlInv == ControlOK(Waits) /\ Past /\ PlacesOK

(* What every step keeps of them. *)
ContentKept == Kept(Waits) /\ PlacesOK'

(* The places before the one write of a row, and those after it.           *)
Unwritten == {"unsent", "reading-actor", "creating", "upserting", "reading-thing",
           "writing-status", "reading-report", "rating", "storing-file", "listing"}
Written  == {"adding-item", "linking", "auditing", "reading-back", "done"}

(* What a request has written, where it is.                                *)
WroteOK(r) ==
    /\ pc[r] \in Unwritten => wrote[r] = {} /\ made[r] = 0
    /\ OpOf[r] \in {"rate", "upload"} \/ Lists(r) => wrote[r] = {}
    /\ pc[r] \in {"creating", "upserting"} => chosen[r] # {}
    /\ OpOf[r] \in {"post", "event"} /\ pc[r] \in Written => wrote[r] = {r}
    /\ Changes(r) /\ pc[r] \in Written => wrote[r] = ThingOf[r]
    /\ pc[r] = "writing-status" => ThingOf[r] \subseteq DOMAIN thing
    /\ OpOf[r] = "report" /\ pc[r] \in Written =>
          /\ wrote[r] = chosen[r] /\ chosen[r] # {} /\ made[r] <= ItemsOf[r]
          /\ pc[r] = "adding-item" => made[r] < ItemsOf[r]
          /\ pc[r] \in {"auditing", "reading-back", "done"} => made[r] = ItemsOf[r]

(* What the rows of posts, events and reports are.                         *)
RowsOK ==
    /\ \A x \in DOMAIN thing :
          IF x \in Mahallas THEN thing[x].kind = "report" /\ thing[x].at = x
          ELSE thing[x].kind # "report" /\ pc[x] \notin Unwritten
    /\ \A r \in Requests : wrote[r] \subseteq DOMAIN thing /\ view[r] \subseteq DOMAIN thing

ItemsAt(x) == {i.item : i \in {j \in items : j.of = x}}

(* The last entry about x has this status.                                 *)
Tells(x, status) ==
    \E i \in DOMAIN log :
        /\ log[i] = [of |-> {x}, status |-> status]
        /\ \A j \in DOMAIN log : log[j].of = {x} => j <= i

(* The writers of x came one after the other, and none has failed.         *)
Clean(x) ==
    /\ \A r \in WritersOf(x) : pc[r] \in Written
    /\ \A q, r \in WritersOf(x) : q = r \/ ~Overlap(q, r)

(* Request w is the last of them.                                          *)
LastWriter(x, w) ==
    /\ w \in WritersOf(x)
    /\ \A r \in WritersOf(x) \cap UnderWay : r = w
    /\ thing[x].status = Entry(w).status
    /\ x \in Mahallas => ItemsAt(x) = {<<w, n>> : n \in 1 .. made[w]}
    /\ pc[w] \in {"reading-back", "done"} => Tells(x, thing[x].status)

WrittenOK == \A x \in DOMAIN thing : Clean(x) => \E w \in Requests : LastWriter(x, w)

RowInv == TypeOK /\ ControlInv /\ (\A r \in Requests : WroteOK(r)) /\ RowsOK /\ WrittenOK

(* A list under way is of what the reader's mahalla was.                   *)
ViewInv ==
    \A r \in Requests : Lists(r) /\ ~Governs(r) =>
        /\ pc[r] \in Waits => home[ActorOf[r]] \in homes[r]
        /\ pc[r] = "listing" => \E h \in homes[r] : chosen[r] = Narrowed(r, h)
        /\ pc[r] = "unsent" => view[r] = {}

(* What is submitted is known to the requests under way.                   *)
RateInv ==
    /\ \A r \in UnderWay : SubmittedNow \subseteq submitted[r]
    /\ \A r \in Requests : pc[r] = "rating" => ThingOf[r] \subseteq submitted[r]
-----------------------------------------------------------------------------
(* Every step keeps what Handlers keeps, and the places. *)
LEMMA Control ==
    ASSUME ControlInv, [Next]_vars
    PROVE  ContentKept
  <1> USE DEF ControlInv, ContentKept
  <1>a. /\ \A p \in Waits : p # "unsent" /\ p \notin Ends
        /\ \A p \in Ends : p # "unsent"
        /\ Waits \cap Ends = {}
    BY DEF Waits, Ends
  <1>p. ASSUME NEW r \in Requests, NEW p \in Waits \cup Ends, Goto(r, p), PlaceOK(r, p)
        PROVE  PlacesOK'
    <2>1. \A x \in Requests : PlaceOK(x, pc'[x])
      BY <1>p DEF Goto, ControlOK, PlacesOK
    <2> QED BY <2>1 DEF PlacesOK
  <1>f. \A r \in Requests, p \in Ends : PlaceOK(r, p)
    BY DEF PlaceOK, Ends
  <1>b. ASSUME NEW r \in Requests, NEW p \in Waits, NEW q \in Waits \cup Ends,
               Step(r, p, q) \/ Resolve(r, p, q), PlaceOK(r, q)
        PROVE  ContentKept
    <2>1. Kept(Waits) BY <1>a, <1>b, StepKeeps, ResolveKeeps
    <2>2. "failed" \in Ends BY DEF Ends
    <2>3. Goto(r, q) \/ Goto(r, "failed") BY <1>b DEF Step, Resolve
    <2> QED BY <1>b, <1>f, <1>p, <2>1, <2>2, <2>3
  <1>c. ASSUME NEW r \in Requests, NEW p \in Waits \cup Ends, Arrive(r, p), PlaceOK(r, p)
        PROVE  ContentKept
    <2>1. Kept(Waits) BY <1>a, <1>c, ArriveKeeps
    <2> QED BY <1>c, <1>p, <2>1 DEF Arrive
  <1>d. ASSUME NEW r \in Requests, NEW p \in Waits, NEW q,
               Resolve(r, p, q) \/ Step(r, p, q)
        PROVE  pc[r] = p /\ PlaceOK(r, p)
    BY <1>d DEF Resolve, Step, PlacesOK
  <1> USE DEF PlaceOK, Waits, Ends, Creates, Changes, Lists
  <1>1. ASSUME NEW r \in Requests, Call(r) PROVE ContentKept
    BY <1>1, <1>c, ContentAssumption DEF Call
  <1>2. ASSUME NEW r \in Requests, ReadActor(r) PROVE ContentKept
    BY <1>2, <1>b, <1>d DEF ReadActor
  <1>3. ASSUME NEW r \in Requests, Create(r) \/ Upsert(r) \/ Link(r) PROVE ContentKept
    BY <1>3, <1>b, <1>d DEF Create, Upsert, Link, AfterLinking
  <1>4. ASSUME NEW r \in Requests, AddItem(r) PROVE ContentKept
    BY <1>4, <1>b, <1>d DEF AddItem, AfterLinking
  <1>5. ASSUME NEW r \in Requests, ReadThing(r) \/ WriteStatus(r) PROVE ContentKept
    BY <1>5, <1>b, <1>d DEF ReadThing, WriteStatus
  <1>6. ASSUME NEW r \in Requests, ReadReport(r) \/ Rate(r) \/ StoreFile(r) PROVE ContentKept
    BY <1>6, <1>b, <1>d DEF ReadReport, Rate, StoreFile
  <1>7. ASSUME NEW r \in Requests, List(r) \/ Audit(r) \/ ReadBack(r) PROVE ContentKept
    BY <1>7, <1>b, <1>d DEF List, Audit, ReadBack
  <1>8. ASSUME NEW r \in Requests, Fail(r) PROVE ContentKept
    BY <1>8, <1>p, <1>f, RejectKeeps DEF Fail, Reject
  <1>9. CASE Crash
    <2>1. Kept(Waits) BY <1>9, DieKeeps DEF Crash
    <2> QED BY <1>9, <2>1 DEF Crash, Die, PlacesOK
  <1>10. CASE UNCHANGED control
    BY <1>10, NothingKeeps DEF control, PlacesOK
  <1> QED
    BY <1>1, <1>2, <1>3, <1>4, <1>5, <1>6, <1>7, <1>8, <1>9, <1>10 DEF Next, Handle, Move, vars
-----------------------------------------------------------------------------
(* A function keeps its type when it is changed at one place. *)
LEMMA ChangedType ==
    ASSUME NEW S, NEW T, NEW f \in [S -> T], NEW x, NEW y \in T
    PROVE  [f EXCEPT ![x] = y] \in [S -> T]
  OBVIOUS

(* A table keeps its type when a row is put into it. *)
LEMMA PutType ==
    ASSUME NEW S, NEW T, NEW f \in [S -> T], NEW x, NEW y \in T
    PROVE  /\ Put(f, x, y) \in [S \cup {x} -> T]
           /\ Put(f, x, y)[x] = y
           /\ \A z \in S \ {x} : Put(f, x, y)[z] = f[z]
  BY DEF Put

(* The mahalla a creation is in. *)
LEMMA AtIs ==
    ASSUME TypeOK, NEW r \in Requests, chosen[r] # {}
    PROVE  chosen[r] = {At(r)} /\ At(r) \in Mahallas
  <1>1. chosen[r] \in Optional(Mahallas) BY DEF TypeOK
  <1>2. PICK m \in Mahallas : chosen[r] = {m} BY <1>1 DEF Optional
  <1> QED BY <1>2 DEF At

(* The status of an entry is one of the statuses. *)
LEMMA EntryIs ==
    ASSUME NEW r \in Requests
    PROVE  Entry(r).of = wrote[r] /\ Entry(r).status \in Statuses
           /\ Entry(r) = [of |-> wrote[r], status |-> Entry(r).status]
  BY DEF Entry, Statuses

(* An entry comes after the others. *)
LEMMA Appended ==
    ASSUME NEW T, NEW s \in Seq(T), NEW e \in T
    PROVE  /\ Append(s, e) \in Seq(T) /\ DOMAIN s \subseteq DOMAIN Append(s, e)
           /\ \A i \in DOMAIN s : Append(s, e)[i] = s[i]
           /\ Len(s) + 1 \in DOMAIN Append(s, e) /\ Append(s, e)[Len(s) + 1] = e
           /\ \A i \in DOMAIN Append(s, e) : i \in DOMAIN s \/ i = Len(s) + 1
           /\ \A i \in DOMAIN s : i <= Len(s) + 1
  OBVIOUS

(* What is submitted is a report there is. *)
LEMMA SubmittedType ==
    ASSUME TypeOK, DOMAIN thing' \subseteq Names, NoteSubmitted
    PROVE  submitted' \in [Requests -> SUBSET Names]
  BY DEF TypeOK, NoteSubmitted, SubmittedNow

(* The state has its type after every step. *)
LEMMA TypeStep ==
    ASSUME RowInv, [Next]_vars
    PROVE  TypeOK'
  <1>0. ControlOK(Waits)' BY Control DEF RowInv, ContentKept, Kept
  <1>t. TypeOK BY DEF RowInv
  <1>n. \A r \in Requests : wrote[r] \subseteq Names /\ {r} \subseteq Names
    BY <1>t DEF TypeOK, Names
  <1>w. ASSUME NEW r \in Requests, pc[r] \in {"creating", "upserting", "adding-item"}
        PROVE  At(r) \in Mahallas /\ chosen[r] = {At(r)} /\ wrote[r] \subseteq Names
    <2>1. pc[r] = "adding-item" => OpOf[r] = "report"
      BY DEF RowInv, ControlInv, PlacesOK, PlaceOK
    <2>2. chosen[r] # {} BY <1>w, <2>1 DEF RowInv, WroteOK, Written
    <2> QED BY <1>t, <1>n, <2>2, AtIs
  <1> DEFINE Row == [kind : {"post", "event", "report"}, at : Mahallas, status : Statuses]
             Part == Requests \X Nat
  <1>i. thing \in [DOMAIN thing -> Row] /\ DOMAIN thing \subseteq Names
    BY <1>t DEF TypeOK
  <1>j. files \in [DOMAIN files -> Optional(Part)] /\ DOMAIN files \subseteq Requests
    BY <1>t DEF TypeOK
  <1> USE DEF rows, progress, noted
  <1>1. ASSUME NEW r \in Requests, Call(r) PROVE TypeOK'
    <2>1. chosen' \in [Requests -> Optional(Mahallas)]
      <3>1. (IF Lists(r) THEN AskedOf[r] ELSE {}) \in Optional(Mahallas)
        BY ContentAssumption DEF Optional
      <3> QED BY <1>1, <1>t, <3>1, ChangedType DEF Call, TypeOK
    <2>2. homes' \in [Requests -> SUBSET Optional(Mahallas)]
      <3>1. {home[ActorOf[r]]} \in SUBSET Optional(Mahallas)
        BY <1>t, ContentAssumption DEF TypeOK
      <3> QED BY <1>1, <1>t, <3>1, ChangedType DEF Call, TypeOK
    <2>3. submitted' \in [Requests -> SUBSET Names]
      BY <1>1, <1>t, SubmittedType DEF Call, TypeOK
    <2>9. UNCHANGED <<home, thing, items, ratings, files, log, made, view, wrote, moves>>
      BY <1>1 DEF Call
    <2> QED BY <1>0, <1>t, <2>1, <2>2, <2>3, <2>9 DEF TypeOK
  <1>2. ASSUME NEW r \in Requests, ReadActor(r) PROVE TypeOK'
    <2>1. home[ActorOf[r]] \in Optional(Mahallas)
      BY <1>t, ContentAssumption DEF TypeOK
    <2>2. /\ Narrowed(r, home[ActorOf[r]]) \in Optional(Mahallas)
          /\ MayChoose(r, home[ActorOf[r]]) \in Optional(Mahallas)
      BY <2>1, ContentAssumption DEF Narrowed, MayChoose
    <2>3. PICK c \in Optional(Mahallas) : chosen' = [chosen EXCEPT ![r] = c]
      BY <1>2, <2>2 DEF ReadActor
    <2>4. chosen' \in [Requests -> Optional(Mahallas)]
      BY <1>t, <2>3, ChangedType DEF TypeOK
    <2>9. UNCHANGED <<home, thing, items, ratings, files, log, made, view, homes, wrote, submitted, moves>>
      BY <1>2 DEF ReadActor
    <2> QED BY <1>0, <1>t, <2>4, <2>9 DEF TypeOK
  <1>3. ASSUME NEW r \in Requests, Create(r) PROVE TypeOK'
    <2> DEFINE row == [kind |-> Kind(r), at |-> At(r),
                       status |-> IF Kind(r) = "post" THEN "DRAFT" ELSE "PLANNED"]
    <2>0. pc[r] = "creating" BY <1>3 DEF Create, Resolve, Step
    <2>1. OpOf[r] \in {"post", "event"}
      BY <2>0 DEF RowInv, ControlInv, PlacesOK, PlaceOK
    <2>2. row \in Row
      BY <1>w, <2>0, <2>1 DEF Kind, Statuses
    <2>3. thing' = Put(thing, r, row) BY <1>3 DEF Create
    <2>4. /\ DOMAIN thing' \subseteq Names
          /\ thing' \in [DOMAIN thing' -> Row]
      <3>1. r \in Names BY DEF Names
      <3> HIDE DEF row, Row
      <3>2. Put(thing, r, row) \in [DOMAIN thing \cup {r} -> Row]
        BY <1>i, <2>2, PutType
      <3> QED BY <1>i, <2>3, <3>1, <3>2
    <2>5. wrote' \in [Requests -> SUBSET Names]
      BY <1>3, <1>n, <1>t, ChangedType DEF Create, TypeOK
    <2>9. UNCHANGED <<home, items, ratings, files, log, chosen, made, view, homes, submitted, moves>>
      BY <1>3 DEF Create
    <2> QED BY <1>0, <1>t, <2>4, <2>5, <2>9 DEF TypeOK
  <1>4. ASSUME NEW r \in Requests, Upsert(r) PROVE TypeOK'
    <2> DEFINE row == [kind |-> "report", at |-> At(r), status |-> StatusOf[r]]
    <2>0. pc[r] = "upserting" BY <1>4 DEF Upsert, Resolve, Step
    <2>2. row \in Row
      BY <1>w, <2>0 DEF Statuses
    <2>3. thing' = Put(thing, At(r), row) BY <1>4 DEF Upsert
    <2>4. /\ DOMAIN thing' \subseteq Names
          /\ thing' \in [DOMAIN thing' -> Row]
      <3>1. At(r) \in Names BY <1>w, <2>0 DEF Names
      <3> HIDE DEF row, Row
      <3>2. Put(thing, At(r), row) \in [DOMAIN thing \cup {At(r)} -> Row]
        BY <1>i, <2>2, PutType
      <3> QED BY <1>i, <2>3, <3>1, <3>2
    <2>5. wrote' \in [Requests -> SUBSET Names]
      <3>1. {At(r)} \in SUBSET Names BY <1>w, <2>0 DEF Names
      <3> QED BY <1>4, <1>t, <3>1, ChangedType DEF Upsert, TypeOK
    <2>6. submitted' \in [Requests -> SUBSET Names]
      BY <1>4, <1>t, <2>4, SubmittedType DEF Upsert
    <2>7. files' \in [DOMAIN files' -> Optional(Requests \X Nat)] /\ DOMAIN files' = DOMAIN files
      <3>1. \A f \in DOMAIN files : files[f] \in Optional(Requests \X Nat)
        BY <1>t DEF TypeOK
      <3>2. \A S, T : S \in Optional(Requests \X Nat) => S \ T \in Optional(Requests \X Nat)
        <4> SUFFICES ASSUME NEW S, NEW T, S \in Optional(Requests \X Nat)
                     PROVE  S \ T \in Optional(Requests \X Nat)
          OBVIOUS
        <4>1. S = {} \/ \E x \in Requests \X Nat : S = {x} BY DEF Optional
        <4>2. S \ T = {} \/ S \ T = S BY <4>1
        <4> QED BY <4>2 DEF Optional
      <3> QED BY <1>4, <3>1, <3>2 DEF Upsert
    <2>8. items' \subseteq items BY <1>4 DEF Upsert, KeptItems
    <2>9. UNCHANGED <<home, ratings, log, chosen, made, view, homes, moves>>
      BY <1>4 DEF Upsert
    <2> QED BY <1>0, <1>t, <2>4, <2>5, <2>6, <2>7, <2>8, <2>9 DEF TypeOK
  <1>5. ASSUME NEW r \in Requests, AddItem(r) PROVE TypeOK'
    <2>0. At(r) \in Mahallas BY <1>5, <1>w DEF AddItem
    <2>1. made[r] + 1 \in Nat BY <1>t DEF TypeOK
    <2>2. made' \in [Requests -> Nat]
      BY <1>5, <1>t, <2>1, ChangedType DEF AddItem, TypeOK
    <2>3. [of |-> At(r), item |-> <<r, made[r] + 1>>] \in [of : Mahallas, item : Requests \X Nat]
      BY <2>0, <2>1
    <2>4. items' \subseteq [of : Mahallas, item : Requests \X Nat]
      BY <1>5, <1>t, <2>3 DEF AddItem, TypeOK
    <2>9. UNCHANGED <<home, thing, ratings, files, log, chosen, view, homes, wrote, submitted, moves>>
      BY <1>5 DEF AddItem
    <2> QED BY <1>0, <1>t, <2>2, <2>4, <2>9 DEF TypeOK
  <1>6. ASSUME NEW r \in Requests, Link(r) PROVE TypeOK'
    <2>1. {<<r, made[r]>>} \in Optional(Requests \X Nat)
      BY <1>t DEF TypeOK, Optional
    <2>2. files' \in [DOMAIN files' -> Optional(Requests \X Nat)] /\ DOMAIN files' = DOMAIN files
      BY <1>6, <1>t, <2>1 DEF Link, TypeOK
    <2>9. UNCHANGED <<home, thing, items, ratings, log, chosen, made, view, homes, wrote, submitted, moves>>
      BY <1>6 DEF Link
    <2> QED BY <1>0, <1>t, <2>2, <2>9 DEF TypeOK
  <1>7. ASSUME NEW r \in Requests, WriteStatus(r) PROVE TypeOK'
    <2>0. pc[r] = "writing-status" BY <1>7 DEF WriteStatus, Resolve, Step
    <2>1. Changes(r) BY <2>0 DEF RowInv, ControlInv, PlacesOK, PlaceOK
    <2>2. PICK x \in Requests : ThingOf[r] = {x} BY <2>1, ContentAssumption DEF Changes
    <2>3. thing' = [thing EXCEPT ![x].status = StatusOf[r]] /\ wrote' = [wrote EXCEPT ![r] = {x}]
      BY <1>7, <2>2 DEF WriteStatus
    <2>4. /\ DOMAIN thing' \subseteq Names
          /\ thing' \in [DOMAIN thing' -> Row]
      <3>1. x \in DOMAIN thing BY <2>0, <2>2 DEF RowInv, WroteOK
      <3>2. [thing[x] EXCEPT !.status = StatusOf[r]]
               \in Row
        <4>1. thing[x] \in Row BY <1>i, <3>1
        <4>2. StatusOf[r] \in Statuses BY DEF Statuses
        <4> QED BY <4>1, <4>2
      <3>3. thing' = [thing EXCEPT ![x] = [thing[x] EXCEPT !.status = StatusOf[r]]]
        BY <2>3
      <3> HIDE DEF Row
      <3> QED BY <1>i, <3>2, <3>3, ChangedType
    <2>5. wrote' \in [Requests -> SUBSET Names]
      BY <1>n, <1>t, <2>3, ChangedType DEF TypeOK
    <2>9. UNCHANGED <<home, items, ratings, files, log, chosen, made, view, homes, submitted, moves>>
      BY <1>7 DEF WriteStatus
    <2> QED BY <1>0, <1>t, <2>4, <2>5, <2>9 DEF TypeOK
  <1>8. ASSUME NEW r \in Requests, Rate(r) PROVE TypeOK'
    <2>0. OpOf[r] = "rate"
      BY <1>8 DEF Rate, Resolve, Step, RowInv, ControlInv, PlacesOK, PlaceOK
    <2>1. ThingOf[r] \subseteq Mahallas /\ ActorOf[r] \in Users
      BY <2>0, ContentAssumption
    <2>2. \A q \in ratings' : q \in ratings \/ q = [row |-> [by |-> ActorOf[r], of |-> ThingOf[r]],
                                                    req |-> r]
      BY <1>8 DEF Rate
    <2>3. \A q \in ratings' : q.row.by \in Users /\ q.row.of \subseteq Mahallas /\ q.req \in Requests
      <3>1. \A q \in ratings : q.row.by \in Users /\ q.row.of \subseteq Mahallas /\ q.req \in Requests
        BY <1>t DEF TypeOK
      <3> QED BY <2>1, <2>2, <3>1
    <2>9. UNCHANGED <<home, thing, items, files, log, chosen, made, view, homes, wrote, submitted, moves>>
      BY <1>8 DEF Rate
    <2> QED BY <1>0, <1>t, <2>3, <2>9 DEF TypeOK
  <1>9. ASSUME NEW r \in Requests, StoreFile(r) PROVE TypeOK'
    <2>2. DOMAIN files' \subseteq Requests /\ files' \in [DOMAIN files' -> Optional(Part)]
      <3>1. files' = Put(files, r, {}) BY <1>9 DEF StoreFile
      <3>2. {} \in Optional(Part) BY DEF Optional
      <3> HIDE DEF Part
      <3>3. Put(files, r, {}) \in [DOMAIN files \cup {r} -> Optional(Part)]
        BY <1>j, <3>2, PutType
      <3> QED BY <1>j, <3>1, <3>3
    <2>9. UNCHANGED <<home, thing, items, ratings, log, chosen, made, view, homes, wrote, submitted, moves>>
      BY <1>9 DEF StoreFile
    <2> QED BY <1>0, <1>t, <2>2, <2>9 DEF TypeOK
  <1>10. ASSUME NEW r \in Requests, List(r) PROVE TypeOK'
    <2>1. {x \in DOMAIN thing : Shown(r, x)} \in SUBSET Names BY <1>t DEF TypeOK
    <2>2. view' \in [Requests -> SUBSET Names]
      BY <1>10, <1>t, <2>1, ChangedType DEF List, TypeOK
    <2>9. UNCHANGED <<home, thing, items, ratings, files, log, chosen, made, homes, wrote, submitted, moves>>
      BY <1>10 DEF List
    <2> QED BY <1>0, <1>t, <2>2, <2>9 DEF TypeOK
  <1>11. ASSUME NEW r \in Requests, Audit(r) PROVE TypeOK'
    <2>1. Entry(r) \in [of : SUBSET Names, status : Statuses]
      BY <1>n, EntryIs
    <2>2. log' \in Seq([of : SUBSET Names, status : Statuses])
      <3>1. log \in Seq([of : SUBSET Names, status : Statuses]) BY <1>t DEF TypeOK
      <3>2. log' = log \/ log' = Append(log, Entry(r)) BY <1>11 DEF Audit
      <3>3. Append(log, Entry(r)) \in Seq([of : SUBSET Names, status : Statuses])
        BY <2>1, <3>1
      <3> QED BY <3>1, <3>2, <3>3
    <2>9. UNCHANGED <<home, thing, items, ratings, files, chosen, made, view, homes, wrote, submitted, moves>>
      BY <1>11 DEF Audit
    <2> QED BY <1>0, <1>t, <2>2, <2>9 DEF TypeOK
  <1>12. ASSUME NEW r \in Requests, ReadThing(r) \/ ReadReport(r) \/ ReadBack(r) \/ Fail(r)
         PROVE  TypeOK'
    BY <1>0, <1>12, <1>t DEF ReadThing, ReadReport, ReadBack, Fail, TypeOK
  <1>13. CASE Crash
    BY <1>0, <1>13, <1>t DEF Crash, TypeOK
  <1>14. ASSUME NEW u \in Users, Move(u) PROVE TypeOK'
    <2>1. PICK m \in Mahallas : home' = [home EXCEPT ![u] = {m}] BY <1>14 DEF Move
    <2>2. {m} \in Optional(Mahallas) BY DEF Optional
    <2>3. home' \in [Users -> Optional(Mahallas)] /\ home'[u] \in Optional(Mahallas)
      BY <1>t, <2>1, <2>2, ChangedType DEF TypeOK
    <2>4. homes' \in [Requests -> SUBSET Optional(Mahallas)]
      BY <1>14, <1>t, <2>3 DEF Move, TypeOK
    <2>5. moves' \in 0 .. MaxMoves BY <1>14, <1>t, ContentAssumption DEF Move, TypeOK
    <2>9. UNCHANGED <<thing, items, ratings, files, log, chosen, made, view, wrote, submitted>>
      BY <1>14 DEF Move
    <2> QED BY <1>0, <1>t, <2>3, <2>4, <2>5, <2>9 DEF TypeOK
  <1>15. CASE UNCHANGED vars
    BY <1>0, <1>15, <1>t DEF vars, TypeOK
  <1> QED
    BY <1>1, <1>2, <1>3, <1>4, <1>5, <1>6, <1>7, <1>8, <1>9, <1>10, <1>11, <1>12, <1>13, <1>14,
       <1>15 DEF Next, Handle
-----------------------------------------------------------------------------
(* A handler changes no variables of other requests. *)
LEMMA OthersStay ==
    ASSUME TypeOK, NEW r \in Requests, Handle(r), NEW q \in Requests, q # r
    PROVE  /\ pc'[q] = pc[q] /\ chosen'[q] = chosen[q] /\ made'[q] = made[q]
           /\ view'[q] = view[q] /\ homes'[q] = homes[q] /\ wrote'[q] = wrote[q]
  <1>t. /\ DOMAIN pc = Requests /\ DOMAIN chosen = Requests /\ DOMAIN made = Requests
        /\ DOMAIN view = Requests /\ DOMAIN homes = Requests /\ DOMAIN wrote = Requests
    BY DEF TypeOK, ControlOK
  <1> USE DEF progress, noted
  <1>p. ASSUME NEW p, NEW s, Step(r, p, s) \/ Resolve(r, p, s) \/ Arrive(r, s) \/ Reject(r)
        PROVE  pc'[q] = pc[q]
    BY <1>p, <1>t DEF Step, Resolve, Arrive, Reject, Goto
  <1>1. CASE Call(r) BY <1>1, <1>t, <1>p DEF Call
  <1>2. CASE ReadActor(r) BY <1>2, <1>t, <1>p DEF ReadActor
  <1>3. CASE Create(r) BY <1>3, <1>t, <1>p DEF Create
  <1>4. CASE Upsert(r) BY <1>4, <1>t, <1>p DEF Upsert
  <1>5. CASE AddItem(r) BY <1>5, <1>t, <1>p DEF AddItem
  <1>6. CASE Link(r) BY <1>6, <1>t, <1>p DEF Link
  <1>7. CASE ReadThing(r) BY <1>7, <1>t, <1>p DEF ReadThing
  <1>8. CASE WriteStatus(r) BY <1>8, <1>t, <1>p DEF WriteStatus
  <1>9. CASE ReadReport(r) BY <1>9, <1>t, <1>p DEF ReadReport
  <1>10. CASE Rate(r) BY <1>10, <1>t, <1>p DEF Rate
  <1>11. CASE StoreFile(r) BY <1>11, <1>t, <1>p DEF StoreFile
  <1>12. CASE List(r) BY <1>12, <1>t, <1>p DEF List
  <1>13. CASE Audit(r) BY <1>13, <1>t, <1>p DEF Audit
  <1>14. CASE ReadBack(r) BY <1>14, <1>t, <1>p DEF ReadBack
  <1>15. CASE Fail(r) BY <1>15, <1>t, <1>p DEF Fail
  <1> QED
    BY <1>1, <1>2, <1>3, <1>4, <1>5, <1>6, <1>7, <1>8, <1>9, <1>10, <1>11, <1>12, <1>13, <1>14,
       <1>15 DEF Handle

(* Where a request goes after its await p. *)
LEMMA Places ==
    ASSUME TypeOK, NEW r \in Requests, NEW p, NEW s, Step(r, p, s) \/ Resolve(r, p, s)
    PROVE  pc[r] = p /\ pc'[r] \in {s, "failed"}
  BY DEF TypeOK, ControlOK, Step, Resolve, Goto

(* What is published is never taken back. *)
LEMMA ThingsStay ==
    ASSUME RowInv, [Next]_vars
    PROVE  DOMAIN thing \subseteq DOMAIN thing'
  <1>1. ASSUME NEW x, NEW y PROVE DOMAIN thing \subseteq DOMAIN Put(thing, x, y)
    BY DEF Put
  <1>2. ASSUME NEW x, NEW y PROVE DOMAIN thing = DOMAIN [thing EXCEPT ![x].status = y]
    OBVIOUS
  <1>3. ASSUME NEW r \in Requests, Handle(r) PROVE DOMAIN thing \subseteq DOMAIN thing'
    BY <1>1, <1>2, <1>3 DEF Handle, Call, ReadActor, Create, Upsert, AddItem, Link, ReadThing,
       WriteStatus, ReadReport, Rate, StoreFile, List, Audit, ReadBack, Fail, rows
  <1> QED BY <1>3 DEF Next, vars, rows, Crash, Move

(* Every request keeps to what it may write and where. *)
LEMMA WroteStep ==
    ASSUME RowInv, [Next]_vars
    PROVE  \A r \in Requests : WroteOK(r)'
  <1>t. TypeOK /\ ControlInv /\ \A r \in Requests : WroteOK(r) BY DEF RowInv
  <1>d. DOMAIN thing \subseteq DOMAIN thing' BY ThingsStay
  <1>o. ASSUME NEW q \in Requests, pc'[q] = pc[q] \/ pc'[q] \in {"failed", "lost", "refused"},
               chosen'[q] = chosen[q], made'[q] = made[q], wrote'[q] = wrote[q]
        PROVE  WroteOK(q)'
    BY <1>d, <1>o, <1>t DEF WroteOK, Unwritten, Written
  <1>h. ASSUME NEW r \in Requests, Handle(r), WroteOK(r)'
        PROVE  \A q \in Requests : WroteOK(q)'
    BY <1>h, <1>o, <1>t, OthersStay
  <1>f. /\ DOMAIN pc = Requests /\ DOMAIN chosen = Requests /\ DOMAIN made = Requests
        /\ DOMAIN wrote = Requests /\ \A r \in Requests : made[r] \in Nat /\ ItemsOf[r] \in Nat
    BY <1>t, ContentAssumption DEF TypeOK, ControlOK
  <1>p. \A r \in Requests : PlaceOK(r, pc[r]) /\ WroteOK(r) BY <1>t DEF ControlInv, PlacesOK
  <1> USE DEF progress, noted, rows
  <1>1. ASSUME NEW r \in Requests, Call(r) PROVE WroteOK(r)'
    <2>1. /\ pc[r] = "unsent" /\ UNCHANGED <<made, wrote>>
          /\ pc'[r] \in {"reading-actor", "reading-thing", "reading-report", "refused",
                         "storing-file", "listing"}
      BY <1>1, <1>f, ContentAssumption DEF Call, Arrive, Goto, Creates, Changes, Lists
    <2>2. wrote[r] = {} /\ made[r] = 0 BY <1>p, <2>1 DEF WroteOK, Unwritten
    <2> QED BY <2>1, <2>2 DEF WroteOK, Unwritten, Written
  <1>2. ASSUME NEW r \in Requests, ReadActor(r) PROVE WroteOK(r)'
    <2>1. /\ pc[r] = "reading-actor" /\ UNCHANGED <<made, wrote>>
          /\ pc'[r] \in {"listing", "refused", "upserting", "creating"}
          /\ pc'[r] \in {"upserting", "creating"} => chosen'[r] # {}
      BY <1>2, <1>f DEF ReadActor, Step, Goto
    <2>2. wrote[r] = {} /\ made[r] = 0 BY <1>p, <2>1 DEF WroteOK, Unwritten
    <2> QED BY <2>1, <2>2 DEF WroteOK, Unwritten, Written
  <1>3. ASSUME NEW r \in Requests, Create(r) PROVE WroteOK(r)'
    <2>1. /\ pc[r] = "creating" /\ pc'[r] \in {"linking", "auditing", "failed"}
      BY <1>3, <1>t, Places DEF Create
    <2>2. wrote'[r] = {r} BY <1>3, <1>f DEF Create
    <2>3. OpOf[r] \in {"post", "event"} BY <1>p, <2>1 DEF PlaceOK
    <2> QED BY <2>1, <2>2, <2>3 DEF WroteOK, Unwritten, Written, Lists, Changes
  <1>4. ASSUME NEW r \in Requests, Upsert(r) PROVE WroteOK(r)'
    <2>1. pc[r] = "upserting" /\ pc'[r] \in {AfterLinking(r), "failed"}
      BY <1>4, <1>t, Places DEF Upsert
    <2>2. wrote'[r] = {At(r)} /\ UNCHANGED <<made, chosen>> BY <1>4, <1>f DEF Upsert
    <2>3. OpOf[r] = "report" BY <1>p, <2>1 DEF PlaceOK
    <2>4. chosen[r] # {} /\ made[r] = 0 BY <1>p, <2>1 DEF WroteOK, Unwritten
    <2>5. chosen[r] = {At(r)} BY <1>t, <2>4, AtIs
    <2>6. pc'[r] \in {"adding-item", "auditing", "failed"} /\ made[r] <= ItemsOf[r]
          /\ (pc'[r] = "adding-item" => made[r] < ItemsOf[r])
          /\ (pc'[r] = "auditing" => made[r] = ItemsOf[r])
      BY <1>f, <2>1, <2>3, <2>4 DEF AfterLinking
    <2> QED BY <2>2, <2>3, <2>4, <2>5, <2>6 DEF WroteOK, Unwritten, Written, Lists, Changes
  <1>5. ASSUME NEW r \in Requests, AddItem(r) PROVE WroteOK(r)'
    <2>1. pc[r] = "adding-item" /\ pc'[r] \in {"linking", AfterLinking(r)', "failed"}
      BY <1>5, <1>t, Places DEF AddItem
    <2>2. made'[r] = made[r] + 1 /\ UNCHANGED <<wrote, chosen>> BY <1>5, <1>f DEF AddItem
    <2>3. OpOf[r] = "report" BY <1>p, <2>1 DEF PlaceOK
    <2>4. wrote[r] = chosen[r] /\ chosen[r] # {} /\ made[r] < ItemsOf[r]
      BY <1>p, <2>1, <2>3 DEF WroteOK, Written
    <2>5. made'[r] <= ItemsOf[r] BY <1>f, <2>2, <2>4
    <2>6. pc'[r] \in {"adding-item", "linking", "auditing", "failed"}
          /\ (pc'[r] = "adding-item" => made'[r] < ItemsOf[r])
          /\ (pc'[r] = "auditing" => made'[r] = ItemsOf[r])
      BY <1>f, <2>1, <2>2, <2>3, <2>5 DEF AfterLinking
    <2> QED BY <2>2, <2>3, <2>4, <2>5, <2>6 DEF WroteOK, Unwritten, Written, Lists, Changes
  <1>6. ASSUME NEW r \in Requests, Link(r) PROVE WroteOK(r)'
    <2>1. pc[r] = "linking" /\ pc'[r] \in {AfterLinking(r), "failed"}
      BY <1>6, <1>t, Places DEF Link
    <2>2. UNCHANGED <<made, wrote, chosen>> BY <1>6 DEF Link
    <2>3. pc'[r] \in {"adding-item", "auditing", "failed"}
          /\ (pc'[r] = "adding-item" => made[r] < ItemsOf[r])
          /\ (OpOf[r] = "report" /\ pc'[r] = "auditing" => ~(made[r] < ItemsOf[r]))
      BY <2>1 DEF AfterLinking
    <2>4. OpOf[r] = "report" /\ made[r] <= ItemsOf[r] /\ pc'[r] = "auditing"
             => made[r] = ItemsOf[r]
      BY <1>f, <2>3
    <2> QED BY <1>p, <2>1, <2>2, <2>3, <2>4 DEF WroteOK, Unwritten, Written
  <1>7. ASSUME NEW r \in Requests, ReadThing(r) PROVE WroteOK(r)'
    <2>1. /\ pc[r] = "reading-thing" /\ UNCHANGED <<made, wrote, chosen, thing>>
          /\ pc'[r] \in {"writing-status", "refused"}
          /\ pc'[r] = "writing-status" => ThingOf[r] \subseteq DOMAIN thing
      BY <1>7, <1>f DEF ReadThing, Step, Goto
    <2> QED BY <1>p, <2>1 DEF WroteOK, Unwritten, Written
  <1>8. ASSUME NEW r \in Requests, WriteStatus(r) PROVE WroteOK(r)'
    <2>1. pc[r] = "writing-status" /\ pc'[r] \in {"auditing", "failed"}
      BY <1>8, <1>t, Places DEF WriteStatus
    <2>2. Changes(r) BY <1>p, <2>1 DEF PlaceOK
    <2>3. PICK x \in Requests : ThingOf[r] = {x} BY <2>2, ContentAssumption DEF Changes
    <2>4. wrote'[r] = ThingOf[r] BY <1>8, <1>f, <2>3 DEF WriteStatus
    <2> QED BY <2>1, <2>2, <2>4 DEF WroteOK, Unwritten, Written, Lists, Changes
  <1>9. ASSUME NEW r \in Requests, ReadReport(r) PROVE WroteOK(r)'
    <2>1. /\ pc[r] = "reading-report" /\ UNCHANGED <<made, wrote, chosen>>
          /\ pc'[r] \in {"rating", "refused"}
      BY <1>9, <1>f DEF ReadReport, Step, Goto
    <2> QED BY <1>p, <2>1 DEF WroteOK, Unwritten, Written
  <1>10. ASSUME NEW r \in Requests, Rate(r) PROVE WroteOK(r)'
    <2>1. /\ pc[r] = "rating" /\ UNCHANGED <<made, wrote, chosen>>
          /\ pc'[r] \in {"auditing", "refused", "failed"}
      BY <1>10, <1>t, Places DEF Rate
    <2>2. OpOf[r] = "rate" BY <1>p, <2>1 DEF PlaceOK
    <2> QED BY <1>p, <2>1, <2>2 DEF WroteOK, Unwritten, Written, Changes
  <1>11. ASSUME NEW r \in Requests, StoreFile(r) PROVE WroteOK(r)'
    <2>1. /\ pc[r] = "storing-file" /\ UNCHANGED <<made, wrote, chosen>>
          /\ pc'[r] \in {"auditing", "failed"}
      BY <1>11, <1>t, Places DEF StoreFile
    <2>2. OpOf[r] = "upload" BY <1>p, <2>1 DEF PlaceOK
    <2> QED BY <1>p, <2>1, <2>2 DEF WroteOK, Unwritten, Written, Changes
  <1>12. ASSUME NEW r \in Requests, List(r) PROVE WroteOK(r)'
    <2>1. /\ pc[r] = "listing" /\ UNCHANGED <<made, wrote, chosen>>
          /\ pc'[r] \in {"done", "failed"}
      BY <1>12, <1>t, Places DEF List
    <2>2. Lists(r) BY <1>p, <2>1 DEF PlaceOK
    <2> QED BY <1>p, <2>1, <2>2 DEF WroteOK, Unwritten, Written, Changes, Lists
  <1>13. ASSUME NEW r \in Requests, Audit(r) \/ ReadBack(r) PROVE WroteOK(r)'
    <2>1. /\ pc[r] \in {"auditing", "reading-back"} /\ UNCHANGED <<made, wrote, chosen>>
          /\ pc'[r] \in {"reading-back", "done", "failed"}
      BY <1>13, <1>t, Places DEF Audit, ReadBack
    <2> QED BY <1>p, <2>1 DEF WroteOK, Unwritten, Written
  <1>14. ASSUME NEW r \in Requests, Fail(r) PROVE WroteOK(r)'
    <2>1. pc'[r] = "failed" BY <1>14, <1>f DEF Fail, Reject, Goto
    <2> QED BY <1>14, <1>o, <2>1 DEF Fail
  <1>15. ASSUME Crash, NEW r \in Requests PROVE WroteOK(r)'
    <2>1. pc'[r] \in {"lost", pc[r]} BY <1>15 DEF Crash, Die
    <2> QED BY <1>15, <1>o, <2>1 DEF Crash
  <1>16. ASSUME NEW u \in Users, Move(u), NEW r \in Requests PROVE WroteOK(r)'
    BY <1>16, <1>o DEF Move, control
  <1>17. ASSUME UNCHANGED vars, NEW r \in Requests PROVE WroteOK(r)'
    BY <1>17, <1>o DEF vars, control
  <1>18. ASSUME NEW r \in Requests, Handle(r) PROVE WroteOK(r)'
    BY <1>1, <1>2, <1>3, <1>4, <1>5, <1>6, <1>7, <1>8, <1>9, <1>10, <1>11, <1>12, <1>13, <1>14,
       <1>18 DEF Handle
  <1> QED BY <1>h, <1>15, <1>16, <1>17, <1>18 DEF Next

(* What was written stays written. *)
LEMMA WritesStay ==
    ASSUME RowInv, [Next]_vars, NEW q \in Requests
    PROVE  /\ wrote[q] \subseteq wrote'[q]
           /\ pc[q] \notin Unwritten => pc'[q] \notin Unwritten
  <1>1. CASE wrote[q] = {} /\ pc[q] \in Unwritten
    BY <1>1
  <1>2. CASE pc[q] \notin Unwritten
    <2>1. TypeOK /\ PlaceOK(q, pc[q]) BY DEF RowInv, ControlInv, PlacesOK
    <2>2. ASSUME NEW p, NEW s, pc[q] = p => p \notin Unwritten,
                 Step(q, p, s) \/ Resolve(q, p, s), s \in Written \cup {"refused"}
          PROVE  pc'[q] \notin Unwritten
      BY <2>1, <2>2, Places DEF Unwritten, Written
    <2>3. ASSUME NEW r \in Requests, Handle(r), r # q
          PROVE  wrote'[q] = wrote[q] /\ pc'[q] \notin Unwritten
      BY <1>2, <2>1, <2>3, OthersStay
    <2>4. ASSUME Handle(q) PROVE wrote'[q] = wrote[q] /\ pc'[q] \notin Unwritten
      <3>1. ~(Call(q) \/ ReadActor(q) \/ Create(q) \/ Upsert(q) \/ ReadThing(q) \/ WriteStatus(q)
               \/ ReadReport(q) \/ Rate(q) \/ StoreFile(q) \/ List(q))
        BY <1>2 DEF Unwritten, Call, Arrive, ReadActor, Create, Upsert, ReadThing, WriteStatus,
           ReadReport, Rate, StoreFile, List, Step, Resolve
      <3>2. CASE AddItem(q)
        <4>1. AfterLinking(q)' \in {"adding-item", "auditing"} BY DEF AfterLinking
        <4> QED BY <2>1, <3>2, <4>1, Places DEF AddItem, Unwritten, noted
      <3>3. CASE Link(q)
        <4>1. AfterLinking(q) \in {"adding-item", "auditing"} BY DEF AfterLinking
        <4> QED BY <2>1, <3>3, <4>1, Places DEF Link, Unwritten, noted
      <3>4. CASE Audit(q) BY <2>1, <3>4, Places DEF Audit, Unwritten, noted
      <3>5. CASE ReadBack(q) BY <2>1, <3>5, Places DEF ReadBack, Unwritten, noted
      <3>6. CASE Fail(q)
        BY <2>1, <3>6 DEF Fail, Reject, Goto, Unwritten, noted, TypeOK, ControlOK
      <3> QED BY <2>4, <3>1, <3>2, <3>3, <3>4, <3>5, <3>6 DEF Handle
    <2>5. ASSUME Crash \/ (\E u \in Users : Move(u)) \/ UNCHANGED vars
          PROVE  wrote'[q] = wrote[q] /\ pc'[q] \notin Unwritten
      BY <1>2, <2>5 DEF Crash, Die, Move, vars, noted, control, Unwritten
    <2> QED BY <2>3, <2>4, <2>5 DEF Next
  <1> QED BY <1>1, <1>2 DEF RowInv, WroteOK

(* Rows are of the requests or mahallas they are named by. *)
LEMMA RowsStep ==
    ASSUME RowInv, [Next]_vars
    PROVE  RowsOK'
  <1> DEFINE RowOK(x) == IF x \in Mahallas THEN thing[x].kind = "report" /\ thing[x].at = x
                         ELSE thing[x].kind # "report" /\ pc[x] \notin Unwritten
  <1>t. TypeOK /\ ControlInv /\ RowsOK /\ \A r \in Requests : WroteOK(r) BY DEF RowInv
  <1>d. DOMAIN thing \subseteq DOMAIN thing' BY ThingsStay
  <1>p. \A r \in Requests : PlaceOK(r, pc[r]) /\ WroteOK(r) BY <1>t DEF ControlInv, PlacesOK
  <1>n. \A x \in DOMAIN thing : RowOK(x) /\ x \in Mahallas \cup Requests
    BY <1>t DEF RowsOK, TypeOK, Names
  <1>w. \A r \in Requests : pc[r] \notin Unwritten => pc'[r] \notin Unwritten
    BY WritesStay
  <1>1. \A x \in DOMAIN thing' : RowOK(x)'
    <2>1. ASSUME NEW x \in DOMAIN thing, thing'[x].kind = thing[x].kind, thing'[x].at = thing[x].at
          PROVE  RowOK(x)'
      BY <1>n, <1>w, <2>1
    <2>2. ASSUME UNCHANGED thing PROVE \A x \in DOMAIN thing' : RowOK(x)'
      BY <2>1, <2>2
    <2>3. ASSUME NEW r \in Requests, Create(r) PROVE \A x \in DOMAIN thing' : RowOK(x)'
      <3>1. pc[r] = "creating" /\ pc'[r] \in {"linking", "auditing", "failed"}
        BY <1>t, <2>3, Places DEF Create
      <3>2. OpOf[r] \in {"post", "event"} BY <1>p, <3>1 DEF PlaceOK
      <3>3. Kind(r) # "report" BY <3>2 DEF Kind
      <3>4. r \notin Mahallas BY ContentAssumption
      <3>5. DOMAIN thing' = DOMAIN thing \cup {r} /\ thing'[r].kind # "report"
            /\ \A x \in DOMAIN thing : x # r => thing'[x] = thing[x]
        BY <2>3, <3>3 DEF Create, Put
      <3>6. RowOK(r)' BY <3>1, <3>4, <3>5 DEF Unwritten
      <3> QED BY <2>1, <3>5, <3>6
    <2>4. ASSUME NEW r \in Requests, Upsert(r) PROVE \A x \in DOMAIN thing' : RowOK(x)'
      <3>1. pc[r] = "upserting" BY <1>t, <2>4, Places DEF Upsert
      <3>2. PICK m \in Mahallas : m = At(r) BY <1>p, <1>t, <3>1, AtIs DEF WroteOK
      <3>5. /\ DOMAIN thing' = DOMAIN thing \cup {m}
            /\ thing'[m].kind = "report" /\ thing'[m].at = m
            /\ \A x \in DOMAIN thing : x # m => thing'[x] = thing[x]
        BY <2>4, <3>2 DEF Upsert, Put
      <3>6. RowOK(m)' BY <3>2, <3>5
      <3> QED BY <2>1, <3>5, <3>6
    <2>5. ASSUME NEW r \in Requests, WriteStatus(r) PROVE \A x \in DOMAIN thing' : RowOK(x)'
      <3>1. PICK y : thing' = [thing EXCEPT ![y].status = StatusOf[r]]
        BY <2>5 DEF WriteStatus
      <3>2. DOMAIN thing' = DOMAIN thing BY <3>1
      <3>3. ASSUME NEW x \in DOMAIN thing
            PROVE  thing'[x].kind = thing[x].kind /\ thing'[x].at = thing[x].at
        <4>1. thing[x] \in [kind : {"post", "event", "report"}, at : Mahallas, status : Statuses]
          BY <1>t DEF TypeOK
        <4>2. thing'[x] = thing[x] \/ thing'[x] = [thing[x] EXCEPT !.status = StatusOf[r]]
          BY <3>1
        <4> QED BY <4>1, <4>2
      <3> QED BY <2>1, <3>2, <3>3
    <2> QED
      BY <2>2, <2>3, <2>4, <2>5 DEF Next, Handle, Call, ReadActor, AddItem, Link, ReadThing,
         ReadReport, Rate, StoreFile, List, Audit, ReadBack, Fail, Crash, Move, vars, rows
  <1>2. ASSUME NEW r \in Requests PROVE wrote'[r] \subseteq DOMAIN thing'
    <2>1. CASE wrote'[r] = wrote[r] BY <1>d, <1>t, <2>1 DEF RowsOK
    <2>2. CASE Create(r) BY <1>t, <2>2 DEF Create, Put, TypeOK
    <2>3. CASE Upsert(r) BY <1>t, <2>3 DEF Upsert, Put, TypeOK
    <2>4. CASE WriteStatus(r)
      <3>1. pc[r] = "writing-status" BY <1>t, <2>4, Places DEF WriteStatus
      <3>2. Changes(r) BY <1>p, <3>1 DEF PlaceOK
      <3>3. PICK x \in Requests : ThingOf[r] = {x} BY <3>2, ContentAssumption DEF Changes
      <3> QED BY <1>d, <1>p, <1>t, <2>4, <3>1, <3>3 DEF WriteStatus, WroteOK, TypeOK
    <2>5. ASSUME NEW q \in Requests, Handle(q), q # r PROVE wrote'[r] = wrote[r]
      BY <1>t, <2>5, OthersStay
    <2>6. ASSUME Handle(r), ~Create(r), ~Upsert(r), ~WriteStatus(r) PROVE wrote'[r] = wrote[r]
      BY <2>6 DEF Handle, Call, ReadActor, AddItem, Link, ReadThing, ReadReport, Rate, StoreFile,
         List, Audit, ReadBack, Fail, noted
    <2>7. CASE Crash \/ (\E u \in Users : Move(u)) \/ UNCHANGED vars
      BY <2>1, <2>7 DEF Crash, Move, vars, noted
    <2> QED BY <2>1, <2>2, <2>3, <2>4, <2>5, <2>6, <2>7 DEF Next
  <1>3. ASSUME NEW r \in Requests PROVE view'[r] \subseteq DOMAIN thing'
    <2>1. CASE view'[r] = view[r] BY <1>d, <1>t, <2>1 DEF RowsOK
    <2>2. CASE List(r) BY <1>t, <2>2 DEF List, rows, TypeOK
    <2>3. ASSUME NEW q \in Requests, Handle(q), q # r PROVE view'[r] = view[r]
      BY <1>t, <2>3, OthersStay
    <2>4. ASSUME Handle(r), ~List(r) PROVE view'[r] = view[r]
      BY <2>4 DEF Handle, Call, ReadActor, Create, Upsert, AddItem, Link, ReadThing, WriteStatus,
         ReadReport, Rate, StoreFile, Audit, ReadBack, Fail, progress
    <2>5. CASE Crash \/ (\E u \in Users : Move(u)) \/ UNCHANGED vars
      BY <2>1, <2>5 DEF Crash, Move, vars, progress
    <2> QED BY <2>1, <2>2, <2>3, <2>4, <2>5 DEF Next
  <1> QED BY <1>1, <1>2, <1>3 DEF RowsOK
-----------------------------------------------------------------------------
(* What an entry says of the status is in the request. *)
LEMMA EntrySays ==
    ASSUME NEW r \in Requests
    PROVE  /\ (Entry(r).status)' = Entry(r).status
           /\ OpOf[r] = "post" => Entry(r).status = "DRAFT"
           /\ OpOf[r] = "event" => Entry(r).status = "PLANNED"
           /\ OpOf[r] = "report" \/ Changes(r) => Entry(r).status = StatusOf[r]
  BY DEF Entry, Changes

(* Writers have been made, and write one thing. *)
LEMMA Writers ==
    ASSUME RowInv, NEW x, NEW r \in WritersOf(x)
    PROVE  /\ pc[r] \notin Unwritten /\ r \in Sent
           /\ pc[r] \in Written => wrote[r] = {x} /\ OpOf[r] \notin {"rate", "upload"} /\ ~Lists(r)
           /\ pc[r] \in Written /\ x \in Mahallas => OpOf[r] = "report"
           /\ OpOf[r] = "report" /\ pc[r] \in Written => chosen[r] = {x} /\ At(r) = x
  <1>1. WroteOK(r) /\ x \in wrote[r] /\ r \in Requests /\ TypeOK BY DEF WritersOf, RowInv
  <1>2. pc[r] \notin Unwritten /\ r \in Sent BY <1>1 DEF WroteOK, Unwritten, Sent
  <1>3. OpOf[r] \notin {"rate", "upload"} /\ ~Lists(r) BY <1>1 DEF WroteOK
  <1>4. OpOf[r] \in {"post", "event", "report"} \/ Changes(r)
    BY <1>1, <1>3, ContentAssumption DEF Lists, Changes
  <1>5. Changes(r) => \E y \in Requests : ThingOf[r] = {y} BY <1>1, ContentAssumption DEF Changes
  <1>6. OpOf[r] = "report" /\ pc[r] \in Written => chosen[r] = {x} /\ At(r) = x /\ wrote[r] = {x}
    <2> SUFFICES ASSUME OpOf[r] = "report", pc[r] \in Written
                 PROVE  chosen[r] = {x} /\ At(r) = x /\ wrote[r] = {x}
      OBVIOUS
    <2>1. wrote[r] = chosen[r] /\ chosen[r] # {} BY <1>1 DEF WroteOK
    <2> QED BY <1>1, <2>1, AtIs
  <1>7. pc[r] \in Written => wrote[r] = {x}
    BY <1>1, <1>4, <1>5, <1>6 DEF WroteOK
  <1>8. pc[r] \in Written /\ x \in Mahallas => OpOf[r] = "report"
    BY <1>1, <1>4, <1>5, ContentAssumption DEF WroteOK
  <1> QED BY <1>2, <1>3, <1>6, <1>7, <1>8

(* What has come clean so far was so before. *)
LEMMA CleanBefore ==
    ASSUME RowInv, [Next]_vars, NEW x, Clean(x)'
    PROVE  /\ Clean(x) /\ WritersOf(x) \subseteq WritersOf(x)'
           /\ \A r \in WritersOf(x) : pc[r] \in Written /\ pc'[r] \in Written
  <1>c. ContentKept BY Control DEF RowInv
  <1>1. WritersOf(x) \subseteq WritersOf(x)' BY WritesStay DEF WritersOf
  <1>2. ASSUME NEW r \in WritersOf(x) PROVE pc[r] \in Written /\ pc'[r] \in Written /\ r \in Sent
    <2>1. pc'[r] \in Written BY <1>1, <1>2 DEF Clean
    <2>2. pc[r] \notin Unwritten /\ r \in Sent /\ r \in Requests
      BY <1>2, Writers DEF WritersOf
    <2>3. pc[r] \in Unwritten \cup Written \cup {"refused", "limited", "failed", "lost"}
      BY <2>2 DEF RowInv, TypeOK, ControlOK, Waits, Ends, Unwritten, Written
    <2>4. pc[r] \in {"refused", "limited", "failed", "lost"} => pc'[r] = pc[r]
      BY <1>c, <2>2 DEF ContentKept, Kept, Onward, Ended, Ends
    <2>5. pc[r] \notin {"refused", "limited", "failed", "lost"}
      BY <2>1, <2>4 DEF Written
    <2> QED BY <2>1, <2>2, <2>3, <2>5
  <1>3. \A q, r \in WritersOf(x) : q = r \/ ~Overlap(q, r)
    <2>1. \A q, r \in WritersOf(x) : q = r \/ ~Overlap(q, r)' BY <1>1 DEF Clean
    <2> QED BY <1>2, <1>c, <2>1, OverlapStays DEF ContentKept, Kept
  <1> QED BY <1>1, <1>2, <1>3 DEF Clean

(* The last writer stays so while nobody writes. *)
LEMMA LastStays ==
    ASSUME RowInv, [Next]_vars, NEW x \in DOMAIN thing, Clean(x)',
           WritersOf(x)' \subseteq WritersOf(x), thing'[x] = thing[x],
           ItemsAt(x)' = ItemsAt(x),
           \A q \in WritersOf(x) :
              /\ made'[q] = made[q]
              /\ pc'[q] \in {"reading-back", "done"} => pc[q] \in {"reading-back", "done"},
           \A status : Tells(x, status) => Tells(x, status)'
    PROVE  \E w \in Requests : LastWriter(x, w)'
  <1>c. ContentKept BY Control DEF RowInv
  <1>1. Clean(x) /\ WritersOf(x)' = WritersOf(x) BY CleanBefore
  <1>2. PICK w \in Requests : LastWriter(x, w) BY <1>1 DEF RowInv, WrittenOK
  <1>3. w \in WritersOf(x)' BY <1>1, <1>2 DEF LastWriter
  <1>4. ASSUME NEW r \in WritersOf(x)' \cap UnderWay' PROVE r = w
    <2>1. r \in Sent /\ r \in Requests BY <1>1, <1>4, Writers DEF WritersOf
    <2>2. r \notin Ended BY <1>c, <1>4, <2>1 DEF ContentKept, Kept, Onward, UnderWay, Ended
    <2> QED BY <1>1, <1>2, <1>4, <2>1, <2>2 DEF LastWriter, UnderWay
  <1>5. thing'[x].status = (Entry(w).status)' BY <1>2, EntrySays DEF LastWriter
  <1>6. x \in Mahallas => ItemsAt(x)' = {<<w, n>> : n \in 1 .. made'[w]}
    BY <1>1, <1>2, <1>3 DEF LastWriter
  <1>7. pc'[w] \in {"reading-back", "done"} => Tells(x, thing[x].status)'
    <2> SUFFICES ASSUME pc'[w] \in {"reading-back", "done"} PROVE Tells(x, thing[x].status)'
      OBVIOUS
    <2>1. Tells(x, thing[x].status) BY <1>1, <1>2, <1>3 DEF LastWriter
    <2>2. PICK status : status = thing[x].status OBVIOUS
    <2>3. Tells(x, status)' BY <2>1, <2>2
    <2> QED BY <2>2, <2>3
  <1> QED BY <1>3, <1>4, <1>5, <1>6, <1>7 DEF LastWriter

(* Steps that write no rows of posts, events and reports. *)
LEMMA WrittenStays ==
    ASSUME RowInv, [Next]_vars, UNCHANGED <<thing, items, log, wrote, made>>,
           \A q \in Requests : wrote[q] # {} /\ pc'[q] \in {"reading-back", "done"}
                                  => pc[q] \in {"reading-back", "done"}
    PROVE  WrittenOK'
  <1> SUFFICES ASSUME NEW x \in DOMAIN thing', Clean(x)'
               PROVE  \E w \in Requests : LastWriter(x, w)'
    BY DEF WrittenOK
  <1>1. WritersOf(x)' \subseteq WritersOf(x) /\ ItemsAt(x)' = ItemsAt(x)
    BY DEF WritersOf, ItemsAt
  <1>2. \A q \in WritersOf(x) :
           /\ made'[q] = made[q]
           /\ pc'[q] \in {"reading-back", "done"} => pc[q] \in {"reading-back", "done"}
    BY DEF WritersOf
  <1>3. \A status : Tells(x, status) => Tells(x, status)' BY DEF Tells
  <1> QED BY <1>1, <1>2, <1>3, LastStays

(* A handler's step leaves the rows of others than x as they are. *)
LEMMA OtherRowsStay ==
    ASSUME RowInv, [Next]_vars, NEW r \in Requests, Handle(r), NEW x \in DOMAIN thing, Clean(x)',
           x \notin wrote'[r], thing'[x] = thing[x], ItemsAt(x)' = ItemsAt(x), UNCHANGED log
    PROVE  \E w \in Requests : LastWriter(x, w)'
  <1>t. TypeOK BY DEF RowInv
  <1>1. \A q \in WritersOf(x) : q # r BY CleanBefore DEF WritersOf
  <1>2. \A q \in WritersOf(x)' : q # r /\ q \in Requests BY DEF WritersOf
  <1>3. \A q \in Requests : q # r => pc'[q] = pc[q] /\ made'[q] = made[q] /\ wrote'[q] = wrote[q]
    BY <1>t, OthersStay
  <1>4. WritersOf(x)' \subseteq WritersOf(x) BY <1>2, <1>3 DEF WritersOf
  <1>5. \A status : Tells(x, status) => Tells(x, status)' BY DEF Tells
  <1>6. \A q \in WritersOf(x) :
           /\ made'[q] = made[q]
           /\ pc'[q] \in {"reading-back", "done"} => pc[q] \in {"reading-back", "done"}
    BY <1>1, <1>3 DEF WritersOf
  <1> QED BY <1>4, <1>5, <1>6, LastStays

(* The one under way among writers in turn is the last of them. *)
LEMMA WriterUnderWay ==
    ASSUME RowInv, [Next]_vars, NEW x, Clean(x)', NEW r \in WritersOf(x)', r \in UnderWay',
           NEW q \in WritersOf(x)' \cap UnderWay'
    PROVE  q = r
  <1>c. ContentKept BY Control DEF RowInv
  <1>1. q = r \/ ~Overlap(q, r)' BY DEF Clean
  <1>2. Overlap(q, r)' BY <1>c, UnderWayOverlap DEF ContentKept, Kept, Past, Overlap, UnderWay, Sent, Ended
  <1> QED BY <1>1, <1>2

(* A post or event is created by the first that writes it. *)
LEMMA CreateWrites ==
    ASSUME RowInv, [Next]_vars, NEW r \in Requests, Create(r)
    PROVE  WrittenOK'
  <1>t. TypeOK /\ WroteOK(r) /\ PlaceOK(r, pc[r]) /\ RowsOK BY DEF RowInv, ControlInv, PlacesOK
  <1>0. pc[r] = "creating" /\ pc'[r] \in {"linking", "auditing", "failed"}
    BY <1>t, Places DEF Create
  <1>1. OpOf[r] \in {"post", "event"} /\ r \notin Mahallas
    BY <1>t, <1>0, ContentAssumption DEF PlaceOK
  <1>2. r \notin DOMAIN thing BY <1>t, <1>0, <1>1 DEF RowsOK, Unwritten
  <1>3. /\ DOMAIN thing' = DOMAIN thing \cup {r}
        /\ thing'[r].status = IF Kind(r) = "post" THEN "DRAFT" ELSE "PLANNED"
        /\ \A x \in DOMAIN thing : x # r => thing'[x] = thing[x]
    BY DEF Create, Put
  <1>4. wrote'[r] = {r} /\ UNCHANGED <<items, log>> BY <1>t DEF Create, TypeOK
  <1>5. Handle(r) BY DEF Handle
  <1>6. ASSUME NEW x \in DOMAIN thing, Clean(x)' PROVE \E w \in Requests : LastWriter(x, w)'
    <2>1. x # r /\ ItemsAt(x)' = ItemsAt(x) BY <1>2, <1>4 DEF ItemsAt
    <2> QED BY <1>3, <1>4, <1>5, <1>6, <2>1, OtherRowsStay
  <1>7. ASSUME Clean(r)' PROVE LastWriter(r, r)'
    <2>1. r \in WritersOf(r)' BY <1>4 DEF WritersOf
    <2>2. \A q \in WritersOf(r)' : q = r
      BY <1>2, <1>5, <1>t, OthersStay DEF WritersOf, RowsOK
    <2>3. thing'[r].status = (Entry(r).status)' BY <1>1, <1>3, EntrySays DEF Kind
    <2> QED BY <1>0, <1>1, <2>1, <2>2, <2>3 DEF LastWriter
  <1> QED BY <1>3, <1>6, <1>7 DEF WrittenOK

(* A report is replaced with all its items. *)
LEMMA UpsertWrites ==
    ASSUME RowInv, [Next]_vars, NEW r \in Requests, Upsert(r)
    PROVE  WrittenOK'
  <1>t. TypeOK /\ WroteOK(r) /\ PlaceOK(r, pc[r]) BY DEF RowInv, ControlInv, PlacesOK
  <1>0. pc[r] = "upserting" /\ pc'[r] \in {AfterLinking(r), "failed"}
    BY <1>t, Places DEF Upsert
  <1>1. OpOf[r] = "report" /\ chosen[r] # {} /\ made[r] = 0
    BY <1>t, <1>0 DEF PlaceOK, WroteOK, Unwritten
  <1>a. pc'[r] \in {"adding-item", "auditing", "failed"} BY <1>0 DEF AfterLinking
  <1>2. PICK m \in Mahallas : m = At(r) BY <1>t, <1>1, AtIs
  <1>3. /\ DOMAIN thing' = DOMAIN thing \cup {m} /\ thing'[m].status = StatusOf[r]
        /\ \A x \in DOMAIN thing : x # m => thing'[x] = thing[x]
    BY <1>2 DEF Upsert, Put
  <1>4. wrote'[r] = {m} /\ made'[r] = 0 /\ UNCHANGED log /\ items' = {i \in items : i.of # m}
    BY <1>t, <1>1, <1>2 DEF Upsert, TypeOK, KeptItems, progress
  <1>5. Handle(r) BY DEF Handle
  <1>6. ASSUME NEW x \in DOMAIN thing, x # m, Clean(x)' PROVE \E w \in Requests : LastWriter(x, w)'
    <2>1. ItemsAt(x)' = ItemsAt(x) BY <1>4, <1>6 DEF ItemsAt
    <2> QED BY <1>3, <1>4, <1>5, <1>6, <2>1, OtherRowsStay
  <1>7. ASSUME Clean(m)' PROVE LastWriter(m, r)'
    <2>1. r \in WritersOf(m)' BY <1>4 DEF WritersOf
    <2>2. pc'[r] \in {"adding-item", "auditing"} BY <1>7, <1>a, <2>1 DEF Clean, Written
    <2>3. r \in UnderWay' BY <2>2 DEF UnderWay, Sent, Ended, Ends
    <2>4. \A q \in WritersOf(m)' \cap UnderWay' : q = r
      BY <1>7, <2>1, <2>3, WriterUnderWay
    <2>5. thing'[m].status = (Entry(r).status)' BY <1>1, <1>3, EntrySays
    <2>6. ItemsAt(m)' = {} BY <1>4 DEF ItemsAt
    <2>7. {<<r, n>> : n \in 1 .. made'[r]} = {} BY <1>4
    <2> QED BY <2>1, <2>2, <2>4, <2>5, <2>6, <2>7 DEF LastWriter
  <1> QED BY <1>3, <1>6, <1>7 DEF WrittenOK

(* An item is added to those of the same request. *)
LEMMA ItemWrites ==
    ASSUME RowInv, [Next]_vars, NEW r \in Requests, AddItem(r)
    PROVE  WrittenOK'
  <1>t. TypeOK /\ WroteOK(r) /\ PlaceOK(r, pc[r]) BY DEF RowInv, ControlInv, PlacesOK
  <1>0. pc[r] = "adding-item" /\ pc'[r] \in {"linking", AfterLinking(r)', "failed"}
    BY <1>t, Places DEF AddItem
  <1>1. OpOf[r] = "report" /\ chosen[r] # {} /\ wrote[r] = chosen[r]
    BY <1>t, <1>0 DEF PlaceOK, WroteOK, Written
  <1>a. pc'[r] \in {"linking", "adding-item", "auditing", "failed"} BY <1>0 DEF AfterLinking
  <1>2. PICK m \in Mahallas : m = At(r) /\ chosen[r] = {m} BY <1>t, <1>1, AtIs
  <1>n. made[r] \in Nat BY <1>t DEF TypeOK
  <1>4. /\ wrote'[r] = {m} /\ made'[r] = made[r] + 1 /\ UNCHANGED <<log, thing, wrote>>
        /\ items' = items \cup {[of |-> m, item |-> <<r, made[r] + 1>>]}
    BY <1>t, <1>1, <1>2 DEF AddItem, TypeOK, noted
  <1>5. Handle(r) BY DEF Handle
  <1>6. ASSUME NEW x \in DOMAIN thing, x # m, Clean(x)' PROVE \E w \in Requests : LastWriter(x, w)'
    <2>1. {j \in items' : j.of = x} = {j \in items : j.of = x} BY <1>4, <1>6
    <2>2. ItemsAt(x)' = ItemsAt(x) BY <2>1 DEF ItemsAt
    <2> QED BY <1>4, <1>5, <1>6, <2>2, OtherRowsStay
  <1>7. ASSUME m \in DOMAIN thing, Clean(m)' PROVE LastWriter(m, r)'
    <2>1. r \in WritersOf(m)' /\ r \in WritersOf(m) BY <1>1, <1>2, <1>4 DEF WritersOf
    <2>2. pc'[r] \in {"linking", "adding-item", "auditing"} BY <1>7, <1>a, <2>1 DEF Clean, Written
    <2>3. r \in UnderWay' /\ r \in UnderWay BY <1>0, <2>2 DEF UnderWay, Sent, Ended, Ends
    <2>4. \A q \in WritersOf(m)' \cap UnderWay' : q = r
      BY <1>7, <2>1, <2>3, WriterUnderWay
    <2>5. Clean(m) BY <1>7, CleanBefore
    <2>6. LastWriter(m, r)
      <3>1. PICK w \in Requests : LastWriter(m, w) BY <1>7, <2>5 DEF RowInv, WrittenOK
      <3>2. w = r BY <2>1, <2>3, <3>1 DEF LastWriter
      <3> QED BY <3>1, <3>2
    <2>7. thing'[m].status = (Entry(r).status)' BY <1>4, <2>6, EntrySays DEF LastWriter
    <2>8. ItemsAt(m)' = ItemsAt(m) \cup {<<r, made[r] + 1>>}
      <3>1. PICK e : e = [of |-> m, item |-> <<r, made[r] + 1>>] OBVIOUS
      <3>2. e.of = m /\ e.item = <<r, made[r] + 1>> BY <3>1
      <3>3. items' = items \cup {e} BY <1>4, <3>1
      <3>4. {j \in items' : j.of = m} = {j \in items : j.of = m} \cup {e} BY <3>2, <3>3
      <3> QED BY <3>2, <3>4 DEF ItemsAt
    <2>9. {<<r, n>> : n \in 1 .. made'[r]} = {<<r, n>> : n \in 1 .. made[r]} \cup {<<r, made[r] + 1>>}
      BY <1>n, <1>4
    <2>10. ItemsAt(m)' = {<<r, n>> : n \in 1 .. made'[r]} BY <2>6, <2>8, <2>9 DEF LastWriter
    <2> QED BY <2>1, <2>2, <2>4, <2>7, <2>10 DEF LastWriter
  <1> QED BY <1>4, <1>6, <1>7 DEF WrittenOK

(* A status is of the last that writes it. *)
LEMMA StatusWrites ==
    ASSUME RowInv, [Next]_vars, NEW r \in Requests, WriteStatus(r)
    PROVE  WrittenOK'
  <1>t. TypeOK /\ WroteOK(r) /\ PlaceOK(r, pc[r]) BY DEF RowInv, ControlInv, PlacesOK
  <1>0. pc[r] = "writing-status" /\ pc'[r] \in {"auditing", "failed"}
    BY <1>t, Places DEF WriteStatus
  <1>1. Changes(r) /\ ThingOf[r] \subseteq DOMAIN thing BY <1>t, <1>0 DEF PlaceOK, WroteOK
  <1>2. PICK y \in Requests : ThingOf[r] = {y} BY <1>1, ContentAssumption DEF Changes
  <1>m. y \notin Mahallas BY ContentAssumption
  <1>3. /\ DOMAIN thing' = DOMAIN thing /\ thing'[y].status = StatusOf[r]
        /\ \A x \in DOMAIN thing : x # y => thing'[x] = thing[x]
    <2>1. thing' = [thing EXCEPT ![y].status = StatusOf[r]] BY <1>2 DEF WriteStatus
    <2>2. thing[y] \in [kind : {"post", "event", "report"}, at : Mahallas, status : Statuses]
      BY <1>t, <1>1, <1>2 DEF TypeOK
    <2> QED BY <1>1, <1>2, <2>1, <2>2
  <1>4. wrote'[r] = {y} /\ UNCHANGED <<log, items>>
    BY <1>t, <1>2 DEF WriteStatus, TypeOK
  <1>5. Handle(r) BY DEF Handle
  <1>6. ASSUME NEW x \in DOMAIN thing, x # y, Clean(x)' PROVE \E w \in Requests : LastWriter(x, w)'
    <2>1. ItemsAt(x)' = ItemsAt(x) BY <1>4 DEF ItemsAt
    <2> QED BY <1>3, <1>4, <1>5, <1>6, <2>1, OtherRowsStay
  <1>7. ASSUME Clean(y)' PROVE LastWriter(y, r)'
    <2>1. r \in WritersOf(y)' BY <1>4 DEF WritersOf
    <2>2. pc'[r] = "auditing" BY <1>7, <1>0, <2>1 DEF Clean, Written
    <2>3. r \in UnderWay' BY <2>2 DEF UnderWay, Sent, Ended, Ends
    <2>4. \A q \in WritersOf(y)' \cap UnderWay' : q = r
      BY <1>7, <2>1, <2>3, WriterUnderWay
    <2>5. thing'[y].status = (Entry(r).status)' BY <1>1, <1>3, EntrySays
    <2> QED BY <1>m, <2>1, <2>2, <2>4, <2>5 DEF LastWriter
  <1> QED BY <1>3, <1>6, <1>7 DEF WrittenOK

(* An entry about the status is the last about what its request wrote. *)
LEMMA AuditWrites ==
    ASSUME RowInv, [Next]_vars, NEW r \in Requests, Audit(r)
    PROVE  WrittenOK'
  <1>t. TypeOK /\ WroteOK(r) BY DEF RowInv
  <1>0. pc[r] = "auditing" /\ r \in UnderWay
    BY <1>t, Places DEF Audit, UnderWay, Sent, Ended, Ends
  <1>1. UNCHANGED <<thing, items, wrote, made>> BY DEF Audit, noted, progress
  <1>5. Handle(r) BY DEF Handle
  <1>6. ASSUME NEW x \in DOMAIN thing, Clean(x)', x \in wrote[r]
        PROVE  LastWriter(x, r)'
    <2>1. r \in WritersOf(x) /\ Clean(x) BY <1>6, CleanBefore DEF WritersOf
    <2>2. LastWriter(x, r)
      <3>1. PICK w \in Requests : LastWriter(x, w) BY <1>6, <2>1 DEF RowInv, WrittenOK
      <3>2. w = r BY <1>0, <2>1, <3>1 DEF LastWriter
      <3> QED BY <3>1, <3>2
    <2>3. wrote[r] = {x} /\ OpOf[r] \notin {"rate", "upload"}
      BY <1>0, <2>1, Writers DEF Written
    <2>4. log' = Append(log, Entry(r)) BY <2>3 DEF Audit, Logged
    <2>5. Entry(r) = [of |-> {x}, status |-> thing'[x].status]
      BY <1>1, <2>2, <2>3, EntryIs DEF LastWriter
    <2>6. Tells(x, thing[x].status)'
      <3>1. log \in Seq([of : SUBSET Names, status : Statuses]) BY <1>t DEF TypeOK
      <3>2. Entry(r) \in [of : SUBSET Names, status : Statuses]
        BY <1>t, EntryIs DEF TypeOK
      <3>3. /\ Len(log) + 1 \in DOMAIN log' /\ log'[Len(log) + 1] = Entry(r)
            /\ \A i \in DOMAIN log' : i <= Len(log) + 1
        <4>1. Len(log) \in Nat BY <3>1
        <4> QED BY <2>4, <3>1, <3>2, <4>1, Appended
      <3> QED BY <2>5, <3>3 DEF Tells
    <2>7. \A q \in WritersOf(x)' \cap UnderWay' : q = r
      <3>1. ASSUME NEW q \in WritersOf(x)' \cap UnderWay', q # r PROVE FALSE
        <4>1. q \in WritersOf(x) /\ pc'[q] = pc[q]
          BY <1>1, <1>5, <1>t, <3>1, OthersStay DEF WritersOf
        <4>2. q \in UnderWay BY <3>1, <4>1 DEF UnderWay, Sent, Ended
        <4> QED BY <2>2, <3>1, <4>1, <4>2 DEF LastWriter
      <3> QED BY <3>1
    <2>8. thing'[x].status = (Entry(r).status)' BY <1>1, <2>2, EntrySays DEF LastWriter
    <2>9. x \in Mahallas => ItemsAt(x)' = {<<r, n>> : n \in 1 .. made'[r]}
      BY <1>1, <2>2 DEF LastWriter, ItemsAt
    <2>10. r \in WritersOf(x)' BY <1>1, <2>1 DEF WritersOf
    <2> QED BY <2>6, <2>7, <2>8, <2>9, <2>10 DEF LastWriter
  <1>7. ASSUME NEW x \in DOMAIN thing, Clean(x)', x \notin wrote[r]
        PROVE  \E w \in Requests : LastWriter(x, w)'
    <2>1. \A status : Tells(x, status) => Tells(x, status)'
      <3>1. CASE UNCHANGED log BY <3>1 DEF Tells
      <3>2. CASE log' = Append(log, Entry(r))
        <4>1. log \in Seq([of : SUBSET Names, status : Statuses]) BY <1>t DEF TypeOK
        <4>2. Entry(r) \in [of : SUBSET Names, status : Statuses]
          BY <1>t, EntryIs DEF TypeOK
        <4>3. Entry(r).of # {x} BY <1>7, EntryIs
        <4>4. /\ \A i \in DOMAIN log : i \in DOMAIN log' /\ log'[i] = log[i]
              /\ log'[Len(log) + 1] = Entry(r)
              /\ \A i \in DOMAIN log' : i \in DOMAIN log \/ i = Len(log) + 1
          BY <3>2, <4>1, <4>2, Appended
        <4> QED BY <4>3, <4>4 DEF Tells
      <3> QED BY <3>1, <3>2 DEF Audit
    <2>2. \A q \in WritersOf(x) :
             /\ q # r /\ made'[q] = made[q]
             /\ pc'[q] \in {"reading-back", "done"} => pc[q] \in {"reading-back", "done"}
      BY <1>1, <1>5, <1>7, <1>t, OthersStay DEF WritersOf
    <2>3. WritersOf(x)' \subseteq WritersOf(x) /\ ItemsAt(x)' = ItemsAt(x) /\ thing'[x] = thing[x]
      BY <1>1 DEF WritersOf, ItemsAt
    <2> QED BY <1>7, <2>1, <2>2, <2>3, LastStays
  <1> QED BY <1>1, <1>6, <1>7 DEF WrittenOK

(* What was written in turn is of its last writer after every step. *)
LEMMA WrittenStep ==
    ASSUME RowInv, [Next]_vars
    PROVE  WrittenOK'
  <1>t. TypeOK /\ \A r \in Requests : WroteOK(r) /\ PlaceOK(r, pc[r])
    BY DEF RowInv, ControlInv, PlacesOK
  <1> USE DEF rows, progress, noted
  <1>h. ASSUME NEW r \in Requests, Handle(r), UNCHANGED <<thing, items, log, wrote, made>>,
               wrote[r] = {} \/ pc'[r] \notin {"reading-back", "done"} \/ pc[r] = "reading-back"
        PROVE  WrittenOK'
    <2>1. \A q \in Requests : q # r => pc'[q] = pc[q] BY <1>h, <1>t, OthersStay
    <2>2. \A q \in Requests : wrote[q] # {} /\ pc'[q] \in {"reading-back", "done"}
                                 => pc[q] \in {"reading-back", "done"}
      BY <1>h, <2>1
    <2> QED BY <1>h, <2>2, WrittenStays
  <1>u. \A r \in Requests : pc[r] \in Unwritten => wrote[r] = {} BY <1>t DEF WroteOK
  <1>1. ASSUME NEW r \in Requests, Handle(r) PROVE WrittenOK'
    <2>1. CASE Call(r) \/ ReadActor(r) \/ ReadThing(r) \/ ReadReport(r) \/ Rate(r) \/ StoreFile(r)
                 \/ List(r)
      <3>1. pc[r] \in Unwritten
        BY <2>1 DEF Call, Arrive, ReadActor, ReadThing, ReadReport, Rate, StoreFile, List, Step,
           Resolve, Unwritten
      <3>2. UNCHANGED <<thing, items, log, wrote, made>>
        BY <2>1 DEF Call, ReadActor, ReadThing, ReadReport, Rate, StoreFile, List
      <3> QED BY <1>1, <1>h, <1>u, <3>1, <3>2
    <2>2. CASE Link(r)
      <3>1. pc'[r] \in {"adding-item", "auditing", "failed"}
        BY <1>t, <2>2, Places DEF Link, AfterLinking
      <3> QED BY <1>1, <1>h, <2>2, <3>1 DEF Link
    <2>3. CASE ReadBack(r)
      BY <1>1, <1>h, <2>3 DEF ReadBack, Step
    <2>4. CASE Fail(r)
      <3>1. pc'[r] = "failed" BY <1>t, <2>4 DEF Fail, Reject, Goto, TypeOK, ControlOK
      <3> QED BY <1>1, <1>h, <2>4, <3>1 DEF Fail
    <2> QED
      BY <1>1, <2>1, <2>2, <2>3, <2>4, CreateWrites, UpsertWrites, ItemWrites, StatusWrites,
         AuditWrites DEF Handle
  <1>2. CASE Crash
    <2>1. \A q \in Requests : pc'[q] \in {"lost", pc[q]} BY <1>2 DEF Crash, Die
    <2> QED BY <1>2, <2>1, WrittenStays DEF Crash
  <1>3. CASE (\E u \in Users : Move(u)) \/ UNCHANGED vars
    BY <1>3, WrittenStays DEF Move, vars, control
  <1> QED BY <1>1, <1>2, <1>3 DEF Next
-----------------------------------------------------------------------------
(* What is published stays in its mahalla, and of its kind. *)
LEMMA AtStays ==
    ASSUME RowInv, [Next]_vars, NEW x \in DOMAIN thing
    PROVE  x \in DOMAIN thing' /\ thing'[x].at = thing[x].at
  <1>t. TypeOK /\ RowsOK /\ RowsOK' BY RowsStep DEF RowInv
  <1>d. x \in DOMAIN thing' BY ThingsStay
  <1>1. CASE x \in Mahallas BY <1>d, <1>t, <1>1 DEF RowsOK
  <1>2. CASE x \notin Mahallas
    <2>1. pc[x] \notin Unwritten BY <1>t, <1>2 DEF RowsOK
    <2>2. ASSUME NEW r \in Requests, Create(r) PROVE thing'[x].at = thing[x].at
      <3>1. pc[r] = "creating" BY <1>t, <2>2, Places DEF Create
      <3>2. x # r BY <2>1, <3>1 DEF Unwritten
      <3> QED BY <2>2, <3>2 DEF Create, Put
    <2>3. ASSUME NEW r \in Requests, Upsert(r) PROVE thing'[x].at = thing[x].at
      <3>1. pc[r] = "upserting" BY <1>t, <2>3, Places DEF Upsert
      <3>2. At(r) \in Mahallas BY <1>t, <3>1, AtIs DEF RowInv, WroteOK
      <3> QED BY <1>2, <2>3, <3>2 DEF Upsert, Put
    <2>4. ASSUME NEW r \in Requests, WriteStatus(r) PROVE thing'[x].at = thing[x].at
      <3>1. PICK y : thing' = [thing EXCEPT ![y].status = StatusOf[r]]
        BY <2>4 DEF WriteStatus
      <3>2. thing[x] \in [kind : {"post", "event", "report"}, at : Mahallas, status : Statuses]
        BY <1>t DEF TypeOK
      <3>3. thing'[x] = thing[x] \/ thing'[x] = [thing[x] EXCEPT !.status = StatusOf[r]]
        BY <3>1
      <3> QED BY <3>2, <3>3
    <2> QED
      BY <1>d, <2>2, <2>3, <2>4 DEF Next, Handle, Call, ReadActor, AddItem, Link, ReadThing,
         ReadReport, Rate, StoreFile, List, Audit, ReadBack, Fail, Crash, Move, vars, rows
  <1> QED BY <1>1, <1>2

(* Only calls, and moves of its user, change what a request notes of homes. *)
LEMMA HomesStay ==
    ASSUME TypeOK, NEW r \in Requests, pc[r] # "unsent", [Next]_vars
    PROVE  /\ homes[r] \subseteq homes'[r]
           /\ pc[r] \in Waits /\ home[ActorOf[r]] \in homes[r] => home'[ActorOf[r]] \in homes'[r]
  <1> USE DEF rows, progress, noted
  <1>1. ASSUME NEW q \in Requests, Handle(q) PROVE home' = home /\ homes'[r] = homes[r]
    <2>1. home' = home
      BY <1>1 DEF Handle, Call, ReadActor, Create, Upsert, AddItem, Link, ReadThing, WriteStatus,
         ReadReport, Rate, StoreFile, List, Audit, ReadBack, Fail
    <2>2. q # r => homes'[r] = homes[r] BY <1>1, OthersStay
    <2>3. q = r => homes'[r] = homes[r]
      BY <1>1 DEF Handle, Call, Arrive, ReadActor, Create, Upsert, AddItem, Link, ReadThing,
         WriteStatus, ReadReport, Rate, StoreFile, List, Audit, ReadBack, Fail
    <2> QED BY <2>1, <2>2, <2>3
  <1>2. ASSUME NEW u \in Users, Move(u)
        PROVE  /\ homes[r] \subseteq homes'[r]
               /\ pc[r] \in Waits /\ home[ActorOf[r]] \in homes[r]
                     => home'[ActorOf[r]] \in homes'[r]
    <2>1. pc[r] \in Waits => r \in UnderWay BY DEF Waits, UnderWay, Sent, Ended, Ends
    <2>2. \A v \in Users : v # u => home'[v] = home[v] BY <1>2 DEF Move, TypeOK
    <2>3. ActorOf[r] \in Users BY ContentAssumption
    <2> QED BY <1>2, <2>1, <2>2, <2>3 DEF Move
  <1>3. CASE Crash \/ UNCHANGED vars BY <1>3 DEF Crash, vars
  <1> QED BY <1>1, <1>2, <1>3 DEF Next

(* Readers are answered of what their mahalla was. *)
LEMMA ViewStep ==
    ASSUME RowInv, ViewInv, ViewsAreOfHome, [Next]_vars
    PROVE  ViewInv' /\ ViewsAreOfHome'
  <1>t. TypeOK /\ RowsOK /\ \A r \in Requests : PlaceOK(r, pc[r])
    BY DEF RowInv, ControlInv, PlacesOK
  <1>c. ContentKept BY Control DEF RowInv
  <1> USE DEF progress, noted
  <1> SUFFICES ASSUME NEW r \in Requests, Lists(r), ~Governs(r)
               PROVE  /\ pc'[r] \in Waits => home'[ActorOf[r]] \in homes'[r]
                      /\ pc'[r] = "listing" => \E h \in homes'[r] : chosen'[r] = Narrowed(r, h)
                      /\ pc'[r] = "unsent" => view'[r] = {}
                      /\ (Kind(r) = "post" => {} \notin homes'[r])
                            => \A x \in view'[r] : thing'[x].at \in UNION homes'[r]
    BY DEF ViewInv, ViewsAreOfHome
  <1> DEFINE InHome == (Kind(r) = "post" => {} \notin homes[r])
                          => \A x \in view[r] : thing[x].at \in UNION homes[r]
  <1>i. /\ pc[r] \in Waits => home[ActorOf[r]] \in homes[r]
        /\ pc[r] = "listing" => \E h \in homes[r] : chosen[r] = Narrowed(r, h)
        /\ pc[r] = "unsent" => view[r] = {}
        /\ InHome
    BY DEF ViewInv, ViewsAreOfHome
  <1>w. \A p \in Waits : p # "unsent" /\ p \notin Ends BY DEF Waits, Ends
  <1>e. pc[r] \in {"unsent"} \cup Waits \cup Ends BY <1>t DEF TypeOK, ControlOK
  <1>n. pc[r] # "unsent" => pc'[r] # "unsent" /\ (pc[r] \in Ends => pc'[r] \in Ends)
    BY <1>c DEF ContentKept, Kept, Onward, Sent, Ended
  <1>a. \A x \in view[r] : thing'[x].at = thing[x].at BY <1>t, AtStays DEF RowsOK
  <1>v. ASSUME pc[r] # "unsent", view'[r] = view[r] PROVE InHome'
    <2>1. homes[r] \subseteq homes'[r] BY <1>t, <1>v, HomesStay
    <2> QED BY <1>a, <1>i, <1>v, <2>1
  <1>1. CASE Call(r)
    <2>1. /\ pc[r] = "unsent" /\ homes'[r] = {home[ActorOf[r]]} /\ UNCHANGED <<home, view>>
          /\ pc'[r] = "reading-actor"
      <3>1. ~Creates(r) /\ ~Changes(r) /\ OpOf[r] \notin {"rate", "upload"}
        BY DEF Lists, Creates, Changes
      <3> QED BY <1>1, <1>t, <3>1 DEF Call, Arrive, Goto, TypeOK, ControlOK
    <2> QED BY <1>i, <2>1
  <1>2. CASE ReadActor(r)
    <2>1. /\ pc[r] = "reading-actor" /\ pc'[r] \in {"listing", "refused"}
          /\ UNCHANGED <<home, homes, view>> /\ chosen'[r] = Narrowed(r, home[ActorOf[r]])
      BY <1>2, <1>t DEF ReadActor, Step, Goto, TypeOK, ControlOK
    <2>2. home[ActorOf[r]] \in homes[r] BY <1>i, <2>1 DEF Waits
    <2>3. InHome' BY <1>v, <2>1
    <2> QED BY <2>1, <2>2, <2>3
  <1>3. CASE List(r)
    <2>1. /\ pc[r] = "listing" /\ pc'[r] = "done" /\ UNCHANGED <<home, homes, chosen, thing>>
          /\ view'[r] = {x \in DOMAIN thing : Shown(r, x)}
      BY <1>3, <1>t DEF List, Step, Goto, rows, TypeOK, ControlOK
    <2>2. PICK h \in homes[r] : chosen[r] = Narrowed(r, h) BY <1>i, <2>1
    <2>3. ASSUME Kind(r) = "post" => {} \notin homes[r], NEW x \in view'[r]
          PROVE  thing[x].at \in UNION homes[r]
      <3>1. Shown(r, x) BY <2>1, <2>3
      <3>2. chosen[r] = h /\ (Kind(r) = "post" => h # {}) BY <2>2, <2>3 DEF Narrowed
      <3>3. thing[x].at \in h BY <3>1, <3>2 DEF Shown
      <3> QED BY <3>3
    <2>4. pc'[r] \notin Waits BY <2>1 DEF Waits
    <2> QED BY <2>1, <2>3, <2>4
  <1>4. ASSUME pc[r] # "unsent", chosen'[r] = chosen[r], view'[r] = view[r],
               pc'[r] = "listing" => pc[r] = "listing"
        PROVE  /\ pc'[r] \in Waits => home'[ActorOf[r]] \in homes'[r]
               /\ pc'[r] = "listing" => \E h \in homes'[r] : chosen'[r] = Narrowed(r, h)
               /\ pc'[r] # "unsent" /\ InHome'
    <2>1. /\ homes[r] \subseteq homes'[r]
          /\ pc[r] \in Waits /\ home[ActorOf[r]] \in homes[r] => home'[ActorOf[r]] \in homes'[r]
      BY <1>4, <1>t, HomesStay
    <2>2. pc'[r] \in Waits => pc[r] \in Waits BY <1>e, <1>n, <1>w, <1>4
    <2> QED BY <1>i, <1>n, <1>v, <1>4, <2>1, <2>2
  <1>5. ASSUME pc[r] = "unsent", pc'[r] = "unsent", view'[r] = view[r]
        PROVE  pc'[r] \notin Waits /\ view'[r] = {}
    BY <1>i, <1>w, <1>5
  <1>6. ASSUME pc'[r] = pc[r], chosen'[r] = chosen[r], view'[r] = view[r]
        PROVE  /\ pc'[r] \in Waits => home'[ActorOf[r]] \in homes'[r]
               /\ pc'[r] = "listing" => \E h \in homes'[r] : chosen'[r] = Narrowed(r, h)
               /\ pc'[r] = "unsent" => view'[r] = {}
               /\ InHome'
    BY <1>4, <1>5, <1>6
  <1>7. CASE Fail(r)
    <2>1. pc[r] # "unsent" /\ pc'[r] = "failed" /\ UNCHANGED <<chosen, view>>
      BY <1>7, <1>t DEF Fail, Reject, Goto, UnderWay, Sent, TypeOK, ControlOK
    <2> QED BY <1>4, <2>1
  <1>8. CASE Crash
    <2>1. UNCHANGED <<chosen, view>> /\ (pc'[r] = pc[r] \/ (pc[r] # "unsent" /\ pc'[r] = "lost"))
      BY <1>8 DEF Crash, Die, UnderWay, Sent
    <2> QED BY <1>4, <1>6, <2>1
  <1>9. CASE (\E u \in Users : Move(u)) \/ UNCHANGED vars
    BY <1>6, <1>9 DEF Move, vars, control
  <1>10. ASSUME NEW q \in Requests, Handle(q), q # r
         PROVE  pc'[r] = pc[r] /\ chosen'[r] = chosen[r] /\ view'[r] = view[r]
    BY <1>t, <1>10, OthersStay
  <1>11. Handle(r) => Call(r) \/ ReadActor(r) \/ List(r) \/ Fail(r)
    <2>1. pc[r] \in {"creating", "upserting", "adding-item", "linking", "reading-thing", "writing-status",
              "reading-report", "rating", "storing-file", "auditing", "reading-back"} => FALSE
      BY <1>t DEF PlaceOK, Lists, Creates, Changes
    <2> QED
      BY <2>1 DEF Handle, Create, Upsert, AddItem, Link, ReadThing, WriteStatus, ReadReport, Rate,
         StoreFile, Audit, ReadBack, Step, Resolve
  <1> QED
    BY <1>1, <1>2, <1>3, <1>6, <1>7, <1>8, <1>9, <1>10, <1>11 DEF Next

(* What is submitted becomes so by a report, which the requests note. *)
LEMMA SubmittedStays ==
    ASSUME RowInv, [Next]_vars
    PROVE  NoteSubmitted \/ (SubmittedNow' \subseteq SubmittedNow /\ UNCHANGED submitted)
  <1>t. TypeOK /\ RowsOK /\ \A r \in Requests : WroteOK(r) /\ PlaceOK(r, pc[r])
    BY DEF RowInv, ControlInv, PlacesOK
  <1> USE DEF rows, noted
  <1>1. ASSUME NEW r \in Requests, Create(r) PROVE SubmittedNow' \subseteq SubmittedNow
    <2>1. pc[r] = "creating" BY <1>t, <1>1, Places DEF Create
    <2>2. OpOf[r] \in {"post", "event"} BY <1>t, <2>1 DEF PlaceOK
    <2>3. Kind(r) # "report" BY <2>2 DEF Kind
    <2>4. /\ DOMAIN thing' = DOMAIN thing \cup {r} /\ thing'[r].kind = Kind(r)
          /\ \A x \in DOMAIN thing : x # r => thing'[x] = thing[x]
      BY <1>1 DEF Create, Put
    <2> QED BY <2>3, <2>4 DEF SubmittedNow
  <1>2. ASSUME NEW r \in Requests, WriteStatus(r) PROVE SubmittedNow' \subseteq SubmittedNow
    <2>1. pc[r] = "writing-status" BY <1>t, <1>2, Places DEF WriteStatus
    <2>2. Changes(r) /\ ThingOf[r] \subseteq DOMAIN thing BY <1>t, <2>1 DEF PlaceOK, WroteOK
    <2>3. PICK y \in Requests : ThingOf[r] = {y} BY <2>2, ContentAssumption DEF Changes
    <2>4. y \in DOMAIN thing /\ thing[y].kind # "report"
      BY <1>t, <2>2, <2>3, ContentAssumption DEF RowsOK
    <2>5. thing' = [thing EXCEPT ![y].status = StatusOf[r]] BY <1>2, <2>3 DEF WriteStatus
    <2>6. thing[y] \in [kind : {"post", "event", "report"}, at : Mahallas, status : Statuses]
      BY <1>t, <2>4 DEF TypeOK
    <2>7. DOMAIN thing' = DOMAIN thing /\ thing'[y].kind = thing[y].kind
          /\ \A x \in DOMAIN thing : x # y => thing'[x] = thing[x]
      BY <2>4, <2>5, <2>6
    <2> QED BY <2>4, <2>7 DEF SubmittedNow
  <1>3. UNCHANGED thing => SubmittedNow' = SubmittedNow BY DEF SubmittedNow
  <1>4. ASSUME NEW r \in Requests, Handle(r)
        PROVE  NoteSubmitted \/ (SubmittedNow' \subseteq SubmittedNow /\ UNCHANGED submitted)
    BY <1>1, <1>2, <1>3, <1>4 DEF Handle, Call, ReadActor, Create, Upsert, AddItem, Link, ReadThing,
       WriteStatus, ReadReport, Rate, StoreFile, List, Audit, ReadBack, Fail
  <1>5. CASE Crash \/ (\E u \in Users : Move(u)) \/ UNCHANGED vars
    BY <1>3, <1>5 DEF Crash, Move, vars
  <1> QED BY <1>4, <1>5 DEF Next

(* What is rated was submitted meanwhile, after every step. *)
LEMMA RateStep ==
    ASSUME RowInv, RateInv, RatedWasSubmitted, [Next]_vars
    PROVE  RateInv' /\ RatedWasSubmitted'
  <1>t. TypeOK /\ \A r \in Requests : PlaceOK(r, pc[r]) BY DEF RowInv, ControlInv, PlacesOK
  <1>m. \A r \in Requests : submitted[r] \subseteq submitted'[r]
    <2>1. CASE NoteSubmitted BY <2>1 DEF NoteSubmitted
    <2>2. CASE UNCHANGED submitted BY <2>2
    <2> QED BY <2>1, <2>2, SubmittedStays
  <1>1. ASSUME NEW r \in UnderWay' PROVE SubmittedNow' \subseteq submitted'[r]
    <2>1. r \in Requests BY <1>1 DEF UnderWay, Sent
    <2>2. CASE NoteSubmitted BY <1>1, <2>1, <2>2 DEF NoteSubmitted, UnderWay
    <2>3. CASE SubmittedNow' \subseteq SubmittedNow /\ UNCHANGED submitted /\ r \in UnderWay
      BY <2>3 DEF RateInv
    <2>4. CASE r \notin UnderWay
      <3>1. r \notin Ended
        <4>1. ContentKept BY Control DEF RowInv
        <4> QED BY <1>1, <4>1 DEF ContentKept, Kept, Onward, UnderWay, Ended
      <3>2. pc[r] = "unsent" /\ pc'[r] # "unsent" BY <1>1, <2>1, <2>4, <3>1 DEF UnderWay, Sent
      <3>3. ASSUME NEW q \in Requests, Handle(q) PROVE Call(q)
        <4>1. q = r BY <1>t, <2>1, <3>2, <3>3, OthersStay
        <4> QED
          BY <3>2, <3>3, <4>1 DEF Handle, ReadActor, Create, Upsert, AddItem, Link, ReadThing,
             WriteStatus, ReadReport, Rate, StoreFile, List, Audit, ReadBack, Fail, Step, Resolve,
             Reject, UnderWay, Sent
      <3>4. ~Crash /\ ~(\E u \in Users : Move(u)) /\ ~UNCHANGED vars
        BY <2>1, <2>4, <3>2 DEF Crash, Die, Move, vars, control
      <3>5. NoteSubmitted BY <3>3, <3>4 DEF Next, Call
      <3> QED BY <2>2, <3>5
    <2> QED BY <2>2, <2>3, <2>4, SubmittedStays
  <1>2. ASSUME NEW r \in Requests, pc'[r] = "rating" PROVE ThingOf[r] \subseteq submitted'[r]
    <2>1. CASE pc[r] = "rating" BY <1>m, <2>1 DEF RateInv
    <2>2. CASE ReadReport(r)
      <3>1. pc[r] = "reading-report" /\ Ratable(r)
        BY <1>2, <1>t, <2>2 DEF ReadReport, Step, Goto, TypeOK, ControlOK
      <3>2. r \in UnderWay BY <3>1 DEF UnderWay, Sent, Ended, Ends
      <3> QED BY <1>m, <3>1, <3>2 DEF RateInv, Ratable
    <2>3. ASSUME NEW q \in Requests, Handle(q), q # r PROVE pc[r] = "rating"
      BY <1>2, <1>t, <2>3, OthersStay
    <2>4. ASSUME Handle(r), ~ReadReport(r) PROVE FALSE
      <3>1. CASE Call(r)
        BY <1>2, <1>t, <3>1, ContentAssumption DEF Call, Arrive, Goto, TypeOK, ControlOK, Creates,
           Changes, Lists
      <3>2. CASE ReadActor(r) BY <1>2, <1>t, <3>2 DEF ReadActor, Step, Goto, TypeOK, ControlOK
      <3>3. CASE Create(r) \/ Upsert(r) \/ Link(r)
        BY <1>2, <1>t, <3>3, Places DEF Create, Upsert, Link, AfterLinking
      <3>4. CASE AddItem(r) BY <1>2, <1>t, <3>4, Places DEF AddItem, AfterLinking
      <3>5. CASE ReadThing(r) \/ WriteStatus(r) \/ Rate(r) \/ StoreFile(r)
        BY <1>2, <1>t, <3>5, Places DEF ReadThing, WriteStatus, Rate, StoreFile
      <3>6. CASE List(r) \/ Audit(r) \/ ReadBack(r)
        BY <1>2, <1>t, <3>6, Places DEF List, Audit, ReadBack
      <3>7. CASE Fail(r) BY <1>2, <1>t, <3>7 DEF Fail, Reject, Goto, TypeOK, ControlOK
      <3> QED BY <2>4, <3>1, <3>2, <3>3, <3>4, <3>5, <3>6, <3>7 DEF Handle
    <2>5. Crash \/ (\E u \in Users : Move(u)) \/ UNCHANGED vars => pc[r] = "rating"
      BY <1>2 DEF Crash, Die, Move, vars, control
    <2> QED BY <2>1, <2>2, <2>3, <2>4, <2>5 DEF Next
  <1>3. ASSUME NEW q \in ratings' PROVE q.row.of \subseteq submitted'[q.req]
    <2>1. CASE q \in ratings BY <1>m, <1>t, <2>1 DEF RatedWasSubmitted, TypeOK
    <2>2. ASSUME NEW r \in Requests, Rate(r), q \notin ratings
          PROVE  q.row.of \subseteq submitted'[q.req]
      <3>1. pc[r] = "rating" BY <1>t, <2>2, Places DEF Rate
      <3>2. q = [row |-> [by |-> ActorOf[r], of |-> ThingOf[r]], req |-> r]
        BY <1>3, <2>2 DEF Rate
      <3>3. q.row.of = ThingOf[r] /\ q.req = r BY <3>2
      <3>4. ThingOf[r] \subseteq submitted[r] BY <3>1 DEF RateInv
      <3> QED BY <1>m, <3>3, <3>4
    <2>3. q \in ratings \/ \E r \in Requests : Rate(r)
      BY <1>3 DEF Next, Handle, Call, ReadActor, Create, Upsert, AddItem, Link, ReadThing,
         WriteStatus, ReadReport, StoreFile, List, Audit, ReadBack, Fail, Crash, Move, vars, rows
    <2> QED BY <2>1, <2>2, <2>3
  <1> QED BY <1>1, <1>2, <1>3 DEF RateInv, RatedWasSubmitted
-----------------------------------------------------------------------------
(* At first nothing is published. *)
LEMMA StartsEmpty ==
    ASSUME Init
    PROVE  /\ RowInv /\ ViewInv /\ RateInv /\ ViewsAreOfHome /\ RatedWasSubmitted
  <1>c. ControlOK(Waits) /\ Past BY ControlStarts DEF Init
  <1>p. \A r \in Requests : pc[r] = "unsent" BY DEF Init, ControlInit
  <1>1. TypeOK
    <2>1. \A S : {} \in Optional(S) BY DEF Optional
    <2>2. <<>> \in Seq([of : SUBSET Names, status : Statuses]) OBVIOUS
    <2>3. thing = [x \in {} |-> {}] /\ files = [x \in {} |-> {}] BY DEF Init
    <2>4. DOMAIN thing = {} /\ DOMAIN files = {} BY <2>3
    <2>5. /\ thing \in [DOMAIN thing -> [kind : {"post", "event", "report"}, at : Mahallas,
                                         status : Statuses]]
          /\ files \in [DOMAIN files -> Optional(Requests \X Nat)]
      BY <2>3, <2>4
    <2>6. home \in [Users -> Optional(Mahallas)] BY ContentAssumption DEF Init
    <2>7. moves \in 0 .. MaxMoves BY ContentAssumption DEF Init
    <2> QED BY <1>c, <2>1, <2>2, <2>4, <2>5, <2>6, <2>7 DEF TypeOK, Init
  <1>2. ControlInv BY <1>c, <1>p DEF ControlInv, PlacesOK, PlaceOK
  <1>3. \A r \in Requests : WroteOK(r) BY <1>p DEF Init, WroteOK, Unwritten, Written
  <1>4. RowsOK /\ WrittenOK BY DEF Init, RowsOK, WrittenOK
  <1>5. ViewInv /\ ViewsAreOfHome BY <1>p DEF Init, ViewInv, ViewsAreOfHome, Waits
  <1>6. RateInv /\ RatedWasSubmitted
    BY <1>p DEF Init, RateInv, RatedWasSubmitted, UnderWay, Sent
  <1> QED BY <1>1, <1>2, <1>3, <1>4, <1>5, <1>6 DEF RowInv

(* Every step keeps the rows, and what is known of them. *)
LEMMA RowStep ==
    ASSUME RowInv, [Next]_vars
    PROVE  RowInv'
  BY Control, TypeStep, WroteStep, RowsStep, WrittenStep DEF RowInv, ControlInv, ContentKept, Kept

(* The rows and variables of the handlers of Content have their types. *)
THEOREM ContentTyped == Spec => []TypeOK
  <1>1. RowInv => TypeOK BY DEF RowInv
  <1> QED BY <1>1, StartsEmpty, RowStep, PTL DEF Spec

(* However many create or replace the report of a mahalla and month: when  *)
(* they came in turn and ended well, its status and its items are those of *)
(* one of them.                                                            *)
THEOREM ReportsAreWhole == Spec => []ReportIsWhole
  <1>1. RowInv => ReportIsWhole
    <2> SUFFICES ASSUME RowInv, NEW x \in DOMAIN thing, thing[x].kind = "report", WrittenInTurn(x)
                 PROVE  \E r \in WritersOf(x) :
                            /\ thing[x].status = StatusOf[r]
                            /\ ItemsAt(x) = {<<r, n>> : n \in 1 .. ItemsOf[r]}
      BY DEF ReportIsWhole, ItemsAt
    <2>1. Clean(x) BY DEF WrittenInTurn, Clean, Written
    <2>2. PICK w \in WritersOf(x) : LastWriter(x, w)
      BY <2>1 DEF RowInv, WrittenOK, LastWriter
    <2>3. x \in Mahallas BY DEF RowInv, RowsOK
    <2>4. pc[w] = "done" /\ w \in Requests BY DEF WrittenInTurn, WritersOf
    <2>5. OpOf[w] = "report" BY <2>3, <2>4, Writers DEF Written
    <2>6. made[w] = ItemsOf[w] BY <2>4, <2>5 DEF RowInv, WroteOK, Written
    <2> QED BY <2>2, <2>3, <2>4, <2>5, <2>6, EntrySays DEF LastWriter
  <1> QED BY <1>1, StartsEmpty, RowStep, PTL DEF Spec

(* The trail of what came in turn ends with an entry of the status it has. *)
THEOREM AuditsTellStatus == Spec => []AuditTellsStatus
  <1>1. RowInv => AuditTellsStatus
    <2> SUFFICES ASSUME RowInv, NEW x \in DOMAIN thing, WrittenInTurn(x)
                 PROVE  Tells(x, thing[x].status)
      BY DEF AuditTellsStatus, Tells
    <2>1. Clean(x) BY DEF WrittenInTurn, Clean, Written
    <2>2. PICK w \in WritersOf(x) : LastWriter(x, w)
      BY <2>1 DEF RowInv, WrittenOK, LastWriter
    <2> QED BY <2>2 DEF WrittenInTurn, LastWriter
  <1> QED BY <1>1, StartsEmpty, RowStep, PTL DEF Spec

(* Residents and staff are listed what is of a mahalla that was theirs     *)
(* while they asked, wherever they move.                                   *)
THEOREM ViewsOfHome == Spec => []ViewsAreOfHome
  <1>1. RowInv /\ ViewInv /\ ViewsAreOfHome /\ [Next]_vars
           => RowInv' /\ ViewInv' /\ ViewsAreOfHome'
    BY RowStep, ViewStep
  <1> QED BY <1>1, StartsEmpty, PTL DEF Spec

(* Nobody rates a report that was a draft all the while.                   *)
THEOREM RatedSubmitted == Spec => []RatedWasSubmitted
  <1>1. RowInv /\ RateInv /\ RatedWasSubmitted /\ [Next]_vars
           => RowInv' /\ RateInv' /\ RatedWasSubmitted'
    BY RowStep, RateStep
  <1> QED BY <1>1, StartsEmpty, PTL DEF Spec
=============================================================================
