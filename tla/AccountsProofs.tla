--------------------------- MODULE AccountsProofs ---------------------------
(***************************************************************************)
(* The invariants of Accounts for any requests and any number of faults:   *)
(* rows of tokens are spent once, a removed user is signed out, a removed  *)
(* mahalla is empty, exactly the staff have profiles, and what updates     *)
(* asked for stands, up to requests that overlapped or failed.  At the     *)
(* end, those of Locations and LocationForm, which serve the registration  *)
(* of a user: the suggestions are complete, and what is selected is what   *)
(* was typed.                                                              *)
(***************************************************************************)
EXTENDS Accounts, LocationForm, FiniteSetTheorems, TLAPS

(***************************************************************************)
(* What the steps of Handlers keep.                                        *)
(***************************************************************************)
(* A request is made. *)
LEMMA ArriveKeeps ==
    ASSUME NEW W, ControlOK(W), Past,
           NEW r \in Requests, NEW p \in W \cup Ends, p # "unsent", Arrive(r, p)
    PROVE  Kept(W)
  BY DEF Kept, ControlOK, Past, Onward, Arrive, Goto, Sent, Ended, Ends

(* An await resolves. *)
LEMMA StepKeeps ==
    ASSUME NEW W, ControlOK(W), Past, W \cap Ends = {},
           NEW r \in Requests, NEW p \in W, NEW q \in W \cup Ends, q # "unsent",
           Step(r, p, q)
    PROVE  Kept(W)
  BY DEF Kept, ControlOK, Past, Onward, Step, Goto, Sent, Ended, Ends

(* A write resolves, or is rejected having taken effect. *)
LEMMA ResolveKeeps ==
    ASSUME NEW W, ControlOK(W), Past, W \cap Ends = {},
           NEW r \in Requests, NEW p \in W, NEW q \in W \cup Ends, q # "unsent",
           Resolve(r, p, q)
    PROVE  Kept(W)
  <1>1. CASE Step(r, p, q) BY <1>1, StepKeeps
  <1>2. CASE pc[r] = p /\ Goto(r, "failed") /\ Fault /\ UNCHANGED before
    BY <1>2, FaultsAssumption DEF Kept, ControlOK, Past, Onward, Goto, Fault, Sent, Ended, Ends
  <1> QED BY <1>1, <1>2 DEF Resolve

(* A call is rejected. *)
LEMMA RejectKeeps ==
    ASSUME NEW W, ControlOK(W), Past, NEW r \in Requests, Reject(r)
    PROVE  Kept(W)
  BY FaultsAssumption DEF Kept, ControlOK, Past, Onward, Reject, Goto, Fault, UnderWay, Sent, Ended, Ends

(* The process dies. *)
LEMMA DieKeeps ==
    ASSUME NEW W, ControlOK(W), Past, Die
    PROVE  Kept(W)
  BY FaultsAssumption DEF Kept, ControlOK, Past, Onward, Die, Fault, UnderWay, Sent, Ended, Ends

(* Nothing happens to any request. *)
LEMMA NothingKeeps ==
    ASSUME NEW W, ControlOK(W), Past, UNCHANGED control
    PROVE  Kept(W)
  BY DEF Kept, ControlOK, Past, Onward, control, Sent, Ended

(* Two requests under way overlap. *)
LEMMA UnderWayOverlap ==
    ASSUME Past, NEW q \in UnderWay, NEW r \in UnderWay
    PROVE  Overlap(q, r)
  BY DEF Past, Overlap, UnderWay, Sent, Ended

(* The order of requests made stays as it is. *)
LEMMA OverlapStays ==
    ASSUME Onward, NEW q \in Sent, NEW r \in Sent
    PROVE  Overlap(q, r)' <=> Overlap(q, r)
  BY DEF Onward, Overlap

(* At first nobody has been before anybody. *)
LEMMA ControlStarts ==
    ASSUME NEW W, ControlInit
    PROVE  ControlOK(W) /\ Past
  BY FaultsAssumption DEF ControlInit, ControlOK, Past, Ended
-----------------------------------------------------------------------------

Waits == UserWaits \cup MahallaWaits

ControlInv == ControlOK(Waits) /\ Past

(* Every step keeps what Handlers keeps. *)
LEMMA Control ==
    ASSUME ControlInv, [Next]_vars
    PROVE  Kept(Waits)
  <1> USE DEF ControlInv
  <1>a. /\ \A p \in Waits : p # "unsent" /\ p \notin Ends
        /\ \A p \in Ends : p # "unsent"
        /\ Waits \cap Ends = {}
    BY DEF Waits, UserWaits, MahallaWaits, Ends
  <1>b. ASSUME NEW r \in Requests, NEW p \in Waits, NEW q \in Waits \cup Ends,
               Step(r, p, q) \/ Resolve(r, p, q)
        PROVE  Kept(Waits)
    BY <1>a, <1>b, StepKeeps, ResolveKeeps
  <1>c. ASSUME NEW r \in Requests, NEW p \in Waits \cup Ends, Arrive(r, p)
        PROVE  Kept(Waits)
    BY <1>a, <1>c, ArriveKeeps
  <1> USE DEF Waits, UserWaits, MahallaWaits, Ends
  <1>1. ASSUME NEW r \in Requests, CallUser(r) PROVE Kept(Waits)
    BY <1>1, <1>c DEF CallUser
  <1>2. ASSUME NEW r \in Requests, CheckMahalla(r) PROVE Kept(Waits)
    BY <1>2, <1>b DEF CheckMahalla
  <1>3. ASSUME NEW r \in Requests, CheckPhone(r) PROVE Kept(Waits)
    BY <1>3, <1>b DEF CheckPhone, Placing
  <1>4. ASSUME NEW r \in Requests, InsertUser(r) PROVE Kept(Waits)
    BY <1>4, <1>b DEF InsertUser, WriteUser, Answer
  <1>5. ASSUME NEW r \in Requests, CreateProfile(r) PROVE Kept(Waits)
    BY <1>5, <1>b DEF CreateProfile, Answer
  <1>6. ASSUME NEW r \in Requests, ReadTarget(r) PROVE Kept(Waits)
    BY <1>6, <1>b DEF ReadTarget, Placing
  <1>7. ASSUME NEW r \in Requests, UpdateUser(r) PROVE Kept(Waits)
    BY <1>7, <1>b DEF UpdateUser, WriteUser, ProfileStep
  <1>8. ASSUME NEW r \in Requests, UpdateProfile(r) \/ DeleteProfile(r) PROVE Kept(Waits)
    BY <1>8, <1>b DEF UpdateProfile, DeleteProfile
  <1>9. ASSUME NEW r \in Requests, ReadRemoved(r) \/ RemoveUser(r) \/ Audit(r)
        PROVE  Kept(Waits)
    BY <1>9, <1>b DEF ReadRemoved, RemoveUser, Audit
  <1>10. ASSUME NEW r \in Requests, CallSession(r) PROVE Kept(Waits)
    BY <1>10, <1>c DEF CallSession
  <1>11. ASSUME NEW r \in Requests, SignIn(r) \/ FindToken(r) \/ Revoke(r) \/ Issue(r)
         PROVE  Kept(Waits)
    BY <1>11, <1>b DEF SignIn, FindToken, Revoke, Issue
  <1>12. ASSUME NEW r \in Requests, CallMahalla(r) PROVE Kept(Waits)
    BY <1>12, <1>c DEF CallMahalla
  <1>13. ASSUME NEW r \in Requests,
                ReadMahalla(r) \/ UpsertRegion(r) \/ UpsertDistrict(r) \/ UpsertMahalla(r)
         PROVE  Kept(Waits)
    BY <1>13, <1>b DEF ReadMahalla, UpsertRegion, UpsertDistrict, UpsertMahalla
  <1>14. ASSUME NEW r \in Requests,
                UpdateMahalla(r) \/ RemoveMahalla(r) \/ AuditMahalla(r)
         PROVE  Kept(Waits)
    BY <1>14, <1>b DEF UpdateMahalla, Conflict, RemoveMahalla, AuditMahalla
  <1>15. ASSUME NEW r \in Requests, NEW b, CountUsers(r, b) PROVE Kept(Waits)
    BY <1>15, <1>b DEF CountUsers
  <1>16. ASSUME NEW r \in Requests, Fail(r) PROVE Kept(Waits)
    BY <1>16, RejectKeeps DEF Fail
  <1>17. CASE Crash BY <1>17, DieKeeps DEF Crash
  <1>18. CASE UNCHANGED vars BY <1>18, NothingKeeps DEF vars
  <1> QED
    BY <1>1, <1>2, <1>3, <1>4, <1>5, <1>6, <1>7, <1>8, <1>9, <1>10, <1>11, <1>12, <1>13,
       <1>14, <1>15, <1>16, <1>17, <1>18
       DEF Next, HandleUser, HandleMahalla
-----------------------------------------------------------------------------
(***************************************************************************)
(* Refresh tokens.                                                         *)
(***************************************************************************)
SessionWaits == {"revoking", "issuing"}

(* The rows of tokens and what was noted of them. *)
TokensOK ==
    /\ found \in [Requests -> SUBSET issued] /\ issued \subseteq Requests
    /\ \A r \in Requests : \A t \in found[r] : UserOf[t] = UserOf[r]
    /\ \A r \in issued : pc[r] \in Ends
    /\ line \in [Requests -> SUBSET Sent]
    /\ \A d \in removals : d \in Sent /\ UserOf[d] \in removed

(* A token that was spent is revoked, and by then nobody had found it but  *)
(* requests that still ran.                                                *)
Spending ==
    /\ \A r \in Requests : pc[r] = "revoking" => found[r] # {}
    /\ \A q \in spenders : /\ q \in Requests /\ found[q] \subseteq revoked
                          /\ pc[q] \in {"issuing"} \cup Ends
    /\ \A q \in spenders, r \in Requests :
          pc[r] = "revoking" /\ found[q] = found[r] => Overlap(q, r)

(* A session that goes on after the removal of its user overlapped it, or  *)
(* goes on from one that did.                                              *)
Descends(t, d) == \E q \in line[t] : Overlap(q, d)

Leftover ==
    \A r \in Requests, d \in removals :
        pc[r] \in SessionWaits /\ UserOf[r] = UserOf[d] =>
            Overlap(r, d) \/ \E t \in found[r] : Descends(t, d)

SessionInv ==
    ControlInv /\ TokensOK /\ Spending /\ RowSpentOnce /\ Leftover /\ RemovedMeansOut

(* The rows of tokens, and what is noted of them. *)
rowVars == <<issued, revoked, found, spenders, line>>

(* All that most steps do to a session. *)
Quiet ==
    /\ UNCHANGED <<rowVars, removed, removals>>
    /\ \A r \in Requests : \/ pc'[r] = pc[r] \/ pc'[r] \in Ends
                           \/ pc[r] \notin SessionWaits /\ pc'[r] \notin SessionWaits

(* A step of a session is one of five. *)
LEMMA SessionSteps ==
    ASSUME ControlInv, [Next]_vars
    PROVE  \/ Quiet
           \/ \E r \in Requests :
                 RemoveUser(r) \/ SignIn(r) \/ FindToken(r) \/ Revoke(r) \/ Issue(r)
  <1> USE DEF ControlInv
  <1>a. ASSUME NEW r \in Requests, NEW p \in Waits \ SessionWaits,
               NEW q \in (Waits \cup Ends) \ SessionWaits,
               Step(r, p, q) \/ Resolve(r, p, q), UNCHANGED <<rowVars, removed, removals>>
        PROVE  Quiet
    BY <1>a DEF Quiet, ControlOK, Step, Resolve, Goto, Ends
  <1>b. ASSUME NEW r \in Requests, NEW p \in (Waits \cup Ends) \ SessionWaits,
               Arrive(r, p), UNCHANGED <<rowVars, removed, removals>>
        PROVE  Quiet
    BY <1>b DEF Quiet, ControlOK, Arrive, Goto, SessionWaits
  <1> USE DEF Waits, UserWaits, MahallaWaits, Ends, SessionWaits, userVars, tokenVars, rowVars
  <1>1. ASSUME NEW r \in Requests, CallUser(r) PROVE Quiet
    BY <1>1, <1>b DEF CallUser
  <1>2. ASSUME NEW r \in Requests, CheckMahalla(r) PROVE Quiet
    BY <1>2, <1>a DEF CheckMahalla
  <1>3. ASSUME NEW r \in Requests, CheckPhone(r) PROVE Quiet
    BY <1>3, <1>a DEF CheckPhone, Placing
  <1>4. ASSUME NEW r \in Requests, InsertUser(r) PROVE Quiet
    BY <1>4, <1>a DEF InsertUser, WriteUser, Answer
  <1>5. ASSUME NEW r \in Requests, CreateProfile(r) PROVE Quiet
    BY <1>5, <1>a DEF CreateProfile, Answer
  <1>6. ASSUME NEW r \in Requests, ReadTarget(r) PROVE Quiet
    BY <1>6, <1>a DEF ReadTarget, Placing
  <1>7. ASSUME NEW r \in Requests, UpdateUser(r) PROVE Quiet
    BY <1>7, <1>a DEF UpdateUser, WriteUser, ProfileStep
  <1>8. ASSUME NEW r \in Requests, UpdateProfile(r) \/ DeleteProfile(r) PROVE Quiet
    BY <1>8, <1>a DEF UpdateProfile, DeleteProfile
  <1>9. ASSUME NEW r \in Requests, ReadRemoved(r) \/ Audit(r) PROVE Quiet
    BY <1>9, <1>a DEF ReadRemoved, Audit
  <1>10. ASSUME NEW r \in Requests, CallSession(r) PROVE Quiet
    BY <1>10, <1>b DEF CallSession
  <1>11. ASSUME NEW r \in Requests, CallMahalla(r), UNCHANGED <<userVars, tokenVars>>
         PROVE  Quiet
    BY <1>11, <1>b DEF CallMahalla
  <1>12. ASSUME NEW r \in Requests, UNCHANGED <<userVars, tokenVars>>,
                ReadMahalla(r) \/ UpsertRegion(r) \/ UpsertDistrict(r) \/ UpsertMahalla(r)
         PROVE  Quiet
    BY <1>12, <1>a DEF ReadMahalla, UpsertRegion, UpsertDistrict, UpsertMahalla
  <1>13. ASSUME NEW r \in Requests, UNCHANGED <<userVars, tokenVars>>,
                UpdateMahalla(r) \/ RemoveMahalla(r) \/ AuditMahalla(r)
         PROVE  Quiet
    BY <1>13, <1>a DEF UpdateMahalla, Conflict, RemoveMahalla, AuditMahalla
  <1>14. ASSUME NEW r \in Requests, NEW b, CountUsers(r, b), UNCHANGED <<userVars, tokenVars>>
         PROVE  Quiet
    BY <1>14, <1>a DEF CountUsers
  <1>15. ASSUME NEW r \in Requests, Fail(r) PROVE Quiet
    BY <1>15 DEF Fail, Quiet, Reject, Goto, ControlOK
  <1>16. CASE Crash BY <1>16 DEF Crash, Quiet, Die, ControlOK
  <1>17. CASE UNCHANGED vars BY <1>17 DEF vars, Quiet, control
  <1> QED
    BY <1>1, <1>2, <1>3, <1>4, <1>5, <1>6, <1>7, <1>8, <1>9, <1>10, <1>11, <1>12, <1>13,
       <1>14, <1>15, <1>16, <1>17
       DEF Next, HandleUser, HandleMahalla

(* Overlap of requests made stays as it is. *)
LEMMA Stays ==
    ASSUME ControlInv, [Next]_vars
    PROVE  /\ Kept(Waits) /\ ControlInv' /\ Sent \subseteq Sent'
           /\ \A q, r \in Sent : Overlap(q, r)' <=> Overlap(q, r)
           /\ \A q, r \in UnderWay : q \in Sent /\ r \in Sent /\ Overlap(q, r)
  <1>1. Kept(Waits) BY Control
  <1>2. /\ \A q, r \in Sent : Overlap(q, r)' <=> Overlap(q, r)
        /\ \A q, r \in UnderWay : q \in Sent /\ r \in Sent /\ Overlap(q, r)
    BY <1>1, OverlapStays, UnderWayOverlap DEF Kept, ControlInv, UnderWay
  <1> QED BY <1>1, <1>2 DEF Kept, ControlInv, Onward, Sent

(* A quiet step keeps what is known of sessions. *)
LEMMA QuietStep ==
    ASSUME SessionInv, [Next]_vars, Quiet
    PROVE  SessionInv'
  <1> USE DEF SessionInv
  <1>1. /\ ControlInv' /\ Sent \subseteq Sent'
        /\ \A q, r \in Sent : Overlap(q, r)' <=> Overlap(q, r)
        /\ \A r \in Ended : pc'[r] = pc[r]
    BY Stays DEF Kept, Onward
  <1>2. TokensOK'
    BY <1>1 DEF TokensOK, Quiet, rowVars, Ended
  <1>3. /\ \A r \in Requests : pc'[r] \in SessionWaits => pc[r] = pc'[r] /\ r \in Sent
        /\ \A r \in Requests : pc[r] \in SessionWaits \cup Ends => pc'[r] \in {pc[r]} \cup Ends
    BY <1>1 DEF Quiet, SessionWaits, Sent, Ends, Ended
  <1>4. spenders \subseteq Sent
    BY DEF Spending, Sent, Ends
  <1>5. Spending'
    BY <1>1, <1>3, <1>4 DEF Spending, Quiet, rowVars, SessionWaits
  <1>6. RowSpentOnce'
    BY <1>1, <1>4 DEF RowSpentOnce, Quiet, rowVars
  <1>7. \A t \in Requests, d \in removals : Descends(t, d)' <=> Descends(t, d)
    <2> SUFFICES ASSUME NEW t \in Requests, NEW d \in removals
                 PROVE  Descends(t, d)' <=> Descends(t, d)
      OBVIOUS
    <2>1. line[t] \subseteq Sent /\ d \in Sent /\ line' = line
      BY DEF TokensOK, Quiet, rowVars
    <2> QED BY <1>1, <2>1 DEF Descends
  <1>8. Leftover'
    BY <1>1, <1>3, <1>7 DEF Leftover, TokensOK, Quiet, rowVars
  <1>9. RemovedMeansOut'
    BY <1>7 DEF RemovedMeansOut, Descends, LiveOf, TokensOK, Quiet, rowVars
  <1> QED BY <1>1, <1>2, <1>5, <1>6, <1>8, <1>9

(* What any of the five steps keeps, and where the others are. *)
LEMMA Others ==
    ASSUME SessionInv, [Next]_vars, NEW r \in Requests, NEW p \in Waits,
           NEW q \in Waits \cup Ends, Step(r, p, q) \/ Resolve(r, p, q)
    PROVE  /\ ControlInv' /\ Sent \subseteq Sent'
           /\ \A x, y \in Sent : Overlap(x, y)' <=> Overlap(x, y)
           /\ \A x, y \in UnderWay : Overlap(x, y)
           /\ pc[r] = p /\ r \in UnderWay /\ r \in Sent /\ spenders \subseteq Sent
           /\ pc'[r] \in {q, "failed"} /\ \A x \in Requests \ {r} : pc'[x] = pc[x]
           /\ \A x \in Requests : pc[x] \in SessionWaits => x \in UnderWay
  BY Stays DEF SessionInv, ControlInv, ControlOK, Step, Resolve, Goto, UnderWay, Sent, Ended,
     Ends, Waits, UserWaits, MahallaWaits, SessionWaits, Spending

(* Tokens descend from the same requests while their lines stay. *)
LEMMA Descent ==
    ASSUME SessionInv, [Next]_vars, NEW t \in Requests, NEW d \in removals,
           line'[t] = line[t]
    PROVE  Descends(t, d)' <=> Descends(t, d)
  BY Stays DEF SessionInv, TokensOK, Descends

(* A removal revokes the tokens there are; sessions that go on overlap it. *)
LEMMA RemoveUserStep ==
    ASSUME SessionInv, [Next]_vars, NEW r \in Requests, RemoveUser(r)
    PROVE  SessionInv'
  <1> USE DEF SessionInv
  <1>0. /\ UNCHANGED <<issued, found, spenders, line>>
        /\ revoked' = revoked \cup LiveOf(UserOf[r])
        /\ removed' = removed \cup {UserOf[r]} /\ removals' = removals \cup {r}
    BY DEF RemoveUser, RevokeAll
  <1>1. Resolve(r, "removing-user", "auditing") /\ "removing-user" \in Waits /\ "auditing" \in Waits
    BY DEF RemoveUser, Waits, UserWaits
  <1>2. /\ ControlInv' /\ Sent \subseteq Sent'
        /\ \A x, y \in Sent : Overlap(x, y)' <=> Overlap(x, y)
        /\ \A x, y \in UnderWay : Overlap(x, y)
        /\ pc[r] = "removing-user" /\ r \in UnderWay /\ r \in Sent /\ spenders \subseteq Sent
        /\ pc'[r] \in {"auditing", "failed"} /\ \A x \in Requests \ {r} : pc'[x] = pc[x]
        /\ \A x \in Requests : pc[x] \in SessionWaits => x \in UnderWay
    BY <1>1, Others
  <1>3. TokensOK'
    BY <1>0, <1>2 DEF TokensOK, Ends
  <1>4. Spending'
    BY <1>0, <1>2 DEF Spending, Ends, Sent
  <1>5. RowSpentOnce'
    BY <1>0, <1>2 DEF RowSpentOnce
  <1>6. \A t \in Requests, d \in removals : Descends(t, d)' <=> Descends(t, d)
    BY <1>0, Descent
  <1>7. Leftover'
    <2> SUFFICES ASSUME NEW x \in Requests, NEW d \in removals', pc'[x] \in SessionWaits,
                        UserOf[x] = UserOf[d]
                 PROVE  Overlap(x, d)' \/ \E t \in found'[x] : Descends(t, d)'
      BY DEF Leftover, Descends
    <2>1. x # r /\ pc'[x] = pc[x] /\ x \in UnderWay /\ x \in Sent
      BY <1>2 DEF SessionWaits, UnderWay
    <2>2. CASE d = r BY <1>2, <2>1, <2>2
    <2>3. CASE d \in removals
      BY <1>0, <1>2, <1>6, <2>1, <2>3 DEF Leftover, TokensOK
    <2> QED BY <1>0, <2>2, <2>3
  <1>8. RemovedMeansOut'
    <2> SUFFICES ASSUME NEW d \in removals', NEW t \in LiveOf(UserOf[d])'
                 PROVE  Descends(t, d)'
      BY DEF RemovedMeansOut, Descends
    <2>1. t \in LiveOf(UserOf[d]) /\ UserOf[t] # UserOf[r] /\ t \in Requests
      BY <1>0 DEF LiveOf, TokensOK
    <2>2. d \in removals BY <1>0, <2>1 DEF LiveOf
    <2>3. Descends(t, d) BY <2>1, <2>2 DEF RemovedMeansOut, Descends
    <2> QED BY <1>6, <2>1, <2>2, <2>3
  <1> QED BY <1>2, <1>3, <1>4, <1>5, <1>7, <1>8

(* A login that goes on is of a user who was not removed before. *)
LEMMA SignInStep ==
    ASSUME SessionInv, [Next]_vars, NEW r \in Requests, SignIn(r)
    PROVE  SessionInv'
  <1> USE DEF SessionInv
  <1> DEFINE q == IF UserOf[r] \in Present THEN "issuing" ELSE "refused"
  <1>0. UNCHANGED <<tokenVars, removed, removals>>
    BY DEF SignIn, userVars
  <1>1. Step(r, "signing-in", q) /\ "signing-in" \in Waits /\ q \in Waits \cup Ends
    BY DEF SignIn, Waits, UserWaits, Ends
  <1>2. /\ ControlInv' /\ Sent \subseteq Sent'
        /\ \A x, y \in Sent : Overlap(x, y)' <=> Overlap(x, y)
        /\ pc[r] = "signing-in" /\ spenders \subseteq Sent
        /\ pc'[r] \in {q, "failed"} /\ \A x \in Requests \ {r} : pc'[x] = pc[x]
        /\ \A x \in Requests : pc[x] \in SessionWaits => x \in UnderWay
    <2> HIDE DEF q
    <2> QED BY <1>1, Others
  <1>3. TokensOK'
    BY <1>0, <1>2 DEF TokensOK, tokenVars, Ends
  <1>4. Spending'
    BY <1>0, <1>2 DEF Spending, tokenVars, Ends, Sent
  <1>5. RowSpentOnce'
    BY <1>0, <1>2 DEF RowSpentOnce, tokenVars
  <1>6. \A t \in Requests, d \in removals : Descends(t, d)' <=> Descends(t, d)
    BY <1>0, Descent DEF tokenVars
  <1>7. Leftover'
    <2> SUFFICES ASSUME NEW x \in Requests, NEW d \in removals, pc'[x] \in SessionWaits,
                        UserOf[x] = UserOf[d]
                 PROVE  Overlap(x, d)' \/ \E t \in found[x] : Descends(t, d)'
      BY <1>0 DEF Leftover, Descends, tokenVars
    <2>1. x # r
      BY <1>2 DEF TokensOK, Present, SessionWaits
    <2>2. pc'[x] = pc[x] /\ x \in Sent /\ d \in Sent
      BY <1>2, <2>1 DEF UnderWay, TokensOK
    <2>3. Overlap(x, d) \/ \E t \in found[x] : Descends(t, d)
      BY <2>2 DEF Leftover
    <2> QED BY <1>2, <1>6, <2>2, <2>3 DEF TokensOK
  <1>8. RemovedMeansOut'
    BY <1>0, <1>6 DEF RemovedMeansOut, Descends, LiveOf, TokensOK, tokenVars
  <1> QED BY <1>2, <1>3, <1>4, <1>5, <1>7, <1>8

(* A token that is found is not revoked: nobody has spent it yet, and if   *)
(* its user was removed it descends from a request that overlapped.        *)
LEMMA FindTokenStep ==
    ASSUME SessionInv, [Next]_vars, NEW r \in Requests, FindToken(r)
    PROVE  SessionInv'
  <1> USE DEF SessionInv
  <1>0. UNCHANGED <<issued, revoked, spenders, line, removed, removals>>
    BY DEF FindToken, userVars
  <1>1. PICK q \in {"revoking", "done", "refused"} :
            /\ Step(r, "finding-token", q)
            /\ \/ /\ q = "revoking"
                  /\ \E t \in LiveOf(UserOf[r]) : found' = [found EXCEPT ![r] = {t}]
               \/ q # "revoking" /\ UNCHANGED found
    BY DEF FindToken, Candidates
  <1>2. "finding-token" \in Waits /\ q \in Waits \cup Ends
    BY DEF Waits, UserWaits, Ends
  <1>3. /\ ControlInv' /\ Sent \subseteq Sent'
        /\ \A x, y \in Sent : Overlap(x, y)' <=> Overlap(x, y)
        /\ pc[r] = "finding-token" /\ r \in Sent /\ spenders \subseteq Sent
        /\ pc'[r] = q /\ \A x \in Requests \ {r} : pc'[x] = pc[x]
        /\ \A x \in Requests : pc[x] \in SessionWaits => x \in UnderWay
    BY <1>1, <1>2, Others DEF Step, Goto, ControlInv, ControlOK
  <1>4. r \notin spenders
    BY <1>3 DEF Spending, Ends
  <1>a. /\ found' \in [Requests -> SUBSET issued]
        /\ \A x \in Requests \ {r} : found'[x] = found[x]
        /\ IF q = "revoking" THEN \E t \in LiveOf(UserOf[r]) : found'[r] = {t}
                             ELSE found'[r] = found[r]
    <2>1. CASE q = "revoking"
      <3>1. PICK t \in LiveOf(UserOf[r]) : found' = [found EXCEPT ![r] = {t}] BY <1>1, <2>1
      <3>2. t \in issued BY DEF LiveOf
      <3> QED BY <2>1, <3>1, <3>2 DEF TokensOK
    <2>2. CASE q # "revoking" BY <1>1, <2>2 DEF TokensOK
    <2> QED BY <2>1, <2>2
  <1>5. TokensOK'
    <2>1. \A x \in Requests : \A t \in found'[x] : UserOf[t] = UserOf[x]
      BY <1>a DEF TokensOK, LiveOf
    <2>2. \A x \in issued : pc'[x] \in Ends
      BY <1>3 DEF TokensOK, Ends
    <2> QED BY <1>0, <1>3, <1>a, <2>1, <2>2 DEF TokensOK
  <1>6. Spending'
    <2>1. \A x \in Requests : pc'[x] = "revoking" => found'[x] # {}
      BY <1>3, <1>a DEF Spending
    <2>2. \A x \in spenders : /\ x \in Requests /\ found'[x] \subseteq revoked
                             /\ pc'[x] \in {"issuing"} \cup Ends
      BY <1>3, <1>4, <1>a DEF Spending
    <2>3. ASSUME NEW x \in spenders, NEW y \in Requests,
                 pc'[y] = "revoking", found'[x] = found'[y]
          PROVE  Overlap(x, y)'
      <3>1. y # r
        <4> SUFFICES ASSUME y = r PROVE FALSE OBVIOUS
        <4>1. PICK t \in LiveOf(UserOf[r]) : found'[r] = {t} BY <1>3, <1>a, <2>3
        <4>2. t \in revoked BY <2>2, <2>3, <4>1
        <4> QED BY <4>1, <4>2 DEF LiveOf
      <3>2. pc[y] = "revoking" /\ found[x] = found[y] /\ y \in Sent
        BY <1>3, <1>4, <1>a, <2>2, <2>3, <3>1 DEF Sent
      <3> QED BY <1>3, <3>2 DEF Spending
    <2> QED BY <1>0, <2>1, <2>2, <2>3 DEF Spending
  <1>7. RowSpentOnce'
    <2>1. \A x \in spenders : x \in Sent /\ found'[x] = found[x]
      BY <1>3, <1>4, <1>a DEF Spending
    <2>2. ASSUME NEW x \in spenders, NEW y \in spenders, x # y, found'[x] = found'[y]
          PROVE  Overlap(x, y)'
      <3>1. Overlap(x, y) BY <2>1, <2>2 DEF RowSpentOnce
      <3> QED BY <1>3, <2>1, <3>1
    <2> QED BY <1>0, <2>2 DEF RowSpentOnce
  <1>8. \A t \in Requests, d \in removals : Descends(t, d)' <=> Descends(t, d)
    BY <1>0, Descent
  <1>9. Leftover'
    <2> SUFFICES ASSUME NEW x \in Requests, NEW d \in removals, pc'[x] \in SessionWaits,
                        UserOf[x] = UserOf[d]
                 PROVE  Overlap(x, d)' \/ \E t \in found'[x] : Descends(t, d)'
      BY <1>0 DEF Leftover, Descends
    <2>1. CASE x = r
      <3>1. PICK t \in LiveOf(UserOf[r]) : found'[r] = {t}
        BY <1>3, <1>a, <2>1 DEF SessionWaits
      <3>2. Descends(t, d) /\ t \in Requests
        BY <2>1 DEF RemovedMeansOut, Descends, LiveOf, TokensOK
      <3> QED BY <1>8, <2>1, <3>1, <3>2
    <2>2. CASE x # r
      <3>1. pc'[x] = pc[x] /\ found'[x] = found[x] /\ x \in Sent /\ d \in Sent
        BY <1>3, <1>a, <2>2 DEF UnderWay, TokensOK
      <3>2. Overlap(x, d) \/ \E t \in found[x] : Descends(t, d)
        BY <3>1 DEF Leftover
      <3> QED BY <1>3, <1>8, <3>1, <3>2 DEF TokensOK
    <2> QED BY <2>1, <2>2
  <1>10. RemovedMeansOut'
    BY <1>0, <1>8 DEF RemovedMeansOut, Descends, LiveOf, TokensOK
  <1> QED BY <1>3, <1>5, <1>6, <1>7, <1>9, <1>10

(* A request that spends a token overlaps those that have it in hand.      *)
LEMMA RevokeStep ==
    ASSUME SessionInv, [Next]_vars, NEW r \in Requests, Revoke(r)
    PROVE  SessionInv'
  <1> USE DEF SessionInv
  <1> DEFINE q == IF OpOf[r] = "logout" THEN "done" ELSE "issuing"
  <1>0. /\ UNCHANGED <<issued, found, line, removed, removals>>
        /\ revoked' = revoked \cup found[r] /\ spenders' = spenders \cup {r}
    BY DEF Revoke, userVars
  <1>1. Resolve(r, "revoking", q) /\ "revoking" \in Waits /\ q \in Waits \cup Ends
    BY DEF Revoke, Waits, UserWaits, Ends
  <1>2. /\ ControlInv' /\ Sent \subseteq Sent'
        /\ \A x, y \in Sent : Overlap(x, y)' <=> Overlap(x, y)
        /\ \A x, y \in UnderWay : Overlap(x, y)
        /\ pc[r] = "revoking" /\ r \in UnderWay /\ r \in Sent /\ spenders \subseteq Sent
        /\ pc'[r] \in {q, "failed"} /\ \A x \in Requests \ {r} : pc'[x] = pc[x]
        /\ \A x \in Requests : pc[x] \in SessionWaits => x \in UnderWay
    <2> HIDE DEF q
    <2> QED BY <1>1, Others
  <1>3. TokensOK'
    BY <1>0, <1>2 DEF TokensOK, Ends
  <1>4. Spending'
    <2>1. \A x \in Requests : pc'[x] = "revoking" => pc[x] = "revoking" /\ x # r
      BY <1>2
    <2>2. \A x \in spenders' : /\ x \in Requests /\ found[x] \subseteq revoked'
                              /\ pc'[x] \in {"issuing"} \cup Ends
      BY <1>0, <1>2 DEF Spending, Ends
    <2>3. ASSUME NEW x \in spenders', NEW y \in Requests,
                 pc'[y] = "revoking", found[x] = found[y]
          PROVE  Overlap(x, y)'
      BY <1>0, <1>2, <2>1, <2>3 DEF Spending, SessionWaits, UnderWay
    <2> QED BY <1>0, <2>1, <2>2, <2>3 DEF Spending
  <1>5. RowSpentOnce'
    BY <1>0, <1>2 DEF RowSpentOnce, Spending, Overlap
  <1>6. \A t \in Requests, d \in removals : Descends(t, d)' <=> Descends(t, d)
    BY <1>0, Descent
  <1>7. Leftover'
    <2>1. \A x \in Requests : pc'[x] \in SessionWaits => pc[x] \in SessionWaits
      BY <1>2 DEF SessionWaits
    <2> QED BY <1>0, <1>2, <1>6, <2>1 DEF Leftover, TokensOK, UnderWay
  <1>8. RemovedMeansOut'
    BY <1>0, <1>6 DEF RemovedMeansOut, Descends, LiveOf, TokensOK
  <1> QED BY <1>2, <1>3, <1>4, <1>5, <1>7, <1>8

(* A token that is issued descends from the one that was spent for it.     *)
LEMMA IssueStep ==
    ASSUME SessionInv, [Next]_vars, NEW r \in Requests, Issue(r)
    PROVE  SessionInv'
  <1> USE DEF SessionInv
  <1>0. /\ UNCHANGED <<revoked, found, spenders, removed, removals>>
        /\ issued' = issued \cup {r}
        /\ line' = [line EXCEPT ![r] = {r} \cup UNION {line[t] : t \in found[r]}]
    BY DEF Issue, userVars
  <1>1. Resolve(r, "issuing", "done") /\ "issuing" \in Waits /\ "done" \in Waits \cup Ends
    BY DEF Issue, Waits, UserWaits, Ends
  <1>2. /\ ControlInv' /\ Sent \subseteq Sent'
        /\ \A x, y \in Sent : Overlap(x, y)' <=> Overlap(x, y)
        /\ pc[r] = "issuing" /\ r \in UnderWay /\ r \in Sent /\ spenders \subseteq Sent
        /\ pc'[r] \in {"done", "failed"} /\ \A x \in Requests \ {r} : pc'[x] = pc[x]
        /\ \A x \in Requests : pc[x] \in SessionWaits => x \in UnderWay
    BY <1>1, Others
  <1>3. r \notin issued
    BY <1>2 DEF TokensOK, Ends
  <1>4. line'[r] = {r} \cup UNION {line[t] : t \in found[r]}
        /\ \A t \in issued : line'[t] = line[t]
    BY <1>0, <1>3 DEF TokensOK
  <1>5. TokensOK'
    <2>1. line'[r] \subseteq Sent BY <1>2, <1>4 DEF TokensOK
    <2>2. line' \in [Requests -> SUBSET Sent'] BY <1>0, <1>2, <2>1, <1>4 DEF TokensOK
    <2> QED BY <1>0, <1>2, <2>2 DEF TokensOK, Ends
  <1>6. Spending'
    BY <1>0, <1>2 DEF Spending, Ends, Sent
  <1>7. RowSpentOnce'
    BY <1>0, <1>2 DEF RowSpentOnce
  <1>8. \A t \in issued, d \in removals : Descends(t, d)' <=> Descends(t, d)
    BY <1>4, Descent DEF TokensOK
  <1>9. Leftover'
    <2>1. \A x \in Requests : pc'[x] \in SessionWaits => pc[x] = pc'[x]
      BY <1>2 DEF SessionWaits
    <2> QED BY <1>0, <1>2, <1>8, <2>1 DEF Leftover, TokensOK, UnderWay
  <1>10. RemovedMeansOut'
    <2> SUFFICES ASSUME NEW d \in removals, NEW t \in LiveOf(UserOf[d])'
                 PROVE  Descends(t, d)'
      BY <1>0 DEF RemovedMeansOut, Descends
    <2>1. CASE t = r
      <3>1. Overlap(r, d) \/ \E s \in found[r] : Descends(s, d)
        BY <1>2, <2>1 DEF Leftover, SessionWaits, LiveOf
      <3>2. CASE Overlap(r, d)
        BY <1>2, <1>4, <2>1, <3>2 DEF Descends, TokensOK
      <3>3. CASE \E s \in found[r] : Descends(s, d)
        <4>1. PICK s \in found[r] : Descends(s, d) BY <3>3
        <4>2. PICK q \in line[s] : Overlap(q, d) BY <4>1 DEF Descends
        <4>3. q \in line'[r] /\ q \in Sent /\ d \in Sent
          BY <1>4, <4>1, <4>2 DEF TokensOK
        <4> QED BY <1>2, <2>1, <4>2, <4>3 DEF Descends
      <3> QED BY <3>1, <3>2, <3>3
    <2>2. CASE t # r
      BY <1>0, <1>8, <2>2 DEF RemovedMeansOut, Descends, LiveOf
    <2> QED BY <2>1, <2>2
  <1> QED BY <1>2, <1>5, <1>6, <1>7, <1>9, <1>10

(* The session's part of the invariant. *)
LEMMA SessionInvariant == Spec => []SessionInv
  <1>1. Init => SessionInv
    <2> SUFFICES ASSUME Init PROVE SessionInv OBVIOUS
    <2>1. ControlInv BY ControlStarts DEF Init, ControlInv
    <2>2. \A r \in Requests : pc[r] = "unsent" BY DEF Init, ControlInit
    <2> QED
      BY <2>1, <2>2 DEF Init, SessionInv, TokensOK, Spending, RowSpentOnce, Leftover,
                        RemovedMeansOut, SessionWaits, LiveOf
  <1>2. SessionInv /\ [Next]_vars => SessionInv'
    BY SessionSteps, QuietStep, RemoveUserStep, SignInStep, FindTokenStep, RevokeStep, IssueStep
       DEF SessionInv
  <1> QED BY <1>1, <1>2, PTL DEF Spec

(* A row of RefreshToken is exchanged, or given up by a logout, once: two  *)
(* requests that revoked the same row in refreshTokens or logout ran at    *)
(* the same time, between the reading of it and the writing of revokedAt.  *)
(* Of the token the client sent it says nothing: bcrypt finds any live row *)
(* of the user.                                                            *)
THEOREM RowsSpentOnce == Spec => []RowSpentOnce
  <1>1. SessionInv => RowSpentOnce BY DEF SessionInv
  <1> QED BY <1>1, SessionInvariant, PTL

(* A user whom users.remove removed has no token left but those issued to  *)
(* a login or refresh that overlapped the removal, or to its descendants.  *)
THEOREM RemovedAreOut == Spec => []RemovedMeansOut
  <1>1. SessionInv => RemovedMeansOut BY DEF SessionInv
  <1> QED BY <1>1, SessionInvariant, PTL
-----------------------------------------------------------------------------
(***************************************************************************)
(* The mahallas of users.                                                  *)
(***************************************************************************)
Homes == {{}} \cup {{m} : m \in Mahallas}

(* The rows of users and what was noted of mahallas. *)
RowsOK ==
    /\ DOMAIN user \subseteq Users
    /\ \A u \in DOMAIN user : user[u].home \in Homes
    /\ moved \in [Users -> SUBSET Sent]
    /\ closedBy \subseteq Sent

(* Which operation may be where, and that a row to be updated exists. *)
PlaceOK(r, p, U) ==
    /\ p \in MahallaWaits => OpOf[r] \in MahallaOps
    /\ p = "inserting-user" => Creates(r)
    /\ p \in {"reading-target", "updating-user"} => ~Creates(r)
    /\ p \in {"checking-mahalla", "checking-phone", "updating-user"} /\ ~Creates(r) =>
          UserOf[r] \in U

PlacesOK == \A r \in Requests : PlaceOK(r, pc[r], DOMAIN user)

(* The mahalla a request is going to write was open when it was checked.   *)
Checked(r) ==
    pc[r] \in {"inserting-user", "updating-user"} \/ (pc[r] = "checking-phone" /\ Creates(r))

ClosedSince(m, r) == \E d \in closedBy : MahallaOf[d] = {m} /\ Overlap(d, r)

CheckedOpen ==
    \A r \in Requests : Checked(r) => \A m \in MahallaOf[r] \cap closed : ClosedSince(m, r)

(* The users of a mahalla about to be removed came after they were counted. *)
CameSince(d, u) == \E r \in moved[u] : Overlap(d, r)

CountedEmpty ==
    \A d \in Requests : pc[d] = "removing-mahalla" =>
        \A u \in Present : user[u].home = MahallaOf[d] => CameSince(d, u)

HomeInv ==
    ControlInv /\ RowsOK /\ PlacesOK /\ CheckedOpen /\ CountedEmpty /\ RemovedMahallaIsEmpty

HomeWaits ==
    {"reading-target", "checking-mahalla", "checking-phone", "inserting-user", "updating-user",
     "removing-mahalla"}

(* All that most steps do to users and mahallas. *)
Still ==
    /\ UNCHANGED <<user, moved, closedBy>>
    /\ removed \subseteq removed' /\ closed' \subseteq closed
    /\ \A r \in Requests : pc'[r] = pc[r] \/ pc'[r] \notin HomeWaits

(* A step that matters to the mahallas of users is one of eight. *)
LEMMA HomeSteps ==
    ASSUME ControlInv, [Next]_vars
    PROVE  \/ Still
           \/ \E r \in Requests :
                 \/ CallUser(r) \/ CheckMahalla(r) \/ CheckPhone(r) \/ InsertUser(r)
                 \/ ReadTarget(r) \/ UpdateUser(r)
                 \/ RemoveMahalla(r) /\ UNCHANGED <<userVars, tokenVars>>
                 \/ CountUsers(r, \E u \in Present : user[u].home \subseteq MahallaOf[r]
                                                       /\ user[u].home # {})
                       /\ UNCHANGED <<userVars, tokenVars>>
  <1> USE DEF ControlInv
  <1>a. ASSUME NEW r \in Requests, NEW p \in Waits,
               NEW q \in (Waits \cup Ends) \ HomeWaits, Step(r, p, q) \/ Resolve(r, p, q),
               UNCHANGED <<user, moved, closedBy>>, removed \subseteq removed',
               closed' \subseteq closed
        PROVE  Still
    BY <1>a DEF Still, ControlOK, Step, Resolve, Goto, HomeWaits
  <1>b. ASSUME NEW r \in Requests, NEW p \in (Waits \cup Ends) \ HomeWaits, Arrive(r, p),
               UNCHANGED <<user, moved, closedBy, removed, closed>>
        PROVE  Still
    BY <1>b DEF Still, ControlOK, Arrive, Goto
  <1> USE DEF Waits, UserWaits, MahallaWaits, Ends, HomeWaits, userVars, tokenVars, mahallaVars
  <1>1. ASSUME NEW r \in Requests, CreateProfile(r) PROVE Still
    BY <1>1, <1>a DEF CreateProfile, Answer
  <1>2. ASSUME NEW r \in Requests, UpdateProfile(r) \/ DeleteProfile(r) PROVE Still
    BY <1>2, <1>a DEF UpdateProfile, DeleteProfile
  <1>3. ASSUME NEW r \in Requests, ReadRemoved(r) \/ RemoveUser(r) \/ Audit(r) PROVE Still
    BY <1>3, <1>a DEF ReadRemoved, RemoveUser, Audit
  <1>4. ASSUME NEW r \in Requests, CallSession(r) PROVE Still
    BY <1>4, <1>b DEF CallSession
  <1>5. ASSUME NEW r \in Requests, SignIn(r) \/ FindToken(r) \/ Revoke(r) \/ Issue(r)
        PROVE  Still
    BY <1>5, <1>a DEF SignIn, FindToken, Revoke, Issue
  <1>6. ASSUME NEW r \in Requests, CallMahalla(r), UNCHANGED <<userVars, tokenVars>>
        PROVE  Still
    BY <1>6, <1>b DEF CallMahalla
  <1>7. ASSUME NEW r \in Requests, UNCHANGED <<userVars, tokenVars>>,
               ReadMahalla(r) \/ UpsertRegion(r) \/ UpsertDistrict(r) \/ UpsertMahalla(r)
        PROVE  Still
    BY <1>7, <1>a DEF ReadMahalla, UpsertRegion, UpsertDistrict, UpsertMahalla
  <1>8. ASSUME NEW r \in Requests, UNCHANGED <<userVars, tokenVars>>,
               UpdateMahalla(r) \/ AuditMahalla(r)
        PROVE  Still
    BY <1>8, <1>a DEF UpdateMahalla, Conflict, AuditMahalla
  <1>9. ASSUME NEW r \in Requests, Fail(r) PROVE Still
    BY <1>9 DEF Fail, Still, Reject, Goto, ControlOK
  <1>10. CASE Crash BY <1>10 DEF Crash, Still, Die, ControlOK
  <1>11. CASE UNCHANGED vars BY <1>11 DEF vars, Still, control
  <1> QED
    BY <1>1, <1>2, <1>3, <1>4, <1>5, <1>6, <1>7, <1>8, <1>9, <1>10, <1>11
       DEF Next, HandleUser, HandleMahalla

(* What every step keeps of the places, and that no row is deleted. *)
PlacesKept == PlacesOK' /\ DOMAIN user \subseteq DOMAIN user'

(* Each operation keeps to its places. *)
LEMMA PlacesStep ==
    ASSUME ControlInv, PlacesOK, [Next]_vars
    PROVE  PlacesKept
  <1>a. ASSUME NEW r \in Requests, NEW p \in Waits \cup Ends, Goto(r, p),
               PlaceOK(r, p, DOMAIN user), DOMAIN user \subseteq DOMAIN user'
        PROVE  PlacesKept
    <2>1. pc' = [pc EXCEPT ![r] = p] /\ pc \in [Requests -> {"unsent"} \cup Waits \cup Ends]
      BY <1>a DEF Goto, ControlInv, ControlOK
    <2>2. \A x \in Requests : PlaceOK(x, pc'[x], DOMAIN user)
      BY <1>a, <2>1 DEF PlacesOK
    <2>3. \A x \in Requests : PlaceOK(x, pc'[x], DOMAIN user')
      BY <1>a, <2>2 DEF PlaceOK
    <2> QED BY <1>a, <2>3 DEF PlacesKept, PlacesOK
  <1>b. ASSUME NEW r \in Requests, NEW p \in Waits, NEW q \in Waits \cup Ends,
               Resolve(r, p, q) \/ Step(r, p, q), PlaceOK(r, q, DOMAIN user),
               DOMAIN user \subseteq DOMAIN user'
        PROVE  PlacesKept
    <2>1. PlaceOK(r, "failed", DOMAIN user) /\ "failed" \in Ends BY DEF Ends, PlaceOK, MahallaWaits
    <2> QED BY <1>a, <1>b, <2>1 DEF Resolve, Step
  <1>c. ASSUME NEW r \in Requests, NEW p \in Waits, NEW q \in Waits \cup Ends,
               Resolve(r, p, q) \/ Step(r, p, q)
        PROVE  pc[r] = p /\ PlaceOK(r, p, DOMAIN user)
    BY <1>c DEF Resolve, Step, PlacesOK
  <1>d. ASSUME NEW r \in Requests, NEW p \in MahallaWaits, NEW q \in MahallaWaits \cup Ends,
               Resolve(r, p, q) \/ Step(r, p, q), UNCHANGED <<userVars, tokenVars>>
        PROVE  PlacesKept
    <2>1. p \in Waits /\ q \in Waits \cup Ends BY <1>d DEF Waits
    <2>2. OpOf[r] \in MahallaOps BY <1>c, <1>d, <2>1 DEF PlaceOK
    <2>3. PlaceOK(r, q, DOMAIN user) BY <2>2 DEF PlaceOK, MahallaWaits, Ends
    <2> QED BY <1>b, <1>d, <2>1, <2>3 DEF userVars
  <1>e. ASSUME NEW r \in Requests, NEW p \in UserWaits,
               NEW q \in Ends \cup {"creating-profile", "updating-profile", "deleting-profile",
                                    "auditing", "removing-user", "revoking", "issuing"},
               Resolve(r, p, q) \/ Step(r, p, q), DOMAIN user \subseteq DOMAIN user'
        PROVE  PlacesKept
    <2>1. PlaceOK(r, q, DOMAIN user) BY DEF PlaceOK, MahallaWaits, Ends
    <2>2. p \in Waits /\ q \in Waits \cup Ends BY DEF Waits, UserWaits
    <2> QED BY <1>b, <1>e, <2>1, <2>2
  <1> USE DEF userVars, tokenVars, mahallaVars
  <1>1. ASSUME NEW r \in Requests, CallUser(r) PROVE PlacesKept
    BY <1>1, <1>a DEF CallUser, Arrive, Creates, PlaceOK, Waits, UserWaits, MahallaWaits, Ends
  <1>2. ASSUME NEW r \in Requests, CheckMahalla(r) PROVE PlacesKept
    <2>1. PICK q \in {"refused", "checking-phone", "updating-user"} :
             /\ Step(r, "checking-mahalla", q) /\ user' = user
             /\ q = "checking-phone" => Creates(r)
             /\ q = "updating-user" => ~Creates(r)
      BY <1>2 DEF CheckMahalla
    <2>2. {"checking-mahalla", q} \subseteq Waits \cup Ends /\ "checking-mahalla" \in Waits
      BY DEF Waits, UserWaits, Ends
    <2>3. PlaceOK(r, "checking-mahalla", DOMAIN user) BY <1>c, <2>1, <2>2
    <2>4. PlaceOK(r, q, DOMAIN user) BY <2>1, <2>3 DEF PlaceOK, MahallaWaits
    <2> QED BY <1>b, <2>1, <2>2, <2>4
  <1>3. ASSUME NEW r \in Requests, CheckPhone(r) PROVE PlacesKept
    <2>1. PICK q \in {"refused", "inserting-user", "checking-mahalla", "updating-user"} :
             /\ Step(r, "checking-phone", q) /\ user' = user
             /\ q = "inserting-user" => Creates(r)
             /\ q \in {"checking-mahalla", "updating-user"} => ~Creates(r)
      BY <1>3 DEF CheckPhone, Placing
    <2>2. {"checking-phone", q} \subseteq Waits \cup Ends /\ "checking-phone" \in Waits
      BY DEF Waits, UserWaits, Ends
    <2>3. PlaceOK(r, "checking-phone", DOMAIN user) BY <1>c, <2>1, <2>2
    <2>4. PlaceOK(r, q, DOMAIN user) BY <2>1, <2>3 DEF PlaceOK, MahallaWaits
    <2> QED BY <1>b, <2>1, <2>2, <2>4
  <1>4. ASSUME NEW r \in Requests, InsertUser(r) \/ UpdateUser(r) PROVE PlacesKept
    <2>1. DOMAIN user \subseteq DOMAIN user'
      <3>1. user' = user \/ \E row : user' = Put(user, UserOf[r], row)
        BY <1>4 DEF InsertUser, UpdateUser, WriteUser
      <3> QED BY <3>1 DEF Put
    <2>2. PICK p \in {"inserting-user", "updating-user"},
               q \in {"creating-profile", "updating-profile", "deleting-profile", "auditing",
                      "done", "failed"} :
              Resolve(r, p, q) \/ Step(r, p, q)
      BY <1>4 DEF InsertUser, UpdateUser, WriteUser, Answer, ProfileStep
    <2> QED BY <1>e, <2>1, <2>2 DEF UserWaits, Ends
  <1>5. ASSUME NEW r \in Requests, CreateProfile(r) PROVE PlacesKept
    BY <1>5, <1>e DEF CreateProfile, Answer, UserWaits, Ends
  <1>6. ASSUME NEW r \in Requests, ReadTarget(r) PROVE PlacesKept
    <2>1. PICK q \in {"refused", "checking-phone", "checking-mahalla", "updating-user"} :
             /\ Step(r, "reading-target", q) /\ user' = user
             /\ q # "refused" => UserOf[r] \in DOMAIN user
      BY <1>6 DEF ReadTarget, Placing, Present
    <2>2. {"reading-target", q} \subseteq Waits \cup Ends /\ "reading-target" \in Waits
      BY DEF Waits, UserWaits, Ends
    <2>3. PlaceOK(r, "reading-target", DOMAIN user) BY <1>c, <2>1, <2>2
    <2>4. PlaceOK(r, q, DOMAIN user) BY <2>1, <2>3 DEF PlaceOK, MahallaWaits
    <2> QED BY <1>b, <2>1, <2>2, <2>4
  <1>7. ASSUME NEW r \in Requests, UpdateProfile(r) \/ DeleteProfile(r) PROVE PlacesKept
    BY <1>7, <1>e DEF UpdateProfile, DeleteProfile, UserWaits, Ends
  <1>8. ASSUME NEW r \in Requests, ReadRemoved(r) \/ RemoveUser(r) \/ Audit(r) PROVE PlacesKept
    BY <1>8, <1>e DEF ReadRemoved, RemoveUser, Audit, UserWaits, Ends
  <1>9. ASSUME NEW r \in Requests, CallSession(r) PROVE PlacesKept
    BY <1>9, <1>a DEF CallSession, Arrive, PlaceOK, Waits, UserWaits, MahallaWaits, Ends
  <1>10. ASSUME NEW r \in Requests, SignIn(r) \/ FindToken(r) \/ Revoke(r) \/ Issue(r)
         PROVE  PlacesKept
    <2>1. PICK p \in {"signing-in", "finding-token", "revoking", "issuing"},
               q \in {"issuing", "refused", "revoking", "done"} :
              /\ Resolve(r, p, q) \/ Step(r, p, q)
              /\ user' = user
      BY <1>10 DEF SignIn, FindToken, Revoke, Issue
    <2> QED BY <1>e, <2>1 DEF UserWaits, Ends
  <1>11. ASSUME NEW r \in Requests, CallMahalla(r), UNCHANGED <<userVars, tokenVars>>
         PROVE  PlacesKept
    BY <1>11, <1>a DEF CallMahalla, MahallaOps, Arrive, PlaceOK, Waits, MahallaWaits
  <1>12. ASSUME NEW r \in Requests, UNCHANGED <<userVars, tokenVars>>,
                ReadMahalla(r) \/ UpsertRegion(r) \/ UpsertDistrict(r) \/ UpsertMahalla(r)
         PROVE  PlacesKept
    BY <1>12, <1>d
       DEF ReadMahalla, UpsertRegion, UpsertDistrict, UpsertMahalla, MahallaWaits, Ends
  <1>13. ASSUME NEW r \in Requests, UNCHANGED <<userVars, tokenVars>>,
                UpdateMahalla(r) \/ RemoveMahalla(r) \/ AuditMahalla(r)
         PROVE  PlacesKept
    BY <1>13, <1>d DEF UpdateMahalla, Conflict, RemoveMahalla, AuditMahalla, MahallaWaits, Ends
  <1>14. ASSUME NEW r \in Requests, NEW b, CountUsers(r, b), UNCHANGED <<userVars, tokenVars>>
         PROVE  PlacesKept
    BY <1>14, <1>d DEF CountUsers, MahallaWaits, Ends
  <1>15. ASSUME NEW r \in Requests, Fail(r) PROVE PlacesKept
    BY <1>15, <1>a DEF Fail, Reject, PlaceOK, MahallaWaits, Ends
  <1>16. CASE Crash
    BY <1>16 DEF Crash, Die, PlacesKept, PlacesOK, PlaceOK, MahallaWaits
  <1>17. CASE UNCHANGED vars BY <1>17 DEF vars, control, PlacesKept, PlacesOK
  <1> QED
    BY <1>1, <1>2, <1>3, <1>4, <1>5, <1>6, <1>7, <1>8, <1>9, <1>10, <1>11, <1>12, <1>13,
       <1>14, <1>15, <1>16, <1>17
       DEF Next, HandleUser, HandleMahalla

(* What every step keeps of what has been noted. *)
LEMMA NotedStays ==
    ASSUME HomeInv, [Next]_vars
    PROVE  /\ ControlInv' /\ PlacesOK' /\ Sent \subseteq Sent'
           /\ \A q, r \in Sent : Overlap(q, r)' <=> Overlap(q, r)
           /\ \A q, r \in UnderWay : q \in Sent /\ r \in Sent /\ Overlap(q, r)
           /\ \A r \in Requests : pc[r] \in Waits => r \in UnderWay
  BY Stays, PlacesStep
     DEF HomeInv, PlacesKept, UnderWay, Sent, Ended, Ends, Waits, UserWaits, MahallaWaits

(* A removal noted for r or u stays noted while more removals are. *)
LEMMA SinceStays ==
    ASSUME HomeInv, [Next]_vars, closedBy \subseteq closedBy'
    PROVE  /\ \A m, r : r \in Sent /\ ClosedSince(m, r) => ClosedSince(m, r)'
           /\ \A d, u : d \in Sent /\ u \in Users /\ moved'[u] = moved[u] /\ CameSince(d, u)
                        => CameSince(d, u)'
  <1>1. /\ Sent \subseteq Sent'
        /\ \A q, r \in Sent : Overlap(q, r)' <=> Overlap(q, r)
    BY NotedStays
  <1>2. closedBy \subseteq Sent /\ \A u \in Users : moved[u] \subseteq Sent
    BY DEF HomeInv, RowsOK
  <1>3. ASSUME NEW m, NEW r \in Sent, ClosedSince(m, r) PROVE ClosedSince(m, r)'
    BY <1>1, <1>2, <1>3 DEF ClosedSince
  <1>4. ASSUME NEW d \in Sent, NEW u \in Users, moved'[u] = moved[u], CameSince(d, u)
        PROVE  CameSince(d, u)'
    BY <1>1, <1>2, <1>4 DEF CameSince
  <1> QED BY <1>3, <1>4

(* RemovedMahallaIsEmpty, for each user and mahalla. *)
Explained(u, m) == \E d \in closedBy : MahallaOf[d] = {m} /\ CameSince(d, u)

(* What was noted of a removal. *)
LEMMA ExplainedIsEmpty ==
    RemovedMahallaIsEmpty <=> \A u \in Present : \A m \in user[u].home \cap closed : Explained(u, m)
  BY DEF RemovedMahallaIsEmpty, Explained, CameSince

(* It stays noted. *)
LEMMA ExplainedStays ==
    ASSUME HomeInv, [Next]_vars, closedBy \subseteq closedBy', NEW u \in Users, NEW m,
           moved'[u] = moved[u], Explained(u, m)
    PROVE  Explained(u, m)'
  <1>1. PICK d \in closedBy : MahallaOf[d] = {m} /\ CameSince(d, u) BY DEF Explained
  <1>2. d \in Sent BY DEF HomeInv, RowsOK
  <1> QED BY <1>1, <1>2, SinceStays DEF Explained

(* Most steps disturb nothing of the mahallas of users. *)
LEMMA StillStep ==
    ASSUME HomeInv, [Next]_vars, Still
    PROVE  HomeInv'
  <1>1. /\ ControlInv' /\ PlacesOK' /\ Sent \subseteq Sent' BY NotedStays
  <1>2. RowsOK' BY <1>1 DEF HomeInv, RowsOK, Still
  <1>3. \A r \in Requests : pc'[r] \in HomeWaits => pc[r] = pc'[r] /\ r \in Sent
    BY DEF Still, HomeWaits, Sent
  <1>4. closedBy \subseteq closedBy' /\ closed' \subseteq closed /\ Present' \subseteq Present
    BY DEF Still, Present
  <1>5. CheckedOpen'
    <2> SUFFICES ASSUME NEW r \in Requests, Checked(r)', NEW m \in MahallaOf[r] \cap closed'
                 PROVE  ClosedSince(m, r)'
      BY DEF CheckedOpen
    <2>1. Checked(r) /\ r \in Sent BY <1>3 DEF Checked, HomeWaits
    <2>2. ClosedSince(m, r) BY <1>4, <2>1 DEF HomeInv, CheckedOpen
    <2> QED BY <1>4, <2>1, <2>2, SinceStays
  <1>6. CountedEmpty'
    <2> SUFFICES ASSUME NEW d \in Requests, pc'[d] = "removing-mahalla", NEW u \in Present',
                        user'[u].home = MahallaOf[d]
                 PROVE  CameSince(d, u)'
      BY DEF CountedEmpty
    <2>1. pc[d] = "removing-mahalla" /\ d \in Sent BY <1>3 DEF HomeWaits
    <2>2. CameSince(d, u) BY <1>4, <2>1 DEF HomeInv, CountedEmpty, Still
    <2>3. u \in Users /\ moved'[u] = moved[u] BY <1>4 DEF HomeInv, RowsOK, Present, Still
    <2> QED BY <1>4, <2>1, <2>2, <2>3, SinceStays
  <1>7. RemovedMahallaIsEmpty'
    <2> SUFFICES ASSUME NEW u \in Present', NEW m \in user'[u].home \cap closed'
                 PROVE  Explained(u, m)'
      BY DEF RemovedMahallaIsEmpty, Explained, CameSince
    <2>1. Explained(u, m) BY <1>4, ExplainedIsEmpty DEF HomeInv, Still
    <2>2. u \in Users /\ moved'[u] = moved[u] BY <1>4 DEF HomeInv, RowsOK, Present, Still
    <2> QED BY <1>4, <2>1, <2>2, ExplainedStays
  <1> QED BY <1>1, <1>2, <1>5, <1>6, <1>7 DEF HomeInv

(* A step that only moves one request goes on with a mahalla that is open, *)
(* or was checked before, or to a removal that counted no users.           *)
LEMMA MoveStep ==
    ASSUME HomeInv, [Next]_vars, NEW r \in Requests,
           UNCHANGED <<user, moved, removed, closed, closedBy>>,
           \A x \in Requests \ {r} : pc'[x] = pc[x],
           Checked(r)' => (pc[r] \in Waits /\ Checked(r)) \/ MahallaOf[r] \cap closed = {},
           pc'[r] = "removing-mahalla" => \A u \in Present : user[u].home # MahallaOf[r]
    PROVE  HomeInv'
  <1>1. /\ ControlInv' /\ PlacesOK' /\ Sent \subseteq Sent'
        /\ \A x \in Requests : pc[x] \in Waits => x \in Sent
    BY NotedStays
  <1>2. RowsOK' BY <1>1 DEF HomeInv, RowsOK
  <1>3. HomeWaits \subseteq Waits BY DEF HomeWaits, Waits, UserWaits, MahallaWaits
  <1>4. \A x \in Requests : Checked(x) => pc[x] \in Waits BY <1>3 DEF Checked, HomeWaits
  <1>5. CheckedOpen'
    <2> SUFFICES ASSUME NEW x \in Requests, Checked(x)', NEW m \in MahallaOf[x] \cap closed
                 PROVE  ClosedSince(m, x)'
      BY DEF CheckedOpen
    <2>1. Checked(x) BY DEF Checked
    <2>2. x \in Sent /\ ClosedSince(m, x) BY <1>1, <1>4, <2>1 DEF HomeInv, CheckedOpen
    <2> QED BY <2>2, SinceStays
  <1>6. CountedEmpty'
    <2> SUFFICES ASSUME NEW d \in Requests, pc'[d] = "removing-mahalla", NEW u \in Present,
                        user[u].home = MahallaOf[d]
                 PROVE  CameSince(d, u)'
      BY DEF CountedEmpty, Present
    <2>1. d # r /\ pc[d] = "removing-mahalla" OBVIOUS
    <2>2. d \in Sent /\ CameSince(d, u) BY <1>1, <1>3, <2>1 DEF HomeInv, CountedEmpty, HomeWaits
    <2>3. u \in Users BY DEF HomeInv, RowsOK, Present
    <2> QED BY <2>2, <2>3, SinceStays
  <1>7. RemovedMahallaIsEmpty'
    <2> SUFFICES ASSUME NEW u \in Present, NEW m \in user[u].home \cap closed
                 PROVE  Explained(u, m)'
      BY DEF RemovedMahallaIsEmpty, Explained, CameSince, Present
    <2>1. Explained(u, m) BY ExplainedIsEmpty DEF HomeInv
    <2>2. u \in Users BY DEF HomeInv, RowsOK, Present
    <2> QED BY <2>1, <2>2, ExplainedStays
  <1> QED BY <1>1, <1>2, <1>5, <1>6, <1>7 DEF HomeInv

(* The reads and checks of a registration, a new user and an update. *)
LEMMA CheckSteps ==
    ASSUME HomeInv, [Next]_vars, NEW r \in Requests,
           CallUser(r) \/ CheckMahalla(r) \/ CheckPhone(r) \/ ReadTarget(r)
    PROVE  HomeInv'
  <1>1. pc \in [Requests -> {"unsent"} \cup Waits \cup Ends] /\ PlaceOK(r, pc[r], DOMAIN user)
    BY DEF HomeInv, ControlInv, ControlOK, PlacesOK
  <1>2. /\ UNCHANGED <<user, moved, removed, closed, closedBy>>
        /\ \A x \in Requests \ {r} : pc'[x] = pc[x]
        /\ pc'[r] # "removing-mahalla"
    BY <1>1 DEF CallUser, CheckMahalla, CheckPhone, ReadTarget, Placing, Arrive, Step, Goto,
                userVars, mahallaVars
  <1>3. Checked(r)' => (pc[r] \in Waits /\ Checked(r)) \/ MahallaOf[r] \cap closed = {}
    <2>1. CASE CallUser(r)
      BY <1>1, <2>1 DEF CallUser, Arrive, Goto, Checked, Creates
    <2>2. CASE CheckMahalla(r)
      BY <1>1, <2>2 DEF CheckMahalla, Step, Goto, Checked, MahallaFound, OpenMahallas
    <2>3. CASE CheckPhone(r)
      BY <1>1, <2>3 DEF CheckPhone, Placing, Step, Goto, Checked, Waits, UserWaits
    <2>4. CASE ReadTarget(r)
      BY <1>1, <2>4 DEF ReadTarget, Placing, Step, Goto, Checked, PlaceOK
    <2> QED BY <2>1, <2>2, <2>3, <2>4
  <1> QED BY <1>2, <1>3, MoveStep

(* A mahalla about to be removed has no users when they are counted. *)
LEMMA CountUsersStep ==
    ASSUME HomeInv, [Next]_vars, NEW r \in Requests, UNCHANGED <<userVars, tokenVars>>,
           CountUsers(r, \E u \in Present : user[u].home \subseteq MahallaOf[r]
                                              /\ user[u].home # {})
    PROVE  HomeInv'
  <1>1. pc \in [Requests -> {"unsent"} \cup Waits \cup Ends] /\ PlaceOK(r, pc[r], DOMAIN user)
    BY DEF HomeInv, ControlInv, ControlOK, PlacesOK
  <1>2. pc[r] = "counting-users" /\ OpOf[r] \in MahallaOps
    BY <1>1 DEF CountUsers, Step, PlaceOK, MahallaWaits
  <1>3. MahallaOf[r] # {} BY <1>2, AccountsAssumption
  <1>4. /\ UNCHANGED <<user, moved, removed, closed, closedBy>>
        /\ \A x \in Requests \ {r} : pc'[x] = pc[x]
        /\ pc'[r] \in {"refused", "removing-mahalla"}
        /\ pc'[r] = "removing-mahalla" =>
              ~ \E u \in Present : user[u].home \subseteq MahallaOf[r] /\ user[u].home # {}
    BY <1>1 DEF CountUsers, Step, Goto, userVars, mahallaVars
  <1>5. ~Checked(r)' BY <1>4 DEF Checked
  <1>6. pc'[r] = "removing-mahalla" => \A u \in Present : user[u].home # MahallaOf[r]
    BY <1>3, <1>4
  <1> QED BY <1>4, <1>5, <1>6, MoveStep

(* A removal notes the users who came since the count. *)
LEMMA RemoveMahallaStep ==
    ASSUME HomeInv, [Next]_vars, NEW d \in Requests, RemoveMahalla(d),
           UNCHANGED <<userVars, tokenVars>>
    PROVE  HomeInv'
  <1>1. /\ ControlInv' /\ PlacesOK' /\ Sent \subseteq Sent'
        /\ \A q, r \in Sent : Overlap(q, r)' <=> Overlap(q, r)
        /\ \A q, r \in UnderWay : q \in Sent /\ r \in Sent /\ Overlap(q, r)
        /\ \A x \in Requests : pc[x] \in Waits => x \in UnderWay
    BY NotedStays
  <1>2. pc \in [Requests -> {"unsent"} \cup Waits \cup Ends] /\ PlaceOK(d, pc[d], DOMAIN user)
    BY DEF HomeInv, ControlInv, ControlOK, PlacesOK
  <1>3. /\ pc[d] = "removing-mahalla" /\ closedBy' = closedBy \cup {d}
        /\ closed' = closed \cup {Target(d)} /\ UNCHANGED <<user, moved, removed>>
        /\ \A x \in Requests \ {d} : pc'[x] = pc[x]
        /\ pc'[d] \in {"auditing-mahalla", "failed"}
    BY <1>2 DEF RemoveMahalla, Resolve, Step, Goto, userVars
  <1>4. OpOf[d] \in MahallaOps /\ d \in UnderWay /\ d \in Sent
    BY <1>1, <1>2, <1>3 DEF PlaceOK, Waits, MahallaWaits
  <1>5. MahallaOf[d] = {Target(d)}
    BY <1>4, AccountsAssumption DEF Target
  <1>6. RowsOK' BY <1>1, <1>3, <1>4 DEF HomeInv, RowsOK
  <1>7. HomeWaits \subseteq Waits BY DEF HomeWaits, Waits, UserWaits, MahallaWaits
  <1>8. CheckedOpen'
    <2> SUFFICES ASSUME NEW x \in Requests, Checked(x)', NEW m \in MahallaOf[x] \cap closed'
                 PROVE  ClosedSince(m, x)'
      BY DEF CheckedOpen
    <2>1. x # d /\ Checked(x) /\ x \in UnderWay /\ x \in Sent
      BY <1>1, <1>3, <1>7 DEF Checked, HomeWaits
    <2>2. CASE m \in closed
      <3>1. ClosedSince(m, x) BY <2>1, <2>2 DEF HomeInv, CheckedOpen
      <3> QED BY <1>3, <2>1, <3>1, SinceStays
    <2>3. CASE m = Target(d)
      <3>1. Overlap(d, x)' BY <1>1, <1>4, <2>1
      <3> QED BY <1>3, <1>5, <2>3, <3>1 DEF ClosedSince
    <2> QED BY <1>3, <2>2, <2>3
  <1>9. \A u \in Present : u \in Users /\ moved'[u] = moved[u]
    BY <1>3 DEF HomeInv, RowsOK, Present
  <1>10. CountedEmpty'
    <2> SUFFICES ASSUME NEW x \in Requests, pc'[x] = "removing-mahalla", NEW u \in Present,
                        user[u].home = MahallaOf[x]
                 PROVE  CameSince(x, u)'
      BY <1>3 DEF CountedEmpty, Present
    <2>1. pc[x] = "removing-mahalla" BY <1>3
    <2>2. x \in Sent /\ CameSince(x, u)
      BY <1>1, <1>7, <2>1 DEF HomeInv, CountedEmpty, HomeWaits
    <2> QED BY <1>3, <1>9, <2>2, SinceStays
  <1>11. RemovedMahallaIsEmpty'
    <2> SUFFICES ASSUME NEW u \in Present, NEW m \in user[u].home \cap closed'
                 PROVE  Explained(u, m)'
      BY <1>3 DEF RemovedMahallaIsEmpty, Explained, CameSince, Present
    <2>1. CASE m \in closed
      <3>1. Explained(u, m) BY <2>1, ExplainedIsEmpty DEF HomeInv
      <3> QED BY <1>3, <1>9, <3>1, ExplainedStays
    <2>2. CASE m = Target(d)
      <3>1. user[u].home = MahallaOf[d] BY <1>5, <2>2 DEF HomeInv, RowsOK, Homes, Present
      <3>2. CameSince(d, u) BY <1>3, <3>1 DEF HomeInv, CountedEmpty
      <3>3. CameSince(d, u)' BY <1>3, <1>4, <1>9, <3>2, SinceStays
      <3> QED BY <1>3, <1>5, <2>2, <3>3 DEF Explained
    <2> QED BY <1>3, <2>1, <2>2
  <1> QED BY <1>1, <1>6, <1>8, <1>10, <1>11 DEF HomeInv

(* What a user row that was written says of the mahalla. *)
Written(r) ==
    /\ pc[r] \in {"inserting-user", "updating-user"}
    /\ pc'[r] \notin HomeWaits
    /\ \A x \in Requests \ {r} : pc'[x] = pc[x]
    /\ UNCHANGED <<removed, closed, closedBy>>
    /\ DOMAIN user' = DOMAIN user \cup {UserOf[r]}
    /\ \A u \in DOMAIN user \ {UserOf[r]} : user'[u] = user[u]
    /\ MahallaOf[r] # {} => user'[UserOf[r]].home = MahallaOf[r]
                            /\ moved' = [moved EXCEPT ![UserOf[r]] = {r}]
    /\ MahallaOf[r] = {} => /\ moved' = moved
                            /\ \/ user'[UserOf[r]].home = {}
                               \/ UserOf[r] \in DOMAIN user
                                  /\ user'[UserOf[r]].home = user[UserOf[r]].home

(* An insert or update of a user that is written says so. *)
LEMMA WriteIsWritten ==
    ASSUME HomeInv, NEW r \in Requests, InsertUser(r) \/ UpdateUser(r),
           Owners(r) \subseteq {UserOf[r]}
    PROVE  Written(r)
  <1>1. /\ pc \in [Requests -> {"unsent"} \cup Waits \cup Ends] /\ PlaceOK(r, pc[r], DOMAIN user)
        /\ moved \in [Users -> SUBSET Sent]
    BY DEF HomeInv, ControlInv, ControlOK, PlacesOK, RowsOK
  <1>2. UserOf[r] \in Users BY AccountsAssumption
  <1>3. CASE InsertUser(r)
    <2> DEFINE row == [phone |-> Given(PhoneOf[r], ""), role |-> Given(RoleOf[r], ""),
                       home |-> MahallaOf[r]]
    <2>1. /\ user' = Put(user, UserOf[r], row) /\ row.home = MahallaOf[r]
          /\ moved' = [moved EXCEPT ![UserOf[r]] = IF MahallaOf[r] # {} THEN {r} ELSE @]
          /\ UNCHANGED <<removed, closed, closedBy>>
          /\ Resolve(r, "inserting-user",
                     IF RoleOf[r] = {"STAFF"} THEN "creating-profile" ELSE Answer(r))
      BY <1>3 DEF InsertUser, WriteUser, mahallaVars
    <2>2. /\ pc[r] = "inserting-user" /\ pc'[r] \notin HomeWaits
          /\ \A x \in Requests \ {r} : pc'[x] = pc[x]
      BY <1>1, <2>1 DEF Resolve, Step, Goto, Answer, HomeWaits
    <2>3. /\ DOMAIN user' = DOMAIN user \cup {UserOf[r]} /\ user'[UserOf[r]] = row
          /\ \A u \in DOMAIN user \ {UserOf[r]} : user'[u] = user[u]
      BY <2>1 DEF Put
    <2> HIDE DEF row
    <2>4. MahallaOf[r] = {} => moved' = moved
      BY <1>1, <1>2, <2>1
    <2> QED BY <1>1, <1>2, <2>1, <2>2, <2>3, <2>4 DEF Written
  <1>4. CASE UpdateUser(r)
    <2> DEFINE old == user[UserOf[r]]
               row == [phone |-> Given(PhoneOf[r], old.phone),
                       role |-> Given(RoleOf[r], old.role),
                       home |-> IF MahallaOf[r] # {} THEN MahallaOf[r] ELSE old.home]
    <2>1. /\ user' = Put(user, UserOf[r], row)
          /\ row.home = IF MahallaOf[r] # {} THEN MahallaOf[r] ELSE old.home
          /\ moved' = [moved EXCEPT ![UserOf[r]] = IF MahallaOf[r] # {} THEN {r} ELSE @]
          /\ UNCHANGED <<removed, closed, closedBy>>
          /\ Resolve(r, "updating-user", ProfileStep(r))
      BY <1>4 DEF UpdateUser, WriteUser, mahallaVars
    <2>2. /\ pc[r] = "updating-user" /\ pc'[r] \notin HomeWaits
          /\ \A x \in Requests \ {r} : pc'[x] = pc[x]
      BY <1>1, <2>1 DEF Resolve, Step, Goto, ProfileStep, HomeWaits
    <2>3. UserOf[r] \in DOMAIN user BY <1>1, <2>2 DEF PlaceOK
    <2>4. /\ DOMAIN user' = DOMAIN user \cup {UserOf[r]} /\ user'[UserOf[r]] = row
          /\ \A u \in DOMAIN user \ {UserOf[r]} : user'[u] = user[u]
      BY <2>1 DEF Put
    <2> HIDE DEF row
    <2>5. MahallaOf[r] = {} => moved' = moved
      BY <1>1, <1>2, <2>1
    <2> QED BY <1>1, <1>2, <2>1, <2>2, <2>3, <2>4, <2>5 DEF Written
  <1> QED BY <1>3, <1>4

(* A user who is given a mahalla is given one that was open when checked. *)
LEMMA WrittenStep ==
    ASSUME HomeInv, [Next]_vars, NEW r \in Requests, Written(r)
    PROVE  HomeInv'
  <1>1. /\ ControlInv' /\ PlacesOK' /\ Sent \subseteq Sent'
        /\ \A x, y \in Sent : Overlap(x, y)' <=> Overlap(x, y)
        /\ \A x, y \in UnderWay : x \in Sent /\ y \in Sent /\ Overlap(x, y)
        /\ \A x \in Requests : pc[x] \in Waits => x \in UnderWay
    BY NotedStays
  <1>2. r \in UnderWay /\ r \in Sent /\ Checked(r)
    <2>1. pc[r] \in {"inserting-user", "updating-user"} BY DEF Written
    <2>2. pc[r] \in Waits BY <2>1 DEF Waits, UserWaits
    <2>3. r \in UnderWay BY <1>1, <2>2
    <2> QED BY <2>1, <2>3 DEF Checked, UnderWay
  <1>3. UserOf[r] \in Users /\ MahallaOf[r] \in Homes
    BY AccountsAssumption DEF Homes
  <1>4. RowsOK'
    <2>1. moved' \in [Users -> SUBSET Sent'] /\ closedBy' \subseteq Sent'
      BY <1>1, <1>2, <1>3 DEF HomeInv, RowsOK, Written
    <2>2. DOMAIN user' \subseteq Users
      BY <1>3 DEF HomeInv, RowsOK, Written
    <2>3. \A u \in DOMAIN user' : user'[u].home \in Homes
      BY <1>3 DEF HomeInv, RowsOK, Written, Homes
    <2> QED BY <2>1, <2>2, <2>3 DEF RowsOK
  <1>5. HomeWaits \subseteq Waits BY DEF HomeWaits, Waits, UserWaits, MahallaWaits
  <1>6. CheckedOpen'
    <2> SUFFICES ASSUME NEW x \in Requests, Checked(x)', NEW m \in MahallaOf[x] \cap closed'
                 PROVE  ClosedSince(m, x)'
      BY DEF CheckedOpen
    <2>1. Checked(x) /\ x \in Sent BY <1>1, <1>5 DEF Checked, HomeWaits, Written
    <2>2. ClosedSince(m, x) BY <2>1 DEF HomeInv, CheckedOpen, Written
    <2> QED BY <2>1, <2>2, SinceStays DEF Written
  <1>7. ASSUME NEW u \in Present', user'[u].home # {}
        PROVE  \/ u = UserOf[r] /\ MahallaOf[r] # {}
               \/ u \in Present /\ u \in Users /\ user'[u].home = user[u].home
                  /\ moved'[u] = moved[u]
    BY <1>3, <1>7 DEF HomeInv, RowsOK, Present, Written
  <1>8. CountedEmpty'
    <2> SUFFICES ASSUME NEW d \in Requests, pc'[d] = "removing-mahalla", NEW u \in Present',
                        user'[u].home = MahallaOf[d]
                 PROVE  CameSince(d, u)'
      BY DEF CountedEmpty
    <2>1. pc[d] = "removing-mahalla" /\ d \in UnderWay /\ d \in Sent
      BY <1>1, <1>5 DEF Written, HomeWaits
    <2>2. OpOf[d] \in MahallaOps BY <2>1 DEF HomeInv, PlacesOK, PlaceOK, MahallaWaits
    <2>3. user'[u].home # {} BY <2>2, AccountsAssumption
    <2>4. CASE u = UserOf[r] /\ MahallaOf[r] # {}
      <3>1. r \in moved'[u] BY <1>3, <2>4 DEF Written, HomeInv, RowsOK
      <3>2. Overlap(d, r)' BY <1>1, <1>2, <2>1
      <3> QED BY <3>1, <3>2 DEF CameSince
    <2>5. CASE u \in Present /\ u \in Users /\ user'[u].home = user[u].home
               /\ moved'[u] = moved[u]
      <3>1. CameSince(d, u) BY <2>1, <2>5 DEF HomeInv, CountedEmpty
      <3> QED BY <2>1, <2>5, <3>1, SinceStays DEF Written
    <2> QED BY <1>7, <2>3, <2>4, <2>5
  <1>9. RemovedMahallaIsEmpty'
    <2> SUFFICES ASSUME NEW u \in Present', NEW m \in user'[u].home \cap closed'
                 PROVE  Explained(u, m)'
      BY DEF RemovedMahallaIsEmpty, Explained, CameSince
    <2>1. CASE u = UserOf[r] /\ MahallaOf[r] # {}
      <3>1. m \in MahallaOf[r] \cap closed /\ r \in moved'[u]
        BY <1>3, <2>1 DEF Written, HomeInv, RowsOK
      <3>2. ClosedSince(m, r)' BY <1>2, <3>1, SinceStays DEF HomeInv, CheckedOpen, Written
      <3> QED BY <3>1, <3>2 DEF ClosedSince, Explained, CameSince
    <2>2. CASE u \in Present /\ u \in Users /\ user'[u].home = user[u].home
               /\ moved'[u] = moved[u]
      <3>1. Explained(u, m) BY <2>2, ExplainedIsEmpty DEF HomeInv, Written
      <3> QED BY <2>2, <3>1, ExplainedStays DEF Written
    <2> QED BY <1>7, <2>1, <2>2
  <1> QED BY <1>1, <1>4, <1>6, <1>8, <1>9 DEF HomeInv

(* So does an insert or update, written or refused. *)
LEMMA WriteStep ==
    ASSUME HomeInv, [Next]_vars, NEW r \in Requests, InsertUser(r) \/ UpdateUser(r)
    PROVE  HomeInv'
  <1>1. CASE Owners(r) \subseteq {UserOf[r]}
    BY <1>1, WriteIsWritten, WrittenStep
  <1>2. CASE ~(Owners(r) \subseteq {UserOf[r]})
    <2>1. PICK p \in {"inserting-user", "updating-user"} :
             Step(r, p, "failed") /\ UNCHANGED <<user, moved, removed, closed, closedBy>>
      BY <1>2 DEF InsertUser, UpdateUser, WriteUser, mahallaVars
    <2>2. pc'[r] = "failed" /\ \A x \in Requests \ {r} : pc'[x] = pc[x]
      BY <2>1 DEF HomeInv, ControlInv, ControlOK, Step, Goto
    <2> QED BY <2>1, <2>2, MoveStep DEF Checked
  <1> QED BY <1>1, <1>2

(* The mahallas' part of the invariant. *)
LEMMA HomeInvariant == Spec => []HomeInv
  <1>1. Init => HomeInv
    <2> SUFFICES ASSUME Init PROVE HomeInv OBVIOUS
    <2>1. ControlInv BY ControlStarts DEF Init, ControlInv
    <2>2. \A r \in Requests : pc[r] = "unsent" BY DEF Init, ControlInit
    <2>3. RowsOK
      BY AccountsAssumption DEF Init, MahallasInit, RowsOK, Homes
    <2>4. PlacesOK /\ CheckedOpen /\ CountedEmpty
      BY <2>2 DEF PlacesOK, PlaceOK, MahallaWaits, CheckedOpen, Checked, CountedEmpty
    <2>5. RemovedMahallaIsEmpty BY DEF Init, MahallasInit, RemovedMahallaIsEmpty
    <2> QED BY <2>1, <2>3, <2>4, <2>5 DEF HomeInv
  <1>2. HomeInv /\ [Next]_vars => HomeInv'
    <2> SUFFICES ASSUME HomeInv, [Next]_vars PROVE HomeInv' OBVIOUS
    <2>1. CASE Still BY <2>1, StillStep
    <2>2. ASSUME NEW r \in Requests,
                 CallUser(r) \/ CheckMahalla(r) \/ CheckPhone(r) \/ ReadTarget(r)
          PROVE  HomeInv'
      BY <2>2, CheckSteps
    <2>3. ASSUME NEW r \in Requests, InsertUser(r) \/ UpdateUser(r) PROVE HomeInv'
      BY <2>3, WriteStep
    <2>4. ASSUME NEW r \in Requests, RemoveMahalla(r), UNCHANGED <<userVars, tokenVars>>
          PROVE  HomeInv'
      BY <2>4, RemoveMahallaStep
    <2>5. ASSUME NEW r \in Requests, UNCHANGED <<userVars, tokenVars>>,
                 CountUsers(r, \E u \in Present : user[u].home \subseteq MahallaOf[r]
                                                    /\ user[u].home # {})
          PROVE  HomeInv'
      BY <2>5, CountUsersStep
    <2> QED BY <2>1, <2>2, <2>3, <2>4, <2>5, HomeSteps DEF HomeInv
  <1> QED BY <1>1, <1>2, PTL DEF Spec

(* A mahalla that mahallas.remove removed has no users but those who came  *)
(* by a registration, new user or update that overlapped the removal.      *)
THEOREM RemovedMahallasAreEmpty == Spec => []RemovedMahallaIsEmpty
  <1>1. HomeInv => RemovedMahallaIsEmpty BY DEF HomeInv
  <1> QED BY <1>1, HomeInvariant, PTL
-----------------------------------------------------------------------------
(***************************************************************************)
(* The profiles of users.                                                  *)
(***************************************************************************)
Writer(r) == Creates(r) \/ OpOf[r] = "updateUser"

WritesOf(u) == {r \in Sent : UserOf[r] = u /\ Writer(r)}

(* Two writes that overlapped, or one that failed, may leave anything.     *)
Spoiled(u) ==
    \/ \E r \in WritesOf(u) : pc[r] \in {"failed", "lost"}
    \/ \E q, r \in WritesOf(u) : q # r /\ Overlap(q, r)

Placed    == {"checking-mahalla", "checking-phone", "updating-user"}
Profiling == {"creating-profile", "deleting-profile"}

(* Only writes are where users are written, with the row there; a creation *)
(* has no row before it is inserted.                                       *)
WriterOK(r, p, U) ==
    /\ p \in Placed \cup Profiling \cup {"inserting-user", "reading-target", "updating-profile"}
          => Writer(r)
    /\ p \in Profiling => UserOf[r] \in U
    /\ Creates(r) /\ UserOf[r] \in U => p \in {"creating-profile", "auditing"} \cup Ends

WritersOK ==
    /\ profiles \subseteq DOMAIN user
    /\ \A r \in Requests : WriterOK(r, pc[r], DOMAIN user)

Fits(u) == u \in profiles <=> user[u].role = "STAFF"

(* What an update read is still so, and what remains to be done with the   *)
(* profile is right.                                                       *)
Informed(r) ==
    LET u == UserOf[r] IN
    /\ pc[r] \in Placed /\ ~Creates(r) =>
          /\ r \in DOMAIN target
          /\ target[r].row.role = user[u].role
          /\ target[r].profile <=> u \in profiles
    /\ pc[r] = "creating-profile" => user[u].role = "STAFF"
    /\ pc[r] = "deleting-profile" => user[u].role # "STAFF"

UserOK(u) ==
    \/ Spoiled(u)
    \/ /\ Fits(u) \/ \E r \in WritesOf(u) : pc[r] \in Profiling
       /\ \A r \in WritesOf(u) : Informed(r)

ProfilesOK == \A u \in DOMAIN user : UserOK(u)

ProfileInv == ControlInv /\ PlacesOK /\ WritersOK /\ ProfilesOK

(* All that most steps do to a request that writes a user. *)
CalmMove(r) ==
    \/ pc'[r] \in {pc[r], "failed", "lost"}
    \/ /\ pc[r] \notin Profiling /\ pc'[r] \notin Profiling
       /\ pc'[r] \in Placed => Creates(r) \/ pc[r] \in Placed

Calm ==
    /\ UNCHANGED <<profiles, target>> /\ user' = user
    /\ \A r \in Requests : CalmMove(r)

(* A step that matters to profiles is one of five. *)
LEMMA ProfileSteps ==
    ASSUME ControlInv, PlacesOK, [Next]_vars
    PROVE  \/ Calm
           \/ \E r \in Requests :
                 \/ InsertUser(r) \/ UpdateUser(r) \/ ReadTarget(r)
                 \/ CreateProfile(r) \/ DeleteProfile(r)
  <1> USE DEF ControlInv
  <1>a. ASSUME NEW r \in Requests, NEW p \in Waits \cup Ends \cup {"unsent"},
               NEW q \in Waits \cup Ends,
               pc[r] = p, Goto(r, q) \/ Goto(r, "failed"),
               \/ p \notin Profiling /\ q \notin Profiling /\ q \notin Placed
               \/ p \notin Profiling /\ q \notin Profiling /\ (p \in Placed \/ Creates(r)),
               UNCHANGED <<profiles, target>>, user' = user
        PROVE  Calm
    BY <1>a DEF Calm, CalmMove, ControlOK, Goto
  <1>b. ASSUME NEW r \in Requests, NEW p \in Waits, NEW q \in Waits \cup Ends,
               Step(r, p, q) \/ Resolve(r, p, q),
               \/ p \notin Profiling /\ q \notin Profiling /\ q \notin Placed
               \/ p \notin Profiling /\ q \notin Profiling /\ (p \in Placed \/ Creates(r)),
               UNCHANGED <<profiles, target>>, user' = user
        PROVE  Calm
    BY <1>a, <1>b DEF Step, Resolve
  <1>c. ASSUME NEW r \in Requests, NEW q \in Waits \cup Ends, Arrive(r, q),
               q \notin Profiling, q \notin Placed \/ Creates(r),
               UNCHANGED <<profiles, target>>, user' = user
        PROVE  Calm
    <2>1. "unsent" \notin Profiling BY DEF Profiling
    <2> QED BY <1>a, <1>c, <2>1 DEF Arrive
  <1> USE DEF Waits, UserWaits, MahallaWaits, Ends, userVars, tokenVars, mahallaVars,
              Placed, Profiling
  <1>1. ASSUME NEW r \in Requests, CallUser(r) PROVE Calm
    BY <1>1, <1>c DEF CallUser
  <1>2. ASSUME NEW r \in Requests, CheckMahalla(r) PROVE Calm
    BY <1>2, <1>b DEF CheckMahalla
  <1>3. ASSUME NEW r \in Requests, CheckPhone(r) PROVE Calm
    BY <1>3, <1>b DEF CheckPhone, Placing
  <1>4. ASSUME NEW r \in Requests, UpdateProfile(r) PROVE Calm
    BY <1>4, <1>b DEF UpdateProfile
  <1>5. ASSUME NEW r \in Requests, ReadRemoved(r) \/ RemoveUser(r) \/ Audit(r) PROVE Calm
    BY <1>5, <1>b DEF ReadRemoved, RemoveUser, Audit
  <1>6. ASSUME NEW r \in Requests, CallSession(r) PROVE Calm
    BY <1>6, <1>c DEF CallSession
  <1>7. ASSUME NEW r \in Requests, SignIn(r) \/ FindToken(r) \/ Revoke(r) \/ Issue(r)
        PROVE  Calm
    BY <1>7, <1>b DEF SignIn, FindToken, Revoke, Issue
  <1>8. ASSUME NEW r \in Requests, CallMahalla(r), UNCHANGED <<userVars, tokenVars>>
        PROVE  Calm
    BY <1>8, <1>c DEF CallMahalla
  <1>9. ASSUME NEW r \in Requests, UNCHANGED <<userVars, tokenVars>>,
               ReadMahalla(r) \/ UpsertRegion(r) \/ UpsertDistrict(r) \/ UpsertMahalla(r)
        PROVE  Calm
    BY <1>9, <1>b DEF ReadMahalla, UpsertRegion, UpsertDistrict, UpsertMahalla
  <1>10. ASSUME NEW r \in Requests, UNCHANGED <<userVars, tokenVars>>,
                UpdateMahalla(r) \/ RemoveMahalla(r) \/ AuditMahalla(r)
         PROVE  Calm
    BY <1>10, <1>b DEF UpdateMahalla, Conflict, RemoveMahalla, AuditMahalla
  <1>11. ASSUME NEW r \in Requests, NEW b, CountUsers(r, b), UNCHANGED <<userVars, tokenVars>>
         PROVE  Calm
    BY <1>11, <1>b DEF CountUsers
  <1>12. ASSUME NEW r \in Requests, Fail(r) PROVE Calm
    BY <1>12 DEF Fail, Calm, CalmMove, Reject, Goto, ControlOK
  <1>13. CASE Crash BY <1>13 DEF Crash, Calm, CalmMove, Die, ControlOK
  <1>14. CASE UNCHANGED vars BY <1>14 DEF vars, Calm, CalmMove, control
  <1> QED
    BY <1>1, <1>2, <1>3, <1>4, <1>5, <1>6, <1>7, <1>8, <1>9, <1>10, <1>11, <1>12, <1>13, <1>14
       DEF Next, HandleUser, HandleMahalla

(* Each write keeps to its places. *)
LEMMA WritersStep ==
    ASSUME ControlInv, PlacesOK, WritersOK, [Next]_vars
    PROVE  WritersOK'
  <1>k. PlacesOK' /\ DOMAIN user \subseteq DOMAIN user' /\ ControlInv'
    BY PlacesStep, Control DEF PlacesKept, ControlInv, Kept
  <1>t. pc \in [Requests -> {"unsent"} \cup Waits \cup Ends] BY DEF ControlInv, ControlOK
  <1>a. ASSUME NEW r \in Requests, NEW p \in Waits \cup Ends, Goto(r, p),
               WriterOK(r, p, DOMAIN user), DOMAIN user' = DOMAIN user,
               profiles' \subseteq DOMAIN user
        PROVE  WritersOK'
    <2>1. pc' = [pc EXCEPT ![r] = p] BY <1>a DEF Goto
    <2>2. \A x \in Requests : WriterOK(x, pc'[x], DOMAIN user)
      BY <1>a, <1>t, <2>1 DEF WritersOK
    <2> QED BY <1>a, <2>2 DEF WritersOK
  <1>b. ASSUME NEW r \in Requests, NEW p \in Waits, NEW q \in Waits \cup Ends,
               Resolve(r, p, q) \/ Step(r, p, q), WriterOK(r, q, DOMAIN user),
               DOMAIN user' = DOMAIN user, profiles' \subseteq DOMAIN user
        PROVE  WritersOK'
    <2>1. WriterOK(r, "failed", DOMAIN user) /\ "failed" \in Ends
      BY DEF Ends, WriterOK, Placed, Profiling
    <2> QED BY <1>a, <1>b, <2>1 DEF Resolve, Step
  <1>c. ASSUME NEW r \in Requests, NEW p \in Waits, NEW q \in Waits \cup Ends,
               Resolve(r, p, q) \/ Step(r, p, q)
        PROVE  pc[r] = p /\ WriterOK(r, p, DOMAIN user) /\ PlaceOK(r, p, DOMAIN user)
    BY <1>c DEF Resolve, Step, WritersOK, PlacesOK
  <1>d. ASSUME NEW r \in Requests, pc[r] = "unsent", Creates(r)
        PROVE  UserOf[r] \notin DOMAIN user
    BY <1>d DEF WritersOK, WriterOK, Ends
  <1>f. profiles \subseteq DOMAIN user BY DEF WritersOK
  <1>g. ASSUME NEW r \in Requests,
               NEW p \in MahallaWaits \cup {"signing-in", "finding-token", "revoking", "issuing",
                                            "reading-removed", "removing-user", "auditing"},
               NEW q \in MahallaWaits \cup Ends \cup {"issuing", "revoking", "removing-user",
                                                      "auditing"},
               Resolve(r, p, q) \/ Step(r, p, q), p = "auditing" => q \in Ends,
               user' = user, profiles' = profiles
        PROVE  WritersOK'
    <2>1. p \in Waits /\ q \in Waits \cup Ends BY DEF Waits, UserWaits
    <2>2. WriterOK(r, p, DOMAIN user) BY <1>c, <1>g, <2>1
    <2>3. p # "creating-profile" /\ p \notin Ends BY DEF MahallaWaits, Ends
    <2>4. q \notin Placed \cup Profiling \cup {"inserting-user", "reading-target",
                                                "updating-profile"}
      BY DEF MahallaWaits, Ends, Placed, Profiling
    <2>5. WriterOK(r, q, DOMAIN user) BY <1>g, <2>2, <2>3, <2>4 DEF WriterOK
    <2> QED BY <1>b, <1>f, <1>g, <2>1, <2>5
  <1>h. ASSUME NEW r \in Requests, pc[r] = "unsent", user' = user, profiles' = profiles,
               NEW q \in (Waits \cup Ends) \ Profiling, Goto(r, q),
               q \in Placed \cup {"inserting-user", "reading-target", "updating-profile"}
                  => Writer(r)
        PROVE  WritersOK'
    <2>1. WriterOK(r, q, DOMAIN user) BY <1>d, <1>h DEF WriterOK
    <2> QED BY <1>a, <1>f, <1>h, <2>1
  <1> USE DEF userVars, tokenVars, mahallaVars
  <1>1. ASSUME NEW r \in Requests, CallUser(r) PROVE WritersOK'
    <2>1. PICK q \in {"checking-mahalla", "checking-phone", "reading-target", "reading-removed",
                      "inserting-user", "refused"} :
             /\ Arrive(r, q) /\ user' = user /\ profiles' = profiles
             /\ q \notin {"reading-removed", "refused"} => Writer(r)
      BY <1>1 DEF CallUser, Writer, Creates
    <2>2. q \in (Waits \cup Ends) \ Profiling BY DEF Waits, UserWaits, Ends, Profiling
    <2>3. q \in {"reading-removed", "refused"} => q \notin Placed BY DEF Placed
    <2> QED BY <1>h, <2>1, <2>2, <2>3 DEF Arrive
  <1>2. ASSUME NEW r \in Requests, CheckMahalla(r) PROVE WritersOK'
    <2>1. PICK q \in {"refused", "checking-phone", "updating-user"} :
             Step(r, "checking-mahalla", q) /\ user' = user /\ profiles' = profiles
      BY <1>2 DEF CheckMahalla
    <2>2. {"checking-mahalla", q} \subseteq Waits \cup Ends /\ "checking-mahalla" \in Waits
      BY DEF Waits, UserWaits, Ends
    <2>3. WriterOK(r, "checking-mahalla", DOMAIN user) BY <1>c, <2>1, <2>2
    <2>4. WriterOK(r, q, DOMAIN user) BY <2>3 DEF WriterOK, Placed, Profiling, Ends
    <2> QED BY <1>b, <1>f, <2>1, <2>2, <2>4
  <1>3. ASSUME NEW r \in Requests, CheckPhone(r) PROVE WritersOK'
    <2>1. PICK q \in Placed \cup {"inserting-user", "refused"} :
             /\ Step(r, "checking-phone", q) /\ user' = user /\ profiles' = profiles
      BY <1>3 DEF CheckPhone, Placing, Placed
    <2>2. q \in Waits \cup Ends /\ "checking-phone" \in Waits
      BY DEF Waits, UserWaits, Ends, Placed
    <2>3. WriterOK(r, "checking-phone", DOMAIN user) BY <1>c, <2>1, <2>2
    <2>4. WriterOK(r, q, DOMAIN user) BY <2>3 DEF WriterOK, Placed, Profiling, Ends
    <2> QED BY <1>b, <1>f, <2>1, <2>2, <2>4
  <1>4. ASSUME NEW r \in Requests, InsertUser(r) \/ UpdateUser(r) PROVE WritersOK'
    <2>p. PICK p \in {"inserting-user", "updating-user"},
               q \in {"creating-profile", "updating-profile", "deleting-profile",
                      "auditing", "done"} :
             /\ p = "inserting-user" => InsertUser(r)
             /\ p = "updating-user" => UpdateUser(r)
             /\ p = "inserting-user" => q \in {"creating-profile", "auditing", "done"}
             /\ \/ Resolve(r, p, q) /\ \E row : user' = Put(user, UserOf[r], row)
                \/ Step(r, p, "failed") /\ user' = user
             /\ profiles' = profiles
      BY <1>4 DEF InsertUser, UpdateUser, WriteUser, Answer, ProfileStep
    <2>w. p \in Waits /\ q \in Waits \cup Ends /\ "failed" \in Ends
      BY DEF Waits, UserWaits, Ends
    <2>q. WriterOK(r, p, DOMAIN user) /\ PlaceOK(r, p, DOMAIN user) /\ Writer(r)
      BY <1>c, <2>p, <2>w DEF WriterOK, Placed
    <2>1. CASE user' = user /\ Step(r, p, "failed")
      <3>1. WriterOK(r, "failed", DOMAIN user) BY DEF WriterOK, Placed, Profiling, Ends
      <3> QED BY <1>b, <1>f, <2>p, <2>w, <2>1, <3>1
    <2>2. ASSUME NEW row, user' = Put(user, UserOf[r], row), Resolve(r, p, q)
          PROVE  WritersOK'
      <3>1. DOMAIN user' = DOMAIN user \cup {UserOf[r]} BY <2>2 DEF Put
      <3>2. pc'[r] \in {q, "failed"} /\ \A x \in Requests \ {r} : pc'[x] = pc[x]
        BY <1>t, <2>2 DEF Resolve, Step, Goto
      <3>3. CASE p = "inserting-user"
        <4>1. Creates(r) BY <2>q, <3>3 DEF PlaceOK
        <4>2. \A x \in Requests \ {r} : Creates(x) => UserOf[x] # UserOf[r]
          BY <4>1, NewUsersAssumption DEF Creates
        <4>3. WriterOK(r, pc'[r], DOMAIN user')
          BY <2>p, <2>q, <3>1, <3>2, <3>3 DEF WriterOK, Placed, Profiling, Ends
        <4>4. \A x \in Requests \ {r} : WriterOK(x, pc'[x], DOMAIN user')
          BY <3>1, <3>2, <4>2 DEF WritersOK, WriterOK
        <4> QED BY <1>f, <2>p, <3>1, <4>3, <4>4 DEF WritersOK
      <3>4. CASE p = "updating-user"
        <4>1. UserOf[r] \in DOMAIN user /\ ~Creates(r) BY <2>q, <3>4 DEF PlaceOK
        <4>2. WriterOK(r, q, DOMAIN user) BY <2>q, <4>1 DEF WriterOK
        <4> QED BY <1>b, <1>f, <2>2, <2>p, <2>w, <3>1, <4>1, <4>2
      <3> QED BY <2>p, <3>3, <3>4
    <2> QED BY <2>p, <2>1, <2>2
  <1>5. ASSUME NEW r \in Requests, CreateProfile(r) PROVE WritersOK'
    <2>1. PICK q \in {"auditing", "done", "failed"} :
             /\ Resolve(r, "creating-profile", q) \/ Step(r, "creating-profile", q)
             /\ user' = user /\ profiles' = profiles \cup {UserOf[r]}
      BY <1>5 DEF CreateProfile, Answer
    <2>2. q \in Waits \cup Ends /\ "creating-profile" \in Waits BY DEF Waits, UserWaits, Ends
    <2>3. WriterOK(r, "creating-profile", DOMAIN user) BY <1>c, <2>1, <2>2
    <2>4. UserOf[r] \in DOMAIN user BY <2>3 DEF WriterOK, Profiling
    <2>5. WriterOK(r, q, DOMAIN user) BY DEF WriterOK, Placed, Profiling, Ends
    <2> QED BY <1>b, <1>f, <2>1, <2>2, <2>4, <2>5
  <1>6. ASSUME NEW r \in Requests, ReadTarget(r) PROVE WritersOK'
    <2>1. PICK q \in {"refused", "checking-phone", "checking-mahalla", "updating-user"} :
             /\ Step(r, "reading-target", q) /\ user' = user /\ profiles' = profiles
      BY <1>6 DEF ReadTarget, Placing, Present
    <2>2. q \in Waits \cup Ends /\ "reading-target" \in Waits BY DEF Waits, UserWaits, Ends
    <2>3. WriterOK(r, "reading-target", DOMAIN user) /\ PlaceOK(r, "reading-target", DOMAIN user)
      BY <1>c, <2>1, <2>2
    <2>4. ~Creates(r) /\ Writer(r) BY <2>3 DEF WriterOK, PlaceOK
    <2>5. WriterOK(r, q, DOMAIN user) BY <2>4 DEF WriterOK, Profiling
    <2> QED BY <1>b, <1>f, <2>1, <2>2, <2>5
  <1>7. ASSUME NEW r \in Requests, UpdateProfile(r) \/ DeleteProfile(r) PROVE WritersOK'
    <2>1. PICK p \in {"updating-profile", "deleting-profile"}, q \in {"auditing", "failed"} :
             /\ Resolve(r, p, q) \/ Step(r, p, q)
             /\ user' = user /\ profiles' \subseteq profiles
      BY <1>7 DEF UpdateProfile, DeleteProfile
    <2>2. q \in Waits \cup Ends /\ p \in Waits BY DEF Waits, UserWaits, Ends
    <2>3. WriterOK(r, q, DOMAIN user) BY DEF WriterOK, Placed, Profiling, Ends
    <2> QED BY <1>b, <1>f, <2>1, <2>2, <2>3
  <1>8. ASSUME NEW r \in Requests, ReadRemoved(r) \/ RemoveUser(r) \/ Audit(r) PROVE WritersOK'
    BY <1>8, <1>g DEF ReadRemoved, RemoveUser, Audit, Ends
  <1>9. ASSUME NEW r \in Requests, CallSession(r) PROVE WritersOK'
    <2>1. PICK q \in {"signing-in", "finding-token"} :
             Arrive(r, q) /\ user' = user /\ profiles' = profiles
      BY <1>9 DEF CallSession
    <2>2. q \in (Waits \cup Ends) \ Profiling /\ q \notin Placed
      BY DEF Waits, UserWaits, Profiling, Placed
    <2> QED BY <1>h, <2>1, <2>2 DEF Arrive
  <1>10. ASSUME NEW r \in Requests, SignIn(r) \/ FindToken(r) \/ Revoke(r) \/ Issue(r)
         PROVE  WritersOK'
    <2>1. PICK p \in {"signing-in", "finding-token", "revoking", "issuing"},
               q \in {"issuing", "refused", "revoking", "done"} :
              /\ Resolve(r, p, q) \/ Step(r, p, q)
              /\ user' = user /\ profiles' = profiles
      BY <1>10 DEF SignIn, FindToken, Revoke, Issue
    <2> QED BY <1>g, <2>1 DEF Ends
  <1>11. ASSUME NEW r \in Requests, CallMahalla(r), UNCHANGED <<userVars, tokenVars>>
         PROVE  WritersOK'
    <2>1. PICK q \in {"upserting-region", "reading-mahalla"} :
             Arrive(r, q) /\ user' = user /\ profiles' = profiles
      BY <1>11 DEF CallMahalla
    <2>2. q \in (Waits \cup Ends) \ Profiling /\ q \notin Placed
      BY DEF Waits, MahallaWaits, Profiling, Placed
    <2> QED BY <1>h, <2>1, <2>2 DEF Arrive
  <1>12. ASSUME NEW r \in Requests, UNCHANGED <<userVars, tokenVars>>,
                ReadMahalla(r) \/ UpsertRegion(r) \/ UpsertDistrict(r) \/ UpsertMahalla(r)
         PROVE  WritersOK'
    BY <1>12, <1>g
       DEF ReadMahalla, UpsertRegion, UpsertDistrict, UpsertMahalla, MahallaWaits, Ends
  <1>13. ASSUME NEW r \in Requests, UNCHANGED <<userVars, tokenVars>>,
                UpdateMahalla(r) \/ RemoveMahalla(r) \/ AuditMahalla(r)
         PROVE  WritersOK'
    BY <1>13, <1>g DEF UpdateMahalla, Conflict, RemoveMahalla, AuditMahalla, MahallaWaits, Ends
  <1>14. ASSUME NEW r \in Requests, NEW b, CountUsers(r, b), UNCHANGED <<userVars, tokenVars>>
         PROVE  WritersOK'
    BY <1>14, <1>g DEF CountUsers, MahallaWaits, Ends
  <1>15. ASSUME NEW r \in Requests, Fail(r) PROVE WritersOK'
    <2>1. WriterOK(r, "failed", DOMAIN user) /\ "failed" \in Ends
      BY DEF WriterOK, Placed, Profiling, Ends
    <2> QED BY <1>15, <1>a, <1>f, <2>1 DEF Fail, Reject
  <1>16. CASE Crash
    <2>1. \A r \in Requests : WriterOK(r, "lost", DOMAIN user)
      BY DEF WriterOK, Placed, Profiling, Ends
    <2>2. \A r \in Requests : pc'[r] \in {pc[r], "lost"} BY <1>16, <1>t DEF Crash, Die
    <2> QED BY <1>16, <2>1, <2>2 DEF Crash, WritersOK
  <1>17. CASE UNCHANGED vars BY <1>17 DEF vars, control, WritersOK
  <1> QED
    BY <1>1, <1>2, <1>3, <1>4, <1>5, <1>6, <1>7, <1>8, <1>9, <1>10, <1>11, <1>12, <1>13,
       <1>14, <1>15, <1>16, <1>17
       DEF Next, HandleUser, HandleMahalla

(* What every step keeps of the writes of users. *)
LEMMA WritesStay ==
    ASSUME ProfileInv, [Next]_vars
    PROVE  /\ ControlInv' /\ PlacesOK' /\ WritersOK'
           /\ \A u : WritesOf(u) \subseteq WritesOf(u)'
           /\ \A u : Spoiled(u) => Spoiled(u)'
           /\ \A r \in Requests : pc[r] \in Waits => r \in UnderWay
           /\ \A u : \A q, r \in WritesOf(u) :
                 q # r /\ q \in UnderWay /\ r \in UnderWay => Spoiled(u)'
  <1>1. /\ Kept(Waits) /\ ControlInv' /\ Sent \subseteq Sent'
        /\ \A q, r \in Sent : Overlap(q, r)' <=> Overlap(q, r)
        /\ \A q, r \in UnderWay : q \in Sent /\ r \in Sent /\ Overlap(q, r)
    BY Stays DEF ProfileInv
  <1>2. PlacesOK' /\ WritersOK'
    BY PlacesStep, WritersStep DEF PlacesKept, ProfileInv
  <1>3. ASSUME NEW u PROVE WritesOf(u) \subseteq WritesOf(u)'
    BY <1>1 DEF WritesOf, Writer, Creates
  <1>4. ASSUME NEW u, Spoiled(u) PROVE Spoiled(u)'
    <2>1. CASE \E r \in WritesOf(u) : pc[r] \in {"failed", "lost"}
      BY <1>1, <1>3, <2>1 DEF Spoiled, Kept, Onward, Ended, Ends, WritesOf, Sent
    <2>2. ASSUME NEW q \in WritesOf(u), NEW r \in WritesOf(u), q # r, Overlap(q, r)
          PROVE  Spoiled(u)'
      <3>1. q \in Sent /\ r \in Sent BY DEF WritesOf
      <3>2. Overlap(q, r)' /\ q \in WritesOf(u)' /\ r \in WritesOf(u)'
        BY <1>1, <1>3, <2>2, <3>1
      <3> QED BY <2>2, <3>2 DEF Spoiled
    <2> QED BY <1>4, <2>1, <2>2 DEF Spoiled
  <1>5. \A r \in Requests : pc[r] \in Waits => r \in UnderWay
    BY DEF UnderWay, Sent, Ended, Ends, Waits, UserWaits, MahallaWaits
  <1>6. ASSUME NEW u, NEW q \in WritesOf(u), NEW r \in WritesOf(u),
               q # r, q \in UnderWay, r \in UnderWay
        PROVE  Spoiled(u)'
    BY <1>4, <1>1, <1>6 DEF Spoiled
  <1> QED BY <1>1, <1>2, <1>3, <1>4, <1>5, <1>6

(* A step that changes no user spoils or keeps what is known of each. *)
LEMMA CalmStep ==
    ASSUME ProfileInv, [Next]_vars, Calm
    PROVE  ProfileInv'
  <1>1. /\ ControlInv' /\ PlacesOK' /\ WritersOK'
        /\ \A u : Spoiled(u) => Spoiled(u)'
        /\ \A u : WritesOf(u) \subseteq WritesOf(u)'
    BY WritesStay
  <1>2. ASSUME NEW u \in DOMAIN user, ~Spoiled(u)'
        PROVE  UserOK(u)'
    <2>1. /\ Fits(u) \/ \E r \in WritesOf(u) : pc[r] \in Profiling
          /\ \A r \in WritesOf(u) : Informed(r)
      BY <1>1, <1>2 DEF ProfileInv, ProfilesOK, UserOK
    <2>2. Fits(u)' <=> Fits(u) BY DEF Fits, Calm
    <2>3. ASSUME NEW r \in WritesOf(u)'
          PROVE  /\ r \in Requests /\ UserOf[r] = u /\ Writer(r)
                 /\ pc[r] # "unsent" => r \in WritesOf(u)
                 /\ pc'[r] \notin {"failed", "lost"}
                 /\ CalmMove(r)
      BY <1>2, <2>3 DEF WritesOf, Spoiled, Sent, Calm, Writer, Creates
    <2>4. ASSUME NEW r \in WritesOf(u), pc[r] \in Profiling
          PROVE  r \in WritesOf(u)' /\ pc'[r] \in Profiling
      BY <1>1, <2>3, <2>4 DEF CalmMove
    <2>5. ASSUME NEW r \in WritesOf(u)' PROVE Informed(r)'
      <3>1. /\ UserOf[r] = u /\ CalmMove(r) /\ pc'[r] \notin {"failed", "lost"}
        BY <2>3
      <3>2. CASE pc'[r] = pc[r]
        <4>1. r \in WritesOf(u) BY <2>3, <3>2 DEF WritesOf, Sent
        <4> QED BY <2>1, <3>2, <4>1 DEF Informed, Calm, Creates
      <3>3. CASE /\ pc[r] \notin Profiling /\ pc'[r] \notin Profiling
                 /\ pc'[r] \in Placed => Creates(r) \/ pc[r] \in Placed
        <4>1. pc[r] \in Placed => r \in WritesOf(u) /\ Informed(r)
          BY <2>1, <2>3 DEF Placed
        <4> QED BY <3>1, <3>3, <4>1 DEF Informed, Calm, Creates, Profiling
      <3> QED BY <3>1, <3>2, <3>3 DEF CalmMove
    <2> QED BY <2>1, <2>2, <2>4, <2>5 DEF UserOK
  <1>3. ProfilesOK'
    BY <1>2 DEF ProfilesOK, UserOK, Calm
  <1> QED BY <1>1, <1>3 DEF ProfileInv

(* A write of one user and its effect on the request that makes it. *)
Writing(r) ==
    /\ pc[r] \in Waits /\ pc'[r] # "unsent"
    /\ \A x \in Requests \ {r} : pc'[x] = pc[x]
    /\ \A x \in DOMAIN target \ {r} : x \in DOMAIN target' /\ target'[x] = target[x]
    /\ \A u \in DOMAIN user \ {UserOf[r]} :
          user'[u] = user[u] /\ (u \in profiles' <=> u \in profiles)
    /\ DOMAIN user' \subseteq DOMAIN user \cup {UserOf[r]}

(* When it has failed, or was right, all users are as they should be. *)
LEMMA WritingStep ==
    ASSUME ProfileInv, [Next]_vars, NEW r \in Requests, Writing(r), Writer(r),
           \/ pc'[r] = "failed"
           \/ Spoiled(UserOf[r])' \/ UserOf[r] \notin DOMAIN user'
           \/ (Fits(UserOf[r])' \/ pc'[r] \in Profiling) /\ Informed(r)'
    PROVE  ProfileInv'
  <1> DEFINE v == UserOf[r]
  <1>1. /\ ControlInv' /\ PlacesOK' /\ WritersOK'
        /\ \A u : Spoiled(u) => Spoiled(u)'
        /\ \A u : WritesOf(u) \subseteq WritesOf(u)'
        /\ \A x \in Requests : pc[x] \in Waits => x \in UnderWay
        /\ \A u : \A q, x \in WritesOf(u) :
                 q # x /\ q \in UnderWay /\ x \in UnderWay => Spoiled(u)'
    BY WritesStay
  <1>2. r \in WritesOf(v) /\ r \in UnderWay
    BY <1>1 DEF Writing, WritesOf, UnderWay
  <1>3. ASSUME NEW u PROVE \A x \in WritesOf(u)' \ {r} : x \in WritesOf(u) /\ pc'[x] = pc[x]
    BY DEF WritesOf, Writing, Sent, Writer, Creates
  <1>4. ASSUME NEW u \in DOMAIN user, u # v, ~Spoiled(u)'
        PROVE  UserOK(u)'
    <2>1. /\ Fits(u) \/ \E x \in WritesOf(u) : pc[x] \in Profiling
          /\ \A x \in WritesOf(u) : Informed(x)
      BY <1>1, <1>4 DEF ProfileInv, ProfilesOK, UserOK
    <2>2. Fits(u)' <=> Fits(u) BY <1>4 DEF Fits, Writing
    <2>3. \A x \in WritesOf(u)' : x # r /\ UserOf[x] = u /\ x \in Requests BY <1>4 DEF WritesOf, Sent
    <2>4. \A x \in WritesOf(u) : x \in WritesOf(u)' /\ pc'[x] = pc[x]
      BY <1>1, <1>3, <2>3
    <2>5. ASSUME NEW x \in WritesOf(u)' PROVE Informed(x)'
      <3>1. Informed(x) /\ pc'[x] = pc[x] /\ UserOf[x] = u
        BY <1>3, <2>1, <2>3
      <3> QED BY <1>4, <2>3, <3>1 DEF Informed, Writing, Creates
    <2> QED BY <2>1, <2>2, <2>4, <2>5 DEF UserOK
  <1>5. ASSUME ~Spoiled(v)', v \in DOMAIN user' PROVE UserOK(v)'
    <2>1. r \in WritesOf(v)' /\ pc'[r] # "failed"
      BY <1>1, <1>2, <1>5 DEF Spoiled
    <2>2. (Fits(v)' \/ pc'[r] \in Profiling) /\ Informed(r)'
      BY <1>5, <2>1
    <2>3. ASSUME NEW x \in WritesOf(v)', x # r PROVE Informed(x)'
      <3>1. x \in WritesOf(v) /\ pc'[x] = pc[x] /\ x \in Requests BY <1>3, <2>3 DEF WritesOf, Sent
      <3>2. pc[x] \notin Waits BY <1>1, <1>2, <1>5, <2>3, <3>1
      <3> QED BY <3>1, <3>2 DEF Informed, Placed, Waits, UserWaits
    <2> QED BY <2>1, <2>2, <2>3 DEF UserOK
  <1>6. ProfilesOK'
    BY <1>4, <1>5 DEF ProfilesOK, UserOK, Writing
  <1> QED BY <1>1, <1>6 DEF ProfileInv

(* A write under way that is not about the profile knows how the user is. *)
LEMMA WriterKnows ==
    ASSUME ProfileInv, [Next]_vars, NEW r \in Requests, Writer(r),
           pc[r] \in Waits \ Profiling, UserOf[r] \in DOMAIN user, ~Spoiled(UserOf[r])'
    PROVE  Fits(UserOf[r]) /\ Informed(r)
  <1> DEFINE v == UserOf[r]
  <1>1. /\ \A u : Spoiled(u) => Spoiled(u)'
        /\ \A x \in Requests : pc[x] \in Waits => x \in UnderWay
        /\ \A u : \A q, x \in WritesOf(u) :
                 q # x /\ q \in UnderWay /\ x \in UnderWay => Spoiled(u)'
    BY WritesStay
  <1>2. r \in WritesOf(v) /\ r \in UnderWay
    BY <1>1 DEF WritesOf, UnderWay
  <1>3. /\ Fits(v) \/ \E x \in WritesOf(v) : pc[x] \in Profiling
        /\ \A x \in WritesOf(v) : Informed(x)
    BY <1>1 DEF ProfileInv, ProfilesOK, UserOK
  <1>4. ASSUME NEW x \in WritesOf(v), pc[x] \in Profiling PROVE FALSE
    <2>1. x \in Requests /\ x # r BY <1>4 DEF WritesOf, Sent
    <2>2. x \in UnderWay BY <1>1, <1>4, <2>1 DEF Profiling, Waits, UserWaits
    <2> QED BY <1>1, <1>2, <2>1, <2>2
  <1> QED BY <1>2, <1>3, <1>4

(* The profile in what an update read. *)
LEMMA ProfileField ==
    ASSUME NEW t, NEW x, NEW v, NEW S, t = [row |-> x, profile |-> v \in S]
    PROVE  t.profile <=> v \in S
  <1>1. t.profile = (v \in S) BY Zenon
  <1> QED BY <1>1, Zenon

(* What an update read is so. *)
LEMMA ReadTargetStep ==
    ASSUME ProfileInv, [Next]_vars, NEW r \in Requests, ReadTarget(r)
    PROVE  ProfileInv'
  <1> DEFINE u == UserOf[r]
  <1>1. pc \in [Requests -> {"unsent"} \cup Waits \cup Ends]
    BY DEF ProfileInv, ControlInv, ControlOK
  <1>2. /\ pc[r] = "reading-target" /\ user' = user /\ profiles' = profiles
        /\ pc'[r] \in Placed \cup {"refused"} /\ \A x \in Requests \ {r} : pc'[x] = pc[x]
    BY <1>1 DEF ReadTarget, Placing, Step, Goto, Placed, tokenVars, mahallaVars
  <1>3. Writer(r) BY <1>2 DEF ProfileInv, WritersOK, WriterOK
  <1>4. \/ pc'[r] = "refused" /\ target' = target
        \/ target' = Put(target, r, [row |-> user[u], profile |-> u \in profiles])
    BY <1>1 DEF ReadTarget, Step, Goto
  <1>5. Writing(r)
    BY <1>2, <1>4 DEF Writing, Put, Placed, Waits, UserWaits
  <1>6. ASSUME u \in DOMAIN user, ~Spoiled(u)' PROVE Fits(u)' /\ Informed(r)'
    <2>1. Fits(u)
      BY <1>2, <1>3, <1>6, WriterKnows DEF Profiling, Waits, UserWaits
    <2>2. Fits(u)' BY <1>2, <2>1 DEF Fits
    <2>3. CASE pc'[r] = "refused" BY <2>2, <2>3 DEF Informed, Placed
    <2>4. CASE target' = Put(target, r, [row |-> user[u], profile |-> u \in profiles])
      <3>1. r \in DOMAIN target' BY <2>4 DEF Put
      <3>2. target'[r] = [row |-> user[u], profile |-> u \in profiles] BY <2>4 DEF Put
      <3>3. target'[r].row.role = user[u].role BY <3>2
      <3>4. target'[r].profile <=> u \in profiles BY <3>2, ProfileField
      <3> QED BY <1>2, <2>2, <3>1, <3>3, <3>4 DEF Informed, Placed
    <2> QED BY <1>4, <2>3, <2>4
  <1> QED BY <1>2, <1>3, <1>5, <1>6, WritingStep

(* A new user has no profile, and is to have one exactly in the staff. *)
LEMMA InsertUserStep ==
    ASSUME ProfileInv, [Next]_vars, NEW r \in Requests, InsertUser(r),
           Owners(r) \subseteq {UserOf[r]}
    PROVE  ProfileInv'
  <1> DEFINE u == UserOf[r]
             row == [phone |-> Given(PhoneOf[r], ""), role |-> Given(RoleOf[r], ""),
                     home |-> MahallaOf[r]]
  <1>1. pc \in [Requests -> {"unsent"} \cup Waits \cup Ends]
    BY DEF ProfileInv, ControlInv, ControlOK
  <1>2. /\ pc[r] = "inserting-user" /\ profiles' = profiles /\ target' = target
        /\ \A x \in Requests \ {r} : pc'[x] = pc[x]
        /\ pc'[r] \in {"failed", IF RoleOf[r] = {"STAFF"} THEN "creating-profile" ELSE Answer(r)}
        /\ user' = Put(user, u, row) /\ row.role = Given(RoleOf[r], "")
    BY <1>1 DEF InsertUser, WriteUser, Resolve, Step, Goto
  <1> HIDE DEF row
  <1>3. Writer(r) /\ Creates(r) /\ u \notin DOMAIN user /\ profiles \subseteq DOMAIN user
    BY <1>2 DEF ProfileInv, WritersOK, WriterOK, PlacesOK, PlaceOK, Ends
  <1>4. /\ DOMAIN user' = DOMAIN user \cup {u} /\ user'[u] = row
        /\ \A v \in DOMAIN user : user'[v] = user[v]
    BY <1>2, <1>3 DEF Put
  <1>5. Writing(r)
    BY <1>2, <1>4 DEF Writing, Waits, UserWaits, Answer
  <1>6. ASSUME pc'[r] # "failed"
        PROVE  (Fits(u)' \/ pc'[r] \in Profiling) /\ Informed(r)'
    <2>1. CASE RoleOf[r] = {"STAFF"}
      <3>1. pc'[r] = "creating-profile" BY <1>2, <1>6, <2>1
      <3>2. row.role = "STAFF" BY <1>2, <2>1 DEF Given
      <3> QED BY <1>4, <3>1, <3>2 DEF Informed, Profiling, Placed
    <2>2. CASE RoleOf[r] # {"STAFF"}
      <3>1. pc'[r] \in {"auditing", "done"} BY <1>2, <1>6, <2>2 DEF Answer
      <3>2. row.role # "STAFF"
        <4>1. \A x, y \in RoleOf[r] : x = y BY AccountsAssumption
        <4>2. CASE RoleOf[r] = {} BY <1>2, <4>2 DEF Given
        <4>3. CASE RoleOf[r] # {}
          <5>1. Given(RoleOf[r], "") \in RoleOf[r] BY <4>3 DEF Given
          <5>2. \A x \in RoleOf[r] : RoleOf[r] = {x} BY <4>1
          <5> QED BY <1>2, <2>2, <5>1, <5>2
        <4> QED BY <4>2, <4>3
      <3>3. Fits(u)' BY <1>2, <1>3, <1>4, <3>2 DEF Fits
      <3> QED BY <3>1, <3>3 DEF Informed, Placed
    <2> QED BY <2>1, <2>2
  <1> QED BY <1>3, <1>5, <1>6, WritingStep

(* An update goes on with the profile as the new role requires. *)
LEMMA UpdateUserStep ==
    ASSUME ProfileInv, [Next]_vars, NEW r \in Requests, UpdateUser(r),
           Owners(r) \subseteq {UserOf[r]}
    PROVE  ProfileInv'
  <1> DEFINE u == UserOf[r]
             old == user[u]
             row == [phone |-> Given(PhoneOf[r], old.phone), role |-> Given(RoleOf[r], old.role),
                     home |-> IF MahallaOf[r] # {} THEN MahallaOf[r] ELSE old.home]
  <1>1. pc \in [Requests -> {"unsent"} \cup Waits \cup Ends]
    BY DEF ProfileInv, ControlInv, ControlOK
  <1>2. /\ pc[r] = "updating-user" /\ profiles' = profiles /\ target' = target
        /\ \A x \in Requests \ {r} : pc'[x] = pc[x]
        /\ pc'[r] \in {"failed", ProfileStep(r)}
        /\ user' = Put(user, u, row) /\ row.role = Given(RoleOf[r], user[u].role)
    BY <1>1 DEF UpdateUser, WriteUser, Resolve, Step, Goto
  <1> HIDE DEF row
  <1>3. Writer(r) /\ ~Creates(r) /\ u \in DOMAIN user
    BY <1>2 DEF ProfileInv, WritersOK, WriterOK, PlacesOK, PlaceOK, Placed
  <1>4. /\ DOMAIN user' = DOMAIN user /\ user'[u] = row
        /\ \A v \in DOMAIN user \ {u} : user'[v] = user[v]
    BY <1>2, <1>3 DEF Put
  <1>5. Writing(r)
    BY <1>2, <1>4 DEF Writing, Waits, UserWaits, ProfileStep
  <1>6. ASSUME pc'[r] # "failed", ~Spoiled(u)'
        PROVE  (Fits(u)' \/ pc'[r] \in Profiling) /\ Informed(r)'
    <2>1. Informed(r)
      BY <1>2, <1>3, <1>6, WriterKnows DEF Profiling, Waits, UserWaits
    <2>2. target[r].row.role = user[u].role /\ (target[r].profile <=> u \in profiles)
      BY <1>2, <1>3, <2>1 DEF Informed, Placed
    <2>3. user'[u].role = NextRole(r) BY <1>2, <1>4, <2>2 DEF NextRole
    <2>4. pc'[r] = ProfileStep(r) BY <1>2, <1>6
    <2>5. CASE NextRole(r) = "STAFF" /\ ~target[r].profile
      <3>1. pc'[r] = "creating-profile" BY <2>4, <2>5 DEF ProfileStep
      <3> QED BY <2>3, <2>5, <3>1 DEF Informed, Profiling, Placed
    <2>6. CASE NextRole(r) # "STAFF" /\ target[r].profile
      <3>1. pc'[r] = "deleting-profile" BY <2>4, <2>6 DEF ProfileStep
      <3> QED BY <2>3, <2>6, <3>1 DEF Informed, Profiling, Placed
    <2>7. CASE NextRole(r) = "STAFF" <=> target[r].profile
      <3>1. pc'[r] \in {"updating-profile", "auditing"} BY <2>4, <2>7 DEF ProfileStep
      <3>2. Fits(u)' BY <1>2, <2>2, <2>3, <2>7 DEF Fits
      <3> QED BY <3>1, <3>2 DEF Informed, Placed
    <2> QED BY <2>5, <2>6, <2>7
  <1> QED BY <1>3, <1>5, <1>6, WritingStep

(* The profile is then as the role requires. *)
LEMMA ProfileStepStep ==
    ASSUME ProfileInv, [Next]_vars, NEW r \in Requests, CreateProfile(r) \/ DeleteProfile(r)
    PROVE  ProfileInv'
  <1> DEFINE u == UserOf[r]
  <1>1. pc \in [Requests -> {"unsent"} \cup Waits \cup Ends]
    BY DEF ProfileInv, ControlInv, ControlOK
  <1>2. /\ pc[r] \in Profiling /\ user' = user /\ target' = target
        /\ \A x \in Requests \ {r} : pc'[x] = pc[x]
        /\ pc'[r] \in {"failed", "auditing", "done"}
        /\ \/ pc[r] = "creating-profile" /\ profiles' = profiles \cup {u}
           \/ pc[r] = "deleting-profile" /\ profiles' = profiles \ {u}
    BY <1>1 DEF CreateProfile, DeleteProfile, Resolve, Step, Goto, Answer, Profiling
  <1>3. Writer(r) /\ u \in DOMAIN user
    BY <1>2 DEF ProfileInv, WritersOK, WriterOK
  <1>4. Writing(r)
    BY <1>2 DEF Writing, Waits, UserWaits, Profiling
  <1>5. ASSUME ~Spoiled(u)' PROVE Fits(u)' /\ (pc'[r] # "failed" => Informed(r)')
    <2>1. r \in WritesOf(u)
      BY <1>2, <1>3 DEF WritesOf, Sent, Profiling
    <2>2. ~Spoiled(u) BY <1>5, WritesStay
    <2>3. Informed(r) BY <1>3, <2>1, <2>2 DEF ProfileInv, ProfilesOK, UserOK
    <2>4. Fits(u)' BY <1>2, <2>3 DEF Informed, Fits
    <2> QED BY <1>2, <2>4 DEF Informed, Placed
  <1> QED BY <1>3, <1>4, <1>5, WritingStep

(* The profiles' part of the invariant. *)
LEMMA ProfileInvariant == Spec => []ProfileInv
  <1>1. Init => ProfileInv
    <2> SUFFICES ASSUME Init PROVE ProfileInv OBVIOUS
    <2>1. ControlInv BY ControlStarts DEF Init, ControlInv
    <2>2. \A r \in Requests : pc[r] = "unsent" BY DEF Init, ControlInit
    <2>3. PlacesOK BY <2>2 DEF PlacesOK, PlaceOK, MahallaWaits
    <2>4. WritersOK
      BY <2>2, NewUsersAssumption
         DEF Init, WritersOK, WriterOK, Placed, Profiling, Creates
    <2>5. ProfilesOK
      BY <2>2 DEF Init, ProfilesOK, UserOK, Fits, WritesOf, Sent
    <2> QED BY <2>1, <2>3, <2>4, <2>5 DEF ProfileInv
  <1>2. ProfileInv /\ [Next]_vars => ProfileInv'
    <2> SUFFICES ASSUME ProfileInv, [Next]_vars PROVE ProfileInv' OBVIOUS
    <2>1. CASE Calm BY <2>1, CalmStep
    <2>2. ASSUME NEW r \in Requests, InsertUser(r) \/ UpdateUser(r),
                 ~(Owners(r) \subseteq {UserOf[r]})
          PROVE  Calm
      BY <2>2 DEF InsertUser, UpdateUser, WriteUser, Step, Goto, Calm, CalmMove, ProfileInv,
                  ControlInv, ControlOK
    <2> QED
      BY <2>1, <2>2, ProfileSteps, ReadTargetStep, InsertUserStep, UpdateUserStep,
         ProfileStepStep
         DEF ProfileInv
  <1> QED BY <1>1, <1>2, PTL DEF Spec

(* Exactly the staff have profiles: users.create, users.update and the     *)
(* registrations leave a profile that does not fit the role only when they *)
(* failed half-way or were lost, or two of one user overlapped.            *)
THEOREM StaffProfiles == Spec => []StaffHaveProfiles
  <1>1. ProfileInv => StaffHaveProfiles
    <2> SUFFICES ASSUME ProfileInv, NEW u \in DOMAIN user
                 PROVE  \/ Fits(u)
                        \/ \E r \in WritesOf(u) : pc[r] \notin {"done", "refused"}
                        \/ \E q, r \in WritesOf(u) : q # r /\ Overlap(q, r)
      BY DEF StaffHaveProfiles, Fits, WritesOf, Writer
    <2> QED BY DEF ProfileInv, ProfilesOK, UserOK, Spoiled, Profiling
  <1> QED BY <1>1, ProfileInvariant, PTL
-----------------------------------------------------------------------------
(***************************************************************************)
(* The places of mahallas.                                                 *)
(***************************************************************************)
Fields  == {"region", "district", "name"}
Editing == {"upserting-region", "upserting-district", "updating-mahalla"}
AfterWrite == {"auditing-mahalla"} \cup Ends

(* Which operation may be where. *)
OpOK(r, p) ==
    /\ p \in UserWaits => OpOf[r] \notin MahallaOps
    /\ p \in MahallaWaits => OpOf[r] \in MahallaOps
    /\ p \in {"upserting-region", "upserting-district"} => OpOf[r] # "removeMahalla"
    /\ p = "upserting-mahalla" => OpOf[r] = "createMahalla"
    /\ p = "updating-mahalla" => OpOf[r] = "updateMahalla"
    /\ p = "reading-mahalla" => OpOf[r] # "createMahalla"
    /\ p \in {"counting-users", "removing-mahalla"} => OpOf[r] = "removeMahalla"

OpsOK == \A r \in Requests : OpOK(r, pc[r])

(* Updates that were written, or are about to be, are of mahallas there    *)
(* are, and these were there at first or are of creations that wrote them. *)
RenamedOK ==
    /\ \A r \in renamed : /\ r \in Requests /\ pc[r] \in AfterWrite
                          /\ OpOf[r] = "updateMahalla" /\ Target(r) \in DOMAIN place
    /\ \A r \in Requests :
          OpOf[r] = "updateMahalla" =>
             /\ pc[r] \in {"auditing-mahalla", "done"} => r \in renamed
             /\ pc[r] \in Editing => r \in DOMAIN current /\ Target(r) \in DOMAIN place
    /\ \A m \in DOMAIN place \ DOMAIN FirstPlaces :
          \E c \in Requests : OpOf[c] = "createMahalla" /\ m \in MahallaOf[c] /\ pc[c] \in AfterWrite

(* A name v for f does not contradict what the update r asked for.         *)
StandsFor(r, f, v) ==
    \/ PlaceOf[r][f] \subseteq {v}
    \/ \E q \in renamed \ {r} :
          MahallaOf[q] = MahallaOf[r] /\ (Overlap(q, r) \/ PlaceOf[q][f] = {v})

(* Nor do the names an update read, but for updates that overlap it.       *)
ReadStands ==
    \A q \in Requests, r \in renamed :
        /\ OpOf[q] = "updateMahalla" /\ pc[q] \in Editing
        /\ MahallaOf[q] = MahallaOf[r] /\ ~Overlap(q, r)
        => \A f \in Fields : StandsFor(r, f, current[q][f])

PlaceStands == \A r \in renamed : \A f \in Fields : StandsFor(r, f, place[Target(r)][f])

RenameInv == ControlInv /\ OpsOK /\ RenamedOK /\ ReadStands /\ PlaceStands

(* Each operation keeps to its places. *)
LEMMA OpsStep ==
    ASSUME ControlInv, OpsOK, [Next]_vars
    PROVE  OpsOK'
  <1>t. pc \in [Requests -> {"unsent"} \cup Waits \cup Ends] BY DEF ControlInv, ControlOK
  <1>a. ASSUME NEW r \in Requests, NEW p \in Waits \cup Ends, Goto(r, p), OpOK(r, p)
        PROVE  OpsOK'
    BY <1>a, <1>t DEF Goto, OpsOK
  <1>b. ASSUME NEW r \in Requests, NEW p \in Waits, NEW q \in Waits \cup Ends,
               Resolve(r, p, q) \/ Step(r, p, q), OpOK(r, q)
        PROVE  OpsOK'
    <2>1. OpOK(r, "failed") /\ "failed" \in Ends
      BY DEF Ends, OpOK, UserWaits, MahallaWaits
    <2> QED BY <1>a, <1>b, <2>1 DEF Resolve, Step
  <1>c. ASSUME NEW r \in Requests, NEW p, NEW q, Resolve(r, p, q) \/ Step(r, p, q)
        PROVE  OpOK(r, p)
    BY <1>c DEF Resolve, Step, OpsOK
  <1>e. ASSUME NEW r \in Requests, NEW p \in UserWaits, NEW q \in UserWaits \cup Ends,
               Resolve(r, p, q) \/ Step(r, p, q)
        PROVE  OpsOK'
    <2>1. OpOK(r, q) BY <1>c, <1>e DEF OpOK, UserWaits, MahallaWaits, Ends
    <2> QED BY <1>b, <1>e, <2>1 DEF Waits
  <1>f. ASSUME NEW r \in Requests, NEW p \in UserWaits \cup Ends, Arrive(r, p),
               OpOf[r] \notin MahallaOps
        PROVE  OpsOK'
    <2>1. OpOK(r, p) BY <1>f DEF OpOK, UserWaits, MahallaWaits, Ends
    <2> QED BY <1>a, <1>f, <2>1 DEF Arrive, Waits
  <1>1. ASSUME NEW r \in Requests, CallUser(r) \/ CallSession(r) PROVE OpsOK'
    <2>1. PICK p \in {"checking-mahalla", "checking-phone", "reading-target", "reading-removed",
                      "refused", "signing-in", "finding-token"} : Arrive(r, p)
      BY <1>1 DEF CallUser, CallSession
    <2>2. OpOf[r] \notin MahallaOps
      BY <1>1 DEF CallUser, CallSession, Creates, MahallaOps
    <2> QED BY <1>f, <2>1, <2>2 DEF UserWaits, Ends
  <1>2. ASSUME NEW r \in Requests,
               CheckMahalla(r) \/ CheckPhone(r) \/ ReadTarget(r) \/ ReadRemoved(r)
        PROVE  OpsOK'
    BY <1>2, <1>e DEF CheckMahalla, CheckPhone, ReadTarget, ReadRemoved, Placing, UserWaits, Ends
  <1>3. ASSUME NEW r \in Requests, InsertUser(r) \/ UpdateUser(r) PROVE OpsOK'
    <2>1. PICK p \in {"inserting-user", "updating-user"},
               q \in {"creating-profile", "updating-profile", "deleting-profile", "auditing",
                      "done", "failed"} :
              Resolve(r, p, q) \/ Step(r, p, q)
      BY <1>3 DEF InsertUser, UpdateUser, WriteUser, Answer, ProfileStep
    <2> QED BY <1>e, <2>1 DEF UserWaits, Ends
  <1>4. ASSUME NEW r \in Requests, CreateProfile(r) \/ UpdateProfile(r) \/ DeleteProfile(r)
        PROVE  OpsOK'
    BY <1>4, <1>e DEF CreateProfile, UpdateProfile, DeleteProfile, Answer, UserWaits, Ends
  <1>5. ASSUME NEW r \in Requests, RemoveUser(r) \/ Audit(r) PROVE OpsOK'
    BY <1>5, <1>e DEF RemoveUser, Audit, UserWaits, Ends
  <1>6. ASSUME NEW r \in Requests, SignIn(r) \/ FindToken(r) \/ Revoke(r) \/ Issue(r)
        PROVE  OpsOK'
    <2>1. PICK p \in {"signing-in", "finding-token", "revoking", "issuing"},
               q \in {"issuing", "refused", "revoking", "done"} :
              Resolve(r, p, q) \/ Step(r, p, q)
      BY <1>6 DEF SignIn, FindToken, Revoke, Issue
    <2> QED BY <1>e, <2>1 DEF UserWaits, Ends
  <1> USE DEF Waits, UserWaits, MahallaWaits, Ends, OpOK, MahallaOps
  <1>7. ASSUME NEW r \in Requests, CallMahalla(r) PROVE OpsOK'
    BY <1>7, <1>a DEF CallMahalla, Arrive
  <1>8. ASSUME NEW r \in Requests, ReadMahalla(r) PROVE OpsOK'
    BY <1>8, <1>b, <1>c, SMTT(30) DEF ReadMahalla
  <1>9. ASSUME NEW r \in Requests, UpsertRegion(r) \/ UpsertDistrict(r) \/ UpsertMahalla(r)
        PROVE  OpsOK'
    <2>1. CASE UpsertRegion(r)
      <3>1. OpOK(r, "upserting-region") BY <1>c, <2>1 DEF UpsertRegion
      <3> QED BY <1>b, <2>1, <3>1 DEF UpsertRegion
    <2>2. CASE UpsertDistrict(r)
      <3>1. OpOK(r, "upserting-district") BY <1>c, <2>2 DEF UpsertDistrict
      <3>2. CASE OpOf[r] = "createMahalla" BY <1>b, <2>2, <3>2, SMTT(30) DEF UpsertDistrict
      <3>3. CASE OpOf[r] = "updateMahalla" BY <1>b, <2>2, <3>3, SMTT(30) DEF UpsertDistrict
      <3> QED BY <3>1, <3>2, <3>3
    <2>3. CASE UpsertMahalla(r)
      <3>1. OpOK(r, "upserting-mahalla") BY <1>c, <2>3 DEF UpsertMahalla
      <3> QED BY <1>b, <2>3, <3>1, SMTT(30) DEF UpsertMahalla
    <2> QED BY <1>9, <2>1, <2>2, <2>3
  <1>10. ASSUME NEW r \in Requests, UpdateMahalla(r) \/ RemoveMahalla(r) \/ AuditMahalla(r)
         PROVE  OpsOK'
    <2>1. PICK p \in {"updating-mahalla", "removing-mahalla", "auditing-mahalla"},
               q \in {"auditing-mahalla", "refused", "done"} :
              Resolve(r, p, q) \/ Step(r, p, q)
      BY <1>10 DEF UpdateMahalla, Conflict, RemoveMahalla, AuditMahalla
    <2>2. OpOK(r, p) BY <1>c, <2>1
    <2>3. OpOK(r, q) BY <2>2
    <2> QED BY <1>b, <2>1, <2>3
  <1>11. ASSUME NEW r \in Requests, NEW b, CountUsers(r, b) PROVE OpsOK'
    BY <1>11, <1>b, <1>c DEF CountUsers
  <1>12. ASSUME NEW r \in Requests, Fail(r) PROVE OpsOK'
    BY <1>12, <1>a DEF Fail, Reject
  <1>13. CASE Crash BY <1>13 DEF Crash, Die, OpsOK
  <1>14. CASE UNCHANGED vars BY <1>14 DEF vars, control, OpsOK
  <1> QED
    BY <1>1, <1>2, <1>3, <1>4, <1>5, <1>6, <1>7, <1>8, <1>9, <1>10, <1>11, <1>12, <1>13, <1>14
       DEF Next, HandleUser, HandleMahalla

(* All that most steps do to a request that writes a mahalla. *)
AsideMove(r) ==
    \/ pc'[r] \in {pc[r]} \cup (Ends \ {"done"})
    \/ OpOf[r] \notin {"createMahalla", "updateMahalla"}
    \/ pc[r] = "auditing-mahalla" /\ pc'[r] = "done"
    \/ OpOf[r] = "createMahalla" /\ pc[r] \notin AfterWrite
    \/ OpOf[r] = "updateMahalla" /\ pc[r] = "unsent" /\ pc'[r] = "reading-mahalla"
    \/ OpOf[r] = "updateMahalla" /\ pc[r] \in Editing /\ pc'[r] \in Editing

Aside ==
    /\ UNCHANGED <<place, current, renamed>>
    /\ \A r \in Requests : AsideMove(r)

Free(r) == At(NextPlace(r)) \subseteq MahallaOf[r]

(* A step that matters to the places of mahallas is one of three. *)
LEMMA RenameSteps ==
    ASSUME ControlInv, OpsOK, [Next]_vars
    PROVE  \/ Aside
           \/ \E r \in Requests :
                 ReadMahalla(r) \/ UpsertMahalla(r) \/ (UpdateMahalla(r) /\ Free(r))
  <1>t. pc \in [Requests -> {"unsent"} \cup Waits \cup Ends] BY DEF ControlInv, ControlOK
  <1>a. ASSUME NEW r \in Requests, NEW p, NEW q, Goto(r, q), pc[r] = p,
               \/ q \in Ends \ {"done"}
               \/ OpOf[r] \notin {"createMahalla", "updateMahalla"}
               \/ p = "auditing-mahalla" /\ q = "done"
               \/ OpOf[r] = "createMahalla" /\ p \notin AfterWrite
               \/ OpOf[r] = "updateMahalla" /\ p = "unsent" /\ q = "reading-mahalla"
               \/ OpOf[r] = "updateMahalla" /\ p \in Editing /\ q \in Editing,
               UNCHANGED <<place, current, renamed>>
        PROVE  Aside
    BY <1>a, <1>t DEF Aside, AsideMove, Goto
  <1>u. ASSUME NEW r \in Requests, NEW p \in UserWaits, NEW q,
               Step(r, p, q) \/ Resolve(r, p, q), UNCHANGED mahallaVars
        PROVE  Aside
    <2>1. OpOf[r] \notin {"createMahalla", "updateMahalla"}
      BY <1>u DEF OpsOK, OpOK, Step, Resolve, MahallaOps
    <2>2. pc[r] = p /\ (Goto(r, q) \/ Goto(r, "failed")) BY <1>u DEF Step, Resolve
    <2>3. UNCHANGED <<place, current, renamed>> BY <1>u DEF mahallaVars
    <2> QED BY <1>a, <2>1, <2>2, <2>3
  <1>v. ASSUME NEW r \in Requests, NEW p, Arrive(r, p), OpOf[r] \notin MahallaOps,
               UNCHANGED mahallaVars
        PROVE  Aside
    BY <1>a, <1>v DEF Arrive, MahallaOps, mahallaVars
  <1>1. ASSUME NEW r \in Requests, CallUser(r) \/ CallSession(r) PROVE Aside
    BY <1>1, <1>v DEF CallUser, CallSession, Creates, MahallaOps
  <1>2. ASSUME NEW r \in Requests,
               CheckMahalla(r) \/ CheckPhone(r) \/ ReadTarget(r) \/ ReadRemoved(r)
        PROVE  Aside
    BY <1>2, <1>u DEF CheckMahalla, CheckPhone, ReadTarget, ReadRemoved, UserWaits
  <1>3. ASSUME NEW r \in Requests, InsertUser(r) \/ UpdateUser(r) PROVE Aside
    BY <1>3, <1>u DEF InsertUser, UpdateUser, WriteUser, UserWaits
  <1>4. ASSUME NEW r \in Requests, CreateProfile(r) \/ UpdateProfile(r) \/ DeleteProfile(r)
        PROVE  Aside
    BY <1>4, <1>u DEF CreateProfile, UpdateProfile, DeleteProfile, UserWaits
  <1>5. ASSUME NEW r \in Requests, RemoveUser(r) \/ Audit(r) PROVE Aside
    BY <1>5, <1>u DEF RemoveUser, Audit, UserWaits
  <1>6. ASSUME NEW r \in Requests, SignIn(r) \/ FindToken(r) \/ Revoke(r) \/ Issue(r)
        PROVE  Aside
    BY <1>6, <1>u DEF SignIn, FindToken, Revoke, Issue, UserWaits
  <1>c. ASSUME NEW r \in Requests, NEW p, NEW q, Resolve(r, p, q) \/ Step(r, p, q)
        PROVE  pc[r] = p /\ OpOK(r, p) /\ (Goto(r, q) \/ Goto(r, "failed"))
    BY <1>c DEF Resolve, Step, OpsOK
  <1> USE DEF mahallaVars, MahallaOps, Ends, Editing, AfterWrite
  <1>7. ASSUME NEW r \in Requests, CallMahalla(r) PROVE Aside
    BY <1>7, <1>a DEF CallMahalla, Arrive
  <1>8. ASSUME NEW r \in Requests, UpsertRegion(r) \/ UpsertDistrict(r) PROVE Aside
    <2>1. PICK p \in {"upserting-region", "upserting-district"},
               q \in {"upserting-district", "upserting-mahalla", "updating-mahalla"} :
             /\ Resolve(r, p, q) /\ UNCHANGED <<place, current, renamed>>
             /\ q = "upserting-mahalla" => OpOf[r] = "createMahalla"
      BY <1>8 DEF UpsertRegion, UpsertDistrict
    <2>2. pc[r] = p /\ OpOK(r, p) /\ (Goto(r, q) \/ Goto(r, "failed")) BY <1>c, <2>1
    <2>3. OpOf[r] \in {"createMahalla", "updateMahalla"} BY <2>2 DEF OpOK, MahallaWaits
    <2> QED BY <1>a, <2>1, <2>2, <2>3
  <1>9. ASSUME NEW r \in Requests, UpdateMahalla(r), ~Free(r) PROVE Aside
    BY <1>9, <1>a DEF UpdateMahalla, Free, Step, Conflict
  <1>10. ASSUME NEW r \in Requests, RemoveMahalla(r) PROVE Aside
    <2>1. OpOf[r] = "removeMahalla" BY <1>10, <1>c DEF RemoveMahalla, OpOK
    <2> QED BY <1>10, <1>a, <1>c, <2>1 DEF RemoveMahalla
  <1>11. ASSUME NEW r \in Requests, AuditMahalla(r) PROVE Aside
    BY <1>11, <1>a, <1>c DEF AuditMahalla
  <1>12. ASSUME NEW r \in Requests, NEW b, CountUsers(r, b) PROVE Aside
    <2>1. OpOf[r] = "removeMahalla" BY <1>12, <1>c DEF CountUsers, OpOK
    <2> QED BY <1>12, <1>a, <1>c, <2>1 DEF CountUsers
  <1>13. ASSUME NEW r \in Requests, Fail(r) PROVE Aside
    BY <1>13, <1>a DEF Fail, Reject
  <1>14. CASE Crash BY <1>14 DEF Crash, Die, Aside, AsideMove
  <1>15. CASE UNCHANGED vars BY <1>15 DEF vars, control, Aside, AsideMove
  <1> QED
    BY <1>1, <1>2, <1>3, <1>4, <1>5, <1>6, <1>7, <1>8, <1>9, <1>10, <1>11, <1>12, <1>13,
       <1>14, <1>15
       DEF Next, HandleUser, HandleMahalla

(* What every step keeps of the order of updates. *)
LEMMA UpdatesStay ==
    ASSUME RenameInv, [Next]_vars
    PROVE  /\ ControlInv' /\ OpsOK' /\ Sent \subseteq Sent'
           /\ \A r \in Ended : pc'[r] = pc[r]
           /\ \A q, r \in Sent : Overlap(q, r)' <=> Overlap(q, r)
           /\ \A q, r \in UnderWay : q \in Sent /\ r \in Sent /\ Overlap(q, r)
           /\ \A r \in Requests : pc[r] \in MahallaWaits => r \in UnderWay /\ r \in Sent
           /\ renamed \subseteq Sent
  <1>1. /\ Kept(Waits) /\ ControlInv' /\ Sent \subseteq Sent'
        /\ \A q, r \in Sent : Overlap(q, r)' <=> Overlap(q, r)
        /\ \A q, r \in UnderWay : q \in Sent /\ r \in Sent /\ Overlap(q, r)
    BY Stays DEF RenameInv
  <1>2. OpsOK' BY OpsStep DEF RenameInv
  <1>3. \A r \in Requests : pc[r] \in MahallaWaits => r \in UnderWay /\ r \in Sent
    BY DEF UnderWay, Sent, Ended, Ends, MahallaWaits
  <1>4. renamed \subseteq Sent
    BY DEF RenameInv, RenamedOK, AfterWrite, Ends, Sent
  <1> QED BY <1>1, <1>2, <1>3, <1>4 DEF Kept, Onward

(* A name that stands for an update goes on to. *)
LEMMA StandsStay ==
    ASSUME RenameInv, [Next]_vars, renamed \subseteq renamed',
           NEW r \in renamed, NEW f, NEW v, StandsFor(r, f, v)
    PROVE  StandsFor(r, f, v)'
  BY UpdatesStay DEF StandsFor

(* A step that writes no mahalla leaves the names as they are. *)
LEMMA AsideStep ==
    ASSUME RenameInv, [Next]_vars, Aside
    PROVE  RenameInv'
  <1>1. /\ ControlInv' /\ OpsOK' /\ renamed \subseteq Sent
        /\ \A r \in Ended : pc'[r] = pc[r]
        /\ \A q, r \in Sent : Overlap(q, r)' <=> Overlap(q, r)
        /\ \A r \in Requests : pc[r] \in MahallaWaits => r \in Sent
    BY UpdatesStay
  <1>2. \A r \in Requests : AsideMove(r) BY DEF Aside
  <1>3. place' = place /\ current' = current /\ renamed' = renamed BY DEF Aside
  <1>4. RenamedOK'
    <2>1. ASSUME NEW r \in Requests, pc[r] \in AfterWrite,
                 OpOf[r] \in {"createMahalla", "updateMahalla"}
          PROVE  pc'[r] \in AfterWrite
      BY <1>1, <1>2, <2>1 DEF AsideMove, AfterWrite, Ended, Ends, Editing
    <2>2. ASSUME NEW r \in Requests, OpOf[r] = "updateMahalla"
          PROVE  /\ pc'[r] \in {"auditing-mahalla", "done"} =>
                       pc[r] \in {"auditing-mahalla", "done"}
                 /\ pc'[r] \in Editing => pc[r] \in Editing
      BY <1>2, <2>2 DEF AsideMove, Ends, Editing
    <2> QED BY <1>3, <2>1, <2>2 DEF RenameInv, RenamedOK
  <1>5. ReadStands'
    <2> SUFFICES ASSUME NEW q \in Requests, NEW r \in renamed, NEW f \in Fields,
                        NEW v, v = current[q][f],
                        OpOf[q] = "updateMahalla", pc'[q] \in Editing,
                        MahallaOf[q] = MahallaOf[r], ~Overlap(q, r)'
                 PROVE  StandsFor(r, f, v)'
      BY <1>3 DEF ReadStands, StandsFor
    <2>1. pc[q] \in Editing BY <1>2 DEF AsideMove, Ends, Editing
    <2>2. q \in Sent /\ r \in Sent BY <1>1, <2>1 DEF Editing, MahallaWaits
    <2>3. StandsFor(r, f, v) BY <1>1, <2>1, <2>2 DEF RenameInv, ReadStands
    <2> QED BY <1>3, <2>3, StandsStay
  <1>6. PlaceStands'
    <2> SUFFICES ASSUME NEW r \in renamed, NEW f \in Fields, NEW v, v = place[Target(r)][f]
                 PROVE  StandsFor(r, f, v)'
      BY <1>3 DEF PlaceStands, StandsFor
    <2>1. StandsFor(r, f, v) BY DEF RenameInv, PlaceStands
    <2> QED BY <1>3, <2>1, StandsStay
  <1> QED BY <1>1, <1>4, <1>5, <1>6 DEF RenameInv

(* An update reads names that stand. *)
LEMMA ReadMahallaStep ==
    ASSUME RenameInv, [Next]_vars, NEW w \in Requests, ReadMahalla(w)
    PROVE  RenameInv'
  <1>1. /\ ControlInv' /\ OpsOK' /\ renamed \subseteq Sent
        /\ \A q, r \in Sent : Overlap(q, r)' <=> Overlap(q, r)
        /\ \A r \in Requests : pc[r] \in MahallaWaits => r \in Sent
    BY UpdatesStay
  <1>2. /\ pc[w] = "reading-mahalla" /\ \A x \in Requests \ {w} : pc'[x] = pc[x]
        /\ pc'[w] \in {"refused", "upserting-region", "counting-users"}
        /\ pc'[w] = "upserting-region" => Target(w) \in DOMAIN place
        /\ place' = place /\ renamed' = renamed
        /\ current' = IF Target(w) \in DOMAIN place THEN Put(current, w, place[Target(w)])
                                                    ELSE current
    BY DEF ReadMahalla, Step, Goto, RenameInv, ControlInv, ControlOK, OpenMahallas
  <1>3. /\ \A x \in DOMAIN current \ {w} : x \in DOMAIN current' /\ current'[x] = current[x]
        /\ Target(w) \in DOMAIN place => w \in DOMAIN current' /\ current'[w] = place[Target(w)]
    BY <1>2 DEF Put
  <1>s. place' = place /\ renamed' = renamed BY <1>2
  <1>4. RenamedOK'
    <2>1. ASSUME NEW r \in Requests, pc[r] \in AfterWrite
          PROVE  pc'[r] \in AfterWrite
      BY <1>2, <2>1 DEF AfterWrite, Ends
    <2>2. ASSUME NEW r \in Requests, OpOf[r] = "updateMahalla"
          PROVE  /\ pc'[r] \in {"auditing-mahalla", "done"} => r \in renamed
                 /\ pc'[r] \in Editing => r \in DOMAIN current' /\ Target(r) \in DOMAIN place
      <3>1. CASE r = w BY <1>2, <1>3, <3>1 DEF Editing
      <3>2. CASE r # w BY <1>2, <1>3, <2>2, <3>2 DEF RenameInv, RenamedOK
      <3> QED BY <3>1, <3>2
    <2> QED BY <1>2, <2>1, <2>2 DEF RenameInv, RenamedOK
  <1>5. ReadStands'
    <2> SUFFICES ASSUME NEW q \in Requests, NEW r \in renamed, NEW f \in Fields,
                        NEW v, v = current'[q][f],
                        OpOf[q] = "updateMahalla", pc'[q] \in Editing,
                        MahallaOf[q] = MahallaOf[r], ~Overlap(q, r)'
                 PROVE  StandsFor(r, f, v)'
      BY <1>s DEF ReadStands, StandsFor
    <2>1. CASE q = w
      <3>1. current'[q] = place[Target(w)] BY <1>2, <1>3, <2>1 DEF Editing
      <3>2. Target(w) = Target(r) BY <2>1 DEF Target
      <3>3. StandsFor(r, f, v) BY <3>1, <3>2 DEF RenameInv, PlaceStands
      <3> QED BY <1>2, <3>3, StandsStay
    <2>2. CASE q # w
      <3>1. pc[q] \in Editing BY <1>2, <2>2
      <3>2. q \in Sent /\ r \in Sent BY <1>1, <3>1 DEF Editing, MahallaWaits
      <3>3. v = current[q][f] BY <1>3, <2>2, <3>1 DEF RenameInv, RenamedOK
      <3>4. StandsFor(r, f, v) BY <1>1, <3>1, <3>2, <3>3 DEF RenameInv, ReadStands
      <3> QED BY <1>2, <3>4, StandsStay
    <2> QED BY <2>1, <2>2
  <1>6. PlaceStands'
    <2> SUFFICES ASSUME NEW r \in renamed, NEW f \in Fields, NEW v, v = place[Target(r)][f]
                 PROVE  StandsFor(r, f, v)'
      BY <1>s DEF PlaceStands, StandsFor
    <2>1. StandsFor(r, f, v) BY DEF RenameInv, PlaceStands
    <2> QED BY <1>2, <2>1, StandsStay
  <1> QED BY <1>1, <1>4, <1>5, <1>6 DEF RenameInv

(* A creation writes a mahalla that was not there. *)
LEMMA UpsertMahallaStep ==
    ASSUME RenameInv, [Next]_vars, NEW w \in Requests, UpsertMahalla(w)
    PROVE  RenameInv'
  <1>1. /\ ControlInv' /\ OpsOK' /\ renamed \subseteq Sent
        /\ \A q, r \in Sent : Overlap(q, r)' <=> Overlap(q, r)
        /\ \A r \in Requests : pc[r] \in MahallaWaits => r \in Sent
    BY UpdatesStay
  <1>2. /\ pc[w] = "upserting-mahalla" /\ \A x \in Requests \ {w} : pc'[x] = pc[x]
        /\ pc'[w] \in AfterWrite /\ renamed' = renamed /\ current' = current
        /\ \/ place' = place
           \/ place' = Put(place, Target(w), NextPlace(w))
    BY DEF UpsertMahalla, Resolve, Step, Goto, RenameInv, ControlInv, ControlOK, AfterWrite, Ends
  <1>3. OpOf[w] = "createMahalla" BY <1>2 DEF RenameInv, OpsOK, OpOK
  <1>4. Target(w) \in MahallaOf[w]
    BY <1>3, AccountsAssumption DEF Target, MahallaOps
  <1>5. Target(w) \notin DOMAIN place
    <2> SUFFICES ASSUME Target(w) \in DOMAIN place PROVE FALSE OBVIOUS
    <2>1. Target(w) \notin DOMAIN FirstPlaces BY <1>3, <1>4, MahallasAssumption
    <2>2. PICK c \in Requests : /\ OpOf[c] = "createMahalla" /\ Target(w) \in MahallaOf[c]
                                /\ pc[c] \in AfterWrite
      BY <2>1 DEF RenameInv, RenamedOK
    <2>3. c # w BY <1>2, <2>2 DEF AfterWrite, Ends
    <2> QED BY <1>3, <1>4, <2>2, <2>3, MahallasAssumption
  <1>6. /\ DOMAIN place \subseteq DOMAIN place' /\ DOMAIN place' \subseteq DOMAIN place \cup {Target(w)}
        /\ \A m \in DOMAIN place : place'[m] = place[m]
    BY <1>2, <1>5 DEF Put
  <1>7. RenamedOK'
    <2>1. ASSUME NEW r \in Requests, pc[r] \in AfterWrite PROVE pc'[r] \in AfterWrite
      BY <1>2, <2>1
    <2>2. ASSUME NEW r \in Requests, OpOf[r] = "updateMahalla" PROVE pc'[r] = pc[r]
      BY <1>2, <1>3, <2>2
    <2>3. ASSUME NEW m \in DOMAIN place' \ DOMAIN FirstPlaces
          PROVE  \E c \in Requests :
                    OpOf[c] = "createMahalla" /\ m \in MahallaOf[c] /\ pc'[c] \in AfterWrite
      <3>1. CASE m = Target(w) BY <1>2, <1>3, <1>4, <3>1
      <3>2. CASE m \in DOMAIN place BY <2>1, <2>3, <3>2 DEF RenameInv, RenamedOK
      <3> QED BY <1>6, <2>3, <3>1, <3>2
    <2> QED BY <1>2, <1>6, <2>1, <2>2, <2>3 DEF RenameInv, RenamedOK
  <1>s. renamed' = renamed /\ current' = current BY <1>2
  <1>8. ReadStands'
    <2> SUFFICES ASSUME NEW q \in Requests, NEW r \in renamed, NEW f \in Fields,
                        NEW v, v = current[q][f],
                        OpOf[q] = "updateMahalla", pc'[q] \in Editing,
                        MahallaOf[q] = MahallaOf[r], ~Overlap(q, r)'
                 PROVE  StandsFor(r, f, v)'
      BY <1>s DEF ReadStands, StandsFor
    <2>1. pc[q] \in Editing BY <1>2, <1>3
    <2>2. q \in Sent /\ r \in Sent BY <1>1, <2>1 DEF Editing, MahallaWaits
    <2>3. StandsFor(r, f, v) BY <1>1, <2>1, <2>2 DEF RenameInv, ReadStands
    <2> QED BY <1>2, <2>3, StandsStay
  <1>9. PlaceStands'
    <2> SUFFICES ASSUME NEW r \in renamed, NEW f \in Fields, NEW v, v = place'[Target(r)][f]
                 PROVE  StandsFor(r, f, v)'
      BY <1>2 DEF PlaceStands, StandsFor
    <2>1. v = place[Target(r)][f] BY <1>6 DEF RenameInv, RenamedOK
    <2>2. StandsFor(r, f, v) BY <2>1 DEF RenameInv, PlaceStands
    <2> QED BY <1>2, <2>2, StandsStay
  <1> QED BY <1>1, <1>7, <1>8, <1>9 DEF RenameInv

(* The names of a mahalla after a request are the ones it asked for, or read. *)
LEMMA NextName ==
    ASSUME NEW r \in Requests, NEW f \in Fields
    PROVE  IF PlaceOf[r][f] # {} THEN PlaceOf[r][f] = {NextPlace(r)[f]}
                                 ELSE NextPlace(r)[f] = current[r][f]
  <1>1. \A x, y \in PlaceOf[r][f] : x = y BY MahallasAssumption DEF Fields
  <1>2. NextPlace(r)[f] = IF PlaceOf[r][f] # {} THEN CHOOSE n \in PlaceOf[r][f] : TRUE
                                                ELSE current[r][f]
    <2>1. CASE f = "region" BY <2>1 DEF NextPlace
    <2>2. CASE f = "district" BY <2>2 DEF NextPlace
    <2>3. CASE f = "name" BY <2>3 DEF NextPlace
    <2> QED BY <2>1, <2>2, <2>3 DEF Fields
  <1>3. CASE PlaceOf[r][f] # {}
    <2>1. (CHOOSE n \in PlaceOf[r][f] : TRUE) \in PlaceOf[r][f] BY <1>3
    <2> QED BY <1>1, <1>2, <1>3, <2>1
  <1> QED BY <1>2, <1>3

(* An update writes what it asked for, or names that stand, or overlaps.   *)
LEMMA UpdateMahallaStep ==
    ASSUME RenameInv, [Next]_vars, NEW w \in Requests, UpdateMahalla(w), Free(w)
    PROVE  RenameInv'
  <1>1. /\ ControlInv' /\ OpsOK' /\ renamed \subseteq Sent /\ Sent \subseteq Sent'
        /\ \A q, r \in Sent : Overlap(q, r)' <=> Overlap(q, r)
        /\ \A q, r \in UnderWay : q \in Sent /\ r \in Sent /\ Overlap(q, r)
        /\ \A r \in Requests : pc[r] \in MahallaWaits => r \in UnderWay /\ r \in Sent
    BY UpdatesStay
  <1>2. /\ pc[w] = "updating-mahalla" /\ \A x \in Requests \ {w} : pc'[x] = pc[x]
        /\ pc'[w] \in {"auditing-mahalla", "failed"}
        /\ renamed' = renamed \cup {w} /\ current' = current
        /\ place' = [place EXCEPT ![Target(w)] = NextPlace(w)]
    BY DEF UpdateMahalla, Free, Resolve, Step, Goto, RenameInv, ControlInv, ControlOK
  <1>3. OpOf[w] = "updateMahalla" BY <1>2 DEF RenameInv, OpsOK, OpOK
  <1>4. /\ Target(w) \in DOMAIN place /\ w \in UnderWay /\ w \in Sent /\ w \notin renamed
        /\ MahallaOf[w] = {Target(w)}
    <2>1. PICK m \in Mahallas : MahallaOf[w] = {m}
      BY <1>3, AccountsAssumption DEF MahallaOps
    <2>2. Target(w) = m BY <2>1 DEF Target
    <2> QED BY <1>1, <1>2, <1>3, <2>1, <2>2
            DEF RenameInv, RenamedOK, Editing, MahallaWaits, AfterWrite, Ends
  <1>5. /\ DOMAIN place' = DOMAIN place /\ place'[Target(w)] = NextPlace(w)
        /\ \A m \in DOMAIN place \ {Target(w)} : place'[m] = place[m]
    BY <1>2, <1>4
  <1>6. RenamedOK'
    <2>1. ASSUME NEW r \in Requests, pc[r] \in AfterWrite \/ r = w PROVE pc'[r] \in AfterWrite
      BY <1>2, <2>1 DEF AfterWrite, Ends
    <2>2. ASSUME NEW r \in Requests, OpOf[r] = "updateMahalla"
          PROVE  /\ pc'[r] \in {"auditing-mahalla", "done"} => r \in renamed'
                 /\ pc'[r] \in Editing => r \in DOMAIN current /\ Target(r) \in DOMAIN place
      <3>1. CASE r = w BY <1>2, <3>1 DEF Editing
      <3>2. CASE r # w BY <1>2, <2>2, <3>2 DEF RenameInv, RenamedOK
      <3> QED BY <3>1, <3>2
    <2> QED BY <1>2, <1>3, <1>4, <1>5, <2>1, <2>2 DEF RenameInv, RenamedOK
  <1>s. current' = current BY <1>2
  <1>7. ReadStands'
    <2> SUFFICES ASSUME NEW q \in Requests, NEW r \in renamed', NEW f \in Fields,
                        NEW v, v = current[q][f],
                        OpOf[q] = "updateMahalla", pc'[q] \in Editing,
                        MahallaOf[q] = MahallaOf[r], ~Overlap(q, r)'
                 PROVE  StandsFor(r, f, v)'
      BY <1>s DEF ReadStands, StandsFor
    <2>1. q # w /\ pc[q] \in Editing BY <1>2 DEF Editing
    <2>2. q \in UnderWay /\ q \in Sent BY <1>1, <2>1 DEF Editing, MahallaWaits
    <2>3. r # w BY <1>1, <1>4, <2>2
    <2>4. r \in renamed BY <1>2, <2>3
    <2>5. StandsFor(r, f, v) BY <1>1, <2>1, <2>2, <2>4 DEF RenameInv, ReadStands
    <2> QED BY <1>2, <2>4, <2>5, StandsStay
  <1>8. PlaceStands'
    <2> SUFFICES ASSUME NEW r \in renamed', NEW f \in Fields, NEW v, v = place'[Target(r)][f]
                 PROVE  StandsFor(r, f, v)'
      BY DEF PlaceStands, StandsFor
    <2>1. r \in Requests /\ OpOf[r] = "updateMahalla"
      BY <1>2, <1>3 DEF RenameInv, RenamedOK
    <2>2. CASE r = w
      <3>1. v = NextPlace(w)[f] BY <1>5, <2>2
      <3>2. PlaceOf[r][f] \subseteq {v} BY <2>2, <3>1, NextName
      <3> QED BY <3>2 DEF StandsFor
    <2>3. CASE r # w /\ Target(r) # Target(w)
      <3>1. r \in renamed BY <1>2, <2>3
      <3>2. v = place[Target(r)][f] BY <1>5, <2>3, <3>1 DEF RenameInv, RenamedOK
      <3>3. StandsFor(r, f, v) BY <3>1, <3>2 DEF RenameInv, PlaceStands
      <3> QED BY <1>2, <3>1, <3>3, StandsStay
    <2>4. CASE r # w /\ Target(r) = Target(w)
      <3>1. r \in renamed BY <1>2, <2>4
      <3>2. MahallaOf[w] = MahallaOf[r]
        <4>1. PICK m \in Mahallas : MahallaOf[r] = {m}
          BY <2>1, AccountsAssumption DEF MahallaOps
        <4>2. Target(r) = m BY <4>1 DEF Target
        <4> QED BY <1>4, <2>4, <4>1, <4>2
      <3>3. v = NextPlace(w)[f] /\ w \in renamed' \ {r} BY <1>2, <1>5, <2>4
      <3>4. CASE PlaceOf[w][f] # {}
        <4>1. PlaceOf[w][f] = {v} BY <3>3, <3>4, NextName
        <4> QED BY <3>2, <3>3, <4>1 DEF StandsFor
      <3>5. CASE PlaceOf[w][f] = {}
        <4>1. v = current[w][f] BY <3>3, <3>5, NextName
        <4>2. CASE Overlap(w, r)
          <5>1. Overlap(w, r)' BY <1>1, <1>4, <3>1, <4>2
          <5> QED BY <3>2, <3>3, <5>1 DEF StandsFor
        <4>3. CASE ~Overlap(w, r)
          <5>1. StandsFor(r, f, v)
            BY <1>2, <1>3, <3>1, <3>2, <4>1, <4>3 DEF RenameInv, ReadStands, Editing
          <5> QED BY <1>2, <3>1, <5>1, StandsStay
        <4> QED BY <4>2, <4>3
      <3> QED BY <3>4, <3>5
    <2> QED BY <2>2, <2>3, <2>4
  <1> QED BY <1>1, <1>6, <1>7, <1>8 DEF RenameInv

(* The places' part of the invariant. *)
LEMMA RenameInvariant == Spec => []RenameInv
  <1>1. Init => RenameInv
    <2> SUFFICES ASSUME Init PROVE RenameInv OBVIOUS
    <2>1. ControlInv BY ControlStarts DEF Init, ControlInv
    <2>2. \A r \in Requests : pc[r] = "unsent" BY DEF Init, ControlInit
    <2>3. renamed = {} /\ place = FirstPlaces BY DEF Init, MahallasInit
    <2>4. OpsOK BY <2>2 DEF OpsOK, OpOK, UserWaits, MahallaWaits
    <2>5. RenamedOK BY <2>2, <2>3 DEF RenamedOK, Editing
    <2> QED BY <2>1, <2>3, <2>4, <2>5 DEF RenameInv, ReadStands, PlaceStands
  <1>2. RenameInv /\ [Next]_vars => RenameInv'
    BY RenameSteps, AsideStep, ReadMahallaStep, UpsertMahallaStep, UpdateMahallaStep
       DEF RenameInv
  <1> QED BY <1>1, <1>2, PTL DEF Spec

(* What an answered mahallas.update asked for is its mahalla's place, but  *)
(* for what another update asked for, or one that overlapped it wrote back *)
(* from the row it had read.                                               *)
THEOREM RenamesStand == Spec => []RenameStands
  <1>1. RenameInv => RenameStands
    <2> SUFFICES ASSUME RenameInv, NEW r \in Requests, OpOf[r] = "updateMahalla",
                        pc[r] = "done", NEW f \in Fields
                 PROVE  StandsFor(r, f, place[Target(r)][f])
      BY DEF RenameStands, StandsFor, Fields
    <2>1. r \in renamed BY DEF RenameInv, RenamedOK
    <2> QED BY <2>1 DEF RenameInv, PlaceStands
  <1> QED BY <1>1, RenameInvariant, PTL
-----------------------------------------------------------------------------
(***************************************************************************)
(* The constraints of the schema.                                          *)
(***************************************************************************)
(* What a request at p has seen to be there. *)
HomeSeen(r, p) ==
    p \in {"inserting-user", "updating-user"} \/ (p = "checking-phone" /\ Creates(r)) =>
        MahallaOf[r] \subseteq DOMAIN place

UserSeen(r, p) == p \in {"removing-user", "revoking", "issuing"} => UserOf[r] \in DOMAIN user

MahallaSeen(r, p) == p \in {"counting-users", "removing-mahalla"} => Target(r) \in DOMAIN place

AreasSeen(r, p) ==
    /\ p \in {"upserting-district", "upserting-mahalla", "updating-mahalla"} =>
          RegionRow(NextPlace(r)) \in areas
    /\ p \in {"upserting-mahalla", "updating-mahalla"} => DistrictRow(NextPlace(r)) \in areas

Seen(r, p) == HomeSeen(r, p) /\ UserSeen(r, p) /\ MahallaSeen(r, p) /\ AreasSeen(r, p)

SeenOK == \A r \in Requests : Seen(r, pc[r])

(* A token that was sent had been issued. *)
PresentedOK == presented \in [Requests -> SUBSET issued]

Known == SessionInv /\ HomeInv /\ ProfileInv /\ RenameInv

SchemaInv == SeenOK /\ UsersAllowed /\ MahallasAllowed /\ PresentedOK

(* What was seen is there as long as rows last. *)
LEMMA SeenLasts ==
    ASSUME NEW r, NEW p, Seen(r, p), DOMAIN user \subseteq DOMAIN user',
           DOMAIN place \subseteq DOMAIN place', areas \subseteq areas',
           p \in {"upserting-district", "upserting-mahalla", "updating-mahalla"} =>
              NextPlace(r)' = NextPlace(r)
    PROVE  Seen(r, p)'
  <1>1. HomeSeen(r, p)' BY DEF Seen, HomeSeen
  <1>2. UserSeen(r, p)' BY DEF Seen, UserSeen
  <1>3. MahallaSeen(r, p)' BY DEF Seen, MahallaSeen
  <1>4. AreasSeen(r, p)' BY DEF Seen, AreasSeen, RegionRow, DistrictRow
  <1> QED BY <1>1, <1>2, <1>3, <1>4 DEF Seen

(* The names asked for, or read before, stay. *)
LEMMA NextPlaceStays ==
    ASSUME Known, [Next]_vars, NEW x \in Requests,
           pc[x] \in {"upserting-region", "upserting-district", "upserting-mahalla", "updating-mahalla"},
           \/ current' = current
           \/ \E r \in Requests \ {x} : \E y : current' = Put(current, r, y)
    PROVE  NextPlace(x)' = NextPlace(x)
  <1>1. OpOf[x] = "createMahalla" \/ x \in DOMAIN current
    BY DEF Known, RenameInv, OpsOK, OpOK, RenamedOK, Editing, MahallaWaits, MahallaOps
  <1>2. CASE x \in DOMAIN current
    <2>1. current'[x] = current[x] BY <1>2 DEF Put
    <2> QED BY <2>1 DEF NextPlace
  <1>3. CASE OpOf[x] = "createMahalla"
    <2>1. PlaceOf[x]["region"] # {} /\ PlaceOf[x]["district"] # {} /\ PlaceOf[x]["name"] # {}
      BY <1>3, SchemaAssumption
    <2> QED BY <2>1 DEF NextPlace
  <1> QED BY <1>1, <1>2, <1>3

(* A step of one request leaves what the others have seen.                 *)
LEMMA SeenMoves ==
    ASSUME Known, [Next]_vars, SeenOK, NEW r \in Requests, NEW p, Goto(r, p), Seen(r, p)',
           DOMAIN user \subseteq DOMAIN user', DOMAIN place \subseteq DOMAIN place',
           areas \subseteq areas',
           current' = current \/ \E y : current' = Put(current, r, y)
    PROVE  SeenOK'
  <1>1. pc' = [pc EXCEPT ![r] = p] /\ DOMAIN pc = Requests
    BY DEF Goto, Known, SessionInv, ControlInv, ControlOK
  <1>2. pc'[r] = p BY <1>1
  <1>3. ASSUME NEW x \in Requests \ {r} PROVE Seen(x, pc[x])'
    <2>1. PICK w : pc[x] = w OBVIOUS
    <2>2. pc'[x] = w BY <1>1, <2>1
    <2>3. Seen(x, w) BY <2>1 DEF SeenOK
    <2>4. w \in {"upserting-district", "upserting-mahalla", "updating-mahalla"} =>
              NextPlace(x)' = NextPlace(x)
      BY <2>1, NextPlaceStays
    <2>5. Seen(x, w)' BY <2>3, <2>4, SeenLasts
    <2> QED BY <2>2, <2>5
  <1> QED BY <1>2, <1>3 DEF SeenOK

(* A step that writes no table leaves what is seen, but what r has then.   *)
LEMMA SeenReads ==
    ASSUME Known, [Next]_vars, SeenOK, NEW r \in Requests, NEW p, NEW q,
           Step(r, p, q) \/ Resolve(r, p, q) \/ Arrive(r, q), Seen(r, q)',
           DOMAIN user \subseteq DOMAIN user', DOMAIN place \subseteq DOMAIN place',
           areas \subseteq areas',
           current' = current \/ \E y : current' = Put(current, r, y)
    PROVE  SeenOK'
  <1>1. Goto(r, q) \/ Goto(r, "failed") BY DEF Step, Resolve, Arrive
  <1>2. Seen(r, "failed")' BY DEF Seen, HomeSeen, UserSeen, MahallaSeen, AreasSeen
  <1> QED BY <1>1, <1>2, SeenMoves

(* Most awaits need nothing.                                               *)
LEMMA NothingSeen ==
    ASSUME NEW r, NEW q,
           q \notin {"inserting-user", "updating-user", "checking-phone", "removing-user", "revoking",
                     "issuing", "counting-users", "removing-mahalla", "upserting-district",
                     "upserting-mahalla", "updating-mahalla"}
    PROVE  Seen(r, q)'
  BY DEF Seen, HomeSeen, UserSeen, MahallaSeen, AreasSeen

(* Every step leaves seen what it has to.                                  *)
LEMMA SeenStep ==
    ASSUME Known, SchemaInv, [Next]_vars
    PROVE  SeenOK'
  <1>k. SeenOK BY DEF SchemaInv
  <1>a. ASSUME NEW r \in Requests, NEW p, NEW q, Seen(r, q)',
               Step(r, p, q) \/ Resolve(r, p, q) \/ Arrive(r, q),
               DOMAIN user \subseteq DOMAIN user', UNCHANGED mahallaVars
        PROVE  SeenOK'
    BY <1>a, <1>k, SeenReads DEF mahallaVars
  <1>b. ASSUME NEW r \in Requests, NEW p, NEW q, Seen(r, q)',
               Step(r, p, q) \/ Resolve(r, p, q) \/ Arrive(r, q),
               DOMAIN place \subseteq DOMAIN place', areas \subseteq areas',
               current' = current, UNCHANGED <<userVars, tokenVars>>
        PROVE  SeenOK'
    BY <1>b, <1>k, SeenReads DEF userVars
  <1>c. ASSUME NEW r \in Requests, NEW p, NEW q, Resolve(r, p, q) \/ Step(r, p, q)
        PROVE  Seen(r, p) /\ pc[r] = p
    BY <1>c, <1>k DEF Resolve, Step, SeenOK
  <1> USE DEF userVars, tokenVars
  <1>1. ASSUME NEW r \in Requests, CallUser(r) PROVE SeenOK'
    <2>1. PICK q \in {"refused", "checking-mahalla", "checking-phone", "reading-target",
                      "reading-removed"} :
             /\ Arrive(r, q) /\ user' = user /\ UNCHANGED mahallaVars
             /\ q = "checking-phone" /\ Creates(r) => MahallaOf[r] = {}
      BY <1>1 DEF CallUser, Creates
    <2>2. Seen(r, q)' BY <2>1 DEF Seen, HomeSeen, UserSeen, MahallaSeen, AreasSeen
    <2> QED BY <1>a, <2>1, <2>2
  <1>2. ASSUME NEW r \in Requests, CheckMahalla(r) PROVE SeenOK'
    <2>1. PICK q \in {"refused", "checking-phone", "updating-user"} :
             /\ Step(r, "checking-mahalla", q) /\ user' = user /\ UNCHANGED mahallaVars
             /\ q # "refused" => MahallaOf[r] \subseteq DOMAIN place
      BY <1>2 DEF CheckMahalla, MahallaFound, OpenMahallas
    <2>2. Seen(r, q)' BY <2>1 DEF Seen, HomeSeen, UserSeen, MahallaSeen, AreasSeen, mahallaVars
    <2> QED BY <1>a, <2>1, <2>2
  <1>3. ASSUME NEW r \in Requests, CheckPhone(r) PROVE SeenOK'
    <2>1. PICK q \in {"refused", "inserting-user", "checking-mahalla", "updating-user"} :
             /\ Step(r, "checking-phone", q) /\ user' = user /\ UNCHANGED mahallaVars
             /\ q = "inserting-user" => Creates(r)
             /\ q = "updating-user" => MahallaOf[r] = {}
      BY <1>3 DEF CheckPhone, Placing
    <2>2. Seen(r, "checking-phone") BY <1>c, <2>1
    <2>3. Seen(r, q)' BY <2>1, <2>2 DEF Seen, HomeSeen, UserSeen, MahallaSeen, AreasSeen, mahallaVars
    <2> QED BY <1>a, <2>1, <2>3
  <1>4. ASSUME NEW r \in Requests, InsertUser(r) \/ UpdateUser(r) PROVE SeenOK'
    <2>1. DOMAIN user \subseteq DOMAIN user' /\ UNCHANGED mahallaVars
      <3>1. user' = user \/ \E row : user' = Put(user, UserOf[r], row)
        BY <1>4 DEF InsertUser, UpdateUser, WriteUser
      <3>2. UNCHANGED mahallaVars BY <1>4 DEF InsertUser, UpdateUser, WriteUser
      <3> QED BY <3>1, <3>2 DEF Put
    <2>2. PICK p \in {"inserting-user", "updating-user"},
               q \in {"creating-profile", "updating-profile", "deleting-profile", "auditing",
                      "done", "failed"} :
              Resolve(r, p, q) \/ Step(r, p, q)
      BY <1>4 DEF InsertUser, UpdateUser, WriteUser, Answer, ProfileStep
    <2> QED BY <1>a, <2>1, <2>2, NothingSeen
  <1>5. ASSUME NEW r \in Requests,
               CreateProfile(r) \/ UpdateProfile(r) \/ DeleteProfile(r) \/ RemoveUser(r) \/ Audit(r)
        PROVE  SeenOK'
    <2>1. PICK p \in UserWaits, q \in {"auditing", "done", "failed"} :
              (Resolve(r, p, q) \/ Step(r, p, q)) /\ user' = user /\ UNCHANGED mahallaVars
      BY <1>5 DEF CreateProfile, UpdateProfile, DeleteProfile, RemoveUser, Audit, Answer, UserWaits
    <2> QED BY <1>a, <2>1, NothingSeen
  <1>6. ASSUME NEW r \in Requests, ReadTarget(r) PROVE SeenOK'
    <2>1. PICK q \in {"refused", "checking-phone", "checking-mahalla", "updating-user"} :
             /\ Step(r, "reading-target", q) /\ user' = user /\ UNCHANGED mahallaVars
             /\ q = "updating-user" => MahallaOf[r] = {}
      BY <1>6 DEF ReadTarget, Placing
    <2>2. ~Creates(r)
      BY <2>1 DEF Known, HomeInv, PlacesOK, PlaceOK, Step
    <2>3. Seen(r, q)' BY <2>1, <2>2 DEF Seen, HomeSeen, UserSeen, MahallaSeen, AreasSeen
    <2> QED BY <1>a, <2>1, <2>3
  <1>7. ASSUME NEW r \in Requests, ReadRemoved(r) PROVE SeenOK'
    <2>1. PICK q \in {"removing-user", "refused"} :
             /\ Step(r, "reading-removed", q) /\ user' = user /\ UNCHANGED mahallaVars
             /\ q = "removing-user" => UserOf[r] \in DOMAIN user
      BY <1>7 DEF ReadRemoved, Present
    <2>2. Seen(r, q)' BY <2>1 DEF Seen, HomeSeen, UserSeen, MahallaSeen, AreasSeen
    <2> QED BY <1>a, <2>1, <2>2
  <1>8. ASSUME NEW r \in Requests, CallSession(r) PROVE SeenOK'
    <2>1. PICK q \in {"signing-in", "finding-token"} :
             Arrive(r, q) /\ user' = user /\ UNCHANGED mahallaVars
      BY <1>8 DEF CallSession
    <2> QED BY <1>a, <2>1, NothingSeen
  <1>9. ASSUME NEW r \in Requests, SignIn(r) \/ FindToken(r) \/ Revoke(r) \/ Issue(r)
        PROVE  SeenOK'
    <2>1. PICK p \in UserWaits, q \in {"issuing", "refused", "revoking", "done"} :
             /\ Resolve(r, p, q) \/ Step(r, p, q)
             /\ user' = user /\ UNCHANGED mahallaVars
             /\ q \in {"issuing", "revoking"} =>
                   UserOf[r] \in DOMAIN user \/ p = "revoking" \/ \E t \in issued : UserOf[t] = UserOf[r]
      <3>1. CASE SignIn(r) BY <3>1 DEF SignIn, Present, UserWaits
      <3>2. CASE FindToken(r) BY <3>2 DEF FindToken, Candidates, LiveOf, UserWaits
      <3>3. CASE Revoke(r) BY <3>3 DEF Revoke, UserWaits
      <3>4. CASE Issue(r) BY <3>4 DEF Issue, UserWaits
      <3> QED BY <1>9, <3>1, <3>2, <3>3, <3>4
    <2>2. q \in {"issuing", "revoking"} => UserOf[r] \in DOMAIN user
      <3>1. p = "revoking" => UserOf[r] \in DOMAIN user BY <1>c, <2>1 DEF Seen, UserSeen
      <3>2. \A t \in issued : UserOf[t] \in DOMAIN user BY DEF SchemaInv, UsersAllowed
      <3> QED BY <2>1, <3>1, <3>2
    <2>3. Seen(r, q)' BY <2>1, <2>2 DEF Seen, HomeSeen, UserSeen, MahallaSeen, AreasSeen
    <2> QED BY <1>a, <2>1, <2>3
  <1>10. ASSUME NEW r \in Requests, CallMahalla(r), UNCHANGED <<userVars, tokenVars>>
         PROVE  SeenOK'
    <2>1. PICK q \in {"upserting-region", "reading-mahalla"} : Arrive(r, q) /\ UNCHANGED mahallaVars
      BY <1>10 DEF CallMahalla
    <2> QED BY <1>a, <1>10, <2>1, NothingSeen
  <1>11. ASSUME NEW r \in Requests, ReadMahalla(r), UNCHANGED <<userVars, tokenVars>>
         PROVE  SeenOK'
    <2>1. PICK q \in {"refused", "upserting-region", "counting-users"} :
             /\ Step(r, "reading-mahalla", q)
             /\ q = "counting-users" => Target(r) \in DOMAIN place
      BY <1>11 DEF ReadMahalla, OpenMahallas
    <2>2. /\ place' = place /\ areas' = areas /\ user' = user
          /\ current' = current \/ \E y : current' = Put(current, r, y)
      BY <1>11 DEF ReadMahalla
    <2>3. Seen(r, q)' BY <2>1, <2>2 DEF Seen, HomeSeen, UserSeen, MahallaSeen, AreasSeen, Target
    <2> QED BY <1>k, <2>1, <2>2, <2>3, SeenReads
  <1>12. ASSUME NEW r \in Requests, UpsertRegion(r), UNCHANGED <<userVars, tokenVars>>
         PROVE  SeenOK'
    <2>1. /\ Resolve(r, "upserting-region", "upserting-district")
          /\ areas' = areas \cup {RegionRow(NextPlace(r))} /\ place' = place /\ current' = current
      BY <1>12 DEF UpsertRegion
    <2>2. NextPlace(r)' = NextPlace(r) BY <1>c, <2>1, NextPlaceStays
    <2>3. Seen(r, "upserting-district")'
      BY <2>1, <2>2 DEF Seen, HomeSeen, UserSeen, MahallaSeen, AreasSeen, RegionRow
    <2> QED BY <1>b, <1>12, <2>1, <2>3
  <1>13. ASSUME NEW r \in Requests, UpsertDistrict(r), UNCHANGED <<userVars, tokenVars>>
         PROVE  SeenOK'
    <2>1. PICK q \in {"upserting-mahalla", "updating-mahalla"} :
             /\ Resolve(r, "upserting-district", q)
             /\ areas' = areas \cup {DistrictRow(NextPlace(r))} /\ place' = place
             /\ current' = current
      BY <1>13 DEF UpsertDistrict
    <2>2. NextPlace(r)' = NextPlace(r) BY <1>c, <2>1, NextPlaceStays
    <2>3. RegionRow(NextPlace(r)) \in areas BY <1>c, <2>1 DEF Seen, AreasSeen
    <2>4. Seen(r, q)'
      BY <2>1, <2>2, <2>3 DEF Seen, HomeSeen, UserSeen, MahallaSeen, AreasSeen, RegionRow, DistrictRow
    <2> QED BY <1>b, <1>13, <2>1, <2>4
  <1>14. ASSUME NEW r \in Requests, UpsertMahalla(r) \/ UpdateMahalla(r),
                UNCHANGED <<userVars, tokenVars>>
         PROVE  SeenOK'
    <2>1. DOMAIN place \subseteq DOMAIN place' /\ areas' = areas /\ current' = current
      <3>1. \/ place' = place
            \/ \E y : place' = Put(place, Target(r), y)
            \/ \E y : place' = [place EXCEPT ![Target(r)] = y]
        BY <1>14 DEF UpsertMahalla, UpdateMahalla
      <3>2. areas' = areas /\ current' = current BY <1>14 DEF UpsertMahalla, UpdateMahalla
      <3> QED BY <3>1, <3>2 DEF Put
    <2>2. PICK p \in MahallaWaits, q \in {"auditing-mahalla", "refused"} : Resolve(r, p, q) \/ Step(r, p, q)
      BY <1>14 DEF UpsertMahalla, UpdateMahalla, Conflict, MahallaWaits
    <2> QED BY <1>b, <1>14, <2>1, <2>2, NothingSeen
  <1>15. ASSUME NEW r \in Requests, RemoveMahalla(r) \/ AuditMahalla(r),
                UNCHANGED <<userVars, tokenVars>>
         PROVE  SeenOK'
    <2>1. PICK p \in MahallaWaits, q \in {"auditing-mahalla", "done"} :
             Resolve(r, p, q) /\ place' = place /\ areas' = areas /\ current' = current
      BY <1>15 DEF RemoveMahalla, AuditMahalla, mahallaVars, MahallaWaits
    <2> QED BY <1>b, <1>15, <2>1, NothingSeen
  <1>16. ASSUME NEW r \in Requests, NEW b, CountUsers(r, b), UNCHANGED <<userVars, tokenVars>>
         PROVE  SeenOK'
    <2>1. PICK q \in {"refused", "removing-mahalla"} :
             Step(r, "counting-users", q) /\ UNCHANGED mahallaVars
      BY <1>16 DEF CountUsers
    <2>2. Target(r) \in DOMAIN place BY <1>c, <2>1 DEF Seen, MahallaSeen
    <2>3. Seen(r, q)'
      BY <2>1, <2>2 DEF Seen, HomeSeen, UserSeen, MahallaSeen, AreasSeen, Target, mahallaVars
    <2> QED BY <1>a, <1>16, <2>1, <2>3
  <1>17. ASSUME NEW r \in Requests, Fail(r) PROVE SeenOK'
    <2>1. Goto(r, "failed") /\ user' = user /\ UNCHANGED mahallaVars BY <1>17 DEF Fail, Reject
    <2>2. Seen(r, "failed")' BY NothingSeen
    <2> QED BY <1>k, <2>1, <2>2, SeenMoves DEF mahallaVars
  <1>18. CASE Crash \/ UNCHANGED vars
    <2>1. user' = user /\ UNCHANGED mahallaVars
          /\ \A x \in Requests : pc'[x] \in {pc[x], "lost"}
      BY <1>18 DEF Crash, Die, vars, control
    <2>2. ASSUME NEW x \in Requests PROVE Seen(x, pc[x])'
      <3>1. PICK w : pc'[x] = w OBVIOUS
      <3>2. Seen(x, w)
        BY <1>k, <2>1, <3>1 DEF SeenOK, Seen, HomeSeen, UserSeen, MahallaSeen, AreasSeen
      <3>3. NextPlace(x)' = NextPlace(x) BY <2>1 DEF NextPlace, mahallaVars
      <3>4. Seen(x, w)' BY <2>1, <3>2, <3>3, SeenLasts DEF mahallaVars
      <3> QED BY <3>1, <3>4
    <2> QED BY <2>2 DEF SeenOK
  <1> QED
    BY <1>1, <1>2, <1>3, <1>4, <1>5, <1>6, <1>7, <1>8, <1>9, <1>10, <1>11, <1>12, <1>13,
       <1>14, <1>15, <1>16, <1>17, <1>18
       DEF Next, HandleUser, HandleMahalla

(* A step writes mahallas or users, not both.                              *)
LEMMA OneService ==
    ASSUME [Next]_vars
    PROVE  \/ UNCHANGED mahallaVars
           \/ \E r \in Requests : HandleMahalla(r) /\ UNCHANGED <<userVars, tokenVars>>
  <1>1. ASSUME NEW r \in Requests, HandleUser(r) PROVE UNCHANGED mahallaVars
    BY <1>1 DEF HandleUser, CallUser, CheckMahalla, CheckPhone, InsertUser, WriteUser, CreateProfile,
                ReadTarget, UpdateUser, UpdateProfile, DeleteProfile, ReadRemoved, RemoveUser, Audit,
                CallSession, SignIn, FindToken, Revoke, Issue, Fail
  <1>2. ASSUME NEW r \in Requests, NEW b, CountUsers(r, b) PROVE UNCHANGED mahallaVars
    BY <1>2 DEF CountUsers
  <1>3. CASE Crash \/ UNCHANGED vars BY <1>3 DEF Crash, vars
  <1> QED BY <1>1, <1>2, <1>3 DEF Next

(* The rows of mahallas stay as the schema wants them.                     *)
LEMMA MahallasStep ==
    ASSUME Known, SchemaInv, [Next]_vars
    PROVE  MahallasAllowed' /\ DOMAIN place \subseteq DOMAIN place'
  <1>1. MahallasAllowed /\ SeenOK BY DEF SchemaInv
  <1>2. CASE UNCHANGED mahallaVars BY <1>1, <1>2 DEF MahallasAllowed, mahallaVars, RegionRow, DistrictRow
  <1>3. ASSUME NEW r \in Requests, HandleMahalla(r)
        PROVE  MahallasAllowed' /\ DOMAIN place \subseteq DOMAIN place'
    <2>m. OpOf[r] \in MahallaOps => MahallaOf[r] = {Target(r)} /\ Target(r) \in Mahallas
      BY AccountsAssumption DEF Target
    <2>o. pc[r] \in MahallaWaits => OpOf[r] \in MahallaOps
      BY DEF Known, RenameInv, OpsOK, OpOK
    <2>s. ASSUME NEW p, pc[r] = p PROVE Seen(r, p) BY <1>1, <2>s DEF SeenOK
    <2>1. CASE CallMahalla(r) \/ ReadMahalla(r) \/ AuditMahalla(r)
      <3>1. place' = place /\ closed' = closed /\ areas' = areas
        BY <2>1 DEF CallMahalla, ReadMahalla, AuditMahalla, mahallaVars
      <3> QED BY <1>1, <3>1 DEF MahallasAllowed, RegionRow, DistrictRow
    <2>2. CASE UpsertRegion(r) \/ UpsertDistrict(r)
      <3>1. place' = place /\ closed' = closed /\ areas \subseteq areas'
        BY <2>2 DEF UpsertRegion, UpsertDistrict
      <3> QED BY <1>1, <3>1 DEF MahallasAllowed, RegionRow, DistrictRow
    <2>3. CASE RemoveMahalla(r)
      <3>1. /\ pc[r] = "removing-mahalla" /\ place' = place /\ areas' = areas
            /\ closed' = closed \cup {Target(r)}
        BY <2>3 DEF RemoveMahalla, Resolve, Step
      <3>2. Target(r) \in DOMAIN place BY <2>s, <3>1 DEF Seen, MahallaSeen
      <3> QED BY <1>1, <3>1, <3>2 DEF MahallasAllowed, RegionRow, DistrictRow
    <2>4. CASE UpsertMahalla(r)
      <3>1. PICK p : p = NextPlace(r) OBVIOUS
      <3>2. /\ pc[r] = "upserting-mahalla" /\ areas' = areas
            /\ place' = IF At(p) = {} THEN Put(place, Target(r), p) ELSE place
            /\ closed' \subseteq closed
        BY <2>4, <3>1 DEF UpsertMahalla, Resolve, Step
      <3>3. {RegionRow(p), DistrictRow(p)} \subseteq areas
        BY <2>s, <3>1, <3>2 DEF Seen, AreasSeen
      <3>4. Target(r) \in Mahallas BY <2>m, <2>o, <3>2 DEF MahallaWaits
      <3>5. CASE At(p) = {}
        <4>1. /\ DOMAIN place' = DOMAIN place \cup {Target(r)} /\ place'[Target(r)] = p
              /\ \A m \in DOMAIN place \ {Target(r)} : place'[m] = place[m]
          BY <3>2, <3>5 DEF Put
        <4>2. \A m \in DOMAIN place : place[m] # p BY <3>5 DEF At
        <4> QED BY <1>1, <3>2, <3>3, <3>4, <4>1, <4>2 DEF MahallasAllowed, RegionRow, DistrictRow
      <3>6. CASE At(p) # {}
        BY <1>1, <3>2, <3>6 DEF MahallasAllowed, RegionRow, DistrictRow
      <3> QED BY <3>5, <3>6
    <2>5. CASE UpdateMahalla(r)
      <3>1. PICK p : p = NextPlace(r) OBVIOUS
      <3>2. /\ pc[r] = "updating-mahalla" /\ areas' = areas /\ closed' = closed
            /\ \/ place' = place
               \/ At(p) \subseteq MahallaOf[r] /\ place' = [place EXCEPT ![Target(r)] = p]
        BY <2>5, <3>1 DEF UpdateMahalla
      <3>3. {RegionRow(p), DistrictRow(p)} \subseteq areas
        BY <2>s, <3>1, <3>2 DEF Seen, AreasSeen
      <3>4. MahallaOf[r] = {Target(r)} BY <2>m, <2>o, <3>2 DEF MahallaWaits
      <3>5. \A m \in DOMAIN place \ {Target(r)} : At(p) \subseteq MahallaOf[r] => place[m] # p
        BY <3>4 DEF At
      <3> QED BY <1>1, <3>2, <3>3, <3>5 DEF MahallasAllowed, RegionRow, DistrictRow
    <2> QED BY <1>3, <2>1, <2>2, <2>3, <2>4, <2>5 DEF HandleMahalla
  <1> QED BY <1>2, <1>3, OneService DEF mahallaVars

(* A row that is written has a phone number of its own, and a home there.  *)
LEMMA WritesAllowed ==
    ASSUME Known, SchemaInv, NEW r \in Requests, InsertUser(r) \/ UpdateUser(r)
    PROVE  \/ user' = user
           \/ \E row : /\ user' = Put(user, UserOf[r], row)
                       /\ row.home \subseteq DOMAIN place
                       /\ \A u \in DOMAIN user \ {UserOf[r]} : user[u].phone # row.phone
  <1>a. UsersAllowed /\ SeenOK BY DEF SchemaInv
  <1>b. Given(PhoneOf[r], "") \in PhoneOf[r] \/ PhoneOf[r] = {} BY DEF Given
  <1>1. CASE InsertUser(r)
    <2>1. PICK row : row = [phone |-> Given(PhoneOf[r], ""), role |-> Given(RoleOf[r], ""),
                            home |-> MahallaOf[r]]
      OBVIOUS
    <2>2. row.phone = Given(PhoneOf[r], "") /\ row.home = MahallaOf[r] BY <2>1
    <2>3. /\ pc[r] = "inserting-user"
          /\ user' = user \/ (Owners(r) \subseteq {UserOf[r]} /\ user' = Put(user, UserOf[r], row))
      BY <1>1, <2>1 DEF InsertUser, WriteUser, Resolve, Step
    <2>4. MahallaOf[r] \subseteq DOMAIN place BY <1>a, <2>3 DEF SeenOK, Seen, HomeSeen
    <2>5. Creates(r) BY <2>3 DEF Known, HomeInv, PlacesOK, PlaceOK
    <2>6. PhoneOf[r] # {} BY <2>5, SchemaAssumption DEF Creates
    <2>7. Owners(r) \subseteq {UserOf[r]} =>
             \A u \in DOMAIN user \ {UserOf[r]} : user[u].phone # row.phone
      BY <1>b, <2>2, <2>6 DEF Owners
    <2> QED BY <2>2, <2>3, <2>4, <2>7
  <1>2. CASE UpdateUser(r)
    <2>1. PICK old : old = user[UserOf[r]] OBVIOUS
    <2>2. PICK row : row = [phone |-> Given(PhoneOf[r], old.phone), role |-> Given(RoleOf[r], old.role),
                            home |-> IF MahallaOf[r] # {} THEN MahallaOf[r] ELSE old.home]
      OBVIOUS
    <2>3. /\ row.phone = Given(PhoneOf[r], old.phone)
          /\ row.home = IF MahallaOf[r] # {} THEN MahallaOf[r] ELSE old.home
      BY <2>2
    <2>4. /\ pc[r] = "updating-user"
          /\ user' = user \/ (Owners(r) \subseteq {UserOf[r]} /\ user' = Put(user, UserOf[r], row))
      BY <1>2, <2>1, <2>2 DEF UpdateUser, WriteUser, Resolve, Step
    <2>5. UserOf[r] \in DOMAIN user
      BY <2>4 DEF Known, HomeInv, PlacesOK, PlaceOK
    <2>6. MahallaOf[r] \subseteq DOMAIN place BY <1>a, <2>4 DEF SeenOK, Seen, HomeSeen
    <2>7. row.home \subseteq DOMAIN place BY <1>a, <2>1, <2>3, <2>5, <2>6 DEF UsersAllowed
    <2>8. ASSUME Owners(r) \subseteq {UserOf[r]}, NEW u \in DOMAIN user \ {UserOf[r]}
          PROVE  user[u].phone # row.phone
      <3>1. CASE PhoneOf[r] = {}
        <4>1. row.phone = old.phone BY <2>3, <3>1 DEF Given
        <4> QED BY <1>a, <2>1, <2>5, <2>8, <4>1 DEF UsersAllowed
      <3>2. CASE PhoneOf[r] # {}
        <4>1. row.phone \in PhoneOf[r] BY <2>3, <3>2 DEF Given
        <4> QED BY <2>8, <4>1 DEF Owners
      <3> QED BY <3>1, <3>2
    <2> QED BY <2>4, <2>7, <2>8
  <1> QED BY <1>1, <1>2

(* So the users are as the schema wants them.                              *)
LEMMA UsersStep ==
    ASSUME Known, Known', SchemaInv, [Next]_vars
    PROVE  UsersAllowed'
  <1>1. UsersAllowed /\ SeenOK BY DEF SchemaInv
  <1>2. DOMAIN user \subseteq DOMAIN user'
    BY PlacesStep DEF Known, HomeInv, PlacesKept
  <1>3. DOMAIN place \subseteq DOMAIN place' BY MahallasStep
  <1>4. /\ DOMAIN user' \subseteq Users
        /\ \A u \in DOMAIN user' : \A x, y \in user'[u].home : x = y
        /\ profiles' \subseteq DOMAIN user' /\ issued' \subseteq Requests
    <2>1. \A u \in DOMAIN user' : user'[u].home \in Homes BY DEF Known, HomeInv, RowsOK
    <2>2. \A S \in Homes : \A x, y \in S : x = y BY DEF Homes
    <2> QED BY <2>1, <2>2 DEF Known, HomeInv, RowsOK, ProfileInv, WritersOK, SessionInv, TokensOK
  <1>5. /\ \A u \in DOMAIN user' : user'[u].home \subseteq DOMAIN place'
        /\ \A u, v \in DOMAIN user' : user'[u].phone = user'[v].phone => u = v
    <2>1. CASE user' = user BY <1>1, <1>3, <2>1 DEF UsersAllowed
    <2>2. CASE \E r \in Requests : InsertUser(r) \/ UpdateUser(r)
      <3>1. PICK r \in Requests : InsertUser(r) \/ UpdateUser(r) BY <2>2
      <3>2. CASE user' # user
        <4>1. PICK row : /\ user' = Put(user, UserOf[r], row)
                         /\ row.home \subseteq DOMAIN place
                         /\ \A u \in DOMAIN user \ {UserOf[r]} : user[u].phone # row.phone
          BY <3>1, <3>2, WritesAllowed
        <4>2. /\ DOMAIN user' = DOMAIN user \cup {UserOf[r]} /\ user'[UserOf[r]] = row
              /\ \A u \in DOMAIN user \ {UserOf[r]} : user'[u] = user[u]
          BY <4>1 DEF Put
        <4> QED BY <1>1, <1>3, <4>1, <4>2 DEF UsersAllowed
      <3> QED BY <2>1, <3>2
    <2>3. user' = user \/ \E r \in Requests : InsertUser(r) \/ UpdateUser(r)
      BY HomeSteps DEF Known, HomeInv, Still, CallUser, CheckMahalla, CheckPhone, ReadTarget, userVars
    <2> QED BY <2>1, <2>2, <2>3
  <1>6. /\ removed' \subseteq DOMAIN user' /\ revoked' \subseteq issued'
        /\ \A t \in issued' : UserOf[t] \in DOMAIN user'
    <2>s. ASSUME NEW r \in Requests, NEW p, NEW q, Resolve(r, p, q) \/ Step(r, p, q)
          PROVE  Seen(r, p)
      BY <1>1, <2>s DEF Resolve, Step, SeenOK
    <2>1. CASE Quiet \/ \E r \in Requests : SignIn(r) \/ FindToken(r)
      <3>1. removed' = removed /\ revoked' = revoked /\ issued' = issued
        BY <2>1 DEF Quiet, SignIn, FindToken, userVars, tokenVars, rowVars
      <3> QED BY <1>1, <1>2, <3>1 DEF UsersAllowed
    <2>2. ASSUME NEW r \in Requests, RemoveUser(r)
          PROVE  /\ removed' \subseteq DOMAIN user' /\ revoked' \subseteq issued'
                 /\ \A t \in issued' : UserOf[t] \in DOMAIN user'
      <3>1. UserOf[r] \in DOMAIN user BY <2>2, <2>s DEF RemoveUser, Seen, UserSeen
      <3>2. /\ removed' = removed \cup {UserOf[r]} /\ issued' = issued
            /\ revoked' \subseteq revoked \cup issued
        BY <2>2 DEF RemoveUser, RevokeAll, LiveOf
      <3> QED BY <1>1, <1>2, <3>1, <3>2 DEF UsersAllowed
    <2>3. ASSUME NEW r \in Requests, Revoke(r) \/ Issue(r)
          PROVE  /\ removed' \subseteq DOMAIN user' /\ revoked' \subseteq issued'
                 /\ \A t \in issued' : UserOf[t] \in DOMAIN user'
      <3>1. Issue(r) => UserOf[r] \in DOMAIN user BY <2>s DEF Issue, Seen, UserSeen
      <3>2. found[r] \subseteq issued BY DEF Known, SessionInv, TokensOK
      <3>3. /\ removed' = removed
            /\ \/ revoked' = revoked \cup found[r] /\ issued' = issued
               \/ Issue(r) /\ revoked' = revoked /\ issued' = issued \cup {r}
        BY <2>3 DEF Revoke, Issue, userVars
      <3> QED BY <1>1, <1>2, <3>1, <3>2, <3>3 DEF UsersAllowed
    <2> QED BY <2>1, <2>2, <2>3, SessionSteps DEF Known, SessionInv
  <1> QED BY <1>4, <1>5, <1>6 DEF UsersAllowed

(* A client sends tokens that were issued, and no token is taken back.     *)
LEMMA PresentedStep ==
    ASSUME PresentedOK, [Next]_vars
    PROVE  PresentedOK'
  <1> DEFINE Same == presented' = presented /\ issued \subseteq issued'
  <1>a. Same => PresentedOK' BY DEF PresentedOK
  <1> USE DEF userVars, tokenVars
  <1>1. ASSUME NEW r \in Requests, CallUser(r) \/ CheckMahalla(r) \/ CheckPhone(r)
        PROVE  Same
    BY <1>1 DEF CallUser, CheckMahalla, CheckPhone
  <1>2. ASSUME NEW r \in Requests, InsertUser(r) \/ UpdateUser(r) PROVE Same
    BY <1>2 DEF InsertUser, UpdateUser, WriteUser
  <1>3. ASSUME NEW r \in Requests,
               CreateProfile(r) \/ UpdateProfile(r) \/ DeleteProfile(r) \/ ReadTarget(r)
        PROVE  Same
    BY <1>3 DEF CreateProfile, UpdateProfile, DeleteProfile, ReadTarget
  <1>4. ASSUME NEW r \in Requests, ReadRemoved(r) \/ RemoveUser(r) \/ Audit(r) PROVE Same
    BY <1>4 DEF ReadRemoved, RemoveUser, Audit
  <1>5. ASSUME NEW r \in Requests, SignIn(r) \/ FindToken(r) \/ Revoke(r) \/ Issue(r)
        PROVE  Same
    BY <1>5 DEF SignIn, FindToken, Revoke, Issue
  <1>6. ASSUME NEW r \in Requests, CallSession(r) PROVE PresentedOK'
    <2>1. /\ issued' = issued
          /\ presented' = presented \/ \E t \in issued : presented' = [presented EXCEPT ![r] = {t}]
      BY <1>6 DEF CallSession
    <2> QED BY <2>1 DEF PresentedOK
  <1>7. ASSUME UNCHANGED tokenVars PROVE Same BY <1>7
  <1> HIDE DEF Same, userVars, tokenVars
  <1> QED
    BY <1>a, <1>1, <1>2, <1>3, <1>4, <1>5, <1>6, <1>7 DEF Next, HandleUser, Fail, Crash, vars

(* The rows there at first are as the schema wants them.                   *)
LEMMA SchemaStarts == Init => SchemaInv
  <1> SUFFICES ASSUME Init PROVE SchemaInv OBVIOUS
  <1>1. /\ user = FirstUsers /\ removed = {} /\ issued = {} /\ revoked = {} /\ closed = {}
        /\ profiles \subseteq DOMAIN user /\ place = FirstPlaces
        /\ \A m \in DOMAIN place : {RegionRow(place[m]), DistrictRow(place[m])} \subseteq areas
        /\ pc = [r \in Requests |-> "unsent"]
    BY DEF Init, MahallasInit, ControlInit
  <1>2. SeenOK BY <1>1 DEF SeenOK, Seen, HomeSeen, UserSeen, MahallaSeen, AreasSeen
  <1>3. UsersAllowed
    <2>1. \A u \in DOMAIN FirstUsers : \A x, y \in FirstUsers[u].home : x = y
      BY AccountsAssumption
    <2>2. DOMAIN FirstUsers \subseteq Users BY AccountsAssumption
    <2> QED BY <1>1, <2>1, <2>2, SchemaAssumption DEF UsersAllowed
  <1>4. MahallasAllowed BY <1>1, SchemaAssumption DEF MahallasAllowed
  <1>5. PresentedOK BY DEF Init, PresentedOK
  <1> QED BY <1>2, <1>3, <1>4, <1>5 DEF SchemaInv

(* So they stay.                                                           *)
LEMMA SchemaInvariant == Spec => [](Known /\ SchemaInv)
  <1>1. SessionInv /\ HomeInv /\ ProfileInv /\ RenameInv <=> Known BY DEF Known
  <1>2. Known /\ Known' /\ SchemaInv /\ [Next]_vars => SchemaInv'
    BY SeenStep, UsersStep, MahallasStep, PresentedStep DEF SchemaInv
  <1> QED
    BY <1>1, <1>2, SchemaStarts, SessionInvariant, HomeInvariant, ProfileInvariant, RenameInvariant,
       PTL DEF Spec

(* The rows of users, tokens and mahallas are as schema.prisma wants them  *)
(* at every await: the model leaves out that a foreign key may refuse a    *)
(* write, and none would; of the unique indexes only those on phone, place *)
(* and userId ever refuse one (UsersService, MahallasService, AuthService, *)
(* which write them in several awaits).                                    *)
THEOREM AccountsTyped == Spec => []TypeOK
  <1>1. Known /\ SchemaInv => TypeOK
    BY DEF Known, SessionInv, ControlInv, Waits, TokensOK, HomeInv, RowsOK, SchemaInv, PresentedOK,
           TypeOK
  <1> QED BY <1>1, SchemaInvariant, PTL
-----------------------------------------------------------------------------
(***************************************************************************)
(* The locations suggested to the form of a registration.                  *)
(***************************************************************************)
(* What is known of the answer to request r.                               *)
Complete(r) ==
    \/ Cardinality(answer[r]) = Limit
    \/ Matching(r, (Remote \cup FirstRows) \ Removed) \subseteq answer[r]
    \/ Cardinality(Wanted(r) \cap Removed) > Cap(r) - Limit

(* What is taken of the lists for request r is among the rows.             *)
Listed(r) == Wanted(r) = {} \/ \E T \in Taken(r) : T \subseteq rows

AnswerOK(r) ==
    /\ r \in Sent => \A p \in answer[r] : Parent(p) = asked[r].parent
    /\ r \notin Sent => answer[r] = {}
    /\ pc[r] = "reading-parent" => asked[r].parent # <<>>
    /\ pc[r] = "reading-again" => Listed(r)
    /\ r \notin unlucky /\ pc[r] = "done" /\ asked[r].parent \in Remote \cup {<<>>} => Complete(r)

AnswersOK == FirstRows \subseteq rows /\ \A r \in Requests : AnswerOK(r)

(* What a step of the server does to request q.                            *)
Goes(q) ==
    /\ pc'[q] # "unsent"
    /\ answer'[q] = answer[q] \/ answer'[q] \subseteq Matching(q, rows)
    /\ pc'[q] = "reading-parent" => asked[q].parent # <<>>
    /\ pc'[q] = "reading-again" => Listed(q)'
    /\ q \notin unlucky' /\ pc'[q] = "done" /\ asked[q].parent \in Remote \cup {<<>>} => Complete(q)'

Served ==
    /\ asked' = asked
    /\ rows \subseteq rows' /\ rows' \subseteq rows \cup Remote
    /\ ControlOK(LocationWaits)'
    /\ cache' \in {"none", "fresh"} /\ download' \in {"none", "under-way"}
    /\ unlucky \subseteq unlucky' /\ unlucky' \subseteq Requests
    /\ answer' \in [Requests -> SUBSET (rows' \ Removed)]
    /\ \A q \in Requests : (pc'[q] = pc[q] /\ answer'[q] = answer[q]) \/ (q \in Sent /\ Goes(q))

(* At most n of a set are n of it, or all of it.                           *)
LEMMA UpToIs ==
    ASSUME NEW n \in Nat, NEW S, IsFiniteSet(S), NEW T \in UpTo(n, S)
    PROVE  /\ T \subseteq S
           /\ Cardinality(T) = n \/ (T = S /\ Cardinality(T) < n)
  <1>1. Cardinality(S) \in Nat BY FS_CardinalityType
  <1>2. /\ T \in SUBSET S
        /\ Cardinality(T) = IF Cardinality(S) < n THEN Cardinality(S) ELSE n
    BY DEF UpTo
  <1>3. Cardinality(S) = Cardinality(T) => S = T BY <1>2, FS_Subset
  <1> QED BY <1>1, <1>2, <1>3

(* The first of some rows are Limit, or all of them.                       *)
LEMMA FirstOfIs ==
    ASSUME NEW S, IsFiniteSet(S), NEW T \in FirstOf(S)
    PROVE  /\ T \subseteq S
           /\ Cardinality(T) = Limit \/ (T = S /\ Cardinality(T) < Limit)
  BY UpToIs, LocationsAssumption DEF FirstOf

(* A location that is wanted is one name longer than its parent.           *)
LEMMA CapIs ==
    ASSUME NEW r, Wanted(r) # {}
    PROVE  Cap(r) \in Nat
  <1>1. PICK p \in Remote : Parent(p) = asked[r].parent BY DEF Wanted, Matching
  <1> DEFINE N == UNION {Containing[t] : t \in DOMAIN Containing}
  <1>2. PICK l \in 1 .. 3 : p \in [1 .. l -> N] BY LocationsAssumption
  <1> HIDE DEF N
  <1>3. p \in Seq(N) /\ Len(p) = l BY <1>2
  <1>4. Len(SubSeq(p, 1, l - 1)) = l - 1 BY <1>2, <1>3
  <1>5. Len(asked[r].parent) + 1 \in 1 .. 3 BY <1>1, <1>2, <1>3, <1>4 DEF Parent
  <1>6. \A k \in 1 .. 3 : Multiples[k] * Limit \in Nat BY LocationsAssumption
  <1> QED BY <1>5, <1>6 DEF Cap

(* What is taken of the lists is all that is wanted, or fills the cap.     *)
LEMMA TakenIs ==
    ASSUME NEW r, Wanted(r) # {}, NEW T \in Taken(r)
    PROVE  /\ IsFiniteSet(T) /\ T \subseteq Wanted(r)
           /\ T = Wanted(r) \/ Cardinality(T) = Cap(r)
  <1>1. IsFiniteSet(Wanted(r)) BY LocationsAssumption, FS_Subset DEF Wanted, Matching
  <1>2. T \in UpTo(Cap(r), Wanted(r)) BY DEF Taken
  <1>3. Cap(r) \in Nat BY CapIs
  <1>4. T \subseteq Wanted(r) /\ (Cardinality(T) = Cap(r) \/ T = Wanted(r))
    BY <1>1, <1>2, <1>3, UpToIs
  <1> QED BY <1>1, <1>4, FS_Subset

(* What is looked for is among the rows, of which there are finitely many. *)
LEMMA MatchingIs ==
    ASSUME ListsTypeOK, NEW r
    PROVE  /\ IsFiniteSet(Matching(r, rows \ Removed))
           /\ Matching(r, rows \ Removed) \subseteq rows \ Removed
           /\ Matching(r, rows \ Removed) \subseteq Matching(r, rows)
           /\ \A p \in Matching(r, rows) : Parent(p) = asked[r].parent
           /\ Matching(r, rows \ Removed) \in SUBSET (rows \ Removed)
  <1>1. Matching(r, rows \ Removed) \subseteq Remote \cup FirstRows BY DEF Matching, ListsTypeOK
  <1>2. IsFiniteSet(Remote \cup FirstRows) BY LocationsAssumption, FS_Union
  <1>3. IsFiniteSet(Matching(r, rows \ Removed)) BY <1>1, <1>2, FS_Subset
  <1> QED BY <1>3 DEF Matching

(* Who has the rows and what is taken of the lists knows all there is, or  *)
(* finds Limit, or the removed ones are too many.                          *)
LEMMA AllIsThere ==
    ASSUME ListsTypeOK, NEW r, FirstRows \subseteq rows, Listed(r),
           Cardinality(Matching(r, rows \ Removed)) < Limit
    PROVE  \/ Matching(r, (Remote \cup FirstRows) \ Removed) \subseteq Matching(r, rows \ Removed)
           \/ Cardinality(Wanted(r) \cap Removed) > Cap(r) - Limit
  <1>1. CASE Wanted(r) \subseteq rows BY <1>1 DEF Wanted, Matching
  <1>2. CASE \E T \in Taken(r) : T \subseteq rows /\ Wanted(r) # {} /\ T # Wanted(r)
    <2>1. PICK T \in Taken(r) : T \subseteq rows /\ Wanted(r) # {} /\ T # Wanted(r) BY <1>2
    <2>2. IsFiniteSet(T) /\ T \subseteq Wanted(r) /\ Cardinality(T) = Cap(r) BY <2>1, TakenIs
    <2>3. T \ Removed \subseteq Matching(r, rows \ Removed) BY <2>1, <2>2 DEF Wanted, Matching
    <2>4. /\ Cardinality(T \ Removed) <= Cardinality(Matching(r, rows \ Removed))
          /\ Cardinality(Matching(r, rows \ Removed)) \in Nat
      BY <2>3, MatchingIs, FS_Subset, FS_CardinalityType
    <2>5. /\ IsFiniteSet(T \cap Removed) /\ IsFiniteSet(T \ Removed)
          /\ Cardinality(T \ Removed) = Cardinality(T) - Cardinality(T \cap Removed)
      BY <2>2, FS_Difference, FS_Subset
    <2>6. IsFiniteSet(Wanted(r) \cap Removed)
      BY LocationsAssumption, FS_Subset DEF Wanted, Matching
    <2>7. Cardinality(T \cap Removed) <= Cardinality(Wanted(r) \cap Removed)
      BY <2>2, <2>6, FS_Subset
    <2>8. /\ Cardinality(T \ Removed) \in Nat /\ Cardinality(T \cap Removed) \in Nat
          /\ Cardinality(Wanted(r) \cap Removed) \in Nat /\ Cardinality(T) \in Nat
      BY <2>2, <2>5, <2>6, FS_CardinalityType
    <2> QED BY <2>2, <2>4, <2>5, <2>7, <2>8, LocationsAssumption
  <1> QED BY <1>1, <1>2 DEF Listed

(* With the lists, a request asks for nothing more, or for what is there.  *)
LEMMA WithListsIs ==
    ASSUME NEW r
    PROVE  /\ WithLists(r) \in {"done", "inserting", "reading-again"}
           /\ WithLists(r) = "done" => asked[r].parent \notin Remote \cup {<<>>}
           /\ WithLists(r) = "reading-again" => Wanted(r) = {}
  BY DEF WithLists

(* One request goes on from p to q.                                        *)
LEMMA OneSteps ==
    ASSUME ControlOK(LocationWaits), NEW r \in Requests,
           NEW q \in LocationWaits \cup Ends, q # "unsent", pc[r] # "unsent",
           Goto(r, q), UNCHANGED before, faults' \in 0 .. MaxFaults
    PROVE  /\ ControlOK(LocationWaits)' /\ pc'[r] = q /\ r \in Sent
           /\ \A s \in Requests \ {r} : pc'[s] = pc[s]
  BY DEF ControlOK, Goto, Sent

(* The lists are asked for.                                                *)
LEMMA GetCacheIs ==
    ASSUME ListsTypeOK, NEW r \in Requests, NEW p \in LocationWaits, GetCache(r, p)
    PROVE  /\ ControlOK(LocationWaits)' /\ r \in Sent
           /\ \A s \in Requests \ {r} : pc'[s] = pc[s]
           /\ download' \in {"none", "under-way"}
           /\ pc'[r] = "awaiting-lists" \/ pc'[r] = WithLists(r)
  <1>1. p # "unsent" BY DEF LocationWaits
  <1>2. PICK q \in {"awaiting-lists", WithLists(r)} :
           /\ Step(r, p, q)
           /\ download' \in {"none", "under-way"}
    BY DEF GetCache, ListsTypeOK
  <1>3. q \in LocationWaits \cup Ends /\ q # "unsent"
    BY WithListsIs DEF LocationWaits, Ends
  <1>4. pc[r] # "unsent" /\ Goto(r, q) /\ UNCHANGED before BY <1>1, <1>2 DEF Step
  <1>5. ControlOK(LocationWaits) /\ faults' \in 0 .. MaxFaults BY <1>2 DEF Step, ListsTypeOK, ControlOK
  <1>6. /\ ControlOK(LocationWaits)' /\ pc'[r] = q /\ r \in Sent
        /\ \A s \in Requests \ {r} : pc'[s] = pc[s]
    BY <1>3, <1>4, <1>5, OneSteps
  <1> QED BY <1>2, <1>6

(* A step of one request that leaves the rows, or adds remote ones.        *)
LEMMA OneServes ==
    ASSUME ListsTypeOK, NEW r \in Requests,
           ControlOK(LocationWaits)', r \in Sent,
           \A s \in Requests \ {r} : pc'[s] = pc[s],
           asked' = asked, rows \subseteq rows', rows' \subseteq rows \cup Remote, cache' = cache,
           download' \in {"none", "under-way"},
           unlucky \subseteq unlucky', unlucky' \subseteq Requests,
           NEW S \in SUBSET (rows' \ Removed), answer' = [answer EXCEPT ![r] = S],
           Goes(r)
    PROVE  Served
  <1>1. answer \in [Requests -> SUBSET (rows \ Removed)] BY DEF ListsTypeOK
  <1>2. answer' \in [Requests -> SUBSET (rows' \ Removed)] BY <1>1
  <1>3. \A q \in Requests \ {r} : answer'[q] = answer[q] BY <1>1
  <1>4. cache' \in {"none", "fresh"} BY DEF ListsTypeOK
  <1> QED BY <1>2, <1>3, <1>4 DEF Served

(* The answer stays.                                                       *)
LEMMA AnswerStays ==
    ASSUME ListsTypeOK, NEW r \in Requests, UNCHANGED answer, rows \subseteq rows'
    PROVE  /\ answer[r] \in SUBSET (rows' \ Removed)
           /\ answer' = [answer EXCEPT ![r] = answer[r]]
  BY DEF ListsTypeOK

(* The rows are read: Limit of them are an answer.                         *)
LEMMA ReadRowsServes ==
    ASSUME ListsTypeOK, AnswersOK, NEW r \in Requests, ReadRows(r)
    PROVE  Served
  <1> DEFINE M == Matching(r, rows \ Removed)
  <1>1. PICK S \in FirstOf(M) :
           /\ answer' = [answer EXCEPT ![r] = S]
           /\ \/ Enough(S) /\ Step(r, "reading-rows", "done") /\ UNCHANGED download
              \/ ~Enough(S) /\ IF asked[r].parent = <<>>
                               THEN GetCache(r, "reading-rows")
                               ELSE Step(r, "reading-rows", "reading-parent") /\ UNCHANGED download
    BY DEF ReadRows
  <1>2. UNCHANGED <<rows, cache, asked, unlucky>> /\ pc[r] = "reading-rows" BY DEF ReadRows
  <1>3. /\ IsFiniteSet(M) /\ M \subseteq Matching(r, rows) /\ M \in SUBSET (rows \ Removed)
    BY MatchingIs
  <1> HIDE DEF M
  <1>4. S \subseteq M /\ (Cardinality(S) = Limit \/ (S = M /\ Cardinality(S) < Limit))
    BY <1>1, <1>3, FirstOfIs
  <1>5. S \in SUBSET (rows' \ Removed) BY <1>2, <1>3, <1>4
  <1>6. r \in Sent BY <1>2 DEF Sent
  <1>7. answer'[r] = S /\ answer'[r] \subseteq Matching(r, rows)
    BY <1>1, <1>3, <1>4 DEF ListsTypeOK
  <1>8. "reading-rows" \in LocationWaits BY DEF LocationWaits
  <1>9. CASE Enough(S) /\ Step(r, "reading-rows", "done") /\ UNCHANGED download
    <2>1. ControlOK(LocationWaits)' /\ pc'[r] = "done" /\ \A s \in Requests \ {r} : pc'[s] = pc[s]
      <3>1. "done" \in Ends BY DEF Ends
      <3> QED BY <1>2, <1>9, <3>1, OneSteps DEF Step, ListsTypeOK, ControlOK
    <2>2. Cardinality(S) = Limit
      <3>1. Cardinality(S) \in Nat BY <1>3, <1>4, FS_Subset, FS_CardinalityType
      <3> QED BY <1>4, <1>9, <3>1, LocationsAssumption DEF Enough
    <2>3. Goes(r) BY <1>7, <2>1, <2>2 DEF Goes, Complete
    <2>4. download' \in {"none", "under-way"} BY <1>9 DEF ListsTypeOK
    <2> QED BY <1>1, <1>2, <1>5, <1>6, <2>1, <2>3, <2>4, OneServes DEF ListsTypeOK
  <1>10. CASE asked[r].parent # <<>> /\ Step(r, "reading-rows", "reading-parent") /\ UNCHANGED download
    <2>1. /\ ControlOK(LocationWaits)' /\ pc'[r] = "reading-parent"
          /\ \A s \in Requests \ {r} : pc'[s] = pc[s]
      <3>1. "reading-parent" \in LocationWaits BY DEF LocationWaits
      <3> QED BY <1>2, <1>10, <3>1, OneSteps DEF Step, ListsTypeOK, ControlOK
    <2>2. Goes(r) BY <1>7, <1>10, <2>1 DEF Goes
    <2>3. download' \in {"none", "under-way"} BY <1>10 DEF ListsTypeOK
    <2> QED BY <1>1, <1>2, <1>5, <1>6, <2>1, <2>2, <2>3, OneServes DEF ListsTypeOK
  <1>11. CASE GetCache(r, "reading-rows")
    <2>1. /\ ControlOK(LocationWaits)'
          /\ \A s \in Requests \ {r} : pc'[s] = pc[s]
          /\ download' \in {"none", "under-way"}
          /\ pc'[r] = "awaiting-lists" \/ pc'[r] = WithLists(r)
      BY <1>8, <1>11, GetCacheIs
    <2>2. WithLists(r) = "reading-again" => Listed(r)'
      <3>1. Wanted(r)' = Wanted(r) BY <1>2 DEF Wanted, Matching
      <3> QED BY <3>1, WithListsIs DEF Listed
    <2>3. Goes(r) BY <1>7, <2>1, <2>2, WithListsIs DEF Goes
    <2> QED BY <1>1, <1>2, <1>5, <1>6, <2>1, <2>3, OneServes DEF ListsTypeOK
  <1> QED BY <1>1, <1>9, <1>10, <1>11

(* The parent asked for is a row: it was chosen among them.                *)
LEMMA ReadParentServes ==
    ASSUME ListsTypeOK, AnswersOK, NEW r \in Requests, ReadParent(r)
    PROVE  Served
  <1>1. UNCHANGED <<rows, cache, asked, answer, unlucky>> /\ pc[r] = "reading-parent" BY DEF ReadParent
  <1>2. r \in Sent /\ "reading-parent" \in LocationWaits BY <1>1 DEF Sent, LocationWaits
  <1>3. answer[r] \in SUBSET (rows' \ Removed) /\ answer' = [answer EXCEPT ![r] = answer[r]]
    BY <1>1, AnswerStays
  <1>4. CASE GetCache(r, "reading-parent")
    <2>1. /\ ControlOK(LocationWaits)'
          /\ \A s \in Requests \ {r} : pc'[s] = pc[s]
          /\ download' \in {"none", "under-way"}
          /\ pc'[r] = "awaiting-lists" \/ pc'[r] = WithLists(r)
      BY <1>2, <1>4, GetCacheIs
    <2>2. WithLists(r) = "reading-again" => Listed(r)'
      <3>1. Wanted(r)' = Wanted(r) BY <1>1 DEF Wanted, Matching
      <3> QED BY <3>1, WithListsIs DEF Listed
    <2>3. Goes(r) BY <1>1, <2>1, <2>2, WithListsIs DEF Goes
    <2> QED BY <1>1, <1>2, <1>3, <2>1, <2>3, OneServes DEF ListsTypeOK
  <1>5. CASE asked[r].parent \notin rows /\ Step(r, "reading-parent", "done") /\ UNCHANGED download
    <2>1. ControlOK(LocationWaits)' /\ pc'[r] = "done" /\ \A s \in Requests \ {r} : pc'[s] = pc[s]
      <3>1. "done" \in Ends BY DEF Ends
      <3> QED BY <1>1, <1>5, <3>1, OneSteps DEF Step, ListsTypeOK, ControlOK
    <2>2. asked[r].parent \notin Remote \cup {<<>>}
      <3>1. asked[r].parent \in rows \cup {<<>>} BY <1>2 DEF ListsTypeOK
      <3>2. asked[r].parent # <<>> BY <1>1 DEF AnswersOK, AnswerOK
      <3> QED BY <1>5, <3>1, <3>2
    <2>3. Goes(r) BY <1>1, <2>1, <2>2 DEF Goes
    <2>4. download' \in {"none", "under-way"} BY <1>5 DEF ListsTypeOK
    <2> QED BY <1>1, <1>2, <1>3, <1>5, <2>1, <2>3, <2>4, OneServes DEF ListsTypeOK
  <1> QED BY <1>4, <1>5 DEF ReadParent

(* The rows asked for are inserted.                                        *)
LEMMA InsertServes ==
    ASSUME ListsTypeOK, AnswersOK, NEW r \in Requests, Insert(r)
    PROVE  Served
  <1>1. /\ UNCHANGED <<cache, download, asked, answer, unlucky>> /\ pc[r] = "inserting"
        /\ Step(r, "inserting", "reading-again")
        /\ \E T \in Taken(r) : rows' = rows \cup T
    BY DEF Insert, Step
  <1>2. rows \subseteq rows' /\ rows' \subseteq rows \cup Remote
    BY <1>1 DEF Taken, UpTo, Wanted, Matching
  <1>3. answer[r] \in SUBSET (rows' \ Removed) /\ answer' = [answer EXCEPT ![r] = answer[r]]
    BY <1>1, <1>2, AnswerStays
  <1>4. /\ ControlOK(LocationWaits)' /\ pc'[r] = "reading-again" /\ r \in Sent
        /\ \A s \in Requests \ {r} : pc'[s] = pc[s]
    <2>1. "reading-again" \in LocationWaits BY DEF LocationWaits
    <2> QED BY <1>1, <2>1, OneSteps DEF Step, ListsTypeOK, ControlOK
  <1>5. Listed(r)'
    <2>1. PICK T \in Taken(r) : rows' = rows \cup T BY <1>1
    <2>2. Taken(r)' = Taken(r) BY <1>1 DEF Taken, Cap, Wanted, Matching
    <2> QED BY <2>1, <2>2 DEF Listed
  <1>6. Goes(r) BY <1>1, <1>4, <1>5 DEF Goes
  <1> QED BY <1>1, <1>2, <1>3, <1>4, <1>6, OneServes DEF ListsTypeOK

(* Or perhaps inserted.                                                    *)
LEMMA InsertFailsServes ==
    ASSUME ListsTypeOK, AnswersOK, NEW r \in Requests, InsertFails(r)
    PROVE  Served
  <1>1. /\ UNCHANGED <<before, cache, download, asked, answer>> /\ pc[r] = "inserting"
        /\ Goto(r, "done") /\ Fault /\ unlucky' = unlucky \cup {r}
        /\ \E T \in Taken(r) : rows' \in {rows, rows \cup T}
    BY DEF InsertFails
  <1>2. rows \subseteq rows' /\ rows' \subseteq rows \cup Remote
    BY <1>1 DEF Taken, UpTo, Wanted, Matching
  <1>3. answer[r] \in SUBSET (rows' \ Removed) /\ answer' = [answer EXCEPT ![r] = answer[r]]
    BY <1>1, <1>2, AnswerStays
  <1>4. /\ ControlOK(LocationWaits)' /\ pc'[r] = "done" /\ r \in Sent
        /\ \A s \in Requests \ {r} : pc'[s] = pc[s]
    <2>1. "done" \in Ends BY DEF Ends
    <2>2. faults' \in 0 .. MaxFaults BY <1>1, FaultsAssumption DEF Fault, ListsTypeOK, ControlOK
    <2> QED BY <1>1, <2>1, <2>2, OneSteps DEF ListsTypeOK
  <1>5. Goes(r) BY <1>1, <1>4 DEF Goes
  <1>6. unlucky' \subseteq Requests BY <1>1 DEF ListsTypeOK
  <1> QED BY <1>1, <1>2, <1>3, <1>4, <1>5, <1>6, OneServes DEF ListsTypeOK

(* Read again, all that was taken of the lists is in the rows.             *)
LEMMA ReadAgainServes ==
    ASSUME ListsTypeOK, AnswersOK, NEW r \in Requests, ReadAgain(r)
    PROVE  Served
  <1> DEFINE M == Matching(r, rows \ Removed)
  <1>1. PICK S \in FirstOf(M) : answer' = [answer EXCEPT ![r] = S] BY DEF ReadAgain
  <1>2. /\ UNCHANGED <<rows, cache, asked, download, unlucky>> /\ pc[r] = "reading-again"
        /\ Step(r, "reading-again", "done")
    BY DEF ReadAgain, Step
  <1>3. /\ IsFiniteSet(M) /\ M \subseteq Matching(r, rows) /\ M \in SUBSET (rows \ Removed)
    BY MatchingIs
  <1>4. \/ ~(Cardinality(M) < Limit)
        \/ Matching(r, (Remote \cup FirstRows) \ Removed) \subseteq M
        \/ Cardinality(Wanted(r) \cap Removed) > Cap(r) - Limit
    BY <1>2, AllIsThere DEF AnswersOK, AnswerOK
  <1> HIDE DEF M
  <1>5. S \subseteq M /\ (Cardinality(S) = Limit \/ (S = M /\ Cardinality(S) < Limit))
    BY <1>1, <1>3, FirstOfIs
  <1>6. S \in SUBSET (rows' \ Removed) BY <1>2, <1>3, <1>5
  <1>7. answer'[r] = S /\ answer'[r] \subseteq Matching(r, rows)
    BY <1>1, <1>3, <1>5 DEF ListsTypeOK
  <1>8. /\ ControlOK(LocationWaits)' /\ pc'[r] = "done" /\ r \in Sent
        /\ \A s \in Requests \ {r} : pc'[s] = pc[s]
    <2>1. "done" \in Ends BY DEF Ends
    <2> QED BY <1>2, <2>1, OneSteps DEF Step, ListsTypeOK, ControlOK
  <1>9. /\ Matching(r, (Remote \cup FirstRows) \ Removed)' = Matching(r, (Remote \cup FirstRows) \ Removed)
        /\ Wanted(r)' = Wanted(r) /\ Cap(r)' = Cap(r)
    BY <1>2 DEF Matching, Wanted, Cap
  <1>10. Complete(r)' BY <1>4, <1>5, <1>7, <1>9 DEF Complete
  <1>11. Goes(r) BY <1>7, <1>8, <1>10 DEF Goes
  <1>12. download' \in {"none", "under-way"} BY <1>2 DEF ListsTypeOK
  <1> QED BY <1>1, <1>2, <1>6, <1>8, <1>11, <1>12, OneServes DEF ListsTypeOK

(* A read is rejected.                                                     *)
LEMMA ReadFailsServes ==
    ASSUME ListsTypeOK, AnswersOK, NEW r \in Requests, ReadFails(r)
    PROVE  Served
  <1>1. /\ UNCHANGED <<rows, cache, download, asked, answer, before>> /\ r \in UnderWay
        /\ Goto(r, "failed") /\ Fault /\ unlucky' = unlucky \cup {r}
    BY DEF ReadFails, Reject
  <1>2. answer[r] \in SUBSET (rows' \ Removed) /\ answer' = [answer EXCEPT ![r] = answer[r]]
    BY <1>1, AnswerStays
  <1>3. /\ ControlOK(LocationWaits)' /\ pc'[r] = "failed" /\ r \in Sent
        /\ \A s \in Requests \ {r} : pc'[s] = pc[s]
    <2>1. "failed" \in Ends BY DEF Ends
    <2>2. faults' \in 0 .. MaxFaults BY <1>1, FaultsAssumption DEF Fault, ListsTypeOK, ControlOK
    <2>3. pc[r] # "unsent" BY <1>1 DEF UnderWay, Sent
    <2> QED BY <1>1, <2>1, <2>2, <2>3, OneSteps DEF ListsTypeOK
  <1>4. Goes(r) BY <1>1, <1>3 DEF Goes
  <1>5. unlucky' \subseteq Requests BY <1>1 DEF ListsTypeOK
  <1> QED BY <1>1, <1>2, <1>3, <1>4, <1>5, OneServes DEF ListsTypeOK

(* The download ends, for all that wait.                                   *)
LEMMA DownloadServes ==
    ASSUME ListsTypeOK, AnswersOK, Download \/ DownloadFails
    PROVE  Served
  <1>1. PICK next :
           /\ Resume(next)
           /\ \/ /\ next = [r \in Waiting |-> WithLists(r)] /\ cache' = "fresh"
                 /\ UNCHANGED <<faults, unlucky>>
              \/ /\ next = [r \in Waiting |-> "done"] /\ cache' = cache /\ Fault
                 /\ unlucky' = unlucky \cup UnderWay
    BY DEF Download, DownloadFails
  <1>2. /\ UNCHANGED <<before, rows, asked, answer>> /\ download' = "none"
        /\ pc' = [r \in Requests |-> IF r \in Waiting THEN next[r] ELSE pc[r]]
    BY <1>1 DEF Resume
  <1>3. Waiting \subseteq UnderWay /\ UnderWay \subseteq Requests
    BY DEF Waiting, UnderWay, Sent, Ended, Ends
  <1>4. \A r \in Waiting : next[r] \in {"done", "inserting", "reading-again"}
    BY <1>1, WithListsIs
  <1>5. ControlOK(LocationWaits)'
    <2>1. faults' \in 0 .. MaxFaults BY <1>1, FaultsAssumption DEF Fault, ListsTypeOK, ControlOK
    <2>2. {"done", "inserting", "reading-again"} \subseteq LocationWaits \cup Ends
      BY DEF LocationWaits, Ends
    <2>3. pc' \in [Requests -> {"unsent"} \cup LocationWaits \cup Ends]
      BY <1>2, <1>4, <2>2 DEF ListsTypeOK, ControlOK
    <2> QED BY <1>2, <2>1, <2>3 DEF ListsTypeOK, ControlOK
  <1>6. ASSUME NEW q \in Waiting PROVE q \in Sent /\ Goes(q)
    <2>1. q \in Sent /\ q \in UnderWay /\ q \in Requests BY <1>3 DEF UnderWay
    <2>2. pc'[q] = next[q] BY <1>2, <2>1
    <2>3. q \notin unlucky' => next[q] = WithLists(q) BY <1>1, <2>1
    <2>4. pc'[q] = "reading-again" => Listed(q)'
      <3>1. Wanted(q)' = Wanted(q) BY <1>2 DEF Wanted, Matching
      <3> QED BY <1>1, <2>2, <3>1, WithListsIs DEF Listed
    <2> QED BY <1>2, <1>4, <2>1, <2>2, <2>3, <2>4, WithListsIs DEF Goes
  <1>7. \A q \in Requests : (pc'[q] = pc[q] /\ answer'[q] = answer[q]) \/ (q \in Sent /\ Goes(q))
    BY <1>2, <1>6
  <1>8. cache' \in {"none", "fresh"} BY <1>1 DEF ListsTypeOK
  <1>9. unlucky \subseteq unlucky' /\ unlucky' \subseteq Requests BY <1>1, <1>3 DEF ListsTypeOK
  <1>10. answer' \in [Requests -> SUBSET (rows' \ Removed)] BY <1>2 DEF ListsTypeOK
  <1> QED BY <1>2, <1>5, <1>7, <1>8, <1>9, <1>10 DEF Served

(* The process dies.                                                       *)
LEMMA CrashServes ==
    ASSUME ListsTypeOK, AnswersOK, LocationsCrash
    PROVE  Served
  <1>1. /\ pc' = [r \in Requests |-> IF r \in UnderWay THEN "lost" ELSE pc[r]]
        /\ Fault /\ UNCHANGED <<before, rows, asked, answer>>
        /\ cache' = "none" /\ download' = "none" /\ unlucky' = unlucky \cup UnderWay
    BY DEF LocationsCrash, Die
  <1>2. UnderWay \subseteq Sent /\ UnderWay \subseteq Requests BY DEF UnderWay, Sent
  <1>3. ControlOK(LocationWaits)'
    BY <1>1, FaultsAssumption DEF Fault, ListsTypeOK, ControlOK, Ends
  <1>4. \A q \in UnderWay : Goes(q) BY <1>1, <1>2 DEF Goes
  <1>5. answer' \in [Requests -> SUBSET (rows' \ Removed)] BY <1>1 DEF ListsTypeOK
  <1>6. unlucky' \subseteq Requests BY <1>1, <1>2 DEF ListsTypeOK
  <1> QED BY <1>1, <1>2, <1>3, <1>4, <1>5, <1>6 DEF Served

(* So every step of the server is one that serves.                         *)
LEMMA ServeServes ==
    ASSUME ListsTypeOK, AnswersOK, Serve
    PROVE  Served
  <1>1. CASE Age BY <1>1 DEF Age, Served, ListsTypeOK, ControlOK, control, Sent
  <1> QED
    BY <1>1, ReadRowsServes, ReadParentServes, InsertServes, InsertFailsServes, ReadAgainServes,
       ReadFailsServes, DownloadServes, CrashServes
       DEF Serve

(* The server keeps what it knows of its answers.                          *)
LEMMA ServedKeeps ==
    ASSUME ListsTypeOK, AnswersOK, Served
    PROVE  ListsTypeOK' /\ AnswersOK' /\ Sent' = Sent
  <1>1. \A q \in Requests : q \in Sent' <=> q \in Sent BY DEF Served, Goes, Sent
  <1>2. Sent' = Sent BY <1>1 DEF Sent
  <1>3. ListsTypeOK'
    <2>1. rows' \subseteq Remote \cup FirstRows BY DEF Served, ListsTypeOK
    <2>2. asked' \in [Sent' -> [parent : rows' \cup {<<>>}, text : DOMAIN Containing]]
      BY <1>2 DEF Served, ListsTypeOK
    <2> QED BY <2>1, <2>2 DEF Served, ListsTypeOK
  <1>5. ASSUME NEW r \in Requests PROVE AnswerOK(r)'
    <2>1. asked' = asked BY DEF Served
    <2>2. Listed(r) => Listed(r)'
      <3>1. Wanted(r)' = Wanted(r) /\ Taken(r)' = Taken(r) BY <2>1 DEF Taken, Cap, Wanted, Matching
      <3> QED BY <3>1 DEF Served, Listed
    <2>3. AnswerOK(r) BY DEF AnswersOK
    <2>4. CASE pc'[r] = pc[r] /\ answer'[r] = answer[r]
      <3>1. Complete(r) => Complete(r)' BY <2>1, <2>4 DEF Complete, Cap, Wanted, Matching
      <3> QED BY <1>2, <2>1, <2>2, <2>3, <2>4, <3>1 DEF Served, AnswerOK
    <2>5. CASE r \in Sent /\ Goes(r)
      <3>1. \A p \in answer'[r] : Parent(p) = asked[r].parent
        BY <2>3, <2>5, MatchingIs DEF AnswerOK, Goes
      <3> QED BY <1>2, <2>1, <2>2, <2>5, <3>1 DEF AnswerOK, Goes
    <2> QED BY <2>4, <2>5 DEF Served
  <1>6. FirstRows \subseteq rows' BY DEF Served, AnswersOK
  <1> QED BY <1>2, <1>3, <1>5, <1>6 DEF AnswersOK

(* It keeps this when it does nothing.                                     *)
LEMMA ServerStays ==
    ASSUME ListsTypeOK, AnswersOK, UNCHANGED <<asked, lists, control>>
    PROVE  ListsTypeOK' /\ AnswersOK' /\ Sent' = Sent
  <1>1. Served BY DEF Served, ListsTypeOK, ControlOK, lists, control
  <1> QED BY <1>1, ServedKeeps

(* A request that is made is told nothing yet.                             *)
LEMMA AskKeeps ==
    ASSUME ListsTypeOK, AnswersOK, NEW r \in Requests, NEW parent \in rows \cup {<<>>},
           NEW text \in DOMAIN Containing, Ask(r, parent, text)
    PROVE  /\ ListsTypeOK' /\ AnswersOK'
           /\ Sent' = Sent \cup {r} /\ r \notin Sent
           /\ asked'[r] = [parent |-> parent, text |-> text]
           /\ \A q \in Sent : asked'[q] = asked[q]
           /\ rows' = rows /\ answer' = answer
           /\ \A q \in Sent : pc'[q] = pc[q]
  <1>1. /\ pc[r] = "unsent" /\ pc' = [pc EXCEPT ![r] = "reading-rows"]
        /\ before' = [before EXCEPT ![r] = Ended] /\ faults' = faults
        /\ asked' = [q \in DOMAIN asked \cup {r} |->
                        IF q = r THEN [parent |-> parent, text |-> text] ELSE asked[q]]
        /\ rows' = rows /\ cache' = cache /\ download' = download /\ answer' = answer
        /\ unlucky' = unlucky
    BY DEF Ask, Arrive, Goto, lists
  <1>2. DOMAIN asked = Sent /\ DOMAIN pc = Requests BY DEF ListsTypeOK, ControlOK
  <1>3. r \notin Sent BY <1>1 DEF Sent
  <1>4. /\ pc'[r] = "reading-rows" /\ \A q \in Requests \ {r} : pc'[q] = pc[q]
    BY <1>1, <1>2
  <1>5. Sent' = Sent \cup {r} BY <1>4 DEF Sent
  <1>6. /\ asked'[r] = [parent |-> parent, text |-> text]
        /\ \A q \in Sent : asked'[q] = asked[q]
        /\ DOMAIN asked' = Sent \cup {r}
    BY <1>1, <1>2, <1>3
  <1>7. ListsTypeOK'
    <2>1. ControlOK(LocationWaits)'
      <3>1. "reading-rows" \in LocationWaits BY DEF LocationWaits
      <3>2. Ended \in SUBSET Requests BY DEF Ended
      <3> QED BY <1>1, <3>1, <3>2 DEF ListsTypeOK, ControlOK
    <2>2. asked' \in [Sent \cup {r} -> [parent : rows \cup {<<>>}, text : DOMAIN Containing]]
      BY <1>1, <1>2 DEF ListsTypeOK
    <2> QED BY <1>1, <1>5, <2>1, <2>2 DEF ListsTypeOK
  <1>8. ASSUME NEW q \in Requests PROVE AnswerOK(q)'
    <2>1. AnswerOK(q) BY DEF AnswersOK
    <2>2. CASE q = r
      <3>1. answer[r] = {} BY <1>3, <2>1, <2>2 DEF AnswerOK
      <3> QED BY <1>1, <1>4, <1>5, <2>2, <3>1 DEF AnswerOK
    <2>3. CASE q # r /\ q \in Sent
      <3>1. asked'[q] = asked[q] /\ pc'[q] = pc[q] BY <1>4, <1>6, <2>3
      <3>2. Listed(q) => Listed(q)'
        <4>1. Wanted(q)' = Wanted(q) /\ Taken(q)' = Taken(q) BY <3>1 DEF Taken, Cap, Wanted, Matching
        <4> QED BY <1>1, <4>1 DEF Listed
      <3>3. Complete(q) => Complete(q)' BY <1>1, <3>1 DEF Complete, Cap, Wanted, Matching
      <3> QED BY <1>1, <1>5, <2>1, <2>3, <3>1, <3>2, <3>3 DEF AnswerOK
    <2>4. CASE q # r /\ q \notin Sent
      <3>1. pc'[q] = "unsent" BY <1>4, <2>4 DEF Sent
      <3> QED BY <1>1, <1>5, <2>1, <2>4, <3>1 DEF AnswerOK
    <2> QED BY <2>2, <2>3, <2>4
  <1> QED BY <1>1, <1>2, <1>3, <1>4, <1>5, <1>6, <1>7, <1>8 DEF AnswersOK, Sent
-----------------------------------------------------------------------------
(***************************************************************************)
(* The form itself.  A change that waits for an answer and is the last one *)
(* of its input asked for what the input shows, in what is selected above, *)
(* and nothing was selected since but by an answer that came late.         *)
(***************************************************************************)
LastOK(r, l) ==
    /\ asked[r].text = input[l]
    /\ l = 1 \/ l - 1 \in late \/ asked[r].parent \in selected[l - 1]
    /\ l \in late \/ selected[l] = {}

PendingOK ==
    /\ \A q, r \in DOMAIN change : change[q].number = change[r].number => q = r
    /\ \A r \in DOMAIN change, l \in Levels :
          change[r].level = l =>
             /\ change[r].number <= lastChange[l]
             /\ change[r].number = lastChange[l] => LastOK(r, l)
    /\ \A l \in Levels : lastChange[l] = 0 => selected[l] = IF l = 3 THEN Default ELSE {}

FormInv == FormTypeOK /\ AnswersOK /\ PendingOK /\ SelectionIsTyped

(* Nothing is typed, asked or selected at first.                           *)
LEMMA FormInitInv == FormInit => FormInv
  <1> SUFFICES ASSUME FormInit PROVE FormInv OBVIOUS
  <1> USE DEF FormInit, LocationsInit, ControlInit
  <1>1. Sent = {} BY DEF Sent
  <1>2. ListsTypeOK
    <2>1. ControlOK(LocationWaits) BY FaultsAssumption DEF ControlOK
    <2>2. asked \in [Sent -> [parent : rows \cup {<<>>}, text : DOMAIN Containing]] BY <1>1
    <2> QED BY <2>1, <2>2 DEF ListsTypeOK
  <1>3. change \in [DOMAIN change -> [level : Levels, number : 1 .. changes]] /\ DOMAIN change = {}
    OBVIOUS
  <1>4. lastChange \in [Levels -> 0 .. changes] OBVIOUS
  <1>5. selected[1] = {} /\ selected[2] = {} BY DEF Levels
  <1>6. FormTypeOK BY <1>1, <1>2, <1>3, <1>4, <1>5 DEF FormTypeOK
  <1>7. AnswersOK BY <1>1 DEF AnswersOK, AnswerOK
  <1>8. PendingOK BY DEF PendingOK
  <1>9. SelectionIsTyped BY DEF SelectionIsTyped
  <1> QED BY <1>6, <1>7, <1>8, <1>9 DEF FormInv

(* The server leaves the form.                                             *)
LEMMA ServeKeepsForm ==
    ASSUME FormInv, ListsTypeOK', AnswersOK', Sent \subseteq Sent', rows \subseteq rows',
           \A r \in Sent : asked'[r] = asked[r], UNCHANGED form
    PROVE  FormInv'
  <1> USE DEF form
  <1>1. FormTypeOK' BY DEF FormTypeOK, FormInv
  <1>2. PendingOK'
    <2>1. \A r \in DOMAIN change : asked'[r] = asked[r] BY DEF FormInv, FormTypeOK
    <2> QED BY <2>1 DEF FormInv, PendingOK, LastOK
  <1>3. SelectionIsTyped' BY DEF FormInv, SelectionIsTyped
  <1> QED BY <1>1, <1>2, <1>3 DEF FormInv

(* A change shows in its input, and empties it and those below.            *)
LEMMA ChangeShows ==
    ASSUME FormInv, NEW l \in Levels, NEW text \in Typed[l], Change(l, text)
    PROVE  /\ input' \in [Levels -> DOMAIN Containing \cup {Blank}] /\ input'[l] = text
           /\ selected' \in [Levels -> SUBSET (rows \cup Default)]
           /\ \A k \in Levels : k >= l => selected'[k] = {} /\ lastChange'[k] = changes + 1 /\ k \notin late'
           /\ \A k \in Levels : k < l =>
                 /\ input'[k] = input[k] /\ selected'[k] = selected[k]
                 /\ lastChange'[k] = lastChange[k] /\ (k \in late' <=> k \in late)
           /\ changes' = changes + 1 /\ changes \in Nat
           /\ lastChange' \in [Levels -> 0 .. changes']
           /\ late' \subseteq late
           /\ mode' = mode /\ saving' = saving /\ account' = account /\ unsure' = unsure
           /\ text \in DOMAIN Containing
           /\ l - 1 \in Levels \/ l = 1
  <1>1. /\ input' = [k \in Levels |-> IF k = l THEN text ELSE IF k > l THEN Blank ELSE input[k]]
        /\ selected' = [k \in Levels |-> IF k \in Cleared(l) THEN {} ELSE selected[k]]
        /\ changes' = changes + 1
        /\ lastChange' = [k \in Levels |-> IF k >= l THEN changes' ELSE lastChange[k]]
        /\ late' = late \ Cleared(l)
        /\ mode' = mode /\ saving' = saving /\ account' = account /\ unsure' = unsure
    BY DEF Change
  <1>2. text \in DOMAIN Containing BY TypedAssumption DEF Levels
  <1>3. /\ input \in [Levels -> DOMAIN Containing \cup {Blank}]
        /\ selected \in [Levels -> SUBSET (rows \cup Default)]
        /\ changes \in Nat /\ lastChange \in [Levels -> 0 .. changes]
    BY DEF FormInv, FormTypeOK
  <1>4. Levels = {1, 2, 3} BY DEF Levels
  <1>5. input' \in [Levels -> DOMAIN Containing \cup {Blank}] /\ input'[l] = text
    BY <1>1, <1>2, <1>3
  <1>6. selected' \in [Levels -> SUBSET (rows \cup Default)] BY <1>1, <1>3
  <1>7. lastChange' \in [Levels -> 0 .. changes'] BY <1>1, <1>3
  <1>8. \A k \in Levels : k >= l => selected'[k] = {} /\ lastChange'[k] = changes + 1 /\ k \notin late'
    BY <1>1 DEF Cleared
  <1>9. ASSUME NEW k \in Levels, k < l
        PROVE  /\ input'[k] = input[k] /\ selected'[k] = selected[k]
               /\ lastChange'[k] = lastChange[k] /\ (k \in late' <=> k \in late)
    <2>1. k \notin Cleared(l) /\ ~(k > l) /\ k # l /\ ~(k >= l) BY <1>4, <1>9 DEF Cleared
    <2> QED BY <1>1, <2>1
  <1> QED BY <1>1, <1>2, <1>3, <1>4, <1>5, <1>6, <1>7, <1>8, <1>9

(* A change asks at most one request, of which nothing is known yet.       *)
LEMMA ChangeAsks ==
    ASSUME FormInv, NEW l \in Levels, NEW text \in Typed[l], Change(l, text)
    PROVE  /\ ListsTypeOK' /\ AnswersOK' /\ Sent \subseteq Sent' /\ rows' = rows
           /\ \A q \in Sent : asked'[q] = asked[q]
           /\ \/ change' = change
              \/ \E r \in Requests \ Sent :
                    /\ r \in Sent' /\ asked'[r].text = text
                    /\ l = 1 \/ asked'[r].parent \in selected[l - 1]
                    /\ change' = [q \in DOMAIN change \cup {r} |->
                                     IF q = r THEN [level |-> l, number |-> changes + 1] ELSE change[q]]
  <1> DEFINE parent == IF l = 1 THEN {<<>>} ELSE selected[l - 1]
  <1>1. changes' = changes + 1 BY ChangeShows
  <1>2. IF parent = {}
        THEN UNCHANGED <<change, asked, lists, control>>
        ELSE \E r \in Requests : \E p \in parent :
                /\ Ask(r, p, text)
                /\ change' = [q \in DOMAIN change \cup {r} |->
                                 IF q = r THEN [level |-> l, number |-> changes'] ELSE change[q]]
    BY DEF Change
  <1>3. ListsTypeOK /\ AnswersOK BY DEF FormInv, FormTypeOK
  <1>4. parent \subseteq rows \cup {<<>>} BY DEF FormInv, FormTypeOK, Levels
  <1>5. CASE parent = {}
    <2>1. UNCHANGED <<change, asked, lists, control>> BY <1>2, <1>5
    <2>2. ListsTypeOK' /\ AnswersOK' /\ Sent' = Sent
      BY <1>3, <2>1, ServerStays
    <2> QED BY <2>1, <2>2 DEF lists
  <1>6. CASE parent # {}
    <2>1. PICK r \in Requests, p \in parent :
             /\ Ask(r, p, text)
             /\ change' = [q \in DOMAIN change \cup {r} |->
                              IF q = r THEN [level |-> l, number |-> changes'] ELSE change[q]]
      BY <1>2, <1>6
    <2>2. text \in DOMAIN Containing BY ChangeShows
    <2>3. p \in rows \cup {<<>>} BY <1>4
    <2>4. l = 1 \/ p \in selected[l - 1] OBVIOUS
    <2> HIDE DEF parent
    <2>5. /\ ListsTypeOK' /\ AnswersOK'
          /\ Sent' = Sent \cup {r} /\ r \notin Sent
          /\ asked'[r] = [parent |-> p, text |-> text]
          /\ \A q \in Sent : asked'[q] = asked[q]
          /\ rows' = rows
      BY <1>3, <2>1, <2>2, <2>3, AskKeeps
    <2> QED BY <1>1, <2>1, <2>4, <2>5
  <1> QED BY <1>5, <1>6

(* A change makes its request the last one of its input.                   *)
LEMMA ChangeKeeps ==
    ASSUME FormInv, NEW l \in Levels, NEW text \in Typed[l], Change(l, text)
    PROVE  FormInv'
  <1>1. Levels = {1, 2, 3} BY DEF Levels
  <1>2. /\ changes' = changes + 1 /\ changes \in Nat
        /\ DOMAIN change \subseteq Sent
        /\ change \in [DOMAIN change -> [level : Levels, number : 1 .. changes]]
        /\ lastChange \in [Levels -> 0 .. changes]
    BY ChangeShows DEF FormInv, FormTypeOK
  <1>3. /\ DOMAIN change' \subseteq Sent'
        /\ change' \in [DOMAIN change' -> [level : Levels, number : 1 .. changes']]
    <2>1. CASE change' = change BY <1>2, <2>1, ChangeAsks
    <2>2. CASE \E r \in Requests \ Sent :
                  /\ r \in Sent'
                  /\ change' = [q \in DOMAIN change \cup {r} |->
                                   IF q = r THEN [level |-> l, number |-> changes + 1] ELSE change[q]]
      <3>1. [level |-> l, number |-> changes + 1] \in [level : Levels, number : 1 .. changes'] BY <1>2
      <3>2. \A q \in DOMAIN change : change[q] \in [level : Levels, number : 1 .. changes'] BY <1>2
      <3>3. PICK r \in Requests \ Sent :
                /\ r \in Sent'
                /\ change' = [q \in DOMAIN change \cup {r} |->
                                 IF q = r THEN [level |-> l, number |-> changes + 1] ELSE change[q]]
        BY <2>2
      <3>4. Sent \subseteq Sent' BY ChangeAsks
      <3> HIDE DEF Levels
      <3> QED BY <1>2, <3>1, <3>2, <3>3, <3>4
    <2> QED BY <2>1, <2>2, ChangeAsks
  <1>4. FormTypeOK'
    <2>1. selected'[1] \cup selected'[2] \subseteq rows'
      BY <1>1, ChangeShows, ChangeAsks DEF FormInv, FormTypeOK
    <2> QED BY <1>2, <1>3, <2>1, ChangeShows, ChangeAsks DEF FormInv, FormTypeOK
  <1>5. ASSUME NEW q \in DOMAIN change, NEW k \in Levels, change[q].level = k
        PROVE  /\ change[q].number <= lastChange'[k]
               /\ change[q].number # changes + 1
               /\ change[q].number = lastChange'[k] => LastOK(q, k)'
    <2>1. change[q].number \in 1 .. changes /\ lastChange[k] \in 0 .. changes BY <1>2
    <2>2. /\ change[q].number <= lastChange[k]
          /\ change[q].number = lastChange[k] => LastOK(q, k)
      BY <1>5 DEF FormInv, PendingOK
    <2>3. asked'[q] = asked[q] BY <1>2, ChangeAsks
    <2>4. CASE k >= l
      <3>1. lastChange'[k] = changes + 1 BY <2>4, ChangeShows
      <3> QED BY <1>2, <2>1, <3>1
    <2>5. CASE k < l
      <3>1. /\ input'[k] = input[k] /\ selected'[k] = selected[k]
            /\ lastChange'[k] = lastChange[k] /\ (k \in late' <=> k \in late)
        BY <2>5, ChangeShows
      <3>2. k = 1 \/ (selected'[k - 1] = selected[k - 1] /\ (k - 1 \in late' <=> k - 1 \in late))
        <4>1. k = 1 \/ (k - 1 \in Levels /\ k - 1 < l) BY <1>1, <2>5
        <4> QED BY <4>1, ChangeShows
      <3>3. LastOK(q, k) => LastOK(q, k)' BY <2>3, <3>1, <3>2 DEF LastOK
      <3>4. change[q].number # changes + 1 BY <1>2, <2>1
      <3> QED BY <2>2, <3>1, <3>3, <3>4
    <2>6. k >= l \/ k < l BY <1>1
    <2> QED BY <2>4, <2>5, <2>6
  <1>6. PendingOK'
    <2>1. \A k \in Levels : lastChange'[k] = 0 => selected'[k] = IF k = 3 THEN Default ELSE {}
      <3>1. \A k \in Levels : k >= l \/ k < l BY <1>1
      <3>2. changes + 1 # 0 BY <1>2
      <3> QED BY <3>1, <3>2, ChangeShows DEF FormInv, PendingOK
    <2>2. CASE change' = change
      <3>1. \A p, q \in DOMAIN change' : change'[p].number = change'[q].number => p = q
        BY <2>2 DEF FormInv, PendingOK
      <3>2. ASSUME NEW q \in DOMAIN change', NEW k \in Levels, change'[q].level = k
            PROVE  /\ change'[q].number <= lastChange'[k]
                   /\ change'[q].number = lastChange'[k] => LastOK(q, k)'
        BY <1>5, <2>2, <3>2
      <3> QED BY <2>1, <3>1, <3>2 DEF PendingOK
    <2>3. CASE \E r \in Requests \ Sent :
                  /\ r \in Sent' /\ asked'[r].text = text
                  /\ l = 1 \/ asked'[r].parent \in selected[l - 1]
                  /\ change' = [q \in DOMAIN change \cup {r} |->
                                   IF q = r THEN [level |-> l, number |-> changes + 1] ELSE change[q]]
      <3>1. PICK r \in Requests \ Sent :
               /\ asked'[r].text = text
               /\ l = 1 \/ asked'[r].parent \in selected[l - 1]
               /\ change' = [q \in DOMAIN change \cup {r} |->
                                IF q = r THEN [level |-> l, number |-> changes + 1] ELSE change[q]]
        BY <2>3
      <3>2. r \notin DOMAIN change BY <1>2
      <3>3. /\ DOMAIN change' = DOMAIN change \cup {r}
            /\ change'[r].level = l /\ change'[r].number = changes + 1
            /\ \A q \in DOMAIN change : change'[q] = change[q]
        BY <3>1, <3>2
      <3>4. l >= l BY <1>1
      <3>5. lastChange'[l] = changes + 1 /\ selected'[l] = {} /\ input'[l] = text
        BY <3>4, ChangeShows
      <3>6. l = 1 \/ asked'[r].parent \in selected'[l - 1]
        <4>1. l = 1 \/ (l - 1 \in Levels /\ l - 1 < l) BY <1>1
        <4> QED BY <3>1, <4>1, ChangeShows
      <3>7. LastOK(r, l)' BY <3>1, <3>5, <3>6 DEF LastOK
      <3>8. ASSUME NEW q \in DOMAIN change', NEW k \in Levels, change'[q].level = k
            PROVE  /\ change'[q].number <= lastChange'[k]
                   /\ change'[q].number = lastChange'[k] => LastOK(q, k)'
        <4>1. CASE q = r
          <5>1. k = l /\ change'[q].number = lastChange'[k] BY <3>3, <3>5, <3>8, <4>1
          <5>2. lastChange'[k] \in Nat BY <1>2, <3>5, <5>1
          <5> QED BY <3>7, <4>1, <5>1, <5>2
        <4>2. CASE q \in DOMAIN change
          <5>1. change[q].level = k /\ change'[q].number = change[q].number BY <3>3, <3>8, <4>2
          <5> QED BY <1>5, <4>2, <5>1
        <4> QED BY <3>3, <4>1, <4>2
      <3>9. \A p, q \in DOMAIN change' : change'[p].number = change'[q].number => p = q
        <4>1. \A q \in DOMAIN change : change[q].number # changes + 1 BY <1>2
        <4>2. \A p, q \in DOMAIN change : change[p].number = change[q].number => p = q
          BY DEF FormInv, PendingOK
        <4> QED BY <3>3, <4>1, <4>2
      <3> QED BY <2>1, <3>8, <3>9 DEF PendingOK
    <2> QED BY <2>2, <2>3, ChangeAsks
  <1>7. SelectionIsTyped'
    <2>1. ASSUME NEW k \in Levels, k \notin late', NEW p \in selected'[k]
          PROVE  \/ lastChange'[k] = 0
                 \/ /\ Name(p) = input'[k]
                    /\ k = 1 \/ k - 1 \in late' \/ Parent(p) \in selected'[k - 1]
      <3>1. k < l BY <1>1, <2>1, ChangeShows
      <3>2. k = 1 \/ (k - 1 \in Levels /\ k - 1 < l) BY <1>1, <3>1
      <3>3. /\ p \in selected[k] /\ k \notin late /\ input'[k] = input[k]
            /\ lastChange'[k] = lastChange[k]
        BY <2>1, <3>1, ChangeShows
      <3>4. k = 1 \/ (selected'[k - 1] = selected[k - 1] /\ (k - 1 \in late' <=> k - 1 \in late))
        BY <3>2, ChangeShows
      <3> QED BY <3>3, <3>4 DEF FormInv, SelectionIsTyped
    <2>2. account' = account /\ unsure' = unsure BY ChangeShows
    <2> QED BY <2>1, <2>2 DEF FormInv, SelectionIsTyped
  <1> QED BY <1>4, <1>6, <1>7, ChangeAsks DEF FormInv

(* What an answer selects is within what it was asked for, and late if     *)
(* another change of the input, or of one above, came since.               *)
LEMMA ApplySelects ==
    ASSUME FormInv, NEW r \in Requests, Apply(r), NEW l \in Levels, change[r].level = l
    PROVE  /\ r \in Sent /\ change' = [q \in DOMAIN change \ {r} |-> change[q]]
           /\ input' = input /\ lastChange' = lastChange /\ changes' = changes /\ saving' = saving
           /\ mode' = mode /\ account' = account /\ unsure' = unsure
           /\ UNCHANGED <<asked, lists, control>>
           /\ lastChange[l] # 0
           /\ late \subseteq late' /\ late' \subseteq late \cup {l}
           /\ selected' \in [Levels -> SUBSET (rows \cup Default)]
           /\ \A k \in Levels \ {l} : selected'[k] = selected[k]
           /\ selected'[l] = selected[l] \/ selected'[l] \subseteq rows
           /\ l \in late' \/ selected'[l] = selected[l] \/
                 /\ selected[l] = {}
                 /\ \A p \in selected'[l] :
                       /\ Name(p) = input[l]
                       /\ l = 1 \/ l - 1 \in late \/ Parent(p) \in selected[l - 1]
           /\ l \in late' \/ selected'[l] = selected[l] \/ change[r].number = lastChange[l]
  <1> DEFINE match == {p \in answer[r] : Name(p) = asked[r].text}
  <1>1. /\ r \in DOMAIN change
        /\ change' = [q \in DOMAIN change \ {r} |-> change[q]]
        /\ IF match = {} /\ l # 3
           THEN UNCHANGED <<selected, late>>
           ELSE /\ selected' = [selected EXCEPT ![l] = match]
                /\ late' = IF change[r].number = lastChange[l] THEN late ELSE late \cup {l}
        /\ input' = input /\ lastChange' = lastChange /\ changes' = changes /\ saving' = saving
        /\ mode' = mode /\ account' = account /\ unsure' = unsure
        /\ UNCHANGED <<asked, lists, control>>
    BY DEF Apply
  <1>2. /\ DOMAIN change \subseteq Sent
        /\ change \in [DOMAIN change -> [level : Levels, number : 1 .. changes]]
        /\ lastChange \in [Levels -> 0 .. changes] /\ changes \in Nat
        /\ selected \in [Levels -> SUBSET (rows \cup Default)]
        /\ answer \in [Requests -> SUBSET (rows \ Removed)]
    BY DEF FormInv, FormTypeOK, ListsTypeOK
  <1>3. /\ change[r].number <= lastChange[l]
        /\ change[r].number = lastChange[l] => LastOK(r, l)
    BY <1>1 DEF FormInv, PendingOK
  <1>4. lastChange[l] # 0 BY <1>1, <1>2, <1>3
  <1>5. match \subseteq rows BY <1>2
  <1>6. \A p \in match : Name(p) = asked[r].text /\ Parent(p) = asked[r].parent
    BY <1>1, <1>2 DEF FormInv, AnswersOK, AnswerOK
  <1> HIDE DEF match
  <1>7. CASE UNCHANGED <<selected, late>> BY <1>1, <1>2, <1>4, <1>7
  <1>8. CASE /\ selected' = [selected EXCEPT ![l] = match]
             /\ late' = IF change[r].number = lastChange[l] THEN late ELSE late \cup {l}
    <2>1. /\ selected'[l] = match /\ \A k \in Levels \ {l} : selected'[k] = selected[k]
          /\ selected' \in [Levels -> SUBSET (rows \cup Default)]
      BY <1>2, <1>5, <1>8
    <2>2. late \subseteq late' /\ late' \subseteq late \cup {l} BY <1>8
    <2>3. CASE change[r].number = lastChange[l] BY <1>1, <1>2, <1>3, <1>4, <1>5, <1>6, <2>1, <2>2, <2>3 DEF LastOK
    <2>4. CASE change[r].number # lastChange[l] BY <1>1, <1>2, <1>4, <1>5, <1>8, <2>1, <2>2, <2>4
    <2> QED BY <2>3, <2>4
  <1> QED BY <1>1, <1>7, <1>8

(* An answer in time selects what was typed.                               *)
LEMMA ApplyKeeps ==
    ASSUME FormInv, NEW r \in Requests, Apply(r)
    PROVE  FormInv'
  <1>1. /\ DOMAIN change \subseteq Sent
        /\ change \in [DOMAIN change -> [level : Levels, number : 1 .. changes]]
    BY DEF FormInv, FormTypeOK
  <1>2. r \in DOMAIN change BY DEF Apply
  <1>3. PICK l \in Levels : change[r].level = l BY <1>1, <1>2
  <1>4. /\ change' = [q \in DOMAIN change \ {r} |-> change[q]]
        /\ input' = input /\ lastChange' = lastChange /\ changes' = changes /\ saving' = saving
        /\ mode' = mode /\ account' = account /\ unsure' = unsure
        /\ UNCHANGED <<asked, lists, control>>
        /\ lastChange[l] # 0
        /\ late \subseteq late' /\ late' \subseteq late \cup {l}
        /\ selected' \in [Levels -> SUBSET (rows \cup Default)]
        /\ \A k \in Levels \ {l} : selected'[k] = selected[k]
        /\ selected'[l] = selected[l] \/ selected'[l] \subseteq rows
    BY <1>3, ApplySelects
  <1>5. l \in late' \/ selected'[l] = selected[l] \/
           /\ selected[l] = {}
           /\ \A p \in selected'[l] :
                 /\ Name(p) = input[l]
                 /\ l = 1 \/ l - 1 \in late \/ Parent(p) \in selected[l - 1]
    BY <1>3, ApplySelects
  <1>6. l \in late' \/ selected'[l] = selected[l] \/ change[r].number = lastChange[l]
    BY <1>3, ApplySelects
  <1>7. ListsTypeOK' /\ AnswersOK' /\ Sent' = Sent
    <2>1. ListsTypeOK /\ AnswersOK BY DEF FormInv, FormTypeOK
    <2> QED BY <1>4, <2>1, ServerStays
  <1>8. rows' = rows BY <1>4 DEF lists
  <1>9. FormTypeOK'
    <2>1. selected'[1] \cup selected'[2] \subseteq rows
      BY <1>4 DEF FormInv, FormTypeOK, Levels
    <2>2. change' \in [DOMAIN change' -> [level : Levels, number : 1 .. changes']]
      BY <1>1, <1>4
    <2>3. DOMAIN change' \subseteq Sent' BY <1>1, <1>4, <1>7
    <2>4. late' \subseteq Levels BY <1>4 DEF FormInv, FormTypeOK
    <2> QED BY <1>4, <1>7, <1>8, <2>1, <2>2, <2>3, <2>4 DEF FormInv, FormTypeOK
  <1>10. PendingOK'
    <2>1. ASSUME NEW q \in DOMAIN change', NEW k \in Levels, change'[q].level = k
          PROVE  /\ change'[q].number <= lastChange'[k]
                 /\ change'[q].number = lastChange'[k] => LastOK(q, k)'
      <3>1. q \in DOMAIN change /\ q # r /\ change'[q] = change[q] BY <1>4, <2>1
      <3>2. /\ change[q].number <= lastChange[k]
            /\ change[q].number = lastChange[k] => LastOK(q, k)
        BY <2>1, <3>1 DEF FormInv, PendingOK
      <3>3. ASSUME change[q].number = lastChange[k] PROVE LastOK(q, k)'
        <4>1. asked'[q].text = input'[k] BY <1>4, <3>2, <3>3 DEF LastOK
        <4>2. k = 1 \/ k - 1 \in late' \/ asked'[q].parent \in selected'[k - 1]
          <5>1. CASE k = 1 BY <5>1
          <5>2. CASE k # 1 /\ k - 1 # l
            <6>1. k - 1 \in Levels \ {l} BY <5>2 DEF Levels
            <6> QED BY <1>4, <3>2, <3>3, <5>2, <6>1 DEF LastOK
          <5>3. CASE k # 1 /\ k - 1 = l BY <1>4, <1>5, <3>2, <3>3, <5>3 DEF LastOK
          <5> QED BY <5>1, <5>2, <5>3
        <4>3. k \in late' \/ selected'[k] = {}
          <5>1. CASE k # l BY <1>4, <3>2, <3>3, <5>1 DEF LastOK
          <5>2. CASE k = l
            <6>1. change[r].number # lastChange[l]
              BY <1>2, <3>1, <3>3, <5>2 DEF FormInv, PendingOK
            <6> QED BY <1>4, <1>6, <3>2, <3>3, <5>2, <6>1 DEF LastOK
          <5> QED BY <5>1, <5>2
        <4> QED BY <4>1, <4>2, <4>3 DEF LastOK
      <3> QED BY <1>4, <3>1, <3>2, <3>3
    <2>2. \A p, q \in DOMAIN change' : change'[p].number = change'[q].number => p = q
      BY <1>4 DEF FormInv, PendingOK
    <2>3. \A k \in Levels : lastChange'[k] = 0 => selected'[k] = IF k = 3 THEN Default ELSE {}
      BY <1>4 DEF FormInv, PendingOK
    <2> QED BY <2>1, <2>2, <2>3 DEF PendingOK
  <1>11. SelectionIsTyped'
    <2>1. ASSUME NEW k \in Levels, k \notin late', NEW p \in selected'[k]
          PROVE  \/ lastChange'[k] = 0
                 \/ /\ Name(p) = input'[k]
                    /\ k = 1 \/ k - 1 \in late' \/ Parent(p) \in selected'[k - 1]
      <3>1. CASE k = l
        <4>1. \/ selected'[l] = selected[l]
              \/ \A s \in selected'[l] :
                    /\ Name(s) = input[l]
                    /\ l = 1 \/ l - 1 \in late \/ Parent(s) \in selected[l - 1]
          BY <1>5, <2>1, <3>1
        <4>2. /\ Name(p) = input[l]
              /\ l = 1 \/ l - 1 \in late \/ Parent(p) \in selected[l - 1]
          BY <1>4, <2>1, <3>1, <4>1 DEF FormInv, SelectionIsTyped
        <4>3. l = 1 \/ selected'[l - 1] = selected[l - 1]
          <5>1. l = 1 \/ l - 1 \in Levels \ {l} BY DEF Levels
          <5> QED BY <1>4, <5>1
        <4> QED BY <1>4, <3>1, <4>2, <4>3
      <3>2. CASE k # l
        <4>1. p \in selected[k] /\ k \notin late BY <1>4, <2>1, <3>2
        <4>2. \/ lastChange[k] = 0
              \/ /\ Name(p) = input[k]
                 /\ k = 1 \/ k - 1 \in late \/ Parent(p) \in selected[k - 1]
          BY <4>1 DEF FormInv, SelectionIsTyped
        <4>3. k = 1 \/ k - 1 \in late' \/ Parent(p) \in selected'[k - 1] \/ lastChange[k] = 0
          <5>1. CASE k - 1 = l BY <1>4, <1>5, <4>2, <5>1
          <5>2. CASE k # 1 /\ k - 1 # l
            <6>1. k - 1 \in Levels \ {l} BY <5>2 DEF Levels
            <6> QED BY <1>4, <4>2, <6>1
          <5> QED BY <5>1, <5>2
        <4> QED BY <1>4, <4>2, <4>3
      <3> QED BY <3>1, <3>2
    <2> QED BY <1>4, <2>1 DEF FormInv, SelectionIsTyped
  <1> QED BY <1>7, <1>9, <1>10, <1>11 DEF FormInv

(* Nobody registers with a mahalla the form did not show.                  *)
LEMMA SubmitKeeps ==
    ASSUME FormInv, Submit \/ Submitted
    PROVE  FormInv'
  <1>1. /\ UNCHANGED <<input, selected, change, lastChange, changes, late, asked, lists, control>>
        /\ saving' \in {"no", "registering", "asking-for-code"}
        /\ mode' \in {mode, "login"}
    BY DEF Submit, Submitted
  <1>2. \/ account' = account /\ unsure' = unsure
        \/ account' = {[home |-> Effective, name |-> input[3]]} /\ unsure' = late
    BY DEF Submit, Submitted
  <1>3. ListsTypeOK' /\ AnswersOK' /\ Sent' = Sent
    <2>1. ListsTypeOK /\ AnswersOK BY DEF FormInv, FormTypeOK
    <2> QED BY <1>1, <2>1, ServerStays
  <1>4. 3 \in Levels BY DEF Levels
  <1>5. FormTypeOK'
    <2>1. [home |-> Effective, name |-> input[3]]
             \in [home : SUBSET (rows \cup Default), name : DOMAIN Containing \cup {Blank}]
      BY <1>4 DEF FormInv, FormTypeOK, Effective
    <2>2. account' \subseteq [home : SUBSET (rows \cup Default), name : DOMAIN Containing \cup {Blank}]
      BY <1>2, <2>1 DEF FormInv, FormTypeOK
    <2>3. unsure' \subseteq Levels BY <1>2 DEF FormInv, FormTypeOK
    <2> QED BY <1>1, <1>3, <2>2, <2>3 DEF FormInv, FormTypeOK, lists
  <1>6. PendingOK' BY <1>1 DEF FormInv, PendingOK, LastOK
  <1>7. SelectionIsTyped'
    <2>1. ASSUME 3 \notin late, NEW p \in Effective \ Default PROVE Name(p) = input[3]
      <3>1. p \in selected[3] BY <2>1 DEF Effective
      <3>2. lastChange[3] # 0 BY <1>4, <2>1, <3>1 DEF FormInv, PendingOK
      <3> QED BY <1>4, <2>1, <3>1, <3>2 DEF FormInv, SelectionIsTyped
    <2>2. \A a \in account' : \A p \in a.home \ Default : Name(p) = a.name \/ 3 \in unsure'
      BY <1>2, <2>1 DEF FormInv, SelectionIsTyped
    <2> QED BY <1>1, <2>2 DEF FormInv, SelectionIsTyped
  <1> QED BY <1>3, <1>5, <1>6, <1>7 DEF FormInv

(* A form that is shown anew is empty, and all its answers are late.       *)
LEMMA ToggleKeeps ==
    ASSUME FormInv, Toggle
    PROVE  FormInv'
  <1>1. UNCHANGED <<change, saving, account, unsure, asked, lists, control>> BY DEF Toggle
  <1>2. ListsTypeOK' /\ AnswersOK' /\ Sent' = Sent
    <2>1. ListsTypeOK /\ AnswersOK BY DEF FormInv, FormTypeOK
    <2> QED BY <1>1, <2>1, ServerStays
  <1>3. mode' \in {"register-page", "login", "resident-register"} BY DEF Toggle
  <1>4. CASE UNCHANGED <<input, selected, lastChange, changes, late>>
    <2>1. FormTypeOK' BY <1>1, <1>2, <1>3, <1>4 DEF FormInv, FormTypeOK, lists
    <2>2. PendingOK' BY <1>1, <1>4 DEF FormInv, PendingOK, LastOK
    <2>3. SelectionIsTyped' BY <1>1, <1>4 DEF FormInv, SelectionIsTyped
    <2> QED BY <1>2, <2>1, <2>2, <2>3 DEF FormInv
  <1>5. CASE /\ input' = [l \in Levels |-> Blank] /\ selected' = [l \in Levels |-> {}]
             /\ changes' = changes + 1 /\ lastChange' = [l \in Levels |-> changes'] /\ late' = {}
    <2>1. /\ changes \in Nat /\ change \in [DOMAIN change -> [level : Levels, number : 1 .. changes]]
          /\ DOMAIN change \subseteq Sent
      BY DEF FormInv, FormTypeOK
    <2>2. FormTypeOK'
      <3>1. selected'[1] \cup selected'[2] \subseteq rows' BY <1>5 DEF Levels
      <3>2. 1 .. changes \subseteq 1 .. changes' BY <1>5, <2>1
      <3>3. change' \in [DOMAIN change' -> [level : Levels, number : 1 .. changes']]
        BY <1>1, <2>1, <3>2
      <3>4. /\ input' \in [Levels -> DOMAIN Containing \cup {Blank}]
            /\ selected' \in [Levels -> SUBSET (rows' \cup Default)]
            /\ lastChange' \in [Levels -> 0 .. changes'] /\ changes' \in Nat
        BY <1>5, <2>1
      <3> QED BY <1>1, <1>2, <1>3, <1>5, <2>1, <3>1, <3>3, <3>4 DEF FormInv, FormTypeOK, lists
    <2>3. PendingOK'
      <3>1. \A r \in DOMAIN change : change[r].number \in 1 .. changes BY <2>1
      <3>2. \A l \in Levels : lastChange'[l] = changes + 1 BY <1>5
      <3>3. ASSUME NEW r \in DOMAIN change', NEW l \in Levels
            PROVE  change'[r].number <= lastChange'[l] /\ change'[r].number # lastChange'[l]
        BY <1>1, <2>1, <3>1, <3>2
      <3>4. \A l \in Levels : lastChange'[l] # 0 BY <2>1, <3>2
      <3>5. \A p, q \in DOMAIN change' : change'[p].number = change'[q].number => p = q
        BY <1>1 DEF FormInv, PendingOK
      <3> QED BY <3>3, <3>4, <3>5 DEF PendingOK
    <2>4. SelectionIsTyped'
      <3>1. \A l \in Levels : selected'[l] = {} BY <1>5
      <3> QED BY <1>1, <3>1 DEF FormInv, SelectionIsTyped
    <2> QED BY <1>2, <2>2, <2>3, <2>4 DEF FormInv
  <1> QED BY <1>4, <1>5 DEF Toggle

(* Every step of the form or of the server keeps the invariant.            *)
LEMMA FormKeeps ==
    ASSUME FormInv, [FormNext]_formVars
    PROVE  FormInv'
  <1>1. CASE \E l \in Levels : \E text \in Typed[l] : Change(l, text) BY <1>1, ChangeKeeps
  <1>2. CASE \E r \in Requests : Apply(r) BY <1>2, ApplyKeeps
  <1>3. CASE Submit \/ Submitted BY <1>3, SubmitKeeps
  <1>6. CASE Toggle BY <1>6, ToggleKeeps
  <1>4. CASE Serve /\ UNCHANGED form
    <2>1. ListsTypeOK /\ AnswersOK BY DEF FormInv, FormTypeOK
    <2>2. Served BY <1>4, <2>1, ServeServes
    <2>3. ListsTypeOK' /\ AnswersOK' /\ Sent' = Sent BY <2>1, <2>2, ServedKeeps
    <2> QED BY <1>4, <2>2, <2>3, ServeKeepsForm DEF Served
  <1>5. CASE UNCHANGED formVars
    <2>1. UNCHANGED form /\ UNCHANGED <<lists, asked, control>> BY <1>5 DEF formVars
    <2>2. ListsTypeOK' /\ AnswersOK' /\ Sent' = Sent
      BY <2>1, ServerStays DEF FormInv, FormTypeOK
    <2> QED BY <2>1, <2>2, ServeKeepsForm DEF lists
  <1> QED BY <1>1, <1>2, <1>3, <1>4, <1>5, <1>6 DEF FormNext

(* So it holds always.                                                     *)
LEMMA FormAlways == FormSpec => []FormInv
  BY FormInitInv, FormKeeps, PTL DEF FormSpec

(* Every variable of the suggestions and of the form has its type: the     *)
(* parents asked for are rows, the selected regions and districts too, and *)
(* no removed mahalla is suggested (MahallasService.findAllMahallas and    *)
(* the registration page).                                                 *)
THEOREM FormTyped == FormSpec => []FormTypeOK
  <1>1. FormInv => FormTypeOK BY DEF FormInv
  <1> QED BY <1>1, FormAlways, PTL

(* A request whose calls succeed is answered with Limit locations or with  *)
(* all there are in the database and the remote lists, whoever filled the  *)
(* cache or inserted the rows meanwhile, unless removed mahallas fill what *)
(* is taken of the lists (getRemoteLocationCache and the queries and caps  *)
(* of MahallasService).                                                    *)
THEOREM AnswersComplete == FormSpec => []AnswersAreComplete
  <1>1. FormInv => AnswersAreComplete
    BY DEF FormInv, AnswersOK, AnswerOK, Complete, AnswersAreComplete
  <1> QED BY <1>1, FormAlways, PTL

(* But for answers that come after a later change, or after the form was   *)
(* emptied by the switch of the login page, what is selected in the        *)
(* registration form is what its inputs show, each location within the one *)
(* selected above, and the account gets the mahalla of that name or the    *)
(* default one (handleRegionInputChange to handleSubmit).                  *)
THEOREM SelectionsTyped == FormSpec => []SelectionIsTyped
  <1>1. FormInv => SelectionIsTyped BY DEF FormInv
  <1> QED BY <1>1, FormAlways, PTL
=============================================================================
