----------------------------- MODULE LoginProofs -----------------------------
(***************************************************************************)
(* The invariants of Login for any requests, limits and lifetimes: a code  *)
(* and a challenge let their sender in once, up to requests that ran at    *)
(* the same time, and the code used is the newest of those not used; rates *)
(* and attempts are limited.                                               *)
(***************************************************************************)
EXTENDS Login, FiniteSetTheorems, TLAPS

(***************************************************************************)
(* What the steps of Handlers keep.                                        *)
(***************************************************************************)
(* A request is made. *)
LEMMA ArriveKeeps ==
    ASSUME NEW W, ControlOK(W), Past,
           NEW r \in Requests, NEW p \in W \cup Ends, p # "unsent", Arrive(r, p)
    PROVE  Kept(W)
  BY DEF Kept, ControlOK, Past, Onward, Arrive, Goto, Sent, Ended, Ends

(* An await resolves. *)
LEMMA StepKeeps ==
    ASSUME NEW W, ControlOK(W), Past, W \cap Ends = {},
           NEW r \in Requests, NEW p \in W, NEW q \in W \cup Ends, q # "unsent",
           Step(r, p, q)
    PROVE  Kept(W)
  BY DEF Kept, ControlOK, Past, Onward, Step, Goto, Sent, Ended, Ends

(* A write resolves, or is rejected having taken effect. *)
LEMMA ResolveKeeps ==
    ASSUME NEW W, ControlOK(W), Past, W \cap Ends = {},
           NEW r \in Requests, NEW p \in W, NEW q \in W \cup Ends, q # "unsent",
           Resolve(r, p, q)
    PROVE  Kept(W)
  <1>1. CASE Step(r, p, q) BY <1>1, StepKeeps
  <1>2. CASE pc[r] = p /\ Goto(r, "failed") /\ Fault /\ UNCHANGED before
    BY <1>2, FaultsAssumption DEF Kept, ControlOK, Past, Onward, Goto, Fault, Sent, Ended, Ends
  <1> QED BY <1>1, <1>2 DEF Resolve

(* A call is rejected. *)
LEMMA RejectKeeps ==
    ASSUME NEW W, ControlOK(W), Past, NEW r \in Requests, Reject(r)
    PROVE  Kept(W)
  BY FaultsAssumption DEF Kept, ControlOK, Past, Onward, Reject, Goto, Fault, UnderWay, Sent, Ended, Ends

(* The process dies. *)
LEMMA DieKeeps ==
    ASSUME NEW W, ControlOK(W), Past, Die
    PROVE  Kept(W)
  BY FaultsAssumption DEF Kept, ControlOK, Past, Onward, Die, Fault, UnderWay, Sent, Ended, Ends

(* Nothing happens to any request. *)
LEMMA NothingKeeps ==
    ASSUME NEW W, ControlOK(W), Past, UNCHANGED control
    PROVE  Kept(W)
  BY DEF Kept, ControlOK, Past, Onward, control, Sent, Ended

(* Two requests under way overlap. *)
LEMMA UnderWayOverlap ==
    ASSUME Past, NEW q \in UnderWay, NEW r \in UnderWay
    PROVE  Overlap(q, r)
  BY DEF Past, Overlap, UnderWay, Sent, Ended

(* The order of requests made stays as it is. *)
LEMMA OverlapStays ==
    ASSUME Onward, NEW q \in Sent, NEW r \in Sent
    PROVE  Overlap(q, r)' <=> Overlap(q, r)
  BY DEF Onward, Overlap

(* At first nobody has been before anybody. *)
LEMMA ControlStarts ==
    ASSUME NEW W, ControlInit
    PROVE  ControlOK(W) /\ Past
  BY FaultsAssumption DEF ControlInit, ControlOK, Past, Ended
-----------------------------------------------------------------------------

(* Each operation keeps to its awaits. *)
AskWaits     == {"reading-account", "creating", "texting-code"}
VerifyWaits  == {"finding", "counting", "reading-user", "consuming", "weighing", "hashing",
                 "texting-factor"}
ConfirmWaits == {"opening", "comparing", "reading-confirmed"}

PlaceOK(r, p) ==
    /\ p \in AskWaits => r \in Asks
    /\ p \in VerifyWaits => r \in Verifies
    /\ p \in ConfirmWaits => r \in Confirms

PlacesOK == \A r \in Requests : PlaceOK(r, pc[r])

ControlInv == ControlOK(Waits) /\ Past /\ PlacesOK

(* What every step keeps of them. *)
LoginKept == Kept(Waits) /\ PlacesOK'

(* Every step keeps what Handlers keeps, and the places. *)
LEMMA Control ==
    ASSUME ControlInv, [Next]_vars
    PROVE  LoginKept
  <1> USE DEF ControlInv, LoginKept
  <1>a. /\ \A p \in Waits : p # "unsent" /\ p \notin Ends
        /\ \A p \in Ends : p # "unsent"
        /\ Waits \cap Ends = {}
    BY DEF Waits, Ends
  <1>p. ASSUME NEW r \in Requests, NEW p \in Waits \cup Ends, Goto(r, p), PlaceOK(r, p)
        PROVE  PlacesOK'
    <2>1. \A x \in Requests : PlaceOK(x, pc'[x])
      BY <1>p DEF Goto, ControlOK, PlacesOK
    <2> QED BY <2>1 DEF PlacesOK
  <1>f. \A r \in Requests, p \in Ends : PlaceOK(r, p)
    BY DEF PlaceOK, Ends, AskWaits, VerifyWaits, ConfirmWaits
  <1>b. ASSUME NEW r \in Requests, NEW p \in Waits, NEW q \in Waits \cup Ends,
               Step(r, p, q) \/ Resolve(r, p, q), PlaceOK(r, q)
        PROVE  LoginKept
    <2>1. Kept(Waits) BY <1>a, <1>b, StepKeeps, ResolveKeeps
    <2>2. "failed" \in Ends BY DEF Ends
    <2>3. Goto(r, q) \/ Goto(r, "failed") BY <1>b DEF Step, Resolve
    <2> QED BY <1>b, <1>f, <1>p, <2>1, <2>2, <2>3
  <1>c. ASSUME NEW r \in Requests, NEW p \in Waits \cup Ends, Arrive(r, p), PlaceOK(r, p)
        PROVE  LoginKept
    <2>1. Kept(Waits) BY <1>a, <1>c, ArriveKeeps
    <2> QED BY <1>c, <1>p, <2>1 DEF Arrive
  <1>d. ASSUME NEW r \in Requests, NEW p \in Waits, NEW q,
               Resolve(r, p, q) \/ Step(r, p, q)
        PROVE  pc[r] = p /\ PlaceOK(r, p)
    BY <1>d DEF Resolve, Step, PlacesOK
  <1> USE DEF PlaceOK, Waits, Ends, AskWaits, VerifyWaits, ConfirmWaits
  <1>1. ASSUME NEW r \in Requests, CallByPhone(r) PROVE LoginKept
    BY <1>1, <1>c DEF CallByPhone, Asks, Verifies
  <1>2. ASSUME NEW r \in Requests, CallConfirm(r) PROVE LoginKept
    BY <1>2, <1>c DEF CallConfirm
  <1>3. ASSUME NEW r \in Requests, ReadAccount(r) \/ CreateCode(r) \/ TextCode(r)
        PROVE  LoginKept
    BY <1>3, <1>b, <1>d DEF ReadAccount, CreateCode, TextCode
  <1>4. ASSUME NEW r \in Requests, FindCode(r) \/ CountAttempt(r) PROVE LoginKept
    BY <1>4, <1>b, <1>d DEF FindCode, CountAttempt
  <1>5. ASSUME NEW r \in Requests, ReadUser(r) \/ Consume(r) \/ Weigh(r) PROVE LoginKept
    BY <1>5, <1>b, <1>d DEF ReadUser, Consume, Weigh
  <1>6. ASSUME NEW r \in Requests, StoreChallenge(r) \/ TextFactor(r) PROVE LoginKept
    BY <1>6, <1>b, <1>d DEF StoreChallenge, TextFactor
  <1>7. ASSUME NEW r \in Requests, Open(r) \/ Mismatch(r) PROVE LoginKept
    BY <1>7, <1>b, <1>d DEF Open, Mismatch
  <1>8. ASSUME NEW r \in Requests, Match(r) \/ ReadConfirmed(r) \/ Issue(r) PROVE LoginKept
    BY <1>8, <1>b, <1>d DEF Match, ReadConfirmed, Issue
  <1>9. ASSUME NEW r \in Requests, Fail(r) PROVE LoginKept
    BY <1>9, <1>p, <1>f, RejectKeeps DEF Fail, Reject
  <1>10. CASE Crash
    <2>1. Kept(Waits) BY <1>10, DieKeeps DEF Crash
    <2> QED BY <1>10, <2>1 DEF Crash, Die, PlacesOK
  <1>11. CASE UNCHANGED control
    BY <1>11, NothingKeeps DEF control, PlacesOK
  <1> QED
    BY <1>1, <1>2, <1>3, <1>4, <1>5, <1>6, <1>7, <1>8, <1>9, <1>10, <1>11
       DEF Next, Handle, ChangeUser, Tick, vars
-----------------------------------------------------------------------------
(* The attempts of a code are a number. *)
LEMMA AttemptsCounted ==
    ASSUME NEW S, NEW a, NEW n \in Nat
    PROVE  n + Cardinality(S \cap {a}) \in Nat
  <1>1. S \cap {a} = {} \/ S \cap {a} = {a} OBVIOUS
  <1>2. Cardinality({}) = 0 /\ Cardinality({a}) = 1 BY FS_EmptySet, FS_Singleton
  <1> QED BY <1>1, <1>2

(* So is the count of a window. *)
LEMMA CountedType ==
    ASSUME NEW w \in [count : Nat, ends : Nat], NEW op, Window[op] \in Nat, now \in Nat
    PROVE  Counted(w, op) \in [count : Nat, ends : Nat]
  <1>1. [count |-> 1, ends |-> now + Window[op]] \in [count : Nat, ends : Nat] OBVIOUS
  <1>2. [w EXCEPT !.count = @ + 1] \in [count : Nat, ends : Nat]
    <2>1. w.count + 1 \in Nat OBVIOUS
    <2> QED BY <2>1
  <1> QED BY <1>1, <1>2 DEF Counted

(* A window is counted. *)
LEMMA WindowsType ==
    ASSUME NEW W \in [{"ask", "verify"} -> [count : Nat, ends : Nat]],
           NEW op \in {"ask", "verify"}, NEW w \in [count : Nat, ends : Nat]
    PROVE  [W EXCEPT ![op] = w] \in [{"ask", "verify"} -> [count : Nat, ends : Nat]]
  OBVIOUS

(* A request is let in, at a time. *)
LEMMA LetInType ==
    ASSUME NEW A \in [Requests -> SUBSET Nat], NEW r \in Requests, NEW t \in Nat
    PROVE  [A EXCEPT ![r] = {t}] \in [Requests -> SUBSET Nat]
  OBVIOUS

(* A code comes after the others, which stay where they are. *)
LEMMA Appended ==
    ASSUME NEW s \in Seq(Asks), NEW r \in Asks
    PROVE  /\ Append(s, r) \in Seq(Asks)
           /\ \A i \in DOMAIN s : i \in DOMAIN Append(s, r) /\ Append(s, r)[i] = s[i]
  OBVIOUS

(* The state has its type after every step. *)
LEMMA TypeStep ==
    ASSUME TypeOK, ControlInv, [Next]_vars
    PROVE  TypeOK'
  <1> USE DEF TypeOK, otp, factor, noted
  <1>c. /\ Window \in [{"ask", "verify"} -> Nat]
        /\ CodeTtl \in Nat /\ ChallengeTtl \in Nat /\ MaxTime \in Nat /\ MaxChanges \in Nat
    BY LoginAssumption
  <1>0. ControlOK(Waits)' /\ now \in Nat BY <1>c, Control DEF LoginKept, Kept
  <1>1. ASSUME NEW r \in Requests, CallByPhone(r) PROVE TypeOK'
    <2> DEFINE op == OpOf[r]
    <2>1. op \in {"ask", "verify"} BY <1>1 DEF CallByPhone
    <2>2. Counted(windows[op], op) \in [count : Nat, ends : Nat]
      <3>1. /\ windows[op] \in [count : Nat, ends : Nat] /\ Window[op] \in Nat
            /\ windows[op].count + 1 \in Nat
        BY <1>c, <2>1
      <3> QED BY <1>0, <3>1, CountedType
    <2>3. /\ windows' = windows \/ windows' = [windows EXCEPT ![op] = Counted(@, op)]
          /\ admitted' = admitted \/ admitted' = [admitted EXCEPT ![r] = {now}]
          /\ UNCHANGED <<otp, role, tokens, factor, now, held, wrong, accepted, changes>>
      BY <1>1 DEF CallByPhone
    <2>4. windows' \in [{"ask", "verify"} -> [count : Nat, ends : Nat]]
      <3>1. windows \in [{"ask", "verify"} -> [count : Nat, ends : Nat]] OBVIOUS
      <3>2. [windows EXCEPT ![op] = Counted(windows[op], op)]
               \in [{"ask", "verify"} -> [count : Nat, ends : Nat]]
        BY <2>1, <2>2, <3>1, WindowsType
      <3>3. windows' \in {windows, [windows EXCEPT ![op] = Counted(windows[op], op)]}
        BY <2>3
      <3> QED BY <3>1, <3>2, <3>3
    <2>5. admitted' \in [Requests -> SUBSET Nat]
      <3>1. admitted \in [Requests -> SUBSET Nat] OBVIOUS
      <3>2. [admitted EXCEPT ![r] = {now}] \in [Requests -> SUBSET Nat]
        BY <1>0, <3>1, LetInType
      <3>3. admitted' \in {admitted, [admitted EXCEPT ![r] = {now}]} BY <2>3
      <3> QED BY <3>1, <3>2, <3>3
    <2>6. Stored' = Stored BY <2>3 DEF Stored
    <2> QED BY <1>0, <2>3, <2>4, <2>5, <2>6
  <1>2. ASSUME NEW r \in Requests, CallConfirm(r) PROVE TypeOK'
    BY <1>0, <1>2 DEF CallConfirm, Stored
  <1>3. ASSUME NEW r \in Requests, ReadAccount(r) \/ TextCode(r) PROVE TypeOK'
    BY <1>0, <1>3 DEF ReadAccount, TextCode, Stored
  <1>4. ASSUME NEW r \in Requests, CreateCode(r) PROVE TypeOK'
    <2>1. r \in Asks
      BY <1>4 DEF CreateCode, Resolve, Step, ControlInv, PlacesOK, PlaceOK, AskWaits
    <2>2. /\ codes' \in Seq(Asks)
          /\ \A i \in DOMAIN codes : i \in DOMAIN codes' /\ codes'[i] = codes[i]
      BY <1>4, <2>1, Appended DEF CreateCode
    <2>3. Stored \subseteq Stored' BY <2>2 DEF Stored
    <2>4. codeEnds' \in [Asks -> Nat]
      <3>1. codeEnds' = [codeEnds EXCEPT ![r] = now + CodeTtl] /\ now + CodeTtl \in Nat
        BY <1>c, <1>0, <1>4 DEF CreateCode
      <3> QED BY <2>1, <3>1
    <2> QED BY <1>0, <1>4, <2>2, <2>3, <2>4 DEF CreateCode
  <1>5. ASSUME NEW r \in Requests, FindCode(r) PROVE TypeOK'
    <2>1. Newest \subseteq Stored BY DEF Newest, Unused
    <2>2. held' \in [Requests -> SUBSET Stored] BY <1>5, <2>1 DEF FindCode
    <2>3. wrong' \subseteq Requests BY <1>5 DEF FindCode
    <2>4. UNCHANGED <<otp, role, tokens, windows, factor, now, accepted, admitted, changes>>
      BY <1>5 DEF FindCode
    <2>5. Stored' = Stored BY <2>4 DEF Stored
    <2> QED BY <1>0, <2>2, <2>3, <2>4, <2>5
  <1>6. ASSUME NEW r \in Requests, CountAttempt(r) PROVE TypeOK'
    <2>1. attempts' \in [Asks -> Nat]
      <3>1. attempts' = [a \in Asks |-> attempts[a] + Cardinality(held[r] \cap {a})]
        BY <1>6 DEF CountAttempt
      <3>2. \A a \in Asks : attempts[a] + Cardinality(held[r] \cap {a}) \in Nat
        BY AttemptsCounted
      <3> QED BY <3>1, <3>2
    <2>2. UNCHANGED <<codes, codeEnds, consumed, role, tokens, windows, factor, now, held, noted>>
      BY <1>6 DEF CountAttempt
    <2>3. Stored' = Stored BY <2>2 DEF Stored
    <2> QED BY <1>0, <2>1, <2>2, <2>3
  <1>7. ASSUME NEW r \in Requests, ReadUser(r) \/ Weigh(r) \/ TextFactor(r) \/ ReadConfirmed(r)
        PROVE  TypeOK'
    BY <1>0, <1>7 DEF ReadUser, Weigh, TextFactor, ReadConfirmed, Stored
  <1>8. ASSUME NEW r \in Requests, Consume(r) PROVE TypeOK'
    BY <1>0, <1>8 DEF Consume, UseUp, Stored
  <1>9. ASSUME NEW r \in Requests, StoreChallenge(r) PROVE TypeOK'
    <2>1. r \in Verifies
      BY <1>9 DEF StoreChallenge, Step, ControlInv, PlacesOK, PlaceOK, VerifyWaits
    <2>2. challengeEnds' \in [Verifies -> Nat]
      <3>1. /\ now + ChallengeTtl \in Nat
            /\ challengeEnds' = [challengeEnds EXCEPT ![r] = now + ChallengeTtl]
        BY <1>c, <1>0, <1>9 DEF StoreChallenge
      <3> QED BY <2>1, <3>1
    <2>3. challenges' \subseteq Verifies BY <1>9, <2>1 DEF StoreChallenge, Fresh
    <2>4. UNCHANGED <<otp, role, tokens, windows, tries, now, held, noted>>
      BY <1>9 DEF StoreChallenge
    <2>5. Stored' = Stored BY <2>4 DEF Stored
    <2> QED BY <1>0, <2>2, <2>3, <2>4, <2>5
  <1>10. ASSUME NEW r \in Requests, Open(r) PROVE TypeOK'
    BY <1>0, <1>10 DEF Open, Fresh, Stored
  <1>11. ASSUME NEW r \in Requests, Mismatch(r) PROVE TypeOK'
    <2>1. ChallengeOf[r] \in Verifies
      BY <1>11, LoginAssumption
         DEF Mismatch, Step, ControlInv, PlacesOK, PlaceOK, ConfirmWaits, Confirms, Verifies
    <2>2. tries' = [tries EXCEPT ![ChallengeOf[r]] = @ + 1] BY <1>11 DEF Mismatch
    <2>3. tries' \in [Verifies -> Nat] BY <2>1, <2>2
    <2>4. /\ UNCHANGED <<otp, role, tokens, windows, challengeEnds, now, held, accepted,
                         admitted, changes>>
          /\ challenges' \subseteq Verifies /\ wrong' \subseteq Requests
      BY <1>11, <2>1 DEF Mismatch
    <2>5. Stored' = Stored BY <2>4 DEF Stored
    <2> QED BY <1>0, <2>3, <2>4, <2>5
  <1>12. ASSUME NEW r \in Requests, Match(r) PROVE TypeOK'
    BY <1>0, <1>12 DEF Match, Forget, Stored
  <1>13. ASSUME NEW r \in Requests, Issue(r) \/ Fail(r) PROVE TypeOK'
    BY <1>0, <1>13 DEF Issue, Fail, Stored
  <1>14. CASE Crash
    <2>1. windows' \in [{"ask", "verify"} -> [count : Nat, ends : Nat]]
      BY <1>14 DEF Crash, NoWindow
    <2>2. admitted' \in [Requests -> SUBSET Nat] /\ challenges' = {} BY <1>14 DEF Crash
    <2>3. UNCHANGED <<otp, role, tokens, challengeEnds, tries, now, held, wrong, accepted,
                      changes>>
      BY <1>14 DEF Crash
    <2>4. Stored' = Stored BY <2>3 DEF Stored
    <2> QED BY <1>0, <2>1, <2>2, <2>3, <2>4
  <1>15. CASE ChangeUser BY <1>c, <1>0, <1>15 DEF ChangeUser, Stored
  <1>16. CASE Tick BY <1>c, <1>0, <1>16 DEF Tick, Stored
  <1>17. CASE UNCHANGED vars BY <1>0, <1>17 DEF vars, Stored
  <1> QED
    BY <1>1, <1>2, <1>3, <1>4, <1>5, <1>6, <1>7, <1>8, <1>9, <1>10, <1>11, <1>12, <1>13,
       <1>14, <1>15, <1>16, <1>17
       DEF Next, Handle

(* What every step keeps of what was noted. *)
LEMMA Stays ==
    ASSUME TypeOK, ControlInv, [Next]_vars
    PROVE  /\ TypeOK' /\ ControlInv' /\ Onward /\ Sent \subseteq Sent'
           /\ \A q, r \in Sent : Overlap(q, r)' <=> Overlap(q, r)
           /\ \A q, r \in UnderWay : q \in Sent /\ r \in Sent /\ Overlap(q, r)
           /\ \A r \in Requests : pc[r] \in Waits => r \in UnderWay
  <1>1. LoginKept BY Control
  <1>2. ControlInv' /\ Onward /\ Sent \subseteq Sent'
    BY <1>1 DEF LoginKept, Kept, ControlInv, Onward, Sent
  <1>3. \A q, r \in Sent : Overlap(q, r)' <=> Overlap(q, r)
    BY <1>2, OverlapStays
  <1>4. \A q, r \in UnderWay : q \in Sent /\ r \in Sent /\ Overlap(q, r)
    BY UnderWayOverlap DEF ControlInv, UnderWay
  <1>5. \A r \in Requests : pc[r] \in Waits => r \in UnderWay
    BY DEF UnderWay, Sent, Ended, Ends, Waits
  <1> QED BY <1>2, <1>3, <1>4, <1>5, TypeStep
-----------------------------------------------------------------------------
(***************************************************************************)
(* Codes.                                                                  *)
(***************************************************************************)
Ready  == {"reading-user", "consuming"}
Before == {"unsent", "finding"}

(* A code is stored once, by a request that goes on to its text message;   *)
(* a verification has found a code when it goes on with it.                *)
RowsOK ==
    /\ \A i, j \in DOMAIN codes : codes[i] = codes[j] => i = j
    /\ \A i \in DOMAIN codes : pc[codes[i]] \in {"texting-code"} \cup Ends
    /\ \A r \in Requests : /\ held[r] # {} => pc[r] \notin Before
                           /\ pc[r] \in Ready => held[r] # {}
    /\ accepted \subseteq Sent

(* A code accepted is used up, and who has it in hand overlaps.            *)
Using ==
    \A q \in accepted \cap Verifies :
        /\ held[q] \subseteq consumed /\ pc[q] \notin Before \cup Ready
        /\ \A r \in Requests : pc[r] \in Ready /\ held[r] = held[q] => Overlap(q, r)

(* Of the codes stored by requests answered before, those newer than the   *)
(* code a verification has found are used up.                              *)
FoundNewest ==
    \A r \in Requests : \A i, j \in DOMAIN codes :
        codes[i] \in held[r] /\ codes[j] \in before[r] /\ i < j => codes[j] \in consumed

CodeInv == TypeOK /\ ControlInv /\ RowsOK /\ Using /\ CodeUsedOnce /\ FoundNewest

(* All that most steps do to codes. *)
CodeMove(r) ==
    \/ pc'[r] = pc[r] \/ pc'[r] \in Ends
    \/ pc[r] = "unsent" /\ pc'[r] \notin Ready
    \/ pc[r] = "reading-user" /\ pc'[r] = "consuming"
    \/ pc[r] # "texting-code" /\ pc'[r] \notin Before \cup Ready

CodesStill ==
    /\ UNCHANGED <<codes, consumed, held>>
    /\ accepted' \cap Verifies = accepted \cap Verifies /\ accepted' \subseteq Sent'
    /\ \A r \in Requests : CodeMove(r)

(* A step that matters to codes is one of three. *)
LEMMA CodeSteps ==
    ASSUME CodeInv, [Next]_vars
    PROVE  CodesStill \/ \E r \in Requests : CreateCode(r) \/ FindCode(r) \/ Consume(r)
  <1>0. pc \in [Requests -> {"unsent"} \cup Waits \cup Ends] /\ Sent \subseteq Sent'
        /\ accepted \subseteq Sent
    BY Stays DEF CodeInv, TypeOK, ControlOK, RowsOK
  <1>a. ASSUME NEW r \in Requests, NEW p \in Waits, NEW q \in Waits \cup Ends,
               Step(r, p, q) \/ Resolve(r, p, q), UNCHANGED <<codes, consumed, held, accepted>>,
               \/ q \in Ends
               \/ p = "reading-user" /\ q = "consuming"
               \/ p # "texting-code" /\ q \notin Before \cup Ready
        PROVE  CodesStill
    BY <1>0, <1>a DEF CodesStill, CodeMove, Step, Resolve, Goto, Ends
  <1>b. ASSUME NEW r \in Requests, NEW p \in (Waits \cup Ends) \ Ready, Arrive(r, p),
               UNCHANGED <<codes, consumed, held, accepted>>
        PROVE  CodesStill
    BY <1>0, <1>b DEF CodesStill, CodeMove, Arrive, Goto
  <1> USE DEF Waits, Ends, Before, Ready, otp, factor, noted
  <1>1. ASSUME NEW r \in Requests, CallByPhone(r) PROVE CodesStill
    BY <1>1, <1>b DEF CallByPhone
  <1>2. ASSUME NEW r \in Requests, CallConfirm(r) PROVE CodesStill
    BY <1>2, <1>b DEF CallConfirm
  <1>3. ASSUME NEW r \in Requests, ReadAccount(r) PROVE CodesStill
    BY <1>3, <1>a DEF ReadAccount
  <1>11. ASSUME NEW r \in Requests, TextCode(r) PROVE CodesStill
    BY <1>0, <1>11 DEF TextCode, Step, Goto, CodesStill, CodeMove
  <1>4. ASSUME NEW r \in Requests, CountAttempt(r) \/ ReadUser(r) PROVE CodesStill
    BY <1>4, <1>a DEF CountAttempt, ReadUser
  <1>5. ASSUME NEW r \in Requests, Weigh(r) \/ StoreChallenge(r) \/ TextFactor(r)
        PROVE  CodesStill
    BY <1>5, <1>a DEF Weigh, StoreChallenge, TextFactor
  <1>6. ASSUME NEW r \in Requests, Open(r) \/ Mismatch(r) \/ ReadConfirmed(r) \/ Issue(r)
        PROVE  CodesStill
    BY <1>6, <1>a DEF Open, Mismatch, ReadConfirmed, Issue
  <1>7. ASSUME NEW r \in Requests, Match(r) PROVE CodesStill
    <2>1. /\ UNCHANGED <<codes, consumed, held>> /\ accepted' = accepted \cup {r}
          /\ pc[r] = "comparing" /\ pc' = [pc EXCEPT ![r] = "reading-confirmed"]
      BY <1>7 DEF Match, Step, Goto
    <2>2. r \in Confirms
      BY <2>1 DEF CodeInv, ControlInv, PlacesOK, PlaceOK, ConfirmWaits
    <2>3. r \in Sent' BY <1>0, <2>1 DEF Sent
    <2>4. \A x \in Requests : CodeMove(x) BY <1>0, <2>1 DEF CodeMove
    <2> QED BY <1>0, <2>1, <2>2, <2>3, <2>4 DEF CodesStill, Confirms, Verifies
  <1>8. ASSUME NEW r \in Requests, Fail(r) PROVE CodesStill
    BY <1>0, <1>8 DEF Fail, Reject, Goto, CodesStill, CodeMove
  <1>9. CASE Crash
    BY <1>0, <1>9 DEF Crash, Die, CodesStill, CodeMove
  <1>10. CASE ChangeUser \/ Tick \/ UNCHANGED vars
    BY <1>0, <1>10 DEF ChangeUser, Tick, vars, control, CodesStill, CodeMove
  <1> QED
    BY <1>1, <1>2, <1>3, <1>4, <1>5, <1>6, <1>7, <1>8, <1>9, <1>10, <1>11
       DEF Next, Handle

(* Most steps disturb nothing of codes. *)
LEMMA CodesStillStep ==
    ASSUME CodeInv, [Next]_vars, CodesStill
    PROVE  CodeInv'
  <1>1. /\ TypeOK' /\ ControlInv' /\ Onward
        /\ \A q, r \in Sent : Overlap(q, r)' <=> Overlap(q, r)
    BY Stays DEF CodeInv
  <1>2. /\ codes' = codes /\ consumed' = consumed /\ held' = held
        /\ accepted' \cap Verifies = accepted \cap Verifies /\ accepted' \subseteq Sent'
        /\ accepted \subseteq Sent
    BY DEF CodesStill, CodeInv, RowsOK
  <1>3. ASSUME NEW r \in Requests
        PROVE  /\ pc[r] \in {"texting-code"} \cup Ends => pc'[r] \in {"texting-code"} \cup Ends
               /\ pc'[r] \in Ready => pc[r] \in Ready /\ r \in Sent
               /\ pc'[r] \in Before => pc[r] \in Before
    <2>1. r \in Ended => pc'[r] = pc[r] BY <1>1 DEF Onward
    <2> QED BY <2>1 DEF CodesStill, CodeMove, Ready, Before, Ends, Sent, Ended
  <1>4. RowsOK'
    <2>1. \A i \in DOMAIN codes : codes[i] \in Requests
      BY DEF CodeInv, TypeOK, Asks
    <2>2. \A i \in DOMAIN codes : pc'[codes[i]] \in {"texting-code"} \cup Ends
      BY <1>3, <2>1 DEF CodeInv, RowsOK
    <2> QED BY <1>2, <1>3, <2>2 DEF CodeInv, RowsOK
  <1>5. Using'
    <2> SUFFICES ASSUME NEW q \in accepted \cap Verifies
                 PROVE  /\ held[q] \subseteq consumed /\ pc'[q] \notin Before \cup Ready
                        /\ \A r \in Requests :
                              pc'[r] \in Ready /\ held[r] = held[q] => Overlap(q, r)'
      BY <1>2 DEF Using
    <2>1. held[q] \subseteq consumed /\ pc[q] \notin Before \cup Ready /\ q \in Requests
      BY DEF CodeInv, Using, Verifies
    <2>2. ASSUME NEW r \in Requests, pc'[r] \in Ready, held[r] = held[q] PROVE Overlap(q, r)'
      BY <1>1, <1>2, <1>3, <2>2 DEF CodeInv, Using
    <2> QED BY <1>3, <2>1, <2>2
  <1>6. CodeUsedOnce'
    BY <1>1, <1>2 DEF CodeInv, CodeUsedOnce
  <1>7. FoundNewest'
    <2> SUFFICES ASSUME NEW r \in Requests, NEW i \in DOMAIN codes, NEW j \in DOMAIN codes,
                        codes[i] \in held[r], codes[j] \in before'[r], i < j
                 PROVE  codes[j] \in consumed
      BY <1>2 DEF FoundNewest
    <2>1. r \in Sent BY DEF CodeInv, RowsOK, Before, Sent
    <2>2. before'[r] = before[r] BY <1>1, <2>1 DEF Onward
    <2> QED BY <2>2 DEF CodeInv, FoundNewest
  <1> QED BY <1>1, <1>4, <1>5, <1>6, <1>7 DEF CodeInv

(* A code that is stored is a new one, at the end, and was nobody's.       *)
LEMMA CreateCodeStep ==
    ASSUME CodeInv, [Next]_vars, NEW r \in Requests, CreateCode(r)
    PROVE  CodeInv'
  <1>1. /\ TypeOK' /\ ControlInv' /\ Onward /\ Sent \subseteq Sent'
        /\ \A x, y \in Sent : Overlap(x, y)' <=> Overlap(x, y)
    BY Stays DEF CodeInv
  <1>2. /\ codes' = Append(codes, r) /\ codes \in Seq(Asks)
        /\ UNCHANGED <<consumed, held, accepted>> /\ accepted \subseteq Sent
        /\ pc[r] = "creating" /\ pc'[r] \in {"texting-code", "failed"}
        /\ \A x \in Requests \ {r} : pc'[x] = pc[x]
    BY DEF CreateCode, CodeInv, TypeOK, ControlOK, RowsOK, Resolve, Step, Goto, noted
  <1>3. /\ DOMAIN codes = 1 .. Len(codes) /\ DOMAIN codes' = 1 .. Len(codes) + 1
        /\ Len(codes) \in Nat /\ codes'[Len(codes) + 1] = r
        /\ \A i \in DOMAIN codes : codes'[i] = codes[i] /\ codes[i] \in Requests
    BY <1>2 DEF Asks
  <1>4. \A i \in DOMAIN codes : codes[i] # r
    BY <1>2 DEF CodeInv, RowsOK, Ends
  <1>5. RowsOK'
    <2>1. \A i \in DOMAIN codes' : pc'[codes'[i]] \in {"texting-code"} \cup Ends
      BY <1>2, <1>3, <1>4 DEF CodeInv, RowsOK, Ends
    <2>2. \A i, j \in DOMAIN codes' : codes'[i] = codes'[j] => i = j
      BY <1>3, <1>4 DEF CodeInv, RowsOK
    <2>3. \A x \in Requests : /\ held[x] # {} => pc'[x] \notin Before
                              /\ pc'[x] \in Ready => held[x] # {}
      BY <1>2 DEF CodeInv, RowsOK, Before, Ready
    <2> QED BY <1>1, <1>2, <2>1, <2>2, <2>3 DEF RowsOK
  <1>6. Using'
    <2> SUFFICES ASSUME NEW q \in accepted \cap Verifies
                 PROVE  /\ held[q] \subseteq consumed /\ pc'[q] \notin Before \cup Ready
                        /\ \A x \in Requests :
                              pc'[x] \in Ready /\ held[x] = held[q] => Overlap(q, x)'
      BY <1>2 DEF Using
    <2>1. q \in Requests /\ pc'[q] \notin Before \cup Ready
      BY <1>2 DEF CodeInv, Using, Verifies, Before, Ready
    <2>2. ASSUME NEW x \in Requests, pc'[x] \in Ready, held[x] = held[q]
          PROVE  Overlap(q, x)'
      <3>1. pc[x] \in Ready /\ x \in Sent BY <1>2, <2>2 DEF Ready, Sent
      <3> QED BY <1>1, <1>2, <2>2, <3>1 DEF CodeInv, Using
    <2> QED BY <2>1, <2>2 DEF CodeInv, Using
  <1>7. CodeUsedOnce'
    BY <1>1, <1>2 DEF CodeInv, CodeUsedOnce
  <1>8. FoundNewest'
    <2> SUFFICES ASSUME NEW x \in Requests, NEW i \in DOMAIN codes', NEW j \in DOMAIN codes',
                        codes'[i] \in held[x], codes'[j] \in before'[x], i < j
                 PROVE  codes'[j] \in consumed
      BY <1>2 DEF FoundNewest
    <2>1. x \in Sent BY <1>2 DEF CodeInv, RowsOK, Before, Sent
    <2>2. before'[x] = before[x] BY <1>1, <2>1 DEF Onward
    <2>3. codes'[j] # r
      BY <1>2, <2>2 DEF CodeInv, ControlInv, Past, Ended, Ends
    <2>4. j \in DOMAIN codes /\ i \in DOMAIN codes BY <1>3, <2>3
    <2> QED BY <1>3, <2>2, <2>4 DEF CodeInv, FoundNewest
  <1> QED BY <1>1, <1>5, <1>6, <1>7, <1>8 DEF CodeInv

(* The position of a code is where it is. *)
LEMMA PositionIs ==
    ASSUME RowsOK, NEW i \in DOMAIN codes
    PROVE  Position(codes[i]) = i
  BY DEF RowsOK, Position

(* The codes after the newest of those not used are used up. *)
LEMMA NewestIsLast ==
    ASSUME TypeOK, RowsOK, NEW i \in DOMAIN codes, NEW j \in DOMAIN codes,
           codes[i] \in Newest, i < j
    PROVE  codes[j] \in consumed
  <1>1. Position(codes[i]) = i /\ Position(codes[j]) = j BY PositionIs
  <1>2. i \in Nat /\ j \in Nat
    <2>1. codes \in Seq(Asks) BY DEF TypeOK
    <2> QED BY <2>1
  <1>3. codes[j] \in Unused => j <= i BY <1>1 DEF Newest
  <1> QED BY <1>2, <1>3 DEF Unused, Stored

(* A code that is found is not used up, and the newest of these.           *)
LEMMA FindCodeStep ==
    ASSUME CodeInv, [Next]_vars, NEW r \in Requests, FindCode(r)
    PROVE  CodeInv'
  <1>1. /\ TypeOK' /\ ControlInv' /\ Onward /\ Sent \subseteq Sent'
        /\ \A x, y \in Sent : Overlap(x, y)' <=> Overlap(x, y)
    BY Stays DEF CodeInv
  <1>2. /\ UNCHANGED <<codes, consumed, accepted>> /\ accepted \subseteq Sent
        /\ pc[r] = "finding" /\ pc'[r] \in {"reading-user", "counting", "refused"}
        /\ pc'[r] \in Ready => Newest # {}
        /\ \A x \in Requests \ {r} : pc'[x] = pc[x]
        /\ held'[r] = Newest /\ \A x \in Requests \ {r} : held'[x] = held[x]
    BY DEF FindCode, CodeInv, TypeOK, ControlOK, RowsOK, Step, Goto, otp, Ready
  <1>3. r \notin accepted \cap Verifies
    BY <1>2 DEF CodeInv, Using, Before
  <1>4. RowsOK'
    <2>0. \A i \in DOMAIN codes : codes[i] \in Requests
      BY DEF CodeInv, TypeOK, Asks
    <2>1. \A i \in DOMAIN codes : codes[i] \in Requests /\ codes[i] # r
      BY <1>2, <2>0 DEF CodeInv, RowsOK, Ends
    <2>2. \A i \in DOMAIN codes : pc'[codes[i]] \in {"texting-code"} \cup Ends
      BY <1>2, <2>1 DEF CodeInv, RowsOK
    <2>3. \A x \in Requests : /\ held'[x] # {} => pc'[x] \notin Before
                              /\ pc'[x] \in Ready => held'[x] # {}
      BY <1>2 DEF CodeInv, RowsOK, Before
    <2> QED BY <1>1, <1>2, <2>2, <2>3 DEF CodeInv, RowsOK
  <1>5. Using'
    <2> SUFFICES ASSUME NEW q \in accepted \cap Verifies
                 PROVE  /\ held'[q] \subseteq consumed /\ pc'[q] \notin Before \cup Ready
                        /\ \A x \in Requests :
                              pc'[x] \in Ready /\ held'[x] = held'[q] => Overlap(q, x)'
      BY <1>2 DEF Using
    <2>1. /\ q \in Requests /\ q # r /\ held'[q] = held[q] /\ held[q] \subseteq consumed
          /\ pc'[q] \notin Before \cup Ready
      BY <1>2, <1>3 DEF CodeInv, Using, Verifies
    <2>2. ASSUME NEW x \in Requests, pc'[x] \in Ready, held'[x] = held[q]
          PROVE  Overlap(q, x)'
      <3>1. x # r BY <1>2, <2>1, <2>2 DEF Newest, Unused
      <3>2. pc[x] \in Ready /\ x \in Sent BY <1>2, <2>2, <3>1 DEF Ready, Sent
      <3> QED BY <1>1, <1>2, <2>2, <3>1, <3>2 DEF CodeInv, Using
    <2> QED BY <2>1, <2>2
  <1>6. CodeUsedOnce'
    BY <1>1, <1>2, <1>3 DEF CodeInv, CodeUsedOnce, Verifies
  <1>7. FoundNewest'
    <2> SUFFICES ASSUME NEW x \in Requests, NEW i \in DOMAIN codes, NEW j \in DOMAIN codes,
                        codes[i] \in held'[x], codes[j] \in before'[x], i < j
                 PROVE  codes[j] \in consumed
      BY <1>2 DEF FoundNewest
    <2>1. CASE x = r
      BY <1>2, <2>1, NewestIsLast DEF CodeInv
    <2>2. CASE x # r
      <3>1. x \in Sent BY <1>2, <2>2 DEF CodeInv, RowsOK, Before, Sent
      <3>2. before'[x] = before[x] BY <1>1, <3>1 DEF Onward
      <3> QED BY <1>2, <2>2, <3>2 DEF CodeInv, FoundNewest
    <2> QED BY <2>1, <2>2
  <1> QED BY <1>1, <1>4, <1>5, <1>6, <1>7 DEF CodeInv

(* A verification that is accepted overlaps those with the same code.      *)
LEMMA ConsumeStep ==
    ASSUME CodeInv, [Next]_vars, NEW r \in Requests, Consume(r)
    PROVE  CodeInv'
  <1>1. /\ TypeOK' /\ ControlInv' /\ Onward /\ Sent \subseteq Sent'
        /\ \A x, y \in Sent : Overlap(x, y)' <=> Overlap(x, y)
        /\ \A x, y \in UnderWay : x \in Sent /\ y \in Sent /\ Overlap(x, y)
        /\ \A x \in Requests : pc[x] \in Waits => x \in UnderWay
    BY Stays DEF CodeInv
  <1>2. /\ UNCHANGED <<codes, held>> /\ consumed' = consumed \cup held[r]
        /\ accepted' = accepted \cup {r} /\ accepted \subseteq Sent
        /\ pc[r] = "consuming" /\ pc'[r] \in {"weighing", "failed"}
        /\ \A x \in Requests \ {r} : pc'[x] = pc[x]
    BY DEF Consume, UseUp, CodeInv, TypeOK, ControlOK, RowsOK, Resolve, Step, Goto, otp, noted
  <1>3. r \in UnderWay /\ r \in Sent
    <2>1. r \in UnderWay BY <1>1, <1>2 DEF Waits
    <2> QED BY <2>1 DEF UnderWay
  <1>4. RowsOK'
    <2>0. \A i \in DOMAIN codes : codes[i] \in Requests
      BY DEF CodeInv, TypeOK, Asks
    <2>1. \A i \in DOMAIN codes : codes[i] \in Requests /\ codes[i] # r
      BY <1>2, <2>0 DEF CodeInv, RowsOK, Ends
    <2>2. \A i \in DOMAIN codes : pc'[codes[i]] \in {"texting-code"} \cup Ends
      BY <1>2, <2>1 DEF CodeInv, RowsOK
    <2>3. \A x \in Requests : /\ held[x] # {} => pc'[x] \notin Before
                              /\ pc'[x] \in Ready => held[x] # {}
      BY <1>2 DEF CodeInv, RowsOK, Before, Ready
    <2> QED BY <1>1, <1>2, <1>3, <2>2, <2>3 DEF CodeInv, RowsOK
  <1>5. ASSUME NEW x \in Requests, pc'[x] \in Ready
        PROVE  pc[x] \in Ready /\ x # r /\ x \in UnderWay /\ x \in Sent
    <2>1. pc[x] \in Ready /\ x # r BY <1>2, <1>5 DEF Ready
    <2>2. x \in UnderWay BY <1>1, <2>1 DEF Ready, Waits
    <2> QED BY <2>1, <2>2 DEF UnderWay
  <1>6. Using'
    <2> SUFFICES ASSUME NEW q \in (accepted \cup {r}) \cap Verifies
                 PROVE  /\ held[q] \subseteq consumed' /\ pc'[q] \notin Before \cup Ready
                        /\ \A x \in Requests :
                              pc'[x] \in Ready /\ held[x] = held[q] => Overlap(q, x)'
      BY <1>2 DEF Using
    <2>1. q \in Requests /\ q \in Sent /\ held[q] \subseteq consumed'
      BY <1>2, <1>3 DEF CodeInv, Using, Verifies
    <2>2. pc'[q] \notin Before \cup Ready
      BY <1>2, <2>1 DEF CodeInv, Using, Before, Ready
    <2>3. ASSUME NEW x \in Requests, pc'[x] \in Ready, held[x] = held[q]
          PROVE  Overlap(q, x)'
      <3>1. Overlap(q, x) BY <1>1, <1>3, <1>5, <2>3 DEF CodeInv, Using
      <3> QED BY <1>1, <1>5, <2>1, <2>3, <3>1
    <2> QED BY <2>1, <2>2, <2>3
  <1>7. CodeUsedOnce'
    <2> SUFFICES ASSUME NEW x \in (accepted \cup {r}) \cap Verifies,
                        NEW y \in (accepted \cup {r}) \cap Verifies,
                        x # y, held[x] = held[y]
                 PROVE  Overlap(x, y)'
      BY <1>2 DEF CodeUsedOnce
    <2>1. x \in Sent /\ y \in Sent BY <1>2, <1>3
    <2>2. pc[r] \in Ready /\ r \in Requests BY <1>2 DEF Ready
    <2>3. CASE x = r
      <3>1. Overlap(y, x) BY <2>2, <2>3 DEF CodeInv, Using
      <3> QED BY <1>1, <2>1, <3>1 DEF Overlap
    <2>4. CASE y = r
      <3>1. Overlap(x, y) BY <2>2, <2>4 DEF CodeInv, Using
      <3> QED BY <1>1, <2>1, <3>1
    <2>5. CASE x # r /\ y # r
      <3>1. Overlap(x, y) BY <2>5 DEF CodeInv, CodeUsedOnce
      <3> QED BY <1>1, <2>1, <3>1
    <2> QED BY <2>3, <2>4, <2>5
  <1>8. FoundNewest'
    <2> SUFFICES ASSUME NEW x \in Requests, NEW i \in DOMAIN codes, NEW j \in DOMAIN codes,
                        codes[i] \in held[x], codes[j] \in before'[x], i < j
                 PROVE  codes[j] \in consumed
      BY <1>2 DEF FoundNewest
    <2>1. x \in Sent BY DEF CodeInv, RowsOK, Before, Sent
    <2>2. before'[x] = before[x] BY <1>1, <2>1 DEF Onward
    <2> QED BY <2>2 DEF CodeInv, FoundNewest
  <1> QED BY <1>1, <1>4, <1>6, <1>7, <1>8 DEF CodeInv

(* At first the state has its type. *)
LEMMA StartsTyped == Init => TypeOK
  <1> SUFFICES ASSUME Init PROVE TypeOK OBVIOUS
  <1>1. ControlOK(Waits) BY ControlStarts DEF Init
  <1>2. NoWindow \in [count : Nat, ends : Nat] BY DEF NoWindow
  <1>3. Stored = {} BY DEF Init, Stored
  <1> QED BY <1>1, <1>2, <1>3, LoginAssumption DEF Init, TypeOK

(* The codes' part of the invariant. *)
LEMMA CodeInvariant == Spec => []CodeInv
  <1>1. Init => CodeInv
    <2> SUFFICES ASSUME Init PROVE CodeInv OBVIOUS
    <2>1. ControlOK(Waits) /\ Past BY ControlStarts DEF Init
    <2>2. \A r \in Requests : pc[r] = "unsent" BY DEF Init, ControlInit
    <2>3. PlacesOK BY <2>2 DEF PlacesOK, PlaceOK, AskWaits, VerifyWaits, ConfirmWaits
    <2>6. TypeOK BY StartsTyped
    <2>7. RowsOK /\ Using /\ CodeUsedOnce /\ FoundNewest
      BY <2>2 DEF Init, RowsOK, Using, CodeUsedOnce, FoundNewest, Ready
    <2> QED BY <2>1, <2>3, <2>6, <2>7 DEF CodeInv, ControlInv
  <1>2. CodeInv /\ [Next]_vars => CodeInv'
    BY CodeSteps, CodesStillStep, CreateCodeStep, FindCodeStep, ConsumeStep
  <1> QED BY <1>1, <1>2, PTL DEF Spec

(* What the handlers of a login keep in the rows of OtpCode, in the maps   *)
(* of AuthSecurityService and at their awaits always has its type.         *)
THEOREM LoginTyped == Spec => []TypeOK
  <1>1. CodeInv => TypeOK BY DEF CodeInv
  <1> QED BY <1>1, CodeInvariant, PTL

(* An older code is good again only once the newer ones are used: findFirst *)
(* of verifyOtpByFlow orders by createdAt and leaves out the consumed.      *)
THEOREM NewestJudges == Spec => []JudgedByNewest
  <1>1. CodeInv => JudgedByNewest
    <2> SUFFICES ASSUME CodeInv, NEW r \in accepted \cap Verifies, NEW a \in held[r],
                        NEW b \in before[r] \cap Stored, Position(b) > Position(a)
                 PROVE  b \in consumed
      BY DEF JudgedByNewest
    <2>1. r \in Requests /\ a \in Stored BY DEF CodeInv, TypeOK, Verifies
    <2>2. PICK i \in DOMAIN codes : codes[i] = a BY <2>1 DEF Stored
    <2>3. PICK j \in DOMAIN codes : codes[j] = b BY DEF Stored
    <2>4. i < j BY <2>2, <2>3, PositionIs DEF CodeInv, TypeOK
    <2> QED BY <2>1, <2>2, <2>3, <2>4 DEF CodeInv, FoundNewest
  <1> QED BY <1>1, CodeInvariant, PTL
-----------------------------------------------------------------------------
(***************************************************************************)
(* Challenges.                                                             *)
(***************************************************************************)
(* A wrong confirmation put the challenge of q back, or may yet.           *)
PutBack(q) ==
    \E w \in wrong \cap Confirms : ChallengeOf[w] = ChallengeOf[q] /\ Overlap(w, q)

(* A challenge that is confirmed was issued in an answer.                  *)
SentOK ==
    /\ \A r \in Confirms \cap Sent : pc[ChallengeOf[r]] = "done"
    /\ wrong \subseteq Sent /\ accepted \subseteq Sent

(* A challenge that was passed is gone or was put back, and who has it in  *)
(* hand overlaps.                                                          *)
Passing ==
    \A q \in accepted \cap Confirms :
        /\ pc[q] \notin {"opening", "comparing"}
        /\ ChallengeOf[q] \in challenges => PutBack(q)
        /\ \A r \in Requests : pc[r] = "comparing" /\ ChallengeOf[r] = ChallengeOf[q] =>
              Overlap(q, r) \/ PutBack(q)

FactorInv == TypeOK /\ ControlInv /\ SentOK /\ Passing /\ ChallengePassedOnce

(* All that most steps do to challenges. *)
FactorStill ==
    /\ challenges' \subseteq challenges
    /\ wrong \subseteq wrong' /\ wrong' \subseteq Sent'
    /\ accepted' \cap Confirms = accepted \cap Confirms /\ accepted' \subseteq Sent'
    /\ \A r \in Requests : /\ pc'[r] = "comparing" => pc[r] = "comparing"
                           /\ pc'[r] = "opening" => pc[r] \in {"unsent", "opening"}
    /\ \A r \in Confirms \cap Sent' : pc[ChallengeOf[r]] = "done"

(* A step that matters to challenges is one of four. *)
LEMMA FactorSteps ==
    ASSUME FactorInv, [Next]_vars
    PROVE  FactorStill \/ \E r \in Requests :
              StoreChallenge(r) \/ Open(r) \/ Mismatch(r) \/ Match(r)
  <1>0. /\ pc \in [Requests -> {"unsent"} \cup Waits \cup Ends] /\ Sent \subseteq Sent'
        /\ accepted \subseteq Sent /\ wrong \subseteq Sent /\ SentOK /\ Confirms \subseteq Requests
    BY Stays DEF FactorInv, TypeOK, ControlOK, SentOK, Confirms
  <1>a. ASSUME NEW r \in Requests, NEW p \in Waits,
               NEW q \in (Waits \cup Ends) \ {"opening", "comparing"},
               Step(r, p, q) \/ Resolve(r, p, q), UNCHANGED <<challenges, wrong, accepted>>
        PROVE  FactorStill
    <2>1. /\ \A x \in Requests : /\ pc'[x] = "comparing" => pc[x] = "comparing"
                                 /\ pc'[x] = "opening" => pc[x] \in {"unsent", "opening"}
          /\ Sent' = Sent
      BY <1>0, <1>a DEF Step, Resolve, Goto, Sent, Waits, Ends
    <2> QED BY <1>0, <1>a, <2>1 DEF FactorStill, SentOK
  <1>b. ASSUME NEW r \in Requests, NEW p \in (Waits \cup Ends) \ {"comparing"}, Arrive(r, p),
               UNCHANGED <<challenges, wrong, accepted>>,
               r \in Confirms => pc[ChallengeOf[r]] = "done"
        PROVE  FactorStill
    <2>1. /\ \A x \in Requests : /\ pc'[x] = "comparing" => pc[x] = "comparing"
                                 /\ pc'[x] = "opening" => pc[x] \in {"unsent", "opening"}
          /\ Sent' \subseteq Sent \cup {r}
      BY <1>0, <1>b DEF Arrive, Goto, Sent
    <2> QED BY <1>0, <1>b, <2>1 DEF FactorStill, SentOK
  <1>c. ASSUME UNCHANGED <<wrong, accepted>>, challenges' \subseteq challenges,
               \A r \in Requests : pc'[r] = pc[r] \/ (pc[r] # "unsent" /\ pc'[r] \in Ends)
        PROVE  FactorStill
    <2>1. /\ \A x \in Requests : /\ pc'[x] = "comparing" => pc[x] = "comparing"
                                 /\ pc'[x] = "opening" => pc[x] \in {"unsent", "opening"}
          /\ Sent' \subseteq Sent
      BY <1>c DEF Sent, Ends
    <2> QED BY <1>0, <1>c, <2>1 DEF FactorStill, SentOK
  <1> USE DEF Waits, Ends, otp, factor, noted
  <1>1. ASSUME NEW r \in Requests, CallByPhone(r) PROVE FactorStill
    BY <1>1, <1>b DEF CallByPhone, Confirms
  <1>2. ASSUME NEW r \in Requests, CallConfirm(r) PROVE FactorStill
    BY <1>2, <1>b DEF CallConfirm
  <1>3. ASSUME NEW r \in Requests, ReadAccount(r) \/ CreateCode(r) \/ TextCode(r)
        PROVE  FactorStill
    BY <1>3, <1>a DEF ReadAccount, CreateCode, TextCode
  <1>4. ASSUME NEW r \in Requests, CountAttempt(r) \/ ReadUser(r) \/ Weigh(r)
        PROVE  FactorStill
    BY <1>4, <1>a DEF CountAttempt, ReadUser, Weigh
  <1>5. ASSUME NEW r \in Requests, TextFactor(r) \/ ReadConfirmed(r) \/ Issue(r)
        PROVE  FactorStill
    BY <1>5, <1>a DEF TextFactor, ReadConfirmed, Issue
  <1>6. ASSUME NEW r \in Requests, FindCode(r) PROVE FactorStill
    <2>1. /\ UNCHANGED <<challenges, accepted>> /\ wrong \subseteq wrong'
          /\ wrong' \subseteq wrong \cup {r}
          /\ pc[r] = "finding" /\ pc'[r] \in {"reading-user", "counting", "refused"}
          /\ \A x \in Requests \ {r} : pc'[x] = pc[x]
      BY <1>0, <1>6 DEF FindCode, Step, Goto
    <2>2. Sent' = Sent /\ r \in Sent BY <1>0, <2>1 DEF Sent
    <2> QED BY <1>0, <2>1, <2>2 DEF FactorStill, SentOK
  <1>7. ASSUME NEW r \in Requests, Consume(r) PROVE FactorStill
    <2>1. /\ UNCHANGED <<challenges, wrong>> /\ accepted' = accepted \cup {r}
          /\ pc[r] = "consuming" /\ pc'[r] \in {"weighing", "failed"}
          /\ \A x \in Requests \ {r} : pc'[x] = pc[x]
      BY <1>0, <1>7 DEF Consume, Resolve, Step, Goto
    <2>2. r \in Verifies
      BY <2>1 DEF FactorInv, ControlInv, PlacesOK, PlaceOK, VerifyWaits
    <2>3. Sent' = Sent /\ r \in Sent BY <1>0, <2>1 DEF Sent
    <2> QED BY <1>0, <2>1, <2>2, <2>3 DEF FactorStill, SentOK, Confirms, Verifies
  <1>8. ASSUME NEW r \in Requests, Fail(r) PROVE FactorStill
    BY <1>0, <1>8, <1>c DEF Fail, Reject, Goto, UnderWay, Sent
  <1>9. CASE Crash
    BY <1>0, <1>9, <1>c DEF Crash, Die, UnderWay, Sent
  <1>10. CASE ChangeUser \/ Tick \/ UNCHANGED vars
    BY <1>0, <1>10, <1>c DEF ChangeUser, Tick, vars, control
  <1> QED
    BY <1>1, <1>2, <1>3, <1>4, <1>5, <1>6, <1>7, <1>8, <1>9, <1>10 DEF Next, Handle

(* What every step keeps of challenges. *)
LEMMA FactorKept ==
    ASSUME FactorInv, [Next]_vars, wrong \subseteq wrong'
    PROVE  /\ TypeOK' /\ ControlInv' /\ Sent \subseteq Sent'
           /\ \A v \in Requests : pc[v] = "done" => pc'[v] = "done"
           /\ \A q, r \in Sent : Overlap(q, r)' <=> Overlap(q, r)
           /\ \A q \in Sent : PutBack(q) => PutBack(q)'
           /\ \A q, r \in UnderWay : q \in Sent /\ r \in Sent /\ Overlap(q, r)
           /\ \A r \in Requests : pc[r] \in Waits => r \in UnderWay
  <1>1. /\ TypeOK' /\ ControlInv' /\ Sent \subseteq Sent' /\ Onward
        /\ \A q, r \in Sent : Overlap(q, r)' <=> Overlap(q, r)
        /\ \A q, r \in UnderWay : q \in Sent /\ r \in Sent /\ Overlap(q, r)
        /\ \A r \in Requests : pc[r] \in Waits => r \in UnderWay
    BY Stays DEF FactorInv
  <1>2. \A v \in Requests : pc[v] = "done" => pc'[v] = "done"
    BY <1>1 DEF Onward, Ended, Ends
  <1>3. wrong \subseteq Sent BY DEF FactorInv, SentOK
  <1>4. ASSUME NEW q \in Sent, PutBack(q) PROVE PutBack(q)'
    BY <1>1, <1>3, <1>4 DEF PutBack
  <1> QED BY <1>1, <1>2, <1>4

(* Passing once, in terms of what was put back. *)
LEMMA PassedOnceIs ==
    ChallengePassedOnce <=>
        \A q, r \in accepted \cap Confirms :
            q # r /\ ChallengeOf[q] = ChallengeOf[r] =>
                Overlap(q, r) \/ PutBack(q) \/ PutBack(r)
  BY DEF ChallengePassedOnce, PutBack

(* Most steps disturb nothing of challenges. *)
LEMMA FactorStillStep ==
    ASSUME FactorInv, [Next]_vars, FactorStill
    PROVE  FactorInv'
  <1>1. /\ TypeOK' /\ ControlInv' /\ Sent \subseteq Sent'
        /\ \A v \in Requests : pc[v] = "done" => pc'[v] = "done"
        /\ \A q, r \in Sent : Overlap(q, r)' <=> Overlap(q, r)
        /\ \A q \in Sent : PutBack(q) => PutBack(q)'
        /\ \A r \in Requests : pc[r] \in Waits => r \in UnderWay
    BY FactorKept DEF FactorStill
  <1>2. /\ challenges' \subseteq challenges /\ accepted \subseteq Sent
        /\ accepted' \cap Confirms = accepted \cap Confirms /\ accepted' \subseteq Sent'
        /\ \A r \in Requests : pc'[r] = "comparing" => pc[r] = "comparing" /\ r \in Sent
        /\ \A r \in Confirms : ChallengeOf[r] \in Requests
    BY LoginAssumption DEF FactorStill, FactorInv, SentOK, Sent, Confirms
  <1>3. SentOK'
    BY <1>1, <1>2 DEF FactorStill, SentOK
  <1>4. Passing'
    <2> SUFFICES ASSUME NEW q \in accepted \cap Confirms
                 PROVE  /\ pc'[q] \notin {"opening", "comparing"}
                        /\ ChallengeOf[q] \in challenges' => PutBack(q)'
                        /\ \A r \in Requests :
                              pc'[r] = "comparing" /\ ChallengeOf[r] = ChallengeOf[q] =>
                                  Overlap(q, r)' \/ PutBack(q)'
      BY <1>2 DEF Passing
    <2>1. q \in Requests /\ q \in Sent BY <1>2 DEF Confirms
    <2>2. ASSUME NEW r \in Requests, pc'[r] = "comparing", ChallengeOf[r] = ChallengeOf[q]
          PROVE  Overlap(q, r)' \/ PutBack(q)'
      <3>1. Overlap(q, r) \/ PutBack(q) BY <1>2, <2>2 DEF FactorInv, Passing
      <3> QED BY <1>1, <1>2, <2>1, <2>2, <3>1
    <2>3. /\ pc[q] \notin {"unsent", "opening", "comparing"}
          /\ ChallengeOf[q] \in challenges => PutBack(q)
      BY <2>1 DEF FactorInv, Passing, Sent
    <2>4. pc'[q] \notin {"opening", "comparing"} BY <2>1, <2>3 DEF FactorStill
    <2> QED BY <1>1, <1>2, <2>1, <2>2, <2>3, <2>4
  <1>5. ChallengePassedOnce'
    <2> SUFFICES ASSUME NEW q \in accepted \cap Confirms, NEW r \in accepted \cap Confirms,
                        q # r, ChallengeOf[q] = ChallengeOf[r]
                 PROVE  Overlap(q, r)' \/ PutBack(q)' \/ PutBack(r)'
      BY <1>2 DEF ChallengePassedOnce, PutBack
    <2>1. Overlap(q, r) \/ PutBack(q) \/ PutBack(r) BY PassedOnceIs DEF FactorInv
    <2> QED BY <1>1, <1>2, <2>1
  <1> QED BY <1>1, <1>3, <1>4, <1>5 DEF FactorInv

(* A challenge that is stored has been sent to nobody yet. *)
LEMMA StoreChallengeStep ==
    ASSUME FactorInv, [Next]_vars, NEW v \in Requests, StoreChallenge(v)
    PROVE  FactorInv'
  <1>1. /\ UNCHANGED <<wrong, accepted>> /\ challenges' \subseteq challenges \cup {v}
        /\ pc[v] = "hashing" /\ pc'[v] = "texting-factor"
        /\ \A x \in Requests \ {v} : pc'[x] = pc[x]
    BY DEF StoreChallenge, Fresh, FactorInv, TypeOK, ControlOK, Step, Goto, noted
  <1>2. /\ TypeOK' /\ ControlInv' /\ Sent \subseteq Sent'
        /\ \A x \in Requests : pc[x] = "done" => pc'[x] = "done"
        /\ \A q, r \in Sent : Overlap(q, r)' <=> Overlap(q, r)
        /\ \A q \in Sent : PutBack(q) => PutBack(q)'
    BY <1>1, FactorKept
  <1>3. /\ accepted \subseteq Sent /\ Sent' = Sent
        /\ \A r \in Confirms : ChallengeOf[r] \in Requests
    BY <1>1, LoginAssumption DEF FactorInv, SentOK, Sent, Confirms
  <1>4. SentOK'
    BY <1>1, <1>2, <1>3 DEF FactorInv, SentOK
  <1>5. Passing'
    <2> SUFFICES ASSUME NEW q \in accepted \cap Confirms
                 PROVE  /\ pc'[q] \notin {"opening", "comparing"}
                        /\ ChallengeOf[q] \in challenges' => PutBack(q)'
                        /\ \A r \in Requests :
                              pc'[r] = "comparing" /\ ChallengeOf[r] = ChallengeOf[q] =>
                                  Overlap(q, r)' \/ PutBack(q)'
      BY <1>1 DEF Passing
    <2>1. q \in Requests /\ q \in Sent BY <1>3 DEF Confirms
    <2>2. ChallengeOf[q] # v BY <1>1, <2>1 DEF FactorInv, SentOK
    <2>3. ASSUME NEW r \in Requests, pc'[r] = "comparing", ChallengeOf[r] = ChallengeOf[q]
          PROVE  Overlap(q, r)' \/ PutBack(q)'
      <3>1. pc[r] = "comparing" /\ r \in Sent BY <1>1, <2>3 DEF Sent
      <3>2. Overlap(q, r) \/ PutBack(q) BY <2>3, <3>1 DEF FactorInv, Passing
      <3> QED BY <1>2, <2>1, <3>1, <3>2
    <2> QED BY <1>1, <1>2, <2>1, <2>2, <2>3 DEF FactorInv, Passing
  <1>6. ChallengePassedOnce'
    <2> SUFFICES ASSUME NEW q \in accepted \cap Confirms, NEW r \in accepted \cap Confirms,
                        q # r, ChallengeOf[q] = ChallengeOf[r]
                 PROVE  Overlap(q, r)' \/ PutBack(q)' \/ PutBack(r)'
      BY <1>1 DEF ChallengePassedOnce, PutBack
    <2>1. Overlap(q, r) \/ PutBack(q) \/ PutBack(r) BY PassedOnceIs DEF FactorInv
    <2> QED BY <1>2, <1>3, <2>1
  <1> QED BY <1>2, <1>4, <1>5, <1>6 DEF FactorInv

(* A challenge that is taken up was not passed, or was put back. *)
LEMMA OpenStep ==
    ASSUME FactorInv, [Next]_vars, NEW o \in Requests, Open(o)
    PROVE  FactorInv'
  <1>1. /\ UNCHANGED <<wrong, accepted>> /\ challenges' \subseteq challenges
        /\ pc[o] = "opening" /\ pc'[o] \in {"comparing", "refused"}
        /\ pc'[o] = "comparing" => ChallengeOf[o] \in challenges
        /\ \A x \in Requests \ {o} : pc'[x] = pc[x]
    BY DEF Open, Fresh, FactorInv, TypeOK, ControlOK, Step, Goto, noted
  <1>2. /\ TypeOK' /\ ControlInv' /\ Sent \subseteq Sent'
        /\ \A x \in Requests : pc[x] = "done" => pc'[x] = "done"
        /\ \A q, r \in Sent : Overlap(q, r)' <=> Overlap(q, r)
        /\ \A q \in Sent : PutBack(q) => PutBack(q)'
    BY <1>1, FactorKept
  <1>3. /\ accepted \subseteq Sent /\ Sent' = Sent
        /\ \A r \in Confirms : ChallengeOf[r] \in Requests
    BY <1>1, LoginAssumption DEF FactorInv, SentOK, Sent, Confirms
  <1>4. SentOK'
    BY <1>1, <1>2, <1>3 DEF FactorInv, SentOK
  <1>5. Passing'
    <2> SUFFICES ASSUME NEW q \in accepted \cap Confirms
                 PROVE  /\ pc'[q] \notin {"opening", "comparing"}
                        /\ ChallengeOf[q] \in challenges' => PutBack(q)'
                        /\ \A r \in Requests :
                              pc'[r] = "comparing" /\ ChallengeOf[r] = ChallengeOf[q] =>
                                  Overlap(q, r)' \/ PutBack(q)'
      BY <1>1 DEF Passing
    <2>1. /\ q \in Requests /\ q \in Sent /\ pc[q] \notin {"opening", "comparing"}
          /\ ChallengeOf[q] \in challenges => PutBack(q)
      BY <1>3 DEF Confirms, FactorInv, Passing
    <2>2. ASSUME NEW r \in Requests, pc'[r] = "comparing", ChallengeOf[r] = ChallengeOf[q]
          PROVE  Overlap(q, r)' \/ PutBack(q)'
      <3>1. CASE r = o BY <1>1, <1>2, <2>1, <2>2, <3>1
      <3>2. CASE r # o
        <4>1. pc[r] = "comparing" /\ r \in Sent BY <1>1, <2>2, <3>2 DEF Sent
        <4>2. Overlap(q, r) \/ PutBack(q) BY <2>2, <4>1 DEF FactorInv, Passing
        <4> QED BY <1>2, <2>1, <4>1, <4>2
      <3> QED BY <3>1, <3>2
    <2> QED BY <1>1, <1>2, <2>1, <2>2
  <1>6. ChallengePassedOnce'
    <2> SUFFICES ASSUME NEW q \in accepted \cap Confirms, NEW r \in accepted \cap Confirms,
                        q # r, ChallengeOf[q] = ChallengeOf[r]
                 PROVE  Overlap(q, r)' \/ PutBack(q)' \/ PutBack(r)'
      BY <1>1 DEF ChallengePassedOnce, PutBack
    <2>1. Overlap(q, r) \/ PutBack(q) \/ PutBack(r) BY PassedOnceIs DEF FactorInv
    <2> QED BY <1>2, <1>3, <2>1
  <1> QED BY <1>2, <1>4, <1>5, <1>6 DEF FactorInv

(* A wrong text puts the challenge back: it overlaps who passed it.        *)
LEMMA MismatchStep ==
    ASSUME FactorInv, [Next]_vars, NEW w \in Requests, Mismatch(w)
    PROVE  FactorInv'
  <1>1. /\ UNCHANGED accepted /\ wrong' = wrong \cup {w}
        /\ challenges' = challenges \cup {ChallengeOf[w]}
        /\ pc[w] = "comparing" /\ pc'[w] = "refused"
        /\ \A x \in Requests \ {w} : pc'[x] = pc[x]
    BY DEF Mismatch, FactorInv, TypeOK, ControlOK, Step, Goto
  <1>2. /\ TypeOK' /\ ControlInv' /\ Sent \subseteq Sent'
        /\ \A x \in Requests : pc[x] = "done" => pc'[x] = "done"
        /\ \A q, r \in Sent : Overlap(q, r)' <=> Overlap(q, r)
        /\ \A q \in Sent : PutBack(q) => PutBack(q)'
    BY <1>1, FactorKept
  <1>3. /\ accepted \subseteq Sent /\ Sent' = Sent /\ w \in Sent /\ w \in Confirms
        /\ \A r \in Confirms : ChallengeOf[r] \in Requests
    <2>1. w \in Confirms
      BY <1>1 DEF FactorInv, ControlInv, PlacesOK, PlaceOK, ConfirmWaits
    <2> QED BY <1>1, <2>1, LoginAssumption DEF FactorInv, SentOK, Sent, Confirms
  <1>4. SentOK'
    BY <1>1, <1>2, <1>3 DEF FactorInv, SentOK
  <1>5. Passing'
    <2> SUFFICES ASSUME NEW q \in accepted \cap Confirms
                 PROVE  /\ pc'[q] \notin {"opening", "comparing"}
                        /\ ChallengeOf[q] \in challenges' => PutBack(q)'
                        /\ \A r \in Requests :
                              pc'[r] = "comparing" /\ ChallengeOf[r] = ChallengeOf[q] =>
                                  Overlap(q, r)' \/ PutBack(q)'
      BY <1>1 DEF Passing
    <2>1. /\ q \in Requests /\ q \in Sent /\ pc[q] \notin {"opening", "comparing"}
          /\ ChallengeOf[q] \in challenges => PutBack(q)
      BY <1>3 DEF Confirms, FactorInv, Passing
    <2>2. ASSUME NEW r \in Requests, pc'[r] = "comparing", ChallengeOf[r] = ChallengeOf[q]
          PROVE  Overlap(q, r)' \/ PutBack(q)'
      <3>1. pc[r] = "comparing" /\ r \in Sent BY <1>1, <2>2 DEF Sent
      <3>2. Overlap(q, r) \/ PutBack(q) BY <2>2, <3>1 DEF FactorInv, Passing
      <3> QED BY <1>2, <2>1, <3>1, <3>2
    <2>3. ASSUME ChallengeOf[q] = ChallengeOf[w] PROVE PutBack(q)'
      <3>1. CASE PutBack(q) BY <1>2, <2>1, <3>1
      <3>2. CASE Overlap(q, w)
        <4>1. Overlap(w, q)' BY <1>2, <1>3, <2>1, <3>2 DEF Overlap
        <4> QED BY <1>1, <1>3, <2>3, <4>1 DEF PutBack
      <3> QED BY <1>1, <2>3, <3>1, <3>2 DEF FactorInv, Passing
    <2> QED BY <1>1, <1>2, <2>1, <2>2, <2>3
  <1>6. ChallengePassedOnce'
    <2> SUFFICES ASSUME NEW q \in accepted \cap Confirms, NEW r \in accepted \cap Confirms,
                        q # r, ChallengeOf[q] = ChallengeOf[r]
                 PROVE  Overlap(q, r)' \/ PutBack(q)' \/ PutBack(r)'
      BY <1>1 DEF ChallengePassedOnce, PutBack
    <2>1. Overlap(q, r) \/ PutBack(q) \/ PutBack(r) BY PassedOnceIs DEF FactorInv
    <2> QED BY <1>2, <1>3, <2>1
  <1> QED BY <1>2, <1>4, <1>5, <1>6 DEF FactorInv

(* A challenge that is passed is gone, and who has it in hand overlaps.    *)
LEMMA MatchStep ==
    ASSUME FactorInv, [Next]_vars, NEW m \in Requests, Match(m)
    PROVE  FactorInv'
  <1>1. /\ UNCHANGED wrong /\ accepted' = accepted \cup {m}
        /\ challenges' = challenges \ {ChallengeOf[m]}
        /\ pc[m] = "comparing" /\ pc'[m] = "reading-confirmed"
        /\ \A x \in Requests \ {m} : pc'[x] = pc[x]
    BY DEF Match, Forget, FactorInv, TypeOK, ControlOK, Step, Goto
  <1>2. /\ TypeOK' /\ ControlInv' /\ Sent \subseteq Sent'
        /\ \A x \in Requests : pc[x] = "done" => pc'[x] = "done"
        /\ \A q, r \in Sent : Overlap(q, r)' <=> Overlap(q, r)
        /\ \A q \in Sent : PutBack(q) => PutBack(q)'
        /\ \A q, r \in UnderWay : q \in Sent /\ r \in Sent /\ Overlap(q, r)
        /\ \A r \in Requests : pc[r] \in Waits => r \in UnderWay
    BY <1>1, FactorKept
  <1>3. /\ accepted \subseteq Sent /\ Sent' = Sent /\ m \in Sent /\ m \in Confirms
        /\ \A r \in Confirms : ChallengeOf[r] \in Requests
    <2>1. m \in Confirms
      BY <1>1 DEF FactorInv, ControlInv, PlacesOK, PlaceOK, ConfirmWaits
    <2> QED BY <1>1, <2>1, LoginAssumption DEF FactorInv, SentOK, Sent, Confirms
  <1>4. SentOK'
    BY <1>1, <1>2, <1>3 DEF FactorInv, SentOK
  <1>5. \A r \in Requests : pc[r] = "comparing" => r \in UnderWay /\ r \in Sent
    <2>1. "comparing" \in Waits BY DEF Waits
    <2> QED BY <1>2, <2>1 DEF UnderWay
  <1>6. Passing'
    <2> SUFFICES ASSUME NEW q \in (accepted \cup {m}) \cap Confirms
                 PROVE  /\ pc'[q] \notin {"opening", "comparing"}
                        /\ ChallengeOf[q] \in challenges' => PutBack(q)'
                        /\ \A r \in Requests :
                              pc'[r] = "comparing" /\ ChallengeOf[r] = ChallengeOf[q] =>
                                  Overlap(q, r)' \/ PutBack(q)'
      BY <1>1 DEF Passing
    <2>1. CASE q = m
      <3>1. ASSUME NEW r \in Requests, pc'[r] = "comparing" PROVE Overlap(q, r)'
        <4>1. pc[r] = "comparing" BY <1>1, <3>1
        <4> QED BY <1>1, <1>2, <1>5, <2>1, <4>1
      <3> QED BY <1>1, <2>1, <3>1
    <2>2. CASE q # m
      <3>1. /\ q \in Requests /\ q \in Sent /\ pc[q] \notin {"opening", "comparing"}
            /\ ChallengeOf[q] \in challenges => PutBack(q)
        BY <1>3, <2>2 DEF Confirms, FactorInv, Passing
      <3>2. ASSUME NEW r \in Requests, pc'[r] = "comparing", ChallengeOf[r] = ChallengeOf[q]
            PROVE  Overlap(q, r)' \/ PutBack(q)'
        <4>1. pc[r] = "comparing" /\ r \in Sent BY <1>1, <1>5, <3>2
        <4>2. Overlap(q, r) \/ PutBack(q) BY <2>2, <3>2, <4>1 DEF FactorInv, Passing
        <4> QED BY <1>2, <3>1, <4>1, <4>2
      <3> QED BY <1>1, <1>2, <2>2, <3>1, <3>2
    <2> QED BY <2>1, <2>2
  <1>7. ChallengePassedOnce'
    <2> SUFFICES ASSUME NEW q \in (accepted \cup {m}) \cap Confirms,
                        NEW r \in (accepted \cup {m}) \cap Confirms,
                        q # r, ChallengeOf[q] = ChallengeOf[r]
                 PROVE  Overlap(q, r)' \/ PutBack(q)' \/ PutBack(r)'
      BY <1>1 DEF ChallengePassedOnce, PutBack
    <2>1. q \in Sent /\ r \in Sent BY <1>3
    <2>2. Overlap(q, r) \/ PutBack(q) \/ PutBack(r)
      <3>1. CASE q = m
        BY <1>1, <3>1 DEF FactorInv, Passing, Overlap
      <3>2. CASE r = m
        BY <1>1, <3>2 DEF FactorInv, Passing
      <3>3. CASE q # m /\ r # m
        BY <3>3, PassedOnceIs DEF FactorInv
      <3> QED BY <3>1, <3>2, <3>3
    <2> QED BY <1>2, <2>1, <2>2
  <1> QED BY <1>2, <1>4, <1>6, <1>7 DEF FactorInv

(* The challenges' part of the invariant. *)
LEMMA FactorInvariant == Spec => []FactorInv
  <1>1. Init => FactorInv
    <2> SUFFICES ASSUME Init PROVE FactorInv OBVIOUS
    <2>1. ControlOK(Waits) /\ Past BY ControlStarts DEF Init
    <2>2. \A r \in Requests : pc[r] = "unsent" BY DEF Init, ControlInit
    <2>3. PlacesOK BY <2>2 DEF PlacesOK, PlaceOK, AskWaits, VerifyWaits, ConfirmWaits
    <2>4. TypeOK BY StartsTyped
    <2>5. Sent = {} BY <2>2 DEF Sent
    <2>6. SentOK /\ Passing /\ ChallengePassedOnce
      BY <2>5 DEF Init, SentOK, Passing, ChallengePassedOnce
    <2> QED BY <2>1, <2>3, <2>4, <2>6 DEF FactorInv, ControlInv
  <1>2. FactorInv /\ [Next]_vars => FactorInv'
    BY FactorSteps, FactorStillStep, StoreChallengeStep, OpenStep, MismatchStep, MatchStep
  <1> QED BY <1>1, <1>2, PTL DEF Spec

(* A one-time code and a second-factor challenge let their sender in once: *)
(* what verifyOtpByFlow marks consumed and verifyTwoFactor deletes is not  *)
(* accepted again, but for requests that overlapped.                       *)
THEOREM LetInOnce == Spec => []AcceptedOnce
  <1>1. CodeInv /\ FactorInv => AcceptedOnce BY DEF CodeInv, FactorInv, AcceptedOnce
  <1> QED BY <1>1, CodeInvariant, FactorInvariant, PTL
-----------------------------------------------------------------------------
(***************************************************************************)
(* Rate windows.                                                           *)
(***************************************************************************)
Ops == {"ask", "verify"}

(* The requests let in within the window of op, and those let in before it *)
(* but less than its length ago.                                           *)
Within(op) ==
    {q \in Requests : OpOf[q] = op /\ \E t \in admitted[q] : t + Window[op] >= windows[op].ends}
Earlier(op) ==
    {q \in Requests : OpOf[q] = op /\ \E t \in admitted[q] :
        t + Window[op] < windows[op].ends /\ t + 2 * Window[op] > windows[op].ends}

Recent(op) ==
    {q \in Requests : OpOf[q] = op /\ \E t \in admitted[q] : t + Window[op] > now}

WindowOK(op) ==
    \/ /\ windows[op].count = 0 /\ windows[op].ends = 0
       /\ \A q \in Requests : OpOf[q] = op => admitted[q] = {}
    \/ /\ windows[op].count > 0 /\ windows[op].ends <= now + Window[op]
       /\ \A q \in Requests : OpOf[q] = op =>
             \A t \in admitted[q] : t <= now /\ t < windows[op].ends
       /\ IsFiniteSet(Within(op)) /\ Cardinality(Within(op)) = windows[op].count
       /\ windows[op].count <= Max[op]
       /\ IsFiniteSet(Earlier(op)) /\ Cardinality(Earlier(op)) <= Max[op]

Unsent == \A q \in Requests : pc[q] = "unsent" => admitted[q] = {}

RateInv == TypeOK /\ ControlInv /\ Unsent /\ \A op \in Ops : WindowOK(op)

(* Who was let in less than a window's length ago was let in within the    *)
(* window or just before it.                                               *)
LEMMA RecentIs ==
    ASSUME TypeOK, NEW op \in Ops, WindowOK(op)
    PROVE  /\ IsFiniteSet(Recent(op))
           /\ windows[op].ends <= now => Cardinality(Recent(op)) <= Max[op]
           /\ Cardinality(Recent(op)) <= windows[op].count + Max[op]
           /\ windows[op].ends > now => Cardinality(Recent(op)) >= windows[op].count
  <1>t. /\ windows[op].count \in Nat /\ windows[op].ends \in Nat /\ now \in Nat
        /\ Max[op] \in Nat /\ Window[op] \in Nat
        /\ \A q \in Requests : admitted[q] \subseteq Nat
    <2>1. Max[op] \in Nat /\ Window[op] \in Nat BY LoginAssumption DEF Ops
    <2>2. windows[op].count \in Nat /\ windows[op].ends \in Nat BY DEF TypeOK, Ops
    <2>3. now \in Nat BY LoginAssumption DEF TypeOK
    <2>4. \A q \in Requests : admitted[q] \subseteq Nat BY DEF TypeOK
    <2> QED BY <2>1, <2>2, <2>3, <2>4
  <1>1. CASE windows[op].count = 0 /\ \A q \in Requests : OpOf[q] = op => admitted[q] = {}
    <2>1. Recent(op) = {} BY <1>1 DEF Recent
    <2> QED BY <1>1, <1>t, <2>1, FS_EmptySet
  <1>2. CASE windows[op].count > 0 /\ WindowOK(op)
    <2>1. /\ windows[op].ends <= now + Window[op]
          /\ IsFiniteSet(Within(op)) /\ Cardinality(Within(op)) = windows[op].count
          /\ windows[op].count <= Max[op]
          /\ IsFiniteSet(Earlier(op)) /\ Cardinality(Earlier(op)) <= Max[op]
      BY <1>2, <1>t DEF WindowOK
    <2>2. Recent(op) \subseteq Within(op) \cup Earlier(op)
      <3>1. ASSUME NEW t \in Nat, t + Window[op] > now
            PROVE  \/ t + Window[op] >= windows[op].ends
                   \/ /\ t + Window[op] < windows[op].ends
                      /\ t + 2 * Window[op] > windows[op].ends
        BY <1>t, <2>1, <3>1
      <3> QED BY <1>t, <3>1 DEF Recent, Within, Earlier
    <2>3. /\ IsFiniteSet(Within(op) \cup Earlier(op))
          /\ Cardinality(Within(op) \cup Earlier(op)) <= windows[op].count + Max[op]
      <3>1. /\ IsFiniteSet(Within(op) \cup Earlier(op))
            /\ Cardinality(Within(op) \cup Earlier(op)) =
                  Cardinality(Within(op)) + Cardinality(Earlier(op))
                    - Cardinality(Within(op) \cap Earlier(op))
        BY <2>1, FS_Union
      <3>2. IsFiniteSet(Within(op) \cap Earlier(op)) BY <2>1, FS_Intersection
      <3>3. /\ Cardinality(Within(op) \cap Earlier(op)) \in Nat
            /\ Cardinality(Earlier(op)) \in Nat
        BY <2>1, <3>2, FS_CardinalityType
      <3> QED BY <1>t, <2>1, <3>1, <3>3
    <2>4. /\ IsFiniteSet(Recent(op))
          /\ Cardinality(Recent(op)) <= Cardinality(Within(op) \cup Earlier(op))
      BY <2>2, <2>3, FS_Subset
    <2>5. Cardinality(Recent(op)) \in Nat /\ Cardinality(Within(op) \cup Earlier(op)) \in Nat
      BY <2>3, <2>4, FS_CardinalityType
    <2>6. ASSUME windows[op].ends <= now PROVE Cardinality(Recent(op)) <= Max[op]
      <3>1. \A t \in Nat : t + Window[op] > now => t + Window[op] >= windows[op].ends
        BY <1>t, <2>6
      <3>2. Recent(op) \subseteq Within(op) BY <1>t, <3>1 DEF Recent, Within
      <3>3. Cardinality(Recent(op)) <= Cardinality(Within(op)) BY <2>1, <3>2, FS_Subset
      <3> QED BY <1>t, <2>1, <2>5, <3>3
    <2>7. ASSUME windows[op].ends > now
          PROVE  Cardinality(Recent(op)) >= windows[op].count
      <3>1. \A t \in Nat : t + Window[op] >= windows[op].ends => t + Window[op] > now
        BY <1>t, <2>7
      <3>2. Within(op) \subseteq Recent(op) BY <1>t, <3>1 DEF Recent, Within
      <3>3. Cardinality(Within(op)) <= Cardinality(Recent(op)) BY <2>4, <3>2, FS_Subset
      <3> QED BY <1>t, <2>1, <2>5, <3>3
    <2> QED BY <1>t, <2>3, <2>4, <2>5, <2>6, <2>7
  <1> QED BY <1>1, <1>2, <1>t DEF WindowOK

(* A step that matters to the windows is a call that is let in, or a crash. *)
LEMMA RateSteps ==
    ASSUME ControlInv, TypeOK, [Next]_vars
    PROVE  \/ UNCHANGED <<windows, admitted>>
           \/ Crash
           \/ \E r \in Requests :
                 CallByPhone(r) /\ ~RateReached(windows[OpOf[r]], OpOf[r])
  BY DEF Next, Handle, CallByPhone, CallConfirm, ReadAccount, CreateCode, TextCode, FindCode,
         CountAttempt, ReadUser, Consume, Weigh, StoreChallenge, TextFactor, Open, Mismatch,
         Match, ReadConfirmed, Issue, Fail, ChangeUser, Tick, vars, noted

(* Time passes, by itself. *)
LEMMA TimeSteps ==
    ASSUME [Next]_vars
    PROVE  now' = now \/ now' = now + 1
  BY DEF Next, Handle, CallByPhone, CallConfirm, ReadAccount, CreateCode, TextCode, FindCode,
         CountAttempt, ReadUser, Consume, Weigh, StoreChallenge, TextFactor, Open, Mismatch,
         Match, ReadConfirmed, Issue, Fail, Crash, ChangeUser, Tick, vars

(* Who is let in belongs to the window, which is a new one if the last has *)
(* ended.                                                                  *)
LEMMA LetIn ==
    ASSUME RateInv, NEW r \in Requests, CallByPhone(r), ~RateReached(windows[OpOf[r]], OpOf[r])
    PROVE  \A op \in Ops : WindowOK(op)'
  <1> DEFINE o == OpOf[r]
  <1>t. /\ o \in Ops
        /\ \A op \in Ops : /\ windows[op] \in [count : Nat, ends : Nat]
                           /\ windows[op].count \in Nat /\ windows[op].ends \in Nat
                           /\ Max[op] \in Nat \ {0} /\ Window[op] \in Nat \ {0}
        /\ now \in Nat /\ now' = now
        /\ admitted \in [Requests -> SUBSET Nat]
        /\ DOMAIN windows = Ops
    BY LoginAssumption DEF RateInv, TypeOK, Ops, CallByPhone
  <1>1. /\ windows' = [windows EXCEPT ![o] = Counted(@, o)]
        /\ admitted' = [admitted EXCEPT ![r] = {now}]
        /\ pc[r] = "unsent"
    BY DEF CallByPhone, Arrive
  <1>2. admitted[r] = {} BY <1>1 DEF RateInv, Unsent
  <1>3. ASSUME NEW op \in Ops, op # o PROVE WindowOK(op)'
    <2>1. windows'[op] = windows[op] BY <1>1, <1>3, <1>t
    <2>2. \A q \in Requests : OpOf[q] = op => admitted'[q] = admitted[q]
      BY <1>1, <1>3, <1>t
    <2>3. Within(op)' = Within(op) /\ Earlier(op)' = Earlier(op)
      BY <2>1, <2>2 DEF Within, Earlier
    <2> QED BY <1>t, <2>1, <2>2, <2>3 DEF RateInv, WindowOK
  <1>4. /\ WindowOK(o) /\ \A q \in Requests \ {r} : admitted'[q] = admitted[q]
        /\ admitted'[r] = {now}
    BY <1>1, <1>t DEF RateInv
  <1>5. ASSUME windows[o].ends <= now PROVE WindowOK(o)'
    <2>1. windows'[o].count = 1 /\ windows'[o].ends = now + Window[o]
      BY <1>1, <1>5, <1>t DEF Counted
    <2>2. \A q \in Requests \ {r} : OpOf[q] = o => \A t \in admitted[q] : t < now
      BY <1>4, <1>5, <1>t DEF WindowOK
    <2>3. Within(o)' = {r}
      <3>1. \A t \in Nat : t + Window[o] >= now + Window[o] <=> t >= now BY <1>t
      <3>2. \A q \in Requests \ {r} : OpOf[q] = o => \A t \in admitted[q] : ~(t >= now)
        BY <1>t, <2>2
      <3> QED BY <1>4, <1>t, <2>1, <3>1, <3>2 DEF Within
    <2>4. Earlier(o)' \subseteq Recent(o)
      <3>1. \A t \in Nat : t + 2 * Window[o] > now + Window[o] => t + Window[o] > now
        BY <1>t
      <3>2. ~(now + Window[o] < now + Window[o]) BY <1>t
      <3> QED BY <1>4, <1>t, <2>1, <3>1, <3>2 DEF Earlier, Recent
    <2>5. IsFiniteSet(Recent(o)) /\ Cardinality(Recent(o)) <= Max[o]
      BY <1>4, <1>5, <1>t, RecentIs DEF RateInv
    <2>6. IsFiniteSet(Earlier(o)') /\ Cardinality(Earlier(o)') <= Cardinality(Recent(o))
      BY <2>4, <2>5, FS_Subset
    <2>7. Cardinality(Earlier(o)') <= Max[o]
      <3>1. Cardinality(Recent(o)) \in Nat /\ Cardinality(Earlier(o)') \in Nat
        BY <2>5, <2>6, FS_CardinalityType
      <3> QED BY <1>t, <2>5, <2>6, <3>1
    <2>8. IsFiniteSet(Within(o)') /\ Cardinality(Within(o)') = 1 BY <2>3, FS_Singleton
    <2>9. \A q \in Requests : OpOf[q] = o =>
             \A t \in admitted'[q] : t <= now /\ t < now + Window[o]
      BY <1>4, <1>t, <2>2
    <2>10. /\ windows'[o].count > 0 /\ windows'[o].ends <= now' + Window[o]
           /\ windows'[o].count <= Max[o]
      BY <1>t, <2>1
    <2>11. \A q \in Requests : OpOf[q] = o =>
              \A t \in admitted'[q] : t <= now' /\ t < windows'[o].ends
      BY <1>t, <2>1, <2>9
    <2>12. Cardinality(Within(o)') = windows'[o].count BY <2>1, <2>8
    <2> QED BY <2>6, <2>7, <2>8, <2>10, <2>11, <2>12 DEF WindowOK
  <1>6. ASSUME windows[o].ends > now PROVE WindowOK(o)'
    <2>1. windows[o].count < Max[o] BY <1>6, <1>t DEF RateReached
    <2>2. windows'[o].count = windows[o].count + 1 /\ windows'[o].ends = windows[o].ends
      BY <1>1, <1>6, <1>t DEF Counted
    <2>3. /\ windows[o].count > 0 /\ windows[o].ends <= now + Window[o]
          /\ \A q \in Requests : OpOf[q] = o =>
                \A x \in admitted[q] : x <= now /\ x < windows[o].ends
          /\ IsFiniteSet(Within(o)) /\ Cardinality(Within(o)) = windows[o].count
          /\ IsFiniteSet(Earlier(o)) /\ Cardinality(Earlier(o)) <= Max[o]
      BY <1>4, <1>6, <1>t DEF WindowOK
    <2>4. Within(o)' = Within(o) \cup {r} /\ r \notin Within(o)
      BY <1>2, <1>4, <1>t, <2>2, <2>3 DEF Within
    <2>5. Earlier(o)' = Earlier(o)
      <3>1. ~(now + Window[o] < windows[o].ends) BY <1>t, <2>3
      <3> QED BY <1>2, <1>4, <1>t, <2>2, <3>1 DEF Earlier
    <2>6. IsFiniteSet(Within(o)') /\ Cardinality(Within(o)') = windows[o].count + 1
      BY <2>3, <2>4, FS_AddElement
    <2>7. windows[o].count + 1 > 0 /\ windows[o].count + 1 <= Max[o] BY <1>t, <2>1
    <2>8. \A q \in Requests : OpOf[q] = o =>
             \A x \in admitted'[q] : x <= now /\ x < windows[o].ends
      BY <1>4, <1>6, <1>t, <2>3
    <2>9. /\ windows'[o].count > 0 /\ windows'[o].ends <= now' + Window[o]
          /\ windows'[o].count <= Max[o]
      BY <1>t, <2>2, <2>3, <2>7
    <2>10. \A q \in Requests : OpOf[q] = o =>
              \A x \in admitted'[q] : x <= now' /\ x < windows'[o].ends
      BY <1>t, <2>2, <2>8
    <2>11. Cardinality(Within(o)') = windows'[o].count BY <2>2, <2>6
    <2>12. IsFiniteSet(Earlier(o)') /\ Cardinality(Earlier(o)') <= Max[o] BY <2>3, <2>5
    <2> QED BY <2>6, <2>9, <2>10, <2>11, <2>12 DEF WindowOK
  <1> QED BY <1>3, <1>5, <1>6, <1>t

(* The windows stay right. *)
LEMMA RateStep ==
    ASSUME RateInv, [Next]_vars
    PROVE  RateInv'
  <1>1. TypeOK' /\ ControlInv' /\ \A q \in Requests : pc'[q] = "unsent" => pc[q] = "unsent"
    BY Stays DEF RateInv, Onward, Sent
  <1>t. /\ \A op \in Ops : windows[op].ends \in Nat /\ Window[op] \in Nat
        /\ now \in Nat /\ now' \in Nat /\ admitted \in [Requests -> SUBSET Nat]
        /\ \A q \in Requests : admitted[q] \subseteq Nat
    <2>1. \A op \in Ops : Window[op] \in Nat BY LoginAssumption DEF Ops
    <2>2. MaxTime \in Nat BY LoginAssumption
    <2>3. now \in Nat /\ admitted \in [Requests -> SUBSET Nat]
      BY <2>2 DEF RateInv, TypeOK
    <2>4. now' \in Nat BY <1>1, <2>2 DEF TypeOK
    <2>5. \A op \in Ops : windows[op].ends \in Nat BY DEF RateInv, TypeOK, Ops
    <2> QED BY <2>1, <2>3, <2>4, <2>5
  <1>2. CASE UNCHANGED <<windows, admitted>>
    <2>1. now <= now' BY <1>t, TimeSteps
    <2>2. Unsent' BY <1>1, <1>2 DEF RateInv, Unsent
    <2>3. ASSUME NEW op \in Ops PROVE WindowOK(op)'
      <3>1. Within(op)' = Within(op) /\ Earlier(op)' = Earlier(op)
        BY <1>2 DEF Within, Earlier
      <3>2. windows[op].ends <= now + Window[op] => windows[op].ends <= now' + Window[op]
        BY <1>t, <2>1
      <3>3. \A q \in Requests : \A x \in admitted[q] : x <= now => x <= now'
        BY <1>t, <2>1
      <3>4. WindowOK(op) BY DEF RateInv
      <3> QED BY <1>2, <3>1, <3>2, <3>3, <3>4 DEF WindowOK
    <2> QED BY <1>1, <2>2, <2>3 DEF RateInv
  <1>3. CASE Crash
    <2>1. /\ windows' = [op \in {"ask", "verify"} |-> NoWindow]
          /\ admitted' = [r \in Requests |-> {}]
      BY <1>3 DEF Crash
    <2> QED BY <1>1, <2>1 DEF RateInv, Unsent, WindowOK, Ops, NoWindow
  <1>4. ASSUME NEW r \in Requests, CallByPhone(r), ~RateReached(windows[OpOf[r]], OpOf[r])
        PROVE  RateInv'
    <2>1. \A op \in Ops : WindowOK(op)' BY <1>4, LetIn
    <2>2. Unsent'
      <3>1. /\ admitted' = [admitted EXCEPT ![r] = {now}]
            /\ \E p : p # "unsent" /\ pc' = [pc EXCEPT ![r] = p]
        BY <1>4 DEF CallByPhone, Arrive, Goto
      <3> QED BY <1>1, <3>1 DEF RateInv, Unsent, TypeOK, ControlOK
    <2> QED BY <1>1, <2>1, <2>2 DEF RateInv
  <1> QED BY <1>2, <1>3, <1>4, RateSteps DEF RateInv

(* Who is answered that the limit is reached, or let in, is rightly so. *)
LEMMA RateAnswers ==
    ASSUME RateInv, [Next]_vars, NEW r \in Asks \cup Verifies,
           pc[r] = "unsent", pc'[r] # "unsent"
    PROVE  IF pc'[r] = "limited" THEN Cardinality(Recent(OpOf[r])) >= Max[OpOf[r]]
                                 ELSE Cardinality(Recent(OpOf[r])) < 2 * Max[OpOf[r]]
  <1> DEFINE o == OpOf[r]
  <1>0. o \in Ops /\ r \in Requests BY DEF Asks, Verifies, Ops
  <1>t. /\ windows[o].count \in Nat /\ windows[o].ends \in Nat /\ now \in Nat
        /\ Max[o] \in Nat \ {0}
        /\ pc \in [Requests -> {"unsent"} \cup Waits \cup Ends]
    BY <1>0, LoginAssumption DEF RateInv, TypeOK, ControlOK, Ops
  <1>1. CallByPhone(r)
    <2> USE DEF Arrive, Step, Resolve, Reject, Goto, UnderWay, Sent
    <2>1. ASSUME NEW q \in Requests, CallByPhone(q) PROVE q = r
      <3>1. \E p : pc' = [pc EXCEPT ![q] = p] BY <2>1 DEF CallByPhone
      <3> QED BY <1>0, <1>t, <3>1
    <2>2. ASSUME NEW q \in Requests, CallConfirm(q) PROVE FALSE
      <3>1. q \in Confirms /\ \E p : pc' = [pc EXCEPT ![q] = p] BY <2>2 DEF CallConfirm
      <3> QED BY <1>0, <1>t, <3>1 DEF Confirms, Ops
    <2>3. ASSUME NEW q \in Requests, pc[q] # "unsent", NEW p, pc' = [pc EXCEPT ![q] = p]
          PROVE  FALSE
      BY <1>0, <1>t, <2>3
    <2>4. ASSUME NEW q \in Requests,
                 \/ ReadAccount(q) \/ CreateCode(q) \/ TextCode(q) \/ FindCode(q)
                 \/ CountAttempt(q) \/ ReadUser(q)
          PROVE  FALSE
      BY <2>3, <2>4 DEF ReadAccount, CreateCode, TextCode, FindCode, CountAttempt, ReadUser
    <2>5. ASSUME NEW q \in Requests,
                 Consume(q) \/ Weigh(q) \/ StoreChallenge(q) \/ TextFactor(q) \/ Open(q)
          PROVE  FALSE
      BY <2>3, <2>5 DEF Consume, Weigh, StoreChallenge, TextFactor, Open
    <2>6. ASSUME NEW q \in Requests,
                 Mismatch(q) \/ Match(q) \/ ReadConfirmed(q) \/ Issue(q) \/ Fail(q)
          PROVE  FALSE
      BY <2>3, <2>6 DEF Mismatch, Match, ReadConfirmed, Issue, Fail
    <2>7. CASE Crash BY <1>0, <1>t, <2>7 DEF Crash, Die
    <2>8. CASE ChangeUser \/ Tick \/ UNCHANGED vars
      BY <2>8 DEF ChangeUser, Tick, vars, control
    <2> QED BY <2>1, <2>2, <2>4, <2>5, <2>6, <2>7, <2>8 DEF Next, Handle
  <1>2. pc'[r] = "limited" <=> RateReached(windows[o], o)
    BY <1>0, <1>1, <1>t DEF CallByPhone, Arrive, Goto
  <1>3. /\ IsFiniteSet(Recent(o))
        /\ windows[o].ends <= now => Cardinality(Recent(o)) <= Max[o]
        /\ Cardinality(Recent(o)) <= windows[o].count + Max[o]
        /\ windows[o].ends > now => Cardinality(Recent(o)) >= windows[o].count
    BY <1>0, RecentIs DEF RateInv
  <1>4. Cardinality(Recent(o)) \in Nat BY <1>3, FS_CardinalityType
  <1> QED BY <1>2, <1>3, <1>4, <1>t DEF RateReached

(* assertRateLimit refuses a request only if max have been let in since a  *)
(* window's length ago, and lets it in only if fewer than twice max have,  *)
(* whenever windows end and restarts forget them.                          *)
THEOREM RatesHold == Spec => RateLimitHolds
  <1>1. Init => RateInv
    <2> SUFFICES ASSUME Init PROVE RateInv OBVIOUS
    <2>1. TypeOK BY StartsTyped
    <2>2. ControlOK(Waits) /\ Past BY ControlStarts DEF Init
    <2>3. \A r \in Requests : pc[r] = "unsent" BY DEF Init, ControlInit
    <2>4. PlacesOK BY <2>3 DEF PlacesOK, PlaceOK, AskWaits, VerifyWaits, ConfirmWaits
    <2> QED BY <2>1, <2>2, <2>4
            DEF Init, RateInv, ControlInv, Unsent, WindowOK, Ops, NoWindow
  <1>2. RateInv /\ [Next]_vars => RateInv' BY RateStep
  <1>3. RateInv /\ [Next]_vars =>
          [\A r \in Asks \cup Verifies :
              LET recent == {q \in Requests : /\ OpOf[q] = OpOf[r]
                                             /\ \E t \in admitted[q] : t + Window[OpOf[r]] > now}
              IN  pc[r] = "unsent" /\ pc'[r] # "unsent" =>
                      IF pc'[r] = "limited" THEN Cardinality(recent) >= Max[OpOf[r]]
                                            ELSE Cardinality(recent) < 2 * Max[OpOf[r]]]_vars
    BY RateAnswers DEF Recent
  <1> QED BY <1>1, <1>2, <1>3, PTL DEF Spec, RateLimitHolds
-----------------------------------------------------------------------------
(***************************************************************************)
(* Attempts, of codes and of challenges.                                   *)
(***************************************************************************)
Keys == Asks \cup Verifies

(* The code or the challenge that r tries is k. *)
Keyed(r, k) == IF r \in Verifies THEN held[r] = {k} ELSE ChallengeOf[r] = k

Guesses(k) == {r \in wrong : pc[r] = "refused" /\ Keyed(r, k)}

Tried(k) == IF k \in Asks THEN attempts[k] ELSE tries[k]

(* A guess is compared here, or was found wrong and is to be counted. *)
Guessing == {"counting", "comparing"}

WrongOK ==
    /\ \A r \in wrong : r \in Verifies \cup Confirms /\ pc[r] \in {"counting"} \cup Ends
    /\ \A r \in Requests : pc[r] = "counting" => r \in wrong

(* No guess goes uncounted, and whoever is at one knows of fewer than      *)
(* MaxAttempts wrong ones before it.                                       *)
KeyOK(k) ==
    /\ IsFiniteSet(Guesses(k)) /\ Cardinality(Guesses(k)) <= Tried(k)
    /\ LimitedBy(Guesses(k))
    /\ \A r \in Requests : pc[r] \in Guessing /\ Keyed(r, k) =>
          Cardinality(before[r] \cap Guesses(k)) < MaxAttempts

TriesInv == TypeOK /\ ControlInv /\ WrongOK /\ \A k \in Keys : KeyOK(k)

(* What all steps but the end of a guess at k do: a guess begins only when *)
(* attempts are left.                                                      *)
GoesOn(k) ==
    /\ Guesses(k)' = Guesses(k) /\ Tried(k) <= Tried(k)'
    /\ \A r \in Requests : pc'[r] \in Guessing /\ Keyed(r, k)' =>
          Tried(k) < MaxAttempts \/ (pc[r] \in Guessing /\ Keyed(r, k))

(* The guess of r at k has been found wrong and is counted. *)
Joins(r, k) ==
    /\ Guesses(k)' = Guesses(k) \cup {r} /\ Tried(k)' = Tried(k) + 1
    /\ pc[r] \in Guessing /\ Keyed(r, k)
    /\ \A x \in Requests : pc'[x] \in Guessing /\ Keyed(x, k)' =>
          pc[x] \in Guessing /\ Keyed(x, k)

(* What was tried is a number. *)
LEMMA TriedType ==
    ASSUME TypeOK, NEW k \in Keys
    PROVE  Tried(k) \in Nat
  BY DEF TypeOK, Keys, Tried

(* A step that ends no guess keeps the limit. *)
LEMMA GoesOnKeeps ==
    ASSUME TypeOK, ControlInv, WrongOK, [Next]_vars, NEW k \in Keys, KeyOK(k), GoesOn(k)
    PROVE  KeyOK(k)'
  <1>1. /\ TypeOK' /\ Onward /\ \A q, r \in Sent : Overlap(q, r)' <=> Overlap(q, r)
        /\ \A r \in Requests : pc[r] \in Waits => r \in Sent
    BY Stays
  <1>t. Tried(k) \in Nat /\ Tried(k)' \in Nat /\ MaxAttempts \in Nat
    BY <1>1, TriedType, LoginAssumption DEF TypeOK, Keys, Tried
  <1>2. IsFiniteSet(Guesses(k)') /\ Cardinality(Guesses(k)') <= Tried(k)'
    <2>1. Cardinality(Guesses(k)) \in Nat BY FS_CardinalityType DEF KeyOK
    <2> QED BY <1>t, <2>1 DEF KeyOK, GoesOn
  <1>3. LimitedBy(Guesses(k))'
    <2>1. Guesses(k)' = Guesses(k) BY DEF GoesOn
    <2>2. Guesses(k) \subseteq Sent
      BY DEF Guesses, Sent, TypeOK
    <2>3. CASE Guesses(k) = {} BY <2>1, <2>3 DEF LimitedBy
    <2>4. ASSUME NEW last \in Guesses(k),
                 Cardinality({w \in Guesses(k) \ {last} : ~Overlap(w, last)}) < MaxAttempts
          PROVE  LimitedBy(Guesses(k))'
      <3>1. {w \in Guesses(k)' \ {last} : ~Overlap(w, last)'}
               = {w \in Guesses(k) \ {last} : ~Overlap(w, last)}
        BY <1>1, <2>1, <2>2
      <3> QED BY <2>1, <2>4, <3>1 DEF LimitedBy
    <2> QED BY <2>3, <2>4 DEF KeyOK, LimitedBy
  <1>4. ASSUME NEW r \in Requests, pc'[r] \in Guessing, Keyed(r, k)'
        PROVE  Cardinality(before'[r] \cap Guesses(k)') < MaxAttempts
    <2>1. Guesses(k)' = Guesses(k) /\ IsFiniteSet(Guesses(k)) /\ Cardinality(Guesses(k)) <= Tried(k)
      BY DEF GoesOn, KeyOK
    <2>2. CASE Tried(k) < MaxAttempts
      <3>1. /\ IsFiniteSet(before'[r] \cap Guesses(k))
            /\ Cardinality(before'[r] \cap Guesses(k)) <= Cardinality(Guesses(k))
        BY <2>1, FS_Intersection
      <3>2. /\ Cardinality(before'[r] \cap Guesses(k)) \in Nat
            /\ Cardinality(Guesses(k)) \in Nat
        BY <2>1, <3>1, FS_CardinalityType
      <3> QED BY <1>t, <2>1, <2>2, <3>1, <3>2
    <2>3. CASE pc[r] \in Guessing /\ Keyed(r, k)
      <3>1. before'[r] = before[r] BY <1>1, <2>3 DEF Onward, Guessing, Waits
      <3> QED BY <2>1, <2>3, <3>1 DEF KeyOK
    <2> QED BY <1>4, <2>2, <2>3 DEF GoesOn
  <1> QED BY <1>2, <1>3, <1>4 DEF KeyOK

(* A guess that ends keeps it: those before it are fewer than the limit.   *)
LEMMA JoinsKeeps ==
    ASSUME TypeOK, ControlInv, WrongOK, [Next]_vars, NEW k \in Keys, KeyOK(k),
           NEW r \in Requests, Joins(r, k)
    PROVE  KeyOK(k)'
  <1>1. /\ TypeOK' /\ Onward /\ \A x, y \in Sent : Overlap(x, y)' <=> Overlap(x, y)
        /\ \A x \in Requests : pc[x] \in Waits => x \in Sent
    BY Stays
  <1>t. Tried(k) \in Nat /\ Tried(k)' \in Nat /\ MaxAttempts \in Nat
    BY <1>1, TriedType, LoginAssumption DEF TypeOK, Keys, Tried
  <1>2. /\ Guesses(k)' = Guesses(k) \cup {r} /\ Tried(k)' = Tried(k) + 1
        /\ pc[r] \in Guessing /\ Keyed(r, k) /\ r \notin Guesses(k)
        /\ IsFiniteSet(Guesses(k)) /\ Cardinality(Guesses(k)) <= Tried(k)
        /\ Cardinality(Guesses(k)) \in Nat
    BY FS_CardinalityType DEF Joins, KeyOK, Guesses, Guessing
  <1>3. /\ r \in Sent /\ r \notin Ended /\ Guesses(k) \subseteq Ended \cap Sent
    BY <1>1, <1>2 DEF Guessing, Waits, Ended, Ends, Sent, Guesses, TypeOK
  <1>4. /\ \A x \in Requests : r \notin before[x]
        /\ Cardinality(before[r] \cap Guesses(k)) < MaxAttempts
    BY <1>2, <1>3 DEF ControlInv, Past, KeyOK
  <1>5. IsFiniteSet(Guesses(k)') /\ Cardinality(Guesses(k)') <= Tried(k)'
    <2>1. /\ IsFiniteSet(Guesses(k) \cup {r})
          /\ Cardinality(Guesses(k) \cup {r}) = Cardinality(Guesses(k)) + 1
      BY <1>2, FS_AddElement
    <2> QED BY <1>t, <1>2, <2>1
  <1>6. LimitedBy(Guesses(k))'
    <2>1. {w \in Guesses(k)' \ {r} : ~Overlap(w, r)'} = before[r] \cap Guesses(k)
      <3>1. \A w \in Guesses(k) : ~Overlap(w, r)' <=> w \in before[r]
        BY <1>1, <1>3, <1>4 DEF Overlap, Ended
      <3> QED BY <1>2, <3>1
    <2>2. r \in Guesses(k)' BY <1>2
    <2> QED BY <1>4, <2>1, <2>2 DEF LimitedBy
  <1>7. ASSUME NEW x \in Requests, pc'[x] \in Guessing, Keyed(x, k)'
        PROVE  Cardinality(before'[x] \cap Guesses(k)') < MaxAttempts
    <2>1. pc[x] \in Guessing /\ Keyed(x, k) BY <1>7 DEF Joins
    <2>2. before'[x] = before[x] BY <1>1, <2>1 DEF Onward, Guessing, Waits
    <2>3. before[x] \cap (Guesses(k) \cup {r}) = before[x] \cap Guesses(k) BY <1>4
    <2> QED BY <1>2, <2>1, <2>2, <2>3 DEF KeyOK
  <1> QED BY <1>5, <1>6, <1>7 DEF KeyOK

(* Asking for a code and verifying one are different operations. *)
LEMMA KeysApart ==
    /\ \A k \in Verifies : k \notin Asks
    /\ \A k \in Asks : k \notin Verifies
    /\ \A r \in Confirms : r \notin Verifies /\ ChallengeOf[r] \in Verifies
  BY LoginAssumption DEF Asks, Verifies, Confirms

(* Codes are named by who asked for them. *)
LEMMA StoredAsked ==
    ASSUME TypeOK
    PROVE  Stored \subseteq Asks /\ \A r \in Requests : held[r] \subseteq Asks
  <1>1. Stored \subseteq Asks
    <2>1. \A i \in DOMAIN codes : codes[i] \in Asks BY DEF TypeOK
    <2> QED BY <2>1 DEF Stored
  <1> QED BY <1>1 DEF TypeOK

(* All that most steps do to guesses. *)
GuessMove(r) ==
    \/ pc'[r] = pc[r]
    \/ pc[r] \notin {"counting"} \cup Ends /\ pc'[r] \notin Guessing
    \/ pc[r] \notin Ends /\ pc'[r] \in {"failed", "lost"}

GuessesStill ==
    /\ UNCHANGED <<wrong, held, attempts, tries>>
    /\ \A r \in Requests : GuessMove(r)

(* A step that matters to guesses is one of four. *)
LEMMA GuessSteps ==
    ASSUME TypeOK, ControlInv, [Next]_vars
    PROVE  GuessesStill \/ \E r \in Requests :
              FindCode(r) \/ CountAttempt(r) \/ Open(r) \/ Mismatch(r)
  <1>0. pc \in [Requests -> {"unsent"} \cup Waits \cup Ends] BY DEF TypeOK, ControlOK
  <1>a. ASSUME NEW r \in Requests, NEW p \in Waits \ {"counting"},
               NEW q \in (Waits \cup Ends) \ Guessing, Step(r, p, q) \/ Resolve(r, p, q),
               UNCHANGED <<wrong, held, attempts, tries>>
        PROVE  GuessesStill
    BY <1>0, <1>a DEF GuessesStill, GuessMove, Step, Resolve, Goto, Waits, Ends, Guessing
  <1>b. ASSUME NEW r \in Requests, NEW p \in (Waits \cup Ends) \ Guessing, Arrive(r, p),
               UNCHANGED <<wrong, held, attempts, tries>>
        PROVE  GuessesStill
    BY <1>0, <1>b DEF GuessesStill, GuessMove, Arrive, Goto, Ends
  <1> USE DEF Waits, Ends, Guessing, otp, factor, noted
  <1>1. ASSUME NEW r \in Requests, CallByPhone(r) PROVE GuessesStill
    BY <1>1, <1>b DEF CallByPhone
  <1>2. ASSUME NEW r \in Requests, CallConfirm(r) PROVE GuessesStill
    BY <1>2, <1>b DEF CallConfirm
  <1>3. ASSUME NEW r \in Requests, ReadAccount(r) \/ CreateCode(r) \/ TextCode(r)
        PROVE  GuessesStill
    BY <1>3, <1>a DEF ReadAccount, CreateCode, TextCode
  <1>4. ASSUME NEW r \in Requests, ReadUser(r) \/ Consume(r) \/ Weigh(r) PROVE GuessesStill
    BY <1>4, <1>a DEF ReadUser, Consume, Weigh
  <1>5. ASSUME NEW r \in Requests, StoreChallenge(r) \/ TextFactor(r) PROVE GuessesStill
    BY <1>5, <1>a DEF StoreChallenge, TextFactor
  <1>6. ASSUME NEW r \in Requests, Match(r) \/ ReadConfirmed(r) \/ Issue(r) PROVE GuessesStill
    BY <1>6, <1>a DEF Match, ReadConfirmed, Issue
  <1>7. ASSUME NEW r \in Requests, Fail(r) PROVE GuessesStill
    BY <1>0, <1>7 DEF Fail, Reject, Goto, UnderWay, Ended, GuessesStill, GuessMove
  <1>8. CASE Crash
    BY <1>0, <1>8 DEF Crash, Die, UnderWay, Ended, GuessesStill, GuessMove
  <1>9. CASE ChangeUser \/ Tick \/ UNCHANGED vars
    BY <1>0, <1>9 DEF ChangeUser, Tick, vars, control, GuessesStill, GuessMove
  <1> QED BY <1>1, <1>2, <1>3, <1>4, <1>5, <1>6, <1>7, <1>8, <1>9 DEF Next, Handle

(* Most steps are no guess. *)
LEMMA GuessesStillStep ==
    ASSUME TriesInv, GuessesStill
    PROVE  WrongOK' /\ \A k \in Keys : GoesOn(k)
  <1>0. /\ wrong' = wrong /\ held' = held /\ attempts' = attempts /\ tries' = tries
        /\ wrong \subseteq Requests
    BY DEF GuessesStill, TriesInv, TypeOK
  <1>1. ASSUME NEW r \in Requests
        PROVE  /\ pc'[r] \in Guessing => pc[r] \in Guessing /\ pc'[r] = pc[r]
               /\ r \in wrong => pc'[r] \in {"counting"} \cup Ends
               /\ r \in wrong => (pc'[r] = "refused" <=> pc[r] = "refused")
    BY DEF GuessesStill, GuessMove, Guessing, Ends, TriesInv, WrongOK
  <1>2. WrongOK' BY <1>0, <1>1 DEF TriesInv, WrongOK, Guessing
  <1>3. ASSUME NEW k \in Keys PROVE GoesOn(k)
    <2>1. Guesses(k)' = Guesses(k) BY <1>0, <1>1 DEF Guesses, Keyed
    <2>2. Tried(k)' = Tried(k) /\ Tried(k) \in Nat BY <1>0, TriedType DEF Tried, TriesInv
    <2>3. \A r \in Requests : pc'[r] \in Guessing /\ Keyed(r, k)' =>
             pc[r] \in Guessing /\ Keyed(r, k)
      BY <1>0, <1>1 DEF Keyed
    <2> QED BY <2>1, <2>2, <2>3 DEF GoesOn
  <1> QED BY <1>2, <1>3

(* A code is compared when it was tried fewer than MaxAttempts times. *)
LEMMA FindsTriable ==
    ASSUME TriesInv, NEW r \in Requests, FindCode(r)
    PROVE  WrongOK' /\ \A k \in Keys : GoesOn(k)
  <1>0. /\ attempts' = attempts /\ tries' = tries /\ pc[r] = "finding"
        /\ held' = [held EXCEPT ![r] = Newest]
        /\ pc \in [Requests -> {"unsent"} \cup Waits \cup Ends]
        /\ held \in [Requests -> SUBSET Stored] /\ r \in Verifies /\ wrong \subseteq Requests
    BY DEF FindCode, Step, TriesInv, TypeOK, ControlOK, ControlInv, PlacesOK, PlaceOK,
           VerifyWaits, otp, factor
  <1>1. /\ r \notin wrong
        /\ \/ /\ wrong' = wrong /\ pc'[r] \in {"reading-user", "refused"}
           \/ /\ wrong' = wrong \cup {r} /\ pc'[r] = "counting"
              /\ \E a \in Newest : Usable(a)
        /\ \A x \in Requests \ {r} : pc'[x] = pc[x] /\ held'[x] = held[x]
    BY <1>0 DEF FindCode, Step, Goto, TriesInv, WrongOK, Ends
  <1>2. WrongOK' BY <1>0, <1>1 DEF TriesInv, WrongOK, Ends
  <1>3. ASSUME NEW k \in Keys PROVE GoesOn(k)
    <2>1. Guesses(k)' = Guesses(k) BY <1>0, <1>1 DEF Guesses, Keyed
    <2>2. Tried(k)' = Tried(k) /\ Tried(k) \in Nat BY <1>0, TriedType DEF Tried, TriesInv
    <2>3. ASSUME NEW x \in Requests, pc'[x] \in Guessing, Keyed(x, k)'
          PROVE  Tried(k) < MaxAttempts \/ (pc[x] \in Guessing /\ Keyed(x, k))
      <3>1. CASE x # r BY <1>1, <2>3, <3>1 DEF Keyed
      <3>2. CASE x = r
        <4>1. Newest = {k} /\ \E a \in Newest : Usable(a)
          BY <1>0, <1>1, <2>3, <3>2 DEF Keyed, Guessing
        <4>2. k \in Asks
          BY <4>1, StoredAsked DEF Newest, Unused, TriesInv
        <4> QED BY <4>1, <4>2 DEF Usable, Tried
      <3> QED BY <3>1, <3>2
    <2> QED BY <2>1, <2>2, <2>3 DEF GoesOn
  <1> QED BY <1>2, <1>3

(* So is a challenge. *)
LEMMA OpensTriable ==
    ASSUME TriesInv, NEW r \in Requests, Open(r)
    PROVE  WrongOK' /\ \A k \in Keys : GoesOn(k)
  <1>0. /\ attempts' = attempts /\ tries' = tries /\ held' = held /\ wrong' = wrong
        /\ pc[r] = "opening" /\ pc'[r] \in {"comparing", "refused"}
        /\ pc'[r] = "comparing" => tries[ChallengeOf[r]] < MaxAttempts
        /\ \A x \in Requests \ {r} : pc'[x] = pc[x]
        /\ r \in Confirms /\ wrong \subseteq Requests
    <2>1. /\ attempts' = attempts /\ tries' = tries /\ held' = held /\ wrong' = wrong
          /\ pc[r] = "opening" /\ wrong \subseteq Requests
      BY DEF Open, Step, TriesInv, TypeOK, otp, noted
    <2>2. r \in Confirms
      BY <2>1 DEF TriesInv, ControlInv, PlacesOK, PlaceOK, ConfirmWaits
    <2>3. /\ tries[ChallengeOf[r]] \in Nat /\ MaxAttempts \in Nat
      BY <2>2, KeysApart, LoginAssumption DEF TriesInv, TypeOK
    <2> QED BY <2>1, <2>2, <2>3 DEF Open, Step, Goto, Spent, TriesInv, TypeOK, ControlOK
  <1>1. r \notin wrong BY <1>0 DEF TriesInv, WrongOK, Ends
  <1>2. WrongOK' BY <1>0, <1>1 DEF TriesInv, WrongOK, Ends
  <1>3. ASSUME NEW k \in Keys PROVE GoesOn(k)
    <2>1. Guesses(k)' = Guesses(k) BY <1>0, <1>1 DEF Guesses, Keyed
    <2>2. Tried(k)' = Tried(k) /\ Tried(k) \in Nat BY <1>0, TriedType DEF Tried, TriesInv
    <2>3. ASSUME NEW x \in Requests, pc'[x] \in Guessing, Keyed(x, k)'
          PROVE  Tried(k) < MaxAttempts \/ (pc[x] \in Guessing /\ Keyed(x, k))
      <3>1. CASE x # r BY <1>0, <2>3, <3>1 DEF Keyed
      <3>2. CASE x = r
        <4>1. ChallengeOf[r] = k /\ k \in Verifies /\ k \notin Asks
          BY <1>0, <2>3, <3>2, KeysApart DEF Keyed
        <4> QED BY <1>0, <2>3, <3>2, <4>1 DEF Tried, Guessing
      <3> QED BY <3>1, <3>2
    <2> QED BY <2>1, <2>2, <2>3 DEF GoesOn
  <1> QED BY <1>2, <1>3

(* A wrong text for a code is counted, and its sender answered so. *)
LEMMA CountsGuess ==
    ASSUME TriesInv, NEW r \in Requests, CountAttempt(r)
    PROVE  WrongOK' /\ \A k \in Keys : GoesOn(k) \/ Joins(r, k)
  <1>0. /\ attempts' = [a \in Asks |-> attempts[a] + Cardinality(held[r] \cap {a})]
        /\ tries' = tries /\ held' = held /\ wrong' = wrong /\ wrong \subseteq Requests
        /\ pc[r] = "counting" /\ pc'[r] \in {"refused", "failed"}
        /\ \A x \in Requests \ {r} : pc'[x] = pc[x]
        /\ r \in Verifies /\ r \in wrong
    BY DEF CountAttempt, Resolve, Step, Goto, TriesInv, TypeOK, ControlOK, ControlInv,
           PlacesOK, PlaceOK, VerifyWaits, WrongOK, factor, noted
  <1>2. WrongOK' BY <1>0 DEF TriesInv, WrongOK, Ends
  <1>3. ASSUME NEW k \in Keys PROVE GoesOn(k) \/ Joins(r, k)
    <2>1. Tried(k) \in Nat BY TriedType DEF TriesInv
    <2>2. \A x \in Requests : pc'[x] \in Guessing /\ Keyed(x, k)' =>
             pc[x] \in Guessing /\ Keyed(x, k)
      BY <1>0 DEF Keyed, Guessing
    <2>3. CASE pc'[r] = "refused" /\ held[r] = {k}
      <3>1. k \in Asks
        BY <2>3, StoredAsked DEF TriesInv
      <3>2. attempts'[k] = attempts[k] + 1
        <4>1. held[r] \cap {k} = {k} BY <2>3
        <4>2. Cardinality({k}) = 1 BY FS_Singleton
        <4> QED BY <1>0, <3>1, <4>1, <4>2
      <3>3. Guesses(k)' = Guesses(k) \cup {r} BY <1>0, <2>3 DEF Guesses, Keyed
      <3> QED BY <1>0, <2>2, <2>3, <3>1, <3>2, <3>3 DEF Joins, Tried, Guessing, Keyed
    <2>4. CASE ~(pc'[r] = "refused" /\ held[r] = {k})
      <3>1. Guesses(k)' = Guesses(k) BY <1>0, <2>4 DEF Guesses, Keyed
      <3>2. Tried(k) <= Tried(k)'
        <4>1. CASE k \in Asks
          <5>1. Cardinality(held[r] \cap {k}) \in Nat
            <6>1. IsFiniteSet({k}) BY FS_Singleton
            <6>2. IsFiniteSet(held[r] \cap {k}) BY <6>1, FS_Intersection
            <6> QED BY <6>2, FS_CardinalityType
          <5> QED BY <1>0, <2>1, <4>1, <5>1 DEF Tried
        <4>2. CASE k \notin Asks BY <1>0, <2>1, <4>2 DEF Tried
        <4> QED BY <4>1, <4>2
      <3> QED BY <2>2, <3>1, <3>2 DEF GoesOn
    <2> QED BY <2>3, <2>4
  <1> QED BY <1>2, <1>3

(* So is one for a challenge. *)
LEMMA MismatchCounts ==
    ASSUME TriesInv, NEW r \in Requests, Mismatch(r)
    PROVE  WrongOK' /\ \A k \in Keys : GoesOn(k) \/ Joins(r, k)
  <1>0. /\ tries' = [tries EXCEPT ![ChallengeOf[r]] = @ + 1]
        /\ attempts' = attempts /\ held' = held /\ wrong' = wrong \cup {r}
        /\ wrong \subseteq Requests
        /\ pc[r] = "comparing" /\ pc'[r] = "refused"
        /\ \A x \in Requests \ {r} : pc'[x] = pc[x]
        /\ r \in Confirms /\ r \notin Verifies /\ ChallengeOf[r] \in Verifies
        /\ ChallengeOf[r] \notin Asks
        /\ tries \in [Verifies -> Nat]
    <2>1. pc[r] = "comparing" BY DEF Mismatch, Step
    <2>2. r \in Confirms
      BY <2>1 DEF TriesInv, ControlInv, PlacesOK, PlaceOK, ConfirmWaits
    <2> QED BY <2>1, <2>2, KeysApart
            DEF Mismatch, Step, Goto, TriesInv, TypeOK, ControlOK, otp
  <1>2. WrongOK' BY <1>0 DEF TriesInv, WrongOK, Ends
  <1>3. ASSUME NEW k \in Keys PROVE GoesOn(k) \/ Joins(r, k)
    <2>1. Tried(k) \in Nat BY TriedType DEF TriesInv
    <2>2. \A x \in Requests : pc'[x] \in Guessing /\ Keyed(x, k)' =>
             pc[x] \in Guessing /\ Keyed(x, k)
      BY <1>0 DEF Keyed, Guessing
    <2>3. CASE k = ChallengeOf[r]
      <3>1. Guesses(k)' = Guesses(k) \cup {r} BY <1>0, <2>3 DEF Guesses, Keyed
      <3>2. Tried(k)' = Tried(k) + 1 BY <1>0, <2>3 DEF Tried
      <3> QED BY <1>0, <2>2, <2>3, <3>1, <3>2 DEF Joins, Guessing, Keyed
    <2>4. CASE k # ChallengeOf[r]
      <3>1. Guesses(k)' = Guesses(k)
        <4>1. ~Keyed(r, k)' BY <1>0, <2>4 DEF Keyed
        <4>2. \A x \in wrong \ {r} : Keyed(x, k)' <=> Keyed(x, k) BY <1>0 DEF Keyed
        <4>3. r \notin wrong BY <1>0 DEF TriesInv, WrongOK, Ends
        <4> QED BY <1>0, <4>1, <4>2, <4>3 DEF Guesses
      <3>2. Tried(k)' = Tried(k)
        BY <1>0, <2>4 DEF Tried, Keys
      <3> QED BY <2>1, <2>2, <3>1, <3>2 DEF GoesOn
    <2> QED BY <2>3, <2>4
  <1> QED BY <1>2, <1>3

(* The limit of attempts stays kept. *)
LEMMA TriesStep ==
    ASSUME TriesInv, [Next]_vars
    PROVE  TriesInv'
  <1>1. TypeOK' /\ ControlInv' BY Stays DEF TriesInv
  <1>2. WrongOK' /\ \A k \in Keys : GoesOn(k) \/ \E r \in Requests : Joins(r, k)
    <2>1. \/ GuessesStill
          \/ \E r \in Requests : FindCode(r) \/ CountAttempt(r) \/ Open(r) \/ Mismatch(r)
      BY GuessSteps DEF TriesInv
    <2> QED BY <2>1, GuessesStillStep, FindsTriable, OpensTriable, CountsGuess, MismatchCounts
  <1>3. \A k \in Keys : KeyOK(k)'
    BY <1>2, GoesOnKeeps, JoinsKeeps DEF TriesInv
  <1> QED BY <1>1, <1>2, <1>3 DEF TriesInv

(* Whoever was told that a text is wrong was among the first MaxAttempts,  *)
(* but for those who were compared together: verifyOtpByFlow and           *)
(* validateTwoFactorChallenge look at the count before they compare and    *)
(* write it after.                                                         *)
THEOREM TriesLimited == Spec => []TriesBounded
  <1>1. Init => TriesInv
    <2> SUFFICES ASSUME Init PROVE TriesInv OBVIOUS
    <2>1. TypeOK BY StartsTyped
    <2>2. ControlOK(Waits) /\ Past BY ControlStarts DEF Init
    <2>3. (\A r \in Requests : pc[r] = "unsent") /\ wrong = {} BY DEF Init, ControlInit
    <2>4. PlacesOK BY <2>3 DEF PlacesOK, PlaceOK, AskWaits, VerifyWaits, ConfirmWaits
    <2>5. ASSUME NEW k \in Keys PROVE KeyOK(k)
      <3>1. Guesses(k) = {} BY <2>3 DEF Guesses
      <3>2. Tried(k) \in Nat BY <2>1, TriedType
      <3>3. \A r \in Requests : pc[r] \notin Guessing BY <2>3 DEF Guessing
      <3> QED BY <3>1, <3>2, <3>3, FS_EmptySet DEF KeyOK, LimitedBy
    <2> QED BY <2>1, <2>2, <2>3, <2>4, <2>5 DEF TriesInv, ControlInv, WrongOK
  <1>2. TriesInv /\ [Next]_vars => TriesInv' BY TriesStep
  <1>3. TriesInv => TriesBounded
    <2> SUFFICES ASSUME TriesInv PROVE TriesBounded OBVIOUS
    <2> DEFINE Refused == {r \in wrong : pc[r] = "refused"}
    <2>1. ASSUME NEW a \in Asks
          PROVE  LimitedBy({r \in Refused \cap Verifies : held[r] = {a}})
      <3>1. \A r \in wrong : Keyed(r, a) <=> r \in Verifies /\ held[r] = {a}
        BY <2>1, KeysApart DEF TriesInv, WrongOK, Keyed
      <3>2. {r \in Refused \cap Verifies : held[r] = {a}} = Guesses(a)
        BY <3>1 DEF Guesses
      <3> QED BY <3>2 DEF TriesInv, KeyOK, Keys
    <2>2. ASSUME NEW v \in Verifies
          PROVE  LimitedBy({r \in Refused \cap Confirms : ChallengeOf[r] = v})
      <3>1. \A r \in wrong : Keyed(r, v) <=> r \in Confirms /\ ChallengeOf[r] = v
        BY <2>2, KeysApart, StoredAsked DEF TriesInv, TypeOK, WrongOK, Keyed
      <3>2. {r \in Refused \cap Confirms : ChallengeOf[r] = v} = Guesses(v)
        BY <3>1 DEF Guesses
      <3> QED BY <3>2 DEF TriesInv, KeyOK, Keys
    <2> QED BY <2>1, <2>2 DEF TriesBounded
  <1> QED BY <1>1, <1>2, <1>3, PTL DEF Spec
=============================================================================
