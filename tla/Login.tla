-------------------------------- MODULE Login --------------------------------
(***************************************************************************)
(* AuthService's login by one-time code, with the rate windows and the     *)
(* second factor AuthSecurityService keeps in the process's memory.        *)
(*                                                                         *)
(* One phone number: the codes, windows and challenges of two are          *)
(* independent.  A code is named by the request that asked for it, a       *)
(* challenge by the verification that issued it, a refresh token by the    *)
(* request it was issued to.  Whether the text a client sends is the one   *)
(* texted to the phone is any choice.                                      *)
(***************************************************************************)
EXTENDS Handlers, Sequences

CONSTANTS
    OpOf,                         \* "ask", "verify" or "confirm"
    FlowOf,                       \* the endpoint an ask or a verification uses
    ChallengeOf,                  \* the challenge in a confirmation's pending token
    Max, Window,                  \* the rate limit of each operation
    CodeTtl, ChallengeTtl,
    MaxAttempts,                  \* otp.maxAttempts and twoFactor.maxAttempts
    Roles,                        \* bound: the roles the user has in turn
    MaxTime, MaxChanges           \* bounds on what happens in a behaviour

(* The limits and times are positive, which env.validation.ts sees to.     *)
ASSUME LoginAssumption ==
    /\ OpOf \in [Requests -> {"ask", "verify", "confirm"}]
    /\ \A r \in Requests : OpOf[r] = "confirm" =>
          ChallengeOf[r] \in Requests /\ OpOf[ChallengeOf[r]] = "verify"
    /\ Max \in [{"ask", "verify"} -> Nat \ {0}]
    /\ Window \in [{"ask", "verify"} -> Nat \ {0}]
    /\ MaxAttempts \in Nat \ {0}
    /\ CodeTtl \in Nat /\ ChallengeTtl \in Nat /\ MaxTime \in Nat /\ MaxChanges \in Nat

Asks     == {r \in Requests : OpOf[r] = "ask"}
Verifies == {r \in Requests : OpOf[r] = "verify"}
Confirms == {r \in Requests : OpOf[r] = "confirm"}

VARIABLES
    \* the database
    codes,       \* the rows of OtpCode, in the order of createdAt
    codeEnds,    \* codeEnds[a]: expiresAt
    attempts,    \* attempts[a]
    consumed,    \* the codes with a consumedAt
    role,        \* the user's role, "REMOVED" with a deletedAt
    tokens,      \* the requests whose refresh token is stored
    \* the process
    windows,     \* windows[op]: the phone's rate window
    challenges,  \* the keys of twoFactorChallenges
    challengeEnds, tries,  \* the fields of the challenge objects
    now,         \* Date.now()
    held,        \* held[r]: the code a verification found, in a set
    \* observation
    wrong,       \* the requests whose text was not the one of their code
    accepted,    \* the requests whose text was, and which used the code up
    admitted,    \* admitted[r]: when this process let r in, in a set
    changes

otp       == <<codes, codeEnds, attempts, consumed>>
factor    == <<challenges, challengeEnds, tries>>
noted     == <<wrong, accepted, admitted, changes>>
vars      == <<otp, role, tokens, windows, factor, now, held, noted, control>>

NoWindow == [count |-> 0, ends |-> 0]

Waits ==
    {"reading-account", "creating", "texting-code",               \* ask
     "finding", "counting", "reading-user", "consuming",          \* verify
     "weighing", "hashing", "texting-factor",
     "opening", "comparing", "reading-confirmed",                 \* confirm
     "issuing"}                                                   \* the last two

Init ==
    /\ codes    = <<>>
    /\ codeEnds = [a \in Asks |-> 0]
    /\ attempts = [a \in Asks |-> 0]
    /\ consumed = {}
    /\ role \in Roles
    /\ tokens   = {}
    /\ windows  = [op \in {"ask", "verify"} |-> NoWindow]
    /\ challenges    = {}
    /\ challengeEnds = [v \in Verifies |-> 0]
    /\ tries    = [v \in Verifies |-> 0]
    /\ now      = 0
    /\ held     = [r \in Requests |-> {}]
    /\ wrong    = {}
    /\ accepted = {}
    /\ admitted = [r \in Requests |-> {}]
    /\ changes  = 0
    /\ ControlInit

Position(a) == CHOOSE i \in DOMAIN codes : codes[i] = a
Stored      == {codes[i] : i \in DOMAIN codes}
-----------------------------------------------------------------------------
(* Mutation: the instant a window ends is still in it.                     *)
RateReached_Closed(w, op) == w.ends >= now /\ w.count >= Max[op]

RateReached(w, op) == w.ends > now /\ w.count >= Max[op]

Counted(w, op) ==
    IF w.ends <= now THEN [count |-> 1, ends |-> now + Window[op]]
                     ELSE [w EXCEPT !.count = @ + 1]

(* assertRateLimit and the start of requestOtpByFlow and verifyOtpByFlow.  *)
CallByPhone(r) ==
    LET op == OpOf[r] IN
    /\ op \in {"ask", "verify"}
    /\ IF RateReached(windows[op], op)
       THEN Arrive(r, "limited") /\ UNCHANGED <<windows, admitted>>
       ELSE /\ Arrive(r, IF op = "ask" THEN "reading-account" ELSE "finding")
            /\ windows'  = [windows EXCEPT ![op] = Counted(@, op)]
            /\ admitted' = [admitted EXCEPT ![r] = {now}]
    /\ UNCHANGED <<otp, role, tokens, factor, now, held, wrong, accepted, changes>>

(* verifyTwoFactor, with the pending token of an answered verification.    *)
CallConfirm(r) ==
    /\ r \in Confirms
    /\ pc[ChallengeOf[r]] = "done" /\ challengeEnds[ChallengeOf[r]] # 0
    /\ Arrive(r, "opening")
    /\ UNCHANGED <<otp, role, tokens, windows, factor, now, held, noted>>

(* isUserAllowedForFlow, for a user who is there.                          *)
Allowed(r) ==
    \/ role = "SUPER_ADMIN"
    \/ FlowOf[r] = "mahalla"  /\ role \in {"ADMIN", "STAFF"}
    \/ FlowOf[r] = "resident" /\ role = "RESIDENT"
    \/ FlowOf[r] = "app"      /\ role \in {"ADMIN", "STAFF", "RESIDENT"}
-----------------------------------------------------------------------------
(***************************************************************************)
(* requestOtpByFlow: a phone that may not log in is answered like one that *)
(* may.                                                                    *)
(***************************************************************************)
ReadAccount(r) ==
    /\ Step(r, "reading-account", IF Allowed(r) THEN "creating" ELSE "done")
    /\ UNCHANGED <<otp, role, tokens, windows, factor, now, held, noted>>

CreateCode(r) ==
    /\ Resolve(r, "creating", "texting-code")
    /\ codes'    = Append(codes, r)
    /\ codeEnds' = [codeEnds EXCEPT ![r] = now + CodeTtl]
    /\ UNCHANGED <<attempts, consumed, role, tokens, windows, factor, now, held, noted>>

TextCode(r) ==
    /\ Step(r, "texting-code", "done")
    /\ UNCHANGED <<otp, role, tokens, windows, factor, now, held, noted>>

(***************************************************************************)
(* verifyOtpByFlow: the newest code not used yet is read, checked and      *)
(* compared; nothing is written between.                                   *)
(***************************************************************************)
Unused == Stored \ consumed

(* Mutation: the oldest.                                                   *)
Newest_Oldest == {a \in Unused : \A b \in Unused : Position(a) <= Position(b)}

Newest == {a \in Unused : \A b \in Unused : Position(b) <= Position(a)}

(* Mutation: the limit is not looked at.                                   *)
Usable_Untried(a) == codeEnds[a] >= now

Usable(a) == attempts[a] < MaxAttempts /\ codeEnds[a] >= now

FindCode(r) ==
    /\ held' = [held EXCEPT ![r] = Newest]
    /\ IF \E a \in Newest : Usable(a)
       THEN \/ Step(r, "finding", "reading-user") /\ UNCHANGED wrong
            \/ Step(r, "finding", "counting") /\ wrong' = wrong \cup {r}
       ELSE Step(r, "finding", "refused") /\ UNCHANGED wrong
    /\ UNCHANGED <<otp, role, tokens, windows, factor, now, accepted, admitted, changes>>

CountAttempt(r) ==
    /\ Resolve(r, "counting", "refused")
    /\ attempts' = [a \in Asks |-> attempts[a] + Cardinality(held[r] \cap {a})]
    /\ UNCHANGED <<codes, codeEnds, consumed, role, tokens, windows, factor, now, held,
                   noted>>

ReadUser(r) ==
    /\ Step(r, "reading-user", IF Allowed(r) THEN "consuming" ELSE "refused")
    /\ UNCHANGED <<otp, role, tokens, windows, factor, now, held, noted>>

(* Mutation: consumedAt is not written.                                    *)
UseUp_Keep(r) == UNCHANGED consumed

UseUp(r) == consumed' = consumed \cup held[r]

Consume(r) ==
    /\ Resolve(r, "consuming", "weighing")
    /\ UseUp(r)
    /\ accepted' = accepted \cup {r}
    /\ UNCHANGED <<codes, codeEnds, attempts, role, tokens, windows, factor, now, held,
                   wrong, admitted, changes>>

(* shouldRequireTwoFactor looks at the user read before; twoFaRequired of  *)
(* a staff member, and enforceForPrivileged, are any choice.               *)
Weigh(r) ==
    /\ \E next \in {"hashing", "issuing"} : Step(r, "weighing", next)
    /\ UNCHANGED <<otp, role, tokens, windows, factor, now, held, noted>>

Fresh(C) == {v \in C : challengeEnds[v] > now}

StoreChallenge(r) ==
    /\ Step(r, "hashing", "texting-factor")
    /\ challenges'    = Fresh(challenges) \cup {r}
    /\ challengeEnds' = [challengeEnds EXCEPT ![r] = now + ChallengeTtl]
    /\ UNCHANGED <<otp, role, tokens, windows, tries, now, held, noted>>

TextFactor(r) ==
    /\ Step(r, "texting-factor", "done")
    /\ UNCHANGED <<otp, role, tokens, windows, factor, now, held, noted>>
-----------------------------------------------------------------------------
(***************************************************************************)
(* verifyTwoFactor and validateTwoFactorChallenge: an object taken from    *)
(* the map is kept over the comparison, and a wrong text puts it back.     *)
(***************************************************************************)
Spent(v) == tries[v] >= MaxAttempts

Open(r) ==
    LET v == ChallengeOf[r] IN
    /\ Step(r, "opening", IF v \in Fresh(challenges) /\ ~Spent(v)
                             THEN "comparing" ELSE "refused")
    /\ challenges' = Fresh(challenges) \ {c \in {v} : Spent(c)}
    /\ UNCHANGED <<otp, role, tokens, windows, challengeEnds, tries, now, held, noted>>

Mismatch(r) ==
    LET v == ChallengeOf[r] IN
    /\ Step(r, "comparing", "refused")
    /\ tries'      = [tries EXCEPT ![v] = @ + 1]
    /\ challenges' = challenges \cup {v}
    /\ wrong'      = wrong \cup {r}
    /\ UNCHANGED <<otp, role, tokens, windows, challengeEnds, now, held, accepted,
                   admitted, changes>>

Forget(v) == challenges' = challenges \ {v}

Match(r) ==
    /\ Step(r, "comparing", "reading-confirmed")
    /\ Forget(ChallengeOf[r])
    /\ accepted' = accepted \cup {r}
    /\ UNCHANGED <<otp, role, tokens, windows, challengeEnds, tries, now, held, wrong,
                   admitted, changes>>

ReadConfirmed(r) ==
    /\ Step(r, "reading-confirmed", IF role = "REMOVED" THEN "refused" ELSE "issuing")
    /\ UNCHANGED <<otp, role, tokens, windows, factor, now, held, noted>>

(* issueTokens *)
Issue(r) ==
    /\ Resolve(r, "issuing", "done")
    /\ tokens' = tokens \cup {r}
    /\ UNCHANGED <<otp, role, windows, factor, now, held, noted>>
-----------------------------------------------------------------------------
Fail(r) == Reject(r) /\ UNCHANGED <<otp, role, tokens, windows, factor, now, held, noted>>

(* What AuthSecurityService keeps is gone.                                 *)
Crash ==
    /\ Die
    /\ windows'    = [op \in {"ask", "verify"} |-> NoWindow]
    /\ challenges' = {}
    /\ admitted'   = [r \in Requests |-> {}]
    /\ UNCHANGED <<otp, role, tokens, challengeEnds, tries, now, held, wrong, accepted,
                   changes>>

(* UsersService changes or removes the user.                               *)
ChangeUser ==
    /\ changes < MaxChanges
    /\ changes' = changes + 1
    /\ role' \in (Roles \cup {"REMOVED"}) \ {role}
    /\ UNCHANGED <<otp, tokens, windows, factor, now, held, wrong, accepted, admitted,
                   control>>

Tick ==
    /\ now < MaxTime
    /\ now' = now + 1
    /\ UNCHANGED <<otp, role, tokens, windows, factor, held, noted, control>>

Handle(r) ==
    \/ CallByPhone(r) \/ CallConfirm(r)
    \/ ReadAccount(r) \/ CreateCode(r) \/ TextCode(r)
    \/ FindCode(r) \/ CountAttempt(r) \/ ReadUser(r) \/ Consume(r)
    \/ Weigh(r) \/ StoreChallenge(r) \/ TextFactor(r)
    \/ Open(r) \/ Mismatch(r) \/ Match(r) \/ ReadConfirmed(r)
    \/ Issue(r) \/ Fail(r)

Next == (\E r \in Requests : Handle(r)) \/ Crash \/ ChangeUser \/ Tick

Spec == Init /\ [][Next]_vars
-----------------------------------------------------------------------------
(* The state has its type.                                                 *)
TypeOK ==
    /\ codes \in Seq(Asks) /\ consumed \subseteq Stored
    /\ codeEnds \in [Asks -> Nat] /\ attempts \in [Asks -> Nat]
    /\ role \in Roles \cup {"REMOVED"}
    /\ tokens \subseteq Requests /\ wrong \subseteq Requests /\ accepted \subseteq Requests
    /\ windows \in [{"ask", "verify"} -> [count : Nat, ends : Nat]]
    /\ challenges \subseteq Verifies
    /\ challengeEnds \in [Verifies -> Nat] /\ tries \in [Verifies -> Nat]
    /\ held \in [Requests -> SUBSET Stored]
    /\ admitted \in [Requests -> SUBSET Nat]
    /\ now \in 0 .. MaxTime /\ changes \in 0 .. MaxChanges
    /\ ControlOK(Waits)

(* The windows are fixed ones, which start with a request.  So a request   *)
(* is refused only if max have been let in since a window's length ago,    *)
(* and let in only if fewer than twice max have; a restart forgets them.   *)
RateLimitHolds ==
    [][\A r \in Asks \cup Verifies :
          LET recent == {q \in Requests : /\ OpOf[q] = OpOf[r]
                                         /\ \E t \in admitted[q] : t + Window[OpOf[r]] > now}
          IN  pc[r] = "unsent" /\ pc'[r] # "unsent" =>
                  IF pc'[r] = "limited" THEN Cardinality(recent) >= Max[OpOf[r]]
                                        ELSE Cardinality(recent) < 2 * Max[OpOf[r]]]_vars

(* A code opens one session: two verifications that used up the same code  *)
(* ran at the same time, between the reading of the code and consumedAt.   *)
CodeUsedOnce ==
    \A q, r \in accepted \cap Verifies :
        q # r /\ held[q] = held[r] => Overlap(q, r)

(* A challenge is passed once, unless two confirmations ran together, or a *)
(* wrong one ran with the first to pass and put the challenge back.        *)
ChallengePassedOnce ==
    \A q, r \in accepted \cap Confirms :
        q # r /\ ChallengeOf[q] = ChallengeOf[r] =>
            \/ Overlap(q, r)
            \/ \E w \in wrong \cap Confirms :
                  /\ ChallengeOf[w] = ChallengeOf[q]
                  /\ Overlap(w, q) \/ Overlap(w, r)

(* Both: a code and a challenge let their sender in once, up to requests   *)
(* that run at the same time.                                              *)
AcceptedOnce == CodeUsedOnce /\ ChallengePassedOnce

(* Of the requests answered that their text is wrong, fewer than           *)
(* MaxAttempts did not run together with the last of them to look at the   *)
(* attempts: the limit holds up to what runs at the same time.             *)
LimitedBy(W) ==
    W = {} \/ \E last \in W :
                 Cardinality({w \in W \ {last} : ~Overlap(w, last)}) < MaxAttempts

TriesBounded ==
    LET Refused == {r \in wrong : pc[r] = "refused"} IN
    /\ \A a \in Asks : LimitedBy({r \in Refused \cap Verifies : held[r] = {a}})
    /\ \A v \in Verifies : LimitedBy({r \in Refused \cap Confirms : ChallengeOf[r] = v})

(* An older code is good again only once the newer ones are used: what a   *)
(* verification used up was the newest, of the codes stored by requests    *)
(* answered before it was made, that has not been used.                    *)
JudgedByNewest ==
    \A r \in accepted \cap Verifies : \A a \in held[r], b \in before[r] \cap Stored :
        Position(b) > Position(a) => b \in consumed
=============================================================================
