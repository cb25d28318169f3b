------------------------------ MODULE Accounts ------------------------------
(***************************************************************************)
(* UsersService, the registrations and refresh tokens of AuthService, with *)
(* MahallasService: the rows of User, StaffProfile, RefreshToken and       *)
(* Mahalla refer to each other, and are changed by requests of several     *)
(* awaits, without transactions but for one.                               *)
(*                                                                         *)
(* A refresh token is named by the request it was issued to.  All the      *)
(* tokens of a user begin with the same 72 bytes, of which bcrypt makes    *)
(* the hash: a refresh or logout finds any one of those that are stored.   *)
(***************************************************************************)
EXTENDS Mahallas

CONSTANTS
    Users,        \* the ids of users
    FirstUsers,   \* the users there at first: their rows by id
    UserOf,       \* the user in a request, or the one it creates
    PhoneOf,      \* the phone number in a request, in a set
    RoleOf,       \* the role in a request, in a set
    Repositions,  \* the updates with a staffPosition
    Selves        \* the removals of one's own account

ASSUME AccountsAssumption ==
    /\ UserOf \in [Requests -> Users] /\ DOMAIN FirstUsers \subseteq Users
    /\ \A u \in DOMAIN FirstUsers :
          FirstUsers[u].home = {} \/ \E m \in Mahallas : FirstUsers[u].home = {m}
    /\ \A r \in Requests :
          \/ MahallaOf[r] = {} /\ OpOf[r] \notin MahallaOps
          \/ \E m \in Mahallas : MahallaOf[r] = {m}
    /\ \A r \in Requests : \A x, y \in RoleOf[r] : x = y

(* A new user has an id of its own.                                        *)
ASSUME NewUsersAssumption ==
    LET Creations == {r \in Requests : OpOf[r] \in {"register", "createUser"}} IN
    \A r \in Creations : /\ UserOf[r] \notin DOMAIN FirstUsers
                         /\ \A q \in Creations \ {r} : UserOf[q] # UserOf[r]

(* The rows there at first are some that schema.prisma allows; who creates *)
(* a user or a mahalla gives a phone number or all of its names.           *)
ASSUME SchemaAssumption ==
    /\ DOMAIN FirstPlaces \subseteq Mahallas
    /\ \A m, n \in DOMAIN FirstPlaces : FirstPlaces[m] = FirstPlaces[n] => m = n
    /\ \A u, v \in DOMAIN FirstUsers : FirstUsers[u].phone = FirstUsers[v].phone => u = v
    /\ \A u \in DOMAIN FirstUsers : FirstUsers[u].home \subseteq DOMAIN FirstPlaces
    /\ \A r \in Requests :
          /\ OpOf[r] \in {"register", "createUser"} => PhoneOf[r] # {}
          /\ \A x, y \in PhoneOf[r] : x = y
          /\ OpOf[r] = "createMahalla" => \A f \in {"region", "district", "name"} : PlaceOf[r][f] # {}

VARIABLES
    user,         \* the rows of User: [phone, role, home], for the ids there are
    removed,      \* those with a deletedAt
    profiles,     \* the users with a StaffProfile
    issued,       \* the tokens stored
    revoked,      \* those with a revokedAt
    target,       \* target[r]: the row an update read, and the profile in it
    found,        \* found[r]: the token whose row was found, in a set
    presented,    \* observation: presented[r], the token the client sent, in a set
    spenders,     \* observation: the requests that wrote the revocation of a row
    line,         \* observation: line[t], the requests t descends from, with t
    moved,        \* observation: moved[u], the request that gave u its mahalla
    removals      \* observation: the removals that were written

tokenVars == <<issued, revoked, presented, found, spenders, line>>
userVars  == <<user, removed, profiles, target, moved, removals>>
vars      == <<userVars, tokenVars, mahallaVars, control>>

UserWaits == {"checking-mahalla", "checking-phone", "inserting-user", "creating-profile",
              "reading-target", "updating-user", "updating-profile", "deleting-profile",
              "reading-removed", "removing-user", "auditing",
              "signing-in", "finding-token", "revoking", "issuing"}

Init ==
    /\ user     = FirstUsers
    /\ removed  = {}
    /\ profiles = {u \in DOMAIN user : user[u].role = "STAFF"}
    /\ issued   = {}
    /\ revoked  = {}
    /\ target   = [r \in {} |-> {}]
    /\ found    = [r \in Requests |-> {}]
    /\ presented = [r \in Requests |-> {}]
    /\ spenders = {}
    /\ line     = [r \in Requests |-> {}]
    /\ moved    = [u \in Users |-> {}]
    /\ removals = {}
    /\ MahallasInit
    /\ ControlInit

Present == DOMAIN user \ removed
-----------------------------------------------------------------------------
(* RESIDENT and STAFF need a mahalla.                                      *)
Homeless(role, home) == role \in {"RESIDENT", "STAFF"} /\ home = {}

(* The only of a set, or what there is without.                            *)
Given(S, other) == IF S # {} THEN CHOOSE x \in S : TRUE ELSE other

Creates(r) == OpOf[r] \in {"register", "createUser"}

Answer(r) == IF OpOf[r] = "register" THEN "done" ELSE "auditing"

CallUser(r) ==
    /\ \/ /\ Creates(r)
          /\ Arrive(r, IF Homeless(Given(RoleOf[r], "none"), MahallaOf[r]) THEN "refused"
                       ELSE IF MahallaOf[r] # {} THEN "checking-mahalla" ELSE "checking-phone")
       \/ OpOf[r] = "updateUser" /\ Arrive(r, "reading-target")
       \/ OpOf[r] = "removeUser" /\ Arrive(r, IF r \in Selves THEN "refused"
                                                              ELSE "reading-removed")
    /\ UNCHANGED <<userVars, tokenVars, mahallaVars>>

(* Mutation: a mahalla that was removed will do.                           *)
MahallaFound_Removed(r) == MahallaOf[r] \subseteq DOMAIN place

MahallaFound(r) == MahallaOf[r] \subseteq OpenMahallas

CheckMahalla(r) ==
    /\ Step(r, "checking-mahalla", IF ~MahallaFound(r) THEN "refused"
                                   ELSE IF Creates(r) THEN "checking-phone"
                                   ELSE "updating-user")
    /\ UNCHANGED <<userVars, tokenVars, mahallaVars>>

(* The users, removed ones too, with the phone number of r.                *)
Owners(r) == {u \in DOMAIN user : user[u].phone \in PhoneOf[r]}

(* What update does when the phone number is free, or not changed.         *)
Placing(r, read) ==
    IF Homeless(Given(RoleOf[r], read.role), MahallaOf[r] \cup read.home) THEN "refused"
    ELSE IF MahallaOf[r] # {} THEN "checking-mahalla" ELSE "updating-user"

CheckPhone(r) ==
    /\ Step(r, "checking-phone",
            IF Owners(r) \ {u \in {UserOf[r]} : ~Creates(r)} # {} THEN "refused"
            ELSE IF Creates(r) THEN "inserting-user" ELSE Placing(r, target[r].row))
    /\ UNCHANGED <<userVars, tokenVars, mahallaVars>>

(* A write of the user row u; the unique index on phone may refuse it.     *)
WriteUser(r, p, q, row) ==
    /\ IF Owners(r) \subseteq {UserOf[r]}
       THEN /\ Resolve(r, p, q)
            /\ user'  = Put(user, UserOf[r], row)
            /\ moved' = [moved EXCEPT ![UserOf[r]] = IF MahallaOf[r] # {} THEN {r} ELSE @]
       ELSE Step(r, p, "failed") /\ UNCHANGED <<user, moved>>
    /\ UNCHANGED <<removed, profiles, target, removals, tokenVars, mahallaVars>>

InsertUser(r) ==
    WriteUser(r, "inserting-user",
              IF RoleOf[r] = {"STAFF"} THEN "creating-profile" ELSE Answer(r),
              [phone |-> Given(PhoneOf[r], ""), role |-> Given(RoleOf[r], ""),
               home |-> MahallaOf[r]])

(* The unique index on userId may refuse it.                               *)
CreateProfile(r) ==
    /\ IF UserOf[r] \in profiles THEN Step(r, "creating-profile", "failed")
                                 ELSE Resolve(r, "creating-profile", Answer(r))
    /\ profiles' = profiles \cup {UserOf[r]}
    /\ UNCHANGED <<user, removed, target, moved, removals, tokenVars, mahallaVars>>
-----------------------------------------------------------------------------
ReadTarget(r) ==
    LET row == user[UserOf[r]] IN
    /\ IF UserOf[r] \in Present
       THEN /\ Step(r, "reading-target", IF PhoneOf[r] \subseteq {row.phone}
                                         THEN Placing(r, row) ELSE "checking-phone")
            /\ target' = Put(target, r, [row |-> row, profile |-> UserOf[r] \in profiles])
       ELSE Step(r, "reading-target", "refused") /\ UNCHANGED target
    /\ UNCHANGED <<user, removed, profiles, moved, removals, tokenVars, mahallaVars>>

(* Mutation: only a role that is asked for is looked at.                   *)
NextRole_Asked(r) == Given(RoleOf[r], "none")

NextRole(r) == Given(RoleOf[r], target[r].row.role)

(* What is to be done with the profile the user had when it was read.      *)
ProfileStep(r) ==
    IF NextRole(r) = "STAFF"
    THEN IF ~target[r].profile THEN "creating-profile"
         ELSE IF r \in Repositions THEN "updating-profile" ELSE "auditing"
    ELSE IF target[r].profile THEN "deleting-profile" ELSE "auditing"

(* The fields asked for; whether the user was removed is not looked at.    *)
UpdateUser(r) ==
    LET row == user[UserOf[r]] IN
    WriteUser(r, "updating-user", ProfileStep(r),
              [phone |-> Given(PhoneOf[r], row.phone), role |-> Given(RoleOf[r], row.role),
               home |-> IF MahallaOf[r] # {} THEN MahallaOf[r] ELSE row.home])

(* Both fail if there is no profile any more.                              *)
UpdateProfile(r) ==
    /\ IF UserOf[r] \in profiles THEN Resolve(r, "updating-profile", "auditing")
                                 ELSE Step(r, "updating-profile", "failed")
    /\ UNCHANGED <<userVars, tokenVars, mahallaVars>>

DeleteProfile(r) ==
    /\ IF UserOf[r] \in profiles THEN Resolve(r, "deleting-profile", "auditing")
                                 ELSE Step(r, "deleting-profile", "failed")
    /\ profiles' = profiles \ {UserOf[r]}
    /\ UNCHANGED <<user, removed, target, moved, removals, tokenVars, mahallaVars>>

ReadRemoved(r) ==
    /\ Step(r, "reading-removed", IF UserOf[r] \in Present THEN "removing-user" ELSE "refused")
    /\ UNCHANGED <<userVars, tokenVars, mahallaVars>>

(* The tokens of u that are stored and not revoked.                        *)
LiveOf(u) == {t \in issued \ revoked : UserOf[t] = u}

(* Mutation: the tokens are left as they are.                              *)
RevokeAll_None(u) == UNCHANGED revoked

RevokeAll(u) == revoked' = revoked \cup LiveOf(u)

(* The one transaction.                                                    *)
RemoveUser(r) ==
    /\ Resolve(r, "removing-user", "auditing")
    /\ removed'  = removed \cup {UserOf[r]}
    /\ RevokeAll(UserOf[r])
    /\ removals' = removals \cup {r}
    /\ UNCHANGED <<user, profiles, target, moved, issued, presented, found, spenders, line,
                   mahallaVars>>

Audit(r) == Resolve(r, "auditing", "done") /\ UNCHANGED <<userVars, tokenVars, mahallaVars>>
-----------------------------------------------------------------------------
(***************************************************************************)
(* The end of a login, refresh and logout.  A client sends a token it was  *)
(* given, perhaps revoked since.                                           *)
(***************************************************************************)
CallSession(r) ==
    /\ \/ OpOf[r] = "login" /\ Arrive(r, "signing-in") /\ UNCHANGED presented
       \/ /\ OpOf[r] \in {"refresh", "logout"}
          /\ \E t \in issued : UserOf[t] = UserOf[r] /\ presented' = [presented EXCEPT ![r] = {t}]
          /\ Arrive(r, "finding-token")
    /\ UNCHANGED <<userVars, issued, revoked, found, spenders, line, mahallaVars>>

SignIn(r) ==
    /\ Step(r, "signing-in", IF UserOf[r] \in Present THEN "issuing" ELSE "refused")
    /\ UNCHANGED <<userVars, tokenVars, mahallaVars>>

(* Mutation: revoked tokens are found as well.                             *)
Candidates_Revoked(u) == {t \in issued : UserOf[t] = u}

Candidates(u) == LiveOf(u)

(* Any row of the user will do, whatever token was sent.                   *)
FindToken(r) ==
    /\ \/ \E t \in Candidates(UserOf[r]) :
             Step(r, "finding-token", "revoking") /\ found' = [found EXCEPT ![r] = {t}]
       \/ /\ Candidates(UserOf[r]) = {}
          /\ Step(r, "finding-token", IF OpOf[r] = "logout" THEN "done" ELSE "refused")
          /\ UNCHANGED found
    /\ UNCHANGED <<userVars, issued, revoked, presented, spenders, line, mahallaVars>>

(* By id, whether it was revoked meanwhile or not.                         *)
Revoke(r) ==
    /\ Resolve(r, "revoking", IF OpOf[r] = "logout" THEN "done" ELSE "issuing")
    /\ revoked'  = revoked \cup found[r]
    /\ spenders' = spenders \cup {r}
    /\ UNCHANGED <<userVars, issued, presented, found, line, mahallaVars>>

Issue(r) ==
    /\ Resolve(r, "issuing", "done")
    /\ issued' = issued \cup {r}
    /\ line'   = [line EXCEPT ![r] = {r} \cup UNION {line[t] : t \in found[r]}]
    /\ UNCHANGED <<userVars, revoked, presented, found, spenders, mahallaVars>>
-----------------------------------------------------------------------------
Fail(r) == Reject(r) /\ UNCHANGED <<userVars, tokenVars, mahallaVars>>

Crash == Die /\ UNCHANGED <<userVars, tokenVars, mahallaVars>>

HandleUser(r) ==
    \/ CallUser(r) \/ CheckMahalla(r) \/ CheckPhone(r) \/ InsertUser(r) \/ CreateProfile(r)
    \/ ReadTarget(r) \/ UpdateUser(r) \/ UpdateProfile(r) \/ DeleteProfile(r)
    \/ ReadRemoved(r) \/ RemoveUser(r) \/ Audit(r)
    \/ CallSession(r) \/ SignIn(r) \/ FindToken(r) \/ Revoke(r) \/ Issue(r)
    \/ Fail(r)

Next ==
    \/ \E r \in Requests :
          \/ HandleUser(r)
          \/ HandleMahalla(r) /\ UNCHANGED <<userVars, tokenVars>>
          \/ /\ CountUsers(r, \E u \in Present : user[u].home \subseteq MahallaOf[r]
                                                  /\ user[u].home # {})
             /\ UNCHANGED <<userVars, tokenVars>>
    \/ Crash

Spec == Init /\ [][Next]_vars
-----------------------------------------------------------------------------
(* The constraints of schema.prisma: what a row refers to is there, and    *)
(* neither two users nor two mahallas are alike.                           *)
UsersAllowed ==
    /\ DOMAIN user \subseteq Users
    /\ \A u \in DOMAIN user : user[u].home \subseteq DOMAIN place /\ \A x, y \in user[u].home : x = y
    /\ \A u, v \in DOMAIN user : user[u].phone = user[v].phone => u = v
    /\ removed \cup profiles \subseteq DOMAIN user
    /\ revoked \subseteq issued /\ issued \subseteq Requests
    /\ \A t \in issued : UserOf[t] \in DOMAIN user

MahallasAllowed ==
    /\ closed \subseteq DOMAIN place /\ DOMAIN place \subseteq Mahallas
    /\ \A m \in DOMAIN place : {RegionRow(place[m]), DistrictRow(place[m])} \subseteq areas
    /\ \A m, n \in DOMAIN place : place[m] = place[n] => m = n

TypeOK ==
    /\ ControlOK(UserWaits \cup MahallaWaits)
    /\ UsersAllowed /\ MahallasAllowed
    /\ found \in [Requests -> SUBSET issued] /\ presented \in [Requests -> SUBSET issued]
    /\ line \in [Requests -> SUBSET Sent]
    /\ moved \in [Users -> SUBSET Sent]

(* A row of RefreshToken is exchanged, or given up by a logout, once: two  *)
(* requests that did so with the same row ran at the same time.  Which row *)
(* that is need not be the one of the token the client sent.               *)
RowSpentOnce ==
    \A q, r \in spenders : q # r /\ found[q] = found[r] => Overlap(q, r)

(* What rotation and revocation promise of the tokens themselves: one that *)
(* was exchanged or given up is not exchanged again by a later request.    *)
SpentIsRefused ==
    \A q \in spenders, r \in issued :
        presented[r] # {} /\ presented[q] = presented[r] => q \notin before[r]

(* A removed user is signed out: a token left was issued to a login or     *)
(* refresh that overlapped the removal, or descends from one that did.     *)
RemovedMeansOut ==
    \A d \in removals : \A t \in LiveOf(UserOf[d]) : \E q \in line[t] : Overlap(q, d)

(* Exactly the staff have profiles, but for a user with a write under way, *)
(* failed or lost half-way, or with two that overlapped.                   *)
StaffHaveProfiles ==
    \A u \in DOMAIN user :
        LET Writes == {r \in Sent : UserOf[r] = u /\ (Creates(r) \/ OpOf[r] = "updateUser")} IN
        \/ u \in profiles <=> user[u].role = "STAFF"
        \/ \E r \in Writes : pc[r] \notin {"done", "refused"}
        \/ \E q, r \in Writes : q # r /\ Overlap(q, r)

(* A removed mahalla is nobody's: a user it still has came by a request    *)
(* that overlapped the removal.                                            *)
RemovedMahallaIsEmpty ==
    \A u \in Present : \A m \in user[u].home \cap closed :
        \E d \in closedBy, r \in moved[u] : MahallaOf[d] = {m} /\ Overlap(d, r)
=============================================================================
