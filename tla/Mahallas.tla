------------------------------ MODULE Mahallas ------------------------------
(***************************************************************************)
(* MahallasService: create, update and remove of mahallas with their       *)
(* regions and districts.  A mahalla is identified by its id; its place,   *)
(* which a unique index keeps to one row, also removed ones, is the names  *)
(* of its region, its district and itself.                                 *)
(***************************************************************************)
EXTENDS Handlers

CONSTANTS
    OpOf,         \* the operation of each request
    Mahallas,     \* the ids of mahallas
    FirstPlaces,  \* the mahallas there at first: their places by id
    MahallaOf,    \* the id in a request, in a set, or the one it would create
    PlaceOf       \* the names in a request, each in a set

(* A new mahalla has an id of its own; a request names a thing once.       *)
ASSUME MahallasAssumption ==
    LET Creations == {r \in Requests : OpOf[r] = "createMahalla"} IN
    /\ \A r \in Creations : /\ MahallaOf[r] \cap DOMAIN FirstPlaces = {}
                            /\ \A q \in Creations \ {r} : MahallaOf[q] \cap MahallaOf[r] = {}
    /\ \A r \in Requests : \A f \in {"region", "district", "name"} :
          \A x, y \in PlaceOf[r][f] : x = y

VARIABLES
    areas,        \* the rows of Region and District
    place,        \* the rows of Mahalla: place[m], for the ids there are
    closed,       \* those with a deletedAt
    current,      \* current[r]: the place an update read
    renamed,      \* observation: the updates that were written
    closedBy      \* observation: the removals that were written

mahallaVars == <<areas, place, closed, current, renamed, closedBy>>

MahallaOps   == {"createMahalla", "updateMahalla", "removeMahalla"}
MahallaWaits == {"reading-mahalla", "upserting-region", "upserting-district",
                 "upserting-mahalla", "updating-mahalla", "counting-users",
                 "removing-mahalla", "auditing-mahalla"}

RegionRow(p)   == [region |-> p.region]
DistrictRow(p) == [region |-> p.region, district |-> p.district]

MahallasInit ==
    /\ place    = FirstPlaces
    /\ areas    = UNION {{RegionRow(place[m]), DistrictRow(place[m])} : m \in DOMAIN place}
    /\ closed   = {}
    /\ current  = [r \in {} |-> {}]
    /\ renamed  = {}
    /\ closedBy = {}

Put(f, x, y) == [z \in DOMAIN f \cup {x} |-> IF z = x THEN y ELSE f[z]]

Target(r) == CHOOSE m \in MahallaOf[r] : TRUE
OpenMahallas == DOMAIN place \ closed
-----------------------------------------------------------------------------
CallMahalla(r) ==
    /\ OpOf[r] \in MahallaOps
    /\ Arrive(r, IF OpOf[r] = "createMahalla" THEN "upserting-region" ELSE "reading-mahalla")
    /\ UNCHANGED mahallaVars

(* The first await of update and of remove.                                *)
ReadMahalla(r) ==
    /\ Step(r, "reading-mahalla",
            IF Target(r) \notin OpenMahallas THEN "refused"
            ELSE IF OpOf[r] = "updateMahalla" THEN "upserting-region" ELSE "counting-users")
    /\ current' = IF Target(r) \in DOMAIN place THEN Put(current, r, place[Target(r)])
                                                ELSE current
    /\ UNCHANGED <<areas, place, closed, renamed, closedBy>>

(* The names asked for, and for those left out the ones that were read.    *)
NextPlace(r) ==
    LET Name(f) == IF PlaceOf[r][f] # {} THEN CHOOSE n \in PlaceOf[r][f] : TRUE
                                         ELSE current[r][f]
    IN  [region   |-> Name("region"),
         district |-> Name("district"),
         name     |-> Name("name")]

UpsertRegion(r) ==
    /\ Resolve(r, "upserting-region", "upserting-district")
    /\ areas' = areas \cup {RegionRow(NextPlace(r))}
    /\ UNCHANGED <<place, closed, current, renamed, closedBy>>

UpsertDistrict(r) ==
    /\ Resolve(r, "upserting-district",
               IF OpOf[r] = "createMahalla" THEN "upserting-mahalla" ELSE "updating-mahalla")
    /\ areas' = areas \cup {DistrictRow(NextPlace(r))}
    /\ UNCHANGED <<place, closed, current, renamed, closedBy>>

At(p) == {m \in DOMAIN place : place[m] = p}

(* A mahalla that was removed is there again, with its id.                 *)
UpsertMahalla(r) ==
    LET p == NextPlace(r) IN
    /\ Resolve(r, "upserting-mahalla", "auditing-mahalla")
    /\ place'  = IF At(p) = {} THEN Put(place, Target(r), p) ELSE place
    /\ closed' = closed \ At(p)
    /\ UNCHANGED <<areas, current, renamed, closedBy>>

(* Mutation: a name that is taken is answered as a success.                *)
Conflict_Ignored == "done"

Conflict == "refused"

(* Whether the mahalla was removed meanwhile is not looked at.             *)
UpdateMahalla(r) ==
    LET p == NextPlace(r) IN
    /\ pc[r] = "updating-mahalla"
    /\ IF At(p) \subseteq MahallaOf[r]
       THEN /\ Resolve(r, "updating-mahalla", "auditing-mahalla")
            /\ place'   = [place EXCEPT ![Target(r)] = p]
            /\ renamed' = renamed \cup {r}
       ELSE Step(r, "updating-mahalla", Conflict) /\ UNCHANGED <<place, renamed>>
    /\ UNCHANGED <<areas, closed, current, closedBy>>

CountUsers(r, inhabited) ==
    /\ Step(r, "counting-users", IF inhabited THEN "refused" ELSE "removing-mahalla")
    /\ UNCHANGED mahallaVars

RemoveMahalla(r) ==
    /\ Resolve(r, "removing-mahalla", "auditing-mahalla")
    /\ closed'   = closed \cup {Target(r)}
    /\ closedBy' = closedBy \cup {r}
    /\ UNCHANGED <<areas, place, current, renamed>>

AuditMahalla(r) == Resolve(r, "auditing-mahalla", "done") /\ UNCHANGED mahallaVars

HandleMahalla(r) ==
    \/ CallMahalla(r) \/ ReadMahalla(r) \/ UpsertRegion(r) \/ UpsertDistrict(r)
    \/ UpsertMahalla(r) \/ UpdateMahalla(r) \/ RemoveMahalla(r) \/ AuditMahalla(r)
-----------------------------------------------------------------------------
(* An update that was answered stands: what it asked for is the place of   *)
(* its mahalla, but for what another update asked for or a request that    *)
(* overlapped it wrote back.                                               *)
RenameStands ==
    \A r \in Requests :
        OpOf[r] = "updateMahalla" /\ pc[r] = "done" =>
            \A f \in {"region", "district", "name"} :
                \/ PlaceOf[r][f] \subseteq {place[Target(r)][f]}
                \/ \E q \in renamed \ {r} :
                      /\ MahallaOf[q] = MahallaOf[r]
                      /\ Overlap(q, r) \/ PlaceOf[q][f] = {place[Target(r)][f]}
=============================================================================
