----------------------------- MODULE Locations -----------------------------
(***************************************************************************)
(* The suggestions of regions, districts and mahallas by MahallasService:  *)
(* from the database, and when these are few also from lists on another    *)
(* host, which one download gets for all the requests that wait for them.  *)
(*                                                                         *)
(* A location is the path of its names; its parent is the path without the *)
(* last.  The rows and the lists name it alike.  Which of more than Limit  *)
(* rows come first is any choice; of the lists only so many are taken, in  *)
(* the order in which they stand there.                                    *)
(***************************************************************************)
EXTENDS Handlers, Sequences

CONSTANTS
    Remote,      \* the locations of the remote lists
    FirstRows,   \* the rows of Region, District and Mahalla at first
    Removed,     \* the mahallas among them with a deletedAt
    Containing,  \* Containing[t]: the names in which a text t is found
    Limit,       \* toSafeLimit
    Multiples,   \* Multiples[l]: how often Limit is taken of the lists, l being 1 for regions
    Position     \* Position[p]: where p stands in them

ASSUME LocationsAssumption ==
    /\ IsFiniteSet(Remote) /\ IsFiniteSet(FirstRows)
    /\ Limit \in Nat
    /\ Multiples \in [1 .. 3 -> Nat \ {0}]
    /\ \A p \in Remote : \E l \in 1 .. 3 :
          p \in [1 .. l -> UNION {Containing[t] : t \in DOMAIN Containing}]
    /\ Position \in [Remote -> Nat]
    /\ \A p, q \in Remote : Position[p] = Position[q] => p = q

VARIABLES
    rows,
    cache,       \* remoteLocationCache: "none" (or of six hours ago) or "fresh"
    download,    \* remoteLocationCachePromise: "none" or "under-way"
    asked,       \* asked[r]: the parent and the text of a request
    answer,      \* answer[r]: the rows it has read
    unlucky      \* observation: the requests under way in a fault

lists == <<rows, cache, download, answer, unlucky>>

LocationWaits == {"reading-rows", "reading-parent", "awaiting-lists", "inserting", "reading-again"}

LocationsInit ==
    /\ rows     = FirstRows
    /\ cache    = "none"
    /\ download = "none"
    /\ asked    = [r \in {} |-> {}]
    /\ answer   = [r \in Requests |-> {}]
    /\ unlucky  = {}

Parent(p) == SubSeq(p, 1, Len(p) - 1)
Name(p)   == p[Len(p)]

(* Those of S that request r asks for.                                     *)
Matching(r, S) ==
    {p \in S : Parent(p) = asked[r].parent /\ Name(p) \in Containing[asked[r].text]}

(* At most n of S, and all if there are not more.                          *)
UpTo(n, S) ==
    {T \in SUBSET S : Cardinality(T) = IF Cardinality(S) < n THEN Cardinality(S) ELSE n}

FirstOf(S) == UpTo(Limit, S)

Wanted(r) == Matching(r, Remote)

(* How many locations of the lists are taken for r at most.                *)
Cap(r) == Multiples[Len(asked[r].parent) + 1] * Limit

(* Those wanted that stand first, of which there is one set.               *)
Taken(r) ==
    {T \in UpTo(Cap(r), Wanted(r)) :
        \A p \in T : \A q \in Wanted(r) \ T : Position[p] < Position[q]}

(* The lists are there: the parent is looked for, then what is in it.      *)
WithLists(r) ==
    IF asked[r].parent \notin Remote \cup {<<>>} THEN "done"
    ELSE IF Wanted(r) # {} THEN "inserting" ELSE "reading-again"

(* getRemoteLocationCache: a download under way is shared.                 *)
GetCache(r, p) ==
    IF cache = "fresh"
    THEN Step(r, p, WithLists(r)) /\ UNCHANGED download
    ELSE Step(r, p, "awaiting-lists") /\ download' = "under-way"
-----------------------------------------------------------------------------
Ask(r, parent, text) ==
    /\ Arrive(r, "reading-rows")
    /\ asked' = [q \in DOMAIN asked \cup {r} |->
                    IF q = r THEN [parent |-> parent, text |-> text] ELSE asked[q]]
    /\ UNCHANGED lists

(* Mutation: a single row is enough.                                       *)
Enough_Some(S) == S # {}

Enough(S) == Cardinality(S) >= Limit

ReadRows(r) ==
    /\ pc[r] = "reading-rows"
    /\ \E S \in FirstOf(Matching(r, rows \ Removed)) :
          /\ answer' = [answer EXCEPT ![r] = S]
          /\ \/ Enough(S)  /\ Step(r, "reading-rows", "done") /\ UNCHANGED download
             \/ ~Enough(S) /\ IF asked[r].parent = <<>>
                              THEN GetCache(r, "reading-rows")
                              ELSE Step(r, "reading-rows", "reading-parent") /\ UNCHANGED download
    /\ UNCHANGED <<rows, cache, asked, unlucky>>

ReadParent(r) ==
    /\ pc[r] = "reading-parent"
    /\ IF asked[r].parent \in rows THEN GetCache(r, "reading-parent")
                                   ELSE Step(r, "reading-parent", "done") /\ UNCHANGED download
    /\ UNCHANGED <<rows, cache, asked, answer, unlucky>>

(* The handlers that waited go on with what the download came to.          *)
Waiting == {r \in Requests : pc[r] = "awaiting-lists"}

Resume(next) ==
    /\ download = "under-way" /\ download' = "none"
    /\ pc' = [r \in Requests |-> IF r \in Waiting THEN next[r] ELSE pc[r]]
    /\ UNCHANGED <<before, rows, asked, answer>>

Download ==
    /\ Resume([r \in Waiting |-> WithLists(r)])
    /\ cache' = "fresh"
    /\ UNCHANGED <<faults, unlucky>>

(* They answer with the rows there were.                                   *)
DownloadFails ==
    /\ Resume([r \in Waiting |-> "done"])
    /\ Fault
    /\ unlucky' = unlucky \cup UnderWay
    /\ UNCHANGED cache

(* skipDuplicates: a removed mahalla stays so.                             *)
Insert(r) ==
    /\ Step(r, "inserting", "reading-again")
    /\ \E T \in Taken(r) : rows' = rows \cup T
    /\ UNCHANGED <<cache, download, asked, answer, unlucky>>

(* Perhaps it has taken effect.                                            *)
InsertFails(r) ==
    /\ pc[r] = "inserting" /\ Goto(r, "done")
    /\ Fault
    /\ unlucky' = unlucky \cup {r}
    /\ \E T \in Taken(r) : rows' \in {rows, rows \cup T}
    /\ UNCHANGED <<before, cache, download, asked, answer>>

ReadAgain(r) ==
    /\ Step(r, "reading-again", "done")
    /\ \E S \in FirstOf(Matching(r, rows \ Removed)) : answer' = [answer EXCEPT ![r] = S]
    /\ UNCHANGED <<rows, cache, download, asked, unlucky>>

ReadFails(r) ==
    /\ pc[r] \in {"reading-rows", "reading-parent", "reading-again"}
    /\ Reject(r)
    /\ unlucky' = unlucky \cup {r}
    /\ UNCHANGED <<rows, cache, download, asked, answer>>

LocationsCrash ==
    /\ Die
    /\ cache'    = "none"
    /\ download' = "none"
    /\ unlucky'  = unlucky \cup UnderWay
    /\ UNCHANGED <<rows, asked, answer>>

(* Six hours pass.                                                         *)
Age ==
    /\ cache = "fresh" /\ cache' = "none"
    /\ UNCHANGED <<rows, download, asked, answer, unlucky, control>>

Serve ==
    \/ \E r \in Requests : \/ ReadRows(r) \/ ReadParent(r) \/ Insert(r) \/ InsertFails(r)
                           \/ ReadAgain(r) \/ ReadFails(r)
    \/ Download \/ DownloadFails \/ LocationsCrash \/ Age
-----------------------------------------------------------------------------
ListsTypeOK ==
    /\ ControlOK(LocationWaits)
    /\ rows \subseteq Remote \cup FirstRows
    /\ cache \in {"none", "fresh"} /\ download \in {"none", "under-way"}
    /\ asked \in [Sent -> [parent : rows \cup {<<>>}, text : DOMAIN Containing]]
    /\ answer \in [Requests -> SUBSET (rows \ Removed)]
    /\ unlucky \subseteq Requests

(* A request is answered with Limit locations or with all there are of     *)
(* both sources, unless its own calls, or the download it shared, failed,  *)
(* or so many that match were removed that they alone leave less than      *)
(* Limit of what is taken of the lists.                                    *)
AnswersAreComplete ==
    \A r \in Requests \ unlucky :
        pc[r] = "done" /\ asked[r].parent \in Remote \cup {<<>>} =>
            \/ Cardinality(answer[r]) = Limit
            \/ Matching(r, (Remote \cup FirstRows) \ Removed) \subseteq answer[r]
            \/ Cardinality(Wanted(r) \cap Removed) > Cap(r) - Limit
=============================================================================
