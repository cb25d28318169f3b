---------------------------- MODULE LocationForm ----------------------------
(***************************************************************************)
(* The three inputs by which the resident of the register and login pages  *)
(* chooses a mahalla.  Each change of an input asks for suggestions; their *)
(* answers are applied whenever they come, also when the login page has    *)
(* been switched meanwhile.  Only the answers that select something are    *)
(* modelled, not those that only fill a list.                              *)
(***************************************************************************)
EXTENDS Locations

CONSTANTS
    Typed,       \* Typed[l]: what is typed into input l, 1 for the region
    Default      \* NEXT_PUBLIC_DEFAULT_MAHALLA_ID, in a set

ASSUME TypedAssumption == \A l \in 1 .. 3 : Typed[l] \subseteq DOMAIN Containing

VARIABLES
    mode,        \* the register page, or the login page in one of its modes
    input,       \* input[l]
    selected,    \* selected[l]: selectedRegionId and so on, in a set
    change,      \* change[r]: the change of an input that asked r
    saving,      \* isSubmitting: "no", "registering" or "asking-for-code"
    account,     \* the mahalla the account was registered with, in a set
    lastChange,  \* observation: lastChange[l], the last change of input l or one above,
                 \* or the last time all of them were emptied
    changes,     \* observation: the number of these
    late,        \* observation: the levels where an answer to an earlier change came after
                 \* the last one
    unsure       \* observation: the levels that were so when the form was submitted

form     == <<mode, input, selected, change, saving, account, lastChange, changes, late, unsure>>
formVars == <<form, lists, asked, control>>

Levels == 1 .. 3

Blank == ""   \* nothing typed

FormInit ==
    /\ mode       \in {"register-page", "login"}
    /\ input      = [l \in Levels |-> Blank]
    /\ selected   = [l \in Levels |-> IF l = 3 THEN Default ELSE {}]
    /\ change     = [r \in {} |-> {}]
    /\ saving     = "no"
    /\ account    = {}
    /\ lastChange = [l \in Levels |-> 0]
    /\ changes    = 0
    /\ late       = {}
    /\ unsure     = {}
    /\ LocationsInit
    /\ ControlInit

(* Mutation: a change leaves the selections below.                         *)
Cleared_Own(l) == {l}

Cleared(l) == {k \in Levels : k >= l}

(* handleRegionInputChange and those of the other inputs.                  *)
Change(l, text) ==
    LET parent == IF l = 1 THEN {<<>>} ELSE selected[l - 1] IN
    /\ mode # "login"
    /\ input'      = [k \in Levels |-> IF k = l THEN text ELSE IF k > l THEN Blank ELSE input[k]]
    /\ selected'   = [k \in Levels |-> IF k \in Cleared(l) THEN {} ELSE selected[k]]
    /\ changes'    = changes + 1
    /\ lastChange' = [k \in Levels |-> IF k >= l THEN changes' ELSE lastChange[k]]
    /\ late'       = late \ Cleared(l)
    /\ IF parent = {}
       THEN UNCHANGED <<change, asked, lists, control>>
       ELSE \E r \in Requests : \E p \in parent :
               /\ Ask(r, p, text)
               /\ change' = [q \in DOMAIN change \cup {r} |->
                                IF q = r THEN [level |-> l, number |-> changes'] ELSE change[q]]
    /\ UNCHANGED <<mode, saving, account, unsure>>

(* The login page shows the form, empty, or hides it again.                *)
Toggle ==
    \/ /\ mode = "login" /\ mode' = "resident-register"
       /\ input'      = [l \in Levels |-> Blank]
       /\ selected'   = [l \in Levels |-> {}]
       /\ changes'    = changes + 1
       /\ lastChange' = [l \in Levels |-> changes']
       /\ late'       = {}
       /\ UNCHANGED <<change, saving, account, unsure, asked, lists, control>>
    \/ /\ mode = "resident-register" /\ mode' = "login"
       /\ UNCHANGED <<input, selected, change, saving, account, lastChange, changes, late,
                      unsure, asked, lists, control>>

(* The rest of the handler, at the answer: a name in full is selected.     *)
Apply(r) ==
    LET l     == change[r].level
        match == {p \in answer[r] : Name(p) = asked[r].text}
    IN
    /\ r \in DOMAIN change /\ pc[r] = "done"
    /\ change' = [q \in DOMAIN change \ {r} |-> change[q]]
    /\ IF match = {} /\ l # 3
       THEN UNCHANGED <<selected, late>>
       ELSE /\ selected' = [selected EXCEPT ![l] = match]
            /\ late' = IF change[r].number = lastChange[l] THEN late ELSE late \cup {l}
    /\ UNCHANGED <<mode, input, saving, account, lastChange, changes, unsure, asked, lists,
                   control>>

Effective == IF selected[3] # {} THEN selected[3] ELSE Default

(* handleSubmit: the account, then its first code; a form without mahalla  *)
(* is refused, and so is a second account with the phone number.           *)
Submit ==
    /\ mode # "login" /\ saving = "no" /\ Effective # {}
    /\ saving' = "registering"
    /\ account' = IF account = {} THEN {[home |-> Effective, name |-> input[3]]} ELSE account
    /\ unsure'  = IF account = {} THEN late ELSE unsure
    /\ UNCHANGED <<mode, input, selected, change, lastChange, changes, late, asked, lists, control>>

(* The login page goes back to its login when the code was sent.           *)
Submitted ==
    /\ saving # "no"
    /\ saving' \in {"no", "asking-for-code"} \ {saving}
    /\ mode' = mode \/ (saving = "asking-for-code" /\ mode = "resident-register" /\ mode' = "login")
    /\ UNCHANGED <<input, selected, change, account, lastChange, changes, late, unsure, asked,
                   lists, control>>

FormNext ==
    \/ \E l \in Levels : \E text \in Typed[l] : Change(l, text)
    \/ \E r \in Requests : Apply(r)
    \/ Toggle \/ Submit \/ Submitted
    \/ Serve /\ UNCHANGED form

FormSpec == FormInit /\ [][FormNext]_formVars
-----------------------------------------------------------------------------
FormTypeOK ==
    /\ ListsTypeOK
    /\ mode \in {"register-page", "login", "resident-register"}
    /\ input \in [Levels -> DOMAIN Containing \cup {Blank}]
    /\ selected \in [Levels -> SUBSET (rows \cup Default)]
    /\ selected[1] \cup selected[2] \subseteq rows
    /\ DOMAIN change \subseteq Sent /\ changes \in Nat
    /\ change \in [DOMAIN change -> [level : Levels, number : 1 .. changes]]
    /\ saving \in {"no", "registering", "asking-for-code"}
    /\ account \subseteq [home : SUBSET (rows \cup Default), name : DOMAIN Containing \cup {Blank}]
    /\ lastChange \in [Levels -> 0 .. changes]
    /\ late \subseteq Levels /\ unsure \subseteq Levels

(* What is selected is what its input shows, within the location selected  *)
(* above, and the account is of the mahalla typed or the default one: but  *)
(* where an answer was applied after a later change, or after the switch   *)
(* of the login page emptied the form, or nothing was typed.               *)
SelectionIsTyped ==
    /\ \A l \in Levels \ late : \A p \in selected[l] :
          \/ lastChange[l] = 0
          \/ /\ Name(p) = input[l]
             /\ l = 1 \/ l - 1 \in late \/ Parent(p) \in selected[l - 1]
    /\ \A a \in account : \A p \in a.home \ Default : Name(p) = a.name \/ 3 \in unsure
=============================================================================
