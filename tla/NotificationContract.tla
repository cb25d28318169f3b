------------------------ MODULE NotificationContract ------------------------
(***************************************************************************)
(* What a caller of NotificationsService.notify may rely on, whatever the  *)
(* queue and the worker do: a call that resolves has left a row; a call    *)
(* that fails may have left one; only an e-mail row is ever marked SENT,   *)
(* and a row never goes back.  Notifications implements it.                *)
(***************************************************************************)
CONSTANTS InAppNotes, EmailNotes

VARIABLES row,     \* row[n] \in {"ABSENT", "PENDING", "SENT"}
          outcome  \* outcome[n] \in {"none", "open", "resolved", "failed"}

Notes == InAppNotes \cup EmailNotes

Init == /\ row     = [n \in Notes |-> "ABSENT"]
        /\ outcome = [n \in Notes |-> "none"]

(* The row is there: inserted now, unless it was before. *)
Stored(n) == row' = [row EXCEPT ![n] = IF row[n] = "ABSENT" THEN "PENDING" ELSE row[n]]

Call(n) == /\ outcome[n] = "none"
           /\ outcome' = [outcome EXCEPT ![n] = "open"]
           /\ UNCHANGED row

Store(n) == /\ outcome[n] = "open"
            /\ Stored(n)
            /\ UNCHANGED outcome

Resolve(n) == /\ outcome[n] = "open"
              /\ Stored(n)
              /\ outcome' = [outcome EXCEPT ![n] = "resolved"]

Reject(n) == /\ outcome[n] = "open"
             /\ Stored(n) \/ UNCHANGED row
             /\ outcome' = [outcome EXCEPT ![n] = "failed"]

(* Every call in flight fails at once: the process died. *)
FailAll == /\ outcome' = [n \in Notes |-> IF outcome[n] = "open"
                                          THEN "failed" ELSE outcome[n]]
           /\ UNCHANGED row

Send(n) == /\ n \in EmailNotes
           /\ row[n] = "PENDING"
           /\ row' = [row EXCEPT ![n] = "SENT"]
           /\ UNCHANGED outcome

Next == \/ \E n \in Notes : Call(n) \/ Store(n) \/ Resolve(n) \/ Reject(n) \/ Send(n)
        \/ FailAll

Spec == Init /\ [][Next]_<<row, outcome>>
=============================================================================
