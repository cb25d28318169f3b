--------------------------- MODULE Notifications ---------------------------
(***************************************************************************)
(* NotificationsService.notify, the BullMQ queue "notifications" it adds   *)
(* e-mail jobs to, and NotificationsProcessor, which runs in the same      *)
(* process and marks their rows SENT.                                      *)
(*                                                                         *)
(* A note is one call of notify, the row it inserts and, for the EMAIL     *)
(* channel, the job it adds: they share an identity because a row and a    *)
(* job are created by exactly one call.  Every await is a step of its own. *)
(*                                                                         *)
(* A fault is a call to PostgreSQL or Redis that rejects, or the death of  *)
(* the process (docker-compose.yml restarts it).  A rejected call may have *)
(* taken effect before its reply was lost.  The process's memory dies with *)
(* it; rows and jobs do not.  MaxFaults bounds the faults of a behaviour.  *)
(***************************************************************************)
EXTENDS Naturals

CONSTANTS InAppNotes,  \* notes for the channel IN_APP: a row and nothing else
          EmailNotes,  \* notes for the channel EMAIL: a row and a job
          MaxFaults    \* bound on the faults of a behaviour

ASSUME ChannelsAreDisjoint == InAppNotes \cap EmailNotes = {}
ASSUME MaxFaultsIsNat      == MaxFaults \in Nat

Notes == InAppNotes \cup EmailNotes

VARIABLES
    row,      \* row[n]: the notification row; "ABSENT" before its insertion
    call,     \* call[n]: where the call of notify is
    job,      \* job[n]: the BullMQ job of an e-mail note
    stalled,  \* the jobs BullMQ has already put back once after a stall
    faults

vars == <<row, call, job, stalled, faults>>

(* FAILED is declared by the schema and written by no code. *)
RowStatus == {"ABSENT", "PENDING", "SENT"}

CallState ==
    {"none",       \* not called
     "creating",   \* awaiting prisma.notification.create
     "adding",     \* awaiting notificationQueue.add
     "added",      \* the job is in Redis, its reply is on the way
     "resolved", "rejected",
     "lost"}       \* the process died during the call

JobState ==
    {"none", "waiting",
     "active",      \* a worker runs process(): the update is awaited
     "processed",   \* process() has returned, the job is still in the active list
     "orphaned",    \* in the active list of a worker that died
     "completed", "failed"}

Init ==
    /\ row     = [n \in Notes |-> "ABSENT"]
    /\ call    = [n \in Notes |-> "none"]
    /\ job     = [n \in Notes |-> "none"]
    /\ stalled = {}
    /\ faults  = 0

Fault == faults < MaxFaults /\ faults' = faults + 1

(***************************************************************************)
(* notify(): insert the row; for EMAIL then add the job; return the row.   *)
(***************************************************************************)

Notify(n) ==
    /\ call[n] = "none"
    /\ call' = [call EXCEPT ![n] = "creating"]
    /\ UNCHANGED <<row, job, stalled, faults>>

CreateRow(n) ==
    /\ call[n] = "creating"
    /\ row'  = [row EXCEPT ![n] = "PENDING"]
    /\ call' = [call EXCEPT ![n] = IF n \in EmailNotes THEN "adding" ELSE "resolved"]
    /\ UNCHANGED <<job, stalled, faults>>

(* Mutation: the add goes to a queue that has no worker. *)
AddJob_WrongQueue(n) ==
    /\ call[n] = "adding"
    /\ call' = [call EXCEPT ![n] = "added"]
    /\ UNCHANGED <<row, job, stalled, faults>>

AddJob(n) ==
    /\ call[n] = "adding"
    /\ job'  = [job EXCEPT ![n] = "waiting"]
    /\ call' = [call EXCEPT ![n] = "added"]
    /\ UNCHANGED <<row, stalled, faults>>

AddReply(n) ==
    /\ call[n] = "added"
    /\ call' = [call EXCEPT ![n] = "resolved"]
    /\ UNCHANGED <<row, job, stalled, faults>>

(* Mutation: the caller does not learn of the rejected insert. *)
CreateRowFails_Swallowed(n) ==
    /\ call[n] = "creating"
    /\ Fault
    /\ \E written \in {"ABSENT", "PENDING"} : row' = [row EXCEPT ![n] = written]
    /\ call' = [call EXCEPT ![n] = "resolved"]
    /\ UNCHANGED <<job, stalled>>

(* The insert rejects: nothing catches it and the job is not added. *)
CreateRowFails(n) ==
    /\ call[n] = "creating"
    /\ Fault
    /\ \E written \in {"ABSENT", "PENDING"} : row' = [row EXCEPT ![n] = written]
    /\ call' = [call EXCEPT ![n] = "rejected"]
    /\ UNCHANGED <<job, stalled>>

(* The add rejects, before or after the job reached Redis; the row stays. *)
AddJobFails(n) ==
    /\ call[n] \in {"adding", "added"}
    /\ Fault
    /\ call' = [call EXCEPT ![n] = "rejected"]
    /\ UNCHANGED <<row, job, stalled>>

(***************************************************************************)
(* The worker: one job at a time (BullMQ's default concurrency), one       *)
(* attempt (its default), any waiting job first: the queue's order is left *)
(* open.                                                                   *)
(***************************************************************************)
TakeJob(n) ==
    /\ job[n] = "waiting"
    /\ \A m \in Notes : job[m] \notin {"active", "processed"}
    /\ job' = [job EXCEPT ![n] = "active"]
    /\ UNCHANGED <<row, call, stalled, faults>>

(* Mutation: process() returns without the update. *)
Process_SkipsUpdate(n) ==
    /\ job[n] = "active"
    /\ row[n] # "ABSENT"
    /\ job' = [job EXCEPT ![n] = "processed"]
    /\ UNCHANGED <<row, call, stalled, faults>>

(* process(): the row's update succeeds. *)
Process(n) ==
    /\ job[n] = "active"
    /\ row[n] # "ABSENT"
    /\ row' = [row EXCEPT ![n] = "SENT"]
    /\ job' = [job EXCEPT ![n] = "processed"]
    /\ UNCHANGED <<call, stalled, faults>>

(* The update rejects: Prisma has no row to update, or the connection is   *)
(* lost, perhaps after the update.                                         *)
ProcessFails(n) ==
    /\ job[n] = "active"
    /\ IF row[n] = "ABSENT"
       THEN UNCHANGED <<row, faults>>
       ELSE /\ Fault
            /\ \E written \in {row[n], "SENT"} : row' = [row EXCEPT ![n] = written]
    /\ job' = [job EXCEPT ![n] = "failed"]
    /\ UNCHANGED <<call, stalled>>

CompleteJob(n) ==
    /\ job[n] = "processed"
    /\ job' = [job EXCEPT ![n] = "completed"]
    /\ UNCHANGED <<row, call, stalled, faults>>

(* BullMQ's stalled check (maxStalledCount 1): a job whose worker died is  *)
(* put back once and failed the second time.                               *)
RecoverStalled(n) ==
    /\ job[n] = "orphaned"
    /\ job' = [job EXCEPT ![n] = IF n \in stalled THEN "failed" ELSE "waiting"]
    /\ stalled' = stalled \cup {n}
    /\ UNCHANGED <<row, call, faults>>

(***************************************************************************)
(* The process dies and is restarted.                                      *)
(***************************************************************************)
Crash ==
    /\ Fault
    /\ call' = [n \in Notes |-> IF call[n] \in {"creating", "adding", "added"}
                                THEN "lost" ELSE call[n]]
    /\ job'  = [n \in Notes |-> IF job[n] \in {"active", "processed"}
                                THEN "orphaned" ELSE job[n]]
    /\ UNCHANGED <<row, stalled>>

ServiceStep(n) == Notify(n) \/ CreateRow(n) \/ AddJob(n) \/ AddReply(n)
WorkerStep(n)  == TakeJob(n) \/ Process(n) \/ CompleteJob(n) \/ RecoverStalled(n)
FaultStep(n)   == CreateRowFails(n) \/ AddJobFails(n) \/ ProcessFails(n)

(* Nothing is called or queued any more: the only state that may stop. *)
Settled ==
    \A n \in Notes : /\ call[n] \in {"resolved", "rejected", "lost"}
                     /\ job[n] \in {"none", "completed", "failed"}

Rest == Settled /\ UNCHANGED vars

Next ==
    \/ \E n \in Notes : ServiceStep(n) \/ WorkerStep(n) \/ FaultStep(n)
    \/ Crash
    \/ Rest

Spec == Init /\ [][Next]_vars

(* A database or Redis call is answered or rejected in the end, and the    *)
(* worker and the stalled check keep polling: each step is fair.           *)
Fairness ==
    \A n \in Notes : /\ WF_vars(CreateRow(n) \/ CreateRowFails(n))
                     /\ WF_vars(AddJob(n) \/ AddReply(n) \/ AddJobFails(n))
                     /\ WF_vars(TakeJob(n))
                     /\ WF_vars(Process(n) \/ ProcessFails(n))
                     /\ WF_vars(CompleteJob(n))
                     /\ WF_vars(RecoverStalled(n))

FairSpec == Spec /\ Fairness
-----------------------------------------------------------------------------
TypeOK ==
    /\ row \in [Notes -> RowStatus]
    /\ call \in [Notes -> CallState]
    /\ job \in [Notes -> JobState]
    /\ stalled \in SUBSET Notes
    /\ faults \in 0..MaxFaults

(* A job always finds its row, and only an e-mail note has a job: however  *)
(* the call's awaits fail and the worker races it, the worker never works  *)
(* on a notification that is not in the database.                          *)
JobHasRow ==
    \A n \in Notes : job[n] # "none" => n \in EmailNotes /\ row[n] # "ABSENT"

(* What the caller of notify may conclude from its answer: when the call   *)
(* resolved the row is there and an e-mail's job is in the queue or done,  *)
(* though the process may have died and the job stalled since.             *)
ResolvedMeansQueued ==
    \A n \in Notes :
        call[n] = "resolved" => /\ row[n] # "ABSENT"
                                /\ n \in EmailNotes => job[n] # "none"

(* Every e-mail row that is still PENDING is accounted for: its call is    *)
(* under way, its job will run, or one of the four accidents the code has  *)
(* no answer to has happened (the add rejected, the process died before    *)
(* it, the job failed, the job stalled twice).  In particular a completed  *)
(* job leaves no PENDING row.                                              *)
PendingIsAccountedFor ==
    \A n \in EmailNotes :
        row[n] = "PENDING" =>
            \/ call[n] = "adding"
            \/ job[n] \in {"waiting", "active", "orphaned", "failed"}
            \/ job[n] = "none" /\ call[n] \in {"rejected", "lost"}

(* The invariant that is inductive: where a call is determines what of its *)
(* note exists, and a job that has run has left its row SENT.              *)
CallExplainsNote ==
    \A n \in Notes :
        /\ call[n] \in {"none", "creating"} => row[n] = "ABSENT" /\ job[n] = "none"
        /\ call[n] = "adding" => n \in EmailNotes /\ row[n] = "PENDING" /\ job[n] = "none"
        /\ call[n] = "added" => job[n] # "none"

JobExplainsRow ==
    \A n \in Notes :
        /\ job[n] \in {"processed", "completed"} => row[n] = "SENT"
        /\ row[n] = "SENT" => job[n] # "none"

IInv == TypeOK /\ JobHasRow /\ ResolvedMeansQueued /\ CallExplainsNote /\ JobExplainsRow

(* How a caller sees the state of its call. *)
Outcome ==
    [n \in Notes |-> IF call[n] \in {"creating", "adding", "added"} THEN "open"
                     ELSE IF call[n] \in {"rejected", "lost"} THEN "failed"
                     ELSE call[n]]

Contract == INSTANCE NotificationContract WITH outcome <- Outcome

(* notify, the queue and the worker implement what callers rely on: the    *)
(* row is inserted once, an e-mail row alone is marked SENT, and no crash, *)
(* retry or lost reply takes a row back.                                   *)
ImplementsContract == Contract!Spec

(* An e-mail whose call resolved is marked SENT in the end unless its job  *)
(* fails; a crash of the worker alone does not lose it.                    *)
ResolvedEmailIsSettled ==
    \A n \in EmailNotes :
        (call[n] = "resolved") ~> (row[n] = "SENT" \/ job[n] = "failed")

=============================================================================
