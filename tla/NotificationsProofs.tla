------------------------ MODULE NotificationsProofs ------------------------
(***************************************************************************)
(* Every note, for any sets of notes and any number of faults: the         *)
(* invariants of Notifications and that it implements its contract.        *)
(***************************************************************************)
EXTENDS Notifications, TLAPS

(* IInv holds before the first call. *)
LEMMA InitIInv == Init => IInv
  BY MaxFaultsIsNat DEF Init, IInv, TypeOK, JobHasRow, ResolvedMeansQueued, CallExplainsNote,
     JobExplainsRow, RowStatus, CallState, JobState

(* One step per action.  Each action rewrites one note's row, call and job; *)
(* the crash rewrites calls and jobs of all of them.                       *)
LEMMA NextIInv == IInv /\ [Next]_vars => IInv'
  <1> SUFFICES ASSUME IInv, [Next]_vars PROVE IInv'
    OBVIOUS
  <1> USE DEF IInv, TypeOK, JobHasRow, ResolvedMeansQueued, CallExplainsNote,
              JobExplainsRow, RowStatus, CallState, JobState
  <1> USE MaxFaultsIsNat
  <1>1. ASSUME NEW n \in Notes, Notify(n) PROVE IInv'
    BY <1>1 DEF Notify
  <1>2. ASSUME NEW n \in Notes, CreateRow(n) PROVE IInv'
    BY <1>2 DEF CreateRow
  <1>3. ASSUME NEW n \in Notes, AddJob(n) PROVE IInv'
    BY <1>3 DEF AddJob
  <1>4. ASSUME NEW n \in Notes, AddReply(n) PROVE IInv'
    BY <1>4 DEF AddReply
  <1>5. ASSUME NEW n \in Notes, CreateRowFails(n) PROVE IInv'
    BY <1>5 DEF CreateRowFails, Fault
  <1>6. ASSUME NEW n \in Notes, AddJobFails(n) PROVE IInv'
    BY <1>6 DEF AddJobFails, Fault
  <1>7. ASSUME NEW n \in Notes, TakeJob(n) PROVE IInv'
    BY <1>7 DEF TakeJob
  <1>8. ASSUME NEW n \in Notes, Process(n) PROVE IInv'
    BY <1>8 DEF Process
  <1>9. ASSUME NEW n \in Notes, ProcessFails(n) PROVE IInv'
    BY <1>9 DEF ProcessFails, Fault
  <1>10. ASSUME NEW n \in Notes, CompleteJob(n) PROVE IInv'
    BY <1>10 DEF CompleteJob
  <1>11. ASSUME NEW n \in Notes, RecoverStalled(n) PROVE IInv'
    BY <1>11 DEF RecoverStalled
  <1>12. CASE Crash
    BY <1>12 DEF Crash, Fault
  <1>13. CASE UNCHANGED vars
    BY <1>13 DEF vars
  <1> QED
    BY <1>1, <1>2, <1>3, <1>4, <1>5, <1>6, <1>7, <1>8, <1>9, <1>10, <1>11, <1>12, <1>13
       DEF Next, ServiceStep, WorkerStep, FaultStep, Rest

(* IInv holds in every reachable state. *)
THEOREM Invariance == Spec => []IInv
  BY InitIInv, NextIInv, PTL DEF Spec

(* Rows, jobs and calls of notify keep their types (NotificationsService,  *)
(* the queue and its processor).                                           *)
THEOREM TypeCorrectness == Spec => []TypeOK
  <1>1. IInv => TypeOK
    BY DEF IInv
  <1> QED BY <1>1, Invariance, PTL

(* The worker never has a job whose notification is not in the database,   *)
(* nor one for an in-app note.                                             *)
THEOREM JobsHaveRows == Spec => []JobHasRow
  <1>1. IInv => JobHasRow
    BY DEF IInv
  <1> QED BY <1>1, Invariance, PTL

(* A call of notify that resolved has left its row and, for an e-mail, a   *)
(* job, whatever failed since.                                             *)
THEOREM ResolvedCallsAreQueued == Spec => []ResolvedMeansQueued
  <1>1. IInv => ResolvedMeansQueued
    BY DEF IInv
  <1> QED BY <1>1, Invariance, PTL

(* A PENDING e-mail row is being added, has a job ahead of it, or has met  *)
(* one of the accidents PendingIsAccountedFor lists; there is no other way *)
(* for it to be forgotten.                                                 *)
THEOREM PendingRowsAreAccountedFor == Spec => []PendingIsAccountedFor
  <1>1. IInv => PendingIsAccountedFor
    BY DEF IInv, TypeOK, ResolvedMeansQueued, CallExplainsNote, JobExplainsRow,
           PendingIsAccountedFor, CallState, JobState, Notes
  <1> QED BY <1>1, Invariance, PTL

-----------------------------------------------------------------------------
(* Every step of Notifications is a step of the contract or leaves what a  *)
(* caller sees unchanged.                                                  *)
LEMMA NextRefines ==
    ASSUME IInv, [Next]_vars
    PROVE  [Contract!Next]_<<row, Outcome>>
  <1> USE DEF IInv, TypeOK, RowStatus, CallState, JobState, Outcome
  <1>1. ASSUME NEW n \in Notes, Notify(n) PROVE Contract!Call(n)
    BY <1>1 DEF Notify, Contract!Call, Notes
  <1>2. ASSUME NEW n \in Notes, CreateRow(n) PROVE Contract!Store(n) \/ Contract!Resolve(n)
    BY <1>2 DEF CreateRow, Contract!Store, Contract!Resolve, Contract!Stored, CallExplainsNote
  <1>3. ASSUME NEW n \in Notes, AddJob(n) PROVE UNCHANGED <<row, Outcome>>
    BY <1>3 DEF AddJob
  <1>4. ASSUME NEW n \in Notes, AddReply(n) PROVE Contract!Resolve(n)
    <2>1. Outcome' = [Outcome EXCEPT ![n] = "resolved"] BY <1>4 DEF AddReply
    <2>2. Outcome[n] = "open" BY <1>4 DEF AddReply
    <2>3. UNCHANGED row /\ row[n] # "ABSENT" BY <1>4 DEF AddReply, CallExplainsNote, JobHasRow
    <2> HIDE DEF Outcome
    <2> QED BY <2>1, <2>2, <2>3 DEF Contract!Resolve, Contract!Stored
  <1>5. ASSUME NEW n \in Notes, CreateRowFails(n) PROVE Contract!Reject(n)
    <2>1. Outcome' = [Outcome EXCEPT ![n] = "failed"] BY <1>5 DEF CreateRowFails
    <2>2. Outcome[n] = "open" BY <1>5 DEF CreateRowFails
    <2>3. row[n] = "ABSENT" BY <1>5 DEF CreateRowFails, CallExplainsNote
    <2>4. row' = [row EXCEPT ![n] = "PENDING"] \/ UNCHANGED row
      BY <1>5, <2>3 DEF CreateRowFails
    <2> HIDE DEF Outcome
    <2> QED BY <2>1, <2>2, <2>3, <2>4 DEF Contract!Reject, Contract!Stored
  <1>6. ASSUME NEW n \in Notes, AddJobFails(n) PROVE Contract!Reject(n)
    BY <1>6 DEF AddJobFails, Contract!Reject
  <1>7. ASSUME NEW n \in Notes, TakeJob(n) PROVE UNCHANGED <<row, Outcome>>
    BY <1>7 DEF TakeJob
  <1>8. ASSUME NEW n \in Notes, Process(n) PROVE Contract!Send(n) \/ UNCHANGED <<row, Outcome>>
    BY <1>8 DEF Process, Contract!Send, JobHasRow
  <1>9. ASSUME NEW n \in Notes, ProcessFails(n)
        PROVE  Contract!Send(n) \/ UNCHANGED <<row, Outcome>>
    BY <1>9 DEF ProcessFails, Contract!Send, JobHasRow
  <1>10. ASSUME NEW n \in Notes, CompleteJob(n) PROVE UNCHANGED <<row, Outcome>>
    BY <1>10 DEF CompleteJob
  <1>11. ASSUME NEW n \in Notes, RecoverStalled(n) PROVE UNCHANGED <<row, Outcome>>
    BY <1>11 DEF RecoverStalled
  <1>12. CASE Crash
    <2>1. \A n \in Notes : Outcome'[n] = IF Outcome[n] = "open" THEN "failed" ELSE Outcome[n]
      BY <1>12 DEF Crash
    <2>2. Contract!FailAll
      BY <2>1, <1>12 DEF Crash, Contract!FailAll, Contract!Notes, Notes
    <2> QED BY <2>2 DEF Contract!Next
  <1>13. CASE UNCHANGED vars
    BY <1>13 DEF vars
  <1> QED
    BY <1>1, <1>2, <1>3, <1>4, <1>5, <1>6, <1>7, <1>8, <1>9, <1>10, <1>11, <1>12, <1>13
       DEF Next, ServiceStep, WorkerStep, FaultStep, Rest, Contract!Next, Contract!Notes, Notes

(* Notifications implements its contract for any sets of notes and any     *)
(* number of crashes, rejected calls and lost replies.                     *)
THEOREM Refinement == Spec => ImplementsContract
  <1>1. Init => Contract!Init
    BY DEF Init, Contract!Init, Outcome, Notes, Contract!Notes
  <1>2. IInv /\ [Next]_vars => [Contract!Next]_<<row, Outcome>>
    BY NextRefines
  <1> QED
    BY <1>1, <1>2, Invariance, PTL DEF Spec, Contract!Spec, ImplementsContract
=============================================================================
