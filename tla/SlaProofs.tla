----------------------------- MODULE SlaProofs -----------------------------
(***************************************************************************)
(* The invariants of Sla for any complaints, administrators and runs,      *)
(* overlapping or not, and any number of faults.                           *)
(***************************************************************************)
EXTENDS Sla, TLAPS

(* A turn of the loop makes well-formed calls. *)
LEMMA NotesOfType ==
    ASSUME NEW w \in Runs, NEW C \in SUBSET Complaints, NEW A \in SUBSET Admins
    PROVE  NotesOf(w, C, A) \in SUBSET Note
  BY DEF NotesOf, Note

(* What a call of notify is made of. *)
LEMMA NoteFields ==
    ASSUME NEW x \in Note
    PROVE  x.run \in Runs /\ x.complaint \in Complaints
  BY DEF Note

(* A run writes well-formed audit entries. *)
LEMMA EntriesType ==
    ASSUME ProcessTypeOK, NEW w \in Runs
    PROVE  Entries(w) \in SUBSET AuditEntry
  BY DEF Entries, AuditEntry, ProcessTypeOK

(* Ending a run keeps the types. *)
LEMMA ReturnType ==
    ASSUME ProcessTypeOK, NEW w \in Runs, Return(w),
           inFlight' \in SUBSET Note, lastError' \in {"null", "set"}
    PROVE  ProcessTypeOK'
  BY DEF ProcessTypeOK, Return, Steps

(* So does a turn of the loop. *)
LEMMA TurnType ==
    ASSUME ProcessTypeOK, NEW w \in Runs, NEW C \in SUBSET Complaints,
           NEW A \in SUBSET Admins, Turn(w, C, A), UNCHANGED lastError
    PROVE  ProcessTypeOK'
  <1>1. PICK c \in C :
          /\ todo' = [todo EXCEPT ![w] = C \ {c}]
          /\ current' = [current EXCEPT ![w] = {c}]
          /\ admins' = [admins EXCEPT ![w] = A]
          /\ inFlight' = inFlight \cup NotesOf(w, {c}, A)
          /\ pc' = [pc EXCEPT ![w] = IF A = {} THEN "auditing" ELSE "notifying"]
    BY DEF Turn
  <1>2. inFlight' \in SUBSET Note
    BY <1>1, NotesOfType DEF ProcessTypeOK
  <1> QED BY <1>1, <1>2 DEF ProcessTypeOK, Steps

(* So does updateMany. *)
LEMMA SetFlagsType ==
    ASSUME TypeOK, NEW w \in Runs, SetFlags(w)
    PROVE  DatabaseTypeOK' /\ escalations' \in [Complaints -> Nat]
  BY DEF SetFlags, TypeOK, DatabaseTypeOK, ProcessTypeOK, ObservationTypeOK

(* So do the audit entries. *)
LEMMA WriteAuditType ==
    ASSUME TypeOK, NEW w \in Runs, WriteAudit(w)
    PROVE  DatabaseTypeOK'
  BY EntriesType DEF WriteAudit, TypeOK, DatabaseTypeOK

(* The faults stay within their bound. *)
LEMMA FaultType == ASSUME ObservationTypeOK, Fault PROVE faults' \in 0..MaxFaults
  BY MaxFaultsIsNat DEF ObservationTypeOK, Fault

-----------------------------------------------------------------------------
(* IInv holds before the first tick. *)
LEMMA InitIInv == Init => IInv
  <1> SUFFICES ASSUME Init PROVE IInv
    OBVIOUS
  <1> USE DEF Init
  <1>1. TypeOK
    BY MaxFaultsIsNat DEF TypeOK, DatabaseTypeOK, ProcessTypeOK, ObservationTypeOK, Status, Steps
  <1>2. FlaggedWereBreached /\ BreachesAreMissed /\ RunsKnowBreaches /\ RunsAwaitNotes
    BY DEF FlaggedWereBreached, BreachesAreMissed, RunsKnowBreaches, RunsAwaitNotes
  <1>3. ToldOnlyOfFlagged /\ AuditMeansTold
    BY DEF ToldOnlyOfFlagged, AuditMeansTold
  <1>4. OneRunAtATime
    BY DEF OneRunAtATime
  <1> QED BY <1>1, <1>2, <1>3, <1>4 DEF IInv

(* Every step keeps the types. *)
LEMMA TypeStep == TypeOK /\ [Next]_vars => TypeOK'
  <1> SUFFICES ASSUME TypeOK, [Next]_vars PROVE TypeOK'
    OBVIOUS
  <1> USE DEF TypeOK, database, process, observation
  <1>a. UNCHANGED database => DatabaseTypeOK'
    BY DEF DatabaseTypeOK
  <1>b. UNCHANGED process => ProcessTypeOK'
    BY DEF ProcessTypeOK
  <1>c. UNCHANGED observation => ObservationTypeOK'
    BY DEF ObservationTypeOK
  <1>d. Fault /\ UNCHANGED <<missed, escalations>> => ObservationTypeOK'
    BY FaultType DEF ObservationTypeOK
  <1>1. ASSUME NEW w \in Runs, Tick(w) PROVE TypeOK'
    BY <1>1, <1>a, <1>c DEF Tick, ProcessTypeOK, Steps
  <1>2. ASSUME NEW w \in Runs, Find(w) PROVE TypeOK'
    <2>1. Breached \in SUBSET Complaints
      BY DEF Breached, DatabaseTypeOK
    <2> QED BY <1>2, <1>a, <1>c, <2>1 DEF Find, ProcessTypeOK, Steps
  <1>3. ASSUME NEW w \in Runs, FindNone(w) PROVE TypeOK'
    <2>1. ProcessTypeOK'
      BY <1>3, ReturnType DEF FindNone, Succeed, ProcessTypeOK
    <2> QED BY <1>3, <1>a, <1>c, <2>1 DEF FindNone
  <1>4. ASSUME NEW w \in Runs, Flag(w) PROVE TypeOK'
    <2>1. ProcessTypeOK'
      BY <1>4 DEF Flag, ProcessTypeOK, Steps
    <2>2. ObservationTypeOK'
      BY <1>4, SetFlagsType DEF Flag, ObservationTypeOK
    <2> QED BY <1>4, <2>1, <2>2, SetFlagsType DEF Flag
  <1>5. ASSUME NEW w \in Runs, ReadAdmins(w) PROVE TypeOK'
    <2>1. todo[w] \in SUBSET Complaints /\ adminIds \in SUBSET Admins
      BY DEF ProcessTypeOK, DatabaseTypeOK
    <2>2. ProcessTypeOK'
      BY <1>5, <2>1, TurnType DEF ReadAdmins
    <2> QED BY <1>5, <1>a, <1>c, <2>2 DEF ReadAdmins
  <1>6. ASSUME NEW x \in Note, NotifyResolves(x) PROVE TypeOK'
    <2>1. DatabaseTypeOK'
      BY <1>6 DEF NotifyResolves, DatabaseTypeOK
    <2>2. ProcessTypeOK'
      BY <1>6, NoteFields DEF NotifyResolves, ProcessTypeOK, Steps
    <2> QED BY <1>6, <1>c, <2>1, <2>2 DEF NotifyResolves
  <1>7. ASSUME NEW w \in Runs, Audit(w) PROVE TypeOK'
    <2>1. todo[w] \in SUBSET Complaints /\ admins[w] \in SUBSET Admins
      BY DEF ProcessTypeOK
    <2>2. ProcessTypeOK'
      BY <1>7, <2>1, TurnType DEF Audit
    <2> QED BY <1>7, <1>c, <2>2, WriteAuditType DEF Audit
  <1>8. ASSUME NEW w \in Runs, AuditLast(w) PROVE TypeOK'
    <2>1. ProcessTypeOK'
      BY <1>8, ReturnType DEF AuditLast, Succeed, ProcessTypeOK
    <2> QED BY <1>8, <1>c, <2>1, WriteAuditType DEF AuditLast
  <1>9. ASSUME NEW w \in Runs, Fail(w), UNCHANGED inFlight PROVE ProcessTypeOK'
    BY <1>9, ReturnType DEF Fail, ProcessTypeOK
  <1>10. ASSUME NEW w \in Runs, ReadFails(w) PROVE TypeOK'
    BY <1>10, <1>a, <1>d, <1>9 DEF ReadFails
  <1>11. ASSUME NEW w \in Runs, FlagFails(w) PROVE TypeOK'
    <2>1. DatabaseTypeOK' /\ escalations' \in [Complaints -> Nat]
      BY <1>11, <1>a, SetFlagsType DEF FlagFails, ObservationTypeOK
    <2>2. ObservationTypeOK'
      BY <1>11, <2>1, FaultType DEF FlagFails, ObservationTypeOK
    <2> QED BY <1>11, <1>9, <2>1, <2>2 DEF FlagFails
  <1>12. ASSUME NEW w \in Runs, AuditFails(w) PROVE TypeOK'
    <2>1. DatabaseTypeOK'
      BY <1>12, <1>a, WriteAuditType DEF AuditFails
    <2> QED BY <1>12, <1>d, <1>9, <2>1 DEF AuditFails
  <1>13. ASSUME NEW x \in Note, NotifyRejects(x) PROVE TypeOK'
    <2>1. inFlight' \in SUBSET Note
      BY <1>13 DEF NotifyRejects, ProcessTypeOK
    <2>2. CASE Fail(x.run)
      <3>1. ProcessTypeOK'
        BY <2>1, <2>2, ReturnType, NoteFields DEF Fail
      <3> QED BY <1>13, <1>a, <1>d, <3>1 DEF NotifyRejects
    <2>3. CASE UNCHANGED <<pc, todo, current, admins, lastError>>
      <3>1. ProcessTypeOK'
        BY <2>1, <2>3 DEF ProcessTypeOK
      <3> QED BY <1>13, <1>a, <1>d, <3>1 DEF NotifyRejects
    <2> QED BY <1>13, <2>2, <2>3 DEF NotifyRejects
  <1>14. CASE Crash
    <2>1. ProcessTypeOK'
      BY <1>14 DEF Crash, ProcessTypeOK, Steps
    <2> QED BY <1>14, <1>a, <1>d, <2>1 DEF Crash
  <1>15. ASSUME NEW c \in Complaints, DeadlinePasses(c) PROVE TypeOK'
    BY <1>15, <1>b DEF DeadlinePasses, DatabaseTypeOK, ObservationTypeOK
  <1>16. ASSUME NEW c \in Complaints, NEW s \in Status, WriteStatus(c, s) PROVE TypeOK'
    BY <1>16, <1>b DEF WriteStatus, DatabaseTypeOK, ObservationTypeOK
  <1>17. ASSUME NEW A \in SUBSET Admins, ChangeAdmins(A) PROVE TypeOK'
    BY <1>17, <1>b, <1>c DEF ChangeAdmins, DatabaseTypeOK
  <1>18. CASE UNCHANGED vars
    BY <1>18, <1>a, <1>b, <1>c DEF vars
  <1> QED
    BY <1>1, <1>2, <1>3, <1>4, <1>5, <1>6, <1>7, <1>8, <1>10, <1>11, <1>12, <1>13,
       <1>14, <1>15, <1>16, <1>17, <1>18 DEF Next, RunStep, NotifyStep, Environment

-----------------------------------------------------------------------------
(* What a run does to its own locals; the other runs keep theirs. *)
OtherRunsKeep(w) == \A v \in Runs \ {w} : /\ pc'[v] = pc[v]
                                          /\ todo'[v] = todo[v]
                                          /\ current'[v] = current[v]
                                          /\ admins'[v] = admins[v]

(* What a run knows once it has ended. *)
LEMMA ReturnLocals ==
    ASSUME ProcessTypeOK, NEW w \in Runs, Return(w)
    PROVE  /\ pc'[w] = "idle" /\ todo'[w] = {} /\ current'[w] = {}
           /\ OtherRunsKeep(w)
  BY DEF Return, ProcessTypeOK, OtherRunsKeep

(* What a run knows after a turn of its loop. *)
LEMMA TurnLocals ==
    ASSUME ProcessTypeOK, NEW w \in Runs, NEW C \in SUBSET Complaints,
           NEW A \in SUBSET Admins, Turn(w, C, A)
    PROVE  /\ pc'[w] \in {"notifying", "auditing"}
           /\ pc'[w] = "auditing" => A = {}
           /\ todo'[w] \subseteq C /\ current'[w] \subseteq C
           /\ admins'[w] = A
           /\ inFlight' = inFlight \cup NotesOf(w, current'[w], A)
           /\ OtherRunsKeep(w)
  <1>1. PICK c \in C :
          /\ todo' = [todo EXCEPT ![w] = C \ {c}]
          /\ current' = [current EXCEPT ![w] = {c}]
          /\ admins' = [admins EXCEPT ![w] = A]
          /\ inFlight' = inFlight \cup NotesOf(w, {c}, A)
          /\ pc' = [pc EXCEPT ![w] = IF A = {} THEN "auditing" ELSE "notifying"]
    BY DEF Turn
  <1>2. current'[w] = {c}
    BY <1>1 DEF ProcessTypeOK
  <1> QED BY <1>1, <1>2 DEF ProcessTypeOK, OtherRunsKeep

(* What no step takes back. *)
LEMMA Growing ==
    [Next]_vars => /\ missed \subseteq missed' /\ flagged \subseteq flagged'
                   /\ created \subseteq created'
  <1> SUFFICES ASSUME [Next]_vars PROVE /\ missed \subseteq missed'
                                        /\ flagged \subseteq flagged'
                                        /\ created \subseteq created'
    OBVIOUS
  <1> USE DEF database, observation
  <1>1. ASSUME NEW w \in Runs, Tick(w) \/ RunStep(w)
        PROVE  /\ missed \subseteq missed' /\ flagged \subseteq flagged'
               /\ created \subseteq created'
    BY <1>1 DEF Tick, RunStep, Find, FindNone, Flag, ReadAdmins, Audit, AuditLast,
       ReadFails, FlagFails, AuditFails, SetFlags, WriteAudit
  <1>2. ASSUME NEW x \in Note, NotifyStep(x)
        PROVE  /\ missed \subseteq missed' /\ flagged \subseteq flagged'
               /\ created \subseteq created'
    BY <1>2 DEF NotifyStep, NotifyResolves, NotifyRejects
  <1>3. CASE Crash
    BY <1>3 DEF Crash
  <1>4. CASE Environment
    BY <1>4 DEF Environment, DeadlinePasses, WriteStatus, ChangeAdmins
  <1>5. CASE UNCHANGED vars
    BY <1>5 DEF vars
  <1> QED BY <1>1, <1>2, <1>3, <1>4, <1>5 DEF Next

-----------------------------------------------------------------------------
(* What findMany selects is overdue. *)
LEMMA BreachedAreMissed ==
    ASSUME TypeOK, BreachesAreMissed
    PROVE  Breached \subseteq missed /\ Breached \cap flagged = {}
  BY DEF Breached, BreachesAreMissed

(* An overdue open complaint is known to have missed its deadline. *)
LEMMA HistoryStep ==
    ASSUME IInv, [Next]_vars
    PROVE  BreachesAreMissed'
  <1> USE DEF IInv, TypeOK, DatabaseTypeOK, BreachesAreMissed, database, process, observation
  <1>1. ASSUME NEW c \in Complaints, DeadlinePasses(c) PROVE BreachesAreMissed'
    BY <1>1 DEF DeadlinePasses
  <1>2. ASSUME NEW c \in Complaints, NEW s \in Status, WriteStatus(c, s)
        PROVE  BreachesAreMissed'
    BY <1>2 DEF WriteStatus
  <1>3. ASSUME UNCHANGED <<overdue, status>> PROVE BreachesAreMissed'
    BY <1>3, Growing
  <1>4. ASSUME NEW w \in Runs, Tick(w) \/ RunStep(w) PROVE UNCHANGED <<overdue, status>>
    BY <1>4 DEF Tick, RunStep, Find, FindNone, Flag, ReadAdmins, Audit, AuditLast,
       ReadFails, FlagFails, AuditFails, SetFlags, WriteAudit
  <1>5. ASSUME NEW x \in Note, NotifyStep(x) PROVE UNCHANGED <<overdue, status>>
    BY <1>5 DEF NotifyStep, NotifyResolves, NotifyRejects
  <1>6. ASSUME NEW A \in SUBSET Admins, ChangeAdmins(A) PROVE UNCHANGED <<overdue, status>>
    BY <1>6 DEF ChangeAdmins
  <1>7. Crash \/ UNCHANGED vars => UNCHANGED <<overdue, status>>
    BY DEF Crash, vars
  <1> QED BY <1>1, <1>2, <1>3, <1>4, <1>5, <1>6, <1>7 DEF Next, Environment

(* A run's locals are on record, whatever step is taken.                   *)
Knows(w) ==
    /\ todo[w] \cup current[w] \subseteq missed
    /\ pc[w] \in {"reading-admins", "notifying", "auditing"} => todo[w] \subseteq flagged
    /\ pc[w] \in {"notifying", "auditing"} => current[w] \subseteq flagged

(* A run that stays as it is knows no less later. *)
LEMMA KnowsKept ==
    ASSUME [Next]_vars, NEW v \in Runs, Knows(v),
           pc'[v] = pc[v], todo'[v] = todo[v], current'[v] = current[v]
    PROVE  Knows(v)'
  BY Growing DEF Knows

(* A run without a batch knows nothing that could be wrong. *)
LEMMA KnowsEmpty ==
    ASSUME NEW v \in Runs, todo'[v] = {}, current'[v] = {}
    PROVE  Knows(v)'
  BY DEF Knows

(* Every step keeps what the runs know of their batches. *)
LEMMA KnowsStep ==
    ASSUME IInv, [Next]_vars
    PROVE  RunsKnowBreaches'
  <1> SUFFICES ASSUME NEW v \in Runs PROVE Knows(v)'
    BY DEF RunsKnowBreaches, Knows
  <1>0. Knows(v)
    BY DEF IInv, RunsKnowBreaches, Knows
  <1> USE DEF IInv, TypeOK, database, process, observation
  <1>a. ASSUME UNCHANGED <<pc, todo, current>> PROVE Knows(v)'
    BY <1>a, <1>0, KnowsKept
  <1>b. ASSUME NEW w \in Runs, Return(w) PROVE Knows(v)'
    BY <1>b, <1>0, KnowsKept, KnowsEmpty, ReturnLocals DEF OtherRunsKeep
  <1>c. ASSUME NEW w \in Runs, NEW A \in SUBSET Admins, Turn(w, todo[w], A),
               pc[w] \in {"reading-admins", "auditing"}
        PROVE  Knows(v)'
    <2>1. Knows(w)
      BY DEF RunsKnowBreaches, Knows
    <2>2. todo[w] \in SUBSET Complaints
      BY DEF ProcessTypeOK
    <2>3. /\ todo'[w] \subseteq todo[w] /\ current'[w] \subseteq todo[w]
          /\ OtherRunsKeep(w)
      <3> HIDE DEF IInv, TypeOK
      <3>1. ProcessTypeOK
        BY DEF IInv, TypeOK
      <3> QED BY <1>c, <2>2, <3>1, TurnLocals
    <2>4. Knows(w)'
      BY <1>c, <2>1, <2>3, Growing DEF Knows
    <2>5. CASE v # w
      BY <1>0, <2>3, <2>5, KnowsKept DEF OtherRunsKeep
    <2> QED BY <2>4, <2>5
  <1>1. ASSUME NEW w \in Runs, Tick(w) PROVE Knows(v)'
    <2>1. CASE v = w
      BY <1>1, <2>1, <1>0, Growing DEF Tick, Knows, ProcessTypeOK
    <2>2. CASE v # w
      BY <1>1, <2>2, <1>0, KnowsKept DEF Tick, ProcessTypeOK
    <2> QED BY <2>1, <2>2
  <1>2. ASSUME NEW w \in Runs, Find(w) PROVE Knows(v)'
    <2>1. CASE v = w
      BY <1>2, <2>1, <1>0, Growing, BreachedAreMissed DEF Find, Knows, ProcessTypeOK
    <2>2. CASE v # w
      BY <1>2, <2>2, <1>0, KnowsKept DEF Find, ProcessTypeOK
    <2> QED BY <2>1, <2>2
  <1>3. ASSUME NEW w \in Runs, Flag(w) PROVE Knows(v)'
    <2>1. CASE v = w
      <3>1. /\ todo'[v] = todo[v] /\ current'[v] = current[v]
            /\ flagged' = flagged \cup todo[v]
        BY <1>3, <2>1 DEF Flag, SetFlags
      <3> QED BY <1>3, <2>1, <1>0, <3>1, Growing DEF Flag, Knows, ProcessTypeOK
    <2>2. CASE v # w
      BY <1>3, <2>2, <1>0, KnowsKept DEF Flag, ProcessTypeOK
    <2> QED BY <2>1, <2>2
  <1>4. ASSUME NEW w \in Runs, FindNone(w) \/ AuditLast(w) \/ ReadFails(w) \/ FlagFails(w)
                                 \/ AuditFails(w)
        PROVE  Knows(v)'
    BY <1>4, <1>b DEF FindNone, AuditLast, ReadFails, FlagFails, AuditFails, Succeed, Fail
  <1>5. ASSUME NEW w \in Runs, ReadAdmins(w) PROVE Knows(v)'
    BY <1>5, <1>c DEF ReadAdmins, DatabaseTypeOK
  <1>6. ASSUME NEW w \in Runs, Audit(w) PROVE Knows(v)'
    BY <1>6, <1>c DEF Audit, ProcessTypeOK
  <1>7. ASSUME NEW x \in Note, NotifyResolves(x) PROVE Knows(v)'
    <2>1. todo'[v] = todo[v] /\ current'[v] = current[v]
      BY <1>7 DEF NotifyResolves
    <2>2. pc'[v] = pc[v] \/ (pc[v] = "notifying" /\ pc'[v] = "auditing")
      BY <1>7, NoteFields DEF NotifyResolves, ProcessTypeOK
    <2> QED BY <1>0, <2>1, <2>2, Growing DEF Knows
  <1>8. ASSUME NEW x \in Note, NotifyRejects(x) PROVE Knows(v)'
    BY <1>8, <1>a, <1>b, NoteFields DEF NotifyRejects, Fail
  <1>9. CASE Crash
    BY <1>9, KnowsEmpty DEF Crash
  <1>10. CASE Environment
    BY <1>10, <1>a DEF Environment, DeadlinePasses, WriteStatus, ChangeAdmins
  <1>11. CASE UNCHANGED vars
    BY <1>11, <1>a DEF vars
  <1> QED
    BY <1>1, <1>2, <1>3, <1>4, <1>5, <1>6, <1>7, <1>8, <1>9, <1>10, <1>11
       DEF Next, RunStep, NotifyStep

(* A step flags complaints of a batch only. *)
LEMMA FlaggedStep ==
    ASSUME IInv, [Next]_vars
    PROVE  FlaggedWereBreached'
  <1> USE DEF FlaggedWereBreached, database, observation
  <1>1. ASSUME NEW w \in Runs, SetFlags(w) PROVE FlaggedWereBreached'
    BY <1>1, Growing DEF SetFlags, IInv, RunsKnowBreaches
  <1>2. ASSUME UNCHANGED flagged PROVE FlaggedWereBreached'
    BY <1>2, Growing DEF IInv
  <1>3. ASSUME NEW w \in Runs, RunStep(w) PROVE FlaggedWereBreached'
    BY <1>1, <1>2, <1>3 DEF RunStep, Find, FindNone, Flag, ReadAdmins, Audit, AuditLast,
       ReadFails, FlagFails, AuditFails, WriteAudit
  <1>4. ASSUME ~(\E w \in Runs : RunStep(w)) PROVE UNCHANGED flagged
    BY <1>4 DEF Next, Tick, NotifyStep, NotifyResolves, NotifyRejects, Crash, Environment,
       DeadlinePasses, WriteStatus, ChangeAdmins, vars
  <1> QED BY <1>2, <1>3, <1>4

-----------------------------------------------------------------------------
(* A step tells administrators of flagged complaints only. *)
LEMMA ToldStep ==
    ASSUME IInv, [Next]_vars
    PROVE  ToldOnlyOfFlagged'
  <1> USE DEF ToldOnlyOfFlagged
  <1>0. ProcessTypeOK /\ DatabaseTypeOK /\ ToldOnlyOfFlagged /\ RunsKnowBreaches
    BY DEF IInv, TypeOK
  <1>1. ASSUME inFlight' \cup created' \subseteq inFlight \cup created
        PROVE  ToldOnlyOfFlagged'
    BY <1>0, <1>1, Growing
  <1>2. ASSUME NEW w \in Runs, NEW A \in SUBSET Admins, Turn(w, todo[w], A),
               pc[w] \in {"reading-admins", "auditing"}, UNCHANGED created
        PROVE  ToldOnlyOfFlagged'
    <2>1. todo[w] \in SUBSET Complaints
      BY <1>0 DEF ProcessTypeOK
    <2>2. /\ current'[w] \subseteq todo[w]
          /\ inFlight' = inFlight \cup NotesOf(w, current'[w], A)
      BY <1>0, <1>2, <2>1, TurnLocals
    <2>3. todo[w] \subseteq flagged
      BY <1>0, <1>2 DEF RunsKnowBreaches
    <2>4. \A x \in NotesOf(w, current'[w], A) : x.complaint \in current'[w]
      BY DEF NotesOf
    <2> QED BY <1>0, <1>2, <2>2, <2>3, <2>4, Growing
  <1>3. ASSUME NEW w \in Runs, ReadAdmins(w) PROVE ToldOnlyOfFlagged'
    BY <1>0, <1>2, <1>3 DEF ReadAdmins, DatabaseTypeOK, database
  <1>4. ASSUME NEW w \in Runs, Audit(w) PROVE ToldOnlyOfFlagged'
    BY <1>0, <1>2, <1>4 DEF Audit, WriteAudit, ProcessTypeOK
  <1>5. ASSUME NEW w \in Runs,
               Tick(w) \/ Find(w) \/ FindNone(w) \/ Flag(w) \/ AuditLast(w) \/ ReadFails(w)
                   \/ FlagFails(w) \/ AuditFails(w)
        PROVE  UNCHANGED <<inFlight, created>>
    BY <1>5 DEF Tick, Find, FindNone, Flag, AuditLast, ReadFails, FlagFails, AuditFails,
       SetFlags, WriteAudit, database
  <1>6. ASSUME NEW x \in Note, NotifyStep(x)
        PROVE  inFlight' \cup created' \subseteq inFlight \cup created
    BY <1>6 DEF NotifyStep, NotifyResolves, NotifyRejects, database
  <1>7. CASE Crash
    BY <1>7, <1>1 DEF Crash, database
  <1>8. CASE Environment \/ UNCHANGED vars
    BY <1>8, <1>1 DEF Environment, DeadlinePasses, WriteStatus, ChangeAdmins, vars, database,
       process
  <1> QED BY <1>1, <1>3, <1>4, <1>5, <1>6, <1>7, <1>8 DEF Next, RunStep

(* A run that awaits its notes, and one that is past them.                 *)
Waits(w) ==
    /\ pc[w] = "notifying" =>
           NotesOf(w, current[w], admins[w]) \subseteq inFlight \cup created
    /\ pc[w] = "auditing" => NotesOf(w, current[w], admins[w]) \subseteq created

(* A run that waits has its calls in flight or resolved. *)
LEMMA WaitsStep ==
    ASSUME IInv, [Next]_vars
    PROVE  RunsAwaitNotes'
  <1> SUFFICES ASSUME NEW v \in Runs PROVE Waits(v)'
    BY DEF RunsAwaitNotes, Waits
  <1>0. ProcessTypeOK /\ DatabaseTypeOK /\ Waits(v)
    BY DEF IInv, TypeOK, RunsAwaitNotes, Waits
  <1> USE DEF database, process
  <1>a. ASSUME UNCHANGED <<pc, current, admins, inFlight>> PROVE Waits(v)'
    BY <1>0, <1>a, Growing DEF Waits
  <1>b. ASSUME NEW w \in Runs, Return(w), UNCHANGED inFlight PROVE Waits(v)'
    BY <1>0, <1>b, ReturnLocals, Growing DEF Waits, OtherRunsKeep
  <1>c. ASSUME NEW w \in Runs, NEW C \in SUBSET Complaints, NEW A \in SUBSET Admins,
               Turn(w, C, A)
        PROVE  Waits(v)'
    <2>1. /\ pc'[w] \in {"notifying", "auditing"}
          /\ pc'[w] = "auditing" => A = {}
          /\ admins'[w] = A
          /\ inFlight' = inFlight \cup NotesOf(w, current'[w], A)
          /\ OtherRunsKeep(w)
      BY <1>0, <1>c, TurnLocals
    <2>2. A = {} => NotesOf(w, current'[w], A) = {}
      BY DEF NotesOf
    <2>3. CASE v = w
      BY <2>1, <2>2, <2>3 DEF Waits
    <2>4. CASE v # w
      BY <1>0, <2>1, <2>4, Growing DEF Waits, OtherRunsKeep
    <2> QED BY <2>3, <2>4
  <1>1. ASSUME NEW w \in Runs, Tick(w) \/ Find(w) \/ Flag(w) PROVE Waits(v)'
    <2>1. pc'[v] = pc[v] \/ pc'[v] \in {"finding", "flagging", "reading-admins"}
      BY <1>0, <1>1 DEF Tick, Find, Flag, ProcessTypeOK
    <2>2. UNCHANGED <<current, admins, inFlight>>
      BY <1>1 DEF Tick, Find, Flag
    <2> QED BY <1>0, <2>1, <2>2, Growing DEF Waits
  <1>2. ASSUME NEW w \in Runs, FindNone(w) \/ AuditLast(w) \/ ReadFails(w) \/ FlagFails(w)
                                 \/ AuditFails(w)
        PROVE  Waits(v)'
    BY <1>2, <1>b DEF FindNone, AuditLast, ReadFails, FlagFails, AuditFails, Succeed, Fail
  <1>3. ASSUME NEW w \in Runs, ReadAdmins(w) PROVE Waits(v)'
    <2>1. todo[w] \in SUBSET Complaints /\ adminIds \in SUBSET Admins
      BY <1>0 DEF ProcessTypeOK, DatabaseTypeOK
    <2> QED BY <1>3, <1>c, <2>1 DEF ReadAdmins
  <1>4. ASSUME NEW w \in Runs, Audit(w) PROVE Waits(v)'
    <2>1. todo[w] \in SUBSET Complaints /\ admins[w] \in SUBSET Admins
      BY <1>0 DEF ProcessTypeOK
    <2> QED BY <1>4, <1>c, <2>1 DEF Audit
  <1>5. ASSUME NEW x \in Note, NotifyResolves(x) PROVE Waits(v)'
    <2>1. /\ current'[v] = current[v] /\ admins'[v] = admins[v]
          /\ inFlight' = inFlight \ {x} /\ created' = created \cup {x}
      BY <1>5 DEF NotifyResolves
    <2>2. CASE pc'[v] = pc[v]
      BY <1>0, <2>1, <2>2 DEF Waits
    <2>3. CASE pc'[v] # pc[v]
      <3>1. /\ pc[v] = "notifying" /\ pc'[v] = "auditing"
            /\ inFlight \cap NotesOf(v, current[v], admins[v]) = {x}
        BY <1>0, <1>5, <2>3, NoteFields DEF NotifyResolves, Awaited, ProcessTypeOK
      <3> QED BY <1>0, <2>1, <3>1 DEF Waits
    <2> QED BY <2>2, <2>3
  <1>6. ASSUME NEW x \in Note, NotifyRejects(x) PROVE Waits(v)'
    <2>1. /\ inFlight' = inFlight \ {x} /\ UNCHANGED created
      BY <1>6 DEF NotifyRejects
    <2>2. CASE v = x.run /\ pc[v] = "notifying" /\ x \in Awaited(v)
      BY <1>0, <1>6, <2>2, ReturnLocals DEF NotifyRejects, Fail, Waits
    <2>3. CASE ~(v = x.run /\ pc[v] = "notifying" /\ x \in Awaited(v))
      <3>1. pc'[v] = pc[v] /\ current'[v] = current[v] /\ admins'[v] = admins[v]
        BY <1>0, <1>6, <2>3, NoteFields, ReturnLocals DEF NotifyRejects, Fail, OtherRunsKeep
      <3>2. pc[v] = "notifying" => x \notin NotesOf(v, current[v], admins[v])
        BY <1>6, <2>3 DEF NotifyRejects, Awaited, NotesOf
      <3> QED BY <1>0, <2>1, <3>1, <3>2 DEF Waits
    <2> QED BY <2>2, <2>3
  <1>7. CASE Crash
    BY <1>7 DEF Crash, Waits
  <1>8. CASE Environment \/ UNCHANGED vars
    BY <1>8, <1>a DEF Environment, DeadlinePasses, WriteStatus, ChangeAdmins, vars
  <1> QED
    BY <1>1, <1>2, <1>3, <1>4, <1>5, <1>6, <1>7, <1>8 DEF Next, RunStep, NotifyStep

(* An entry is written when all calls of its run have resolved. *)
LEMMA AuditStep ==
    ASSUME IInv, [Next]_vars
    PROVE  AuditMeansTold'
  <1> USE DEF AuditMeansTold
  <1>0. ProcessTypeOK /\ AuditMeansTold /\ RunsAwaitNotes
    BY DEF IInv, TypeOK
  <1>1. ASSUME UNCHANGED audit PROVE AuditMeansTold'
    BY <1>0, <1>1, Growing
  <1>2. ASSUME NEW w \in Runs, WriteAudit(w), pc[w] = "auditing" PROVE AuditMeansTold'
    <2>1. NotesOf(w, current[w], admins[w]) \subseteq created
      BY <1>0, <1>2 DEF RunsAwaitNotes
    <2>2. \A e \in Entries(w) :
            NotesOf(e.run, {e.complaint}, e.told) \subseteq NotesOf(w, current[w], admins[w])
      BY DEF Entries, NotesOf
    <2>3. \A e \in audit' : e \in audit \/ e \in Entries(w)
      BY <1>2 DEF WriteAudit
    <2> QED BY <1>0, <2>1, <2>2, <2>3, Growing
  <1>3. ASSUME NEW w \in Runs, Audit(w) \/ AuditLast(w) \/ AuditFails(w) PROVE AuditMeansTold'
    BY <1>1, <1>2, <1>3 DEF Audit, AuditLast, AuditFails, database
  <1>4. ASSUME ~\E w \in Runs : Audit(w) \/ AuditLast(w) \/ AuditFails(w)
        PROVE  UNCHANGED audit
    BY <1>4 DEF Next, Tick, RunStep, Find, FindNone, Flag, ReadAdmins, ReadFails, FlagFails,
       SetFlags, NotifyStep, NotifyResolves, NotifyRejects, Crash, Environment,
       DeadlinePasses, WriteStatus, ChangeAdmins, vars, database
  <1> QED BY <1>1, <1>3, <1>4

-----------------------------------------------------------------------------
(* With Overlap FALSE.  A step that is no tick wakes no run, and only a run *)
(* that has just searched is about to flag.                                *)
LEMMA WakesNone ==
    ASSUME ProcessTypeOK, DatabaseTypeOK, [Next]_vars, ~(\E w \in Runs : Tick(w)),
           NEW v \in Runs
    PROVE  /\ pc'[v] # "idle" => pc[v] # "idle"
           /\ pc'[v] = "flagging" =>
                  \/ pc[v] = "flagging" /\ todo'[v] = todo[v]
                  \/ todo'[v] = Breached /\ UNCHANGED flagged
  <1> USE DEF database, process
  <1> DEFINE Kept == pc'[v] = pc[v] /\ todo'[v] = todo[v]
             Working == pc'[v] \notin {"idle", "flagging"} /\ pc[v] # "idle"
             Found == pc[v] # "idle" /\ todo'[v] = Breached /\ UNCHANGED flagged
  <1> SUFFICES Kept \/ pc'[v] = "idle" \/ Working \/ Found
    OBVIOUS
  <1>1. ASSUME NEW w \in Runs, Return(w) PROVE Kept \/ pc'[v] = "idle"
    BY <1>1, ReturnLocals DEF OtherRunsKeep
  <1>2. ASSUME NEW w \in Runs, NEW C \in SUBSET Complaints, NEW A \in SUBSET Admins,
               Turn(w, C, A), pc[w] # "idle"
        PROVE  Kept \/ Working
    <2>1. pc'[w] \in {"notifying", "auditing"} /\ OtherRunsKeep(w)
      BY <1>2, TurnLocals
    <2> QED BY <1>2, <2>1 DEF OtherRunsKeep
  <1>3. ASSUME NEW w \in Runs, Find(w) PROVE Kept \/ Found
    BY <1>3 DEF Find, ProcessTypeOK
  <1>4. ASSUME NEW w \in Runs, Flag(w) PROVE Kept \/ Working
    BY <1>4 DEF Flag, ProcessTypeOK
  <1>5. ASSUME NEW w \in Runs, ReadAdmins(w) PROVE Kept \/ Working
    <2>1. todo[w] \in SUBSET Complaints /\ adminIds \in SUBSET Admins
      BY DEF ProcessTypeOK, DatabaseTypeOK
    <2> QED BY <1>5, <1>2, <2>1 DEF ReadAdmins
  <1>6. ASSUME NEW w \in Runs, Audit(w) PROVE Kept \/ Working
    <2>1. todo[w] \in SUBSET Complaints /\ admins[w] \in SUBSET Admins
      BY DEF ProcessTypeOK
    <2> QED BY <1>6, <1>2, <2>1 DEF Audit
  <1>7. ASSUME NEW w \in Runs, FindNone(w) \/ AuditLast(w) \/ ReadFails(w) \/ FlagFails(w)
                                 \/ AuditFails(w)
        PROVE  Kept \/ pc'[v] = "idle"
    BY <1>7, <1>1 DEF FindNone, AuditLast, ReadFails, FlagFails, AuditFails, Succeed, Fail
  <1>8. ASSUME NEW x \in Note, NotifyResolves(x) PROVE Kept \/ Working
    BY <1>8, NoteFields DEF NotifyResolves, ProcessTypeOK
  <1>9. ASSUME NEW x \in Note, NotifyRejects(x) PROVE Kept \/ pc'[v] = "idle"
    BY <1>9, <1>1, NoteFields DEF NotifyRejects, Fail
  <1>10. CASE Crash
    BY <1>10 DEF Crash
  <1>11. CASE Environment \/ UNCHANGED vars
    BY <1>11 DEF Environment, DeadlinePasses, WriteStatus, ChangeAdmins, vars
  <1> QED
    BY <1>3, <1>4, <1>5, <1>6, <1>7, <1>8, <1>9, <1>10, <1>11 DEF Next, RunStep, NotifyStep

(* Flags are only written by a run that was about to, and is no longer.    *)
LEMMA FlagsWritten ==
    ASSUME ProcessTypeOK, [Next]_vars
    PROVE  \/ UNCHANGED <<flagged, escalations>>
           \/ \E w \in Runs : pc[w] = "flagging" /\ pc'[w] # "flagging" /\ SetFlags(w)
  <1> USE DEF database, observation, process
  <1>1. ASSUME NEW w \in Runs, Flag(w) \/ FlagFails(w)
        PROVE  \/ UNCHANGED <<flagged, escalations>>
               \/ pc[w] = "flagging" /\ pc'[w] # "flagging" /\ SetFlags(w)
    BY <1>1, ReturnLocals DEF Flag, FlagFails, Fail, ProcessTypeOK
  <1>2. ASSUME ~\E w \in Runs : Flag(w) \/ FlagFails(w)
        PROVE  UNCHANGED <<flagged, escalations>>
    BY <1>2 DEF Next, Tick, RunStep, Find, FindNone, ReadAdmins, Audit, AuditLast, ReadFails,
       AuditFails, WriteAudit, NotifyStep, NotifyResolves, NotifyRejects, Crash, Environment,
       DeadlinePasses, WriteStatus, ChangeAdmins, vars
  <1> QED BY <1>1, <1>2

(* When runs follow one another no step flags a complaint again. *)
LEMMA OnceStep ==
    ASSUME IInv, [Next]_vars
    PROVE  OneRunAtATime'
  <1> SUFFICES ASSUME ~Overlap PROVE OneRunAtATime'
    BY DEF OneRunAtATime
  <1>0. /\ TypeOK /\ ProcessTypeOK /\ DatabaseTypeOK /\ ObservationTypeOK /\ BreachesAreMissed
        /\ \A v, w \in Runs : v # w => pc[v] = "idle" \/ pc[w] = "idle"
        /\ \A w \in Runs : pc[w] = "flagging" => todo[w] \cap flagged = {}
        /\ \A c \in Complaints : escalations[c] <= IF c \in flagged THEN 1 ELSE 0
    BY DEF IInv, TypeOK, OneRunAtATime
  <1> HIDE DEF TypeOK
  <1>1. \A v, w \in Runs : v # w => pc'[v] = "idle" \/ pc'[w] = "idle"
    <2>1. ASSUME NEW w \in Runs, Tick(w)
          PROVE  \A u, v \in Runs : u # v => pc'[u] = "idle" \/ pc'[v] = "idle"
      BY <1>0, <2>1 DEF Tick, ProcessTypeOK
    <2>2. ASSUME ~\E w \in Runs : Tick(w)
          PROVE  \A u, v \in Runs : u # v => pc'[u] = "idle" \/ pc'[v] = "idle"
      <3>1. \A v \in Runs : pc'[v] # "idle" => pc[v] # "idle"
        BY <1>0, <2>2, WakesNone
      <3> QED BY <1>0, <3>1
    <2> QED BY <2>1, <2>2
  <1>2. ASSUME NEW v \in Runs, pc'[v] = "flagging" PROVE todo'[v] \cap flagged' = {}
    <2>1. \/ pc[v] = "flagging" /\ todo'[v] = todo[v]
          \/ todo'[v] = Breached /\ UNCHANGED flagged
      <3>1. ASSUME NEW w \in Runs, Tick(w) PROVE pc[v] = "flagging" /\ todo'[v] = todo[v]
        BY <1>0, <1>2, <3>1 DEF Tick, ProcessTypeOK
      <3> QED BY <1>0, <1>2, <3>1, WakesNone
    <2>2. CASE todo'[v] = Breached /\ UNCHANGED flagged
      BY <1>0, <2>2, BreachedAreMissed
    <2>3. CASE pc[v] = "flagging" /\ todo'[v] = todo[v]
      <3>1. ASSUME NEW w \in Runs, pc[w] = "flagging", pc'[w] # "flagging" PROVE FALSE
        BY <1>0, <1>2, <2>3, <3>1
      <3>2. UNCHANGED flagged
        BY <1>0, <3>1, FlagsWritten
      <3> QED BY <1>0, <2>3, <3>2
    <2> QED BY <2>1, <2>2, <2>3
  <1>3. ASSUME NEW c \in Complaints
        PROVE  escalations'[c] <= IF c \in flagged' THEN 1 ELSE 0
    <2>1. CASE UNCHANGED <<flagged, escalations>>
      BY <1>0, <2>1
    <2>2. ASSUME NEW w \in Runs, pc[w] = "flagging", SetFlags(w)
          PROVE  escalations'[c] <= IF c \in flagged' THEN 1 ELSE 0
      <3>1. escalations[c] \in Nat
        BY <1>0 DEF ObservationTypeOK
      <3>2. /\ flagged' = flagged \cup todo[w]
            /\ escalations'[c] = IF c \in todo[w] THEN escalations[c] + 1 ELSE escalations[c]
        BY <2>2 DEF SetFlags
      <3>3. c \in todo[w] => c \notin flagged
        BY <1>0, <2>2
      <3> QED BY <1>0, <3>1, <3>2, <3>3
    <2> QED BY <1>0, <2>1, <2>2, FlagsWritten
  <1> QED BY <1>1, <1>2, <1>3 DEF OneRunAtATime

-----------------------------------------------------------------------------
(* Every step keeps IInv. *)
LEMMA NextIInv == IInv /\ [Next]_vars => IInv'
  <1> SUFFICES ASSUME IInv, [Next]_vars PROVE IInv'
    OBVIOUS
  <1>1. TypeOK'
    BY TypeStep DEF IInv
  <1> QED
    BY <1>1, FlaggedStep, ToldStep, AuditStep, HistoryStep, KnowsStep, WaitsStep, OnceStep
       DEF IInv

(* IInv holds in every reachable state. *)
THEOREM Invariance == Spec => []IInv
  BY InitIInv, NextIInv, PTL DEF Spec

(* Complaints, notes and runs keep their types (SlaService.runEscalation,  *)
(* whatever runs overlap).                                                 *)
THEOREM TypeCorrectness == Spec => []TypeOK
  <1>1. IInv => TypeOK
    BY DEF IInv
  <1> QED BY <1>1, Invariance, PTL

(* Every flag stands for a missed deadline, though updateMany checks none. *)
THEOREM NoFalseBreach == Spec => []FlaggedWereBreached
  <1>1. IInv => FlaggedWereBreached
    BY DEF IInv
  <1> QED BY <1>1, Invariance, PTL

(* No administrator is told of a breach before its flag is on record. *)
THEOREM FlagBeforeNotification == Spec => []ToldOnlyOfFlagged
  <1>1. IInv => ToldOnlyOfFlagged
    BY DEF IInv
  <1> QED BY <1>1, Invariance, PTL

(* An SLA_ESCALATED entry is written only after every notification of it.  *)
THEOREM AuditIsProof == Spec => []AuditMeansTold
  <1>1. IInv => AuditMeansTold
    BY DEF IInv
  <1> QED BY <1>1, Invariance, PTL

(* When runs do not overlap, no crash or failed run leads to a second      *)
(* escalation of a complaint.                                              *)
THEOREM AtMostOneEscalation == Spec => []EscalatedOnce
  <1>1. IInv => EscalatedOnce
    <2> SUFFICES ASSUME IInv, ~Overlap, NEW c \in Complaints
                 PROVE  escalations[c] <= 1
      BY DEF EscalatedOnce
    <2>1. escalations[c] \in Nat
      BY DEF IInv, TypeOK, ObservationTypeOK
    <2>2. escalations[c] <= IF c \in flagged THEN 1 ELSE 0
      BY DEF IInv, OneRunAtATime
    <2> QED BY <2>1, <2>2
  <1> QED BY <1>1, Invariance, PTL
=============================================================================
