------------------------------ MODULE Handlers ------------------------------
(***************************************************************************)
(* What the modules of request handlers share.  A request is one HTTP call *)
(* with its parameters, made at most once, and names what it creates.  A   *)
(* handler runs without interruption from one await to the next: pc[r] is  *)
(* the await request r is at, or how it ended.                             *)
(*                                                                         *)
(* A fault is a rejected call to the database or another service, which    *)
(* may have taken effect, or the death of the process, which ends every    *)
(* request under way.                                                      *)
(***************************************************************************)
EXTENDS FiniteSets, Naturals

CONSTANTS
    Requests,
    Scenarios,   \* bound: the sets of requests that may have been made
    MaxFaults    \* bound: the faults in one behaviour

ASSUME FaultsAssumption == MaxFaults \in Nat

VARIABLES
    pc,
    before,      \* observation: before[r], the requests ended when r was made
    faults       \* observation: the faults so far

control == <<pc, before, faults>>

Ends     == {"done", "refused", "limited", "failed", "lost"}
Sent     == {r \in Requests : pc[r] # "unsent"}
Ended    == {r \in Requests : pc[r] \in Ends}
UnderWay == Sent \ Ended

(* Two requests overlap if neither had ended when the other was made.      *)
Overlap(q, r) == q \notin before[r] /\ r \notin before[q]

ControlInit ==
    /\ pc     = [r \in Requests |-> "unsent"]
    /\ before = [r \in Requests |-> {}]
    /\ faults = 0

ControlOK(waits) ==
    /\ pc \in [Requests -> {"unsent"} \cup waits \cup Ends]
    /\ before \in [Requests -> SUBSET Requests]
    /\ faults \in 0 .. MaxFaults

Goto(r, p) == pc' = [pc EXCEPT ![r] = p]

Fault == faults < MaxFaults /\ faults' = faults + 1

(* Request r is made; its handler runs up to the await p, or ends in p.    *)
Arrive(r, p) ==
    /\ pc[r] = "unsent"
    /\ Sent \cup {r} \in Scenarios
    /\ Goto(r, p)
    /\ before' = [before EXCEPT ![r] = Ended]
    /\ UNCHANGED faults

(* The await p of r resolves and the handler runs up to q.                 *)
Step(r, p, q) == pc[r] = p /\ Goto(r, q) /\ UNCHANGED <<before, faults>>

(* The same after a write, which may also be rejected having taken effect. *)
Resolve(r, p, q) ==
    \/ Step(r, p, q)
    \/ pc[r] = p /\ Goto(r, "failed") /\ Fault /\ UNCHANGED before

(* The call r awaits is rejected without effect.                           *)
Reject(r) ==
    /\ r \in UnderWay
    /\ Goto(r, "failed")
    /\ Fault
    /\ UNCHANGED before

(* The process dies.                                                       *)
Die ==
    /\ pc' = [r \in Requests |-> IF r \in UnderWay THEN "lost" ELSE pc[r]]
    /\ Fault
    /\ UNCHANGED before
-----------------------------------------------------------------------------
(* For the proofs about the modules of handlers: the requests that had     *)
(* ended when r was made have ended.                                       *)
Past == \A r \in Requests : before[r] \subseteq Ended

(* What no step undoes. *)
Onward ==
    /\ \A r \in Sent : before'[r] = before[r] /\ pc'[r] # "unsent"
    /\ \A r \in Ended : pc'[r] = pc[r]

(* What every step of a module with the awaits W keeps. *)
Kept(W) == ControlOK(W)' /\ Past' /\ Onward
=============================================================================
