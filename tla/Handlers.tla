------------------------------ MODULE Handlers ------------------------------
(***************************************************************************)
(* What the modules Caches, Catalog and Listings share: requests, each run *)
(* by one handler of the service from its start to its answer.             *)
(***************************************************************************)
EXTENDS Naturals, FiniteSets, Sequences

CONSTANTS
    Requests, None,
    Mixes,      \* choices of the handlers each request may run
    MaxFaults   \* bound on failed statements and crashes

ASSUME HandlersAssumption == None \notin Requests /\ MaxFaults \in Nat

VARIABLES
    pc,         \* [Requests -> label of the next step]
    kind,       \* [Requests -> the handler a request runs, or None]
    mix,        \* [Requests -> sets of handlers], the member of Mixes
    faults

handlers == <<pc, kind, mix, faults>>

Ended == {"done", "rejected", "failed", "dead"}
Live(r) == pc[r] \notin Ended \cup {"new"}

HandlersInit ==
    /\ pc = [r \in Requests |-> "new"]
    /\ kind = [r \in Requests |-> None]
    /\ mix \in Mixes
    /\ faults = 0

Takes(k) == \E r \in Requests : k \in mix[r]

(* Request r may run handler k.                                            *)
MayRun(r, k) == k \in mix[r] /\ pc[r] = "new"

Starts(r, k, label) ==
    /\ MayRun(r, k)
    /\ kind' = [kind EXCEPT ![r] = k]
    /\ pc' = [pc EXCEPT ![r] = label]
    /\ UNCHANGED <<mix, faults>>

Moves(r, from, to) ==
    /\ pc[r] = from
    /\ pc' = [pc EXCEPT ![r] = to]
    /\ UNCHANGED <<kind, mix, faults>>

Ends(r, how) ==
    /\ pc' = [pc EXCEPT ![r] = how]
    /\ kind' = [kind EXCEPT ![r] = None]
    /\ UNCHANGED <<mix, faults>>

(* A handler that is left alone by what happens to it.                     *)
Stays == UNCHANGED handlers

(* A statement or a call a handler awaits fails: the rest is skipped.      *)
Breaks(r) ==
    /\ Live(r) /\ faults < MaxFaults
    /\ faults' = faults + 1
    /\ pc' = [pc EXCEPT ![r] = "failed"]
    /\ kind' = [kind EXCEPT ![r] = None]
    /\ mix' = mix

(* The process ends, and every handler with it.                            *)
Crashes ==
    /\ faults < MaxFaults
    /\ faults' = faults + 1
    /\ pc' = [r \in Requests |-> IF Live(r) THEN "dead" ELSE pc[r]]
    /\ kind' = [r \in Requests |-> None]
    /\ mix' = mix
=============================================================================
