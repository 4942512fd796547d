------------------------------ MODULE DbFaults ------------------------------
(***************************************************************************)
(* The database as the services see it: a call of theirs succeeds, or it   *)
(* fails (connection error, statement timeout, the process dying while the *)
(* call is on its way); a write that fails may have taken effect, its      *)
(* answer being lost.  What a failure means is decided at each call site   *)
(* of the services: some wrap the call in .catch(() => null), some let the *)
(* exception end the request.  The number of failures of a behaviour is    *)
(* bounded by MaxFaults, so that a checked instance is finite and so that  *)
(* MaxFaults = 0 is the fault-free system.                                 *)
(***************************************************************************)
EXTENDS Naturals

CONSTANT MaxFaults

ASSUME MaxFaultsNat == MaxFaults \in Nat

VARIABLE faults \* failures so far

FaultsType == faults \in 0..MaxFaults

\* The call of this step succeeds.
Healthy == faults' = faults

\* The call of this step fails.
Faulty ==
    /\ faults < MaxFaults
    /\ faults' = faults + 1
=============================================================================
