---------------------------- MODULE Environment ----------------------------
(***************************************************************************)
(* What may go wrong around PulseOps, and how often.  Every service runs   *)
(* in a container with `restart: unless-stopped`, so a process that exits  *)
(* comes back; a behaviour contains at most MaxFaults faults in all.       *)
(***************************************************************************)
EXTENDS Naturals

CONSTANTS
    Faults,     \* the kinds of fault that may happen, a subset of FaultKinds
    MaxFaults   \* bound on the number of faults in a behaviour

FaultKinds == {"service", "worker", "broker", "cancel", "postgres"}

ASSUME EnvironmentAssumption == Faults \subseteq FaultKinds /\ MaxFaults \in Nat

VARIABLE
    faults      \* how many faults have happened so far

EnvironmentInit == faults = 0

(* One fault of this kind happens. *)
Fault(kind) ==
    /\ kind \in Faults
    /\ faults < MaxFaults
    /\ faults' = faults + 1
=============================================================================
