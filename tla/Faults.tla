------------------------------- MODULE Faults -------------------------------
(***************************************************************************)
(* What bounds the modules along the path of an event: everything that may *)
(* go wrong, or may be changed by somebody, uses up one of MaxFaults.      *)
(***************************************************************************)
EXTENDS Integers

CONSTANTS
  MaxFaults,    \* bound on crashes, failing statements, lost answers and changes
  None          \* nothing: no delivery, resource, incident or checkpoint

VARIABLE faults \* so far

Fault == faults < MaxFaults /\ faults' = faults + 1
=============================================================================
