----------------------------- MODULE MCQuarantine -----------------------------
(***************************************************************************)
(* Instances of Quarantine.                                                *)
(***************************************************************************)
EXTENDS Quarantine

CONSTANTS q1, q2, r1

\* Two quarantines race for the VM; the container has one.
RequestsOfEach == [a \in Adapters |->
  IF a = "docker" THEN {q1, r1} ELSE {q1, q2, r1}]
=============================================================================
