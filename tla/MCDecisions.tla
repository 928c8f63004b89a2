------------------------------ MODULE MCDecisions ------------------------------
(* Instances of Decisions for TLC. *)
EXTENDS Decisions, TLC

CONSTANTS w1, w2, a1, a2, i1, review, triage, d1, d2, d3, x1, x2, x3, high, low

TwoFlows   == <<review, triage>>
Incident   == [s \in {i1} |-> "incident"]
ForIncidents == [f \in {review, triage} |-> "incident"]
Names == Permutations({w1, w2}) \cup Permutations({a1, a2})
================================================================================
