------------------------------ MODULE MCIncidents ------------------------------
(***************************************************************************)
(* Instances of Incidents: a chain of a threat and a routing event on one  *)
(* resource, a second episode of it, and a provider error.                 *)
(***************************************************************************)
EXTENDS Incidents
CONSTANTS e1, e2, e3, A, p1, q1

Ev(type, source, sev, at, resource, values) ==
  [type |-> type, source |-> source, sev |-> sev, at |-> at, resource |-> resource,
   values |-> values]

\* e2 joins e1 as a chain; e3 is more than the window after e1, but joins e2.
Episodes ==
  [e \in Events |->
     CASE e = e1 -> Ev("threat", "feed", High, 0, A, {1})
       [] e = e2 -> Ev("bgp", "ripe", Medium, 1, A, {})
       [] OTHER  -> Ev("provider_error", "feed", Low, 3, A, {1})]
=============================================================================
