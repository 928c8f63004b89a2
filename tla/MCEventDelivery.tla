-------------------------- MODULE MCEventDelivery --------------------------
(* Instances of EventDelivery for TLC. *)
EXTENDS EventDelivery, TLC

CONSTANTS e1, e2, correlation, notifier, p1, p2, p3

\* Two processes of one consumer.
TwoOfOne == (p1 :> correlation) @@ (p2 :> correlation)

\* The same beside a relay.
SharedAndRelayed == TwoOfOne @@ (p3 :> notifier)

\* A single process.
OnlyCorrelation == (p1 :> correlation)

EventsAndTwins == Permutations({e1, e2}) \cup Permutations({p1, p2})
=============================================================================
