---------------------------- MODULE AtLeastOnce ----------------------------
(***************************************************************************)
(* What a work queue of clawforge promises its producers: an accepted item *)
(* stays open until it has been handled to the end at least once, or is    *)
(* given up; a settled item is never opened again.                         *)
(***************************************************************************)
CONSTANT Items

VARIABLES
  open,     \* accepted and not settled
  done,     \* settled after being handled
  dead,     \* given up
  handled   \* handled to the end at least once

vars == <<open, done, dead, handled>>

Init == open = {} /\ done = {} /\ dead = {} /\ handled = {}

Accept(new) ==
  /\ new \cap (open \cup done \cup dead) = {}
  /\ open' = open \cup new
  /\ UNCHANGED <<done, dead, handled>>

\* Also of an item another worker has settled meanwhile: at least once.
Handle(i) ==
  /\ i \in open \cup done \cup dead
  /\ handled' = handled \cup {i}
  /\ UNCHANGED <<open, done, dead>>

Settle(i) ==
  /\ i \in open \cap handled
  /\ open' = open \ {i}
  /\ done' = done \cup {i}
  /\ UNCHANGED <<dead, handled>>

GiveUp(i) ==
  /\ i \in open
  /\ open' = open \ {i}
  /\ dead' = dead \cup {i}
  /\ UNCHANGED <<done, handled>>

Next ==
  \/ \E new \in SUBSET Items : Accept(new)
  \/ \E i \in Items : Handle(i) \/ Settle(i) \/ GiveUp(i)

Spec == Init /\ [][Next]_vars
=============================================================================
