------------------------------ MODULE Backbone ------------------------------
(***************************************************************************)
(* The table of the event backbone that its producers and consumers share. *)
(***************************************************************************)
EXTENDS Faults

CONSTANT Events     \* events, by their dedupe key

VARIABLE published  \* those stored in `events`
=============================================================================
