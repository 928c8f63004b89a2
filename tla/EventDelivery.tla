--------------------------- MODULE EventDelivery ---------------------------
(***************************************************************************)
(* The event backbone: canonical events fanned out to one delivery row per *)
(* enabled consumer, claimed in batches by the consumer's processes and    *)
(* completed one by one, with retries, stale reclaim and dead letters.     *)
(*                                                                         *)
(* Consumers reach the rows directly (correlation, security-engine) or     *)
(* through the API's internal endpoints (events, notifier, analyzer).  A   *)
(* transaction or the end of a handler is one step; whatever else happens  *)
(* between a claim and its completion interleaves.  The order within a     *)
(* batch and among ready rows is left open.  Faults are crashes, lost      *)
(* answers and failed updates.                                             *)
(***************************************************************************)
EXTENDS Integers, FiniteSets, Backbone

CONSTANTS
  Consumers,    \* names in event_consumers
  Processes,    \* consumer processes
  ConsumerOf,   \* Processes -> Consumers: the name a process claims under
  Relays,       \* those of events and notifier: nothing to handle, so always
                \* successful, and a batch is given up on the first error
  Careless,     \* those of analyzer: report success however handling ended
  Limit,        \* rows a claim may take
  MaxAttempts,  \* 5 in the claim statements
  StaleAfter,   \* ticks until a `processing` row may be claimed again
  Backoff,      \* ticks a failed row waits
  BoundedIO     \* TRUE: a batch is always worked off before it goes stale

ASSUME DeliveryAssumption ==
  /\ ConsumerOf \in [Processes -> Consumers]
  /\ Relays \subseteq Processes
  /\ Careless \subseteq Processes
  /\ Limit \in Nat \ {0}
  /\ MaxAttempts \in Nat \ {0}
  /\ StaleAfter \in Nat \ {0}
  /\ Backoff \in Nat
  /\ MaxFaults \in Nat
  /\ BoundedIO \in BOOLEAN
  /\ None \notin Events \X Consumers

Deliveries == Events \X Consumers

VARIABLES
  enabled,   \* consumers registered and enabled
  status,    \* of every delivery; "none": no row
  attempts,
  wait,      \* ticks until available_at
  fresh,     \* ticks until a claim counts as stale
  up,        \* running processes
  batch,     \* claimed rows a process has still to complete
  current,   \* the delivery it has handled and not yet reported
  success,   \* how handling that one ended
  handled    \* deliveries some process handled to the end (history)

rowVars     == <<status, attempts, wait, fresh>>
processVars == <<up, batch, current, success>>
vars == <<enabled, published, rowVars, processVars, handled, faults>>

Status == {"none", "pending", "processing", "processed", "failed", "dead"}

TypeOK ==
  /\ enabled \in SUBSET Consumers
  /\ published \in SUBSET Events
  /\ status \in [Deliveries -> Status]
  /\ attempts \in [Deliveries -> 0..MaxAttempts]
  /\ wait \in [Deliveries -> 0..Backoff]
  /\ fresh \in [Deliveries -> 0..StaleAfter]
  /\ up \in SUBSET Processes
  /\ batch \in [Processes -> SUBSET Deliveries]
  /\ current \in [Processes -> Deliveries \cup {None}]
  /\ success \in [Processes -> BOOLEAN]
  /\ handled \in SUBSET Deliveries
  /\ faults \in 0..MaxFaults

Init ==
  /\ enabled \in SUBSET Consumers
  /\ published = {}
  /\ status = [d \in Deliveries |-> "none"]
  /\ attempts = [d \in Deliveries |-> 0]
  /\ wait = [d \in Deliveries |-> 0]
  /\ fresh = [d \in Deliveries |-> 0]
  /\ up = {}
  /\ batch = [p \in Processes |-> {}]
  /\ current = [p \in Processes |-> None]
  /\ success = [p \in Processes |-> FALSE]
  /\ handled = {}
  /\ faults = 0

-----------------------------------------------------------------------------
\* ensure_event_consumer, before every claim and when a direct consumer starts.
Register(p) == enabled' = enabled \cup {ConsumerOf[p]}

Remote == Relays \cup Careless

Start(p) ==
  /\ p \notin up
  /\ up' = up \cup {p}
  /\ IF p \in Remote THEN UNCHANGED enabled ELSE Register(p)
  /\ UNCHANGED <<published, rowVars, batch, current, success, handled, faults>>

\* Wrong: without the dedupe key.
PublishAgain(e) ==
  /\ published' = published \cup {e}
  /\ status' = [d \in Deliveries |->
                  IF d[1] = e /\ d[2] \in enabled THEN "pending" ELSE status[d]]
  /\ UNCHANGED <<enabled, attempts, wait, fresh, processVars, handled, faults>>

\* publish_event: the event and its fan-out in one transaction.  An event whose
\* dedupe key is known changes nothing.
Publish(e) ==
  /\ e \notin published
  /\ published' = published \cup {e}
  /\ status' = [d \in Deliveries |->
                  IF d[1] = e /\ d[2] \in enabled THEN "pending" ELSE status[d]]
  /\ UNCHANGED <<enabled, attempts, wait, fresh, processVars, handled, faults>>

\* Wrong: as soon as the row is claimed.
StaleAtOnce(c) == {d \in Deliveries : /\ d[2] = c
                                      /\ status[d] = "processing"
                                      /\ attempts[d] < MaxAttempts}

\* CLAIM_STALE_DELIVERIES_SQL
Stale(c) == {d \in Deliveries : /\ d[2] = c
                                /\ status[d] = "processing"
                                /\ fresh[d] = 0
                                /\ attempts[d] < MaxAttempts}

\* CLAIM_READY_DELIVERIES_SQL
Ready(c) == {d \in Deliveries : /\ d[2] = c
                                /\ status[d] \in {"pending", "failed"}
                                /\ wait[d] = 0
                                /\ attempts[d] < MaxAttempts}

Least(a, b) == IF a < b THEN a ELSE b

\* Stale rows first; ready rows fill the remaining slots.
Claimable(c) ==
  {taken \in SUBSET (Stale(c) \cup Ready(c)) :
     LET stale == Cardinality(taken \cap Stale(c))
     IN  /\ stale = Least(Limit, Cardinality(Stale(c)))
         /\ Cardinality(taken \cap Ready(c)) = Least(Limit - stale, Cardinality(Ready(c)))}

\* claim_event_deliveries.  The rows are committed before the heartbeat that may
\* still fail, and before the answer reaches a remote consumer.
Claim(p) ==
  /\ p \in up
  /\ batch[p] = {}
  /\ Register(p)
  /\ \E taken \in Claimable(ConsumerOf[p]) :
       /\ status' = [d \in Deliveries |-> IF d \in taken THEN "processing" ELSE status[d]]
       /\ attempts' = [d \in Deliveries |-> IF d \in taken THEN attempts[d] + 1 ELSE attempts[d]]
       /\ fresh' = [d \in Deliveries |-> IF d \in taken THEN StaleAfter ELSE fresh[d]]
       /\ \/ batch' = [batch EXCEPT ![p] = taken] /\ UNCHANGED faults
          \/ taken # {} /\ Fault /\ UNCHANGED batch
  /\ UNCHANGED <<published, wait, up, current, success, handled>>

\* The consumer's handler comes to an end, well or not.
Handle(p) ==
  /\ p \in up
  /\ current[p] = None
  /\ \E d \in batch[p], ok \in IF p \in Relays THEN {TRUE} ELSE BOOLEAN :
       /\ current' = [current EXCEPT ![p] = d]
       /\ success' = [success EXCEPT ![p] = ok]
       /\ handled' = IF ok THEN handled \cup {d} ELSE handled
  /\ UNCHANGED <<enabled, published, rowVars, up, batch, faults>>

\* Wrong: one attempt too many before the dead letter.
CompleteLate(d, ok) ==
  /\ status' = [status EXCEPT ![d] =
                  IF ok THEN "processed" ELSE IF attempts[d] > MaxAttempts THEN "dead" ELSE "failed"]
  /\ wait' = [wait EXCEPT ![d] = IF ok THEN @ ELSE Backoff]

\* complete_event_delivery, for a row that is still `processing`.
Complete(d, ok) ==
  /\ status' = [status EXCEPT ![d] =
                  IF ok THEN "processed" ELSE IF attempts[d] >= MaxAttempts THEN "dead" ELSE "failed"]
  /\ wait' = [wait EXCEPT ![d] = IF ok THEN @ ELSE Backoff]

\* Having reported, a process goes on with its batch - unless it saw an error
\* and is one that then gives the batch up.
Proceed(p, error) ==
  /\ batch' = [batch EXCEPT ![p] = IF error /\ p \in Relays THEN {} ELSE @ \ {current[p]}]
  /\ current' = [current EXCEPT ![p] = None]
  /\ success' = [success EXCEPT ![p] = FALSE]
  /\ UNCHANGED <<enabled, published, attempts, fresh, up, handled>>

Report(p) ==
  /\ current[p] # None
  /\ status[current[p]] = "processing"
  /\ Complete(current[p], success[p] \/ p \in Careless)
  /\ \/ Proceed(p, FALSE) /\ UNCHANGED faults
     \/ Proceed(p, TRUE) /\ Fault

\* "event delivery is not owned by the active consumer", or the update failed.
ReportRefused(p) ==
  /\ current[p] # None
  /\ \/ status[current[p]] # "processing" /\ UNCHANGED faults
     \/ Fault
  /\ Proceed(p, TRUE)
  /\ UNCHANGED <<status, wait>>

Crash(p) ==
  /\ p \in up
  /\ Fault
  /\ up' = up \ {p}
  /\ batch' = [batch EXCEPT ![p] = {}]
  /\ current' = [current EXCEPT ![p] = None]
  /\ success' = [success EXCEPT ![p] = FALSE]
  /\ UNCHANGED <<enabled, published, rowVars, handled>>

Less(n) == IF n = 0 THEN 0 ELSE n - 1

Tick ==
  /\ BoundedIO => \A p \in Processes : \A d \in batch[p] : fresh[d] > 1
  /\ wait' = [d \in Deliveries |-> Less(wait[d])]
  /\ fresh' = [d \in Deliveries |-> Less(fresh[d])]
  /\ UNCHANGED <<enabled, published, status, attempts, processVars, handled, faults>>

-----------------------------------------------------------------------------
Poll(p) == Claim(p) \/ Handle(p) \/ Report(p) \/ ReportRefused(p)

Next ==
  \/ \E p \in Processes : Start(p) \/ Poll(p) \/ Crash(p)
  \/ \E e \in Events : Publish(e)
  \/ Tick

Spec == Init /\ [][Next]_vars

\* Processes are restarted and keep polling; the clock runs.
FairSpec ==
  /\ Spec
  /\ \A p \in Processes : WF_vars(Start(p)) /\ WF_vars(Poll(p))
  /\ WF_vars(Tick)

-----------------------------------------------------------------------------
\* While batches are worked off before they go stale, no two processes hold the
\* same delivery: row locks, statuses and the stale window exclude each other.
OneHolder == \A p, q \in Processes : batch[p] \cap batch[q] # {} => p = q

\* A failed attempt always leaves a row that can be claimed again or a dead letter:
\* the claims' limit and the one complete_event_delivery applies are the same, also
\* when a late report of an earlier holder meets a later claim's attempts.
AttemptsAccounted ==
  \A d \in Deliveries :
    /\ status[d] = "dead" => attempts[d] = MaxAttempts
    /\ status[d] \in {"pending", "failed"} => attempts[d] < MaxAttempts

\* The rows implement an at-least-once queue: none is lost, none becomes `processed`
\* before some process has handled it, and what is settled stays settled.
Queue == INSTANCE AtLeastOnce WITH
  Items <- Deliveries,
  open  <- {d \in Deliveries : status[d] \in {"pending", "processing", "failed"}},
  done  <- {d \in Deliveries : status[d] = "processed"},
  dead  <- {d \in Deliveries : status[d] = "dead"}

AtLeastOnceDelivery == Queue!Spec

\* "retried with bounded exponential backoff, and marked `dead` after five failed
\* attempts": every delivery is eventually processed or a dead letter.
Settles ==
  \A d \in Deliveries : status[d] = "pending" ~> status[d] \in {"processed", "dead"}

\* "Delivery is [...] retried": a delivery is not marked processed while every attempt
\* at it has failed.
FailureIsRetried == \A d \in Deliveries : status[d] = "processed" => d \in handled

-----------------------------------------------------------------------------
\* Why AttemptsAccounted holds of new rows, and why they are new.
RowsArePublished ==
  \A d \in Deliveries : IF status[d] = "none" THEN attempts[d] = 0 ELSE d[1] \in published

\* Why OneHolder holds: a batched row is a fresh claim of its holder.
BatchesAreClaims ==
  \A p \in Processes : \A d \in batch[p] :
    /\ status[d] # "none"
    /\ BoundedIO => status[d] = "processing" /\ fresh[d] > 0

\* Why AtLeastOnceDelivery holds: a success about to be reported is one.
SuccessIsHandled ==
  \A p \in Processes :
    /\ current[p] # None => current[p] \in batch[p]
    /\ current[p] # None /\ success[p] => current[p] \in handled

IInv ==
  /\ TypeOK
  /\ AttemptsAccounted
  /\ RowsArePublished
  /\ BatchesAreClaims
  /\ SuccessIsHandled
  /\ BoundedIO => OneHolder
=============================================================================
