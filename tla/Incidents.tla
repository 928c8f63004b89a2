------------------------------- MODULE Incidents -------------------------------
(***************************************************************************)
(* From an intelligence event to a managed incident:                       *)
(*   - the producer, `record_intelligence_event` of storage/src/lib.rs:    *)
(*     audit row, event, notification and alert, in four transactions;     *)
(*   - the correlation service: `process_event`, `correlate` and           *)
(*     `derive_outcome`, and the candidate `persist_correlation` keeps;    *)
(*   - the incidents service: `promote_incident_candidates`, which commits *)
(*     first and announces afterwards;                                     *)
(*   - an operator moving incidents and alerts along.                      *)
(* Deliveries come from the event backbone (EventDelivery): at least once, *)
(* here with as many repetitions as there are faults: operator actions,    *)
(* failing statements, crashes and lost acknowledgements.                  *)
(***************************************************************************)
EXTENDS Integers, FiniteSets, FiniteSetsExt, Backbone

CONSTANTS
  Attr,           \* type, source, severity rank, time, resource and indicators
  Window,         \* CLAWFORGE_CORRELATION_WINDOW_SECONDS
  Correlators,    \* processes of the correlation service
  Promoters,      \* processes of the incidents service
  MaxCandidates

Candidates == 1..MaxCandidates
Severity   == 0..4
Low        == 1
Medium     == 2
High       == 3

ASSUME EventsAssumption ==
  /\ IsFiniteSet(Events) /\ None \notin Events /\ Window \in Nat
  /\ \A e \in Events : Attr[e].sev \in Severity /\ Attr[e].at \in Nat
ASSUME BoundsAssumption == {MaxCandidates, MaxFaults} \subseteq Nat

VARIABLES
  producer,       \* where the producer of each event is
  known,          \* the incident its producer looked up
  acked,          \* deliveries the correlation service has completed
  candidates,     \* incident_candidates with their events
  incidents,      \* incidents, by candidate_id (unique)
  alerts,         \* alerts, by source event
  notified,       \* notification_events, by dedupe key
  announced,      \* incident.created and incident.escalated on the bus
  corr,           \* what each correlator is doing
  prom            \* what each promoter is doing

incidentVars == <<producer, known, published, acked, candidates, incidents,
                  alerts, notified, announced, corr, prom, faults>>

NoCandidate == [status |-> "none", key |-> None, sev |-> 0, conf |-> 0,
                summary |-> {}, first |-> 0, last |-> 0, events |-> {}]
NoIncident  == [status |-> "none", sev |-> 0, conf |-> 0, summary |-> {},
                related |-> [e \in Events |-> 0], times |-> 0]
Idle        == [pc |-> "idle", event |-> None, req |-> None, cand |-> 0]
Waiting     == [pc |-> "idle", rows |-> {}, queue |-> {}]

IncidentInit ==
  /\ producer = [e \in Events |-> "new"] /\ known = [e \in Events |-> None]
  /\ published = {} /\ acked = {} /\ notified = {} /\ announced = {}
  /\ candidates = [c \in Candidates |-> NoCandidate]
  /\ incidents = [c \in Candidates |-> NoIncident]
  /\ alerts = [e \in {} |-> None]
  /\ corr = [p \in Correlators |-> Idle] /\ prom = [q \in Promoters |-> Waiting]
  /\ faults = 0

-----------------------------------------------------------------------------
\* The producer: record_intelligence_event and create_alert_for_event.

ResourceKey(e) == <<"correlation-id", Attr[e].resource>>
Managed        == {c \in Candidates : incidents[c].status # "none"}

\* Audit row, then the incident of this resource's key that was updated last:
\* an operator's edit updates it too, so it may be any of them. The worker
\* records one event at a time.
RecordEvent(e) ==
  /\ producer[e] = "new"
  /\ \A f \in Events : producer[f] \in {"new", "done"}
  /\ producer' = [producer EXCEPT ![e] = "audited"]
  /\ LET same == {c \in Managed : candidates[c].key = ResourceKey(e)} IN
     \E c \in IF same = {} THEN {None} ELSE same : known' = [known EXCEPT ![e] = c]
  /\ UNCHANGED <<published, acked, candidates, incidents, alerts, notified,
                 announced, corr, prom, faults>>

PublishEvent(e) ==
  /\ producer[e] = "audited"
  /\ producer' = [producer EXCEPT ![e] = "published"]
  /\ published' = published \cup {e}
  /\ UNCHANGED <<known, acked, candidates, incidents, alerts, notified,
                 announced, corr, prom, faults>>

\* enqueue_notification_event: the rule's minimum severity is high here.
Enqueue(e) ==
  /\ producer[e] = "published"
  /\ producer' = [producer EXCEPT ![e] = IF Attr[e].sev >= High THEN "alert" ELSE "done"]
  /\ notified' = notified \cup (IF Attr[e].sev >= High THEN {<<"event", e>>} ELSE {})
  /\ UNCHANGED <<known, published, acked, candidates, incidents, alerts,
                 announced, corr, prom, faults>>

GroupKey(e) == IF known[e] # None THEN <<"incident", known[e]>>
               ELSE <<Attr[e].type, Attr[e].resource>>

\* First an UPDATE of the open alerts of the group; only if it met none, an INSERT.
GroupAlert(e) ==
  /\ producer[e] = "alert"
  /\ LET group == {f \in DOMAIN alerts : /\ alerts[f].group = GroupKey(e)
                                         /\ alerts[f].status \in {"open", "acknowledged"}}
     IN /\ alerts' = [f \in DOMAIN alerts |->
                        IF f \in group THEN [alerts[f] EXCEPT !.count = @ + 1] ELSE alerts[f]]
        /\ producer' = [producer EXCEPT ![e] = IF group = {} THEN "ungrouped" ELSE "done"]
  /\ UNCHANGED <<known, published, acked, candidates, incidents, notified,
                 announced, corr, prom, faults>>

InsertAlert(e) ==
  /\ producer[e] = "ungrouped"
  /\ producer' = [producer EXCEPT ![e] = "done"]
  /\ alerts' = [f \in DOMAIN alerts \cup {e} |->
                  IF f = e THEN [group |-> GroupKey(e), incident |-> known[e],
                                 status |-> "open", count |-> 1]
                  ELSE alerts[f]]
  /\ UNCHANGED <<known, published, acked, candidates, incidents, notified,
                 announced, corr, prom, faults>>

\* A statement fails: `?` leaves the rest undone, and nobody repeats it.
ProducerFails(e) ==
  /\ producer[e] \notin {"new", "done"} /\ Fault
  /\ producer' = [producer EXCEPT ![e] = "done"]
  /\ UNCHANGED <<known, published, acked, candidates, incidents, alerts,
                 notified, announced, corr, prom>>

-----------------------------------------------------------------------------
\* The correlation service.

Near(e, f)   == Attr[e].at - Attr[f].at \in -Window..Window
\* is_correlatable: the other types are the system's own observations.
Correlatable(e) == Attr[e].type \in {"threat", "bgp", "rpki", "provider_error"}

\* correlate: by resource, else by a shared indicator, else by the source of a
\* provider error.
Correlate(e, f) ==
  LET shared  == Attr[e].values \cap Attr[f].values
      chain   == Attr[e].type # Attr[f].type
      same    == Attr[e].source = Attr[f].source
      none    == [key |-> None, conf |-> 0]
  IN IF e = f \/ ~Correlatable(e) \/ ~Correlatable(f) \/ ~Near(e, f) THEN none
     ELSE IF Attr[e].resource # None /\ Attr[e].resource = Attr[f].resource
     THEN [key |-> ResourceKey(e), conf |-> IF chain THEN 96 ELSE 82]
     ELSE IF shared # {}
     THEN [key |-> <<"indicator", CHOOSE v \in shared : \A u \in shared : v <= u>>,
           conf |-> IF chain THEN (IF same THEN 86 ELSE 92) ELSE (IF same THEN 72 ELSE 78)]
     ELSE IF same /\ "provider_error" \in {Attr[e].type, Attr[f].type}
     THEN [key |-> <<"source", Attr[e].source>>, conf |-> 68]
     ELSE none

\* derive_outcome: highest severity, a chain of medium events counts as high;
\* highest confidence plus four for every further type.
Outcome(es, confs) ==
  LET types == {Attr[e].type : e \in es}
      sev   == Max({Attr[e].sev : e \in es})
      conf  == Max(confs \cup {0}) + 4 * (Cardinality(types) - 1)
  IN [sev  |-> IF Cardinality(types) >= 2 /\ sev = Medium THEN High ELSE sev,
      conf |-> IF conf > 100 THEN 100 ELSE conf,
      summary |-> IF Cardinality(types) >= 2 THEN types ELSE {}]

\* What persist_correlation is asked to store for an event and its matches: the
\* strongest match decides the key.
Key(e, matches) ==
  IF matches = {} THEN ResourceKey(e)
  ELSE Correlate(e, CHOOSE f \in matches : \A g \in matches :
                      Correlate(e, f).conf >= Correlate(e, g).conf).key
Request(e, key, strong) ==
  [key |-> key, events |-> {e} \cup strong,
   out |-> Outcome({e} \cup strong, {Correlate(e, f).conf : f \in strong}),
   first |-> Min({Attr[f].at : f \in {e} \cup strong}),
   last |-> Max({Attr[f].at : f \in {e} \cup strong})]

\* process_event up to the reading of the events around this one. Without a match
\* and without a resource there is nothing to keep.
Read(p, e) ==
  /\ corr[p].pc = "idle" /\ e \in published \ acked
  /\ \A q \in Correlators : corr[q].event # e
  /\ \E found \in {{f \in published : Correlate(e, f).key # None}} :
       IF ~Correlatable(e) \/ (found = {} /\ Attr[e].resource = None)
       THEN corr' = [corr EXCEPT ![p] = [pc |-> "ack", event |-> e, req |-> None, cand |-> 0]]
       ELSE \E key \in {Key(e, found)} :
              corr' = [corr EXCEPT ![p] =
                [pc |-> "find", event |-> e, cand |-> 0,
                 req |-> Request(e, key, {f \in found : Correlate(e, f).key = key})]]
  /\ UNCHANGED <<producer, known, published, acked, candidates, incidents, alerts,
                 notified, announced, prom, faults>>

Locked(c) ==
  \/ \E p \in Correlators : corr[p].pc = "write" /\ corr[p].cand = c
  \/ \E q \in Promoters : c \in prom[q].rows

\* SELECT ... FOR UPDATE: the newest open or promoted candidate of the key that
\* reaches into the window; waits for whoever holds it.
\* Mutant: a promoted candidate is left alone.
ExtendsOpenOnly(r, c) ==
  /\ candidates[c].status = "open" /\ candidates[c].key = r.key
  /\ candidates[c].last >= r.first - Window

Extends(r, c) ==
  /\ candidates[c].status \in {"open", "promoted"} /\ candidates[c].key = r.key
  /\ candidates[c].last >= r.first - Window

Find(p) ==
  /\ corr[p].pc = "find"
  /\ LET r    == corr[p].req
         fits == {c \in Candidates : Extends(r, c)}
     IN IF fits = {} THEN corr' = [corr EXCEPT ![p].pc = "write", ![p].cand = 0]
        ELSE LET c == CHOOSE d \in fits : \A f \in fits : candidates[d].last >= candidates[f].last
             IN ~Locked(c) /\ corr' = [corr EXCEPT ![p].pc = "write", ![p].cand = c]
  /\ UNCHANGED <<producer, known, published, acked, candidates, incidents,
                 alerts, notified, announced, prom, faults>>

\* Candidate, its events and their relationships (which nothing reads but the
\* incident's own copy of them), in one transaction.
\* Mutant: a promoted candidate is extended without being opened again.
ExtendedInPlace(row, r) ==
  [row EXCEPT !.sev = Max({@, r.out.sev}), !.conf = Max({@, r.out.conf}),
              !.summary = r.out.summary, !.first = Min({@, r.first}), !.last = Max({@, r.last}),
              !.events = @ \cup r.events]

Extended(row, r) ==
  [row EXCEPT !.status = "open", !.sev = Max({@, r.out.sev}), !.conf = Max({@, r.out.conf}),
              !.summary = r.out.summary, !.first = Min({@, r.first}), !.last = Max({@, r.last}),
              !.events = @ \cup r.events]
Fresh(r) == [status |-> "open", key |-> r.key, sev |-> r.out.sev, conf |-> r.out.conf,
             summary |-> r.out.summary, first |-> r.first, last |-> r.last, events |-> r.events]

Write(p) ==
  /\ corr[p].pc = "write"
  /\ LET r     == corr[p].req
         new   == {c \in Candidates : candidates[c].status = "none"}
         c     == IF corr[p].cand # 0 THEN corr[p].cand ELSE Min(new)
     IN /\ corr[p].cand # 0 \/ new # {}
        /\ candidates' = [candidates EXCEPT ![c] =
                            IF corr[p].cand # 0 THEN Extended(@, r) ELSE Fresh(r)]
  /\ corr' = [corr EXCEPT ![p].pc = "ack", ![p].cand = 0]
  /\ UNCHANGED <<producer, known, published, acked, incidents, alerts, notified,
                 announced, prom, faults>>

\* complete_event_delivery.
Ack(p) ==
  /\ corr[p].pc = "ack"
  /\ acked' = acked \cup {corr[p].event}
  /\ corr' = [corr EXCEPT ![p] = Idle]
  /\ UNCHANGED <<producer, known, published, candidates, incidents, alerts,
                 notified, announced, prom, faults>>

\* The transaction rolls back, or the acknowledgement is lost: delivered again.
CorrelatorFails(p) ==
  /\ corr[p].pc # "idle" /\ Fault
  /\ corr' = [corr EXCEPT ![p] = Idle]
  /\ UNCHANGED <<producer, known, published, acked, candidates, incidents,
                 alerts, notified, announced, prom>>

-----------------------------------------------------------------------------
\* The incidents service: promote_incident_candidates.

\* SELECT the open candidates FOR UPDATE SKIP LOCKED: they stay as they are now.
Select(q) ==
  /\ prom[q].pc = "idle"
  /\ LET open == {c \in Candidates : candidates[c].status = "open" /\ ~Locked(c)} IN
     open # {} /\ prom' = [prom EXCEPT ![q].pc = "commit", ![q].rows = open]
  /\ UNCHANGED <<producer, known, published, acked, candidates, incidents,
                 alerts, notified, announced, corr, faults>>

\* Mutant: ON CONFLICT DO NOTHING on the index that never conflicts.
RelatedOnConflict(old, es) == [e \in Events |-> IF e \in es THEN old[e] + 1 ELSE old[e]]

\* INSERT ... WHERE NOT EXISTS: the unique index does not catch the duplicates.
Related(old, es) == [e \in Events |-> IF e \in es /\ old[e] = 0 THEN 1 ELSE old[e]]

\* What a selected candidate c makes of its incident i.
Promoted(i, c) ==
  LET new == i.status = "none"
      dif == i.sev # c.sev \/ i.conf # c.conf \/ i.summary # c.summary
  IN [i EXCEPT !.status = IF new THEN "detected" ELSE @,
               !.sev = c.sev, !.conf = c.conf, !.summary = c.summary,
               !.times = IF ~new /\ dif THEN @ + 1 ELSE @,
               !.related = Related(@, c.events)]

\* The selected candidate, in the order of last_seen, that links the alert of e.
Linking(e, rows) ==
  LET of == {c \in rows : e \in candidates[c].events}
  IN IF of = {} THEN None
     ELSE CHOOSE c \in of : \A d \in of : candidates[c].last <= candidates[d].last

\* Announcements due after the commit: new incidents and escalations.
Due(c) ==
  CASE incidents[c].status = "none"             -> {<<"created", c, 0>>}
    [] incidents'[c].times > incidents[c].times -> {<<"escalated", c, incidents'[c].times>>}
    [] OTHER                                    -> {}

Commit(q) ==
  LET rows == prom[q].rows IN
  /\ prom[q].pc = "commit"
  /\ incidents' = [c \in Candidates |->
       IF c \in rows THEN Promoted(incidents[c], candidates[c]) ELSE incidents[c]]
  /\ alerts' = [e \in DOMAIN alerts |->
       IF alerts[e].incident = None /\ Linking(e, rows) # None
       THEN [alerts[e] EXCEPT !.incident = Linking(e, rows),
                              !.group = <<"incident", Linking(e, rows)>>]
       ELSE alerts[e]]
  /\ candidates' = [c \in Candidates |->
       IF c \in rows THEN [candidates[c] EXCEPT !.status = "promoted"] ELSE candidates[c]]
  /\ \E due \in {UNION {Due(c) : c \in rows}} :
       prom' = [prom EXCEPT ![q] = [pc |-> IF due = {} THEN "idle" ELSE "announce",
                                    rows |-> {}, queue |-> due]]
  /\ UNCHANGED <<producer, known, published, acked, notified, announced, corr,
                 faults>>

\* After the commit: publish, then enqueue, one announcement after the other.
Announce(q) ==
  /\ prom[q].pc = "announce"
  /\ \E item \in prom[q].queue :
       LET rest == prom[q].queue \ {item} IN
       /\ announced' = announced \cup {item}
       /\ notified' = notified \cup (IF incidents[item[2]].sev >= High THEN {item} ELSE {})
       /\ prom' = [prom EXCEPT ![q].queue = rest,
                               ![q].pc = IF rest = {} THEN "idle" ELSE "announce"]
  /\ UNCHANGED <<producer, known, published, acked, candidates, incidents, alerts, corr,
                 faults>>

\* Before the commit everything is undone; after it the rest stays unsaid, possibly
\* with the next announcement published and not enqueued.
PromoterFails(q) ==
  /\ prom[q].pc # "idle" /\ Fault
  /\ announced' \in {announced} \cup {announced \cup {item} : item \in prom[q].queue}
  /\ prom' = [prom EXCEPT ![q] = Waiting]
  /\ UNCHANGED <<producer, known, published, acked, candidates, incidents, alerts,
                 notified, corr>>

-----------------------------------------------------------------------------
\* The operator.

\* incident_status_transition_allowed.
Allowed(s) ==
  CASE s = "detected"      -> {"acknowledged", "investigating", "confirmed", "closed"}
    [] s = "acknowledged"  -> {"investigating", "confirmed", "resolved", "closed"}
    [] s = "investigating" -> {"confirmed", "mitigated", "resolved", "closed"}
    [] s = "confirmed"     -> {"mitigated", "resolved", "closed"}
    [] s = "mitigated"     -> {"resolved", "closed"}
    [] s = "resolved"      -> {"closed"}
    [] OTHER               -> {}

\* transition_incident_status; the note about a closed incident is best effort.
Transition(c, s) ==
  /\ Fault
  /\ s \in Allowed(incidents[c].status)
  /\ incidents' = [incidents EXCEPT ![c].status = s]
  /\ notified' \in IF s = "closed" THEN {notified, notified \cup {<<"closed", c>>}}
                   ELSE {notified}
  /\ UNCHANGED <<producer, known, published, acked, candidates, alerts,
                 announced, corr, prom>>

\* update_alert_status: any of the four.
SetAlert(e, s) ==
  /\ Fault
  /\ e \in DOMAIN alerts /\ alerts[e].status # s
  /\ alerts' = [alerts EXCEPT ![e].status = s]
  /\ UNCHANGED <<producer, known, published, acked, candidates, incidents,
                 notified, announced, corr, prom>>

Produce(e)   == RecordEvent(e) \/ PublishEvent(e) \/ Enqueue(e) \/ GroupAlert(e) \/ InsertAlert(e)
CorrStep(p)  == (\E e \in Events : Read(p, e)) \/ Find(p) \/ Write(p) \/ Ack(p)
PromStep(q)  == Select(q) \/ Commit(q) \/ Announce(q)

IncidentNext ==
  \/ \E e \in Events : Produce(e) \/ ProducerFails(e)
  \/ \E p \in Correlators : CorrStep(p) \/ CorrelatorFails(p)
  \/ \E q \in Promoters : PromStep(q) \/ PromoterFails(q)
  \/ \E c \in Candidates, s \in {"acknowledged", "closed"} : Transition(c, s)
  \/ \E e \in Events, s \in {"resolved"} : SetAlert(e, s)

IncidentSpec == IncidentInit /\ [][IncidentNext]_incidentVars

\* The services poll for ever; a producer runs to its end.
Fairness ==
  /\ \A e \in Events : WF_incidentVars(Produce(e))
  /\ \A p \in Correlators : WF_incidentVars(CorrStep(p))
  /\ \A q \in Promoters : WF_incidentVars(PromStep(q))
IncidentFairSpec == IncidentSpec /\ Fairness

-----------------------------------------------------------------------------
\* Properties.

\* Every row and every process state has its shape.
IncidentTypeOK ==
  /\ published \subseteq Events /\ acked \subseteq published
  /\ DOMAIN alerts \subseteq Events /\ faults \in 0..MaxFaults
  /\ \A c \in Candidates :
       /\ candidates[c].status \in {"none", "open", "promoted"}
       /\ candidates[c].conf \in 0..100 /\ candidates[c].events \subseteq published
       /\ candidates[c].status = "none" => incidents[c] = NoIncident
  /\ \A p \in Correlators : corr[p].pc \in {"idle", "find", "write", "ack"}
  /\ \A q \in Promoters : prom[q].pc \in {"idle", "commit", "announce"}

\* A candidate marked `promoted` has nothing its incident lacks: severity,
\* confidence, summary and every one of its events, related exactly once
\* although a re-promotion walks through all of them again.
PromotedInSync ==
  \A c \in Candidates : candidates[c].status = "promoted" =>
    /\ incidents[c].sev = candidates[c].sev /\ incidents[c].conf = candidates[c].conf
    /\ incidents[c].summary = candidates[c].summary
    /\ \A e \in Events : incidents[c].related[e] = IF e \in candidates[c].events THEN 1 ELSE 0

Consistent == IncidentTypeOK /\ PromotedInSync

\* Two candidates of one key are two episodes: the earlier one ended more than a
\* window before the latest event of the later one. An event that belongs to a
\* promoted candidate extends it and does not start a second incident.
SeparateEpisodes ==
  \A c, d \in Candidates :
    (c < d /\ candidates[d].status # "none" /\ candidates[c].key = candidates[d].key)
      => candidates[c].last + Window < candidates[d].last

\* Every published security event with a resource ends up in an incident, whatever
\* transaction fails or acknowledgement is lost on the way.
EventsReachIncidents ==
  \A e \in Events : (e \in published /\ Correlatable(e) /\ Attr[e].resource # None)
    ~> \E c \in Candidates : incidents[c].related[e] = 1

\* Every alert whose event is in an incident gets linked to an incident: the comment
\* in promote_incident_candidates says the alert exists by the time of the pass.
AlertsLinked ==
  \A e \in Events :
    (e \in DOMAIN alerts /\ \E c \in Candidates : incidents[c].related[e] = 1)
      ~> (e \in DOMAIN alerts /\ alerts[e].incident # None)
=============================================================================
