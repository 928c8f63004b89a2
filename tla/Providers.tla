------------------------------ MODULE Providers -------------------------------
(***************************************************************************)
(* The provider scheduler of worker/src/lib.rs with its tables in          *)
(* storage/src/lib.rs: replicas that take turns by a Redis lock with a     *)
(* TTL, manual synchronisations an administrator asks for, the threat      *)
(* feeds and the network providers, and the events that a change of what   *)
(* they list is to cause.  Feeds says what an answer becomes.              *)
(***************************************************************************)
EXTENDS Integers, Sequences, FiniteSets, SequencesExt, Feeds

CONSTANTS
  Workers,      \* worker replicas
  Threat,       \* threat feeds, in the order of phase_one_providers
  Network,      \* network providers, in the order of network_providers
  Format,       \* the format of each provider's answer
  Answers,      \* what each provider may answer, at first the first
  Requests,     \* providers an administrator asks to synchronise, once each
  Lag,          \* how often one event is counted
  MaxChanges,   \* answers that change, providers switched on or off
  MaxFaults,    \* failing calls, crashes, runs longer than the lock
  None

Order     == Threat \o Network
Providers == ToSet(Order)
Listed(p) == UNION {Batch(Format[p], a) : a \in ToSet(Answers[p])}
Event(p, r) == <<p, r.key, r.view>>
Events    == UNION {{Event(p, r) : r \in Listed(p)} : p \in Providers}
Keys      == {e[2] : e \in Events}
Gone      == "gone"

ASSUME ProvidersAssumption ==
  /\ MaxChanges \in Nat /\ MaxFaults \in Nat /\ Lag \in Nat \ {0}
  /\ None \notin Workers /\ Gone \notin Workers
  /\ Order \in Seq(Providers) /\ Requests \subseteq Providers /\ IsFiniteSet(Requests)
  /\ None \notin {"pending", "running", "completed", "failed"}
  /\ None \notin [provider : Providers, view : {e[3] : e \in Events}]
  /\ \A p \in Providers : Answers[p] \in Seq(ToSet(Answers[p])) \ {<<>>}

VARIABLES
  answer,       \* what each provider serves
  enabled,      \* providers.enabled
  rows,         \* indicators of the threat feeds: provider and value
  asns,         \* asn_records: one row per ASN, with the provider that wrote it
  told,         \* events published, by provider, key and view
  requests,     \* provider_sync_requests.status, by provider
  due,          \* whether the jobs' next_run has come, by worker
  run,          \* what each worker's scheduler is doing
  lock,         \* the Redis key: a worker's, one nobody will delete, or none
  outlived,     \* workers whose run has outlived its lock
  overlapped,   \* two runs have been in progress at once
  changes, faults

vars == <<answer, enabled, rows, asns, told, requests, due, run,
          lock, outlived, overlapped, changes, faults>>
world == <<answer, enabled, changes>>
data  == <<rows, asns, told>>
redis == <<lock, outlived, overlapped>>

Idle == [pc |-> "idle", todo |-> <<>>, batch |-> {}, news |-> {}]

Init ==
  /\ answer = [p \in Providers |-> Head(Answers[p])]
  /\ enabled = [p \in Providers |-> TRUE]
  /\ rows = {}
  /\ asns = [k \in Keys |-> None]
  /\ told = [e \in Events |-> 0]
  /\ requests = [r \in Requests |-> None]
  /\ due = [w \in Workers |-> TRUE]
  /\ run = [w \in Workers |-> Idle]
  /\ lock = None /\ outlived = {} /\ overlapped = FALSE
  /\ changes = 0 /\ faults = 0

Fault   == faults < MaxFaults /\ faults' = faults + 1
At(w, pc) == run[w].pc = pc
Go(w, pc) == run' = [run EXCEPT ![w].pc = pc]
Busy    == {w \in Workers : ~At(w, "idle")}
Job(w)  == Head(run[w].todo)
P(w)    == Job(w).provider
IsThreat(p) == p \in ToSet(Threat)
Row(p, r)   == <<p, r.key>>
Rest(w)     == [run[w] EXCEPT !.pc = "next", !.todo = Tail(@), !.batch = {}, !.news = {}]

-----------------------------------------------------------------------------
(* RedisRunLock and run_due. *)

\* SET NX EX 120; a run that finds the key taken is skipped. The run begins with the
\* cleanup: any row may have passed its expires_at by now.
Begin(w) ==
  /\ At(w, "idle") /\ lock = None
  /\ lock' = w /\ overlapped' = (overlapped \/ Busy # {})
  /\ \E lapsed \in SUBSET rows : rows' = rows \ lapsed
  /\ Go(w, "claim")
  /\ UNCHANGED <<world, asns, told, requests, due, outlived, faults>>

\* The key's TTL: a key nobody will delete always goes, a live run's when it is long.
LockEnds ==
  \/ /\ lock = Gone
     /\ lock' = None
     /\ UNCHANGED <<world, data, requests, due, run, outlived, overlapped, faults>>
  \/ /\ Fault /\ lock \in Workers
     /\ lock' = None /\ outlived' = outlived \cup {lock}
     /\ UNCHANGED <<world, data, requests, due, run, overlapped>>

Pending == {p \in Requests : requests[p] = "pending"}
Marked(ps, state) == requests' = [p \in Requests |-> IF p \in ps THEN state ELSE requests[p]]
Asked(ps) == LET order == SetToSeq(ps)
             IN [i \in DOMAIN order |-> [provider |-> order[i], manual |-> TRUE]]
Jobs(w) == IF due[w] THEN [i \in DOMAIN Order |-> [provider |-> Order[i], manual |-> FALSE]]
                     ELSE <<>>

\* Mutant: claimed requests keep their status until they are finished.
ClaimUnmarked(w) ==
  /\ At(w, "claim")
  /\ run' = [run EXCEPT ![w].pc = "next", ![w].todo = Asked(Pending) \o Jobs(w)]
  /\ due' = [due EXCEPT ![w] = FALSE]
  /\ UNCHANGED <<world, data, requests, redis, faults>>

\* claim_provider_sync_requests: FOR UPDATE SKIP LOCKED, in one transaction. The
\* manual synchronisations go first, then the jobs that were due.
Claim(w) ==
  /\ At(w, "claim")
  /\ Marked(Pending, "running")
  /\ run' = [run EXCEPT ![w].pc = "next", ![w].todo = Asked(Pending) \o Jobs(w)]
  /\ due' = [due EXCEPT ![w] = FALSE]
  /\ UNCHANGED <<world, data, redis, faults>>

\* Mutant: the key is deleted whoever holds it.
ReleaseAny(w) ==
  /\ At(w, "next") /\ run[w].todo = <<>>
  /\ run' = [run EXCEPT ![w] = Idle]
  /\ lock' = None /\ outlived' = outlived \ {w}
  /\ UNCHANGED <<world, data, requests, due, overlapped, faults>>

\* The key is deleted by a script that compares the token.
Release(w) ==
  /\ At(w, "next") /\ run[w].todo = <<>>
  /\ run' = [run EXCEPT ![w] = Idle]
  /\ lock' = (IF lock = w THEN None ELSE lock) /\ outlived' = outlived \ {w}
  /\ UNCHANGED <<world, data, requests, due, overlapped, faults>>

-----------------------------------------------------------------------------
(* One provider: sync_provider and sync_network_provider. *)

Finished(w, state) ==
  IF Job(w).manual THEN Marked({P(w)}, state) ELSE UNCHANGED requests

\* A provider that is switched off is left until its next interval; a manual request
\* for it fails.
Skip(w) ==
  /\ At(w, "next") /\ run[w].todo # <<>> /\ ~enabled[P(w)]
  /\ Finished(w, "failed")
  /\ run' = [run EXCEPT ![w] = Rest(w)]
  /\ UNCHANGED <<world, data, due, redis, faults>>

\* fetch, validate and normalize; nothing has been written when one of them refuses.
Starts(w) == At(w, "next") /\ run[w].todo # <<>> /\ enabled[P(w)]
Fetch(w) ==
  /\ Starts(w) /\ Accepted(Format[P(w)], answer[P(w)])
  /\ run' = [run EXCEPT ![w].pc = IF IsThreat(P(w)) THEN "store" ELSE "check",
                        ![w].batch = Batch(Format[P(w)], answer[P(w)])]
  /\ UNCHANGED <<world, data, requests, due, redis, faults>>
Refuse(w) ==
  /\ Starts(w) /\ ~Accepted(Format[P(w)], answer[P(w)])
  /\ Go(w, "fail")
  /\ UNCHANGED <<world, data, requests, due, redis, faults>>

Upserted(w, rs) ==
  rows' = rows \cup {Row(P(w), r) : r \in rs}
Tell(es) == told' = [e \in Events |-> IF e \in es /\ told[e] < Lag THEN told[e] + 1 ELSE told[e]]

\* ProviderAdapter::store, the whole batch.
Store(w) ==
  /\ At(w, "store")
  /\ Upserted(w, run[w].batch)
  /\ Go(w, "consume")
  /\ UNCHANGED <<world, asns, told, requests, due, redis, faults>>

\* RiskConsumer::consume: what is not stored as it is listed is an event, and stored.
Consume(w) ==
  /\ At(w, "consume")
  /\ Tell({Event(P(w), r) : r \in {x \in run[w].batch : Row(P(w), x) \notin rows}})
  /\ Upserted(w, run[w].batch)
  /\ Go(w, "succeed")
  /\ UNCHANGED <<world, asns, requests, due, redis, faults>>

\* Mutant: whoever wrote the row, another view of the ASN is a change.
DiffersFromAny(p, r) == asns[r.key] = None \/ asns[r.key].view # r.view

\* asn_record_differs: a new ASN, or another view than the same provider's own.
Differs(p, r) ==
  \/ asns[r.key] = None
  \/ asns[r.key].provider = p /\ asns[r.key].view # r.view

\* RiskConsumer::consume_network decides before the upsert what has changed. A BGP
\* change and an invalid RPKI record are told whenever they are listed.
Check(w) ==
  /\ At(w, "check")
  /\ run' = [run EXCEPT ![w].pc = "put",
       ![w].news = {r \in run[w].batch : \/ r.kind = "asn" /\ Differs(P(w), r)
                                         \/ r.kind \in {"bgp_changed", "rpki_invalid"}}]
  /\ UNCHANGED <<world, data, requests, due, redis, faults>>

Written(w, rs) ==
  asns' = [k \in Keys |->
             IF \E r \in rs : r.kind = "asn" /\ r.key = k
               THEN [provider |-> P(w),
                     view |-> (CHOOSE r \in rs : r.kind = "asn" /\ r.key = k).view]
               ELSE asns[k]]
Put(w) ==
  /\ At(w, "put")
  /\ Written(w, run[w].batch)
  /\ Go(w, "tell")
  /\ UNCHANGED <<world, rows, told, requests, due, redis, faults>>

TellNews(w) ==
  /\ At(w, "tell")
  /\ Tell({Event(P(w), r) : r \in run[w].news})
  /\ Go(w, "succeed")
  /\ UNCHANGED <<world, rows, asns, requests, due, redis, faults>>

\* provider_succeeded or provider_failed (rows the views read, and nothing else), and
\* the request's result.
Conclude(w) ==
  /\ run[w].pc \in {"succeed", "fail"}
  /\ Finished(w, IF At(w, "succeed") THEN "completed" ELSE "failed")
  /\ run' = [run EXCEPT ![w] = Rest(w)]
  /\ UNCHANGED <<world, data, due, redis, faults>>

-----------------------------------------------------------------------------
(* Faults: each call of a synchronisation may fail, a batch written in part. *)

\* The key is set and the answer lost: the run is skipped, the key goes by its TTL.
AcquireFails(w) ==
  /\ Fault /\ At(w, "idle") /\ lock = None
  /\ lock' = Gone
  /\ UNCHANGED <<world, data, requests, due, run, outlived, overlapped>>

\* A release that fails is only logged.
ReleaseFails(w) ==
  /\ Fault /\ At(w, "next") /\ run[w].todo = <<>>
  /\ run' = [run EXCEPT ![w] = Idle]
  /\ lock' = (IF lock = w THEN Gone ELSE lock) /\ outlived' = outlived \ {w}
  /\ UNCHANGED <<world, data, requests, due, overlapped>>

\* The requests cannot be claimed, or are and the commit's answer is lost; the jobs
\* that are due are run all the same.
ClaimFails(w) ==
  /\ Fault /\ At(w, "claim")
  /\ UNCHANGED requests \/ Marked(Pending, "running")
  /\ run' = [run EXCEPT ![w].pc = "next", ![w].todo = Jobs(w)]
  /\ due' = [due EXCEPT ![w] = FALSE]
  /\ UNCHANGED <<world, data, redis>>

CallFails(w) ==
  /\ Fault /\ (Starts(w) \/ At(w, "check"))
  /\ Go(w, "fail")
  /\ UNCHANGED <<world, data, requests, due, redis>>

WriteFails(w) ==
  /\ Fault
  /\ \E part \in SUBSET run[w].batch :
       \/ At(w, "store") /\ Upserted(w, part) /\ UNCHANGED asns
       \/ At(w, "put") /\ Written(w, part) /\ UNCHANGED rows
  /\ Go(w, "fail")
  /\ UNCHANGED <<world, told, requests, due, redis>>

\* What the loops of consume and consume_network have got to, and told, when one of
\* their calls fails.
News(w) == IF At(w, "tell") THEN run[w].news
                            ELSE {r \in run[w].batch : Row(P(w), r) \notin rows}
Walked(w, part, heard) ==
  /\ run[w].pc \in {"consume", "tell"}
  /\ Tell({Event(P(w), r) : r \in heard})
  /\ IF At(w, "consume") THEN Upserted(w, part) ELSE UNCHANGED rows

\* An event that cannot be published is only logged.
EventLost(w) ==
  /\ Fault
  /\ \E heard \in SUBSET News(w) : Walked(w, run[w].batch, heard)
  /\ Go(w, "succeed")
  /\ UNCHANGED <<world, asns, requests, due, redis>>

\* An indicator, or what the engine says of it, that cannot be written ends the
\* synchronisation where it is.
RiskUnwritten(w) ==
  /\ Fault
  /\ \E part \in SUBSET run[w].batch : \E heard \in SUBSET (News(w) \cap part) :
       Walked(w, part, heard)
  /\ Go(w, "fail")
  /\ UNCHANGED <<world, asns, requests, due, redis>>

\* Neither the status nor the request's result can be written; both are only logged.
ConcludeUnwritten(w) ==
  /\ Fault /\ run[w].pc \in {"succeed", "fail"}
  /\ run' = [run EXCEPT ![w] = Rest(w)]
  /\ UNCHANGED <<world, data, requests, due, redis>>

\* The process starts again with another token and every job due.
Crash(w) ==
  /\ Fault /\ ~At(w, "idle")
  /\ run' = [run EXCEPT ![w] = Idle] /\ due' = [due EXCEPT ![w] = TRUE]
  /\ lock' = (IF lock = w THEN Gone ELSE lock) /\ outlived' = outlived \ {w}
  /\ UNCHANGED <<world, data, requests, overlapped>>

-----------------------------------------------------------------------------
(* Time, the providers and the administrator. *)

\* The intervals elapse; a job that comes due during a run waits for the next one.
DueAgain(w) ==
  /\ At(w, "idle") /\ ~due[w]
  /\ due' = [due EXCEPT ![w] = TRUE]
  /\ UNCHANGED <<world, data, requests, run, redis, faults>>

Queue(p) ==
  /\ requests[p] = None
  /\ Marked({p}, "pending")
  /\ UNCHANGED <<world, data, due, run, redis, faults>>

Change ==
  /\ changes < MaxChanges /\ changes' = changes + 1
  /\ \/ \E p \in Providers : \E a \in ToSet(Answers[p]) \ {answer[p]} :
          answer' = [answer EXCEPT ![p] = a] /\ UNCHANGED enabled
     \/ \E p \in Providers :
          enabled' = [enabled EXCEPT ![p] = ~@] /\ UNCHANGED answer
  /\ UNCHANGED <<data, requests, due, run, redis, faults>>

Sync(w) ==
  \/ Skip(w) \/ Fetch(w) \/ Refuse(w) \/ Store(w) \/ Consume(w)
  \/ Check(w) \/ Put(w) \/ TellNews(w) \/ Conclude(w)
Step(w) == Begin(w) \/ Claim(w) \/ Release(w) \/ Sync(w)

Next ==
  \/ \E w \in Workers :
       \/ Step(w) \/ AcquireFails(w) \/ ClaimFails(w) \/ CallFails(w) \/ WriteFails(w)
       \/ EventLost(w) \/ RiskUnwritten(w) \/ ConcludeUnwritten(w) \/ ReleaseFails(w)
       \/ Crash(w) \/ DueAgain(w)
  \/ LockEnds \/ Change
  \/ \E p \in Requests : Queue(p)

Spec == Init /\ [][Next]_vars

\* A worker ticks, its timers run out, Redis drops a key nobody deletes.
Fairness ==
  /\ \A w \in Workers : SF_vars(Begin(w)) /\ WF_vars(Step(w) /\ ~At(w, "idle"))
  /\ \A w \in Workers : SF_vars(DueAgain(w))
  /\ WF_vars(LockEnds /\ lock = Gone)
FairSpec == Spec /\ Fairness

-----------------------------------------------------------------------------
(* Properties *)

\* Two scheduler runs are in progress at once only if one of them has outlived the
\* TTL of its lock: nobody releases the lock of another replica's run.
RunsTakeTurns ==
  \A v, w \in Busy : v # w => v \in outlived \/ w \in outlived

\* A manual synchronisation is carried out by at most one worker, overlapping runs
\* and crashes included, and never again after its result is recorded.
ManualOnce ==
  \A w \in Workers : \A i \in DOMAIN run[w].todo :
    LET job == run[w].todo[i] IN
      job.manual => /\ requests[job.provider] = "running"
                    /\ \A v \in Workers \ {w} : job \notin ToSet(run[v].todo)

\* No answer of the event's provider lists its key twice, or as anything but an ASN;
\* a threat feed may list what it likes.
Singular(e) ==
  IsThreat(e[1]) \/ \A a \in ToSet(Answers[e[1]]) : \A r, s \in Batch(Format[e[1]], a) :
    r.key = e[2] /\ s.key = e[2] => r = s /\ r.kind = "asn"

\* Two network providers that describe one ASN differently do not make a change of
\* each other's record: unless two runs overlapped, a view is announced once, and once
\* more only when its provider has left it and come back to it, which takes two changes.
AnnouncedOnce ==
  \A e \in Events : Singular(e) => 2 * told[e] <= 2 + changes \/ overlapped

\* Whatever prefixes a feed lists for good, among comments and other lines, are in
\* the table again and again, after crashes that leave the lock behind, another
\* provider's failures, runs that overlap, and expiry.
FeedsArrive ==
  \A p \in ToSet(Threat) :
    <>[](enabled[p] /\ answer[p].status = "ok" /\ answer[p].readable)
      => []<>({Row(p, r) : r \in Of(answer[p], {"prefix"})} \subseteq rows)

\* A manual request does not stay pending, whatever becomes of the worker that
\* claims it.
RequestsAreTaken ==
  \A p \in Requests : (p \in Pending) ~> (p \notin Pending)

\* Scheduled and manual synchronisation both get their turn.
Synchronised == FeedsArrive /\ RequestsAreTaken

\* What CHANGELOG.md and the comment in consume say of a threat feed: an indicator it
\* lists for the first time is announced by the synchronisation that stores it.
NewIndicatorsAnnounced ==
  \A w \in Workers : (At(w, "succeed") /\ IsThreat(P(w)) /\ faults = 0) =>
    \A r \in run[w].batch : told[Event(P(w), r)] > 0
===============================================================================
