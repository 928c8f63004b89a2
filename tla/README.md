# Formal model of clawforge

TLA+ specifications of clawforge: TLC configurations that check them on small
instances, and TLAPS proofs of what matters most for every size.  Line
references are to this repository.

## 1. The system

clawforge is a set of Rust services around one PostgreSQL database: sensors and
providers write security events and indicators, engines turn them into
incidents and decisions, an API collects approvals, and an executor - the only
service that changes anything outside the database - applies approved firewall
and quarantine actions.  The services never call each other for state; they
meet in rows.  What is hard in it is what happens between two transactions.

| component | state it keeps | operations | hard behaviour | correct when |
|---|---|---|---|---|
| execution requests, leases (`storage/src/lib.rs` 2950-3641) | `execution_requests`, `execution_leases` | create, cancel, maintain (expire, reclaim, time out, retry), claim, complete | replicas claim, reclaim and complete the same row; completion is three transactions | a finished request stays finished; `success` is backed by a receipt |
| approvals (same file 2884-3153; migrations 0029, 0071) | `execution_approvals`, `approval_profile` | approve, confirm, expire | policy, action, account and profile change between read and insert | nothing is applied without the people its policy asked for |
| policy engine and bridge (`policy-engine/`, migrations 0064, 0072) | policy decisions, bridge requests | evaluate, plan, enqueue | facts change between plan and enqueue; engines race for a target and a budget | what is enqueued is current and within the budget |
| firewall generations (`storage/src/firewall_rule_intents.rs`, migration 0055) | intents, receipts, row locks | prepare, finish, mark, resolve | write-ahead of an effect no transaction covers | one owner per rule; statuses and receipts agree |
| executor (`executor/src/main.rs`) | memory between awaits | poll tick: kill switch, TTL sweep, claim, authorize, apply, verify, complete | stale lists, check-then-act, commands slower than the lease | a live apply is not interrupted; a rule is in force until its TTL and no longer |
| firewall adapters (`firewall-agent/src/lib.rs`) | rules on the host | preflight, apply, verify, rollback | not transactional; spellings of one range; lists of generations go stale | never-block list, operators' rules and recorded generations are respected |
| quarantine (`executor/src/quarantine_runtime.rs`, `storage/src/quarantine_intents.rs`, `firewall-agent/src/{docker,proxmox}.rs`) | generations, remote tasks | prepare, apply, recover, sweep, kill, reconcile | remote tasks outlive the executor; operators reconfigure | no isolation without an owner, no restore over drift |
| event backbone (`storage/src/lib.rs` 849-1139) | `events`, `event_delivery` | publish, claim, complete | at-least-once, stale reclaim, dead letters | every event reaches every consumer or its dead letters |
| sensors and ingress (`{linux,haproxy,docker}-sensor/`, `storage/src/security_events.rs`) | checkpoint, buffer; `security_events` | read, flush, checkpoint; authenticate, record, publish | crash between acknowledgement and checkpoint; row and event are two transactions | nothing skipped in silence, nothing twice |
| correlation, incidents, alerts (`correlation/`, `incidents/`, `storage/src/lib.rs` 446-625, 1040-1112, 1774-1990) | candidates, incidents, alerts | record, correlate, promote, announce | four transactions of the producer; commit before announcement; re-promotion | an event is in one episode and ends up in its incident |
| worker: providers (`worker/src/lib.rs`, `intelligence/`) | Redis lock, indicators, ASN records, manual requests | schedule, fetch, store, announce | lock with a TTL; providers overwrite each other | runs take turns, changes are announced once |
| worker: decisions, workflow runs (`worker/src/main.rs`, `decision/`) | `decisions`, `workflow_runs`, `approvals` | evaluate, expire, prepare, approve | select, then insert, outside the lock | one open decision, one run per approval |
| API and MCP (`api/`, `mcp/`) | credentials, `audit_outbox` | about 180 routes; tools | stale credentials, concurrent flushes, vanished clients | authentication is current, agents only read, the trail is complete |
| notification queue (`storage/src/lib.rs` 1141-1192, `notifier/`) | `notification_events` | claim, deliver, complete | remote delivery is not transactional | - |
| security engine, learning, risk, frontend | assessments, reviews | pure rules, forms | - | - |

## 2. Modules

| module | models | composes with |
|---|---|---|
| `FirewallDispatch`, `FirewallDispatchProofs` | request status machine, leases, rule generations, receipts, kill switch, host rules, any number of executors | released requests come from `Governance` |
| `Adapters`, `AdaptersProofs` | nftables and both HAProxy adapters command by command, prefixes, never-block list, slots, row locks | what `FirewallDispatch` calls `Apply`, `Verify`, `Remove` |
| `Governance`, `GovernanceProofs` | create, approve, confirm, expire, policy engine, bridge, dispatch gate | feeds `FirewallDispatch` |
| `Quarantine`, `QuarantineProofs` | generations of one container or VM, two executors, remote tasks | - |
| `EventDelivery`, `EventDeliveryProofs`, `AtLeastOnce` | the event backbone and the abstract queue it implements | carries what the next two publish |
| `Backbone`, `Faults` | the table of events; the bound on what goes wrong | extended by `EventDelivery` and `Incidents`; `SensorIngress` extends `Faults` |
| `SensorIngress` (proofs in `EventDeliveryProofs`) | one sensor of each kind and the ingress | publishes on the backbone |
| `Incidents` (proofs in `EventDeliveryProofs`) | producer, correlation, promotion, alerts | consumes deliveries (repeated as often as there are faults) |
| `Feeds`, `Providers`, `ProvidersProofs` | answers of providers; the scheduler | `Providers` extends `Feeds` |
| `Decisions`, `DecisionsProofs` | decisions, workflow runs, their approval | reads what incidents and providers show |
| `ApiRoutes`, `McpTools`, `ApiAccess`, `ApiAccessProofs` | handlers as data; tools as data; credentials, calls, audit outbox | `ApiAccess` extends both |

Each has an `MC...` module with the values of its constants.  In all of them an
action is one committed transaction, one unlocked read whose result is used
later, or one call of something outside, with everything the code does up to the
next such point.  A process is a record or a function of its step (`pc`) and of
the local variables in scope there.  `MaxFaults` bounds failing calls, lost
acknowledgements and crashes together; `MaxChanges` what owners and the world
change.  Operators marked "Mutant", "Wrong" or "Faulty variant" are deliberately
broken definitions: replacing the real one by them makes TLC find the property
violated.  Variables commented as history do not exist in the code.

### FirewallDispatch

State: one group of variables per table (`status retries age approvalLeft`;
`leaseState leaseHolder leaseLeft`; `genStatus genReq genRule genTtl guard
applied reverted`; `kill`), the host (`host[x]` = remaining life of rule x's
element, 0 when absent) and, per replica, its step and the local variables of the
Rust functions that step is in (`req todo rule gen seen agenda cause`).  A poll
tick is the cycle

    idle -ListKills-> kills -(RouteKill|LegacyKill ...)-> kills
         -ListGenerations-> gens -(SweepGeneration ...)-> gens
         -Maintain-> claim -Claim-> authorize -> dispatch
         -(Preflight, Prepare, Apply, Verify, Finish)*-> running
         -MarkRunning-> terminal -MarkTerminal-> release -ReleaseLease-> idle

with `recover_firewall_rule_generation` (`RecoverLock`, inspect, rollback,
resolve or retain) as the subroutine of both sweeps and a failure edge from each
step.  A rule is an element of `Rules` (adapter, scope and fingerprint together);
budgets, the live TTL ceiling and source resolution appear as the refusal they
cause (`Refuse`).  `LIMIT 100` and `ORDER BY` of the sweeps are dropped.
`BoundedIO` is an assumption on the environment, not code: the executor sets no
deadline on adapter commands, so a dispatch may outlive its lease.  Left out: dry
runs, the receipt-based TTL sweep of rules applied before migration 0055, the
read-only drift check, the `not_applied` status (no caller on this path).

### Adapters

Addresses are numbers of a few bits with a prefix length, so a range has several
spellings (a host with and without length, an IPv4-mapped IPv6 address, a
pseudonym that gives the same address another fingerprint).  A member of `Plans` says
what each request asks for, each adapter once (`names.dedup()`,
`executor/src/main.rs` 198, only drops neighbours, so an operator who lists one
adapter twice is outside the model), `Lists` what the never-block list may be (malformed
included), `Foreign` which rules were there before.  Per adapter the commands differ: an
nftables element with a kernel timeout, an ACL entry whose removal fails when it is
gone, a stick-table entry.  Slots (`Reserve`, `Release`, `Stale`) bound how many workers run
an adapter at once; `Reserve` of a full adapter refuses the whole dispatch.

A go-away adapter appears only as a member of a fan-out.  Every productive dispatch
journals, and a generation can be of nftables, `haproxy` or `haproxy_ratelimit` alone
(`firewall_rule_intents.rs` 70, the CHECK of migration 0055), so `Prepare` refuses the
member and nothing is written for it (`Journaled`).  For a pseudonym the never-block list
is compared where the address is known, in the adapter's apply, after `Prepare`
(`ApplyRefuses`); the generation then ends in recovery.

Sweep and kill switch read a list (`List`) and take the row lock later (`Lift`, with
`Held` for SKIP LOCKED).  The sweep's list has the prepared generations too; one
that is completed by the time it is locked is rolled back as if its TTL were over
(`executor/src/main.rs` 691).  `hasty` is the history of those.

### Governance

`create_execution_request` is four steps (`ReadAction`, `ReadProfile`,
`LookupKey`, `InsertRequest`) because it reads the policy, the profile and the
key outside the inserting transaction; the triggers of migration 0071
(`InsertAllowed`, `ApprovalValid`, `DistinctPersonValid`, `ConfirmationValid`) are
what holds the line.  `BeginApproval` and `Approve`/`Confirm` separate the start
of a transaction (its `NOW()`) from the row lock.  The bridge is `Evaluate`,
`BridgePlan`, `BridgeEnqueue`; the gate of the executor `Claim`, `Authorize`.
`OwnerStep` and `WorldStep` change accounts, policy, posture, profile, listings,
assessments and the heartbeat underneath.  A deployment fixes the bridge mode, callers and
engines.  Scores are inputs; threat-intelligence corroboration is taken as required.

### Quarantine

One target: a container with two networks or a VM with one NIC.  `Preflight`,
`Prepare`, `Guard`, `Check`, then `Disconnect` (Docker) or `Submit`/`Await`
(Proxmox), `Verify`, `Finish`, or `Fail`; recovery is `Take`, `Prove`, `Restore` or
`Connect`, `ReadBack`, `Resolve`, entered by `Sweep`, `KillSwitch` and
`FindActive` (reconcile).  Proxmox tasks run by themselves (`RunTask`), the digest of the
configuration is what they check.  A pass lists generations without a lock
(`quarantine_runtime.rs` 108) and may restore one that was listed as prepared and is
completed when it is locked: `Sweep` allows that however late, which is more than one pass
could do, and fairness is only asked of generations that are due.  `cut` and `lifted` are history.  The gate
(`quarantine_gate.rs`) refuses every live dispatch in production, so apply
and reconcile are reached by the repository's tests only; recovery is not behind it.

### EventDelivery and AtLeastOnce

One row per event and consumer (`status attempts wait fresh`), per process the
batch it claimed and how its last handler ended.  A `Claim` may lose its batch
after the commit; a `Report` may be carried out without the process learning of
it.  `Relays` (events, notifier) give the rest of a batch up on an error,
`Careless` consumers (analyzer) report success whatever happened.  Rows that
`SKIP LOCKED` passes over are taken to be claimed by the other transaction.
`AtLeastOnce` says what a queue owes its producers: accepted items stay open
until settled after being handled, or are given up; a settled item stays settled.
`BoundedIO` again is about the environment: batches end before the stale window.

### SensorIngress

The reader and sender tasks of a sensor (`chan`, `buffer`, `checkpoint`) and the
batches the server works on, which go on when the connection breaks.  `LineOf`
says what a sensor can tell about an entry (valid JSON, a cursor, a match, a status), so
each sensor's parser decides what is reported.  `RecordItem` and `PublishItem` are
separate transactions; `copies` counts the rows of `events` they leave.  `AckJournal` and `AckDocker` differ as the sensors do.

### Incidents

`RecordEvent`, `PublishEvent`, `Enqueue`, `GroupAlert`, `InsertAlert` are the producer's
transactions; `Read`, `Find`, `Write`, `Ack` the correlator's; `Select`,
`Commit`, `Announce` the promoter's.  `Correlate` is the pairwise rule of
`correlation/src/lib.rs` (types, shared values, resource, window), `Outcome` its
severity and capped confidence.  Times are integers, `Window` is two.

### Feeds and Providers

`Feeds` says what fetch, validate and normalize make of an answer, format by
format, with rows reduced to their kind.  A run of `Providers` is `Begin` (lock), `Claim` (manual
requests), then per job `Fetch`, `Store`, `Consume` (threat) or `Check`, `Put`,
`TellNews` (network), `Conclude`, and `Release`.  What may fail on the way: taking the
lock (`AcquireFails`), the claim, which is logged and the run goes on (`ClaimFails`), a
feed or a write, an event or a risk record in the middle of a loop, which ends the
synchronisation where it is (`EventLost`, `RiskUnwritten`), the conclusion, and the release
(`ReleaseFails`: the key stays until its TTL).  All intervals elapse together.
`provider_status` is not modelled: only views read it.

### Decisions

A tick looks one draft up (`Look`) and writes it (`Write`) in two statements,
expires, lists the prepared runs and commits new ones with their approvals
(`Commit`).  A grant is open between its reads and its commit (`Grant`,
`GrantCommits`), as two administrators see it.  `overlapped`, `switched` and `raced` record that
two ticks ran at once, a workflow was replaced, two grants were open at once.

### ApiRoutes, McpTools, ApiAccess

A route is who may call it and the order in which its handler touches the
outside world.  `ApiAccess` runs such handlers step by step for several clients,
with credentials that are issued, revoked, rotated or expire meanwhile, and the
audit outbox that each audited call writes and flushes: the oldest unpublished rows,
at most `batch` of them (the `LIMIT`), perhaps without a row another flush is marking at
that moment (`SKIP LOCKED`; the locks of the `SELECT` end with it).  Learning routes answer 503
where learning is switched off, ask for the exact scope, and then look the token up
(`Actor`): 403 for one that is not onboarded, which only an offline command does
(so `onboarded` is part of the deployment), and for a lookup that fails
(`api/src/learning.rs` 18-38).  The rate limiter may refuse any route but the probes
(`Unlimited`).  The MCP server checks a tool
against its configured scopes and makes the tool's calls one after another (the
code joins some of them).  Rate limiter counts, filters, paging and JSON are left out.

## 3. Runs

Model values for ids.  Two processes where interleaving matters: each race the
code guards against is between two.  One or two faults allow a crash followed by
a failing retry.  Timers are one or two ticks: only their order of expiry matters.
Symmetry only where no liveness is checked.

| run | instance | shows |
|---|---|---|
| `slow_replicas` | 2 replicas that may outlive a one-tick lease, 1 request, 1 rule, 1 retry, 1 fault | one owner per rule, receipts and finished statuses, no rule without an owner |
| `served` | 1 replica, nftables and HAProxy rule, 1 kill, 1 fault, fair | no rule goes early, `failed` leaves nothing in force, TTLs are enforced, kills served |
| `shared_stream` | 2 events, 2 processes of one consumer and a relay, 2 attempts, 1 fault, batches end in time | no delivery held twice, none stranded early, refinement of `AtLeastOnce` |
| `governance` | 3 accounts, 2 actions, 2 callers or 1-2 engines, 2 decisions on one source, 6 deployments, 1 change, 1 tick | who decided suffices, keys are bound, bridge limits hold, enqueued is current |
| `quarantine` | 2 executors, 2 quarantines, 1 reconcile, kills, 3 tasks, 1 fault, both adapters, fair | owned isolations, no restore over drift, fenced applies, nothing stays due |
| `sensors` | each sensor, 3 entries, batch 2, 2 server slots, 2 faults or changes, fair | nothing lost in silence or twice; journal sensors drain |
| `incidents` | 3 events over 2 windows, 1 correlator, 1 promoter, 1 fault or operator action, fair | incidents in sync, separate episodes, every event arrives |
| `access` | 2 clients and MCP, 3 accounts, 5 credentials, 2 calls, 1 fault, several deployments (one with more rows waiting than a flush takes, one without learning, one with a token that is not onboarded) | current authentication, agents only read, complete trail, rows delivered once, tools refused for no scope |
| `adapters` | 2 workers, 2 slots per adapter, 2 requests in 8 combinations of targets and adapters, 2 lists, 1 kill, 1 fault, fair clock and kernel | never-block list, foreign rules, recorded generations; kernel timeout |
| `providers` | 2 workers, 1 feed, 2 network providers, 1 manual request, 1 change, 1 fault, fair | runs take turns, manual once, announced once, feeds and requests get served |
| `decisions` | 2 workers, 2 approvers, 1 incident, 2 workflows, 2 decisions, 2 runs, 1 change, 1 fault | one decision and approvable run unless ticks overlap; one run per approval |
| `unannounced_feed` (violation) | `providers` without fairness | the first synchronisation of a feed announces nothing |

Why the bounds suffice: a second owner, holder, proposal, episode or run is the
smallest counterexample of its property; `sensors` has three entries so that one is
read, one in flight and one behind; `incidents` has a third event outside the
window of the first and inside that of the second; `adapters` has one rule asked for twice
in nftables and in HAProxy, one address under two fingerprints, the never-block address
behind a pseudonym and inside a broader mapped range, a prefix that is too long,
an operator's rule and a fan-out with go-away; two attempts stand for five, since only
reaching the last one matters.
`CHECK_DEADLOCK FALSE` where the instance ends (all requests, calls, entries or events used up).

Several properties are conjunctions of named parts: `Backed` (types, who
approved a request that is applied, who may lower a requirement, approvals in
time), `ProposalsBounded`, `Isolation` (types, `CutIsOwned`, `SoleMutator`),
`Accounted` (types, `NoSilentLoss`, `PublishedOnce`), `Consistent`,
`Authorised`, `RowsDelivered`, `EnforcedAsRecorded`, `Synchronised`,
`TicksAgree`, `NeverUndoneEarly`.

What the exceptions in the properties mean: `TicksAgree` and `ApprovalPerRun`
exempt states after two ticks overlapped, a workflow was replaced or two grants
were open at once, because the code then does produce duplicates (section 4);
`EnforcedAsRecorded` exempts completed generations a sweep had listed as prepared
(`hasty`), and those whose address a generation under another fingerprint shares;
`ToolsServable` allows the 403 of learning for a token that is not onboarded or a failed
lookup, so it is about scopes alone; `AnnouncedOnce` exempts overlapping runs, and lets a view be announced again after two
changes, away from it and back (the run has one change, so once); `RunsTakeTurns` a run that outlived
its lock; `NoRowForgotten` rows whose last flush failed; `NoSilentLoss` entries
passed over by a stream opened without a checkpoint.  `SuccessHasReceipt` and its
like have none.

Fairness, each from a loop in the code that does not wait for anyone else:

- executors (`served`): `Sweep(w) \/ Dispatch(w)` per replica, a timer loop
  (`main.rs` 1929-2122) with SKIP LOCKED; `Tick`, because the clock runs.
- `quarantine`: a started step of an executor goes on (also after a crash: the
  loop is restarted idle), and the sweep lists every due generation.
- `sensors`: reader, sender and the server's handler go on.  Not the source, the owner, or faults.
- `incidents`: producer, correlator and promoter are timer loops or straight code.
- `adapters`: only the clock and the kernel: `DeadMansTimeout` needs no executor.
- `providers`: a started run goes on; strong fairness of taking the lock and of
  the interval, since the other replica may hold it again and again but gives it
  up each time; the lock of a dead process ends by its TTL.

## 4. Where the code departs from its words

`unannounced_feed` is a run: `sync_provider` (`worker/src/lib.rs` 768) stores a
feed's indicators before `consume` asks which are new, so `indicator_differs` is
false for all of them and no event is recorded, although `CHANGELOG.md` 41 says a
new indicator "is still an event".

The modules state further promises of comments and docs that TLC finds violated in
instances like the ones above.  They are definitions of the modules without a run:

| property | instance | what happens |
|---|---|---|
| `KillCompletes` (FirewallDispatch) | 1 replica, `HapPlan`, fair | the rollback for a kill succeeds, the update of `processed_at` fails, the retry meets an absent HAProxy entry, an error (`firewall-agent/src/lib.rs` 1369), for ever; `executor/src/main.rs` 842 says the retry is safe |
| `OwnerFinishes` | 2 replicas, no fault | the sweep locks the row before it looks at the lease (`main.rs` 679); the owner's `finish` finds it locked and a verified apply is reported `rollback_required` |
| `StolenOnlyFromTheDead` | 2 replicas, 1 retry | the lease released by execution id (`storage/src/lib.rs` 3625) is the next claimant's |
| `InForceUntilExpiry` | 2 replicas | a generation listed as prepared completes and is rolled back as if expired (`main.rs` 691) |
| `KillUndoesOnce`, `NeverReapplied` | 2 requests (`TwinPlan`); a crash after `finish` | a retried kill rolls back a newer generation; a reclaimed request applies its rule again |
| `NoOrphanRule` | 2 replicas, a kill, a lease of one tick and one retry | a kill undoes a generation whose first apply is still under way |
| the same | 3 replicas, slow adapter commands, no kill, no retry | one sweep moves a generation whose lease lapsed from prepared to recovery_required, another with an older list rolls it back, and the apply still under way puts the rule on the host afterwards |
| `Settles` (EventDelivery) | 1 process, 1 crash, fair | a crash in the last attempt leaves the row `processing`; `docs/events.md` 20 says it is marked `dead`.  Holds without faults |
| `FailureIsRetried` | a careless process | the analyzer reports success for what it failed to handle |
| `OldCannotRestoreNewer` (Quarantine) | Proxmox, 2 quarantines, no fault | a restore task that timed out keeps running and lifts the next generation's isolation; `quarantine_runtime.rs` 53 says it cannot |
| `DockerDrains` (SensorIngress) | Docker only, fair | the sensor posts its whole buffer; above the ingress's 100 items every flush is refused; `docs/sensors.md` says batching matches the others |
| `Repairable` | Linux, 1 fault | a row whose publication failed is answered `rejected` in a 200, the sensor's checkpoint passes it, and no retry repairs it (`security_events.rs` 505) |
| `AlertsLinked` (Incidents) | 1 event, no fault | an alert inserted after the promotion pass is never linked (`storage/src/lib.rs` 1855) |

Seen while modelling, modelled as the code does it:

- Governance: the profile that lowers a requirement counts at two moments.  With
  the policy lowered to one person and the profile switched off between
  `ReadProfile` and the insert, and on again later, a request that names its
  operator is inserted while no profile is in force, and the operator's own
  confirmation is then enough.  `LiveBacked` therefore asks for the profile at
  insertion only where the policy asked for more than one person; the proof of
  `Backed` failed on the stronger form, which TLC refutes with three changes.
- Governance: the gate of the policy engine checks `component='executor'`, its
  comment (`policy-engine/src/main.rs` 643) says otherwise; a confirmation has no
  clock check of its own beyond its transaction's `NOW()` (`storage/src/lib.rs`
  2901); an expired proposal nobody decides stays `waiting_approval` and blocks its
  target; automatic requests never pass `firewall_request_live_authorized`.
- Quarantine: the UPID is recorded only after the apply succeeded (the comment of
  migration 0056 says earlier); the sweep takes a `prepared` generation of any age.
- Adapters: lifting one of two generations of one address removes the other's
  rule; a sweep whose list is older than an apply undoes that apply before its TTL (with
  two workers, `hasty`); an action may name go-away, but no productive
  dispatch of it gets past its generation (`firewall_rule_intents.rs` 70).
- Sensors: a start without a checkpoint begins at the present; Docker empties its
  buffer even when the answer cannot be parsed or the checkpoint not saved.
- Incidents: a failure after the commit loses the announcement; two correlators
  may insert two candidates of one key, two producers two open alerts of a group.
- Providers: the lock's 120 seconds are outlived by a long run; a request claimed by a
  worker that dies stays `running`; calm-to-alarming BGP and RPKI records are
  announced on every synchronisation; a crash between a record and its event loses it.
- Decisions: the tick's second half runs outside the lock, with no unique index, so
  two workers make duplicate decisions and runs, the second run without an
  approval; two grants of one decision may consume one approval twice
  (`storage/src/lib.rs` 4284); one invalid draft ends the evaluation, expiry included.
- API: the bootstrap count and insert are two statements; rotation revokes before
  it creates; the limiter's clean-up above 10,000 buckets uses the current
  request's window; several list and export routes write no audit row; learning
  writes record their audit row without a flush, and no loop flushes the outbox;
  `agent:workflow:approve` opens nothing; a learning call whose onboarding record cannot be
  read is answered 403, not 503 (`api/src/learning.rs` 31).

## 5. Proofs

Every theorem holds for any sets of processes, rows, ids and rules and any limits
the modules' assumptions allow, so for instances no run reaches.  Each rests on
an inductive invariant of named conjuncts, the larger of which TLC checked first, as
invariants of the run of the same module.  A proof has one
lemma per conjunct or group of actions and one step per action in it; the
theorem combines them.  Where several conjuncts meet the same question ("what may
this step do to the rows?"), a lemma answers it once: `RowMoves`, `TaskMoves` and
`TargetMoves` of `QuarantineProofs`, `RowInserted` and `RowsMoved` of
`GovernanceProofs`, `OthersKept` of `FirewallDispatchProofs`, `WorkerMoves` and `WorldMoves` of `AdaptersProofs`,
`CallMoves`, `CredsMove` and `RowsMove` of `ApiAccessProofs`.

| module | theorem | property | hypothesis |
|---|---|---|---|
| `FirewallDispatchProofs` | `TypeCorrect` | `TypeOK` | |
| | `RuleHasOneOwner` | `OneOwner` | |
| | `ReceiptsTellTheTruth` | `ReceiptsMatch` | |
| | `SuccessIsBacked` | `SuccessHasReceipt` | |
| | `LiveOwnersKeepTheirGeneration` | `LiveLeaseNotStolen` | |
| | `SettledIsFinal` | `SettledStaysSettled` | |
| | `RulesHaveOwners` | `NoOrphanRule` | `Undisturbed` |
| | `FailedLeavesNothing` | `FailedIsEffectFree` | `Undisturbed` |
| | `NothingUndoneEarly` | `NeverUndoneEarly` | `OneReplica` |
| `AdaptersProofs` | `ForeignRulesStay` | `ForeignKept` | |
| | `ListIsRespected` | `NeverBlocked` | |
| | `SurfacesMatchRecords` | `EnforcedAsRecorded` | |
| `GovernanceProofs` | `RequestsAreBacked` | `Backed` | finitely many users |
| | `KeysNameOneRequest` | `KeyBound` | |
| | `BridgeStaysBounded` | `ProposalsBounded` | |
| | `BridgeInsertsCurrentPlans` | `EnqueuedIsCurrent` | |
| `QuarantineProofs` | `IsolationsAreOwned` | `Isolation` | |
| | `OperatorKeepsNic` | `DriftKept` | |
| | `AppliesStayFenced` | `ApplyFenced` | |
| `EventDeliveryProofs` | `DeliveryTypes` | `TypeOK` | |
| | `AttemptsNeverStrand` | `AttemptsAccounted` | |
| | `HoldersAreExclusive` | `OneHolder` | `BoundedIO` |
| | `DeliveryIsAtLeastOnce` | `AtLeastOnceDelivery` | `Careless = {}` |
| | `IncidentsInSync` | `Consistent` of `Incidents` | |
| | `EpisodesStaySeparate` | `SeparateEpisodes` of `Incidents` | at most one correlator |
| | `EventsAccounted` | `Accounted` of `SensorIngress` | |
| `ProvidersProofs` | `SchedulersTakeTurns` | `RunsTakeTurns` | |
| | `ManualSynchronisationOnce` | `ManualOnce` | |
| | `ViewsAnnouncedOnce` | `AnnouncedOnce` | |
| `DecisionsProofs` | `TurnsAreEnough` | `TicksAgree` | `NoneIsNoRow` |
| | `ApprovalsAreSpentOnce` | `ApprovalPerRun` | `NoneIsNoRow` |
| `ApiAccessProofs` | `AccessAuthorised` | `Authorised` | |
| | `AccessTrailComplete` | `TrailComplete` | |
| | `AccessRowsDelivered` | `RowsDelivered` | |
| | `AccessToolsServable` | `ToolsServable` | |

Besides the hypotheses the proofs use the modules' own assumptions on constants,
which TLC evaluates in every run: positive timers and limits, plans that contain
their mandatory rule, addresses with a family and a length, and the null value not
being an id.  `NoneIsNoRow` says the same of tuples and records; an unbounded set of
these is nothing TLC can evaluate, so it is a hypothesis.  `EventDeliveryProofs` extends
the three modules on an event's path, which is why `Incidents` and `SensorIngress` call their
specifications `IncidentSpec` and `IngressSpec`; each theorem is about one of them, and TLC
evaluates the assumptions of each in its own run.

### Firewall dispatch

`IInv` adds to the properties what makes them inductive: a step
has in hand what its code has in scope (`Scoped`); a generation's request and
rule are written once (`Identified`); whoever is in a recovery step holds the row
lock and the row is as it was when locked (`LockHeld`), so `Resolve` and `Retain`
need no condition of their own; a dispatch works on a generation of its own for its
own request and rule (`OwnsGeneration`), so the receipt it writes is the right one;
and an adapter counted as succeeded has its receipt persisted
(`MandatoryPersisted`), so does a request that becomes `success`.
`LiveLeaseNotStolen` is inductive through `RecoverPrepared`, the only way out of
`prepared` for another replica, which reads the lease under the row lock, and
through `Claim`, which cannot give a request to a second replica while it owns a
generation.

What is on the host is another matter: section 4 shows a rule without an owner
when an apply outlives its lease or a request is retried while its first executor
still runs.  `RulesHaveOwners` shows that nothing else can cause one.
`Undisturbed` is `OneReplica` (the compose files start one executor), with any
timers, retries and crashes, or `Calm`: any number of replicas, dispatches that end
within their lease, no retries.  The invariant says of a recovery that it has the rule
off the host before it gives the generation up (`Undoing`), of an apply that its
generation is still `prepared` (`AppliesOwned`; under `Calm` because `LeaseKept`
holds the lease for it), and of a dispatch whose outcome is still open that
the generation in hand is all it may have in force (`UndecidedClean`), so what `Outcome`
calls `failed` has left nothing.  `NeverUndoneEarly` needs one replica: a second
one acts on a list the first has made stale (`InForceUntilExpiry` in section 4).
Its invariant says that a listed kill was requested for the rule at hand
(`OnErrand`), that what the sweep lists is due (`SweepsDue`), and that an element
lives at least as long as its generation (`Lasting`), since the kernel's timeout is
armed after the TTL is recorded.

### Adapters

All three share `Types` and `Fit` (what a worker has in hand fits its step).
`ForeignRulesStay` needs `Kept`: no generation is of a rule that was there before, so what an
adapter removes was never an operator's.  `ListIsRespected` needs `Screened` - every rule on
a surface is that of a target that was compared with the list - and one fact about
addresses, `SharedHostOverlaps`: if any host lies in two ranges then the ranges agree
under the shorter of their prefixes, which is what `ranges_overlap` compares.  So a
comparison of range against range is enough for every host, for either family and
for all spellings.

`SurfacesMatchRecords` says that completed generations are in force and lifted ones
are not, for any number of workers, any budget and slots that leak.  A surface cannot
be told exactly from the records, because a command and its record are two steps; `Matched`
brackets it: every surface has at least the rules of completed generations nobody may lift
(`Needs`) and, beside foreign rules, only those of active generations no worker has just
undone (`Owner`); what a worker saw before it records a completion is still there (`Seen`).
That needs `Alone` (a request has one worker, and a generation being lifted one holder of its
row), `Minded` (a generation stays what the worker at it takes it for: prepared while it
is applied, due while it is lifted, however old the list), `Unique` (the index of rule
scopes) and `Timed` (the kernel's timeouts are those of active generations).  Without the row lock
(`HeldByNobody`) two workers lift one generation and the later command takes away the rule of
its successor.

### Governance

`Warranted`, the invariant behind `Backed`, says of every row what the insert triggers
checked (`RowsSound`) and of every vote what the vote triggers checked
(`VotesSound`), in terms that no later change of policy, profile or accounts touches; and
of a claimed, cleared or live request that enough such votes exist
(`ClaimsBacked`, `ClearedBacked`).  The set of users is assumed finite because the count of
voters only grows with the set of votes if that set is finite.  `ProposalsBounded` and
`KeyBound` hold because rows are numbered in the order of insertion (`Dense`) and
an insert is the only step that adds one, under the condition that bounds them.

### Quarantine

Isolations are cut by remote tasks that go on after the executor that
submitted them died, so ownership cannot be proved from the executors' steps alone.
`TasksOwed` carries it: a task that will still take a link down is of a generation
that is prepared or handed to recovery, has no UPID on record and is worked on only by
the executor that waits for this task or by a recovery that has yet to prove the target's state.  `Cuts` follows: whatever takes a link down
charges it to a generation that owns the target, and the step before `Resolve`
proves it free of cuts.  `Planned` ties what is written to the snapshot, which with the
configuration's version gives `DriftKept`; `Locked` and `OneActive` give that one executor
at a time is past its guard; `Appliers` that the one that claimed a quarantine is
the only one to apply it.

### Events, providers, decisions

`EventDeliveryProofs`: a row exists only of a published event
(`RowsArePublished`, why publication never resets a row), a batch holds rows
and, under `BoundedIO`, only fresh `processing` ones (`BatchesAreClaims`, why neither
claim statement can pick them for another process), and a success about to be
reported was one (`SuccessIsHandled`, why settling refines `Settle`).  The
refinement theorem needs one lemma, `QueueStep`, with a step per action.  Both
hypotheses are needed: with `BoundedIO = FALSE` a batch goes stale while its
process still works on it and another claims it, and a careless process violates
`FailureIsRetried`.

`ProvidersProofs`: a run that has not outlived its lock holds the Redis key
(`BusyHoldsLock`), because releasing
compares the token (`worker/src/lib.rs` 98).  `ManualOnce` does not lean on the lock: a
claim takes what is pending and marks it in one statement, so what any other worker holds
is not pending; within one claim `SetToSeq` lists a request once
(`AskedOnce`, from the bijection of a finite set with an interval), and a settled
request is gone from the list before its status changes (`Onwards`).
`AnnouncedOnce` is an account (`Settled`): every announcement after the first is paid
for with two changes of the provider, away from the view and back.  `Paid` says how many
of the two must have been made, given whether the provider lists the view now and
whether the table has another view that it wrote itself; `RunPaid` says the same of what a
worker has fetched, decided and not yet written or told, because the answer may change
in between.  Another provider's record only takes the reason away.  For a feed
the account is always zero: `Store` comes before `Consume` asks (section 4).
A provider that lists an ASN twice with two views in one answer, or an alarming BGP or
RPKI record, is outside (`Singular`): those are announced by every synchronisation.

`DecisionsProofs`: as long as ticks take turns, one worker is busy and what it has
looked for in vain is still missing when it writes (`Turns`), so every decision has at
most one run, of the workflow that serves it, and that run's own approval is the one a grant
takes (`OneRunEach`).  `ApprovalPerRun` does not need the turns: `Spent` says that what an
open grant holds is still waiting, that no two open grants hold approvals of one
decision, and that a decision has no more released runs than approved approvals -
until two grants are open at once, which is when the code spends one twice.

### Incidents and sensors

`SyncInv`, behind `Consistent`, needs little beyond types: every row and every worker has
its shape, and a promoter's list holds rows that exist, since promotion copies the
candidate inside one transaction; an extension that comes later
reopens the candidate.  Its lemmas are about what is copied: severity and confidence stay in
bounds (`Confidence`, `OutcomeBounded`), and a sequence of a finite set's events lists
each once.  `EpisodeInv` adds that rows are numbered in the order of insertion and that a
correlator between its `SELECT ... FOR UPDATE` and its commit still has the
newest candidate its request extends, or there is none (`ChosenRight`).  With two
correlators that is false: both find none and both insert (section 4), so the
theorem is about at most one process, which `compose.yml` starts and the run has.

`Accounted` of a sensor is about three positions in the log - checkpoint, front of the
buffer, reader - and everything behind each.  `BehindHandled` (nothing behind the checkpoint is
unhandled) is the property; it is not inductive, because a checkpoint is taken from whichever
entry ends an acknowledged batch.  `Covered` strengthens it to every entry of the
backlog (`buffer` and `chan` in one): what precedes an entry is handled or stands in front of it,
so whichever prefix an answer settles (`Acknowledged`), a full buffer drops (`FrontGone`,
counted) or a crash empties, the entries behind stay accounted for.
`ReadKept` is the same of the reader, and `Resumes` says that opening the stream at a
checkpoint starts right behind it, or records what it passes over.
`PublishedOnce` rests on `ServerInv`: an item is published by the request that inserted its row.

### API and MCP

The invariant `IInv` of `ApiAccessProofs` speaks of one call at a time: `Admitted`, that a call
past authentication came in with a credential in force, of the kind and with the
scopes its route asks for; `Trailed`, that each logging step behind it has left a row
unless the store failed, and that what it changed it changed in a step behind it;
`Flushing`, that the rows in its hands exist and a row it has sent is in the stream
once.  `CallMoves`, `CredsMove` and `RowsMove` say what any step may do to a call, a credential and the
rows.  Credentials only go out of force, so one that is in force now was when the
call came in.  No proof goes through the 180 handlers: what is used of the tables are
`RoutesAssumption` (an agent's route that changes something asks for an exact learning scope;
what reads for an agent or changes anything logs) and `ToolsAssumption` (a
tool asks for scopes of its routes), which TLC evaluates over the full tables of `ApiRoutes` and
`McpTools`; a new handler that breaks one of them is found there.
`RowsDelivered` holds for any `LIMIT` and any interleaving: two flushes may hold the same row,
but `publish_event` adds it once, its mark comes after, and whatever a flush does
not take, gives up or dies with is in `left` for a later one.  What it takes are rows of
the outbox because a finite set of row numbers has its sequence in order (`OrderedAppend`, by
induction on the set).  `ToolsServable` follows a tool's call from the server's own check, made on
the scopes it is configured with, to the API's, made on the token's: what is left of 403 is learning's
lookup of a token that is not onboarded, or a lookup the store failed (`lost`).

### Only model-checked

All liveness properties: `TtlEnforced`, `KillServed`, `DueEnds`, `DeadMansTimeout`,
`Drains`, `EventsReachIncidents` and `Synchronised`.  The prover handles neither
`ENABLED` nor fairness.  The properties of section 4 are refuted by TLC, and the
instances of section 3 are where every invariant was checked before it was proved.

Induction is over numbers and finite sets only (as well-foundedness, or a theorem of the
library about finite sets); no proof is about what a recursive definition computes, and no
module uses a `RECURSIVE` operator.

## 6. Not modelled

- Go-away's own file operations (`firewall-agent/src/lib.rs` 1753-1833): journaled
  dispatches never get to them; a kill for a target no generation owns may rewrite the
  file, on one surface no model of this project has.
- Tailscale adapter (`firewall-agent/src/tailscale.rs`): a read-then-replace of a device's
  tags behind a remote API; live dispatch is refused in production.
- The mass-block window of the firewall budgets (`executor/src/main.rs` 278): a
  possible refusal (`Refuse`).  What it counts are receipts written after the
  dispatch, so replicas can exceed it together; only the in-flight slots are modelled.
- The notifier's own queue (`storage/src/lib.rs` 1141-1192): next in the plan.
- Security-engine window rules and assessments, risk and analyzer scoring,
  evidence scoring of decisions: arithmetic over floating point and text without
  shared state; the models take their results as inputs.
- Structured learning's review workflow and its trust import: single
  transactions of one operator at a time; only its routes and audit rows are modelled.
- The worker's IP-context refresh loop and `provider_status`: read by views only.
- The executor's read-only drift check: it changes nothing but its own memory.
- Live authorization files, connector and secret types: parsed once, no state.
- Counting of the API's rate limiter, request and response bodies, JSON-RPC framing,
  HTTP and SQL text, metrics, logging; frontend, monitoring, compose files and scripts.

## 7. Plan

Done: the modules of section 2.  Left:

1. `NotificationQueue`: claim, delivery and completion of notifications, where
   completion is not conditioned on the row's status; how much of `AtLeastOnce` it implements.
2. The mass-block window: an abstract "at most so many blocks per window"
   and how far replicas exceed it.
3. Pure algorithms against reference definitions: window grids and scans of the security engine.
4. Theorems: every safety property of a run is proved.  Left are the hypotheses that could
   be weaker: `Undisturbed` up to the exact race of section 4.  Liveness stays with TLC.
