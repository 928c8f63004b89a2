-------------------------- MODULE FirewallDispatch --------------------------
(***************************************************************************)
(* The live firewall path of clawforge-executor and the PostgreSQL rows it *)
(* shares with its replicas: execution requests and their worker leases,   *)
(* the durable write-ahead "rule generations" of migration 0055, their     *)
(* receipts, the operator's kill-switch requests, and the rules in force   *)
(* on the host.                                                            *)
(*                                                                         *)
(* Every replica runs the same poll tick: kill-switch sweep, generation    *)
(* sweep, maintenance, claim, dispatch, completion.  A committed database  *)
(* transaction, a read, or one adapter command is one step; everything     *)
(* between two of them interleaves with the other replicas, with the       *)
(* operator, with time and with crashes.                                   *)
(*                                                                         *)
(* Time is kept in countdowns: a Tick ages every started request and every *)
(* lease, approval window, generation TTL and kernel timeout.              *)
(***************************************************************************)
EXTENDS Integers, FiniteSets

CONSTANTS
  Workers,        \* executor replicas
  Requests,       \* execution requests for firewall actions
  Rules,          \* concrete rules: (adapter, scope, fingerprint)
  Gens,           \* generation ids; the bound on generations ever prepared
  Kills,          \* operator kill-switch request ids
  PlanOf,         \* Requests -> SUBSET Rules: one rule per adapter touched
  Mandatory,      \* Requests -> Rules: the nftables rule of a fan-out, or the single rule
  KillTarget,     \* Kills -> Rules
  SelfExpiring,   \* rules whose element carries a kernel timeout (nftables)
  Idempotent,     \* rules whose removal succeeds when already absent
  Timeout,        \* timeout_seconds of a request, in ticks
  LeaseTerm,      \* lease of a claim, in ticks
  Ttl,            \* ttl of a rule, in ticks
  ApprovalWindow, \* life of an approval, in ticks
  MaxRetries,     \* DEFAULT_EXECUTION_MAX_RETRIES
  MaxFaults,      \* bound on crashes and failed commands
  BoundedIO,      \* TRUE: a dispatch always ends before its lease lapses
  None            \* no request, rule, generation, worker or kill request

ASSUME PlanAssumption ==
  /\ PlanOf \in [Requests -> SUBSET Rules]
  /\ Mandatory \in [Requests -> Rules]
  /\ \A r \in Requests : Mandatory[r] \in PlanOf[r]
  /\ KillTarget \in [Kills -> Rules]
  /\ SelfExpiring \subseteq Rules
  /\ Idempotent \subseteq Rules

ASSUME TimeAssumption ==
  /\ Timeout \in Nat \ {0}
  /\ LeaseTerm \in Nat \ {0}
  /\ Ttl \in Nat \ {0}
  /\ ApprovalWindow \in Nat \ {0}
  /\ MaxRetries \in Nat
  /\ MaxFaults \in Nat
  /\ BoundedIO \in BOOLEAN

ASSUME NoneAssumption ==
  None \notin (Workers \cup Requests \cup Rules \cup Gens \cup Kills)

VARIABLES
  \* execution_requests
  status,        \* request status
  retries,       \* retry_count
  age,           \* ticks since started_at, saturating at Timeout
  approvalLeft,  \* ticks until approval_expires_at; 0 also when never approved
  \* execution_leases
  leaseState,
  leaseHolder,
  leaseLeft,     \* ticks until expires_at
  \* firewall_action_intents and firewall_action_receipts
  genStatus,
  genReq,
  genRule,
  genTtl,        \* ticks until fw_expires_at
  guard,         \* the replica whose transaction holds the row lock
  applied,       \* generations with an apply receipt
  reverted,      \* generations with a rollback receipt
  \* firewall_kill_switch_requests
  kill,
  undone,        \* generations rolled back on behalf of a kill request (history)
  \* the firewall itself
  host,          \* 0: rule absent; otherwise ticks the element may still live
  \* one executor process
  pc,
  req,           \* the claimed request
  todo,          \* rules of its plan not yet attempted
  rule,          \* the rule being applied or rolled back
  gen,           \* the generation in hand
  seen,          \* what the dispatch has observed so far
  agenda,        \* rest of the list a sweep has read
  cause,         \* the kill request a recovery acts for
  faults

requestVars == <<status, retries, age, approvalLeft>>
leaseVars   == <<leaseState, leaseHolder, leaseLeft>>
genVars     == <<genStatus, genReq, genRule, genTtl, guard, applied, reverted>>
killVars    == <<kill, undone>>
localVars   == <<req, todo, rule, gen, seen, agenda, cause>>
vars == <<requestVars, leaseVars, genVars, killVars, host, pc, localVars, faults>>

RequestStatus == {"pending", "approved", "queued", "starting", "running", "success",
                  "failed", "timeout", "rollback_required", "cancelled"}
LeaseStatus   == {"none", "active", "expired", "released"}
GenStatus     == {"unused", "prepared", "completed", "recovery_required", "rolled_back"}
KillStatus    == {"none", "pending", "processed"}
Facts         == {"uncertain", "mandatory", "owned"}

\* The steps between a claim and the end of its completion.
DispatchSteps == {"authorize", "dispatch", "prepare", "apply", "verify", "finish",
                  "uncertain", "running", "terminal", "release"}
SweepSteps    == {"kills", "gens", "recover", "inspect", "rollback", "resolve", "retain",
                  "legacy", "processed", "claim"}
Steps         == {"idle"} \cup SweepSteps \cup DispatchSteps

RowsTyped ==
  /\ status \in [Requests -> RequestStatus]
  /\ retries \in [Requests -> 0..MaxRetries]
  /\ age \in [Requests -> 0..Timeout]
  /\ approvalLeft \in [Requests -> 0..ApprovalWindow]
  /\ leaseState \in [Requests -> LeaseStatus]
  /\ leaseHolder \in [Requests -> Workers \cup {None}]
  /\ leaseLeft \in [Requests -> 0..LeaseTerm]
  /\ kill \in [Kills -> KillStatus]
  /\ undone \in [Kills -> SUBSET Gens]
  /\ host \in [Rules -> 0..Ttl]
  /\ faults \in 0..MaxFaults

GenerationsTyped ==
  /\ genStatus \in [Gens -> GenStatus]
  /\ genReq \in [Gens -> Requests \cup {None}]
  /\ genRule \in [Gens -> Rules \cup {None}]
  /\ genTtl \in [Gens -> 0..Ttl]
  /\ guard \in [Gens -> Workers \cup {None}]
  /\ applied \in SUBSET Gens
  /\ reverted \in SUBSET Gens

ProcessesTyped ==
  /\ pc \in [Workers -> Steps]
  /\ req \in [Workers -> Requests \cup {None}]
  /\ todo \in [Workers -> SUBSET Rules]
  /\ rule \in [Workers -> Rules \cup {None}]
  /\ gen \in [Workers -> Gens \cup {None}]
  /\ seen \in [Workers -> SUBSET Facts]
  /\ agenda \in [Workers -> SUBSET (Gens \cup Kills)]
  /\ cause \in [Workers -> Kills \cup {None}]

TypeOK == RowsTyped /\ GenerationsTyped /\ ProcessesTyped

-----------------------------------------------------------------------------
(* Requests arrive approved, or pending when their action needs no approval. *)

Init ==
  /\ status \in [Requests -> {"approved", "pending"}]
  /\ retries = [r \in Requests |-> 0]
  /\ age = [r \in Requests |-> 0]
  /\ approvalLeft = [r \in Requests |-> IF status[r] = "approved" THEN ApprovalWindow ELSE 0]
  /\ leaseState = [r \in Requests |-> "none"]
  /\ leaseHolder = [r \in Requests |-> None]
  /\ leaseLeft = [r \in Requests |-> 0]
  /\ genStatus = [g \in Gens |-> "unused"]
  /\ genReq = [g \in Gens |-> None]
  /\ genRule = [g \in Gens |-> None]
  /\ genTtl = [g \in Gens |-> 0]
  /\ guard = [g \in Gens |-> None]
  /\ applied = {}
  /\ reverted = {}
  /\ kill = [k \in Kills |-> "none"]
  /\ undone = [k \in Kills |-> {}]
  /\ host = [x \in Rules |-> 0]
  /\ pc = [w \in Workers |-> "idle"]
  /\ req = [w \in Workers |-> None]
  /\ todo = [w \in Workers |-> {}]
  /\ rule = [w \in Workers |-> None]
  /\ gen = [w \in Workers |-> None]
  /\ seen = [w \in Workers |-> {}]
  /\ agenda = [w \in Workers |-> {}]
  /\ cause = [w \in Workers |-> None]
  /\ faults = 0

ActiveStatus == {"prepared", "completed", "recovery_required"}
Active(g)    == genStatus[g] \in ActiveStatus
Owners(x)    == {g \in Gens : genRule[g] = x /\ Active(g)}

\* A durable generation that may still own an external effect of the request.
OwnsEffect(r) == \E g \in Gens : genReq[g] = r /\ Active(g)

\* execution_has_active_lease
LiveLease(r) == leaseState[r] = "active" /\ leaseLeft[r] > 0

Present(x) == host[x] > 0

Goto(w, step) == pc' = [pc EXCEPT ![w] = step]

\* A step that may go wrong without the process dying uses up one fault.
Fault == faults < MaxFaults /\ faults' = faults + 1

Forget(w) ==
  /\ req' = [req EXCEPT ![w] = None]
  /\ todo' = [todo EXCEPT ![w] = {}]
  /\ rule' = [rule EXCEPT ![w] = None]
  /\ gen' = [gen EXCEPT ![w] = None]
  /\ seen' = [seen EXCEPT ![w] = {}]
  /\ agenda' = [agenda EXCEPT ![w] = {}]
  /\ cause' = [cause EXCEPT ![w] = None]

-----------------------------------------------------------------------------
(* A poll tick: sweeps.  Every list is read once and worked off item by item. *)

\* sweep_kill_switch_requests reads the pending requests.
ListKills(w) ==
  /\ pc[w] = "idle"
  /\ agenda' = [agenda EXCEPT ![w] = {k \in Kills : kill[k] = "pending"}]
  /\ Goto(w, "kills")
  /\ UNCHANGED <<requestVars, leaseVars, genVars, killVars, host, req, todo, rule, gen, seen, cause, faults>>

\* A request whose target has an owning generation is routed through it ...
RouteKill(w) ==
  /\ pc[w] = "kills"
  /\ \E k \in agenda[w] \cap Kills :
       \E g \in Owners(KillTarget[k]) :
         /\ agenda' = [agenda EXCEPT ![w] = @ \ {k}]
         /\ cause' = [cause EXCEPT ![w] = k]
         /\ gen' = [gen EXCEPT ![w] = g]
  /\ Goto(w, "recover")
  /\ UNCHANGED <<requestVars, leaseVars, genVars, killVars, host, req, todo, rule, seen, faults>>

\* ... any other falls through to the target-only rollback.
LegacyKill(w) ==
  /\ pc[w] = "kills"
  /\ \E k \in agenda[w] \cap Kills :
       /\ Owners(KillTarget[k]) = {}
       /\ agenda' = [agenda EXCEPT ![w] = @ \ {k}]
       /\ cause' = [cause EXCEPT ![w] = k]
       /\ rule' = [rule EXCEPT ![w] = KillTarget[k]]
  /\ Goto(w, "legacy")
  /\ UNCHANGED <<requestVars, leaseVars, genVars, killVars, host, req, todo, gen, seen, faults>>

\* Wrong: ignores the TTL.
RecoverableEarly(g) == genStatus[g] \in {"prepared", "completed"}

\* Wrong: sweeps crashed applies only.
RecoverableOrphans(g) == genStatus[g] = "prepared"

\* recoverable_firewall_rule_intents: prepared, or completed and past its TTL.
Recoverable(g) == genStatus[g] = "prepared" \/ (genStatus[g] = "completed" /\ genTtl[g] = 0)

ListGenerations(w) ==
  /\ pc[w] = "kills"
  /\ agenda[w] = {}
  /\ agenda' = [agenda EXCEPT ![w] = {g \in Gens : Recoverable(g)}]
  /\ Goto(w, "gens")
  /\ UNCHANGED <<requestVars, leaseVars, genVars, killVars, host, req, todo, rule, gen, seen, cause, faults>>

SweepGeneration(w) ==
  /\ pc[w] = "gens"
  /\ \E g \in agenda[w] \cap Gens :
       /\ agenda' = [agenda EXCEPT ![w] = @ \ {g}]
       /\ gen' = [gen EXCEPT ![w] = g]
  /\ Goto(w, "recover")
  /\ UNCHANGED <<requestVars, leaseVars, genVars, killVars, host, req, todo, rule, seen, cause, faults>>

-----------------------------------------------------------------------------
(* recover_firewall_rule_generation *)

\* The list a recovery returns to.
Back(w) == IF cause[w] = None THEN "gens" ELSE "kills"

EndRecovery(w) ==
  /\ pc' = [pc EXCEPT ![w] = Back(w)]
  /\ gen' = [gen EXCEPT ![w] = None]
  /\ rule' = [rule EXCEPT ![w] = None]
  /\ cause' = [cause EXCEPT ![w] = None]
  /\ UNCHANGED <<req, todo, seen, agenda>>

\* Busy: the row is locked elsewhere, or cannot be read.
RecoverBusy(w) ==
  /\ pc[w] = "recover"
  /\ \/ Active(gen[w]) /\ guard[gen[w]] # None /\ UNCHANGED faults
     \/ Fault
  /\ EndRecovery(w)
  /\ UNCHANGED <<requestVars, leaseVars, genVars, killVars, host>>

\* Resolved: someone else already rolled it back; a kill request is done.
RecoverResolved(w) ==
  /\ pc[w] = "recover"
  /\ ~Active(gen[w])
  /\ \/ /\ cause[w] = None
        /\ EndRecovery(w)
     \/ /\ cause[w] # None
        /\ Goto(w, "processed")
        /\ UNCHANGED localVars
  /\ UNCHANGED <<requestVars, leaseVars, genVars, killVars, host, faults>>

\* Wrong: rolls a prepared generation back without inspecting its owner.
RecoverLockBlindly(w) ==
  /\ pc[w] = "recover"
  /\ Active(gen[w])
  /\ guard[gen[w]] = None
  /\ guard' = [guard EXCEPT ![gen[w]] = w]
  /\ rule' = [rule EXCEPT ![w] = genRule[gen[w]]]
  /\ Goto(w, "rollback")
  /\ UNCHANGED <<requestVars, leaseVars, genStatus, genReq, genRule, genTtl, applied, reverted,
                 killVars, host, req, todo, gen, seen, agenda, cause, faults>>

\* acquire_firewall_rule_guard: FOR UPDATE SKIP LOCKED also returns the row.
RecoverLock(w) ==
  /\ pc[w] = "recover"
  /\ Active(gen[w])
  /\ guard[gen[w]] = None
  /\ guard' = [guard EXCEPT ![gen[w]] = w]
  /\ rule' = [rule EXCEPT ![w] = genRule[gen[w]]]
  /\ Goto(w, IF genStatus[gen[w]] = "prepared" THEN "inspect" ELSE "rollback")
  /\ UNCHANGED <<requestVars, leaseVars, genStatus, genReq, genRule, genTtl, applied, reverted,
                 killVars, host, req, todo, gen, seen, agenda, cause, faults>>

Unlock(w) == guard' = [guard EXCEPT ![gen[w]] = None]

\* R3: the owner of a prepared generation is still alive.  The lock goes with it.
LeaveInFlight(w) ==
  /\ pc[w] = "inspect"
  /\ LiveLease(genReq[gen[w]])
  /\ Unlock(w)
  /\ EndRecovery(w)
  /\ UNCHANGED <<requestVars, leaseVars, genStatus, genReq, genRule, genTtl, applied, reverted,
                 killVars, host, faults>>

\* An orphaned prepared generation is retained for recovery, never replayed.
RecoverPrepared(w) ==
  /\ pc[w] = "inspect"
  /\ ~LiveLease(genReq[gen[w]])
  /\ Unlock(w)
  /\ genStatus' = [genStatus EXCEPT ![gen[w]] = "recovery_required"]
  /\ EndRecovery(w)
  /\ UNCHANGED <<requestVars, leaseVars, genReq, genRule, genTtl, applied, reverted,
                 killVars, host, faults>>

\* A database error, or no free in-flight slot: the lock is gone, the row as it was.
LetGo(w) ==
  /\ pc[w] \in {"inspect", "rollback", "resolve", "retain"}
  /\ Fault
  /\ Unlock(w)
  /\ EndRecovery(w)
  /\ UNCHANGED <<requestVars, leaseVars, genStatus, genReq, genRule, genTtl, applied, reverted,
                 killVars, host>>

\* FirewallAdapter::rollback of one element; a failed command may still have
\* removed it.
Remove(w, success, failure) ==
  \/ /\ Present(rule[w]) \/ rule[w] \in Idempotent
     /\ host' = [host EXCEPT ![rule[w]] = 0]
     /\ Goto(w, success)
     /\ UNCHANGED faults
  \/ /\ ~Present(rule[w]) /\ rule[w] \notin Idempotent
     /\ Goto(w, failure)
     /\ UNCHANGED <<host, faults>>
  \/ /\ Fault
     /\ host' \in {host, [host EXCEPT ![rule[w]] = 0]}
     /\ Goto(w, failure)

Rollback(w) ==
  /\ pc[w] = "rollback"
  /\ Remove(w, "resolve", "retain")
  /\ UNCHANGED <<requestVars, leaseVars, genVars, killVars, localVars>>

\* FirewallRuleGuard::resolve_rollback: receipt and status in one transaction.
Resolve(w) ==
  /\ pc[w] = "resolve"
  /\ Unlock(w)
  /\ genStatus' = [genStatus EXCEPT ![gen[w]] = "rolled_back"]
  /\ reverted' = reverted \cup {gen[w]}
  /\ \/ /\ cause[w] = None
        /\ EndRecovery(w)
        /\ UNCHANGED undone
     \/ /\ cause[w] # None
        /\ undone' = [undone EXCEPT ![cause[w]] = @ \cup {gen[w]}]
        /\ Goto(w, "processed")
        /\ UNCHANGED localVars
  /\ UNCHANGED <<requestVars, leaseVars, genReq, genRule, genTtl, applied, kill, host, faults>>

\* Wrong: a failed rollback gives up ownership.
RetainNothing(w) ==
  /\ pc[w] = "retain"
  /\ Unlock(w)
  /\ genStatus' = [genStatus EXCEPT ![gen[w]] = "rolled_back"]
  /\ EndRecovery(w)
  /\ UNCHANGED <<requestVars, leaseVars, genReq, genRule, genTtl, applied, reverted, killVars,
                 host, faults>>

\* A failed rollback keeps exclusive ownership for manual reconciliation.
Retain(w) ==
  /\ pc[w] = "retain"
  /\ Unlock(w)
  /\ genStatus' = [genStatus EXCEPT ![gen[w]] = "recovery_required"]
  /\ EndRecovery(w)
  /\ UNCHANGED <<requestVars, leaseVars, genReq, genRule, genTtl, applied, reverted, killVars,
                 host, faults>>

\* The target-only rollback holds no lock and asks nobody again.
LegacyRollback(w) ==
  /\ pc[w] = "legacy"
  /\ Remove(w, "processed", "kills")
  /\ IF pc'[w] = "kills"
       THEN /\ rule' = [rule EXCEPT ![w] = None]
            /\ cause' = [cause EXCEPT ![w] = None]
       ELSE UNCHANGED <<rule, cause>>
  /\ UNCHANGED <<requestVars, leaseVars, genVars, killVars, req, todo, gen, seen, agenda>>

\* Wrong: forgets to mark the request.
MarkNothing(w) ==
  /\ pc[w] = "processed"
  /\ EndRecovery(w)
  /\ UNCHANGED <<requestVars, leaseVars, genVars, killVars, host, faults>>

\* Processed, unless the update fails: the request is then carried out again.
MarkProcessed(w) ==
  /\ pc[w] = "processed"
  /\ \/ kill' = [kill EXCEPT ![cause[w]] = "processed"] /\ UNCHANGED faults
     \/ Fault /\ UNCHANGED kill
  /\ EndRecovery(w)
  /\ UNCHANGED <<requestVars, leaseVars, genVars, undone, host>>

-----------------------------------------------------------------------------
(* run_execution_maintenance: one transaction, in this order. *)

Lapsed(r)    == leaseState[r] = "active" /\ leaseLeft[r] = 0
Reclaimed(r) == /\ leaseState[r] = "expired" \/ Lapsed(r)
                /\ status[r] \in {"starting", "running"}
                /\ ~OwnsEffect(r)
TimedOut(r)  == /\ ~Reclaimed(r)
                /\ status[r] \in {"starting", "running"}
                /\ age[r] = Timeout
                /\ ~OwnsEffect(r)

Retried(r)   == /\ status[r] = "failed"
                /\ retries[r] < MaxRetries
                /\ ~OwnsEffect(r)

Maintain(w) ==
  /\ pc[w] = "gens"
  /\ agenda[w] = {}
  /\ leaseState' = [r \in Requests |-> IF Lapsed(r) THEN "expired" ELSE leaseState[r]]
  /\ status' = [r \in Requests |->
                  CASE Reclaimed(r) \/ Retried(r) -> "queued"
                    [] TimedOut(r) -> "timeout"
                    [] OTHER -> status[r]]
  /\ retries' = [r \in Requests |-> IF Retried(r) THEN retries[r] + 1 ELSE retries[r]]
  /\ age' = [r \in Requests |-> IF Reclaimed(r) THEN 0 ELSE age[r]]
  /\ Goto(w, "claim")
  /\ UNCHANGED <<approvalLeft, leaseHolder, leaseLeft, genVars, killVars, host, localVars, faults>>

\* claim_execution_request_for_dispatch, its second transaction.
Claimable(r) == status[r] \in {"approved", "pending", "queued"} /\ ~OwnsEffect(r)

Claim(w) ==
  /\ pc[w] = "claim"
  /\ \E r \in Requests :
       /\ Claimable(r)
       /\ status' = [status EXCEPT ![r] = "starting"]
       /\ age' = [age EXCEPT ![r] = 0]
       /\ leaseState' = [leaseState EXCEPT ![r] = "active"]
       /\ leaseHolder' = [leaseHolder EXCEPT ![r] = w]
       /\ leaseLeft' = [leaseLeft EXCEPT ![r] = LeaseTerm]
       /\ req' = [req EXCEPT ![w] = r]
  /\ Goto(w, "authorize")
  /\ UNCHANGED <<retries, approvalLeft, genVars, killVars, host, todo, rule, gen, seen, agenda, cause, faults>>

NothingToClaim(w) ==
  /\ pc[w] = "claim"
  /\ ~\E r \in Requests : Claimable(r)
  /\ Goto(w, "idle")
  /\ UNCHANGED <<requestVars, leaseVars, genVars, killVars, host, localVars, faults>>

-----------------------------------------------------------------------------
(* Dispatch of a claimed request. *)

\* firewall_request_live_authorized: the approval window is read once, here.
Authorize(w) ==
  /\ pc[w] = "authorize"
  /\ approvalLeft[req[w]] > 0
  /\ todo' = [todo EXCEPT ![w] = PlanOf[req[w]]]
  /\ Goto(w, "dispatch")
  /\ UNCHANGED <<requestVars, leaseVars, genVars, killVars, host, req, rule, gen, seen, agenda, cause, faults>>

\* Not authorized, or refused by a budget, the TTL ceiling or source resolution:
\* a plain failure with nothing attempted.
Refuse(w) ==
  /\ pc[w] = "authorize"
  /\ Goto(w, "running")
  /\ UNCHANGED <<requestVars, leaseVars, genVars, killVars, host, localVars, faults>>

\* apply_single_adapter, adapter by adapter.  A rule already present, or a
\* preflight that fails, refuses this adapter without effect.
Preflight(w) ==
  /\ pc[w] = "dispatch"
  /\ \E x \in todo[w] :
       /\ todo' = [todo EXCEPT ![w] = @ \ {x}]
       /\ \/ /\ ~Present(x)
             /\ rule' = [rule EXCEPT ![w] = x]
             /\ Goto(w, "prepare")
             /\ UNCHANGED faults
          \/ /\ Present(x)
             /\ UNCHANGED <<rule, pc, faults>>
          \/ /\ Fault
             /\ UNCHANGED <<rule, pc>>
  /\ UNCHANGED <<requestVars, leaseVars, genVars, killVars, host, req, gen, seen, agenda, cause>>

\* Wrong: no unique index on the active owner.
InsertUnchecked(w, g) ==
  /\ genStatus[g] = "unused"
  /\ genStatus' = [genStatus EXCEPT ![g] = "prepared"]
  /\ genReq' = [genReq EXCEPT ![g] = req[w]]
  /\ genRule' = [genRule EXCEPT ![g] = rule[w]]
  /\ genTtl' = [genTtl EXCEPT ![g] = Ttl]

\* prepare_firewall_rule_intent: the unique index admits one active owner.
Insert(w, g) ==
  /\ Owners(rule[w]) = {}
  /\ genStatus[g] = "unused"
  /\ genStatus' = [genStatus EXCEPT ![g] = "prepared"]
  /\ genReq' = [genReq EXCEPT ![g] = req[w]]
  /\ genRule' = [genRule EXCEPT ![g] = rule[w]]
  /\ genTtl' = [genTtl EXCEPT ![g] = Ttl]

Prepare(w) ==
  /\ pc[w] = "prepare"
  /\ \E g \in Gens :
       /\ Insert(w, g)
       /\ gen' = [gen EXCEPT ![w] = g]
  /\ Goto(w, "apply")
  /\ UNCHANGED <<requestVars, leaseVars, guard, applied, reverted, killVars, host, req, todo,
                 rule, seen, agenda, cause, faults>>

\* Any error refuses the adapter as "no mutation": the rule is owned already, the
\* insert fails (so does one beyond the bound Gens), or it committed and only the
\* acknowledgement was lost.
PrepareFails(w) ==
  /\ pc[w] = "prepare"
  /\ \/ /\ Owners(rule[w]) # {} \/ \A g \in Gens : genStatus[g] # "unused"
        /\ UNCHANGED <<genStatus, genReq, genRule, genTtl, faults>>
     \/ /\ Fault
        /\ UNCHANGED <<genStatus, genReq, genRule, genTtl>>
     \/ /\ Fault
        /\ \E g \in Gens : Insert(w, g)
  /\ rule' = [rule EXCEPT ![w] = None]
  /\ Goto(w, "dispatch")
  /\ UNCHANGED <<requestVars, leaseVars, guard, applied, reverted, killVars, host, req, todo, gen,
                 seen, agenda, cause>>

\* The adapter command runs without the generation's row lock.  Adding an
\* element that is already there changes nothing.
Added(x) == [host EXCEPT ![x] = IF @ = 0 THEN Ttl ELSE @]

Apply(w) ==
  /\ pc[w] = "apply"
  /\ \/ /\ host' = Added(rule[w])
        /\ Goto(w, "verify")
        /\ UNCHANGED faults
     \/ /\ Fault
        /\ host' \in {host, Added(rule[w])}
        /\ Goto(w, "uncertain")
  /\ UNCHANGED <<requestVars, leaseVars, genVars, killVars, localVars>>

Verify(w) ==
  /\ pc[w] = "verify"
  /\ \/ /\ Present(rule[w])
        /\ Goto(w, "finish")
        /\ UNCHANGED faults
     \/ /\ ~Present(rule[w])
        /\ Goto(w, "uncertain")
        /\ UNCHANGED faults
     \/ /\ Fault
        /\ Goto(w, "uncertain")
  /\ UNCHANGED <<requestVars, leaseVars, genVars, killVars, host, localVars>>

Record(w, facts) ==
  /\ seen' = [seen EXCEPT ![w] = @ \cup facts]
  /\ gen' = [gen EXCEPT ![w] = None]
  /\ rule' = [rule EXCEPT ![w] = None]
  /\ Goto(w, "dispatch")
  /\ UNCHANGED <<req, todo, agenda, cause>>

\* What a verified apply of rule x of request r adds to the outcome.
Verified(r, x) == {"owned"} \cup (IF x = Mandatory[r] THEN {"mandatory"} ELSE {})

\* Wrong: completes without the receipt.
FinishUnreceipted(w) ==
  /\ pc[w] = "finish"
  /\ genStatus[gen[w]] = "prepared"
  /\ guard[gen[w]] = None
  /\ genStatus' = [genStatus EXCEPT ![gen[w]] = "completed"]
  /\ Record(w, Verified(req[w], rule[w]))
  /\ UNCHANGED <<requestVars, leaseVars, genReq, genRule, genTtl, guard, applied, reverted, killVars,
                 host, faults>>

\* finish_firewall_rule_intent: apply receipt and `completed` in one transaction.
Finish(w) ==
  /\ pc[w] = "finish"
  /\ genStatus[gen[w]] = "prepared"
  /\ guard[gen[w]] = None
  /\ genStatus' = [genStatus EXCEPT ![gen[w]] = "completed"]
  /\ applied' = applied \cup {gen[w]}
  /\ Record(w, Verified(req[w], rule[w]))
  /\ UNCHANGED <<requestVars, leaseVars, genReq, genRule, genTtl, guard, reverted, killVars, host, faults>>

\* The generation was taken away, or the transaction fails - possibly after
\* it committed, with the acknowledgement lost.
FinishFails(w) ==
  /\ pc[w] = "finish"
  /\ \/ /\ genStatus[gen[w]] # "prepared" \/ guard[gen[w]] # None
        /\ UNCHANGED <<genStatus, applied, faults>>
     \/ /\ Fault
        /\ UNCHANGED <<genStatus, applied>>
     \/ /\ Fault
        /\ genStatus[gen[w]] = "prepared"
        /\ guard[gen[w]] = None
        /\ genStatus' = [genStatus EXCEPT ![gen[w]] = "completed"]
        /\ applied' = applied \cup {gen[w]}
  /\ Goto(w, "uncertain")
  /\ UNCHANGED <<requestVars, leaseVars, genReq, genRule, genTtl, guard, reverted, killVars, host, localVars>>

\* mark_firewall_rule_recovery_required; any error of it is ignored.
MarkUncertain(w) ==
  /\ pc[w] = "uncertain"
  /\ \/ /\ Active(gen[w]) /\ guard[gen[w]] = None
        /\ genStatus' = [genStatus EXCEPT ![gen[w]] = "recovery_required"]
        /\ UNCHANGED faults
     \/ /\ ~Active(gen[w]) \/ guard[gen[w]] # None
        /\ UNCHANGED <<genStatus, faults>>
     \/ /\ Fault
        /\ UNCHANGED genStatus
  /\ Record(w, {"uncertain"})
  /\ UNCHANGED <<requestVars, leaseVars, genReq, genRule, genTtl, guard, applied, reverted,
                 killVars, host>>

DispatchDone(w) ==
  /\ pc[w] = "dispatch"
  /\ todo[w] = {}
  /\ Goto(w, "running")
  /\ UNCHANGED <<requestVars, leaseVars, genVars, killVars, host, localVars, faults>>

\* Wrong: forgets what an optional adapter owns.
OutcomeOfMandatory(facts) ==
  CASE "uncertain" \in facts -> "rollback_required"
    [] "uncertain" \notin facts /\ "mandatory" \in facts -> "success"
    [] OTHER -> "failed"

\* Wrong: whatever is not uncertain has succeeded.
OutcomeOptimistic(facts) == IF "uncertain" \in facts THEN "rollback_required" ELSE "success"

\* The completion dispatch_multi_with_adapters derives from what it saw.
Outcome(facts) ==
  CASE "uncertain" \in facts -> "rollback_required"
    [] "uncertain" \notin facts /\ "mandatory" \in facts -> "success"
    [] facts = {"owned"} -> "rollback_required"
    [] facts = {} -> "failed"

-----------------------------------------------------------------------------
(* complete_execution_dispatch_with_status: three transactions.  A refused   *)
(* transition ends the tick with the lease left as it is.                    *)

\* execution_status_transition_allowed, restricted to what completion,
\* cancellation and maintenance ask for.
Allowed ==
  [ pending           |-> {"queued", "starting", "cancelled"},
    approved          |-> {"queued", "starting", "cancelled"},
    queued            |-> {"starting", "cancelled"},
    starting          |-> {"running", "queued", "failed", "timeout", "rollback_required", "cancelled"},
    running           |-> {"success", "queued", "failed", "timeout", "rollback_required", "cancelled"},
    failed            |-> {"queued"},
    rollback_required |-> {"cancelled"},
    success           |-> {},
    timeout           |-> {},
    cancelled         |-> {} ]

\* Wrong: does not consult the transition table.
MarkRunningAnyway(w) ==
  /\ pc[w] = "running"
  /\ status' = [status EXCEPT ![req[w]] = "running"]
  /\ age' = [age EXCEPT ![req[w]] = 0]
  /\ Goto(w, "terminal")
  /\ UNCHANGED <<retries, approvalLeft, leaseVars, genVars, killVars, host, localVars, faults>>

MarkRunning(w) ==
  /\ pc[w] = "running"
  /\ "running" \in Allowed[status[req[w]]]
  /\ status' = [status EXCEPT ![req[w]] = "running"]
  /\ age' = [age EXCEPT ![req[w]] = 0]
  /\ Goto(w, "terminal")
  /\ UNCHANGED <<retries, approvalLeft, leaseVars, genVars, killVars, host, localVars, faults>>

MarkTerminal(w) ==
  /\ pc[w] = "terminal"
  /\ Outcome(seen[w]) \in Allowed[status[req[w]]]
  /\ status' = [status EXCEPT ![req[w]] = Outcome(seen[w])]
  /\ Goto(w, "release")
  /\ UNCHANGED <<retries, age, approvalLeft, leaseVars, genVars, killVars, host, localVars, faults>>

CompletionRefused(w) ==
  /\ \/ pc[w] = "running" /\ "running" \notin Allowed[status[req[w]]]
     \/ pc[w] = "terminal" /\ Outcome(seen[w]) \notin Allowed[status[req[w]]]
  /\ Goto(w, "idle")
  /\ Forget(w)
  /\ UNCHANGED <<requestVars, leaseVars, genVars, killVars, host, faults>>

\* The lease row is released by execution id, whoever holds it by now.
ReleaseLease(w) ==
  /\ pc[w] = "release"
  /\ leaseState' = [leaseState EXCEPT ![req[w]] = "released"]
  /\ Goto(w, "idle")
  /\ Forget(w)
  /\ UNCHANGED <<requestVars, leaseHolder, leaseLeft, genVars, killVars, host, faults>>

-----------------------------------------------------------------------------
(* Crashes, operators and time. *)

\* The process dies and restarts; its open transaction rolls back.
Crash(w) ==
  /\ pc[w] # "idle"
  /\ Fault
  /\ guard' = [g \in Gens |-> IF guard[g] = w THEN None ELSE guard[g]]
  /\ Goto(w, "idle")
  /\ Forget(w)
  /\ UNCHANGED <<requestVars, leaseVars, genStatus, genReq, genRule, genTtl, applied, reverted,
                 killVars, host>>

\* admin_cancel_execution
Cancel(r) ==
  /\ "cancelled" \in Allowed[status[r]]
  /\ status' = [status EXCEPT ![r] = "cancelled"]
  /\ UNCHANGED <<retries, age, approvalLeft, leaseVars, genVars, killVars, host, pc, localVars, faults>>

\* create_firewall_kill_switch_request
RequestKill(k) ==
  /\ kill[k] = "none"
  /\ kill' = [kill EXCEPT ![k] = "pending"]
  /\ UNCHANGED <<requestVars, leaseVars, genVars, undone, host, pc, localVars, faults>>

Less(n) == IF n = 0 THEN 0 ELSE n - 1

\* Under BoundedIO no lease lapses under a replica that is still dispatching.
Tick ==
  /\ BoundedIO => \A w \in Workers : pc[w] \in DispatchSteps => leaseLeft[req[w]] > 1
  /\ age' = [r \in Requests |->
               IF status[r] \in {"starting", "running"} /\ age[r] < Timeout
                 THEN age[r] + 1 ELSE age[r]]
  /\ approvalLeft' = [r \in Requests |-> Less(approvalLeft[r])]
  /\ leaseLeft' = [r \in Requests |-> Less(leaseLeft[r])]
  /\ genTtl' = [g \in Gens |-> Less(genTtl[g])]
  /\ host' = [x \in Rules |-> IF x \in SelfExpiring THEN Less(host[x]) ELSE host[x]]
  /\ UNCHANGED <<status, retries, leaseState, leaseHolder, genStatus, genReq, genRule, guard,
                 applied, reverted, killVars, pc, localVars, faults>>

-----------------------------------------------------------------------------
Sweep(w) ==
  \/ ListKills(w) \/ RouteKill(w) \/ LegacyKill(w)
  \/ ListGenerations(w) \/ SweepGeneration(w)
  \/ RecoverBusy(w) \/ RecoverResolved(w) \/ RecoverLock(w)
  \/ LeaveInFlight(w) \/ RecoverPrepared(w) \/ LetGo(w)
  \/ Rollback(w) \/ Resolve(w) \/ Retain(w)
  \/ LegacyRollback(w) \/ MarkProcessed(w)

Dispatch(w) ==
  \/ Maintain(w) \/ Claim(w) \/ NothingToClaim(w) \/ Authorize(w) \/ Refuse(w)
  \/ Preflight(w) \/ Prepare(w) \/ PrepareFails(w) \/ Apply(w) \/ Verify(w)
  \/ Finish(w) \/ FinishFails(w) \/ MarkUncertain(w) \/ DispatchDone(w)
  \/ MarkRunning(w) \/ MarkTerminal(w) \/ CompletionRefused(w) \/ ReleaseLease(w)

Next ==
  \/ \E w \in Workers : Sweep(w) \/ Dispatch(w) \/ Crash(w)
  \/ \E r \in Requests : Cancel(r)
  \/ \E k \in Kills : RequestKill(k)
  \/ Tick

Spec == Init /\ [][Next]_vars

\* A live replica keeps polling and the clock keeps running; operators and
\* faults owe nothing.
FairSpec ==
  /\ Spec
  /\ \A w \in Workers : WF_vars(Sweep(w) \/ Dispatch(w))
  /\ WF_vars(Tick)

-----------------------------------------------------------------------------
(* Safety. *)

\* Recovery, kill switches and re-dispatch of different replicas never leave two
\* active generations owning one concrete rule (firewall_rule_active_generation).
OneOwner ==
  \A g, h \in Gens : Active(g) /\ Active(h) /\ genRule[g] = genRule[h] => g = h

\* The receipts tell the truth about a generation: `completed` only with an apply
\* receipt, `rolled_back` exactly with a rollback receipt, however commits fail.
ReceiptsMatch ==
  \A g \in Gens :
    /\ genStatus[g] = "completed" => g \in applied
    /\ genStatus[g] = "rolled_back" <=> g \in reverted

\* An apply receipt for the rule that decides the outcome of r.
Receipted(r) == \E g \in applied : genReq[g] = r /\ genRule[g] = Mandatory[r]

\* A request reported as `success` - by whichever replica completed it - has a
\* persisted apply receipt of that very request for its mandatory rule.
SuccessHasReceipt == \A r \in Requests : status[r] = "success" => Receipted(r)

\* R3: while the replica that prepared a generation holds a live lease on the
\* request, no sweep or kill switch of another replica takes it away.
LiveLeaseNotStolen ==
  \A w \in Workers :
    /\ pc[w] \in {"apply", "verify", "finish"}
    /\ LiveLease(req[w])
    /\ leaseHolder[req[w]] = w
    => genStatus[gen[w]] = "prepared"

\* Every rule clawforge put on the host has an active generation that answers for
\* it, through every crash between the mutation and its receipt.
NoOrphanRule == \A x \in Rules : Present(x) => Owners(x) # {}

\* `failed` is the retryable status: no rule of a request in it is still in force,
\* not even one rule of a fan-out over several adapters.
FailedIsEffectFree ==
  \A r \in Requests : status[r] = "failed" =>
    \A g \in Gens : genReq[g] = r /\ Active(g) => ~Present(genRule[g])

\* An uncertain outcome is left to an operator, and a finished request is final:
\* neither maintenance nor a late replica reopens it.
SettledStep ==
  \A r \in Requests :
    /\ status[r] \in {"success", "timeout", "cancelled"} => status'[r] = status[r]
    /\ status[r] = "rollback_required" => status'[r] \in {"rollback_required", "cancelled"}

SettledStaysSettled == [][SettledStep]_vars

-----------------------------------------------------------------------------
(* What the code's comments promise.  Each holds with one replica or with    *)
(* bounded adapter commands, and fails in a larger instance.                 *)

\* "NEVER automatically reapplied": no request prepares the same rule twice.
NeverReapplied ==
  \A g, h \in Gens :
    /\ g # h
    /\ genStatus[g] # "unused"
    /\ genStatus[h] # "unused"
    => genReq[g] # genReq[h] \/ genRule[g] # genRule[h]

\* "Only a generation whose owner's lease is gone or expired is genuinely
\* orphaned": a generation taken from `prepared` has no replica about to apply it.
StolenOnlyFromTheDead ==
  \A w \in Workers : pc[w] = "apply" => genStatus[gen[w]] = "prepared"

\* "never steal it; let the owner finish": the transaction that finishes a verified
\* apply under a live lease fails only if the database does.
OwnerFinishes ==
  [][\A w \in Workers :
       /\ pc[w] = "finish" /\ pc'[w] = "uncertain"
       /\ LiveLease(req[w]) /\ leaseHolder[req[w]] = w
       => faults' > faults]_vars

\* "retrying an already-completed rollback just re-confirms nothing is left to
\* undo": one kill request rolls back at most one generation.
KillUndoesOnce == \A k \in Kills : Cardinality(undone[k]) <= 1

\* "Only completed-and-expired generations reach here (the sweep query excludes
\* the rest)": with no kill request for it, a completed rule is in force until its TTL.
InForceUntilExpiry ==
  \A g \in Gens :
    /\ genStatus[g] = "completed"
    /\ genTtl[g] > 0
    /\ \A k \in Kills : KillTarget[k] = genRule[g] => kill[k] = "none"
    => Present(genRule[g])

\* R4, "Only a target with no active generation falls through to the legacy
\* target-only path": when the target-only rollback runs, nobody owns the rule.
LegacyOnlyUnowned == \A w \in Workers : pc[w] = "legacy" => Owners(rule[w]) = {}

\* Neither the sweep nor the target-only rollback undoes a rule that is owned and
\* not due.
NeverUndoneEarly == InForceUntilExpiry /\ LegacyOnlyUnowned

-----------------------------------------------------------------------------
(* Liveness. *)

\* The TTL is enforced without anyone asking: a completed generation is
\* eventually rolled back, or handed to an operator when the rollback fails.
TtlEnforced ==
  \A g \in Gens : genStatus[g] = "completed" ~> genStatus[g] \in {"rolled_back", "recovery_required"}

\* Every kill-switch request is eventually carried out and marked processed.
KillServed == \A k \in Kills : kill[k] = "pending" ~> kill[k] = "processed"

\* "so an operator kill-switch for an already-rolled-back target completes instead
\* of retrying forever": as KillServed, once the rule has been rolled back for it.
KillCompletes ==
  \A k \in Kills : kill[k] = "pending" /\ undone[k] # {} ~> kill[k] = "processed"

-----------------------------------------------------------------------------
(* The inductive invariant behind OneOwner, ReceiptsMatch, SuccessHasReceipt *)
(* and LiveLeaseNotStolen: what each step of a replica may rely on.          *)

OwningSteps == {"apply", "verify", "finish", "uncertain"}
LockSteps   == {"inspect", "rollback", "resolve", "retain"}

\* A step has in hand what its code has in scope.
Scoped ==
  \A w \in Workers :
    /\ pc[w] \in DispatchSteps => req[w] \in Requests
    /\ pc[w] \in OwningSteps \cup LockSteps \cup {"prepare", "legacy"} => rule[w] \in Rules
    /\ pc[w] \in OwningSteps \cup LockSteps \cup {"recover"} => gen[w] \in Gens
    /\ pc[w] \notin DispatchSteps \/ pc[w] = "authorize" => seen[w] = {}

\* A generation's identity is written once, when it is prepared.
Identified ==
  \A g \in Gens :
    /\ genStatus[g] # "unused" => genReq[g] \in Requests /\ genRule[g] \in Rules
    /\ g \in applied => genStatus[g] # "unused"

\* A recovery holds the row lock, and the row is as it was when locked.
LockHeld ==
  \A w \in Workers : pc[w] \in LockSteps =>
    /\ guard[gen[w]] = w
    /\ IF pc[w] = "inspect" THEN genStatus[gen[w]] = "prepared"
                            ELSE genStatus[gen[w]] \in {"completed", "recovery_required"}

\* A dispatch works on a generation of its own, for its own request and rule.
OwnsGeneration ==
  \A w \in Workers : pc[w] \in OwningSteps =>
    /\ genStatus[gen[w]] # "unused"
    /\ genReq[gen[w]] = req[w]
    /\ genRule[gen[w]] = rule[w]
    /\ \A v \in Workers : pc[v] \in OwningSteps /\ gen[v] = gen[w] => v = w

\* A mandatory adapter counts as succeeded only with its apply receipt persisted.
MandatoryPersisted ==
  \A w \in Workers : "mandatory" \in seen[w] => Receipted(req[w])

IInv ==
  /\ TypeOK /\ Scoped /\ Identified /\ LockHeld /\ OwnsGeneration /\ MandatoryPersisted
  /\ OneOwner /\ ReceiptsMatch /\ SuccessHasReceipt /\ LiveLeaseNotStolen
=============================================================================
