----------------------------- MODULE Governance -----------------------------
(***************************************************************************)
(* How a request to act is created, lowered, approved, confirmed and       *)
(* released: `create_execution_request` and the approval operations of     *)
(* storage/src/lib.rs with the triggers of migration 0071, the policy      *)
(* engine's evaluation and the policy -> execution bridge of migrations    *)
(* 0064 and 0072, and the checks the executor makes between the claim and  *)
(* the apply.  Several callers, engines and approvers interleave with the  *)
(* owner of the deployment, who changes accounts, approval policy, action  *)
(* rows and approval profile underneath them.                              *)
(*                                                                         *)
(* What happens to a request after its release is FirewallDispatch; here a *)
(* released request ends in one step.                                      *)
(***************************************************************************)
EXTENDS Integers, FiniteSets

CONSTANTS
  Users,          \* accounts of admin_users
  RoleOf,         \* their roles
  Actions,        \* rows of `actions`
  Listable,       \* incident-source firewall actions: what a profile may list
  TwoPerson,      \* quarantine actions
  Callers,        \* concurrent calls of create_execution_request
  Engines,        \* policy-engine replicas
  Decisions,      \* policy decisions, one per policy and assessment
  TargetOf,       \* the source a decision is about
  ScoreOf,        \* the assessment's confidence
  Snapshot,       \* decisions whose assessment kept a corroborating listing
  Keys,           \* idempotency keys callers use
  BlockAction,    \* CLAWFORGE_POLICY_BRIDGE_BLOCK_ACTION
  BridgeUser,     \* CLAWFORGE_POLICY_BRIDGE_REQUESTER_ID
  Deployments,    \* bridge mode, callers, engines and accounts of a deployment
  Window,         \* approval_timeout
  EvidenceAge,    \* max_evidence_age_seconds
  BudgetMax, BudgetWindow,
  MaxRequests, MaxNow, MaxChanges, MaxRetries,
  None

Requests == 1..MaxRequests
Targets  == {TargetOf[d] : d \in Decisions}

ASSUME RolesAssumption ==
  /\ RoleOf \in [Users -> {"Administrator", "Approver", "Operator"}]
  /\ BridgeUser \in Users /\ None \notin Users
ASSUME ActionsAssumption ==
  /\ Listable \subseteq Actions /\ TwoPerson \subseteq Actions
  /\ Listable \cap TwoPerson = {} /\ BlockAction \in Listable
ASSUME BoundsAssumption ==
  /\ {Window, EvidenceAge, BudgetMax, BudgetWindow, MaxRequests} \subseteq Nat \ {0}
  /\ {MaxNow, MaxChanges, MaxRetries} \subseteq Nat
ASSUME BridgeAssumption ==
  /\ Deployments \subseteq [mode : {"off", "simulate", "propose", "automatic"},
                            callers : SUBSET Callers, engines : SUBSET Engines,
                            accounts : SUBSET Users]
  /\ ScoreOf \in [Decisions -> 0..100]

VARIABLES
  now,            \* the database clock
  changes,        \* owner changes so far
  enabled,        \* accounts that may sign in
  policy,         \* approval_policies.required_approvals of the risk level
  posture,        \* actions.enabled and actions.requires_approval
  profile,        \* the approval_profile row: operator and allowed actions
  status, ctx, expires, created, retries,   \* execution_requests
  approvals,      \* execution_approvals
  call,           \* locals of create_execution_request, per caller
  tx,             \* the open approval transaction of each user
  deployment,     \* the deployment, fixed
  decided,        \* security_policy_decisions: decision, sources, updated_at
  sound,          \* decisions whose policy is active and assessment recent
  listed,         \* the current reputation view of each target
  plan,           \* the plan an engine holds between its two calls
  challenged,     \* decisions with a Go-Away shadow request
  executorUp,     \* the executor reports a fresh heartbeat
  cleared,        \* claimed requests whose live authorization was read as true
  live,           \* requests applied for real
  birth           \* history: policy and profile when the row was inserted

requestVars  == <<status, ctx, expires, created, retries, birth>>
ownerVars    == <<changes, enabled, policy, posture, profile>>
bridgeVars   == <<deployment, decided, sound, listed, plan, challenged, executorUp>>
dispatchVars == <<cleared, live>>
vars == <<now, ownerVars, requestVars, approvals, call, tx, bridgeVars, dispatchVars>>

mode      == deployment.mode
Waiting   == "waiting_approval"
Claimable == {"approved", "pending", "queued"}
\* The statuses that keep a target busy for the bridge.
Busy      == Claimable \cup {Waiting, "starting", "rollback_required"}
Statuses  == Busy \cup {"none", "success", "failed", "cancelled"}

(***************************************************************************)
(* Shared reads.                                                           *)
(***************************************************************************)

\* clawforge_approval_profile(): anything but an active row of an enabled
\* Administrator reads as multi-person.
ApprovalProfile ==
  IF profile.operator # None /\ profile.operator \in enabled
       /\ RoleOf[profile.operator] = "Administrator"
  THEN profile
  ELSE [operator |-> None, actions |-> {}]

\* The profile operator whose single confirmation the profile allows for a.
SoleOperator(a) ==
  IF a \in ApprovalProfile.actions THEN ApprovalProfile.operator ELSE None

Used    == {r \in Requests : status[r] # "none"}
WithKey(k) == {r \in Used : ctx[r].key = k}
Fresh   == Cardinality(Used) + 1

Voters(r)  == {a.by : a \in {b \in approvals : b.req = r}}
Others(r)  == Voters(r) \ {ctx[r].requester}

\* A lowered requirement at INSERT is refused unless the current profile backs
\* it (clawforge_validate_execution_transition, INSERT part).
InsertAllowed(c) ==
  /\ c.required = 0 <=> ~c.gated
  /\ c.gated /\ c.required < policy =>
       /\ SoleOperator(c.action) # None
       /\ c.required = 1
       /\ c.marker = SoleOperator(c.action)

\* INSERT INTO execution_requests, with its trigger and unique key.
InsertRow(c) ==
  LET r == Fresh IN
  /\ r \in Requests
  /\ status'  = [status EXCEPT ![r] = IF c.gated THEN Waiting ELSE "pending"]
  /\ ctx'     = [ctx EXCEPT ![r] = c]
  /\ expires' = [expires EXCEPT ![r] = IF c.gated THEN now + Window ELSE 0]
  /\ created' = [created EXCEPT ![r] = now]
  /\ birth'   = [birth EXCEPT ![r] = [policy |-> policy, operator |-> SoleOperator(c.action)]]
  /\ UNCHANGED retries

(***************************************************************************)
(* create_execution_request.                                               *)
(***************************************************************************)
Idle    == [step |-> "idle"]
Refused == [step |-> "refused"]

\* What the caller is about to ask for, from the action and policy it read.
Ask(u, a, k, t, required, marker, pol) ==
  [by |-> "caller", action |-> a, requester |-> u, key |-> k, target |-> t,
   gated |-> posture[a].gated, required |-> required, marker |-> marker,
   policy |-> pol, sim |-> FALSE, basis |-> "none"]

\* Reads the action and its policy and derives the count.  Disabled actions and
\* quarantine actions short of two people are refused.
ReadAction(c, u, a, k, t) ==
  /\ call[c] = Idle
  /\ u \in enabled /\ RoleOf[u] \in {"Administrator", "Operator"}
  /\ posture[a].enabled
  /\ a \in TwoPerson => posture[a].gated /\ policy >= 2
  /\ LET required == IF posture[a].gated THEN policy ELSE 0 IN
     call' = [call EXCEPT ![c] =
                [step |-> IF required > 1 THEN "profile" ELSE "lookup",
                 ask  |-> Ask(u, a, k, t, required, None, 0)]]
  /\ UNCHANGED <<now, ownerVars, requestVars, approvals, tx, bridgeVars, dispatchVars>>

\* Reads the approval profile: a listed action is lowered to one confirmation,
\* with the operator and the policy's count written into the context.
ReadProfile(c) ==
  /\ call[c].step = "profile"
  /\ LET ask == call[c].ask IN
     call' = [call EXCEPT ![c] =
                [step |-> "lookup",
                 ask  |-> IF SoleOperator(ask.action) = None THEN ask
                          ELSE [ask EXCEPT !.required = 1,
                                           !.marker = SoleOperator(ask.action),
                                           !.policy = ask.required]]]
  /\ UNCHANGED <<now, ownerVars, requestVars, approvals, tx, bridgeVars, dispatchVars>>

\* Faulty variant: any request with the key is the answer.
LookupKeyOnly(c) ==
  /\ call[c].step = "lookup"
  /\ LET ask == call[c].ask IN
     call' = [call EXCEPT ![c] =
                IF WithKey(ask.key) = {} THEN [step |-> "insert", ask |-> ask]
                ELSE [step |-> "done", ask |-> ask, id |-> CHOOSE x \in WithKey(ask.key) : TRUE]]
  /\ UNCHANGED <<now, ownerVars, requestVars, approvals, tx, bridgeVars, dispatchVars>>

\* The idempotency key is looked up outside the inserting transaction: a request
\* with the same context is the answer, one with another context an error.
LookupKey(c) ==
  /\ call[c].step = "lookup"
  /\ LET ask == call[c].ask IN
     call' = [call EXCEPT ![c] =
                IF WithKey(ask.key) = {} THEN [step |-> "insert", ask |-> ask]
                ELSE LET r == CHOOSE x \in WithKey(ask.key) : TRUE IN
                     IF ctx[r] = ask THEN [step |-> "done", ask |-> ask, id |-> r]
                     ELSE Refused]
  /\ UNCHANGED <<now, ownerVars, requestVars, approvals, tx, bridgeVars, dispatchVars>>

\* The transaction: the trigger and the unique key judge the current state.
InsertRequest(c) ==
  /\ call[c].step = "insert"
  /\ LET ask == call[c].ask IN
     IF InsertAllowed(ask) /\ WithKey(ask.key) = {}
     THEN /\ InsertRow(ask)
          /\ call' = [call EXCEPT ![c] = [step |-> "done", ask |-> ask, id |-> Fresh]]
     ELSE /\ call' = [call EXCEPT ![c] = Refused]
          /\ UNCHANGED requestVars
  /\ UNCHANGED <<now, ownerVars, approvals, tx, bridgeVars, dispatchVars>>

(***************************************************************************)
(* Approvals.  A user's transaction fixes NOW() when it begins and may     *)
(* then wait for the row lock; tx keeps that start.                        *)
(***************************************************************************)

\* An authenticated user opens approve_execution_request or
\* confirm_single_operator_execution for r.
BeginApproval(u, r, how) ==
  /\ tx[u] = None
  /\ u \in enabled
  /\ RoleOf[u] \in (IF how = "approve" THEN {"Administrator", "Approver"} ELSE {"Administrator"})
  /\ status[r] = Waiting
  /\ tx' = [tx EXCEPT ![u] = [req |-> r, how |-> how, start |-> now]]
  /\ UNCHANGED <<now, ownerVars, requestVars, approvals, call, bridgeVars, dispatchVars>>

\* clawforge_validate_execution_approval, the part common to both modes.
ApprovalValid(u, r, start) ==
  /\ status[r] = Waiting
  /\ ctx[r].requester # None
  /\ start < expires[r]
  /\ u \in enabled /\ RoleOf[u] \in {"Administrator", "Approver"}

\* Faulty variant: a marked request takes an ordinary approval as well.
DistinctPersonUnmarked(u, r) == u # ctx[r].requester

\* ... a distinct person: never the requester, never on a marked request.
DistinctPersonValid(u, r) == ctx[r].marker = None /\ u # ctx[r].requester

\* ... the designated operator, while the profile still stands.
ConfirmationValid(u, r) ==
  /\ SoleOperator(ctx[r].action) = u
  /\ ctx[r].marker = u
  /\ ctx[r].required = 1

RecordApproval(u, r, how) ==
  /\ approvals' = approvals \cup {[req |-> r, by |-> u, how |-> how, at |-> now]}
  /\ status' = [status EXCEPT ![r] =
                  IF Cardinality(Voters(r) \cup {u}) >= ctx[r].required
                  THEN "approved" ELSE status[r]]
  /\ UNCHANGED <<ctx, expires, created, retries, birth>>

\* approve_execution_request under the row lock, or its refusal.
Approve(u) ==
  /\ tx[u] # None /\ tx[u].how = "approve"
  /\ LET r == tx[u].req IN
     IF /\ ApprovalValid(u, r, tx[u].start) /\ DistinctPersonValid(u, r)
        /\ now < expires[r]
        /\ u \notin Voters(r)
     THEN RecordApproval(u, r, "approve")
     ELSE UNCHANGED <<requestVars, approvals>>
  /\ tx' = [tx EXCEPT ![u] = None]
  /\ UNCHANGED <<now, ownerVars, call, bridgeVars, dispatchVars>>

\* confirm_single_operator_execution under the row lock, or its refusal.
Confirm(u) ==
  /\ tx[u] # None /\ tx[u].how = "confirm"
  /\ LET r == tx[u].req IN
     IF /\ ApprovalValid(u, r, tx[u].start) /\ ConfirmationValid(u, r)
        /\ u \notin Voters(r)
     THEN RecordApproval(u, r, "confirm")
     ELSE UNCHANGED <<requestVars, approvals>>
  /\ tx' = [tx EXCEPT ![u] = None]
  /\ UNCHANGED <<now, ownerVars, call, bridgeVars, dispatchVars>>

SetStatus(r, s) ==
  /\ status' = [status EXCEPT ![r] = s]
  /\ UNCHANGED <<ctx, expires, created, birth>>

\* admin_cancel_execution -> update_execution_status(cancelled).
Cancel(r) ==
  /\ status[r] \in Busy
  /\ SetStatus(r, "cancelled")
  /\ UNCHANGED <<retries, now, ownerVars, approvals, call, tx, bridgeVars, dispatchVars>>

(***************************************************************************)
(* The policy engine: evaluation, then the bridge's two calls.             *)
(***************************************************************************)
Views  == {"unresolved", "clean", "ip", "asn"}
Listed == {"ip", "asn"}

\* clawforge_policy::decide.
Decide(score, sources) ==
  CASE score < 40 -> "observe"
    [] score \in 40..69 -> "challenge"
    [] score \in 70..89 -> "rate_limit"
    [] OTHER -> IF sources >= 2 THEN "block" ELSE "rate_limit"

\* independent_evidence_for: one source for the behaviour itself, a second for
\* reputation (the snapshot only without a current view) or for another event
\* family, history or attack shape, whose queries are not modelled further.
EvidenceSources(d, other) ==
  IF \/ listed[TargetOf[d]] \in Listed
     \/ listed[TargetOf[d]] = "unresolved" /\ d \in Snapshot
     \/ other
  THEN 2 ELSE 1

\* evaluate_assessment: judge the assessment and upsert the decision; a challenge
\* is handed to Go-Away, a block to the bridge.
Evaluate(e, d) ==
  /\ plan[e] = None
  /\ \E other \in BOOLEAN :
       LET sources == EvidenceSources(d, other)
           verdict == Decide(ScoreOf[d], sources)
       IN /\ decided' = [decided EXCEPT ![d] = [decision |-> verdict, sources |-> sources,
                                                at |-> now]]
          /\ challenged' = IF verdict = "challenge" THEN challenged \cup {d} ELSE challenged
          /\ plan' = [plan EXCEPT ![e] = IF verdict = "block" /\ mode # "off"
                                         THEN [step |-> "bridge", d |-> d] ELSE None]
  /\ UNCHANGED <<now, ownerVars, requestVars, approvals, call, tx, deployment, sound, listed,
                 executorUp, dispatchVars>>

BridgeKey(d) == <<mode, d>>

\* The reputation the plan may rest on, "none" when there is none.
IntelBasis(d) ==
  CASE listed[TargetOf[d]] \in Listed -> listed[TargetOf[d]]
    [] listed[TargetOf[d]] = "unresolved" /\ mode = "simulate" /\ d \in Snapshot -> "snapshot"
    [] OTHER -> "none"

\* clawforge_policy_bridge_plan: does it refuse the decision ...
Plannable(d) ==
  /\ decided[d].decision = "block" /\ decided[d].sources >= 2
  /\ decided[d].at + EvidenceAge >= now
  /\ d \in sound
  /\ mode # "simulate" => listed[TargetOf[d]] # "unresolved"
  /\ IntelBasis(d) # "none"
  /\ CASE mode = "simulate"  -> ~posture[BlockAction].enabled
       [] mode = "propose"   -> posture[BlockAction].enabled /\ posture[BlockAction].gated
       [] mode = "automatic" -> posture[BlockAction].enabled /\ ~posture[BlockAction].gated
  /\ mode = "propose" => BridgeUser \in enabled /\ RoleOf[BridgeUser] = "Operator"

\* ... and the approval context it derives otherwise.
PlanContext(d) ==
  LET gated   == mode = "propose"
      lowered == gated /\ policy > 1 /\ SoleOperator(BlockAction) # None
  IN [by |-> "bridge", action |-> BlockAction,
      requester |-> IF gated THEN BridgeUser ELSE None,
      key |-> BridgeKey(d), target |-> TargetOf[d], gated |-> gated,
      required |-> IF ~gated THEN 0 ELSE IF lowered THEN 1 ELSE policy,
      marker |-> IF lowered THEN SoleOperator(BlockAction) ELSE None,
      policy |-> IF lowered THEN policy ELSE 0,
      sim |-> mode = "simulate", basis |-> IntelBasis(d)]

\* First call of enqueue_policy_bridge_request; the caller hashes what it got.
BridgePlan(e) ==
  /\ plan[e] # None /\ plan[e].step = "bridge"
  /\ LET d == plan[e].d IN
     plan' = [plan EXCEPT ![e] =
                IF Plannable(d) /\ WithKey(BridgeKey(d)) = {}
                THEN [step |-> "planned", d |-> d, ctx |-> PlanContext(d)] ELSE None]
  /\ UNCHANGED <<now, ownerVars, requestVars, approvals, call, tx, deployment, decided, sound,
                 listed, challenged, executorUp, dispatchVars>>

BridgeRows(sim) == {r \in Used : ctx[r].by = "bridge" /\ ctx[r].sim = sim}

\* Faulty variant: a request that waits for an approval does not count as active.
EnqueueAllowedUnapproved(c) ==
  /\ ~\E r \in Used : /\ ctx[r].action = c.action /\ ctx[r].target = c.target
                      /\ status[r] \in Busy \ {Waiting} /\ ctx[r].sim = c.sim
  /\ Cardinality({r \in BridgeRows(c.sim) : created[r] > now - BudgetWindow}) < BudgetMax

\* No other request is active on the target, the window's budget is not spent,
\* and an unattended request needs a settled firewall and a live executor.
EnqueueAllowed(c) ==
  /\ ~\E r \in Used : /\ ctx[r].action = c.action /\ ctx[r].target = c.target
                      /\ status[r] \in Busy /\ ctx[r].sim = c.sim
  /\ Cardinality({r \in BridgeRows(c.sim) : created[r] > now - BudgetWindow}) < BudgetMax
  /\ mode = "automatic" =>
       executorUp /\ ~\E r \in Used : status[r] = "rollback_required"

\* Faulty variant: the hashed plan is inserted as it is.
BridgeEnqueueHeld(e) ==
  /\ plan[e] # None /\ plan[e].step = "planned"
  /\ LET c == plan[e].ctx IN
     IF WithKey(c.key) = {} /\ EnqueueAllowed(c) /\ InsertAllowed(c)
     THEN InsertRow(c)
     ELSE UNCHANGED requestVars
  /\ plan' = [plan EXCEPT ![e] = None]
  /\ UNCHANGED <<now, ownerVars, approvals, call, tx, deployment, decided, sound, listed,
                 challenged, executorUp, dispatchVars>>

\* clawforge_enqueue_policy_bridge_request, serialized by its advisory lock: the
\* plan is derived again and must be the one the caller hashed.
BridgeEnqueue(e) ==
  /\ plan[e] # None /\ plan[e].step = "planned"
  /\ LET d == plan[e].d  c == plan[e].ctx IN
     IF /\ Plannable(d) /\ PlanContext(d) = c
        /\ WithKey(c.key) = {}
        /\ EnqueueAllowed(c) /\ InsertAllowed(c)
     THEN InsertRow(c)
     ELSE UNCHANGED requestVars
  /\ plan' = [plan EXCEPT ![e] = None]
  /\ UNCHANGED <<now, ownerVars, approvals, call, tx, deployment, decided, sound, listed,
                 challenged, executorUp, dispatchVars>>

(***************************************************************************)
(* The executor: claim, read the live authorization, resolve and apply.    *)
(***************************************************************************)

\* claim_execution_request_for_dispatch.  A quarantine is claimed only while its
\* two-person approval still stands; SKIP LOCKED lets any eligible row be next.
ClaimEligible(r) ==
  /\ status[r] \in Claimable
  /\ ctx[r].action \in TwoPerson =>
       /\ posture[ctx[r].action].enabled /\ posture[ctx[r].action].gated
       /\ policy >= 2 /\ ctx[r].required >= 2
       /\ now < expires[r]
       /\ Cardinality(Others(r)) >= ctx[r].required
       /\ Cardinality(Others(r)) >= policy

Claim(r) ==
  /\ ClaimEligible(r)
  /\ SetStatus(r, "starting")
  /\ UNCHANGED <<retries, now, ownerVars, approvals, call, tx, bridgeVars, dispatchVars>>

\* firewall_request_live_authorized, against the current policy and profile.
LiveAuthorized(r) ==
  /\ posture[ctx[r].action].gated
  /\ ctx[r].requester # None
  /\ now < expires[r]
  /\ \/ /\ Cardinality(Others(r)) >= ctx[r].required
        /\ Cardinality(Others(r)) >= policy
     \/ LET op == SoleOperator(ctx[r].action) IN
        /\ op # None /\ ctx[r].required = 1 /\ ctx[r].marker = op
        /\ \E a \in approvals : a.req = r /\ a.by = op /\ a.how = "confirm"

\* Between claim and dispatch: a simulation stays a dry run, a firewall action
\* needs the live authorization, a quarantine has its own gate.
Authorize(r) ==
  /\ status[r] = "starting" /\ r \notin cleared
  /\ \/ /\ ctx[r].sim
        /\ SetStatus(r, "success") /\ UNCHANGED <<retries, cleared>>
     \/ /\ ~ctx[r].sim
        /\ ctx[r].action \in TwoPerson \/ LiveAuthorized(r)
        /\ cleared' = cleared \cup {r} /\ UNCHANGED requestVars
     \/ /\ ~ctx[r].sim
        /\ ~(ctx[r].action \in TwoPerson \/ LiveAuthorized(r))
        /\ SetStatus(r, "failed") /\ UNCHANGED <<retries, cleared>>
  /\ UNCHANGED <<now, ownerVars, approvals, call, tx, bridgeVars, live>>

\* resolve_incident_source_for_apply: only a request still `starting`, whose
\* source resolves and, for a bridge request, is still listed.
Resolvable(r) ==
  /\ status[r] = "starting"
  /\ ctx[r].action \in Listable => listed[ctx[r].target] # "unresolved"
  /\ ctx[r].by = "bridge" => listed[ctx[r].target] \in Listed

\* The dispatch and its completion; a request cancelled meanwhile is refused.
Release(r) ==
  /\ r \in cleared
  /\ cleared' = cleared \ {r}
  /\ \/ /\ Resolvable(r)
        /\ live' = live \cup {r}
        /\ \E s \in {"success", "rollback_required"} : SetStatus(r, s)
     \/ /\ ~Resolvable(r) /\ UNCHANGED live
        /\ IF status[r] = "starting" THEN SetStatus(r, "failed")
           ELSE UNCHANGED <<status, ctx, expires, created, birth>>
  /\ UNCHANGED <<retries, now, ownerVars, approvals, call, tx, bridgeVars>>

\* run_execution_maintenance's retry; bridge requests carry max_retries 0.
RetriesAllowed(r) == IF ctx[r].by = "bridge" THEN 0 ELSE MaxRetries

Requeue(r) ==
  /\ status[r] = "failed" /\ retries[r] < RetriesAllowed(r)
  /\ SetStatus(r, "queued")
  /\ retries' = [retries EXCEPT ![r] = @ + 1]
  /\ UNCHANGED <<now, ownerVars, approvals, call, tx, bridgeVars, dispatchVars>>

(***************************************************************************)
(* The owner of the deployment and the world, at most MaxChanges times.    *)
(***************************************************************************)
Change == changes < MaxChanges /\ changes' = changes + 1

SetAccount(u) ==
  /\ Change
  /\ enabled' = IF u \in enabled THEN enabled \ {u} ELSE enabled \cup {u}
  /\ UNCHANGED <<policy, posture, profile>>

SetPolicy(n) ==
  /\ Change /\ policy' = n
  /\ UNCHANGED <<enabled, posture, profile>>

SetPosture(a, on, gated) ==
  /\ Change
  /\ posture' = [posture EXCEPT ![a] = [enabled |-> on, gated |-> gated]]
  /\ UNCHANGED <<enabled, policy, profile>>

SetProfile(p) ==
  /\ Change /\ profile' = p
  /\ UNCHANGED <<enabled, policy, posture>>

Profiles == {[operator |-> None, actions |-> {}]}
              \cup [operator : {u \in Users : RoleOf[u] = "Administrator"}, actions : {Listable}]

OwnerStep ==
  /\ \/ \E u \in Users : SetAccount(u)
     \/ \E n \in 1..2 : n # policy /\ SetPolicy(n)
     \/ \E a \in Actions, on, g \in BOOLEAN :
          posture[a] # [enabled |-> on, gated |-> g] /\ SetPosture(a, on, g)
     \/ \E p \in Profiles \ {profile} : SetProfile(p)
  /\ UNCHANGED <<now, requestVars, approvals, call, tx, bridgeVars, dispatchVars>>

\* A listing appears, moves or goes; a policy is retired or an assessment ages;
\* the executor's heartbeat stops or returns.
WorldStep ==
  /\ Change
  /\ \/ /\ \E t \in Targets, v \in Views : v # listed[t] /\ listed' = [listed EXCEPT ![t] = v]
        /\ UNCHANGED <<sound, executorUp>>
     \/ \E d \in sound : sound' = sound \ {d} /\ UNCHANGED <<listed, executorUp>>
     \/ executorUp' = ~executorUp /\ UNCHANGED <<listed, sound>>
  /\ UNCHANGED <<now, enabled, policy, posture, profile, requestVars, approvals, call, tx,
                 deployment, decided, plan, challenged, dispatchVars>>

Tick ==
  /\ now < MaxNow /\ now' = now + 1
  /\ UNCHANGED <<ownerVars, requestVars, approvals, call, tx, bridgeVars, dispatchVars>>

(***************************************************************************)
(* Specification.                                                          *)
(***************************************************************************)
NoCtx == [by |-> "nobody", action |-> BlockAction, requester |-> None, key |-> None,
          target |-> None, gated |-> FALSE, required |-> 0, marker |-> None,
          policy |-> 0, sim |-> FALSE, basis |-> "none"]

Init ==
  /\ deployment \in Deployments
  /\ now = 0 /\ changes = 0
  /\ enabled = deployment.accounts
  /\ policy = 2
  /\ posture = [a \in Actions |->
                  IF a = BlockAction
                  THEN [enabled |-> mode # "simulate", gated |-> mode # "automatic"]
                  ELSE [enabled |-> TRUE, gated |-> TRUE]]
  /\ profile \in Profiles
  /\ status = [r \in Requests |-> "none"]
  /\ ctx = [r \in Requests |-> NoCtx]
  /\ expires = [r \in Requests |-> 0]
  /\ created = [r \in Requests |-> 0]
  /\ retries = [r \in Requests |-> 0]
  /\ birth = [r \in Requests |-> [policy |-> 0, operator |-> None]]
  /\ approvals = {}
  /\ call = [c \in Callers |-> Idle]
  /\ tx = [u \in Users |-> None]
  /\ decided = [d \in Decisions |-> [decision |-> "observe", sources |-> 0, at |-> 0]]
  /\ sound = Decisions
  /\ listed = [t \in Targets |-> "ip"]
  /\ plan = [e \in Engines |-> None]
  /\ challenged = {}
  /\ executorUp = TRUE
  /\ cleared = {} /\ live = {}

Next ==
  \/ \E c \in deployment.callers, u \in Users, a \in Actions, k \in Keys, t \in Targets :
       ReadAction(c, u, a, k, t)
  \/ \E c \in Callers : ReadProfile(c) \/ LookupKey(c) \/ InsertRequest(c)
  \/ \E u \in Users, r \in Requests, how \in {"approve", "confirm"} : BeginApproval(u, r, how)
  \/ \E u \in Users : Approve(u) \/ Confirm(u)
  \/ \E r \in Requests : Cancel(r) \/ Claim(r) \/ Authorize(r) \/ Release(r) \/ Requeue(r)
  \/ \E e \in deployment.engines, d \in Decisions : Evaluate(e, d)
  \/ \E e \in Engines : BridgePlan(e) \/ BridgeEnqueue(e)
  \/ OwnerStep \/ WorldStep \/ Tick

Spec == Init /\ [][Next]_vars

(***************************************************************************)
(* Properties.                                                             *)
(***************************************************************************)

TypeOK ==
  /\ now \in 0..MaxNow /\ changes \in 0..MaxChanges
  /\ enabled \subseteq Users /\ policy \in 1..2
  /\ posture \in [Actions -> [enabled : BOOLEAN, gated : BOOLEAN]]
  /\ profile \in Profiles
  /\ status \in [Requests -> Statuses]
  /\ \A r \in Requests : ctx[r].required \in 0..2 /\ retries[r] \in 0..MaxRetries
  /\ \A a \in approvals : a.req \in Used /\ a.by \in Users /\ a.how \in {"approve", "confirm"}
  /\ listed \in [Targets -> Views] /\ sound \subseteq Decisions
  /\ challenged \subseteq Decisions
  /\ cleared \subseteq Used /\ live \subseteq Used

\* Nothing is applied for real on the word of fewer people than the policy asked
\* for when the request was made, the requester not counted - unless the request
\* names one operator who confirmed it, and the profile named him too at that
\* moment where the policy asked for more than one.
LiveBacked ==
  \A r \in live :
    \/ Cardinality(Others(r)) >= birth[r].policy
    \/ /\ ctx[r].marker # None
       /\ birth[r].policy > 1 => birth[r].operator = ctx[r].marker
       /\ \E a \in approvals : a.req = r /\ a.by = ctx[r].marker /\ a.how = "confirm"

\* Whatever changed between reading the policy and inserting, a request that needs
\* fewer approvals than the policy in force at its insertion names the operator
\* the profile had at that moment.
LoweringBacked ==
  \A r \in Used :
    ctx[r].gated /\ ctx[r].required < birth[r].policy =>
      ctx[r].marker # None /\ ctx[r].marker = birth[r].operator

\* An idempotency key names one request for good, and a caller is only ever
\* answered with a request that asks for exactly what it asked for.
KeyBound ==
  /\ \A r, s \in Used : ctx[r].key = ctx[s].key => r = s
  /\ \A c \in Callers : call[c].step = "done" => ctx[call[c].id] = call[c].ask

\* A second person's approval never lands after the window, however long its
\* transaction waited for the row.
ApprovedInTime == \A a \in approvals : a.how = "approve" => a.at < expires[a.req]

\* What people decided about a request is enough for what becomes of it.
Backed == TypeOK /\ LiveBacked /\ LoweringBacked /\ ApprovedInTime

\* Two engines and any number of decisions never have two bridge requests active
\* on one target at a time.
OneProposalPerTarget ==
  \A r, s \in Used :
    /\ ctx[r].by = "bridge" /\ ctx[s].by = "bridge" /\ ctx[r].sim = ctx[s].sim
    /\ ctx[r].target = ctx[s].target /\ status[r] \in Busy /\ status[s] \in Busy
    => r = s

\* The bridge never creates more requests than its budget in one window.
BridgeBudget ==
  \A sim \in BOOLEAN :
    Cardinality({r \in BridgeRows(sim) : created[r] > now - BudgetWindow}) <= BudgetMax

\* However engines interleave, the bridge stays within its limits.
ProposalsBounded == OneProposalPerTarget /\ BridgeBudget

\* What the bridge inserts is what the facts of that moment call for, not those of
\* the moment it was planned.
EnqueuedIsCurrent ==
  [][\A r \in Requests :
       status[r] = "none" /\ status'[r] # "none" /\ ctx'[r].by = "bridge" =>
         \E d \in Decisions : Plannable(d) /\ ctx'[r] = PlanContext(d)]_vars
=============================================================================
