---------------------------- MODULE GovernanceProofs ----------------------------
(***************************************************************************)
(* What is released was decided by people, keys name one request, and the  *)
(* bridge keeps within its limits: for any number of accounts, actions,    *)
(* callers, engines, decisions, requests and changes of the owner.         *)
(***************************************************************************)
EXTENDS Governance, FiniteSetTheorems, TLAPS

-----------------------------------------------------------------------------
(* The part of the invariant that says what the tables and locals hold. *)

\* What a caller may be holding between two calls; B is the set of truth values.
AsksOver(B) ==
  [by : {"caller"}, action : Actions, requester : Users, key : Keys, target : Targets,
   gated : B, required : 0..2, marker : Users \cup {None}, policy : 0..2,
   sim : B, basis : {"none"}]
Asks == AsksOver(BOOLEAN)

World ==
  /\ deployment \in Deployments
  /\ now \in 0..MaxNow /\ changes \in 0..MaxChanges
  /\ enabled \subseteq Users /\ policy \in 1..2
  /\ posture \in [Actions -> [enabled : BOOLEAN, gated : BOOLEAN]]
  /\ profile \in Profiles
  /\ listed \in [Targets -> Views] /\ sound \subseteq Decisions
  /\ challenged \subseteq Decisions

Table ==
  /\ status \in [Requests -> Statuses]
  /\ ctx = [r \in Requests |-> ctx[r]]
  /\ expires \in [Requests -> Nat] /\ created \in [Requests -> Nat]
  /\ retries \in [Requests -> 0..MaxRetries]
  /\ birth \in [Requests -> [policy : 0..2, operator : Users \cup {None}]]
  /\ \A r \in Requests : ctx[r].required \in 0..2

\* Rows are numbered in the order of their insertion.
Dense == \E n \in 0..MaxRequests : Used = 1..n

Locals ==
  /\ call = [c \in Callers |-> call[c]]
  /\ tx = [u \in Users |-> tx[u]]
  /\ plan = [e \in Engines |-> plan[e]]
  /\ \A c \in Callers : call[c].step \in {"profile", "lookup", "insert", "done"} =>
       call[c].ask \in Asks
  /\ \A u \in Users : tx[u] # None => tx[u].req \in Requests
  /\ \A e \in Engines : plan[e] # None => plan[e].d \in Decisions

Held == World /\ Table /\ Dense /\ Locals

-----------------------------------------------------------------------------
(* Reads of the tables. *)

LEMMA SoleOperatorIsUser ==
  ASSUME World, NEW a
  PROVE  SoleOperator(a) \in Users \cup {None}
BY RolesAssumption DEF World, SoleOperator, ApprovalProfile

LEMMA FreshIsFree ==
  ASSUME Dense, Fresh \in Requests
  PROVE  Fresh \notin Used /\ Used \cup {Fresh} = 1..Fresh /\ Fresh \in 1..MaxRequests
<1>1. PICK n \in 0..MaxRequests : Used = 1..n
  BY DEF Dense
<1>2. MaxRequests \in Nat
  BY BoundsAssumption
<1>3. Cardinality(1..n) = n
  BY <1>1, <1>2, FS_Interval
<1>4. Fresh = n + 1
  BY <1>1, <1>3 DEF Fresh
<1> QED BY <1>1, <1>2, <1>4 DEF Requests

-----------------------------------------------------------------------------
(* What a step may do to the request table: insert one row, or move rows. *)

FromCaller(c) == c.by = "caller" /\ c \in Asks

FromBridge(c) ==
  /\ c.by = "bridge" /\ c.action = BlockAction
  /\ c.required \in 0..2 /\ c.requester \in {BridgeUser, None}
  /\ EnqueueAllowed(c)
  /\ \E d \in Decisions : Plannable(d) /\ c = PlanContext(d)

RowInserted ==
  /\ \E c : /\ InsertRow(c) /\ InsertAllowed(c) /\ WithKey(c.key) = {}
            /\ FromCaller(c) \/ FromBridge(c)
  /\ UNCHANGED <<now, policy, approvals, cleared, live>>

\* A move of r in the status table, and who may be at the other end of it.
Moved(r) ==
  /\ status'[r] \in Statuses
  /\ status[r] = "none" <=> status'[r] = "none"
  /\ ctx[r].by = "bridge" /\ status'[r] \in Busy => status[r] \in Busy
  /\ status'[r] = "starting" => status[r] = "starting" \/ ClaimEligible(r)
  /\ retries'[r] \in 0..MaxRetries

RowsMoved ==
  /\ UNCHANGED <<ctx, expires, created, birth>>
  /\ status' = [r \in Requests |-> status'[r]] /\ retries' = [r \in Requests |-> retries'[r]]
  /\ \A r \in Requests : Moved(r)

LEMMA StandingStill ==
  ASSUME Table, UNCHANGED requestVars
  PROVE  RowsMoved
BY DEF Table, requestVars, RowsMoved, Moved

LEMMA RowIsSet ==
  ASSUME Table, NEW r \in Requests, NEW s \in Statuses, SetStatus(r, s),
         status[r] = "none" <=> s = "none",
         ctx[r].by = "bridge" /\ s \in Busy => status[r] \in Busy,
         s = "starting" => ClaimEligible(r),
         retries' = [x \in Requests |-> retries'[x]],
         \A x \in Requests : retries'[x] \in 0..MaxRetries
  PROVE  RowsMoved
BY DEF Table, RowsMoved, Moved, SetStatus

LEMMA VotesMoveRows ==
  ASSUME Held, NEW u \in Users, Approve(u) \/ Confirm(u)
  PROVE  RowsMoved
<1> DEFINE r == tx[u].req
<1>1. r \in Requests
  BY DEF Held, Locals, Approve, Confirm
<1>2. CASE UNCHANGED requestVars
  BY <1>2, StandingStill DEF Held
<1>3. CASE ApprovalValid(u, r, tx[u].start) /\ \E how : RecordApproval(u, r, how)
  <2>1. status[r] = Waiting
    BY <1>3 DEF ApprovalValid
  <2>2. /\ UNCHANGED <<ctx, expires, created, birth, retries>>
        /\ \E s \in {Waiting, "approved"} : status' = [status EXCEPT ![r] = s]
    BY <1>3, <2>1 DEF RecordApproval
  <2>3. Waiting \in Busy /\ "approved" \in Busy /\ Waiting \in Statuses /\ "approved" \in Statuses
    BY DEF Busy, Claimable, Statuses
  <2> QED BY <1>1, <2>1, <2>2, <2>3 DEF Held, Table, RowsMoved, Moved, Waiting
<1> QED BY <1>2, <1>3 DEF Approve, Confirm

LEMMA StatusesMoveRows ==
  ASSUME Held, NEW r \in Requests,
         Cancel(r) \/ Claim(r) \/ Authorize(r) \/ Release(r) \/ Requeue(r)
  PROVE  RowsMoved
<1> USE DEF Busy, Claimable, Statuses, Waiting
<1>1. retries = [x \in Requests |-> retries[x]] /\ \A x \in Requests : retries[x] \in 0..MaxRetries
  BY DEF Held, Table
<1>2. CASE Cancel(r)
  BY <1>1, <1>2, RowIsSet DEF Cancel, Held
<1>3. CASE Claim(r)
  BY <1>1, <1>3, RowIsSet DEF Claim, ClaimEligible, Held
<1>4. CASE Authorize(r)
  <2>1. CASE UNCHANGED requestVars
    BY <2>1, StandingStill DEF Held
  <2>2. CASE SetStatus(r, "success") /\ UNCHANGED retries
    BY <1>1, <1>4, <2>2, RowIsSet DEF Authorize, Held
  <2>3. CASE SetStatus(r, "failed") /\ UNCHANGED retries
    BY <1>1, <1>4, <2>3, RowIsSet DEF Authorize, Held
  <2> QED BY <1>4, <2>1, <2>2, <2>3 DEF Authorize
<1>5. CASE Release(r)
  <2>1. CASE UNCHANGED <<status, ctx, expires, created, birth, retries>>
    BY <2>1, StandingStill DEF Held, requestVars
  <2>2. CASE Resolvable(r)
    BY <1>1, <1>5, <2>2, RowIsSet DEF Release, Resolvable, Held
  <2>3. CASE ~Resolvable(r) /\ status[r] = "starting"
    BY <1>1, <1>5, <2>3, RowIsSet DEF Release, Held
  <2> QED BY <1>5, <2>1, <2>2, <2>3 DEF Release
<1>6. CASE Requeue(r)
  <2>1. retries[r] \in 0..MaxRetries /\ MaxRetries \in Nat
    BY <1>1, BoundsAssumption
  <2>2. ctx[r].by # "bridge" /\ retries[r] + 1 \in 0..MaxRetries
    BY <1>6, <2>1 DEF Requeue, RetriesAllowed
  <2>3. retries' = [retries EXCEPT ![r] = retries[r] + 1] /\ SetStatus(r, "queued")
    BY <1>6 DEF Requeue
  <2> QED BY <1>1, <1>6, <2>2, <2>3, RowIsSet DEF Requeue, Held
<1> QED BY <1>2, <1>3, <1>4, <1>5, <1>6

LEMMA InsertionsAreRows ==
  ASSUME Held, NEW c \in Callers, InsertRequest(c)
  PROVE  RowInserted \/ RowsMoved
<1> DEFINE ask == call[c].ask
<1>1. ask \in Asks
  BY DEF InsertRequest, Held, Locals
<1>2. CASE UNCHANGED requestVars
  BY <1>2, StandingStill DEF Held
<1>3. CASE InsertAllowed(ask) /\ WithKey(ask.key) = {} /\ InsertRow(ask)
  <2>1. FromCaller(ask)
    BY <1>1 DEF FromCaller, Asks, AsksOver
  <2>2. UNCHANGED <<now, policy, approvals, cleared, live>>
    BY DEF InsertRequest, ownerVars, dispatchVars
  <2> QED BY <1>3, <2>1, <2>2 DEF RowInserted
<1> QED BY <1>2, <1>3 DEF InsertRequest

LEMMA EnqueuesAreRows ==
  ASSUME Held, NEW e \in Engines, BridgeEnqueue(e)
  PROVE  RowInserted \/ RowsMoved
<1> DEFINE d == plan[e].d  c == plan[e].ctx
<1>1. CASE UNCHANGED requestVars
  BY <1>1, StandingStill DEF Held
<1>2. CASE /\ Plannable(d) /\ PlanContext(d) = c
           /\ WithKey(c.key) = {} /\ EnqueueAllowed(c) /\ InsertAllowed(c)
           /\ InsertRow(c)
  <2>1. d \in Decisions
    BY DEF Held, Locals, BridgeEnqueue
  <2>2. /\ c.by = "bridge" /\ c.action = BlockAction /\ c.requester \in {BridgeUser, None}
        /\ c.required \in {0, 1, policy}
    BY <1>2 DEF PlanContext
  <2>3. policy \in 0..2
    BY DEF Held, World
  <2>4. FromBridge(c)
    BY <1>2, <2>1, <2>2, <2>3 DEF FromBridge
  <2>5. UNCHANGED <<now, policy, approvals, cleared, live>>
    BY DEF BridgeEnqueue, ownerVars, dispatchVars
  <2> QED BY <1>2, <2>4, <2>5 DEF RowInserted
<1> QED BY <1>1, <1>2 DEF BridgeEnqueue

LEMMA StepsOfTheTable ==
  ASSUME Held, [Next]_vars
  PROVE  RowInserted \/ RowsMoved
<1>1. CASE UNCHANGED requestVars
  BY <1>1, StandingStill DEF Held
<1>2. CASE \E c \in Callers : InsertRequest(c)
  BY <1>2, InsertionsAreRows
<1>3. CASE \E u \in Users : Approve(u) \/ Confirm(u)
  BY <1>3, VotesMoveRows
<1>4. CASE \E r \in Requests : Cancel(r) \/ Claim(r) \/ Authorize(r) \/ Release(r) \/ Requeue(r)
  BY <1>4, StatusesMoveRows
<1>5. CASE \E e \in Engines : BridgeEnqueue(e)
  BY <1>5, EnqueuesAreRows
<1>6. CASE \E c \in deployment.callers, u \in Users, a \in Actions, k \in Keys, t \in Targets :
             ReadAction(c, u, a, k, t)
  BY <1>1, <1>6 DEF ReadAction
<1>7. CASE \E c \in Callers : ReadProfile(c) \/ LookupKey(c)
  BY <1>1, <1>7 DEF ReadProfile, LookupKey
<1>8. CASE \E u \in Users, r \in Requests, how \in {"approve", "confirm"} : BeginApproval(u, r, how)
  BY <1>1, <1>8 DEF BeginApproval
<1>9. CASE \E e \in deployment.engines, d \in Decisions : Evaluate(e, d)
  BY <1>1, <1>9 DEF Evaluate
<1>10. CASE \E e \in Engines : BridgePlan(e)
  BY <1>1, <1>10 DEF BridgePlan
<1>11. CASE OwnerStep \/ WorldStep \/ Tick
  BY <1>1, <1>11 DEF OwnerStep, WorldStep, Tick
<1>12. CASE UNCHANGED vars
  BY <1>1, <1>12 DEF vars
<1> QED BY <1>2, <1>3, <1>4, <1>5, <1>6, <1>7, <1>8, <1>9, <1>10, <1>11, <1>12 DEF Next

-----------------------------------------------------------------------------
(* Rows stay as they were inserted, and recorded votes stay recorded. *)

KeptRow(r) ==
  /\ ctx'[r] = ctx[r] /\ expires'[r] = expires[r]
  /\ created'[r] = created[r] /\ birth'[r] = birth[r]

\* What made a recorded vote possible.
VoteCast(a) ==
  /\ a.req \in Used /\ a.by \in Users /\ a.how \in {"approve", "confirm"} /\ a.at = now
  /\ status[a.req] = Waiting
  /\ a.how = "approve" => /\ ctx[a.req].marker = None /\ a.by # ctx[a.req].requester
                          /\ now < expires[a.req]
  /\ a.how = "confirm" => ctx[a.req].marker = a.by /\ ctx[a.req].required = 1

LEMMA RowsAreKept ==
  ASSUME Held, RowInserted \/ RowsMoved
  PROVE  Used \subseteq Used' /\ \A r \in Used : KeptRow(r)
<1>1. CASE RowInserted
  <2>1. Fresh \in Requests /\ Fresh \notin Used
    BY <1>1, FreshIsFree DEF RowInserted, InsertRow, Held
  <2>2. PICK c : InsertRow(c)
    BY <1>1 DEF RowInserted
  <2>3. \A r \in Requests : r # Fresh => KeptRow(r) /\ status'[r] = status[r]
    BY <2>1, <2>2 DEF InsertRow, KeptRow, Held, Table
  <2> QED BY <2>1, <2>3 DEF Used
<1>2. CASE RowsMoved
  BY <1>2 DEF RowsMoved, Moved, Used, KeptRow
<1> QED BY <1>1, <1>2

LEMMA VotesAreCast ==
  ASSUME Held, [Next]_vars
  PROVE  approvals \subseteq approvals' /\ \A a \in approvals' \ approvals : VoteCast(a)
<1>1. CASE UNCHANGED approvals
  BY <1>1
<1>2. ASSUME NEW u \in Users, Approve(u) \/ Confirm(u)
      PROVE  approvals \subseteq approvals' /\ \A a \in approvals' \ approvals : VoteCast(a)
  <2> DEFINE r == tx[u].req
  <2>1. r \in Requests
    BY <1>2 DEF Held, Locals, Approve, Confirm
  <2>2. status[r] = Waiting => r \in Used
    BY <2>1 DEF Used, Waiting
  <2>3. CASE ApprovalValid(u, r, tx[u].start) /\ DistinctPersonValid(u, r)
             /\ now < expires[r] /\ RecordApproval(u, r, "approve")
    BY <2>2, <2>3 DEF ApprovalValid, DistinctPersonValid, RecordApproval, VoteCast
  <2>4. CASE ApprovalValid(u, r, tx[u].start) /\ ConfirmationValid(u, r)
             /\ RecordApproval(u, r, "confirm")
    BY <2>2, <2>4 DEF ApprovalValid, ConfirmationValid, RecordApproval, VoteCast
  <2> QED BY <1>1, <1>2, <2>3, <2>4 DEF Approve, Confirm
<1>3. CASE \E c \in deployment.callers, u \in Users, a \in Actions, k \in Keys, t \in Targets :
             ReadAction(c, u, a, k, t)
  BY <1>1, <1>3 DEF ReadAction
<1>4. CASE \E c \in Callers : ReadProfile(c) \/ LookupKey(c) \/ InsertRequest(c)
  BY <1>1, <1>4 DEF ReadProfile, LookupKey, InsertRequest
<1>5. CASE \E u \in Users, r \in Requests, how \in {"approve", "confirm"} : BeginApproval(u, r, how)
  BY <1>1, <1>5 DEF BeginApproval
<1>6. CASE \E r \in Requests : Cancel(r) \/ Claim(r) \/ Authorize(r) \/ Release(r) \/ Requeue(r)
  BY <1>1, <1>6 DEF Cancel, Claim, Authorize, Release, Requeue
<1>7. CASE \E e \in deployment.engines, d \in Decisions : Evaluate(e, d)
  BY <1>1, <1>7 DEF Evaluate
<1>8. CASE \E e \in Engines : BridgePlan(e) \/ BridgeEnqueue(e)
  BY <1>1, <1>8 DEF BridgePlan, BridgeEnqueue
<1>9. CASE OwnerStep \/ WorldStep \/ Tick
  BY <1>1, <1>9 DEF OwnerStep, WorldStep, Tick
<1>10. CASE UNCHANGED vars
  BY <1>1, <1>10 DEF vars
<1> QED BY <1>2, <1>3, <1>4, <1>5, <1>6, <1>7, <1>8, <1>9, <1>10 DEF Next

-----------------------------------------------------------------------------
(* The tables and locals keep their shape. *)

LEMMA WorldStays ==
  ASSUME World, [Next]_vars
  PROVE  World'
<1> DEFINE owned == <<changes, enabled, policy, posture, profile>>
           seen  == <<deployment, now, listed, sound>>
<1>1. CASE UNCHANGED <<owned, seen, challenged>>
  BY <1>1 DEF World
<1>2. CASE OwnerStep
  <2>1. changes' \in 0..MaxChanges /\ UNCHANGED <<seen, challenged>>
    <3>1. Change
      BY <1>2 DEF OwnerStep, SetAccount, SetPolicy, SetPosture, SetProfile
    <3>2. UNCHANGED <<seen, challenged>>
      BY <1>2 DEF OwnerStep, bridgeVars
    <3> QED BY <3>1, <3>2, BoundsAssumption DEF World, Change
  <2>2. CASE \E u \in Users : SetAccount(u)
    BY <2>1, <2>2 DEF World, SetAccount
  <2>3. CASE \E n \in 1..2 : n # policy /\ SetPolicy(n)
    BY <2>1, <2>3 DEF World, SetPolicy
  <2>4. ASSUME NEW a \in Actions, NEW on \in BOOLEAN, NEW g \in BOOLEAN, SetPosture(a, on, g)
        PROVE  World'
    <3> DEFINE row == [enabled |-> on, gated |-> g]
    <3>1. row \in [enabled : BOOLEAN, gated : BOOLEAN]
      OBVIOUS
    <3>2. posture' \in [Actions -> [enabled : BOOLEAN, gated : BOOLEAN]]
      <4>1. posture' = [posture EXCEPT ![a] = row]
        BY <2>4 DEF SetPosture
      <4> HIDE DEF row
      <4> QED BY <3>1, <4>1 DEF World
    <3>3. UNCHANGED <<enabled, policy, profile>>
      BY <2>4 DEF SetPosture
    <3> QED BY <2>1, <3>2, <3>3 DEF World
  <2>5. CASE \E p \in Profiles \ {profile} : SetProfile(p)
    BY <2>1, <2>5 DEF World, SetProfile
  <2> QED BY <1>2, <2>2, <2>3, <2>4, <2>5 DEF OwnerStep
<1>3. CASE WorldStep
  <2>1. changes' \in 0..MaxChanges
    BY <1>3, BoundsAssumption DEF World, WorldStep, Change
  <2> QED BY <1>3, <2>1 DEF World, WorldStep
<1>4. CASE Tick
  <2>1. now' \in 0..MaxNow
    BY <1>4, BoundsAssumption DEF World, Tick
  <2> QED BY <1>4, <2>1 DEF World, Tick, ownerVars, bridgeVars
<1>5. CASE \E e \in deployment.engines, d \in Decisions : Evaluate(e, d)
  BY <1>5 DEF World, Evaluate, ownerVars
<1>6. CASE \E c \in deployment.callers, u \in Users, a \in Actions, k \in Keys, t \in Targets :
             ReadAction(c, u, a, k, t)
  BY <1>1, <1>6 DEF ReadAction, ownerVars, bridgeVars
<1>7. CASE \E c \in Callers : ReadProfile(c) \/ LookupKey(c) \/ InsertRequest(c)
  BY <1>1, <1>7 DEF ReadProfile, LookupKey, InsertRequest, ownerVars, bridgeVars
<1>8. CASE \E u \in Users, r \in Requests, how \in {"approve", "confirm"} : BeginApproval(u, r, how)
  BY <1>1, <1>8 DEF BeginApproval, ownerVars, bridgeVars
<1>9. CASE \E u \in Users : Approve(u) \/ Confirm(u)
  BY <1>1, <1>9 DEF Approve, Confirm, ownerVars, bridgeVars
<1>10. CASE \E r \in Requests : Cancel(r) \/ Claim(r) \/ Authorize(r) \/ Release(r) \/ Requeue(r)
  BY <1>1, <1>10 DEF Cancel, Claim, Authorize, Release, Requeue, ownerVars, bridgeVars
<1>11. CASE \E e \in Engines : BridgePlan(e) \/ BridgeEnqueue(e)
  BY <1>1, <1>11 DEF BridgePlan, BridgeEnqueue, ownerVars
<1>12. CASE UNCHANGED vars
  BY <1>1, <1>12 DEF vars, ownerVars, bridgeVars
<1> QED BY <1>2, <1>3, <1>4, <1>5, <1>6, <1>7, <1>8, <1>9, <1>10, <1>11, <1>12 DEF Next

LEMMA TableStays ==
  ASSUME Held, RowInserted \/ RowsMoved
  PROVE  Table' /\ Dense'
<1>1. CASE RowInserted
  <2>1. PICK c : InsertRow(c) /\ c.required \in 0..2
    BY <1>1 DEF RowInserted, FromCaller, FromBridge, Asks, AsksOver
  <2>2. Fresh \in Requests /\ now \in Nat /\ now + Window \in Nat /\ policy \in 0..2
    BY <2>1, BoundsAssumption DEF InsertRow, Held, World
  <2>3. SoleOperator(c.action) \in Users \cup {None}
    BY SoleOperatorIsUser DEF Held
  <2>4. Table'
    <3>1. status' \in [Requests -> Statuses] /\ \A r \in Requests : ctx'[r].required \in 0..2
      BY <2>1, <2>2 DEF InsertRow, Held, Table, Statuses, Busy, Claimable
    <3>2. ctx' = [r \in Requests |-> ctx'[r]] /\ retries' \in [Requests -> 0..MaxRetries]
      BY <2>1, <2>2 DEF InsertRow, Held, Table
    <3>3. expires' \in [Requests -> Nat] /\ created' \in [Requests -> Nat]
      BY <2>1, <2>2 DEF InsertRow, Held, Table
    <3>4. birth' \in [Requests -> [policy : 0..2, operator : Users \cup {None}]]
      BY <2>1, <2>2, <2>3 DEF InsertRow, Held, Table
    <3> QED BY <3>1, <3>2, <3>3, <3>4 DEF Table
  <2>5. Used' = Used \cup {Fresh}
    BY <2>1, <2>2 DEF InsertRow, Held, Table, Used, Waiting
  <2>6. Dense'
    BY <2>2, <2>5, FreshIsFree DEF Held, Dense
  <2> QED BY <2>4, <2>6
<1>2. CASE RowsMoved
  <2>1. Table'
    BY <1>2 DEF RowsMoved, Moved, Held, Table
  <2>2. Used' = Used
    BY <1>2 DEF RowsMoved, Moved, Used
  <2> QED BY <2>1, <2>2 DEF Held, Dense
<1> QED BY <1>1, <1>2

\* The three parts of Locals, one for each kind of actor.
CallsAsk ==
  /\ call = [c \in Callers |-> call[c]]
  /\ \A c \in Callers : call[c].step \in {"profile", "lookup", "insert", "done"} =>
       call[c].ask \in Asks
VotesOpen ==
  /\ tx = [u \in Users |-> tx[u]]
  /\ \A u \in Users : tx[u] # None => tx[u].req \in Requests
PlansHeld ==
  /\ plan = [e \in Engines |-> plan[e]]
  /\ \A e \in Engines : plan[e] # None => plan[e].d \in Decisions

LEMMA LoweredAsk ==
  ASSUME NEW B, NEW ask \in AsksOver(B), NEW op \in Users \cup {None}
  PROVE  [ask EXCEPT !.required = 1, !.marker = op, !.policy = ask.required] \in AsksOver(B)
<1>1. \A a \in AsksOver(B), n \in 0..2 : [a EXCEPT !.required = n] \in AsksOver(B)
  BY DEF AsksOver
<1>2. \A a \in AsksOver(B), m \in Users \cup {None} : [a EXCEPT !.marker = m] \in AsksOver(B)
  BY DEF AsksOver
<1>3. \A a \in AsksOver(B), n \in 0..2 : [a EXCEPT !.policy = n] \in AsksOver(B)
  BY DEF AsksOver
<1>4. 1 \in 0..2 /\ ask.required \in 0..2
  BY DEF AsksOver
<1> QED BY <1>1, <1>2, <1>3, <1>4

LEMMA ReadsAsk ==
  ASSUME World, CallsAsk, NEW c \in Callers,
         \/ \E u \in Users, a \in Actions, k \in Keys, t \in Targets : ReadAction(c, u, a, k, t)
         \/ ReadProfile(c) \/ LookupKey(c)
  PROVE  CallsAsk'
<1>1. ASSUME NEW x, call' = [call EXCEPT ![c] = x],
             x.step \in {"profile", "lookup", "insert", "done"} => x.ask \in Asks
      PROVE  CallsAsk'
  BY <1>1 DEF CallsAsk
<1>2. ASSUME NEW u \in Users, NEW a \in Actions, NEW k \in Keys, NEW t \in Targets,
             ReadAction(c, u, a, k, t)
      PROVE  CallsAsk'
  <2> DEFINE g == posture[a].gated
             n == IF g THEN policy ELSE 0
             ask == Ask(u, a, k, t, n, None, 0)
             x == [step |-> IF n > 1 THEN "profile" ELSE "lookup", ask |-> ask]
  <2>1. g \in BOOLEAN
    BY DEF World
  <2>2. n \in 0..2
    BY DEF World
  <2>3. ask \in Asks
    <3>1. 0 \in 0..2
      OBVIOUS
    <3>2. ask = [by |-> "caller", action |-> a, requester |-> u, key |-> k, target |-> t,
                 gated |-> g, required |-> n, marker |-> None, policy |-> 0, sim |-> FALSE,
                 basis |-> "none"]
      BY Zenon DEF Ask
    <3> HIDE DEF g, n, ask
    <3> QED BY <2>1, <2>2, <3>1, <3>2, Zenon DEF Asks, AsksOver
  <2>4. call' = [call EXCEPT ![c] = x]
    BY <1>2 DEF ReadAction
  <2>5. x.ask = ask
    BY DEF x
  <2> HIDE DEF x, ask
  <2> QED BY <1>1, <2>3, <2>4, <2>5
<1>3. CASE ReadProfile(c)
  <2> DEFINE ask == call[c].ask
             op  == SoleOperator(ask.action)
             low == [ask EXCEPT !.required = 1, !.marker = op, !.policy = ask.required]
             x   == [step |-> "lookup", ask |-> IF op = None THEN ask ELSE low]
  <2>1. ask \in Asks /\ op \in Users \cup {None}
    BY <1>3, SoleOperatorIsUser DEF ReadProfile, CallsAsk
  <2>2. low \in Asks
    <3> HIDE DEF op, ask
    <3> QED BY <2>1, LoweredAsk DEF Asks
  <2>3. call' = [call EXCEPT ![c] = x]
    BY <1>3 DEF ReadProfile
  <2>4. x.ask \in Asks
    BY <2>1, <2>2
  <2> HIDE DEF x
  <2> QED BY <1>1, <2>3, <2>4
<1>4. CASE LookupKey(c)
  <2>1. call[c].ask \in Asks
    BY <1>4 DEF LookupKey, CallsAsk
  <2>2. \E x : /\ call' = [call EXCEPT ![c] = x]
               /\ x.step \in {"profile", "lookup", "insert", "done"} => x.ask = call[c].ask
    BY <1>4 DEF LookupKey, Refused
  <2> QED BY <1>1, <2>1, <2>2
<1> QED BY <1>2, <1>3, <1>4

LEMMA LocalsStay ==
  ASSUME Held, [Next]_vars
  PROVE  Locals'
<1>1. CallsAsk /\ VotesOpen /\ PlansHeld
  BY DEF Held, Locals, CallsAsk, VotesOpen, PlansHeld
<1>2. ASSUME CallsAsk', VotesOpen', PlansHeld' PROVE Locals'
  BY <1>2 DEF Locals, CallsAsk, VotesOpen, PlansHeld
<1>3. UNCHANGED call => CallsAsk'
  BY <1>1 DEF CallsAsk
<1>4. UNCHANGED tx => VotesOpen'
  BY <1>1 DEF VotesOpen
<1>5. UNCHANGED plan => PlansHeld'
  BY <1>1 DEF PlansHeld
<1>6. CASE \E c \in deployment.callers, u \in Users, a \in Actions, k \in Keys, t \in Targets :
             ReadAction(c, u, a, k, t)
  <2>1. deployment.callers \subseteq Callers
    BY BridgeAssumption DEF Held, World
  <2>2. CallsAsk'
    BY <1>1, <1>6, <2>1, ReadsAsk DEF Held
  <2> QED BY <1>2, <1>4, <1>5, <1>6, <2>2 DEF ReadAction, bridgeVars
<1>7. CASE \E c \in Callers : ReadProfile(c) \/ LookupKey(c)
  <2>1. CallsAsk'
    BY <1>1, <1>7, ReadsAsk DEF Held
  <2> QED BY <1>2, <1>4, <1>5, <1>7, <2>1 DEF ReadProfile, LookupKey, bridgeVars
<1>8. CASE \E c \in Callers : InsertRequest(c)
  <2>1. PICK c \in Callers : InsertRequest(c)
    BY <1>8
  <2>2. call[c].ask \in Asks
    BY <1>1, <2>1 DEF InsertRequest, CallsAsk
  <2>3. \E x : /\ call' = [call EXCEPT ![c] = x]
               /\ x.step \in {"profile", "lookup", "insert", "done"} => x.ask = call[c].ask
    BY <2>1 DEF InsertRequest, Refused
  <2>4. CallsAsk'
    BY <1>1, <2>2, <2>3 DEF CallsAsk
  <2> QED BY <1>2, <1>4, <1>5, <2>1, <2>4 DEF InsertRequest, bridgeVars
<1>9. CASE \E u \in Users, r \in Requests, how \in {"approve", "confirm"} : BeginApproval(u, r, how)
  <2>1. VotesOpen'
    BY <1>1, <1>9 DEF VotesOpen, BeginApproval
  <2> QED BY <1>2, <1>3, <1>5, <1>9, <2>1 DEF BeginApproval, bridgeVars
<1>10. CASE \E u \in Users : Approve(u) \/ Confirm(u)
  <2>1. VotesOpen'
    BY <1>1, <1>10 DEF VotesOpen, Approve, Confirm
  <2> QED BY <1>2, <1>3, <1>5, <1>10, <2>1 DEF Approve, Confirm, bridgeVars
<1>11. CASE \E e \in deployment.engines, d \in Decisions : Evaluate(e, d)
  <2>1. deployment.engines \subseteq Engines
    BY BridgeAssumption DEF Held, World
  <2>2. PICK e \in deployment.engines : \E d \in Decisions : Evaluate(e, d)
    BY <1>11
  <2>3. PICK d \in Decisions : Evaluate(e, d)
    BY <2>2
  <2>4. \E x : plan' = [plan EXCEPT ![e] = x] /\ (x # None => x.d = d)
    <3> DEFINE bridged(v) == IF v = "block" /\ mode # "off"
                             THEN [step |-> "bridge", d |-> d] ELSE None
    <3>1. \E v : plan' = [plan EXCEPT ![e] = bridged(v)]
      BY <2>3 DEF Evaluate
    <3>2. \A v : bridged(v) # None => bridged(v).d = d
      OBVIOUS
    <3> HIDE DEF bridged
    <3> QED BY <3>1, <3>2
  <2>5. PlansHeld'
    BY <1>1, <2>1, <2>4 DEF PlansHeld
  <2> QED BY <1>2, <1>3, <1>4, <2>3, <2>5 DEF Evaluate
<1>12. CASE \E e \in Engines : BridgePlan(e) \/ BridgeEnqueue(e)
  <2>1. PICK e \in Engines : BridgePlan(e) \/ BridgeEnqueue(e)
    BY <1>12
  <2>2. plan[e].d \in Decisions
    BY <1>1, <2>1 DEF PlansHeld, BridgePlan, BridgeEnqueue
  <2>3. \E x : plan' = [plan EXCEPT ![e] = x] /\ (x # None => x.d = plan[e].d)
    BY <2>1 DEF BridgePlan, BridgeEnqueue
  <2>4. PlansHeld'
    BY <1>1, <2>2, <2>3 DEF PlansHeld
  <2> QED BY <1>2, <1>3, <1>4, <2>1, <2>4 DEF BridgePlan, BridgeEnqueue
<1>13. CASE \E r \in Requests : Cancel(r) \/ Claim(r) \/ Authorize(r) \/ Release(r) \/ Requeue(r)
  BY <1>2, <1>3, <1>4, <1>5, <1>13 DEF Cancel, Claim, Authorize, Release, Requeue, bridgeVars
<1>14. CASE OwnerStep \/ WorldStep \/ Tick
  BY <1>2, <1>3, <1>4, <1>5, <1>14 DEF OwnerStep, WorldStep, Tick, bridgeVars
<1>15. CASE UNCHANGED vars
  BY <1>2, <1>3, <1>4, <1>5, <1>15 DEF vars, bridgeVars
<1> QED BY <1>6, <1>7, <1>8, <1>9, <1>10, <1>11, <1>12, <1>13, <1>14, <1>15 DEF Next

LEMMA HeldInductive ==
  /\ Init => Held
  /\ Held /\ [Next]_vars => Held'
<1>1. ASSUME Init PROVE Held
  <2> USE <1>1
  <2>1. World
    <3>1. deployment \in Deployments /\ enabled \subseteq Users
      BY BridgeAssumption DEF Init
    <3>2. posture \in [Actions -> [enabled : BOOLEAN, gated : BOOLEAN]]
      <4> DEFINE on == mode # "simulate"  g == mode # "automatic"
                 row(a) == IF a = BlockAction THEN [enabled |-> on, gated |-> g]
                           ELSE [enabled |-> TRUE, gated |-> TRUE]
      <4>1. on \in BOOLEAN /\ g \in BOOLEAN
        OBVIOUS
      <4>2. \A a \in Actions : row(a) \in [enabled : BOOLEAN, gated : BOOLEAN]
        <5> HIDE DEF on, g
        <5> QED BY <4>1
      <4>3. posture = [a \in Actions |-> row(a)]
        BY DEF Init
      <4> HIDE DEF row
      <4> QED BY <4>2, <4>3
    <3>3. listed \in [Targets -> Views] /\ profile \in Profiles /\ policy \in 1..2
      BY DEF Init, Views
    <3> QED BY <3>1, <3>2, <3>3, BoundsAssumption DEF Init, World
  <2>2. Table
    BY BoundsAssumption DEF Init, Table, Statuses, Busy, NoCtx
  <2>3. Dense
    <3>1. Used = 1..0 /\ 0 \in 0..MaxRequests
      BY BoundsAssumption DEF Init, Used
    <3> QED BY <3>1 DEF Dense
  <2>4. Locals
    BY DEF Init, Locals, Idle
  <2> QED BY <2>1, <2>2, <2>3, <2>4 DEF Held
<1>2. ASSUME Held, [Next]_vars PROVE Held'
  BY <1>2, WorldStays, StepsOfTheTable, TableStays, LocalsStay DEF Held
<1> QED BY <1>1, <1>2

-----------------------------------------------------------------------------
(* What a row says of itself, and what each recorded vote says of its row. *)

RowSound(r) ==
  /\ ctx[r].by \in {"caller", "bridge"}
  /\ ctx[r].by = "bridge" => ctx[r].action = BlockAction
  /\ ctx[r].required = 0 <=> ~ctx[r].gated
  /\ ~ctx[r].gated => expires[r] = 0
  /\ birth[r].policy \in 1..2
  /\ ctx[r].gated /\ ctx[r].required < birth[r].policy =>
       ctx[r].marker # None /\ ctx[r].marker = birth[r].operator

RowsSound == \A r \in Used : RowSound(r)

VoteSound(a) ==
  /\ a.req \in Used /\ a.by \in Users /\ a.how \in {"approve", "confirm"}
  /\ a.how = "approve" => ctx[a.req].marker = None /\ a.at < expires[a.req]
  /\ a.how = "confirm" => a.by = ctx[a.req].marker

VotesSound == \A a \in approvals : VoteSound(a)

LEMMA RowsSoundStays ==
  ASSUME Held, RowsSound, RowInserted \/ RowsMoved
  PROVE  RowsSound'
<1>1. Used \subseteq Used' /\ \A r \in Used : KeptRow(r)
  BY RowsAreKept
<1>2. \A r \in Used : RowSound(r)'
  BY <1>1 DEF RowsSound, RowSound, KeptRow
<1>3. CASE RowInserted
  <2>1. PICK c : InsertRow(c) /\ InsertAllowed(c) /\ (FromCaller(c) \/ FromBridge(c))
    BY <1>3 DEF RowInserted
  <2>2. PICK f \in Requests : f = Fresh
    BY <2>1 DEF InsertRow
  <2>3. Used' = Used \cup {f}
    BY <2>1, <2>2 DEF InsertRow, Held, Table, Used, Waiting
  <2>4. /\ ctx'[f] = c /\ expires'[f] = IF c.gated THEN now + Window ELSE 0
        /\ birth'[f] = [policy |-> policy, operator |-> SoleOperator(c.action)]
    BY <2>1, <2>2 DEF InsertRow, Held, Table
  <2>5. c.by \in {"caller", "bridge"} /\ (c.by = "bridge" => c.action = BlockAction)
    BY <2>1 DEF FromCaller, FromBridge
  <2>6. policy \in 1..2
    BY DEF Held, World
  <2>7. c.required = 0 <=> ~c.gated
    BY <2>1 DEF InsertAllowed
  <2>8. c.gated /\ c.required < policy => c.marker # None /\ c.marker = SoleOperator(c.action)
    BY <2>1 DEF InsertAllowed
  <2>9. RowSound(f)'
    <3>1. birth'[f].policy = policy /\ birth'[f].operator = SoleOperator(c.action)
      BY <2>4
    <3> QED BY <2>4, <2>5, <2>6, <2>7, <2>8, <3>1 DEF RowSound
  <2> QED BY <1>2, <2>3, <2>9 DEF RowsSound
<1>4. CASE RowsMoved
  <2>1. Used' = Used
    BY <1>4 DEF RowsMoved, Moved, Used
  <2> QED BY <1>2, <2>1 DEF RowsSound
<1> QED BY <1>3, <1>4

LEMMA VotesSoundStay ==
  ASSUME Held, VotesSound, [Next]_vars
  PROVE  VotesSound'
<1>1. Used \subseteq Used' /\ \A r \in Used : KeptRow(r)
  BY StepsOfTheTable, RowsAreKept
<1>2. \A a \in approvals' \ approvals : VoteCast(a)
  BY VotesAreCast
<1>3. \A a : VoteSound(a) => VoteSound(a)'
  BY <1>1 DEF VoteSound, KeptRow
<1>4. \A a : VoteCast(a) => VoteSound(a)
  BY DEF VoteCast, VoteSound
<1> QED BY <1>2, <1>3, <1>4 DEF VotesSound

-----------------------------------------------------------------------------
(* Enough people behind whatever is cleared or applied. *)

\* One row of LiveBacked.
Enough(r) ==
  \/ Cardinality(Others(r)) >= birth[r].policy
  \/ /\ ctx[r].marker # None
     /\ birth[r].policy > 1 => birth[r].operator = ctx[r].marker
     /\ \E a \in approvals : a.req = r /\ a.by = ctx[r].marker /\ a.how = "confirm"

ClaimsBacked ==
  \A r \in Used : status[r] = "starting" /\ ctx[r].action \in TwoPerson =>
    Cardinality(Others(r)) >= birth[r].policy

ClearedBacked ==
  /\ cleared \subseteq Used /\ live \subseteq Used
  /\ \A r \in cleared \cup live : Enough(r)

LEMMA VotersAreUsers ==
  ASSUME IsFiniteSet(Users), VotesSound, NEW r
  PROVE  /\ Others(r) \subseteq Users /\ IsFiniteSet(Others(r))
         /\ Cardinality(Others(r)) \in Nat
<1>1. Others(r) \subseteq Users
  BY DEF VotesSound, VoteSound, Others, Voters
<1> QED BY <1>1, FS_Subset, FS_CardinalityType

LEMMA OthersGrow ==
  ASSUME IsFiniteSet(Users), VotesSound, VotesSound', approvals \subseteq approvals',
         NEW r, ctx'[r] = ctx[r]
  PROVE  Cardinality(Others(r))' >= Cardinality(Others(r))
<1>1. Others(r) \subseteq Others(r)'
  BY DEF Others, Voters
<1>2. Others(r)' \subseteq Users
  BY DEF VotesSound, VoteSound, Others, Voters
<1>3. IsFiniteSet(Others(r)')
  BY <1>2, FS_Subset
<1> QED BY <1>1, <1>3, VotersAreUsers, FS_Subset, FS_CardinalityType

LEMMA EnoughStays ==
  ASSUME IsFiniteSet(Users), RowsSound, VotesSound, VotesSound', approvals \subseteq approvals',
         NEW r \in Used, KeptRow(r), Enough(r)
  PROVE  Enough(r)'
<1>1. Cardinality(Others(r)) \in Nat /\ Cardinality(Others(r))' \in Int /\ birth[r].policy \in Nat
  <2>1. Others(r)' \subseteq Users
    BY DEF VotesSound, VoteSound, Others, Voters
  <2>2. Cardinality(Others(r)') \in Nat
    BY <2>1, FS_Subset, FS_CardinalityType
  <2> QED BY <2>2, VotersAreUsers DEF RowsSound, RowSound
<1>2. Cardinality(Others(r))' >= Cardinality(Others(r))
  BY OthersGrow DEF KeptRow
<1>3. CASE Cardinality(Others(r)) >= birth[r].policy
  <2>1. Cardinality(Others(r))' >= birth'[r].policy
    BY <1>1, <1>2, <1>3 DEF KeptRow
  <2> QED BY <2>1 DEF Enough
<1>4. CASE ~(Cardinality(Others(r)) >= birth[r].policy)
  BY <1>4 DEF Enough, KeptRow
<1> QED BY <1>3, <1>4

LEMMA ClaimHasTwoPeople ==
  ASSUME IsFiniteSet(Users), Held, RowsSound, VotesSound, NEW r \in Used,
         ClaimEligible(r), ctx[r].action \in TwoPerson
  PROVE  Cardinality(Others(r)) >= birth[r].policy
BY VotersAreUsers DEF ClaimEligible, Held, World, RowsSound, RowSound

\* A marked request refuses ordinary approvals, so any vote on it is the operator's own.
LEMMA MarkedIsConfirmed ==
  ASSUME VotesSound, NEW r \in Used, Others(r) # {}, ctx[r].marker # None
  PROVE  \E a \in approvals : a.req = r /\ a.by = ctx[r].marker /\ a.how = "confirm"
<1>1. PICK a \in approvals : a.req = r
  BY DEF Others, Voters
<1> QED BY <1>1 DEF VotesSound, VoteSound

LEMMA AuthorizedIsEnough ==
  ASSUME IsFiniteSet(Users), Held, RowsSound, VotesSound, NEW r \in Used, LiveAuthorized(r)
  PROVE  Enough(r)
<1>1. /\ birth[r].policy \in 1..2 /\ policy \in 1..2 /\ ctx[r].required \in 0..2
      /\ now \in Nat /\ Cardinality(Others(r)) \in Nat
  BY VotersAreUsers, BoundsAssumption DEF Held, World, Table, RowsSound, RowSound, Used
<1>2. ctx[r].gated /\ ctx[r].required # 0
  <2>1. now < expires[r]
    BY DEF LiveAuthorized
  <2> QED BY <1>1, <2>1 DEF RowsSound, RowSound
<1>3. CASE Cardinality(Others(r)) >= ctx[r].required /\ Cardinality(Others(r)) >= policy
  <2>1. CASE ctx[r].required >= birth[r].policy
    BY <1>1, <1>3, <2>1 DEF Enough
  <2>2. CASE ctx[r].required < birth[r].policy
    <3>1. ctx[r].marker # None /\ ctx[r].marker = birth[r].operator
      BY <1>2, <2>2 DEF RowsSound, RowSound
    <3>2. Others(r) # {}
      BY <1>1, <1>3, FS_EmptySet
    <3> QED BY <3>1, <3>2, MarkedIsConfirmed DEF Enough
  <2> QED BY <1>1, <2>1, <2>2
<1>4. CASE \E op : /\ op # None /\ ctx[r].required = 1 /\ ctx[r].marker = op
                   /\ \E a \in approvals : a.req = r /\ a.by = op /\ a.how = "confirm"
  <2>1. birth[r].policy > 1 => ctx[r].marker = birth[r].operator
    BY <1>1, <1>2, <1>4 DEF RowsSound, RowSound
  <2> QED BY <1>4, <2>1 DEF Enough
<1> QED BY <1>3, <1>4 DEF LiveAuthorized

\* A request is newly cleared only while claimed, under a live authorization or,
\* for a quarantine, under the votes its claim counted.
LEMMA ClearedOnAuthority ==
  ASSUME Held, [Next]_vars
  PROVE  \A r \in (cleared' \cup live') \ (cleared \cup live) :
           /\ r \in Used /\ status[r] = "starting"
           /\ ctx[r].action \in TwoPerson \/ LiveAuthorized(r)
<1> DEFINE Goal == \A r \in (cleared' \cup live') \ (cleared \cup live) :
                     /\ r \in Used /\ status[r] = "starting"
                     /\ ctx[r].action \in TwoPerson \/ LiveAuthorized(r)
<1>1. UNCHANGED <<cleared, live>> => Goal
  OBVIOUS
<1>2. CASE \E r \in Requests : Cancel(r) \/ Claim(r) \/ Requeue(r)
  BY <1>1, <1>2 DEF Cancel, Claim, Requeue, dispatchVars
<1>3. CASE \E r \in Requests : Authorize(r)
  <2>1. PICK r \in Requests : Authorize(r)
    BY <1>3
  <2>2. status[r] = "starting" /\ r \in Used /\ UNCHANGED live
    BY <2>1 DEF Authorize, Used
  <2>3. CASE UNCHANGED cleared
    BY <1>1, <2>2, <2>3
  <2>4. CASE cleared' = cleared \cup {r} /\ (ctx[r].action \in TwoPerson \/ LiveAuthorized(r))
    BY <2>2, <2>4
  <2> QED BY <2>1, <2>3, <2>4 DEF Authorize
<1>4. CASE \E r \in Requests : Release(r)
  BY <1>4 DEF Release
<1>5. CASE \E c \in deployment.callers, u \in Users, a \in Actions, k \in Keys, t \in Targets :
             ReadAction(c, u, a, k, t)
  BY <1>1, <1>5 DEF ReadAction, dispatchVars
<1>6. CASE \E c \in Callers : ReadProfile(c) \/ LookupKey(c) \/ InsertRequest(c)
  BY <1>1, <1>6 DEF ReadProfile, LookupKey, InsertRequest, dispatchVars
<1>7. CASE \E u \in Users, r \in Requests, how \in {"approve", "confirm"} : BeginApproval(u, r, how)
  BY <1>1, <1>7 DEF BeginApproval, dispatchVars
<1>8. CASE \E u \in Users : Approve(u) \/ Confirm(u)
  BY <1>1, <1>8 DEF Approve, Confirm, dispatchVars
<1>9. CASE \E e \in deployment.engines, d \in Decisions : Evaluate(e, d)
  BY <1>1, <1>9 DEF Evaluate, dispatchVars
<1>10. CASE \E e \in Engines : BridgePlan(e) \/ BridgeEnqueue(e)
  BY <1>1, <1>10 DEF BridgePlan, BridgeEnqueue, dispatchVars
<1>11. CASE OwnerStep \/ WorldStep \/ Tick
  BY <1>1, <1>11 DEF OwnerStep, WorldStep, Tick, dispatchVars
<1>12. CASE UNCHANGED vars
  BY <1>1, <1>12 DEF vars, dispatchVars
<1> QED BY <1>2, <1>3, <1>4, <1>5, <1>6, <1>7, <1>8, <1>9, <1>10, <1>11, <1>12 DEF Next

\* The inductive invariant behind Backed.
Warranted == Held /\ RowsSound /\ VotesSound /\ ClaimsBacked /\ ClearedBacked

LEMMA ClaimsBackedStay ==
  ASSUME IsFiniteSet(Users), Warranted, [Next]_vars, VotesSound'
  PROVE  ClaimsBacked'
<1> USE DEF Warranted
<1>1. approvals \subseteq approvals' /\ (RowInserted \/ RowsMoved)
  BY VotesAreCast, StepsOfTheTable
<1>2. Used \subseteq Used' /\ \A r \in Used : KeptRow(r)
  BY <1>1, RowsAreKept
<1> SUFFICES ASSUME NEW r \in Used', status'[r] = "starting", ctx'[r].action \in TwoPerson
             PROVE  Cardinality(Others(r))' >= birth'[r].policy
  BY DEF ClaimsBacked
<1>3. r \in Used /\ (status[r] = "starting" \/ ClaimEligible(r))
  <2>1. CASE RowInserted
    <3>1. PICK c : InsertRow(c)
      BY <2>1 DEF RowInserted
    <3>2. r # Fresh
      BY <3>1 DEF InsertRow, Held, Table, Waiting
    <3>3. r \in Requests /\ status'[r] = status[r]
      BY <3>1, <3>2 DEF InsertRow, Held, Table, Used
    <3> QED BY <3>3 DEF Used
  <2>2. CASE RowsMoved
    BY <2>2 DEF RowsMoved, Moved, Used
  <2> QED BY <1>1, <2>1, <2>2
<1>4. ctx'[r] = ctx[r] /\ birth'[r] = birth[r]
  BY <1>2, <1>3 DEF KeptRow
<1>5. Cardinality(Others(r)) >= birth[r].policy
  BY <1>3, <1>4, ClaimHasTwoPeople DEF ClaimsBacked
<1>6. Cardinality(Others(r))' >= Cardinality(Others(r))
  BY <1>1, <1>4, OthersGrow
<1>7. birth[r].policy \in Nat /\ Cardinality(Others(r)) \in Nat /\ Cardinality(Others(r)') \in Nat
  <2>1. Others(r)' \subseteq Users
    BY DEF VotesSound, VoteSound, Others, Voters
  <2>2. Cardinality(Others(r)') \in Nat
    BY <2>1, FS_Subset, FS_CardinalityType
  <2> QED BY <1>3, <2>2, VotersAreUsers DEF RowsSound, RowSound
<1> QED BY <1>4, <1>5, <1>6, <1>7

LEMMA ClearedBackedStays ==
  ASSUME IsFiniteSet(Users), Warranted, [Next]_vars, VotesSound'
  PROVE  ClearedBacked'
<1> USE DEF Warranted
<1>1. approvals \subseteq approvals' /\ (RowInserted \/ RowsMoved)
  BY VotesAreCast, StepsOfTheTable
<1>2. Used \subseteq Used' /\ \A r \in Used : KeptRow(r)
  BY <1>1, RowsAreKept
<1>3. \A r \in cleared' \cup live' : r \in Used /\ Enough(r)
  <2> SUFFICES ASSUME NEW r \in cleared' \cup live', r \notin cleared \cup live
               PROVE  r \in Used /\ Enough(r)
    BY DEF ClearedBacked
  <2>1. /\ r \in Used /\ status[r] = "starting"
        /\ ctx[r].action \in TwoPerson \/ LiveAuthorized(r)
    BY ClearedOnAuthority
  <2> QED BY <2>1, AuthorizedIsEnough DEF ClaimsBacked, Enough
<1>4. \A r \in cleared' \cup live' : Enough(r)'
  BY <1>1, <1>2, <1>3, EnoughStays
<1> QED BY <1>2, <1>3, <1>4 DEF ClearedBacked

LEMMA WarrantedInductive ==
  ASSUME IsFiniteSet(Users)
  PROVE  /\ Init => Warranted
         /\ Warranted /\ [Next]_vars => Warranted'
<1>1. ASSUME Init PROVE Warranted
  <2>1. Held /\ Used = {}
    BY <1>1, HeldInductive DEF Init, Used
  <2> QED BY <1>1, <2>1
          DEF Init, Warranted, RowsSound, VotesSound, ClaimsBacked, ClearedBacked
<1>2. ASSUME Warranted, [Next]_vars PROVE Warranted'
  <2>1. Held' /\ RowsSound' /\ VotesSound'
    BY <1>2, HeldInductive, StepsOfTheTable, RowsSoundStays, VotesSoundStay DEF Warranted
  <2> QED BY <1>2, <2>1, ClaimsBackedStay, ClearedBackedStays DEF Warranted
<1> QED BY <1>1, <1>2

LEMMA WarrantedImpliesBacked == Warranted => Backed
<1> SUFFICES ASSUME Warranted PROVE Backed
  OBVIOUS
<1>1. TypeOK
  BY DEF Warranted, Held, World, Table, VotesSound, VoteSound, ClearedBacked, TypeOK
<1>2. LiveBacked
  BY DEF Warranted, ClearedBacked, Enough, LiveBacked
<1>3. LoweringBacked
  BY DEF Warranted, RowsSound, RowSound, LoweringBacked
<1>4. ApprovedInTime
  BY DEF Warranted, VotesSound, VoteSound, ApprovedInTime
<1> QED BY <1>1, <1>2, <1>3, <1>4 DEF Backed

\* Whatever the owner changes between a caller's reads and the insert, or between
\* the votes and the claim, nothing is applied for real without the people the
\* policy of its insertion asked for or the confirmation of the operator it
\* names; no vote lands after the window.  (create_execution_request, the
\* approval triggers, the claim and the executor's live authorization.)
THEOREM RequestsAreBacked == ASSUME IsFiniteSet(Users) PROVE Spec => []Backed
<1>1. Init => Warranted
  BY WarrantedInductive
<1>2. Warranted /\ [Next]_vars => Warranted'
  BY WarrantedInductive
<1> QED BY <1>1, <1>2, WarrantedImpliesBacked, PTL DEF Spec

-----------------------------------------------------------------------------
(* Keys. *)

KeysUnique == \A r, s \in Used : ctx[r].key = ctx[s].key => r = s

AnswersFit ==
  \A c \in Callers : call[c].step = "done" => call[c].id \in Used /\ ctx[call[c].id] = call[c].ask

LEMMA KeysUniqueStay ==
  ASSUME Held, KeysUnique, RowInserted \/ RowsMoved
  PROVE  KeysUnique'
<1>1. Used \subseteq Used' /\ \A r \in Used : ctx'[r] = ctx[r]
  BY RowsAreKept DEF KeptRow
<1>2. CASE RowInserted
  <2>1. PICK c : InsertRow(c) /\ WithKey(c.key) = {}
    BY <1>2 DEF RowInserted
  <2>2. PICK f \in Requests : f = Fresh
    BY <2>1 DEF InsertRow
  <2>3. Used' = Used \cup {f} /\ ctx'[f] = c
    BY <2>1, <2>2 DEF InsertRow, Held, Table, Used, Waiting
  <2>4. \A r \in Used : ctx'[r].key # ctx'[f].key
    BY <1>1, <2>1, <2>3 DEF WithKey
  <2> QED BY <1>1, <2>3, <2>4 DEF KeysUnique
<1>3. CASE RowsMoved
  <2>1. Used' = Used
    BY <1>3 DEF RowsMoved, Moved, Used
  <2> QED BY <1>1, <2>1 DEF KeysUnique
<1> QED BY <1>2, <1>3

LEMMA AnswersFitStay ==
  ASSUME Held, AnswersFit, [Next]_vars
  PROVE  AnswersFit'
<1>1. Used \subseteq Used' /\ \A r \in Used : ctx'[r] = ctx[r]
  BY StepsOfTheTable, RowsAreKept DEF KeptRow
<1>2. ASSUME NEW c \in Callers, NEW x, call' = [call EXCEPT ![c] = x],
             x.step = "done" => x.id \in Used' /\ ctx'[x.id] = x.ask
      PROVE  AnswersFit'
  BY <1>1, <1>2 DEF AnswersFit, Held, Locals
<1>3. UNCHANGED call => AnswersFit'
  BY <1>1 DEF AnswersFit
<1>4. CASE \E c \in deployment.callers, u \in Users, a \in Actions, k \in Keys, t \in Targets :
             ReadAction(c, u, a, k, t)
  <2>1. PICK c \in deployment.callers :
               \E u \in Users, a \in Actions, k \in Keys, t \in Targets : ReadAction(c, u, a, k, t)
    BY <1>4
  <2>2. c \in Callers
    BY BridgeAssumption DEF Held, World
  <2>3. \E x : call' = [call EXCEPT ![c] = x] /\ x.step # "done"
    <3>1. PICK u \in Users, a \in Actions, k \in Keys, t \in Targets : ReadAction(c, u, a, k, t)
      BY <2>1
    <3> DEFINE n == IF posture[a].gated THEN policy ELSE 0
               x == [step |-> IF n > 1 THEN "profile" ELSE "lookup",
                     ask  |-> Ask(u, a, k, t, n, None, 0)]
    <3>2. call' = [call EXCEPT ![c] = x]
      BY <3>1 DEF ReadAction
    <3>3. x.step # "done"
      OBVIOUS
    <3> HIDE DEF x
    <3> QED BY <3>2, <3>3
  <2> QED BY <1>2, <2>2, <2>3
<1>5. CASE \E c \in Callers : ReadProfile(c)
  BY <1>2, <1>5 DEF ReadProfile
<1>6. CASE \E c \in Callers : LookupKey(c)
  <2>1. PICK c \in Callers : LookupKey(c)
    BY <1>6
  <2> DEFINE ask == call[c].ask
             r   == CHOOSE x \in WithKey(ask.key) : TRUE
  <2>2. CASE WithKey(ask.key) = {}
    BY <1>2, <2>1, <2>2 DEF LookupKey
  <2>3. CASE WithKey(ask.key) # {} /\ ctx[r] = ask
    <3>1. r \in Used
      BY <2>3 DEF WithKey
    <3>2. call' = [call EXCEPT ![c] = [step |-> "done", ask |-> ask, id |-> r]]
      BY <2>1, <2>3 DEF LookupKey
    <3> QED BY <1>1, <1>2, <2>3, <3>1, <3>2
  <2>4. CASE WithKey(ask.key) # {} /\ ctx[r] # ask
    <3>1. call' = [call EXCEPT ![c] = Refused]
      BY <2>1, <2>4 DEF LookupKey
    <3> QED BY <1>2, <3>1 DEF Refused
  <2> QED BY <2>2, <2>3, <2>4
<1>7. CASE \E c \in Callers : InsertRequest(c)
  <2>1. PICK c \in Callers : InsertRequest(c)
    BY <1>7
  <2> DEFINE ask == call[c].ask
  <2>2. CASE InsertAllowed(ask) /\ WithKey(ask.key) = {}
    <3>1. InsertRow(ask) /\ call' = [call EXCEPT ![c] = [step |-> "done", ask |-> ask, id |-> Fresh]]
      BY <2>1, <2>2 DEF InsertRequest
    <3>2. Fresh \in Used' /\ ctx'[Fresh] = ask
      BY <3>1 DEF InsertRow, Held, Table, Used, Waiting
    <3> QED BY <1>2, <3>1, <3>2
  <2>3. CASE ~(InsertAllowed(ask) /\ WithKey(ask.key) = {})
    <3>1. call' = [call EXCEPT ![c] = Refused]
      BY <2>1, <2>3 DEF InsertRequest
    <3> QED BY <1>2, <3>1 DEF Refused
  <2> QED BY <2>2, <2>3
<1>8. CASE \E u \in Users, r \in Requests, how \in {"approve", "confirm"} : BeginApproval(u, r, how)
  BY <1>3, <1>8 DEF BeginApproval
<1>9. CASE \E u \in Users : Approve(u) \/ Confirm(u)
  BY <1>3, <1>9 DEF Approve, Confirm
<1>10. CASE \E r \in Requests : Cancel(r) \/ Claim(r) \/ Authorize(r) \/ Release(r) \/ Requeue(r)
  BY <1>3, <1>10 DEF Cancel, Claim, Authorize, Release, Requeue
<1>11. CASE \E e \in deployment.engines, d \in Decisions : Evaluate(e, d)
  BY <1>3, <1>11 DEF Evaluate
<1>12. CASE \E e \in Engines : BridgePlan(e) \/ BridgeEnqueue(e)
  BY <1>3, <1>12 DEF BridgePlan, BridgeEnqueue
<1>13. CASE OwnerStep \/ WorldStep \/ Tick
  BY <1>3, <1>13 DEF OwnerStep, WorldStep, Tick
<1>14. CASE UNCHANGED vars
  BY <1>3, <1>14 DEF vars
<1> QED BY <1>4, <1>5, <1>6, <1>7, <1>8, <1>9, <1>10, <1>11, <1>12, <1>13, <1>14 DEF Next

\* However callers and engines interleave between the lookup of a key and the
\* insert, a key names one request for good, and a caller is only ever answered
\* with a request that asks for what it asked for.  (create_execution_request.)
THEOREM KeysNameOneRequest == Spec => []KeyBound
<1> DEFINE Inv == Held /\ KeysUnique /\ AnswersFit
<1>1. Init => Inv
  BY HeldInductive DEF Init, KeysUnique, AnswersFit, Used, Idle
<1>2. Inv /\ [Next]_vars => Inv'
  BY HeldInductive, StepsOfTheTable, KeysUniqueStay, AnswersFitStay
<1>3. Inv => KeyBound
  BY DEF KeysUnique, AnswersFit, KeyBound
<1> QED BY <1>1, <1>2, <1>3, PTL DEF Spec

-----------------------------------------------------------------------------
(* The bridge. *)

LEMMA UsedIsFinite ==
  ASSUME Dense, NEW S, S \subseteq Used
  PROVE  IsFiniteSet(S) /\ Cardinality(S) \in Nat
<1>1. PICK n \in 0..MaxRequests : Used = 1..n
  BY DEF Dense
<1>2. IsFiniteSet(Used)
  BY <1>1, BoundsAssumption, FS_Interval
<1> QED BY <1>2, FS_Subset, FS_CardinalityType

\* The bridge rows of one kind still inside the budget's window.
Recent(sim) == {r \in BridgeRows(sim) : created[r] > now - BudgetWindow}

ActiveAgainst(r, s) ==
  /\ ctx[r].by = "bridge" /\ ctx[s].by = "bridge" /\ ctx[r].sim = ctx[s].sim
  /\ ctx[r].target = ctx[s].target /\ status[r] \in Busy /\ status[s] \in Busy

LEMMA OneProposalStays ==
  ASSUME Held, RowsSound, OneProposalPerTarget, RowInserted \/ RowsMoved
  PROVE  OneProposalPerTarget'
<1>1. Used \subseteq Used' /\ \A r \in Used : ctx'[r] = ctx[r]
  BY RowsAreKept DEF KeptRow
<1>2. CASE RowInserted
  <2>1. PICK c : InsertRow(c) /\ (FromCaller(c) \/ FromBridge(c))
    BY <1>2 DEF RowInserted
  <2>2. PICK f \in Requests : f = Fresh
    BY <2>1 DEF InsertRow
  <2>3. Used' = Used \cup {f} /\ ctx'[f] = c /\ \A r \in Used : status'[r] = status[r] \/ r = f
    BY <2>1, <2>2 DEF InsertRow, Held, Table, Used, Waiting
  <2>4. f \notin Used
    BY <2>2, FreshIsFree DEF Held
  <2>5. \A r \in Used : ~ActiveAgainst(f, r)' /\ ~ActiveAgainst(r, f)'
    <3> SUFFICES ASSUME NEW r \in Used, ctx[r].by = "bridge", c.by = "bridge",
                        ctx[r].sim = c.sim, ctx[r].target = c.target, status[r] \in Busy
                 PROVE  FALSE
      BY <1>1, <2>3, <2>4 DEF ActiveAgainst, Busy
    <3>1. EnqueueAllowed(c) /\ c.action = BlockAction
      BY <2>1 DEF FromCaller, FromBridge
    <3>2. ctx[r].action = BlockAction
      BY DEF RowsSound, RowSound
    <3> QED BY <3>1, <3>2 DEF EnqueueAllowed
  <2>6. \A r, s \in Used : ActiveAgainst(r, s)' => ActiveAgainst(r, s)
    BY <1>1, <2>3, <2>4 DEF ActiveAgainst, Busy
  <2> QED BY <2>3, <2>5, <2>6 DEF OneProposalPerTarget, ActiveAgainst
<1>3. CASE RowsMoved
  <2>1. Used' = Used /\ \A r, s \in Used : ActiveAgainst(r, s)' => ActiveAgainst(r, s)
    BY <1>3 DEF RowsMoved, Moved, Used, ActiveAgainst, Busy
  <2> QED BY <2>1 DEF OneProposalPerTarget, ActiveAgainst
<1> QED BY <1>2, <1>3

LEMMA TimeIsMonotone ==
  ASSUME World, [Next]_vars
  PROVE  now' >= now
<1>1. UNCHANGED now => now' >= now
  BY BoundsAssumption DEF World
<1>2. CASE Tick
  BY <1>2, BoundsAssumption DEF World, Tick
<1>3. CASE OwnerStep \/ WorldStep
  BY <1>1, <1>3 DEF OwnerStep, WorldStep
<1>4. CASE \E c \in deployment.callers, u \in Users, a \in Actions, k \in Keys, t \in Targets :
             ReadAction(c, u, a, k, t)
  BY <1>1, <1>4 DEF ReadAction
<1>5. CASE \E c \in Callers : ReadProfile(c) \/ LookupKey(c) \/ InsertRequest(c)
  BY <1>1, <1>5 DEF ReadProfile, LookupKey, InsertRequest
<1>6. CASE \E u \in Users, r \in Requests, how \in {"approve", "confirm"} : BeginApproval(u, r, how)
  BY <1>1, <1>6 DEF BeginApproval
<1>7. CASE \E u \in Users : Approve(u) \/ Confirm(u)
  BY <1>1, <1>7 DEF Approve, Confirm
<1>8. CASE \E r \in Requests : Cancel(r) \/ Claim(r) \/ Authorize(r) \/ Release(r) \/ Requeue(r)
  BY <1>1, <1>8 DEF Cancel, Claim, Authorize, Release, Requeue
<1>9. CASE \E e \in deployment.engines, d \in Decisions : Evaluate(e, d)
  BY <1>1, <1>9 DEF Evaluate
<1>10. CASE \E e \in Engines : BridgePlan(e) \/ BridgeEnqueue(e)
  BY <1>1, <1>10 DEF BridgePlan, BridgeEnqueue
<1>11. CASE UNCHANGED vars
  BY <1>1, <1>11 DEF vars
<1> QED BY <1>2, <1>3, <1>4, <1>5, <1>6, <1>7, <1>8, <1>9, <1>10, <1>11 DEF Next

LEMMA BudgetStays ==
  ASSUME Held, Held', BridgeBudget, [Next]_vars
  PROVE  BridgeBudget'
<1> SUFFICES ASSUME NEW sim \in BOOLEAN
             PROVE  Cardinality(Recent(sim)') <= BudgetMax
  BY DEF BridgeBudget, Recent
<1>1. /\ now \in Nat /\ now' \in Nat /\ now' >= now
      /\ BudgetWindow \in Nat /\ BudgetMax \in Nat
      /\ created \in [Requests -> Nat]
  BY TimeIsMonotone, BoundsAssumption DEF Held, World, Table
<1>2. RowInserted \/ RowsMoved
  BY StepsOfTheTable
<1>3. Used \subseteq Used' /\ \A r \in Used : ctx'[r] = ctx[r] /\ created'[r] = created[r]
  BY <1>2, RowsAreKept DEF KeptRow
<1>4. \A r \in Used : r \in Recent(sim)' => r \in Recent(sim)
  <2> SUFFICES ASSUME NEW r \in Used, r \in Recent(sim)'
               PROVE  r \in Recent(sim)
    OBVIOUS
  <2>1. created[r] \in Nat /\ created[r] > now' - BudgetWindow
    BY <1>1, <1>3 DEF Recent, Used
  <2>2. r \in BridgeRows(sim)
    BY <1>3 DEF Recent, BridgeRows
  <2> QED BY <1>1, <2>1, <2>2 DEF Recent
<1>5. IsFiniteSet(Recent(sim)) /\ Cardinality(Recent(sim)) \in Nat
      /\ Cardinality(Recent(sim)) <= BudgetMax
  BY UsedIsFinite DEF Held, Recent, BridgeRows, BridgeBudget
<1>6. ASSUME Recent(sim)' \subseteq Recent(sim)
      PROVE  Cardinality(Recent(sim)') <= BudgetMax
  <2>1. Cardinality(Recent(sim)') <= Cardinality(Recent(sim)) /\ IsFiniteSet(Recent(sim)')
    BY <1>5, <1>6, FS_Subset
  <2>2. Cardinality(Recent(sim)') \in Nat
    BY <2>1, FS_CardinalityType
  <2> QED BY <1>1, <1>5, <2>1, <2>2
<1>7. CASE RowsMoved
  <2>1. Used' = Used
    BY <1>7 DEF RowsMoved, Moved, Used
  <2> QED BY <1>4, <1>6, <2>1 DEF Recent, BridgeRows
<1>8. CASE RowInserted
  <2>1. PICK c : InsertRow(c) /\ (FromCaller(c) \/ FromBridge(c))
    BY <1>8 DEF RowInserted
  <2>2. PICK f \in Requests : f = Fresh
    BY <2>1 DEF InsertRow
  <2>3. Used' = Used \cup {f} /\ ctx'[f] = c
    BY <2>1, <2>2 DEF InsertRow, Held, Table, Used, Waiting
  <2>4. Recent(sim)' \subseteq Recent(sim) \cup {f}
    BY <1>4, <2>3 DEF Recent, BridgeRows
  <2>5. CASE f \notin Recent(sim)'
    BY <1>6, <2>4, <2>5
  <2>6. CASE f \in Recent(sim)'
    <3>1. c.by = "bridge" /\ c.sim = sim
      BY <2>3, <2>6 DEF Recent, BridgeRows
    <3>2. EnqueueAllowed(c)
      BY <2>1, <3>1 DEF FromCaller, FromBridge
    <3>3. Cardinality(Recent(sim)) < BudgetMax
      BY <3>1, <3>2 DEF EnqueueAllowed, Recent
    <3>4. IsFiniteSet(Recent(sim) \cup {f})
          /\ Cardinality(Recent(sim) \cup {f}) \in {Cardinality(Recent(sim)), Cardinality(Recent(sim)) + 1}
      BY <1>5, FS_AddElement
    <3>5. Cardinality(Recent(sim)') <= Cardinality(Recent(sim) \cup {f}) /\ IsFiniteSet(Recent(sim)')
      BY <2>4, <3>4, FS_Subset
    <3>6. Cardinality(Recent(sim)') \in Nat
      BY <3>5, FS_CardinalityType
    <3> QED BY <1>1, <1>5, <3>3, <3>4, <3>5, <3>6
  <2> QED BY <2>5, <2>6
<1> QED BY <1>2, <1>7, <1>8

\* However many engines plan and enqueue at once, no target has two active bridge
\* requests and no window sees more than the budget.  (enqueue_policy_bridge_request
\* under its advisory lock.)
THEOREM BridgeStaysBounded == Spec => []ProposalsBounded
<1> DEFINE Inv == Held /\ RowsSound /\ ProposalsBounded
<1>1. ASSUME Init PROVE Inv
  <2>1. Held /\ Used = {}
    BY <1>1, HeldInductive DEF Init, Used
  <2>2. \A sim : {r \in BridgeRows(sim) : created[r] > now - BudgetWindow} = {}
    BY <2>1 DEF BridgeRows
  <2>3. BridgeBudget
    <3>1. 0 <= BudgetMax
      BY BoundsAssumption
    <3> QED BY <2>2, <3>1, FS_EmptySet DEF BridgeBudget
  <2> QED BY <2>1, <2>3 DEF RowsSound, ProposalsBounded, OneProposalPerTarget
<1>2. Inv /\ [Next]_vars => Inv'
  BY HeldInductive, StepsOfTheTable, RowsSoundStays, OneProposalStays, BudgetStays
     DEF ProposalsBounded
<1> QED BY <1>1, <1>2, PTL DEF Spec

\* What the bridge inserts is the plan of the state it is inserted in, whatever
\* changed since the caller planned it.  (The second derivation inside
\* clawforge_enqueue_policy_bridge_request.)
THEOREM BridgeInsertsCurrentPlans == Spec => EnqueuedIsCurrent
<1> DEFINE Current == \A r \in Requests :
             status[r] = "none" /\ status'[r] # "none" /\ ctx'[r].by = "bridge" =>
               \E d \in Decisions : Plannable(d) /\ ctx'[r] = PlanContext(d)
<1>1. ASSUME Held, [Next]_vars PROVE Current
  <2>1. CASE RowInserted
    <3>1. PICK c : InsertRow(c) /\ (FromCaller(c) \/ FromBridge(c))
      BY <2>1 DEF RowInserted
    <3>2. \A r \in Requests : r # Fresh => status'[r] = status[r]
      BY <1>1, <3>1 DEF InsertRow, Held, Table
    <3>3. Fresh \in Requests /\ ctx'[Fresh] = c
      BY <1>1, <3>1 DEF InsertRow, Held, Table
    <3>4. c.by = "bridge" => \E d \in Decisions : Plannable(d) /\ c = PlanContext(d)
      BY <3>1 DEF FromCaller, FromBridge
    <3> QED BY <3>2, <3>3, <3>4
  <2>2. CASE RowsMoved
    BY <2>2 DEF RowsMoved, Moved
  <2> QED BY <1>1, <2>1, <2>2, StepsOfTheTable
<1>2. Init => Held
  BY HeldInductive
<1>3. Held /\ [Next]_vars => Held'
  BY HeldInductive
<1> QED BY <1>1, <1>2, <1>3, PTL DEF Spec, EnqueuedIsCurrent
================================================================================
