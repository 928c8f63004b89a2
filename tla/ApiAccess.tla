------------------------------ MODULE ApiAccess ------------------------------
(***************************************************************************)
(* The API as its callers meet it: rate limiting, authentication, roles    *)
(* and scopes, the handlers' steps in the order the source takes them, the *)
(* credentials they issue and revoke, the audit outbox every audited call  *)
(* writes and publishes, and the MCP server that turns one tool call into  *)
(* calls of the Agent API.  Several calls run at once; each await of a     *)
(* handler is a step of its own, and a call may end at any of them, when   *)
(* the client closes the connection or the process dies.                   *)
(***************************************************************************)
EXTENDS Naturals, Sequences, SequencesExt, ApiRoutes, McpTools

CONSTANTS
  Clients,        \* concurrent callers
  Mcp,            \* the caller that is the MCP server
  Deployments,    \* the handlers each other caller uses and with which credential
                  \* (calls), the tools that are called (tools), CLAWFORGE_MCP_SCOPES
                  \* (scopes), how many rows a flush takes (batch), whether learning is
                  \* enabled (learning) and for which tokens (onboarded, an offline
                  \* step), and the accounts and credentials there are
  Users,          \* usernames
  Creds,          \* credentials: some issued at the start, the others to be issued
  McpToken, LearningToken,   \* what the MCP server is configured with
  MaxCalls, MaxFaults,       \* bounds
  None

CredStates == {"free", "live", "revoked", "expired"}
CredKinds == {"session", "token", "agent", "service"}
Answers == {"ok", "limited", "unauthorized", "forbidden", "refused", "unavailable"}

(* A call: the step its handler is at (at), the rows it has yet to publish  *)
(* (flush), whether a flush is due or a row has been sent (due, sent), and  *)
(* whether a failure of the store went by as something else (lost).        *)
Call ==
  [id : Nat, route : DOMAIN Routes, cred : Creds \cup {None}, at : Nat,
   subject : Users \cup {None}, due : BOOLEAN, flush : Seq(Nat \ {0}), sent : BOOLEAN,
   answer : Answers \cup {None}, changed : BOOLEAN, lost : BOOLEAN, legit : BOOLEAN]

ASSUME AccessAssumption ==
  /\ Mcp \in Clients /\ {McpToken, LearningToken} \subseteq Creds
  /\ MaxCalls \in Nat /\ MaxFaults \in Nat
  /\ None \notin Creds \cup CredKinds \cup Answers /\ None \notin Call

(* The MCP server's tokens have been issued before it starts, and the one  *)
(* for learning holds the learning scopes the server is configured with.   *)
ASSUME DeploymentAssumption ==
  \A d \in Deployments :
    /\ d.scopes \subseteq AllowedScopes \cap AgentScopes
    /\ d.tools \subseteq DOMAIN Tools
    /\ d.batch \in Nat \ {0} /\ d.learning \in BOOLEAN /\ d.onboarded \subseteq Creds
    /\ \A c \in Clients \ {Mcp} :
         d.calls[c] \subseteq (DOMAIN Routes) \X (Creds \cup {None})
    /\ DOMAIN d.creds = Creds
    /\ \A k \in Creds :
         d.creds[k] \in [state : CredStates, kind : CredKinds \cup {None},
                         user : Users \cup {None}, scopes : SUBSET AgentScopes]
    /\ d.tools # {} =>
         /\ \A k \in {McpToken, LearningToken} : d.creds[k].state # "free"
         /\ LearningToken # McpToken
         /\ d.scopes \cap {"learning:read", "learning:propose"}
               \subseteq d.creds[LearningToken].scopes

VARIABLES
  users,          \* admin_users: role of each, or None
  disabled,       \* accounts with enabled = FALSE
  creds,          \* admin_sessions, api_tokens and agent_tokens
  calls,          \* the call each client has in flight
  outbox,         \* audit rows in the order they were committed
  stream,         \* how often each row is in the event stream
  left,           \* rows whose last flush did not get to publish them
  mcp,            \* the tool call in progress
  deployment,     \* one of Deployments
  started, faults

vars == <<users, disabled, creds, calls, outbox, stream, left, mcp, deployment,
          started, faults>>
accounts == <<users, disabled, creds>>
trail == <<outbox, stream, left>>
bounds == <<started, faults>>

Roles == Readers \cup Approvers
Unissued == [state |-> "free", kind |-> None, user |-> None, scopes |-> {}]

Init ==
  /\ deployment \in Deployments
  /\ users = deployment.accounts /\ disabled = {}
  /\ creds = [k \in Creds |->
                IF k = McpToken
                  THEN [deployment.creds[k] EXCEPT !.scopes = deployment.scopes]
                  ELSE deployment.creds[k]]
  /\ calls = [c \in Clients |-> None]
  /\ outbox = <<>> /\ stream = <<>> /\ left = {}
  /\ mcp = None
  /\ started = 0 /\ faults = 0

Fault == faults < MaxFaults /\ faults' = faults + 1

-----------------------------------------------------------------------------
(* Calls *)

(* The credential as the store sees it at this moment.                     *)
InForce(k) ==
  /\ creds[k].state = "live"
  /\ creds[k].kind \in {"session", "token"} => creds[k].user \notin disabled

(* "legit" and "id" are for the properties: whether the credential was in  *)
(* force when the request came in, and which rows are this call's.         *)
Arrive(c, r, k) ==
  /\ started < MaxCalls
  /\ started' = started + 1
  /\ calls' = [calls EXCEPT ![c] =
       [id |-> started + 1, route |-> r, cred |-> k, at |-> 0, subject |-> None,
        due |-> FALSE, flush |-> <<>>, sent |-> FALSE, answer |-> None,
        changed |-> FALSE, lost |-> FALSE, legit |-> k # None /\ InForce(k)]]
  /\ UNCHANGED <<accounts, trail, deployment, faults>>

Quiet(c) == calls[c] # None /\ ~calls[c].due /\ calls[c].flush = <<>>

Begin(c) ==
  /\ c # Mcp
  /\ calls[c] = None \/ (Quiet(c) /\ calls[c].answer # None)
  /\ \E use \in deployment.calls[c] :
        /\ use[2] # None => creds[use[2]].state # "free"
        /\ Arrive(c, use[1], use[2])
  /\ UNCHANGED mcp

Steps(c) == Routes[calls[c].route].steps
Running(c) == Quiet(c) /\ calls[c].answer = None
At(c, kinds) ==
  /\ Running(c) /\ calls[c].at \in 1..Len(Steps(c))
  /\ Steps(c)[calls[c].at] \in kinds

Update(c, f) == calls' = [calls EXCEPT ![c] = f]
Next1(call) == [call EXCEPT !.at = @ + 1]
Answer(c, a) ==
  /\ Update(c, [calls[c] EXCEPT !.answer = a])
  /\ UNCHANGED <<accounts, trail, mcp, deployment>>

(* require_role: an Approver may read what a Viewer may.                   *)
RoleAllowed(role, needs) == role \in needs \/ (role = "Approver" /\ "Viewer" \in needs)
ScopeAllowed(scopes, needs) == "read" \in scopes \/ scopes \cap needs # {}
ExactScope(scopes, needs) == scopes \cap needs # {}

(* Which table each way to authenticate looks the digest up in.            *)
Kinds == [ admin |-> {"session", "token"}, agent |-> {"agent"}, exact |-> {"agent"},
           service |-> {"service"}, none |-> {} ]

-----------------------------------------------------------------------------
(* What the proofs use of the tables.                                      *)

(* Steps that commit a change for the caller.                              *)
Changing == {"write", "record", "user", "session", "token", "agent_token",
             "revoke_own", "revoke_agent", "revoke_token"}
Logging == {"log", "must_log"}

(* An agent's route changes nothing unless it asks for an exact learning   *)
(* scope; what reads for an agent, and what changes anything, is logged.   *)
ASSUME RoutesAssumption ==
  \A r \in DOMAIN Routes :
    LET route == Routes[r]
        steps == Range(route.steps)
    IN  /\ route.auth \in DOMAIN Kinds
        /\ "actor" \in steps => route.auth = "exact"
        /\ route.steps \in Seq(STRING)
        /\ steps \cap Changing # {} /\ route.auth \in {"agent", "exact"} =>
             route.auth = "exact" /\ r \in {"propose", "revise", "attach", "review"}
        /\ steps \cap (Changing \ {"record"}) # {} => steps \cap Logging # {}
        /\ route.auth \in {"agent", "exact"} /\ "record" \notin steps => steps \cap Logging # {}

(* A tool asks for the scope, or one of the scopes, its routes ask for.    *)
ASSUME ToolsAssumption ==
  \A t \in DOMAIN Tools :
    /\ Tools[t].routes \subseteq DOMAIN Routes
    /\ \A r \in Tools[t].routes :
         /\ Routes[r].auth = IF Tools[t].learning THEN "exact" ELSE "agent"
         /\ \E need \in Tools[t].needs : need # {} /\ need \subseteq Routes[r].needs
    /\ Tools[t].learning =>
         \A need \in Tools[t].needs : need \subseteq {"learning:read", "learning:propose"}

-----------------------------------------------------------------------------
(* Authentication *)

(* mutant: revocation, expiry and the account are not looked at            *)
CredentialIssued(k, auth) == k # None /\ creds[k].kind \in Kinds[auth]
Credential(k, auth) == k # None /\ InForce(k) /\ creds[k].kind \in Kinds[auth]

Permitted(k, route) ==
  CASE route.auth = "admin"   -> RoleAllowed(users[creds[k].user], route.needs)
    [] route.auth = "agent"   -> ScopeAllowed(creds[k].scopes, route.needs)
    [] route.auth = "exact"   -> ExactScope(creds[k].scopes, route.needs)
    [] OTHER                  -> TRUE

SwitchedOff(route) == route.auth = "exact" /\ ~deployment.learning

Authenticate(c) ==
  /\ Running(c) /\ calls[c].at = 0
  /\ LET route == Routes[calls[c].route]
         k == calls[c].cred
     IN  \/ SwitchedOff(route) /\ Answer(c, "unavailable")
         \/ /\ ~SwitchedOff(route)
            /\ route.auth = "none" \/ (Credential(k, route.auth) /\ Permitted(k, route))
            /\ Update(c, Next1(calls[c]))
            /\ UNCHANGED <<accounts, trail, mcp, deployment>>
         \/ /\ ~SwitchedOff(route) /\ route.auth # "none" /\ ~Credential(k, route.auth)
            /\ Answer(c, "unauthorized")
         \/ /\ ~SwitchedOff(route) /\ route.auth # "none"
            /\ Credential(k, route.auth) /\ ~Permitted(k, route)
            /\ Answer(c, "forbidden")
  /\ UNCHANGED bounds

(* learning_actor: whom the token is in learning.                          *)
Actor(c) ==
  /\ At(c, {"actor"})
  /\ \/ /\ calls[c].cred \in deployment.onboarded
        /\ Update(c, Next1(calls[c]))
        /\ UNCHANGED <<accounts, trail, mcp, deployment>>
     \/ calls[c].cred \notin deployment.onboarded /\ Answer(c, "forbidden")
  /\ UNCHANGED bounds

(* Steps that change nothing here.                                         *)
Read(c) ==
  /\ At(c, {"check", "read", "find", "call"})
  /\ Update(c, Next1(calls[c]))
  /\ UNCHANGED <<accounts, trail, mcp, deployment, bounds>>

Refuse(c) ==
  /\ At(c, {"check", "find", "write", "record", "account", "user", "revoke_agent"})
  /\ Answer(c, "refused")
  /\ UNCHANGED bounds

Write(c) ==
  /\ At(c, {"write"})
  /\ Update(c, [Next1(calls[c]) EXCEPT !.changed = TRUE])
  /\ UNCHANGED <<accounts, trail, mcp, deployment, bounds>>

(* One transaction; a repeated idempotency key finds the first result.     *)
Record(c) ==
  /\ At(c, {"record"})
  /\ \/ /\ outbox' = Append(outbox, [call |-> calls[c].id, published |-> FALSE])
        /\ stream' = Append(stream, 0)
        /\ left' = left \cup {Len(outbox) + 1}
        /\ Update(c, [Next1(calls[c]) EXCEPT !.changed = TRUE])
     \/ Update(c, Next1(calls[c])) /\ UNCHANGED trail
  /\ UNCHANGED <<accounts, mcp, deployment, bounds>>

(* mutant: the answer does not wait for the handler's last step            *)
FinishEarly(c) ==
  /\ Running(c) /\ calls[c].at = Len(Steps(c))
  /\ Answer(c, "ok")
  /\ UNCHANGED bounds

Finish(c) ==
  /\ Running(c) /\ calls[c].at = Len(Steps(c)) + 1
  /\ Answer(c, "ok")
  /\ UNCHANGED bounds

-----------------------------------------------------------------------------
(* Credentials *)

Issue(c, k, kind, user, scopes) ==
  /\ creds[k].state = "free"
  /\ creds' = [creds EXCEPT ![k] =
                 [state |-> "live", kind |-> kind, user |-> user, scopes |-> scopes]]
  /\ Update(c, [Next1(calls[c]) EXCEPT !.changed = TRUE])
  /\ UNCHANGED <<users, disabled, trail, mcp, deployment, bounds>>

(* The count of accounts and the insert are separate statements.           *)
Vacant(c) ==
  /\ At(c, {"vacant"})
  /\ \/ (\A u \in Users : users[u] = None) /\ Update(c, Next1(calls[c]))
     \/ (\E u \in Users : users[u] # None)
        /\ Update(c, [calls[c] EXCEPT !.answer = "refused"])
  /\ UNCHANGED <<accounts, trail, mcp, deployment, bounds>>

CreateUser(c) ==
  /\ At(c, {"user"})
  /\ \E u \in {v \in Users : users[v] = None},
        role \in IF calls[c].route = "admin_bootstrap" THEN Owners ELSE Roles :
        /\ users' = [users EXCEPT ![u] = role]
        /\ Update(c, [Next1(calls[c]) EXCEPT !.subject = u, !.changed = TRUE])
  /\ UNCHANGED <<disabled, creds, trail, mcp, deployment, bounds>>

Account(c) ==
  /\ At(c, {"account"})
  /\ \E u \in {v \in Users \ disabled : users[v] # None} :
        Update(c, [Next1(calls[c]) EXCEPT !.subject = u])
  /\ UNCHANGED <<accounts, trail, mcp, deployment, bounds>>

Session(c) ==
  At(c, {"session"}) /\ \E k \in Creds : Issue(c, k, "session", calls[c].subject, {})

Token(c) ==
  At(c, {"token"}) /\ \E k \in Creds : Issue(c, k, "token", creds[calls[c].cred].user, {})

AgentToken(c) ==
  At(c, {"agent_token"})
  /\ \E k \in Creds, s \in {deployment.scopes, {"read"}} : Issue(c, k, "agent", None, s)

(* Which credential each route may revoke: its own, any agent token, any   *)
(* API token.                                                              *)
Revocable(c) ==
  CASE Steps(c)[calls[c].at] = "revoke_own"   -> {calls[c].cred}
    [] Steps(c)[calls[c].at] = "revoke_agent" -> {k \in Creds : creds[k].kind = "agent"}
    [] Steps(c)[calls[c].at] = "revoke_token" -> {k \in Creds : creds[k].kind = "token"}

Revoke(c) ==
  /\ At(c, {"revoke_own", "revoke_agent", "revoke_token"})
  /\ \E k \in Revocable(c) :
        creds' = [creds EXCEPT ![k].state = "revoked"]
  /\ Update(c, [Next1(calls[c]) EXCEPT !.changed = TRUE])
  /\ UNCHANGED <<users, disabled, trail, mcp, deployment, bounds>>

(* Rotating an id that names no token revokes nothing and goes on.         *)
RotateNothing(c) ==
  /\ At(c, {"revoke_token"})
  /\ Update(c, Next1(calls[c]))
  /\ UNCHANGED <<accounts, trail, mcp, deployment, bounds>>

-----------------------------------------------------------------------------
(* The audit outbox *)

(* The row is committed; its flush comes after.                            *)
Log(c) ==
  /\ At(c, {"log", "must_log"})
  /\ outbox' = Append(outbox, [call |-> calls[c].id, published |-> FALSE])
  /\ stream' = Append(stream, 0)
  /\ Update(c, [Next1(calls[c]) EXCEPT !.due = TRUE])
  /\ UNCHANGED <<accounts, left, mcp, deployment, bounds>>

FlushOnly(c) ==
  /\ At(c, {"flush"})
  /\ Update(c, [Next1(calls[c]) EXCEPT !.due = TRUE])
  /\ UNCHANGED <<accounts, trail, mcp, deployment, bounds>>

(* The middleware refuses before the handler runs, and logs that; it lets  *)
(* the probes through.                                                     *)
Limit(c) ==
  /\ Running(c) /\ calls[c].at = 0 /\ calls[c].route \notin Unlimited
  /\ outbox' = Append(outbox, [call |-> calls[c].id, published |-> FALSE])
  /\ stream' = Append(stream, 0)
  /\ Update(c, [calls[c] EXCEPT !.answer = "limited", !.due = TRUE])
  /\ UNCHANGED <<accounts, left, mcp, deployment, bounds>>

(* SKIP LOCKED: the row another call is marking at this moment is passed   *)
(* over; the locks of the SELECT itself end with it.                       *)
Marking(c) ==
  {Head(calls[d].flush) : d \in {d \in Clients \ {c} : calls[d] # None /\ calls[d].sent}}
Waiting == {i \in DOMAIN outbox : ~outbox[i].published}

(* ORDER BY created_at                                                     *)
InOrder(rows) ==
  CHOOSE s \in SetToSeqs(rows) : \A i, j \in DOMAIN s : i < j => s[i] < s[j]

(* LIMIT: the rows beyond it stay where they are.                          *)
Oldest(rows, n) ==
  LET all == InOrder(rows) IN SubSeq(all, 1, IF n < Len(all) THEN n ELSE Len(all))

Select(c) ==
  /\ calls[c] # None /\ calls[c].due
  /\ \E skipped \in SUBSET (Marking(c) \cap Waiting) :
       LET found == Waiting \ skipped
           chosen == Oldest(found, deployment.batch)
       IN  /\ Update(c, [calls[c] EXCEPT !.due = FALSE, !.flush = chosen])
           /\ left' = (left \cup found) \ Range(chosen)
  /\ UNCHANGED <<accounts, outbox, stream, mcp, deployment, bounds>>

(* publish_event: a row already in the stream is not added again.          *)
(* mutant: the event key is not unique                                     *)
DeliverAgain(i) == [stream EXCEPT ![i] = @ + 1]
Deliver(i) == IF stream[i] = 0 THEN [stream EXCEPT ![i] = 1] ELSE stream

Publish(c) ==
  /\ calls[c] # None /\ calls[c].flush # <<>> /\ ~calls[c].sent
  /\ stream' = Deliver(Head(calls[c].flush))
  /\ Update(c, [calls[c] EXCEPT !.sent = TRUE])
  /\ UNCHANGED <<accounts, outbox, left, mcp, deployment, bounds>>

Mark(c) ==
  /\ calls[c] # None /\ calls[c].sent
  /\ outbox' = [outbox EXCEPT ![Head(calls[c].flush)].published = TRUE]
  /\ Update(c, [calls[c] EXCEPT !.flush = Tail(@), !.sent = FALSE])
  /\ UNCHANGED <<accounts, stream, left, mcp, deployment, bounds>>

-----------------------------------------------------------------------------
(* Faults *)

(* A store call fails.  A best-effort audit row is lost; learning takes a  *)
(* failed lookup for a token that is not onboarded, and any other failure  *)
(* for a bad request; elsewhere the answer is 503.                         *)
FailedAnswer(call) ==
  IF Routes[call.route].auth = "exact" /\ call.at > 0 THEN "refused" ELSE "unavailable"

StoreFails(c) ==
  /\ Fault /\ Running(c) /\ calls[c].at <= Len(Steps(c))
  /\ \/ At(c, {"log"}) /\ Update(c, [Next1(calls[c]) EXCEPT !.lost = TRUE])
     \/ /\ At(c, {"actor"})
        /\ Update(c, [calls[c] EXCEPT !.answer = "forbidden", !.lost = TRUE])
     \/ /\ ~At(c, {"log", "actor"})
        /\ Update(c, [calls[c] EXCEPT !.answer = FailedAnswer(calls[c])])
  /\ UNCHANGED <<accounts, trail, mcp, deployment, started>>

(* A failed SELECT ends the flush.  A failed publish leaves its row for a  *)
(* later flush and goes on; a failed mark ends the flush.                  *)
FlushFails(c) ==
  /\ Fault /\ calls[c] # None
  /\ \/ /\ calls[c].due
        /\ left' = left \cup Waiting
        /\ Update(c, [calls[c] EXCEPT !.due = FALSE])
     \/ /\ calls[c].flush # <<>> /\ ~calls[c].sent
        /\ left' = left \cup {Head(calls[c].flush)}
        /\ Update(c, [calls[c] EXCEPT !.flush = Tail(@)])
     \/ /\ calls[c].sent
        /\ left' = left \cup Range(calls[c].flush)
        /\ Update(c, [calls[c] EXCEPT !.flush = <<>>, !.sent = FALSE])
  /\ UNCHANGED <<accounts, outbox, stream, mcp, deployment, started>>

(* The connection closes or the process dies: the handler goes no further. *)
Vanish(c) ==
  /\ Fault /\ calls[c] # None
  /\ left' = left \cup Range(calls[c].flush) \cup (IF calls[c].due THEN Waiting ELSE {})
  /\ Update(c, None)
  /\ mcp' = IF c = Mcp THEN [mcp EXCEPT !.todo = @ \ {calls[c].route}, !.failed = TRUE]
                       ELSE mcp
  /\ UNCHANGED <<accounts, outbox, stream, deployment, started>>

(* Time and the owner: a credential expires, an account is disabled.       *)
Expire ==
  /\ Fault
  /\ \/ /\ \E k \in {j \in Creds : creds[j].state = "live"} :
              creds' = [creds EXCEPT ![k].state = "expired"]
        /\ UNCHANGED disabled
     \/ /\ \E u \in {v \in Users \ disabled : users[v] # None} :
              disabled' = disabled \cup {u}
        /\ UNCHANGED creds
  /\ UNCHANGED <<users, calls, trail, mcp, deployment, started>>

-----------------------------------------------------------------------------
(* The MCP server *)

(* McpServer::new withdraws a learning tool whose exact scope is missing;   *)
(* the other tools are listed, and refused when called without their scope. *)
(* mutant: one of the scopes a tool needs is enough                        *)
ToolGrantedInPart(t) ==
  \E need \in Tools[t].needs : need \cap deployment.scopes # {} \/ "read" \in deployment.scopes

ToolGranted(t) ==
  IF Tools[t].learning
    THEN \A need \in Tools[t].needs : need \subseteq deployment.scopes
    ELSE \A need \in Tools[t].needs : need \cap deployment.scopes # {} \/ "read" \in deployment.scopes

TokenOf(t) == IF Tools[t].learning THEN LearningToken ELSE McpToken

CallTool ==
  /\ mcp = None /\ calls[Mcp] = None
  /\ \E t \in deployment.tools :
        /\ ToolGranted(t)
        /\ mcp' = [tool |-> t, todo |-> Tools[t].routes, failed |-> FALSE]
  /\ UNCHANGED <<accounts, trail, calls, deployment, bounds>>

(* The calls of one tool are joined: each is made whatever the others      *)
(* answer; here one after the other, in any order.                         *)
Request ==
  /\ mcp # None /\ calls[Mcp] = None
  /\ \E r \in mcp.todo : Arrive(Mcp, r, TokenOf(mcp.tool))
  /\ UNCHANGED mcp

Receive ==
  /\ mcp # None /\ Quiet(Mcp) /\ calls[Mcp].answer # None
  /\ mcp' = [mcp EXCEPT !.todo = @ \ {calls[Mcp].route},
                        !.failed = @ \/ calls[Mcp].answer # "ok"]
  /\ Update(Mcp, None)
  /\ UNCHANGED <<accounts, trail, deployment, bounds>>

Reply ==
  /\ mcp # None /\ mcp.todo = {} /\ calls[Mcp] = None
  /\ mcp' = None
  /\ UNCHANGED <<accounts, trail, calls, deployment, bounds>>

-----------------------------------------------------------------------------
Next ==
  \/ \E c \in Clients :
        \/ Begin(c) \/ Limit(c) \/ Authenticate(c) \/ Actor(c) \/ Read(c) \/ Refuse(c)
        \/ Write(c) \/ Record(c) \/ Finish(c) \/ Vacant(c) \/ CreateUser(c)
        \/ Account(c) \/ Session(c) \/ Token(c) \/ AgentToken(c) \/ Revoke(c)
        \/ RotateNothing(c) \/ Log(c) \/ FlushOnly(c) \/ Select(c) \/ Publish(c)
        \/ Mark(c) \/ StoreFails(c) \/ FlushFails(c) \/ Vanish(c)
  \/ Expire \/ CallTool \/ Request \/ Receive \/ Reply

Spec == Init /\ [][Next]_vars

-----------------------------------------------------------------------------
(* Properties *)

Done(c, a) == calls[c] # None /\ calls[c].answer = a
ByAgent(c) == Routes[calls[c].route].auth # "none" /\ creds[calls[c].cred].kind = "agent"

(* No handler goes past authentication for a request that came in after    *)
(* its credential had been revoked, had expired or had lost its account:   *)
(* every request reads the credential again (authenticate_credential,      *)
(* authenticate_agent_token), however long its client holds it.            *)
RevokedIsRefused ==
  \A c \in Clients :
    calls[c] # None /\ calls[c].at > 0 /\ Routes[calls[c].route].auth # "none"
      => calls[c].legit

(* An agent token changes nothing but learning data, and that only with    *)
(* the exact learning scope: neither the read wildcard nor                 *)
(* agent:workflow:approve opens a route that writes.                       *)
AgentsOnlyRead ==
  \A c \in Clients :
    calls[c] # None /\ calls[c].changed /\ ByAgent(c)
      => /\ calls[c].route \in {"propose", "revise", "attach", "review"}
         /\ creds[calls[c].cred].scopes \cap Routes[calls[c].route].needs # {}

(* Whoever gets past authentication may do what the handler then does.     *)
Authorised == RevokedIsRefused /\ AgentsOnlyRead

(* When an agent reads or anybody changes something and is answered 200,   *)
(* an audit row of that call is committed, unless the store failed to take *)
(* it: audit records "apply to every call" of an agent, whichever of the   *)
(* handlers it reaches.                                                    *)
TrailComplete ==
  \A c \in Clients :
    Done(c, "ok") /\ ~calls[c].lost /\ (calls[c].changed
                     \/ (ByAgent(c) /\ "record" \notin Range(Steps(c))))
      => \E i \in DOMAIN outbox : outbox[i].call = calls[c].id

(* However many calls flush the same rows at the same time, and whether or *)
(* not the mark after a publish survives, a row is in the stream once; and *)
(* a row marked published is in the stream.                                *)
PublishedOnce ==
  \A i \in DOMAIN outbox : stream[i] <= 1 /\ (outbox[i].published => stream[i] = 1)

(* No row is forgotten: one that is not published is in the hands of a     *)
(* call that flushes, or its last flush failed, or it was recorded without *)
(* one (left) and waits for the next audited call.                         *)
NoRowForgotten ==
  \A i \in Waiting :
    \/ i \in left
    \/ \E c \in Clients : calls[c] # None /\ (calls[c].due \/ i \in Range(calls[c].flush))

(* A row is delivered, and delivered once.                                 *)
RowsDelivered == PublishedOnce /\ NoRowForgotten

(* What the MCP server checks is what the Agent API asks for: the server's *)
(* table of tools, the handlers' scopes and the two tokens agree, so that  *)
(* a tool which passed the server's own check is answered 403 only by      *)
(* learning, for a token that was never onboarded or whose lookup failed.  *)
ToolsServable ==
  Done(Mcp, "forbidden") =>
    /\ Routes[calls[Mcp].route].auth = "exact"
    /\ LearningToken \notin deployment.onboarded \/ calls[Mcp].lost
==============================================================================
