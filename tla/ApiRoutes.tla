------------------------------ MODULE ApiRoutes ------------------------------
(***************************************************************************)
(* The HTTP handlers of src/api as data.  A route is who may call it and   *)
(* the order in which its handler touches the outside world; the JSON it   *)
(* builds, its filters and its paging are left out.  A run of consecutive  *)
(* store reads is one "read": they change nothing and each of them answers *)
(* 503 on failure.                                                         *)
(*                                                                         *)
(*   "check"   validates the request, may answer 400                       *)
(*   "read"    reads the store, may answer 503                             *)
(*   "find"    reads one row, may answer 404 or 503                        *)
(*   "call"    calls another service, may answer 502 or 503                *)
(*   "write"   commits one change, may be refused (4xx) or fail (503)      *)
(*   "record"  commits one change and its audit row in one transaction     *)
(*   "flush"   publishes what waits in the audit outbox                    *)
(*   "log"     writes an audit row and flushes; a failure is only logged   *)
(*   "must_log" the same, but a failure answers 503                        *)
(*   "actor"   looks up whom a token is in learning, may answer 403        *)
(*                                                                         *)
(* The other steps belong to the credential handlers: ApiAccess says what  *)
(* they do.                                                                *)
(***************************************************************************)
EXTENDS Sequences, TLC

Route(auth, needs, steps) == [auth |-> auth, needs |-> needs, steps |-> steps]

Readers == {"Administrator", "Operator", "Viewer"}
Operators == {"Administrator", "Operator"}
Approvers == {"Administrator", "Approver"}
Owners == {"Administrator"}

Admin(roles, steps) == Route("admin", roles, steps)
Agent(scope, steps) == Route("agent", {scope}, steps)
IncidentReader(steps) == Route("agent", {"incident:read", "incidents:read"}, steps)
Learner(scope, steps) == Route("exact", {scope}, <<"actor">> \o steps)

Logged == <<"read", "log">>
LoggedFirst == <<"log", "read">>
Checked == <<"check", "read", "log">>
Found == <<"find", "log">>
CheckedFound == <<"check", "find", "log">>
Changed == <<"write", "log">>
CheckedChange == <<"check", "write", "log">>

(* load_operations_summary: the ten views it reads, and whatever else the  *)
(* handler reads beside them, are one run of reads.                        *)
Summarised == <<"read", "log">>

(* AGENT_SCOPES, without the prefix "agent:": what a token may be granted.  *)
AgentScopes ==
  { "learning:read", "learning:propose", "learning:curate", "system:read",
    "events:read", "incident:read", "incidents:read", "context:read", "decision:read",
    "provider:read", "operations:read", "operations:briefing", "operations:recommend",
    "security:read", "knowledge:read", "network:read", "incident:replay",
    "history:read", "security:briefing", "system:graph:read", "workflow:read",
    "workflow:approve", "connector:read", "action:read", "execution:read",
    "operations:state", "metrics:read", "assessment:read", "policy-decision:read",
    "firewall:read", "read" }

-----------------------------------------------------------------------------
(* Probes: nobody is authenticated and nothing is written *)

Unlimited == {"health", "ready"}
HealthRoute == [ health |-> Route("none", {}, <<>>) ]
StoreProbes == [h \in {"ready", "version"} |-> Route("none", {}, <<"read">>)]

-----------------------------------------------------------------------------
(* Dashboard and administration routes *)

IntelligenceRoutes ==
  [ intelligence_providers  |-> Admin(Readers, LoggedFirst),
    intelligence_status     |-> Admin(Readers, LoggedFirst),
    intelligence_indicators |-> Admin(Readers, LoggedFirst) ]

EventGraphRoutes == [ visualization_events |-> Admin(Readers, <<"read">>) ]
NetworkGraphRoutes == [ visualization_network |-> Admin(Readers, <<"read">>) ]
IncidentGraphRoutes == [ visualization_incidents |-> Admin(Readers, <<"read">>) ]
TrustGraphRoutes == [ visualization_trust |-> Admin(Readers, <<"read">>) ]

NetworkRoutes ==
  [h \in {"network_asn", "network_bgp", "network_rpki", "network_trust"} |->
     Admin(Readers, LoggedFirst)]

OverviewRoutes ==
  [ admin_security_briefing |-> Admin(Readers, Summarised),
    admin_system_graph      |-> Admin(Readers, Logged) ]

WorkflowAdminRoutes ==
  [ admin_workflows       |-> Admin(Readers, Logged),
    admin_workflow_detail |-> Admin(Readers, Found),
    admin_workflow_runs   |-> Admin(Readers, Checked) ]

WorkflowApproval == [ admin_approve_workflow |-> Admin(Approvers, CheckedChange) ]

ConnectorAdminRoutes ==
  [ admin_connectors             |-> Admin(Readers, Logged),
    admin_connector_detail       |-> Admin(Readers, Found),
    admin_connector_health       |-> Admin(Readers, Found),
    admin_connector_capabilities |-> Admin(Readers, <<"find", "read", "log">>) ]

ActionAdminRoutes ==
  [ admin_actions    |-> Admin(Readers, Logged),
    admin_executions |-> Admin(Readers, Checked) ]

ExecutionDetail == [ admin_execution_detail |-> Admin(Readers, <<"find", "read", "log">>) ]

FirewallAdminRoutes ==
  [ admin_firewall_receipts           |-> Admin(Readers, Logged),
    admin_firewall_expired            |-> Admin(Readers, Logged),
    admin_firewall_kill_switch_create |-> Admin(Operators, Changed) ]

FirewallStateRoutes ==
  [ admin_firewall_kill_switch_list       |-> Admin(Readers, Logged),
    admin_firewall_quarantine_generations |-> Admin(Readers, Logged) ]

(* The storage functions behind these write the audit row themselves.      *)
ExecutionAdminRoutes ==
  [ admin_create_execution  |-> Admin(Operators, <<"find", "check", "record", "flush">>),
    admin_cancel_execution  |-> Admin(Operators, <<"record", "flush">>),
    admin_approve_execution |-> Admin(Approvers, <<"record", "flush">>),
    admin_confirm_single_operator_execution |->
        Admin(Owners, <<"check", "record", "flush">>) ]

RecommendationAdminRoutes ==
  [ admin_operations_recommendations |-> Admin(Readers, Checked) ]

OperationsAdminRoutes ==
  [ admin_operations_summary |-> Admin(Readers, Summarised),
    admin_operations_state   |-> Admin(Readers, Summarised),
    admin_alerts             |-> Admin(Readers, Logged),
    admin_alert_status       |-> Admin(Operators, CheckedChange) ]

ProviderAdminRoutes ==
  [ admin_providers            |-> Admin(Readers, LoggedFirst),
    admin_indicator_conflicts  |-> Admin(Readers, LoggedFirst),
    admin_security_assessments |-> Admin(Readers, Logged) ]

SecurityAdminRoutes ==
  [ admin_security_events    |-> Admin(Readers, Checked),
    admin_security_decisions |-> Admin(Readers, Checked),
    admin_update_provider    |-> Admin(Owners, CheckedChange) ]

TrustAdminRoutes ==
  [ admin_sync_provider        |-> Admin(Operators, Changed),
    admin_trust_networks       |-> Admin(Readers, LoggedFirst),
    admin_create_trust_network |-> Admin(Owners, CheckedChange) ]

TrustStatusRoutes ==
  [ admin_update_trust_status |-> Admin(Owners, CheckedChange),
    audit_events              |-> Admin(Readers, LoggedFirst),
    admin_config              |-> Admin(Readers, LoggedFirst) ]

(* The exports read what the list routes read, without an audit row.       *)
ExportRoutes ==
  [ export_incidents    |-> Admin(Readers, <<"check", "read">>),
    export_indicators   |-> Admin(Readers, <<"read">>) ]

AuditExportRoutes ==
  [ export_audit_events |-> Admin(Readers, <<"read">>),
    admin_set_config    |-> Admin(Owners, CheckedChange) ]

IncidentAdminRoutes ==
  [ incidents         |-> Admin(Readers, <<"log", "check", "read">>),
    incident          |-> Admin(Readers, Found),
    incident_events   |-> Admin(Readers, <<"find", "read">>),
    incident_timeline |-> Admin(Readers, Found) ]

IncidentNoteRoutes ==
  [ incident_status_history |-> Admin(Readers, <<"find", "read", "log">>),
    incident_notes          |-> Admin(Readers, <<"find", "read", "log">>),
    add_incident_note       |-> Admin(Operators, Changed) ]

AnalysisRoutes ==
  [ incident_analysis         |-> Admin(Readers, Found),
    request_incident_analysis |-> Admin(Operators, <<"find", "call", "log">>) ]

StoredAnalysisRoutes ==
  [ store_internal_analysis |-> Route("service", {"analyzer"}, <<"check", "write", "must_log">>) ]

IncidentStatusRoutes == [ update_incident_status |-> Admin(Operators, Changed) ]

NotificationAdminRoutes ==
  [ admin_notification_channels       |-> Admin(Readers, <<"read">>),
    admin_create_notification_channel |-> Admin(Owners, CheckedChange),
    admin_notification_channel_status |-> Admin(Owners, Changed),
    admin_notification_rules          |-> Admin(Readers, <<"read">>),
    admin_create_notification_rule    |-> Admin(Owners, Changed),
    admin_notification_rule_status    |-> Admin(Owners, Changed) ]

EventAdminRoutes ==
  [ events_list   |-> Admin(Operators, <<"read">>),
    event_get     |-> Admin(Operators, <<"find">>),
    events_status |-> Admin(Operators, <<"read">>) ]

-----------------------------------------------------------------------------
(* Credentials *)

Bootstrap ==
  [ admin_bootstrap |->
      Route("none", {}, <<"vacant", "check", "user", "session", "must_log">>) ]

Login == [ admin_login |-> Route("none", {}, <<"account", "session", "log">>) ]

AccountRoutes ==
  [ admin_logout       |-> Route("admin", Readers \cup Approvers, <<"revoke_own", "log">>),
    admin_create_user  |-> Admin(Owners, <<"check", "user", "log">>),
    admin_create_token |-> Admin(Owners, <<"token", "log">>) ]

AgentTokenRoutes ==
  [ admin_create_agent_token |-> Admin(Owners, <<"check", "agent_token", "log">>),
    admin_revoke_agent_token |-> Admin(Owners, <<"revoke_agent", "log">>) ]

Rotation == [ admin_rotate_token |-> Admin(Owners, <<"revoke_token", "token", "log">>) ]

-----------------------------------------------------------------------------
(* Agent API v1: every handler authenticates the agent token, asks for one *)
(* scope, reads, writes the access row and answers.                        *)

StatusRoutes ==
  [ agent_status        |-> Agent("system:read", Logged),
    agent_health_status |-> Agent("system:read", Logged) ]

ContextRoutes == [ agent_context |-> Agent("context:read", Logged) ]

DecisionRoutes ==
  [ agent_decisions       |-> Agent("decision:read", Logged),
    agent_provider_status |-> Agent("provider:read", Logged) ]

HistoryRoutes == [ agent_history |-> Agent("operations:read", Checked) ]
ReplayRoutes == [ agent_incident_replay |-> Agent("incident:replay", CheckedFound) ]
HistorySummaryRoutes == [ agent_history_summary |-> Agent("history:read", Checked) ]
BriefingRoutes == [ agent_security_briefing |-> Agent("security:briefing", Summarised) ]
GraphRoutes == [ agent_system_graph |-> Agent("system:graph:read", Logged) ]

PostureRoutes ==
  [ agent_security_posture   |-> Agent("security:read", Summarised),
    agent_operations_summary |-> Agent("operations:read", Summarised) ]

OperationsRoutes ==
  [ agent_operations_state    |-> Agent("operations:state", Summarised),
    agent_operations_briefing |-> Agent("operations:briefing", Summarised) ]

KnowledgeRoutes ==
  [ agent_knowledge        |-> Agent("knowledge:read", Logged),
    agent_provider_history |-> Agent("provider:read", Checked) ]

WorkflowRoutes ==
  [ agent_workflows       |-> Agent("workflow:read", Logged),
    agent_workflow_detail |-> Agent("workflow:read", Found),
    agent_workflow_runs   |-> Agent("workflow:read", Checked) ]

ConnectorRoutes ==
  [ agent_connectors             |-> Agent("connector:read", Logged),
    agent_connector_detail       |-> Agent("connector:read", Found),
    agent_connector_health       |-> Agent("connector:read", Found),
    agent_connector_capabilities |-> Agent("connector:read", <<"find", "read", "log">>) ]

ExecutionRoutes ==
  [ agent_actions          |-> Agent("action:read", Logged),
    agent_action_detail    |-> Agent("action:read", Found),
    agent_executions       |-> Agent("execution:read", Checked),
    agent_execution_detail |-> Agent("execution:read", Found) ]

RecommendationRoutes ==
  [ agent_operations_recommendations |-> Agent("operations:recommend", Checked),
    agent_decision_history           |-> Agent("operations:recommend", Checked) ]

IncidentRoutes ==
  [ agent_events            |-> Agent("events:read", Logged),
    agent_incidents         |-> IncidentReader(Checked),
    agent_incident_detail   |-> IncidentReader(CheckedFound),
    agent_incident_timeline |-> IncidentReader(CheckedFound) ]

FindingRoutes ==
  [ agent_incident_relations |-> IncidentReader(CheckedFound),
    agent_findings           |-> Agent("security:read", Logged),
    agent_security_overview  |-> Agent("security:read", Logged) ]

AssessmentRoutes ==
  [ agent_security_assessments |-> Agent("assessment:read", Logged),
    agent_security_decisions   |-> Agent("policy-decision:read", Checked) ]

FirewallRoutes == [ agent_firewall_status |-> Agent("firewall:read", Logged) ]

PrefixRoutes ==
  [h \in {"agent_asn", "agent_prefixes"} |-> Agent("network:read", Logged)]

BgpRoutes == [h \in {"agent_bgp", "agent_rpki"} |-> Agent("network:read", Logged)]

TrustRoutes ==
  [ agent_trust   |-> Agent("network:read", Logged),
    agent_metrics |-> Agent("metrics:read", LoggedFirst) ]

(* What the store refuses and what it cannot do are both answered with 400. *)
LearningReads ==
  [h \in {"capabilities", "query", "records"} |-> Learner("learning:read", <<"check", "log">>)]

(* A proposal, a revision, a review and a record write their audit row in  *)
(* their own transaction and leave the outbox to the next audited call.    *)
LearningChanges ==
  [ propose |-> Learner("learning:propose", <<"record">>),
    revise  |-> Learner("learning:propose", <<"record">>),
    attach  |-> Learner("learning:propose", <<"record">>),
    review  |-> Learner("learning:curate", <<"record">>) ]

-----------------------------------------------------------------------------
Routes ==
  HealthRoute @@ StoreProbes
  @@ IntelligenceRoutes @@ EventGraphRoutes @@ NetworkGraphRoutes @@ IncidentGraphRoutes
  @@ TrustGraphRoutes @@ NetworkRoutes @@ OverviewRoutes @@ WorkflowAdminRoutes
  @@ WorkflowApproval @@ ConnectorAdminRoutes @@ ActionAdminRoutes @@ ExecutionDetail
  @@ FirewallAdminRoutes @@ FirewallStateRoutes @@ ExecutionAdminRoutes
  @@ RecommendationAdminRoutes @@ OperationsAdminRoutes @@ ProviderAdminRoutes
  @@ SecurityAdminRoutes @@ TrustAdminRoutes @@ TrustStatusRoutes @@ ExportRoutes
  @@ AuditExportRoutes @@ IncidentAdminRoutes @@ IncidentNoteRoutes @@ AnalysisRoutes
  @@ StoredAnalysisRoutes @@ IncidentStatusRoutes @@ NotificationAdminRoutes
  @@ EventAdminRoutes @@ Bootstrap @@ Login @@ AccountRoutes @@ AgentTokenRoutes
  @@ Rotation @@ StatusRoutes @@ ContextRoutes @@ DecisionRoutes @@ HistoryRoutes
  @@ ReplayRoutes @@ HistorySummaryRoutes @@ BriefingRoutes @@ GraphRoutes
  @@ PostureRoutes @@ OperationsRoutes @@ KnowledgeRoutes @@ WorkflowRoutes
  @@ ConnectorRoutes @@ ExecutionRoutes @@ RecommendationRoutes @@ IncidentRoutes
  @@ FindingRoutes @@ AssessmentRoutes @@ FirewallRoutes @@ PrefixRoutes @@ BgpRoutes
  @@ TrustRoutes @@ LearningReads @@ LearningChanges
==============================================================================
