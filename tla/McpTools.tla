------------------------------- MODULE McpTools -------------------------------
(***************************************************************************)
(* The tools of src/mcp as data: the scopes the server asks of its own     *)
(* configuration before it calls the Agent API (every set of "needs" must  *)
(* be met by one of its members) and the handlers of ApiRoutes it calls.   *)
(* A tool's arguments and what it makes of the answers are left out.       *)
(***************************************************************************)
EXTENDS TLC

Tool(needs, routes) == [needs |-> needs, routes |-> routes, learning |-> FALSE]
Reads(scope, route) == Tool({{scope}}, {route})

AnyIncident == {"incident:read", "incidents:read"}
IncidentTool(route) == Tool({AnyIncident}, {route})

(* Learning tools use a credential of their own and the exact scope.       *)
LearningTool(scope, route) ==
  [needs |-> {{scope}}, routes |-> {route}, learning |-> TRUE]

LearningTools ==
  [ get_learning_capabilities_v1 |-> LearningTool("learning:read", "capabilities"),
    query_learning_lessons_v1    |-> LearningTool("learning:read", "query"),
    propose_learning_lesson_v1   |-> LearningTool("learning:propose", "propose"),
    revise_learning_lesson_v1    |-> LearningTool("learning:propose", "revise"),
    attach_learning_record_v1    |-> LearningTool("learning:propose", "attach"),
    get_learning_records_v1      |-> LearningTool("learning:read", "records") ]

(* get_status asks for two scopes and joins two calls.                     *)
StatusTools ==
  [ get_status             |-> Tool({{"system:read"}, AnyIncident},
                                    {"agent_status", "agent_incidents"}),
    get_agent_status       |-> Reads("system:read", "agent_health_status"),
    get_agent_context      |-> Reads("context:read", "agent_context"),
    get_decisions          |-> Reads("decision:read", "agent_decisions"),
    get_provider_status    |-> Reads("provider:read", "agent_provider_status"),
    get_operations_summary |-> Reads("operations:read", "agent_operations_summary"),
    get_daily_operations_briefing |->
        Reads("operations:briefing", "agent_operations_briefing") ]

OperationsTools ==
  [ get_operations_recommendations |->
        Reads("operations:recommend", "agent_operations_recommendations"),
    get_decision_history   |-> Reads("operations:recommend", "agent_decision_history"),
    get_health_overview    |-> Reads("operations:read", "agent_operations_summary"),
    list_events            |-> Reads("events:read", "agent_events"),
    list_incidents         |-> IncidentTool("agent_incidents"),
    get_incident           |-> IncidentTool("agent_incident_detail"),
    get_incident_details   |-> IncidentTool("agent_incident_detail"),
    get_incident_timeline  |-> IncidentTool("agent_incident_timeline"),
    get_incident_relations |-> IncidentTool("agent_incident_relations") ]

SecurityTools ==
  [ get_security_overview     |-> Tool({{"security:read"}, AnyIncident},
                                       {"agent_security_overview", "agent_incidents"}),
    get_security_posture      |-> Reads("security:read", "agent_security_posture"),
    get_knowledge_context     |-> Reads("knowledge:read", "agent_knowledge"),
    list_security_findings    |-> Reads("security:read", "agent_findings"),
    list_security_assessments |-> Reads("assessment:read", "agent_security_assessments"),
    list_security_decisions   |-> Reads("policy-decision:read", "agent_security_decisions"),
    get_firewall_status       |-> Reads("firewall:read", "agent_firewall_status"),
    get_trust_status          |-> Reads("network:read", "agent_trust") ]

(* The overview is all four answers or an error.                           *)
NetworkTools ==
  [ get_network_overview |->
        Tool({{"network:read"}}, {"agent_asn", "agent_prefixes", "agent_bgp", "agent_rpki"}) ]

HistoryTools ==
  [ get_incident_replay    |-> Reads("incident:replay", "agent_incident_replay"),
    get_operations_history |-> Reads("history:read", "agent_history_summary"),
    get_security_briefing  |-> Reads("security:briefing", "agent_security_briefing"),
    get_system_graph       |-> Reads("system:graph:read", "agent_system_graph"),
    list_workflows         |-> Reads("workflow:read", "agent_workflows"),
    get_workflow_status    |-> Reads("workflow:read", "agent_workflow_detail"),
    get_workflow_history   |-> Reads("workflow:read", "agent_workflow_runs"),
    list_connectors        |-> Reads("connector:read", "agent_connectors") ]

ExecutionTools ==
  [ get_connector_status       |-> Reads("connector:read", "agent_connector_health"),
    get_connector_capabilities |->
        Reads("connector:read", "agent_connector_capabilities"),
    list_actions            |-> Reads("action:read", "agent_actions"),
    get_execution_status    |-> Reads("execution:read", "agent_execution_detail"),
    list_pending_executions |-> Reads("execution:read", "agent_executions"),
    get_operations_state    |-> Reads("operations:state", "agent_operations_state"),
    get_pending_approvals   |-> Reads("execution:read", "agent_executions"),
    get_execution_history   |-> Reads("execution:read", "agent_executions"),
    get_connector_health    |-> Reads("connector:read", "agent_connectors") ]

Tools ==
  LearningTools @@ StatusTools @@ OperationsTools @@ SecurityTools @@ NetworkTools
  @@ HistoryTools @@ ExecutionTools

(* parse_scopes: what CLAWFORGE_MCP_SCOPES may name.                       *)
AllowedScopes ==
  { "system:read", "events:read", "incident:read", "incidents:read", "context:read",
    "decision:read", "provider:read", "operations:read", "operations:briefing",
    "operations:recommend", "security:read", "knowledge:read", "network:read",
    "incident:replay", "history:read", "security:briefing", "system:graph:read",
    "workflow:read", "workflow:approve", "connector:read", "action:read",
    "execution:read", "operations:state", "assessment:read", "policy-decision:read",
    "firewall:read", "read", "learning:read", "learning:propose" }
==============================================================================
