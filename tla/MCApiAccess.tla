---------------------------- MODULE MCApiAccess ----------------------------
EXTENDS ApiAccess

CONSTANTS a, b, m, root, vera, s0, t0, tm, tl, k1, uli

(* One handler for each order of steps among those an administrator calls;  *)
(* roles and scopes are told apart by the other credentials and the tools.  *)
ForAdmins == {h \in DOMAIN Routes : Routes[h].auth \in {"admin", "none"}}
Alike(g, h) == Routes[g].auth = Routes[h].auth /\ Routes[g].steps = Routes[h].steps
Distinct == {CHOOSE g \in ForAdmins : Alike(g, h) : h \in ForAdmins}

Accounts == (root :> "Administrator") @@ (vera :> "Approver") @@ (uli :> None)

Cred(kind, user, scopes) == [state |-> "live", kind |-> kind, user |-> user, scopes |-> scopes]
Issued ==
     (s0 :> Cred("session", root, {})) @@ (t0 :> Cred("token", vera, {}))
  @@ (tm :> Cred("agent", None, {})) @@ (tl :> Cred("agent", None, {"learning:read", "learning:propose"}))
  @@ (k1 :> Unissued)

Setup(uses, called, granted) ==
  [ calls |-> uses, tools |-> called, scopes |-> granted,
    accounts |-> Accounts, creds |-> Issued, batch |-> 2,
    learning |-> TRUE, onboarded |-> {tl} ]

Handlers ==
  Setup((a :> (Distinct \X {s0})
              \cup {<<"admin_alerts", t0>>, <<"admin_alert_status", t0>>,
                    <<"agent_connectors", tl>>, <<"query", tl>>, <<"review", tl>>,
                    <<"admin_alerts", k1>>, <<"store_internal_analysis", None>>})
          @@ (b :> {<<"admin_rotate_token", s0>>}),
        {}, {"system:read"})

(* Before the first account.                                               *)
Fresh ==
  [Setup((a :> {<<"admin_bootstrap", None>>}) @@ (b :> {<<"admin_bootstrap", None>>}),
         {}, {"system:read"})
     EXCEPT !.accounts = [u \in Users |-> None],
            !.creds = [k \in Creds |-> IF k \in {s0, k1} THEN Unissued ELSE Issued[tm]]]

(* A token that may read everything tries what writes.                     *)
Wildcard ==
  [Setup((a :> ({"propose", "review", "admin_approve_workflow"} \X {tm})) @@ (b :> {}),
         {}, {"read", "workflow:approve"}) EXCEPT !.onboarded = {tm}]

(* More rows wait than a flush takes.                                      *)
Backlog ==
  [Setup((a :> {<<"propose", tl>>, <<"query", tl>>}) @@ (b :> {<<"admin_alerts", t0>>}),
         {}, {"system:read"}) EXCEPT !.batch = 1]

ToolsWith(scopes, beside) ==
  Setup((a :> beside) @@ (b :> {}), DOMAIN Tools, scopes)

(* Learning is switched off, or its token has not been onboarded yet.       *)
Unprepared ==
  {[ToolsWith({"learning:read", "learning:propose"}, {<<"review", tl>>})
      EXCEPT !.learning = on, !.onboarded = IF on THEN {} ELSE {tl}] : on \in BOOLEAN}

Revocation == {<<"admin_revoke_agent_token", s0>>}

(* Every scope alone, and the tools that need two beside a revocation.      *)
Setups ==
  {Handlers, Fresh, Wildcard, Backlog}
    \cup Unprepared
    \cup {ToolsWith(s, Revocation) : s \in {{"security:read", "incident:read", "learning:propose"}}}
    \cup {ToolsWith({s}, {}) : s \in AllowedScopes}
============================================================================
